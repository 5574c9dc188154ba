\* The class doc lets arbitrary threads post; two of them suffice to refute it.
SPECIFICATION EncSpec
CONSTANTS
    Callers = {ui, gl}
    MaxContexts = 1
    MaxSessions = 2
    MaxQueue = 2
INVARIANT
    HandlersFindEncoder
