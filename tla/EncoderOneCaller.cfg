\* One caller that calls any method in any order, as long as the process lives.
SPECIFICATION FairEncSpec
CONSTANTS
    Callers = {gl}
    MaxContexts = 2
    MaxSessions = 2
    MaxQueue = 3
INVARIANTS
    TypeOK
    EncoderUsedOnlyWhileOpen
    HandlersFindEncoder
    ReleasedAtExit
    OneEncoderThread
    FenceHonest
PROPERTY
    QuitEndsThread
