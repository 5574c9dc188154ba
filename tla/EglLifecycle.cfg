SPECIFICATION Spec
CONSTANTS
    MaxContexts = 3
    MaxQueue = 4
INVARIANTS
    RecreateSucceeds
    DrawsInOwnContext
    NothingLeftInEgl
