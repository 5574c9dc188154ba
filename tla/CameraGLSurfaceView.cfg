\* Three surfaces, two recordings, two clicks under way.
SPECIFICATION FairSpec
CONSTANTS
    GL = gl
    Callers = {gl}
    MaxContexts = 3
    MaxSessions = 2
    MaxQueue = 4
    MaxEvents = 2
INVARIANTS
    ViewTypeOK
    FrameContextCurrent
    NoOrphanRecording
    NoDataOnlyAfterZeroFrame
    CameraFollowsScreen
PROPERTIES
    EncSpec
    MessagesSpec
    StopEndsRecording
    GLPassEnds
