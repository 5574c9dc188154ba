SPECIFICATION Spec
CONSTANTS
    GL = gl
    Callers = {gl}
    MaxContexts = 2
    MaxSessions = 2
    MaxQueue = 3
    MaxEvents = 2
PROPERTY
    StartedThreadAcceptsMessages
