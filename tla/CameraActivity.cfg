SPECIFICATION Spec
CONSTANTS
    MaxCameras = 3
INVARIANTS
    ReleasedWhilePaused
    NoLeakedCamera
    LentOnlyToRecorder
    PreviewHasSurface
    FirstVisitConsistent
