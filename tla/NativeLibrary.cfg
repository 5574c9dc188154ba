SPECIFICATION NativeSpec
CONSTANTS
    Sizes = {2, 4, 6}
    Levels = {0, 255}
    Fps = 3
    VideoLen = 2
    Second = 10
    Words = 64
    Spent = {0, 3, 5}
    MaxRoles = 3
    MaxProbes = 2
INVARIANTS
    WritesInBounds
    PictureComplete
    TimesIncrease
    OwnNodeOnly
    PortsKeepTheirOwn
PROPERTY
    TestReturns
