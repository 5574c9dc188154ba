SPECIFICATION PipelineSpec
CONSTANTS
    Sizes = {2}
    Levels = {0, 255}
    Fps = 3
    VideoLen = 2
    Second = 10
    Words = 64
    Spent = {0, 3, 5}
INVARIANT
    NoSleepOnlyWhenLate
