SPECIFICATION MCSpec
CONSTANTS
    HeaderLen = 2
    WordSize = 4
    Overhead = 1
    Names = {a, b}
    File = a
    Before <- Existing
    NULL = NULL
    MaxSent = 2
    MaxCalls = 2
    FrameLen = 2
PROPERTY
    OutputWhereTold
CHECK_DEADLOCK FALSE
