SPECIFICATION MCSpec
CONSTANTS
    HeaderLen = 2
    WordSize = 4
    Overhead = 1
    Names = {a, b}
    File = a
    ItemSize = 1
    MaxItems = 2
    StreamRoom = 5
    BufferSize = 2
    SeekPoints = {1}
    NULL = NULL
    FrameLen = 2
    Layouts <- MCLayouts
    Base <- MCBase
    MaxCalls = 1
PROPERTY
    SeeksToSample
CHECK_DEADLOCK FALSE
