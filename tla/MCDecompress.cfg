SPECIFICATION MCSpec
CONSTANTS
    HeaderLen = 2
    WordSize = 8
    Overhead = 1
    ItemSize = 2
    SendMsg = TRUE
    BufferSize = 1
    MaxItems = 2
    MaxSent = 5
    MaxBlock = 3
    FrameLen = 2
INVARIANTS
    NeverOverruns
    IntactBlocksSurvive
    MessagesMatchStream
PROPERTY
    Drains
