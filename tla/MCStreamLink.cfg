SPECIFICATION FairSpec
CONSTANTS
    HeaderLen = 2
    WordSize = 4
    Overhead = 1
    MaxItems = 4
    StreamRoom = 4
    BufferSize = 1
    MaxSent = 3
    MaxBlock = 2
    MaxFrame = 2
INVARIANTS
    TypeOK
    InStep
PROPERTIES
    FifoSpec
    AllArrive
