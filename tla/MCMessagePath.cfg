SPECIFICATION FairSpec
CONSTANTS
    HeaderLen = 2
    WordSize = 9
    Overhead = 1
    InItemSize = 1
    OutItemSize = 2
    BlockSize = 3
    AddHeader = TRUE
    SendMsg = FALSE
    BufferSize = 2
    InMaxItems = 2
    OutMaxItems = 2
    MaxInput = 12
INVARIANTS
    TypeOK
    InOrder
    NoFault
PROPERTIES
    PipeSpec
    HoldsBackLittle
