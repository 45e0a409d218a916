SPECIFICATION Spec
CONSTANTS
    HeaderLen = 2
    WordSize = 9
    Overhead = 1
    ItemSize = 2
    BlockSize = 3
    AddHeader = TRUE
    MaxItems = 2
    MaxInput = 10
INVARIANTS
    NoFaultBeforeStop
    Partition
    BlockSizes
    MetadataExact
CHECK_DEADLOCK FALSE
