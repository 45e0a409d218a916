SPECIFICATION TestSpec
CONSTANTS
    HeaderLen = 2
    WordSize = 20
    Overhead = 1
    BlockSize = 5
    QueueSize = 5
    BufferSize = 2
    Iterations = 3
    MaxFile = 6
INVARIANTS
    BuffersHold
    RoundTrip
CHECK_DEADLOCK FALSE
