CONSTANTS
    POOL_SIZE = 112
    HDR = 16
    LINKED_POOL = 180
    LINKED_HDR = 32
    class_limits <- Limits
    Requests = {5, 20, 60}
    BINS_POOL = 228
    NUM_32 = 3
    NUM_64 = 2
SPECIFICATION StrategiesSpec
INVARIANTS
    PoolStaysTiled
    FreeBlocksAreListed
    FreeNeighboursMerged
PROPERTIES
    FreeAlwaysReturns
    StrategiesImplementHeap
\* the client may stop when the pool is full
CHECK_DEADLOCK FALSE
