CONSTANTS
    POOL_SIZE = 240
    HDR = 32
    class_limits <- Limits
    Requests = {4, 20, 60}
SPECIFICATION Spec
INVARIANTS
    BinsHoldFreeBlocksOfTheirClass
CHECK_DEADLOCK FALSE
