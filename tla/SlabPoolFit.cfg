CONSTANTS
    Blocks = {b1, b2}
    SLAB_SIZES <- Sizes
    Requests <- Asked
    Wrap = 8
SYMMETRY Symmetry
SPECIFICATION Spec
\* the program ends after the pool was destroyed
CHECK_DEADLOCK FALSE
INVARIANTS
    BlockFitsRequest
