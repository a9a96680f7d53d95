CONSTANTS
    Blocks = {b1, b2, b3, b4}
    SLAB_SIZES <- Sizes
    Requests <- Asked
    Wrap = 8
SYMMETRY Symmetry
SPECIFICATION Spec
\* the program ends after the pool was destroyed
CHECK_DEADLOCK FALSE
INVARIANTS
    EachBlockInOnePlace
    ReuseBoundsTheHeap
    CountersAddUp
