CONSTANTS
    Threads = {t1, t2}
    Blocks = {b1, b2}
    NumClasses = 2
    Allocs = 2
    FillsBlock = TRUE
    MaxToggles = 2
    MaxLeaks = 1
    Nil = Nil
SPECIFICATION FairSpec
INVARIANTS
    EachBlockInOnePlace
    DumpIsExact
    NoUnprovokedAbort
PROPERTIES
    Finishes
    ImplementsAllocator
\* the program ends after the destructor, or aborts
CHECK_DEADLOCK FALSE
