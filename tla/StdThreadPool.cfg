CONSTANTS
    threads = 2
    NumTasks = 3
    Nested = {2, 3}
SPECIFICATION FairSpec
INVARIANTS
    DestructorDrains
PROPERTIES
    EveryFutureReady
    DestructorReturns
    ImplementsTaskPool
