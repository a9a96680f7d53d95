CONSTANTS
    max_thread_num = 3
    NumTasks = 4
SPECIFICATION FairSpec
INVARIANTS
    FifoExactlyOnce
    AssertionsHold
    AtMostOneLateTask
    DestroyWaitsForRunning
PROPERTIES
    TaskRunsOrShutdown
    ImplementsTaskPool
\* pool_destroy can be left waiting for a thread that nobody wakes
CHECK_DEADLOCK FALSE
