CONSTANTS
    n_threads = 3
    NumTasks = 4
    Awaited = {2}
SPECIFICATION FairSpec
INVARIANTS
    FifoExactlyOnce
    ShutdownEndsTheWork
PROPERTIES
    SubmittedTaskRuns
\* shutdown can be left waiting for a worker that nobody wakes
CHECK_DEADLOCK FALSE
