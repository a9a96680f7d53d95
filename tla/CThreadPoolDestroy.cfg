CONSTANTS
    max_thread_num = 1
    NumTasks = 1
SPECIFICATION FairSpec
PROPERTIES
    DestroyReturns
CHECK_DEADLOCK FALSE
