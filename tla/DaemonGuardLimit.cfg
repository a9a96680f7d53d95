CONSTANTS
    MaxWorkers = 1
    Limits = {2}
    Delays = {}
    Counts = {0}
    Pids = {1, 2}
    MaxForkFailures = 0
    MaxStreak = 4
SPECIFICATION FairSpec
INVARIANTS
    RestartsBounded
CHECK_DEADLOCK FALSE
