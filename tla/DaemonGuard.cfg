CONSTANTS
    MaxWorkers = 2
    Limits = {1}
    Delays = {2}
    Counts = {0, 2}
    Pids = {1, 2}
    MaxForkFailures = 1
    MaxStreak = 0
SPECIFICATION FairSpec
INVARIANTS
    EveryProcessIsRecorded
    NoWorkerForgotten
PROPERTIES
    ZombiesAreReaped
    SigtermReachesWorkers
\* the guard may refuse its arguments, or crash
CHECK_DEADLOCK FALSE
