CONSTANTS
    BUFFER_SIZE = 3
    Items = 7
    Named = TRUE
    MaxCrashes = 2
    Rounds = 2
    Crowd = 2
    Fragments = 2
    MaxKills = 1
    MAX_LOG_COUNT = 3
    Flushed = 2
    Unknown = Unknown
    MaxLogged = 6
    Runs = {r1, r2, r3}
    MaxEdits = 1
    Texts <- MCTexts
    Room = 4
    Inputs <- MCInputs
    MaxExpired = 4
SPECIFICATION DemosSpec
INVARIANTS
    SlotsConserved
    OutputAsPromised
    NothingUsedAfterDestroy
    SavedWhenIdle
    SearchFindsWhatIsShown
    ExpirationsAddUp
PROPERTIES
    ImplementsBoundedFifo
    EveryDemoEnds
    ImplementsBoundedLog
    RunsDoTheirPart
\* the demos end
CHECK_DEADLOCK FALSE
