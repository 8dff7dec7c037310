SPECIFICATION FairSpec
CONSTANTS
    Images = {"tiny", "nopull", "noname"}
    Objects = {"p1"}
    Startup <- MCStartup
    Content <- MCContent
    MaxUid = 2
    Budget <- CrashDrainStart
    PodLag = FALSE
INVARIANTS
    PendingMeansUnprocessed
    InductiveNoLag
PROPERTIES
    
    SoundBecomesValid
    NothingLeftBehind
    
    ImplementsStore
CHECK_DEADLOCK FALSE
