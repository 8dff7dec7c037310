SPECIFICATION Spec
CONSTANTS
    Images = {"sound", "broken", "nofile"}
    Objects = {"p1", "p2", "r1", "v1"}
    Startup <- MCStartup
    Content <- MCContent
    MaxUid = 1
    Budget <- AllButDrain
    PodLag = TRUE
INVARIANTS
    TypeOK
    PodImpliesMarked
    InvalidHasMessage
    ProfilesComplete
    Inductive
PROPERTY
    StatusSteps
CHECK_DEADLOCK FALSE
