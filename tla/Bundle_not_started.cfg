SPECIFICATION FairSpec
CONSTANTS
    Images = {"small", "noname"}
    Objects = {"p1", "r1"}
    Startup <- MCStartup
    Content <- MCContent
    MaxUid = 1
    Budget <- NoFaults
    PodLag = FALSE
PROPERTY
    StartErrorsReported
CHECK_DEADLOCK FALSE
