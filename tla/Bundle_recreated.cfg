SPECIFICATION FairSpec
CONSTANTS
    Images = {"small"}
    Objects = {"p1", "r1"}
    Startup <- MCStartup
    Content <- MCContent
    MaxUid = 2
    Budget <- NoFaults
    PodLag = FALSE
PROPERTY
    ValidIsUsable
CHECK_DEADLOCK FALSE
