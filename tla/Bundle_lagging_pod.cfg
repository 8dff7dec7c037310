SPECIFICATION Spec
CONSTANTS
    Images = {"small"}
    Objects = {"p1", "r1"}
    Startup <- MCStartup
    Content <- MCContent
    MaxUid = 1
    Budget <- NoFaults
    PodLag = TRUE
INVARIANT
    PendingMeansUnprocessed
CHECK_DEADLOCK FALSE
