SPECIFICATION FairSpec
CONSTANTS
    Images = {"small"}
    Objects = {"p1", "r1"}
    Startup <- MCStartup
    Content <- MCContent
    MaxUid = 1
    Budget <- OneApiFault
    PodLag = FALSE
PROPERTY
    SoundBecomesValid
CHECK_DEADLOCK FALSE
