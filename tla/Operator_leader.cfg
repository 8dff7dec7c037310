SPECIFICATION FairSpec
CONSTANTS
    MaxPods = 4
    Budget <- MCBudget
INVARIANTS
    TypeOK
    OneLeader
PROPERTIES
    OperatorsSpared
    EventuallyLed
CHECK_DEADLOCK FALSE
