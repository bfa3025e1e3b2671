SPECIFICATION FairSpec
CHECK_DEADLOCK FALSE
CONSTANTS
    Scale = 12
    Inputs <- MCInputs
INVARIANTS
    EveryRecordOnce
    NearestWhenSettled
PROPERTIES
    CostNeverRises
    SettlesByItself
