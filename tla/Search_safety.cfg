SPECIFICATION Spec
CHECK_DEADLOCK FALSE
CONSTANTS
    FLT_MAX = 4
    ReplyRoom = 2
    Inputs <- MCInputs
INVARIANTS
    ResultsGenuine
    ResultsNearest
    ProbesNearest
    FullProbeIsExact
    MetadataOwned
    ReplyComplete
