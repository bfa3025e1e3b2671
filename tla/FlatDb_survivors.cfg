SPECIFICATION Spec
CONSTANTS
    Ids = {1, 2}
    MetaLens = {5}
    Dimension = 1
    InitialCapacity = 1
    InitialQueues <- MCQueues
    Faults = {}
    TornBytes = {20}
    MaxInserts = 2
PROPERTY
    RewriteKeepsSurvivors
