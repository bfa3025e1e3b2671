SPECIFICATION FairSpec
CONSTANTS
    Ids = {1, 2}
    MetaLens = {9}
    Dimension = 1
    InitialQueue <- MCQueue
    MaxInserts = 3
    MaxTrains = 2
    TornBytes = {30}
    Faults = {"crash", "write", "jam", "save", "compact", "reopen"}
INVARIANTS
    AckedInMemory
    AckedOnDisk
    ArrayDescribesFile
    IndexCurrent
PROPERTY
    InsertAppears
