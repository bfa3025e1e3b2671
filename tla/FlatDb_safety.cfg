SPECIFICATION FairSpec
CONSTANTS
    Ids = {1, 2}
    MetaLens = {5}
    Dimension = 1
    InitialCapacity = 1
    InitialQueues <- MCQueue
    Faults = {"torn", "seek", "patch", "flush", "tmp_open", "tmp_write", "rename", "fopen", "clear", "remove"}
    TornBytes = {20}
    MaxInserts = 3
INVARIANTS
    IInv
    MemoryMatchesDisk
    SessionDurable
PROPERTIES
    NoResurrection
    ImplementsStore
    DueIsExecuted
