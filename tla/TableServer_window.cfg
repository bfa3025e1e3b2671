SPECIFICATION Spec
CONSTANTS
    Ids = {1, 2}
    MetaLens = {0, 9}
    Dimension = 1
    InitialQueue <- MCQueue
    MaxInserts = 2
    MaxTrains = 0
    TornBytes = {}
    Faults = {}
INVARIANTS
    InsertsDurable
