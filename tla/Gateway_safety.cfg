SPECIFICATION FairSpec
CHECK_DEADLOCK FALSE
CONSTANTS
    s1 = s1
    s2 = s2
    Tables <- MCTables
    NameMax = 1
    Sessions = {s1, s2}
    MAX_AUTH_KEYS = 1
    MAX_OPEN_TABLES = 1
    MaxInits = 2
    Faults = {"crash", "meta", "tmp", "full", "rename", "append"}
INVARIANTS
    KeyOpensOwnTable
    ToldKeyStored
    ServesCurrentTable
PROPERTY
    KeyComesToWork
