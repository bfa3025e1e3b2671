SPECIFICATION FairSpec
CHECK_DEADLOCK FALSE
CONSTANTS
    w1 = w1
    w2 = w2
    NoConn = NoConn
    Conns = {1, 2}
    Workers = {w1, w2}
    Fds = {0, 1}
    MAX_CONNECTIONS = 2
    HeaderCap = 2
    MaxBody = 1
    Lengths <- MCLengths
    Kinds = {"route", "unknown"}
    IdleLimit = 0
    TimeModulus = 16
INVARIANTS
    NoDanglingConn
    OneOwner
    OwnDescriptor
    WithinBuffers
PROPERTIES
    KeptAlive
    IdleEnds
