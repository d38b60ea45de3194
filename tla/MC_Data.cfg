SPECIFICATION DataFairSpec
CONSTANTS
    Objects = {o1, o2, o3}
    Stages = 3
    Mappers = {m1, m2, m3, m4}
    Starts = 2
    CleanupFns = {}
    Addresses = {a1, a2, a3}
    Rolls = {1, 2}
    Subscribers = {1, 2}
    Updates = 3
    Nodes = {n1, n2, n3}
    Data = {1, 2, 3}
    Keys = {1, 2}
    NULL = NULL
    LockThreads = {t1, t2, t3}
    NoThread = NoThread
    MaxDepth = 2
    Rounds = 2
INVARIANTS
    DataTypeOK
    NothingLost
    LinksAlive
    AssertsHold
    CountersExact
    NoLostWakeup
PROPERTIES
    CallsCorrect
    Completes
    ImplementsReadersWriters
