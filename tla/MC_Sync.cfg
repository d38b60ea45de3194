SPECIFICATION SyncFairSpec
CONSTANTS
    BarrierThreads = {t1, t2, t3, t4}
    threshold = 3
    Rounds = 3
    PermitUsers = {u1, u2, u3, u4, u5}
    PERMIT_COUNT = 2
    Numbers = 7
    MaxResponse = 16
    Controllers = {c1, c2}
    Commands = 4
    QueueThreads = {t1, t2, t3}
    WqRounds = 3
    EastCars = {e1, e2}
    WestCars = {w1, w2}
    StrictReaders = {r1}
    StrictWriters = {w1}
    StrictRounds = 3
    Readers = {r1, r2, r3}
    Writers = {w1, w2}
    MaxReaders = 2
    MaxWriters = 1
    Citizens = {k1, k2, k3}
    Capacity = 1
    N_PHILOSOPHER = 4
    NULL = NULL
    Producers = {p1, p2, p3}
    Consumers = {c1, c2, c3}
    Q_DEFAULT_SIZE = 3
INVARIANTS
    SyncTypeOK
    RightOfWay
    SyncNoLostWakeup
    CountMatches
    NoLostWakeup
PROPERTIES
    ImplementsReadersWriters
    AllServed
    Reopens
    ImplementsCyclicBarrier
