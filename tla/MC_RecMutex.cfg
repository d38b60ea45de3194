\* Three threads (a holder, a sleeper and a newcomer), two rounds of locks of
\* depth up to two.
CONSTANTS
    Threads = {t1, t2, t3}
    NoThread = NoThread
    MaxDepth = 2
    Rounds = 2
    CountMod = 4
SPECIFICATION FairSpec
INVARIANTS TypeOK AssertsHold NoLostWakeup
PROPERTIES Termination ImplementsRecLock
