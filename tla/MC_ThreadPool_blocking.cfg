\* Two dispatchers that wait for their work.
CONSTANTS
    Workers = {w1, w2}
    Dispatchers = {d1, d2}
    Blocking = {d1, d2}
    NULL = NULL
    Rounds = 2
SPECIFICATION FairSpec
INVARIANTS SemaphoreKept
