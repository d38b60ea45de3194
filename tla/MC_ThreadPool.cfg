\* Two threads; of two dispatchers only d1 waits for its work.
CONSTANTS
    Workers = {w1, w2}
    Dispatchers = {d1, d2}
    Blocking = {d1}
    NULL = NULL
    Rounds = 3
SPECIFICATION FairSpec
INVARIANTS TypeOK WorkDoneOnce
PROPERTIES DispatchServed
