\* A thread asks again while the last one leaves.
CONSTANTS
    Readers = {r1, r2}
    Writers = {w1}
    n_readers_max_limit = 2
    n_writers_max_limit = 1
    strict_alternation = FALSE
    ShutsDown = TRUE
    Rounds = 2
SPECIFICATION FairSpec
INVARIANTS FreedByLastThread
