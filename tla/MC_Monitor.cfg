\* Three readers, of which two may read together, and two writers, while the
\* monitor may be shut down.
CONSTANTS
    Readers = {r1, r2, r3}
    Writers = {w1, w2}
    n_readers_max_limit = 2
    n_writers_max_limit = 1
    strict_alternation = FALSE
    ShutsDown = TRUE
    Rounds = 1
SPECIFICATION FairSpec
INVARIANTS TypeOK MonitorSound
PROPERTIES RequestsGranted ImplementsReadersWriters
