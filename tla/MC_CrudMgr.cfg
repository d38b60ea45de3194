\* Two readers, a writer and two deleters on two nodes, and a creator.
CONSTANTS
    Readers = {r1, r2}
    Writers = {w1}
    Deleters = {d1, d2}
    Creators = {c1}
    DataNodes = {n1}
    IdleNodes = {n2}
    NewNodes = {n3}
    NoNode = NoNode
    Rounds = 1
SPECIFICATION Spec
INVARIANTS TypeOK StatesExact AccessExclusive
