\* A reader and two writers of one node.
CONSTANTS
    Readers = {r1}
    Writers = {w1, w2}
    Deleters = {}
    Creators = {}
    DataNodes = {n1}
    IdleNodes = {}
    NewNodes = {}
    NoNode = NoNode
    Rounds = 2
SPECIFICATION Spec
INVARIANT NobodyForgotten
