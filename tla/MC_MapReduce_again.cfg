\* The same object is started twice; mr_demo.c registers no cleanup functions.
CONSTANTS
    Mappers = {m1, m2}
    Starts = 2
    CleanupFns = {}
SPECIFICATION Spec
INVARIANTS StartsPass
