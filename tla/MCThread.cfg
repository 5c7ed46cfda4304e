CONSTANTS
    Main = main
    Worker = {w1, w2}
    N = 3
    Address = {a1, a2}
    Null = Null
SPECIFICATION Spec
INVARIANTS MutualExclusion NoLostUpdate StartersAccounted
PROPERTY Finishes
CHECK_DEADLOCK FALSE
