SPECIFICATION Spec
CONSTANTS
    Sessions = {s1, s2, s3}
    Conns = {c1, c2, c3}
    Pools = {p1, p2}
    Limit = 2
    LifeTime = 1
    MaxTime = 3
    None = None
SYMMETRY MCSymmetry
INVARIANTS EveryConnectionOwned PoolInv
PROPERTIES IdleTimeBound
