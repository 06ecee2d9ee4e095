SPECIFICATION MCFairCache
CONSTANTS
    Threads = {p, q}
    p = p
    k1 = k1
    k2 = k2
    k3 = k3
    g = g
    Keys = {k1, k2, k3}
    Triggers <- MCTriggers
    TriggerSets <- MCTriggerSets
    Values = {v}
    Deadlines = {0, 5}
    MaxTime = 1
    NoEntry = NoEntry
    Limit = 2
INVARIANTS CacheInv
PROPERTIES Implements RightEntryGoes LockReleased
