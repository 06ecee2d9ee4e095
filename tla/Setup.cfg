SPECIFICATION Spec
CONSTANTS
    Requests = {r1, r2}
    Forms = {f1, f2}
    Names = {n1, n2}
    Posts = {p1}
    Versions = {1, 2, 3}
    MaxCrashes = 1
    None = None
SYMMETRY MCSymmetry
INVARIANTS ConfiguredWhole UpgradedWhole CachedWhole
