SPECIFICATION Spec
CONSTANTS
    Requests = {r1, r2}
    Chunkings = {2}
    Parallel = {2}
    MaxCrashes = 0
    MaxDamages = 0
    MaxStrays = 0
    Absent = Absent
INVARIANTS CompletedIsWhole
