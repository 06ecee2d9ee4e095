SPECIFICATION MCFairUploads
CONSTANTS
    Requests = {r1, r2}
    Chunkings = {1, 2, 3}
    Parallel = {1, 2}
    MaxCrashes = 1
    MaxDamages = 1
    MaxStrays = 1
    Absent = Absent
INVARIANTS PartsWhole WholeUnlessOverlap ExistsIsWhole
PROPERTIES UploadedInTheEnd
