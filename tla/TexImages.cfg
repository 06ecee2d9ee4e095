SPECIFICATION Spec
CONSTANTS
    Requests = {r1, r2, r3}
    Inodes = {f1, f2, f3, f4}
    MaxCrashes = 1
    Absent = Absent
INVARIANTS ShownIsWhole KeptIsWhole
