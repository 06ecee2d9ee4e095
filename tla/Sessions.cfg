SPECIFICATION MCSpec
CONSTANTS
    Requests = {r1, r2}
    Users = {1, 2}
    Codes = {1, 2}
    Sids = {s1, s2}
    Timeout = 2
    MaxTime = 3
    MaxCrashes = 1
    MaxLost = 1
    None = None
CHECK_DEADLOCK FALSE
SYMMETRY MCSymmetry
INVARIANTS CaptchaOnce SessionKept NoFileLeft NewIdOnLogin
