SPECIFICATION Spec
CONSTANTS
    Tenants = {s1, s2}
    Requests = {r1, r2}
    LastFY = 1
    MaxSeq = 3
    NoRequest = NoRequest
SYMMETRY RequestSymmetry
INVARIANT NumberIsFresh
CHECK_DEADLOCK FALSE
