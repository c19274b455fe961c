SPECIFICATION Spec
CONSTANTS
    Tenants = {s1, s2}
    Requests = {r1, r2, r3}
    LastFY = 1
    MaxSeq = 3
    NoRequest = NoRequest
SYMMETRY RequestSymmetry
INVARIANTS TypeOK Gapless NumbersUnique
CHECK_DEADLOCK FALSE
