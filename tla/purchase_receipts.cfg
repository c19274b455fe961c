SPECIFICATION Spec
CONSTANTS
    Lines = {i1, i2}
    Requests = {r1, r2}
    Orders <- TwoUnits
    MaxNamed = 2
    MaxEdits = 1
    EditsAlone = TRUE
SYMMETRY DeskSymmetry
INVARIANTS TypeOK ReceivedIsComplete StockFollowsReceipts
PROPERTY OnlyOverlapOrRepeatExceeds
