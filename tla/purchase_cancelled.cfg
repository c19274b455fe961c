SPECIFICATION Spec
CONSTANTS
    Lines = {i1}
    Requests = {r1, r2}
    Orders <- OneUnit
    MaxNamed = 1
    MaxEdits = 0
    EditsAlone = TRUE
SYMMETRY DeskSymmetry
PROPERTY CancelledIsNotReceived
