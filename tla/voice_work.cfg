SPECIFICATION WorkSpec
CONSTANTS
    MaxTurns = 5
    d1 = d1
    d2 = d2
    d3 = d3
    VoiceBills = {d1, d2, d3}
    Alike <- TwoOfACustomer
    Sessions = {s1, s2}
    VoiceTurns = {t1, t2}
    NoBill = NoBill
    MaxCommands = 4
    MaxVoiceFaults = 1
SYMMETRY TurnSymmetry
INVARIANTS WorkTypeOK RiskyWasApproved PendingIsLastAsked
PROPERTIES DroppedStaysDropped VoiceDraftIsBookedOnce
CHECK_DEADLOCK FALSE
