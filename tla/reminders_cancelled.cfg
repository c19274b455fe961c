CONSTANTS
    r1 = r1
    Reminders <- OneReminder
    MaxAttempts = 2
    MaxTime = 1
    MaxMoves = 0
    MaxFaults = 0
SPECIFICATION Spec
CHECK_DEADLOCK FALSE
PROPERTY CancelledIsNotPicked
