CONSTANTS
    r1 = r1
    Reminders <- OneReminder
    MaxAttempts = 2
    MaxTime = 1
    MaxMoves = 1
    MaxFaults = 1
SPECIFICATION FairSpec
INVARIANT TypeOK
INVARIANT GivesUpAtLast
INVARIANT SendsBounded
INVARIANT PendingIsQueued
PROPERTY PendingIsServed
CHECK_DEADLOCK FALSE
