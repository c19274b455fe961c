SPECIFICATION ChannelsSpec
CONSTANTS
    Requests = {q1, q2}
    Replays = {p1, p2}
    MaxWebFaults = 1
    Bills = {b1, b2, b3}
    WalkIns = {b1}
    Refused = {b3}
    Syncs = {s1, s2}
    MaxOutages = 2
    MaxMobileFaults = 1
    Refs = {u1, u2}
    Matched = {u1}
    Handlers = {h1, h2}
    DraftIds = {d1}
    Contents = {x1, x2}
    DraftRequests = {e1, e2, e3}
    MaxDraftFaults = 1
    BillPhotos = {f1}
    ShelfPhotos = {f2, f3}
    BillLines = {l1, l2, l3}
    ShelfNames = {n1}
    MaxTries = 2
    MaxStops = 1
INVARIANTS ChannelsTypeOK ConfirmedAsShown OrderIsStocked OneDraftPerName
PROPERTIES RequestIsDelivered BillIsDelivered NoticeIsDelivered DraftIsDelivered ScanIsOrdered QueuedIsBooked PhotoIsAnswered
CHECK_DEADLOCK FALSE
