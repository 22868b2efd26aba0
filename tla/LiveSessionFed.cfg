SPECIFICATION SessionSpec
CONSTANTS
    q1 = q1
    q2 = q2
    o1 = o1
    o2 = o2
    s1 = s1
    Requests = {q1, q2}
    Objects = {o1, o2}
    DraftSlots = {s1}
    Nothing = Nothing
    MaxPicks = 1
    MaxEvictions = 1
    MaxRestarts = 1
INVARIANTS
    PollerFeedsTheBoard
CHECK_DEADLOCK FALSE
