SPECIFICATION Spec
CONSTANTS
    a = a
    b = b
    c = c
    d = d
    Leagues <- MCLeagues
    PoolSizes = {5, 20}
    MaxAdvance = 7
    MaxResets = 2
    TheLeague <- MCLeagueValue
    Players <- MCPlayers
    ProviderPicks <- MCPicks
    MaxBatch = 2
    q1 = q1
    q2 = q2
    o1 = o1
    o2 = o2
    s1 = s1
    Requests = {q1, q2}
    Objects = {o1, o2}
    DraftSlots = {s1}
    Nothing = Nothing
    MaxPicks = 1
    MaxEvictions = 1
    MaxRestarts = 1
SYMMETRY Symmetric
INVARIANTS
    OnlyTheUserPicksForTheUser
    TurnMeansOnTheClock
    EveryPickIsToldUnlessDry
    CompleteMeansEveryPickMade
    ArrivalOrderIrrelevant
    PollerFeedsTheBoardUnlessStranded
    BoardIsWritten
    SeatIsKept
PROPERTIES
    BoardNeverGoesBack
CHECK_DEADLOCK FALSE
