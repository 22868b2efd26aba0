SPECIFICATION HistorySpec
CONSTANTS
    d1 = d1
    d2 = d2
    d3 = d3
    t1 = t1
    t2 = t2
    t3 = t3
    h1 = h1
    Drafts = {d1, d2, d3}
    Tasks = {t1, t2, t3}
    Handlers = {h1}
    Lifespan = Lifespan
    NoTask = NoTask
    MaxPollers = 2
INVARIANTS
    OnePollerPerDraft
CHECK_DEADLOCK FALSE
