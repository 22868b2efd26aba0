SPECIFICATION Spec
CONSTANTS
    Processes = {p1, p2}
    MaxAge = 1
    Tasks = {t1, t2}
    Keys = {k1}
    Limit = 2
    Spacing = 1
    CacheLife = 1
    DayLength = 4
    LastTick = 5
    None = None
    NA = NA
    NullTokens <- MCNullTokens
    Suffixes <- MCSuffixes
    MaxWeek = 5
    FantasyPositions <- MCFantasyPositions
    MinRegularGames = 2
    MinChartRows = 2
    Slots = {"cli", "web"}
    Batches <- MCBatches
    Frames <- MCFrames
    Floor <- MCFloor
    Season = 3
    MaxRuns = 3
INVARIANTS
    TornOnlyWhereTwoMet
    LicenceKeptButForWaiters
    HalfASyncIsNeverSeen
    RunningMeansAtWork
    OwnersIgnoreOrder
    HeadIsTheModels
    ImagesFindTheirSchema
    OnlyCreateAllIsInTheWay
CHECK_DEADLOCK FALSE
