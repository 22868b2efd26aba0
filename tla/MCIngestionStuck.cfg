CONSTANTS
    None = None
    NA = NA
    NullTokens <- MCNullTokens
    Suffixes <- MCSuffixes
    MaxWeek = 5
    FantasyPositions <- MCFantasyPositions
    MinRegularGames = 2
    MinChartRows = 2
    Slots = {"cli", "web"}
    Batches <- MCBatches
    Frames <- MCFrames
    Floor <- MCFloor
    Season = 3
    MaxRuns = 3
SPECIFICATION IngestSpec
INVARIANT SyncNeverCollides
CHECK_DEADLOCK FALSE
