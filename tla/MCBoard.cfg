SPECIFICATION Spec
CONSTANTS
    Unknown = Unknown
    NormalTail <- MCNormalTail
    TheLeague <- MCLeague
    Players <- MCPlayers
    IdMap <- MCIdMap
    Pools <- MCPools
    Lineups <- MCLineups
    UserSeats <- MCSeats
    Hashes <- MCHashes
    BoardDepth = 2
    MinPerPosition = 1
    RecentPicks = 3
    Null = Null
    PlayoffWeeks = {2}
    MeaningfulTouches = 5
    DraftSeason = 5
    Wanted = "half_ppr"
    PoolLimit = 2
    FirstStores <- MCFirstStores
    Imports <- MCImports
INVARIANTS
    BetterProjectionRanksHigher
    MissingDataInventsNothing
    NoPositionLooksEmpty
    NeedIsExactWhenNested
    FamiliesAreToldApart
    TheMarketSurvivesTheCut
    LandingSpotsFollowTheCoach
PROPERTIES
    ValueIsSteady
CHECK_DEADLOCK FALSE
