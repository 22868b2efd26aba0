CONSTANTS
    Unknown = Unknown
    NormalTail <- MCNormalTail
    TheLeague <- MCLeague
    Players <- MCPlayers
    IdMap <- MCIdMap
    Pools <- MCPools
    Lineups <- MCLineups
    UserSeats <- MCSeats
    Hashes <- MCHashes
    BoardDepth = 2
    MinPerPosition = 1
    RecentPicks = 3
SPECIFICATION BoardSpec
INVARIANTS
    PickedPlayersLeaveTheBoard
CHECK_DEADLOCK FALSE
