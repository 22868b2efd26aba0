SPECIFICATION FairSpec
CONSTANTS
    a = a
    b = b
    c = c
    TheLeague <- SmallLeague
    Players <- SmallPlayers
    StrayPicks <- OneStray
    Garbled = TRUE
    MaxFailures = 3
    MetadataEvery = 2
    MaxCorrections = 1
INVARIANTS
    TellingMeansWritten
PROPERTIES
    StopIsObeyed
    PicksReachTheBoard
    KeepsItsPromise
CHECK_DEADLOCK FALSE
