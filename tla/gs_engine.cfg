SPECIFICATION LifeSpec
CONSTANTS
    MaxSpawns = 2
    MaxStarts = 2
INVARIANTS
    StopReleasesAll
    ClosedHubHidden
PROPERTIES
    ReaderRebinds
    RespawnRewired
