SPECIFICATION FairSpec
CONSTANTS
    Device = {d1, d2}
    Key = {k}
    MaxWrites = 2
    MaxFaults = 1
    MaxOverlaps = 1
INVARIANTS
    TypeOK
    SyncedMeansSame
PROPERTIES
    OverwritesOnlyOlder
    Converges
    AllKeysSyncEnds
