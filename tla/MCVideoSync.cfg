SPECIFICATION FairSpec
CONSTANTS
    Videos = {v1, v2}
    Workers = {w1, w2}
    None = None
    Recent = {v1, v2}
    Old = {}
    MaxTries = 2
    UpgradeMetadata = FALSE
    RemoveDBUnpublished = FALSE
    MaxRuns = 1
    MaxClaims = 1
    MaxNames = 2
INVARIANTS TypeOK NoPublishWhileRefilling CleanEndIsComplete
PROPERTIES SyncEnds
