SPECIFICATION Spec
CONSTANTS
    Videos = {v1, v2}
    Workers = {w1}
    None = None
    Recent = {v1, v2}
    Old = {v1}
    MaxTries = 2
    UpgradeMetadata = TRUE
    RemoveDBUnpublished = TRUE
    MaxRuns = 3
    MaxClaims = 4
    MaxNames = 3
INVARIANTS NamesAreFree PublishedHasClaim DupesOnlyAfterLostAnswer
PROPERTIES IntegrityRepairs
