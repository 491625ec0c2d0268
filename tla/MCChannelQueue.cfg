SPECIFICATION Spec
CONSTANTS
    Channels = {c, d}
    Videos = {v}
    None = None
    Tabs = 2
    Limit = 2
    UpgradeMetadata = TRUE
    RemoveDBUnpublished = TRUE
    Modes <- MCModes
    MaxFreezes = 1
    MaxStarts = 2
SYMMETRY Symmetry
INVARIANTS TypeOK NeverThreeTimes LimitKept InterruptIsLast
PROPERTIES PublishedStaysPublished
