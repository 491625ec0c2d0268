SPECIFICATION FairSpec
CONSTANTS
    Videos = {v1, v2, v3}
    Supports = {s1, s2}
    Workers = {w1, w2}
    None = None
    PublicKey = TRUE
    MaxRuns = 2
INVARIANTS TypeOK ChannelWaitsForUpdates OnlyGoneStopsProducer TipIsCovered
PROPERTIES TransferEnds ImplementsHandover
