SPECIFICATION FairSpec
CONSTANTS
    IPs = {i, j}
    Callers = {producer, p, q}
    Producer = producer
    NoIP = NoIP
    MaxAttempts = 2
    Ladder = 3
    MaxRefresh = 2
INVARIANTS TypeOK HoldersBounded DownloadedMeansFile GivesUpAtLadderEnd NotTwiceInARow
PROPERTIES InterruptFreesCallers
