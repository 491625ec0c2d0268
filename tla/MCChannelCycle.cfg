SPECIFICATION FairSpec
CONSTANTS
    Channels = {a, b}
    None = None
    ToTransfer = {b}
    MaxVersion = 2
    UnattendedBoot = FALSE
INVARIANTS TypeOK WalletUnderItsKey NewestWalletKept DaemonServesChannel CleanEndMeansStored
PROPERTIES NoRollback TransferCompleteIsEarned ShutdownEnds ImplementsCustody
