CONSTANTS
    Channels = {a, b}
    None = None
    ToTransfer = {b}
    MaxVersion = 2
    UnattendedBoot = TRUE
SPECIFICATION FairSpec
PROPERTY NoWalletOverwritten
