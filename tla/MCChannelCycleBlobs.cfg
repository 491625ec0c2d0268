CONSTANTS
    Channels = {a, b}
    None = None
    ToTransfer = {b}
    MaxVersion = 2
    UnattendedBoot = FALSE
SPECIFICATION Spec
INVARIANT NoBlobLost
