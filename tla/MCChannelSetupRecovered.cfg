CONSTANTS
    None = None
    Videos = 3
    MaxBalance = 8
    MaxCalls = 2
    ExtraRefill = 0
SPECIFICATION Spec
INVARIANT RecoveredIdIsUsed
