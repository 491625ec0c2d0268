CONSTANTS
    None = None
    Videos = 3
    MaxBalance = 8
    MaxCalls = 4
    ExtraRefill = 0
SPECIFICATION Spec
INVARIANTS TypeOK OneChannel SetupMeansChannel PaidSetup
PROPERTIES ClaimIdIsKept
