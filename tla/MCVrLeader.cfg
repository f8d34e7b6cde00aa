SPECIFICATION FairSpec
CONSTANTS
    NArms = 2
    DryRun = FALSE
    RateLimit = FALSE
    StaleAge = 0
    ResetAge = 1
    Arriving = {"finite", "inf"}
INVARIANTS
    IInv
    EnabledOnFreshTelemetry
PROPERTIES
    SilentTelemetryDisarms
    ReleaseClearsBadTarget
