SPECIFICATION Spec
CONSTANTS
    NArms = 1
    DryRun = FALSE
    RateLimit = TRUE
    StaleAge = 1
    ResetAge = 2
    Arriving = {"finite", "inf", "nan"}
INVARIANT EnabledMeansTelemetrySeen
