SPECIFICATION Spec
CONSTANTS
    RequireEnable = TRUE
    WarningAge = 1
    HoldAge = 2
    DisableAge = 3
    Full = 2
    UpStep = 2
    DownStep = 1
    MaxDelay = 1
    MaxAge = 1
    GatePeriod = 2
    MaxMove = 3
    MaxEvents = 2
INVARIANTS
    CommandsNeedALeader
    ForceNeedsALiveFollower
    HealthyLinkNeverFaults
