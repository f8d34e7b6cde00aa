SPECIFICATION Spec
CONSTANTS
    NArms = 1
    FeedbackEnabled = TRUE
    RenderEnabled = TRUE
    MaxAge = 1
    GatePeriod = 2
    LinkPeriod = 2
    MoveTicks = 1
    Operator <- AllCommands
    MaxEvents = 3
    Full = 1
    UpStep = 1
    DownStep = 2
INVARIANTS
    IInv
    BilateralNeedsEnable
    GateDropsInTime
    DisableLatency
