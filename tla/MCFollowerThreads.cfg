SPECIFICATION FairSpec
CONSTANTS
    RequireEnable = TRUE
    WarningAge = 1
    HoldAge = 1
    DisableAge = 1
    NArms = 1
    Packets <- AllPackets
    MaxEvents = 2
INVARIANTS
    IInv
    CommandsAreAuthorised
    EstopLatency
    ExclusiveMotion
PROPERTIES
    RefinesDeadMan
    EstopTurnsMotorsOff
    SilentLinkTurnsMotorsOff
    ShutdownDisables
