SPECIFICATION Spec
CONSTANTS
    RequireEnable = TRUE
    WarningAge = 1
    HoldAge = 2
    DisableAge = 3
    Packets <- AllPackets
    Goals <- AllGoals
    MaxDelta = 2
    MaxStep = 1
    Positions <- AllPositions
    TimeSpace = 16
    MaxTime = 4
INVARIANTS
    IInv
    CommandsAreFresh
    FaultNeedsSilenceOrRace
PROPERTY ReferenceNeverJumps
