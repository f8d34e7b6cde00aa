SPECIFICATION Spec
CONSTANTS
    SeqSpace = 8
    Window = 1
    MaxSent = 10
    MaxFlight = 2
    MaxBurst = 2
    MaxRestarts = 1
    Reorder = FALSE
INVARIANTS
    CountsAreExact
    LatestIsNewest
    StalledLinkHasNoRate
    IInv
