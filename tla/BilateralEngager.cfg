SPECIFICATION EngagerFairSpec
CONSTANTS
    Full = 40
    UpStep = 3
    DownStep = 7
INVARIANTS
    ScaleMatchesState
    ForceNeedsAlignment
PROPERTIES
    NeverSteps
    FollowsRequest
