SPECIFICATION FairSpec
CONSTANTS
    c1 = c1
    c2 = c2
    Roles = {"follower", "leader", "single_follower", "single_leader"}
    Clients = {c1, c2}
    Requests <- StopAndRecover
INVARIANTS
    CleanExit
    AnsweredEstopHolds
PROPERTIES
    ShutdownTurnsMotorsOff
    ProcessEnds
    ConnectionsAreAnswered
