SPECIFICATION FairSpec
CONSTANTS
    c1 = c1
    c2 = c2
    Roles = {"follower"}
    Clients = {c1}
    Requests <- StopAndReset
PROPERTY CtrlCTurnsMotorsOff
