SPECIFICATION FairSpec
CONSTANT MaxAge = 6
INVARIANTS
    IInv
    CommandLag
    NoCommandAfterDisable
PROPERTY ShutdownCompletes
