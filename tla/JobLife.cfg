CONSTANTS
    j1 = j1
    j2 = j2
    o1 = o1
    o2 = o2
    Jobs = {j1}
    Offers = {o1}
    Route <- OneRoute
    Receives = {j1}
    MaxParallel = 1
    Rivals = {}
    Faults = {"timeout", "wallet", "revert", "socket"}
    MaxCrashes = 1
SPECIFICATION FairSpec
INVARIANTS
    TerminalLast
    VerdictTrue
    FeeKept
    RevertedOnce
PROPERTIES
    EveryJobDecided
CHECK_DEADLOCK FALSE
