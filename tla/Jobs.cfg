CONSTANTS
    j1 = j1
    j2 = j2
    o1 = o1
    o2 = o2
    Jobs = {j1, j2}
    Offers = {o1, o2}
    Route <- SharedRoute
    Receives = {j1}
    MaxParallel = 2
    Rivals = {o1}
    Faults = {"timeout", "read"}
    MaxCrashes = 1
SPECIFICATION Spec
INVARIANTS
    NothingLeaks
    RevertOnlyWhenDead
    ExclusiveClaims
PROPERTIES
    JournalAccepts
CHECK_DEADLOCK FALSE
