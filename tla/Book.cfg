CONSTANTS
    o1 = o1
    o2 = o2
    c1 = c1
    c2 = c2
    Offers = {o1, o2}
    Coin <- TwoCoins
    MaxBuffered = 1
    MaxBacklog = 1
    MaxFaults = 2
    MaxChanges = 3
SPECIFICATION FairSpec
INVARIANTS
    QuietMirrorTrue
PROPERTIES
    CurrentWhenDrained
    MirrorConverges
CHECK_DEADLOCK FALSE
