CONSTANTS
    o1 = o1
    o2 = o2
    c1 = c1
    c2 = c2
    Offers = {o1}
    Coin <- OneOffer
    MaxBuffered = 1
    MaxBacklog = 1
    MaxFaults = 0
    MaxChanges = 3
SPECIFICATION Spec
INVARIANTS
    StaleOnlyInFlight
CHECK_DEADLOCK FALSE
