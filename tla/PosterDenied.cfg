CONSTANTS
    c1 = c1
    c2 = c2
    Coins = {c1}
    NoCoin = NoCoin
    Matching = {c1}
    PostRetries = 2
    MaxReoffers = 1
    MaxOffers = 2
    MaxCrashes = 0
SPECIFICATION Spec
INVARIANT RejectedNeverListed
CHECK_DEADLOCK FALSE
