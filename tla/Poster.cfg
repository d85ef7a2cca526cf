CONSTANTS
    c1 = c1
    c2 = c2
    Coins = {c1, c2}
    NoCoin = NoCoin
    Matching = {c1}
    PostRetries = 2
    MaxReoffers = 1
    MaxOffers = 2
    MaxCrashes = 1
SPECIFICATION FairSpec
INVARIANTS
    HeldOffersAreExact
    OneOfferPerCoin
PROPERTIES
    OutcomesLearned
CHECK_DEADLOCK FALSE
