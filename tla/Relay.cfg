CONSTANTS
    Offers = {o1, o2}
    MaxSourceOffers = 1
    Jobs = {j1}
    MaxChanges = 3
    MaxFaults = 2
    MaxFrames = 1
SPECIFICATION FairSpec
INVARIANTS
    PushesWhole
    WithdrawnIsTrue
    OneAnswer
    StopIsFinal
PROPERTIES
    QuotesFresh
    QuotesConverge
CHECK_DEADLOCK FALSE
