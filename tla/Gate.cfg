CONSTANTS
    x = x
    y = y
    z = z
    Offers = {x, y, z}
    NoOffer = NoOffer
    Blocks <- MCBlocks
    MaxHeight = 3
    MaxRollbacks = 2
    MaxCrashes = 1
SPECIFICATION FairSpec
PROPERTIES
    ImplementsFeed
    EveryEventReleased
CHECK_DEADLOCK FALSE
