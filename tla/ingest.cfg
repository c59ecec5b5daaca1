SPECIFICATION FairSpec
CONSTANTS
    Events = {e1}
    Last = 2
    Handlers = {h1, h2}
    MaxLosses = 2
    MaxStops = 1
    None = None
INVARIANTS
    TypeOK
    NothingIsLost
    ToldOncePerDelivery
PROPERTIES
    EveryEventIsTold
    EveryClipIsPrewarmed
CHECK_DEADLOCK FALSE
