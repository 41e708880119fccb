CONSTANTS
    n1 = n1
    n2 = n2
    r1 = r1
    a1 = a1
    NoTask = NoTask
    NoSub = NoSub
    Never = Never
    Nodes <- MCNodes
    Relays <- MCRelays
    Steady <- MCRelays
    Fragile <- MCFragile
    Discovered <- MCDiscovered
    Events <- MCEvents
    Offers <- MCOffers
    Known <- MCKnown
    Recorded <- MCNodes
    Freshness = 2
    CacheTTL = 3
    MaxDelay = 0
    MaxTime = 3
    MaxTasks = 2
    MaxFaults = 1

SPECIFICATION FairSpec

INVARIANT
    PublishedOnce


    
