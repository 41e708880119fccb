CONSTANTS
    sync = sync
    http = http
    r1 = r1
    r2 = r2
    t1 = t1
    t2 = t2
    p1 = p1
    p2 = p2
    NoAnchor = NoAnchor
    SyncLoop = sync
    Handlers <- MCHandlers
    Relays <- MCRelays
    Steady <- MCSteady
    Txs <- MCTxs
    DiscoveredAt <- MCDiscoveredAt
    Recorded <- MCRecorded
    Pubkeys <- MCPubkeys
    Anchors <- MCAnchors
    Holds <- MCHolds
    BatchSize = 1
    MaxIterations = 2
    MaxFaults = 1

SPECIFICATION PendingFairSpec

INVARIANTS
    PendingTypeOK
    LatestHeardWins

PROPERTIES
    EndsWhenAllAsked
    SearchesEnd
    
