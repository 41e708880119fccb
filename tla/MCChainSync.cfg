CONSTANTS
    b1 = b1
    b2 = b2
    c2 = c2
    c3 = c3
    t1 = t1
    t2 = t2
    s = s
    h1 = h1
    None = None
    Syncer = s
    Handlers <- MCHandlers
    Blocks <- MCBlocks
    Txs <- MCTxs
    ManualHeights <- MCManualHeights
    Anchored <- MCAnchored
    Content <- MCContent
    History <- MCReorg
    BatchSize = 2
    RestInterval = 3
    ReorgCheckInterval = 1
    ReorgLookback = 2
    MaxFaults = 1

SPECIFICATION FairSpec

INVARIANTS
    SyncedIsScanned
    ScannedIsRecorded
    PlacesAgree

PROPERTY
    CatchesUp
