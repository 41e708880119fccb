CONSTANTS
    c1 = c1
    c2 = c2
    p1 = p1
    p2 = p2
    d1 = d1
    d2 = d2
    x1 = x1
    x2 = x2
    NoAnchor = NoAnchor
    Callers <- MCCallers
    Pubkeys <- MCPubkeys
    DTags <- MCDTags
    Txs <- MCTxs
    Anchors <- MCAnchors
    MaxFaults = 1

SPECIFICATION Spec

INVARIANTS
    MarkedIsAnchored
    SerialMarkAgrees

PROPERTY
    SerialLatestWins
    ImplementsVersionSet
