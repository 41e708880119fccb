CONSTANTS
    c1 = c1
    c2 = c2
    b1 = b1
    p1 = p1
    p2 = p2
    p3 = p3
    a1 = a1
    a2 = a2
    a3 = a3
    NoBlock = NoBlock
    NoRequest = NoRequest
    Calls <- MCCalls
    Blocks <- MCBlocks
    Peers <- MCPeers
    Addresses <- MCAddresses
    AddrOf <- MCAddrOf
    Initial <- MCInitial
    Parallel = 2
    MaxPeers = 2
    Flaky <- MCFlaky

SPECIFICATION FairSpec

INVARIANTS
    OneAnswerEach
    FirstAnswerReaches

PROPERTIES
    SerialDialsKeepPeers
    ImplementsBlockSource
    CallsReturn

CHECK_DEADLOCK FALSE
