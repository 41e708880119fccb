CONSTANTS
    loop = loop
    h1 = h1
    h2 = h2
    p1 = p1
    admin = admin
    t1 = t1
    n1 = n1
    r1 = r1
    r2 = r2
    NoLabel = NoLabel
    NoList = NoList
    NoMark = NoMark
    SyncLoop = loop
    AdminSyncs <- MCAdminSyncs
    Peers <- MCPeers
    Admin = admin
    Tlds <- MCTlds
    Labels <- MCLabels
    Relays <- MCRelays
    Steady <- MCSteady
    Lists <- MCLists
    Holds <- MCHolds
    Edits <- MCEdits
    MaxFailures = 1

SPECIFICATION AwarenessFairSpec

INVARIANTS
    AwarenessTypeOK
    SyncReplacesMarks


    
