CONSTANTS
    d1 = d1
    d2 = d2
    a1 = a1
    own = own
    k1 = k1
    k2 = k2
    u1 = u1
    u2 = u2
    NoRow = NoRow
    NoKey = NoKey
    HealthCheck = health
    Discoverers <- MCDiscoverers
    Addresses <- MCAddresses
    Own <- MCOwn
    Keys <- MCKeys
    Urls <- MCUrls
    Requested <- MCRequested
    Configured <- MCConfigured
    Announcements <- MCAnnouncements
    MaxFails = 2
    Attempts = 2
    MaxFaults = 1

SPECIFICATION FairSpec

INVARIANTS
    
    StoredIdentityWasShown

PROPERTIES
    RemovedAfterFailures
    DeadPeersGo
