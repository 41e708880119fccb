CONSTANTS
    c1 = c1
    c2 = c2
    s1 = s1
    s2 = s2
    NoClient = NoClient
    NoSub = NoSub
    NoEvent = NoEvent
    NoWrite = NoWrite
    Clients <- MCClients
    SubIds <- MCSubIds
    Events <- MCEvents
    Newer <- MCNewer
    Queries <- MCQueries
    Guarded <- MCGuarded

SPECIFICATION FairSpec


    

PROPERTIES
    HandlersReturn
