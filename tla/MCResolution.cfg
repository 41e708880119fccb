CONSTANTS
    p1 = p1
    p2 = p2
    NoOne = NoOne
    Nothing = Nothing
    Letters <- MCLetters
    Wordlist <- MCWordlist
    Multipliers <- MCMultipliers
    Genesis = 20
    Authors <- MCAuthors
    Anchors <- MCAnchors
    Names <- MCNames
    Contents <- MCContents
    Requests <- MCRequests
    Databases <- MCDatabases
    MaxChanges = 2

SPECIFICATION ResolutionSpec

INVARIANTS
    ResolutionTypeOK
    
    ServedNotOlder
    BlockedNotServed
    IDsLeadBack
