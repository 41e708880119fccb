CONSTANTS
    h1 = h1
    d1 = d1
    d2 = d2
    d3 = d3
    NoEvent = NoEvent
    NoDTag = NoDTag
    Handlers <- MCHandlers
    DTags <- MCDTags
    Referable <- MCReferable
    LooksLike <- MCLooksLike
    Events <- MCEvents
    MaxVersions = 1
    MaxDTags = 2
    MaxFaults = 1

SPECIFICATION Spec

INVARIANTS
    QuietCleanupEnforces
    SerialHandlersKeepLimits

PROPERTY
    CleanupSparesReferenced
