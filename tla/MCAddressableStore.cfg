CONSTANTS
    c1 = c1
    c2 = c2
    d1 = d1
    NoDTag = NoDTag
    NoEvent = NoEvent
    Callers <- MCCallers
    DTags <- MCDTags
    Events <- MCEvents
    MaxFaults = 1

SPECIFICATION Spec

INVARIANTS
    NewestSurvives
    SerialCallsReplace

PROPERTY
    ImplementsVersionSet
