SPECIFICATION Spec
CONSTANTS
    Keys <- MCKeys
    SlotSize = 2
    StaleTime = 4
    Unit = 1
    NoKey = NoKey
    FreshLatest <- MCFreshLatest
INVARIANTS
    TypeOK
    NewestAvailable
    GetFindsClosest
PROPERTY KeepsWindow
