SPECIFICATION Spec
CONSTANTS
    Keys <- MCLateKeys
    SlotSize = 2
    StaleTime = 4
    Unit = 2
    NoKey = NoKey
    FreshLatest <- MCFreshLatest
INVARIANTS
    GetFindsTolerable
