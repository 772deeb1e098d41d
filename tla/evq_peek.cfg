SPECIFICATION Spec
CONSTANTS
    p1 = p1
    p2 = p2
    c1 = c1
    c2 = c2
    Threads = {p1, p2, c1, c2}
    Data = {d1, d2}
    NoData = NoData
    MaxCount = 2
    Roles <- MCPeekRoles
INVARIANTS
    BlockedOnlyWhenEmpty
