SPECIFICATION Spec
CONSTANTS
    Threads = {t1, t2}
    Capacity = 3
    MaxCount = 6
CHECK_DEADLOCK FALSE
INVARIANTS
    TypeOK
    NodesAccounted
PROPERTY ImplementsPool
