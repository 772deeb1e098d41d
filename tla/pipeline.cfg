SPECIFICATION FairSpec
CONSTANTS
    src = src
    mid = mid
    share = share
    down = down
    toMid = toMid
    toShare = toShare
    toDown = toDown
    frames = frames
    slow = slow
    ref = ref
    NoCache = NoCache
    Source = src
    Nodes <- MCNodes
    Links <- MCLinks
    Caches <- MCCaches
    To <- MCTo
    DataOf <- MCDataOf
    Period <- MCPeriod
    Copies <- MCCopies
    NoCopies <- MCNoCopies
    RefOf <- MCRefOf
    Inputs <- MCInputs
    MaxQueue = 1
    SlotSize = 1
    StaleTime = 1
    MaxTime = 3
CHECK_DEADLOCK FALSE
INVARIANTS
    TypeOK
    EventHasData
    FrameExclusive
    InputReady
PROPERTIES
    Spaced
    Delivered
