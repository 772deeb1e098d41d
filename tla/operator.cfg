SPECIFICATION FairSpec
CONSTANTS
    a = a
    a2 = a2
    b = b
    None = None
    Workers <- MCWorkers
    Operators <- MCOperators
    Scenarios <- MCScenarios
    MinWait = 1
    MinBlock = 2
    RetryTime = 3
    CheckDt = 1
    MaxExpire = 2
    Lag = 1
    StartTime = 4
    LastTime = 16
CHECK_DEADLOCK FALSE
INVARIANTS
    TypeOK
    InfoTruthful
    DependenciesHeeded
    FramesNear
    NotMissed
    WellProcessed
PROPERTY CallsEnd
