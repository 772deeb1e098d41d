SPECIFICATION Spec
CONSTANTS
    Configs <- AllShapes
    Environment <- Set
    TypeHz <- MCTypeHz
CHECK_DEADLOCK FALSE
INVARIANTS
    TypeOK
    SortSound
    LoopsFound
    StartsOnlyStartable
    FailsOnlyUnstartable
    TriggersConnected
    OneWriter
    ReadersServed
    PipelinesComplete
    RatesMet
