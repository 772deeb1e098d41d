SPECIFICATION Spec
CONSTANTS
    Configs <- NamedShapes
    Environment <- Set
    TypeHz <- MCTypeHz
CHECK_DEADLOCK FALSE
INVARIANTS
    EachDownstreamFed
