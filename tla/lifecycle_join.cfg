SPECIFICATION Spec
CONSTANTS
    a = a
    b = b
    c = c
    Main = Main
    Dag = Dag
    Ops <- MCOps
    Order <- MCOrder
    Configs <- MCConfigs
    MaxQueue = 1
INVARIANTS
    JoinedMeansExited
