CONSTANTS
    g1 = g1
    g2 = g2
    g3 = g3
    g4 = g4
    Requests = {g1, g2, g3, g4}
    CorePool = 1
    MaxPool = 20
SPECIFICATION Spec
INVARIANTS
    EndInOrder
PROPERTIES
    CalledBackUnlessStalled
CHECK_DEADLOCK FALSE
