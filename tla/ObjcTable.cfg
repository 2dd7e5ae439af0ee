CONSTANTS
    s1 = s1
    s2 = s2
    h1 = h1
    h2 = h2
    c1 = c1
    c2 = c2
    a1 = a1
    a2 = a2
    Nothing = Nothing
    Starts = {s1, s2}
    Handles = {h1, h2}
    Controllers = {c1, c2}
    Addresses = {a1, a2}
    CoinTypes = {0}
    MaxRows = 2
SPECIFICATION TableSpec
INVARIANTS
    TableInv
    CellsCurrent
    OwnList
CHECK_DEADLOCK FALSE
