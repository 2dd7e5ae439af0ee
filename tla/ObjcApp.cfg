CONSTANTS
    s1 = s1
    s2 = s2
    h1 = h1
    h2 = h2
    c1 = c1
    c2 = c2
    a1 = a1
    t1 = t1
    Nothing = Nothing
    Main = Main
    Starts = {s1, s2}
    Handles = {h1, h2}
    Observers = {c1, c2}
    Addresses = {a1}
    CoinTypes = {0}
    Tokens = {t1}
    Threads = {Main}
    Inline = FALSE
    WrappersPinned = FALSE
    RestartAllowed = TRUE
    MaxRows = 1
SPECIFICATION AppFairSpec
PROPERTIES
    EveryCallAnswered
    KeepsContract
    ImplementsTable
    ListReachesTable
CHECK_DEADLOCK FALSE
