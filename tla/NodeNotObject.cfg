CONSTANTS
    s1 = s1
    s2 = s2
    h1 = h1
    h2 = h2
    o1 = o1
    a1 = a1
    t1 = t1
    noToken = noToken
    Nothing = Nothing
    Main = Main
    Starts = {s1, s2}
    Handles = {h1, h2}
    Observers = {o1}
    Addresses = {a1}
    CoinTypes = {0, 1}
    Tokens = {t1, noToken}
    Threads = {Main}
    Inline = TRUE
    WrappersPinned = TRUE
    RestartAllowed = FALSE
SPECIFICATION NodeFairSpec
PROPERTY
    RepliesSettle
CHECK_DEADLOCK FALSE
