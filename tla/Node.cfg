CONSTANTS
    s1 = s1
    s2 = s2
    h1 = h1
    h2 = h2
    o1 = o1
    o2 = o2
    a1 = a1
    a2 = a2
    t1 = t1
    Nothing = Nothing
    Main = Main
    Starts = {s1, s2}
    Handles = {h1, h2}
    Observers = {o1, o2}
    Addresses = {a1, a2}
    CoinTypes = {0, 1}
    Tokens = {t1}
    Threads = {Main}
    Inline = TRUE
    WrappersPinned = TRUE
    RestartAllowed = FALSE
SPECIFICATION NodeFairSpec
INVARIANTS
    PromiseInv
    NoSecondCallback
    NothingRunsAfterThrow
    OwnNetwork
    NoDanglingUse
PROPERTIES
    KeepsPromise
    AnswersSettle
    EveryListShown
CHECK_DEADLOCK FALSE
