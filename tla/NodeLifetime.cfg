CONSTANTS
    s1 = s1
    s2 = s2
    s3 = s3
    h1 = h1
    h2 = h2
    o1 = o1
    o2 = o2
    o3 = o3
    a1 = a1
    t1 = t1
    Nothing = Nothing
    Main = Main
    Starts = {s1, s2, s3}
    Handles = {h1, h2}
    Observers = {o1, o2, o3}
    Addresses = {a1}
    CoinTypes = {0}
    Tokens = {t1}
    Threads = {Main}
    Inline = TRUE
    WrappersPinned = TRUE
    RestartAllowed = TRUE
SYMMETRY Symmetry
SPECIFICATION LifeSpec
INVARIANTS
    LifeInv
    ObserversLive
    OnlyReplacedDeleted
CHECK_DEADLOCK FALSE
