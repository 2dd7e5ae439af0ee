CONSTANTS
    r1 = r1
    r2 = r2
    d1 = d1
    d2 = d2
    w1 = w1
    w2 = w2
    main = main
    nil = nil
    Runnables = {r1, r2}
    Delays <- ShortDelays
    Delayers = {d1, d2}
    Waiters = {w1, w2}
    Main = main
    Nil = nil
SYMMETRY Symmetry
SPECIFICATION Spec
INVARIANTS
    ContextInv
    NothingLost
    RunsOnce
    LeavesOnlyLate
CHECK_DEADLOCK FALSE
