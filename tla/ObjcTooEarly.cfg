CONSTANTS
    r1 = r1
    r2 = r2
    d1 = d1
    d2 = d2
    w1 = w1
    w2 = w2
    main = main
    nil = nil
    Runnables = {r1}
    Delays <- LongDelays
    Delayers = {d1}
    Waiters = {w1}
    Main = main
    Nil = nil
SPECIFICATION Spec
INVARIANTS
    NotBeforeDelay
CHECK_DEADLOCK FALSE
