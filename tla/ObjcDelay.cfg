CONSTANTS
    r1 = r1
    r2 = r2
    d1 = d1
    d2 = d2
    w1 = w1
    w2 = w2
    main = main
    nil = nil
    Runnables = {r1, r2}
    Delays <- LongDelays
    Delayers = {d1, d2}
    Waiters = {w1}
    Main = main
    Nil = nil
SPECIFICATION FairSpec
INVARIANTS
    CrashOnlyIfBroken
PROPERTIES
    WaitReturns
    SeenRunnablesRun
CHECK_DEADLOCK FALSE
