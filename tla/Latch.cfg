SPECIFICATION FairSpec
CONSTANTS
    Threads = {t1, t2, t3}
    Latches = {l1}
    Items = {x1, x2}
    Sockets = {s1, s2, s3, s4}
    Timed = {t1}
    MaxInterrupts = 1
    t1 = t1
    t2 = t2
    t3 = t3
    l1 = l1
    x1 = x1
    x2 = x2
    s1 = s1
    s2 = s2
    s3 = s3
    s4 = s4
INVARIANTS
    NoAssertFailure
    NoStarvedWaiter
    Conservation
PROPERTIES
    ImplementsHandOff
CHECK_DEADLOCK FALSE
