SPECIFICATION Spec
CONSTANTS
    Threads = {t1, t2, t3}
    Latches = {l1, l2}
    Items = {x1, x2, x3}
    Sockets = {s1, s2, s3}
    Timed = {t1}
    MaxInterrupts = 0
    t1 = t1
    t2 = t2
    t3 = t3
    l1 = l1
    l2 = l2
    x1 = x1
    x2 = x2
    x3 = x3
    s1 = s1
    s2 = s2
    s3 = s3
INVARIANTS
    AssertionsHold
CHECK_DEADLOCK FALSE
