SPECIFICATION FairSpec
CONSTANTS
    Users = {u1, u2}
    Calls = {c1, c2, c3, c4}
    KindOf <- MCKindOf
    Streams = {s1, s2}
    Prompt = {s1}
    Passive = {s1}
    Raising = {s2}
    FDs = {f1}
    PipeSize = 1
    u1 = u1
    u2 = u2
    c1 = c1
    c2 = c2
    c3 = c3
    c4 = c4
    s1 = s1
    s2 = s2
    f1 = f1
INVARIANTS
    WakeupPending
    NoStaleEvent
    KeepsItsPromise
PROPERTIES
    DeferredRuns
    ShutdownCompletes
CHECK_DEADLOCK FALSE
\* What TLC refutes on this instance, each in place of all of the above:
\*   INVARIANT ExitForcesAll
\*   INVARIANT DeferRaisesOnceShuttingDown
