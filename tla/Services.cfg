SPECIFICATION FairSpec
CONSTANTS
    Workers = {w1, w2}
    Services = {s1, s2}
    Serialized = {s1}
    Requests = {r1, r2, r3}
    ServiceOf <- MCServiceOf
    Unprivileged = {r2}
    Calling = {r2}
    Fetched = {s1}
    s1 = s1
    s2 = s2
    r1 = r1
    r2 = r2
    r3 = r3
INVARIANTS
    RequestsAccounted
    OneRunner
PROPERTIES
    NobodyWaitsForever
CHECK_DEADLOCK FALSE
\* What TLC refutes on this instance, each in place of all of the above:
\*   INVARIANT CallsSerialized
\*   PROPERTY ShutdownProceeds
