SPECIFICATION FairSpec
CONSTANTS
    Chains = {a, b, p}
    Pipelined = {a, b}
    Sources = {s1, s2}
    SourceOf <- MCSourceOf
    Script <- MCScript
    a = a
    b = b
    p = p
    s1 = s1
    s2 = s2
INVARIANTS
    ChainsAreIndependent
PROPERTIES
    CallsSettle
CHECK_DEADLOCK FALSE
\* What TLC refutes on this instance, each in place of all of the above:
\*   INVARIANT AnyExceptionCancels
