SPECIFICATION FairSpec
CONSTANTS
    Contexts = {c1}
    Handles = {h1, h2, h3}
    Persistent = {h3}
    OwnerOf <- MCOwnerOf
    Closers = {h1}
    c1 = c1
INVARIANTS
    AtMostOneReply
PROPERTIES
    LostRequestsAreAnswered
CHECK_DEADLOCK FALSE
\* What TLC refutes on this instance, each in place of all of the above:
\*   PROPERTY DisconnectionIsTold
