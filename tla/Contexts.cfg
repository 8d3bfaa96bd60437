CONSTANTS
    Workers = {w1, w2, w3}
    w1 = w1
    w2 = w2
    w3 = w3
    Specs = {"ssh", "sudo a", "sudo b"}
    Stack <- MCStack
    Recycled = {"sudo a", "sudo b"}
    Become = {"sudo a", "sudo b"}
    Becomes = {w1, w2, w3}
    MaxInterpreters = 1
    Contexts = {1, 2, 3}
    MaxGets = 1
    MaxLosses = 1
SPECIFICATION Spec
INVARIANTS
    NoStaleContext
    LeadsThere
PROPERTIES
    RecycledIsUnused
    OneConnectsForAll
SYMMETRY MCSymmetry
CHECK_DEADLOCK FALSE
\* What TLC refutes on this instance, each in place of all of the above:
\*   INVARIANT SingleContext
\*   INVARIANT WaitersAreListed
\*   PROPERTY NoneInUseIsRecycled
