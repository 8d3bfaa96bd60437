SPECIFICATION TasksFairSpec
CONSTANTS
    root = root
    target = target
    fp = fp
    m1 = m1
    m2 = m2
    iso = iso
    asy = asy
    modfile = modfile
    Nodes <- MCNodes
    Root = root
    Parent <- MCParent
    Paths = {modfile}
    Tasks = {m1, m2, iso, asy}
    Target = target
    Playbooks <- MCPlaybooks
    PathOf <- MCPathOf
    NewStyle = {m1, asy}
    Isolated = {iso}
    Async = {asy}
    Limited = {asy}
    Mortal = {iso}
INVARIANTS
    OnlyTheBotchedLeak
    JobFileIsAhead
    RunsWhatWasFound
    SeesNoOther
PROPERTIES
    EverythingEnds
CHECK_DEADLOCK FALSE
\* What TLC refutes on this instance, each in place of all of the above:
\*   INVARIANT EnvironmentIsPutBack
\*   INVARIANT NothingIsLeft
\*   INVARIANT JobFileHasOutcome
\*   INVARIANT NoneUnsets
\*   PROPERTY JobsEnd
