SPECIFICATION FilesFairSpec
CONSTANTS
    ssh = ssh
    sudo = sudo
    s1 = s1
    ta = ta
    tb = tb
    tc = tc
    Contexts = {ssh, sudo}
    Streams = {s1}
    NoStream = NoStream
    StreamOf <- MCStreamOf
    Transfers = {ta, tb, tc}
    ContextOf <- MCContextOf
    SizeOf <- MCSizeOf
    Absent = {tc}
    Changing = {ta}
    Reluctant = {ta}
    Mortal = {sudo}
    Lossy = {s1}
    Window = 3
    ChunkSize = 2
INVARIANTS
    OutcomeIsDue
    WindowAccounted
PROPERTIES
    TransfersEnd
CHECK_DEADLOCK FALSE
\* What TLC refutes on this instance, each in place of all of the above:
\*   INVARIANT WithinWindow
\*   PROPERTY EachSatisfiedInTurn
