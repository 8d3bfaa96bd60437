CONSTANTS
    Conns = {"local", "ssh", "batch", "su", "sudo"}
    Method <- MCMethod
    Passwords = {"ssh", "su", "sudo"}
    Stubborn = {"sudo"}
    Detachers = {"local"}
    Says <- MCSays
    Attempts = 1
    TermTry = 1
    KillTry = 2
    MaxTries = 2
SPECIFICATION ConnectingFairSpec
INVARIANTS
    NothingLeft
    BootsCleanly
PROPERTIES
    OutcomeStays
    AttemptsEnd
CHECK_DEADLOCK FALSE
\* What TLC refutes on this instance, each in place of all of the above:
\*   INVARIANT RaisedMeansFailed
