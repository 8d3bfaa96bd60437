SPECIFICATION ConnectingSpec
CONSTANTS
    Conns = {"local", "ssh", "batch", "su", "sudo"}
    Method <- MCMethod
    Passwords = {"ssh", "su", "sudo"}
    Stubborn = {"sudo"}
    Detachers = {"local"}
    Says <- MCSays
    Attempts = 2
    TermTry = 1
    KillTry = 2
    MaxTries = 3
INVARIANTS
    ShutdownCancelsEvery
CHECK_DEADLOCK FALSE
