CONSTANTS
    Nodes = {"r", "c1", "c2", "c3"}
    Root = "r"
    Parent <- MCParent
    Modules <- MCModules
    Resources = {"res"}
    Servable = {"p", "pa", "res"}
    Failing = {"x"}
    Blocked = {"b"}
    Path <- MCPath
    Related <- MCRelated
    Threads = {"t1", "t2", "t3", "t4"}
    Home <- MCHome
    Script <- MCScript
    Pushes <- MCPushes
    MaxDeaths = 1
SPECIFICATION FairSpec
INVARIANTS
    NoForgottenRequest
    RecordsHold
    FindsItsOwn
PROPERTIES
    ImportsEnd
CHECK_DEADLOCK FALSE
