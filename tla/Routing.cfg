SPECIFICATION FairSpec
CONSTANTS
    Nodes = {master, via, target, leaf, sibling}
    Root = master
    Parent <- MCParent
    Requests = {r1, r2}
    Src <- MCSrc
    Dst <- MCDst
    MaxDeaths = 3
    master = master
    via = via
    target = target
    leaf = leaf
    sibling = sibling
    r1 = r1
    r2 = r2
INVARIANTS
    RoutesExactWhenQuiet
    NoFalseAlarm
    UniqueIds
PROPERTIES
    RequestsSettle
CHECK_DEADLOCK FALSE
