CONSTANTS
    Workers = {w1}
    w1 = w1
    w2 = w2
    w3 = w3
    Specs = {"bastion", "ssh"}
    Stack <- MCSameUser
    Recycled = {}
    Become = {}
    Becomes = {w1}
    MaxInterpreters = 1
    Contexts = {1, 2, 3}
    MaxGets = 1
    MaxLosses = 1
SPECIFICATION Spec
INVARIANTS
    LoginIsLogin
CHECK_DEADLOCK FALSE
