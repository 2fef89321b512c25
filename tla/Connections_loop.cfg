SPECIFICATION Spec
CONSTANTS
    NoSocket = NoSocket
    NoUser = NoUser
    Sockets = {s1}
    Users = {u1}
    Kinds = {"form", "inputs"}
    Logouts = {l1}
    Pushes = {}
INVARIANT EventLoopRuns
