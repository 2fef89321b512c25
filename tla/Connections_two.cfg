SPECIFICATION Spec
CONSTANTS
    NoSocket = NoSocket
    NoUser = NoUser
    Sockets = {s1, s2}
    Users = {u1, u2}
    Kinds = {"form", "inputs", "employee", "summary", "notify"}
    Logouts = {l1}
    Pushes = {p1}
INVARIANTS TypeOK ListsAgree EndedLeavesLists UnregisteredIsClosed
SYMMETRY SocketSymmetry
CHECK_DEADLOCK FALSE
