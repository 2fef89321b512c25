SPECIFICATION Spec
CONSTANTS
    NoSocket = NoSocket
    NoUser = NoUser
    Sockets = {s1}
    Users = {u1}
    Kinds = {"employee"}
    Logouts = {}
    Pushes = {}
INVARIANT EndedIsUnregistered
