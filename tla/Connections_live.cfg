SPECIFICATION FairSpec
CONSTANTS
    NoSocket = NoSocket
    NoUser = NoUser
    Sockets = {s1}
    Users = {u1}
    Kinds = {"inputs", "employee", "summary", "notify"}
    Logouts = {l1, l2}
    Pushes = {p1}
PROPERTIES UnauthorizedIsClosed BrokenEnds TasksEnd
