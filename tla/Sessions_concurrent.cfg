SPECIFICATION Spec
CONSTANTS
    NoUser = NoUser
    Main = Main
    Others = Others
    Users = {u1}
    Logins = {l1, l2}
    Limiters = {Main, Others}
    IdleLimit <- Patience
    Lifetime = 8
    MaxAttempts = 3
    MaxTokens = 2
INVARIANT OneSession
