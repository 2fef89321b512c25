SPECIFICATION FairSpec
CONSTANTS
    NoUser = NoUser
    Main = Main
    Others = Others
    Users = {u1}
    Logins = {l1, l2}
    Limiters = {Main, Others}
    IdleLimit <- ShortPatience
    Lifetime = 2
    MaxAttempts = 2
    MaxTokens = 3
INVARIANTS TypeOK SessionsBounded
PROPERTIES LogoutIsFinal NotShutOut
