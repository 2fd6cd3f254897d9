SPECIFICATION FairSpec
CONSTANTS
    Requests = {r1, r2, r3}
    Names = {n1, n2}
    Emails = {e1, e2}
    Passwords = {p1, p2}
    None = None
CHECK_DEADLOCK FALSE
INVARIANTS
    AccountsInv
    OneAccountPerName
    LoserHasWinner
    TokenIsAuthentic
    AuthenticationIsAudited
PROPERTIES
    StoredAccountCanLogIn
    ImplementsDirectory
