SPECIFICATION FaultFreeSpec
CONSTANTS
    Users = {u1, u2}
    Files = {f1}
    Requests = {r1, r2}
    Passes = 3
    GuidEmpty = GuidEmpty
    NoUser = NoUser
    Unwraps = {u1, u2}
CHECK_DEADLOCK FALSE
INVARIANTS
    MalwareIsLogged
