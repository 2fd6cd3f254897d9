SPECIFICATION FaultFreeSpec
CONSTANTS
    Requests = {r1, r2}
    Names = {n1, n2}
    Emails = {e1, e2}
    Passwords = {p1, p2}
    None = None
CHECK_DEADLOCK FALSE
SYMMETRY AccountSymmetry
INVARIANTS
    TokensCarryRole
