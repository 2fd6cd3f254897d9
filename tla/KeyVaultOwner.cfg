SPECIFICATION Spec
CONSTANTS
    Users = {u1, u2}
    Files = {f1, f2}
    Passwords = {p1, p2}
    None = None
    Garbage = Garbage
INVARIANTS
    OwnerRecoversFileKey
