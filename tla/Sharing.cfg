SPECIFICATION Spec
CONSTANTS
    Shares = {s1, s2}
    Files = {f1}
    Users = {owner, u1, u2}
    Owner = owner
    Arguments = {"Read", "Share", "Owner", "ReadWrite"}
    DefaultDays = 1
    Horizon = 2
    None = None
CHECK_DEADLOCK FALSE
INVARIANTS
    SharingInv
    ReturnedTokenHasGrant
    ReturnedTokenGrantsAccess
    RightsComeFromShares
    ExpiredShareIsDead
PROPERTIES
    NoShareRevives
