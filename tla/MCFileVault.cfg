SPECIFICATION FairSpec
CONSTANTS
    Users = {u1, u2}
    Files = {f1}
    Requests = {r1, r2, r3}
    Passes = 2
    GuidEmpty = GuidEmpty
    NoUser = NoUser
    Unwraps = {u1}
CHECK_DEADLOCK FALSE
INVARIANTS
    VaultInv
    AckedUploadSurvives
    WipeIsFinal
    NoUnreferencedBytes
    ServedIntact
    SuccessIsAudited
PROPERTIES
    ImplementsFileRecord
    EveryRequestAnswered
    OwnerDeleteTakesEffect
