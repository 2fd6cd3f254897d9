SPECIFICATION CryptoSpec
CONSTANTS
    Users = {u1, u2}
    Files = {f1, f2}
    Passwords = {p1, p2}
    None = None
    Garbage = Garbage
    MaxByte = 3
    BlockLen = 3
    AesKeys = {2}
    Xor <- ToyXor
    Enc <- ToyEnc
    Dec <- ToyDec
    Contents <- SmallContents
    ChachaKeys <- SmallChachaKeys
    Ivs <- SmallIvs
INVARIANTS
    DecryptKeyAlwaysThrows
    StoredFileOpensForOwner
