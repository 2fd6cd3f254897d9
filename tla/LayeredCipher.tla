---------------------------- MODULE LayeredCipher ----------------------------
(***************************************************************************)
(* The two layers of MultiLayerEncryptionService on the bytes of a file:   *)
(* AES in CBC mode with PKCS7 padding, the defaults of Aes.Create, and the *)
(* XOR with a repeated key on top.  AES on one block, its key and the XOR  *)
(* of two bytes are parameters.  A padded file is a sequence of blocks.    *)
(***************************************************************************)
EXTENDS Integers, Sequences

CONSTANTS
    MaxByte,     \* bytes are 0..MaxByte; 255 in the code
    BlockLen,    \* bytes of a block; 16 in the code
    AesKeys,
    Xor(_, _),   \* the XOR of two bytes
    Enc(_, _),   \* AES of one block under a key, and its inverse
    Dec(_, _)

Bytes  == 0 .. MaxByte
Blocks == [1 .. BlockLen -> Bytes]

ASSUME CipherAssumption ==
    /\ MaxByte \in Nat
    /\ BlockLen \in 1 .. MaxByte
    /\ \A a, b \in Bytes : Xor(a, b) \in Bytes /\ Xor(Xor(a, b), b) = a
    /\ \A k \in AesKeys, b \in Blocks : Enc(k, b) \in Blocks /\ Dec(k, Enc(k, b)) = b

-----------------------------------------------------------------------------
(* PKCS7 *)

\* mutant: a file that fills its last block is not padded
Pad_full(data) ==
    LET n == IF Len(data) % BlockLen = 0 /\ data # <<>>
             THEN Len(data) \div BlockLen ELSE Len(data) \div BlockLen + 1
    IN  [j \in 1 .. n |-> [i \in 1 .. BlockLen |->
            LET at == (j - 1) * BlockLen + i
            IN  IF at <= Len(data) THEN data[at] ELSE n * BlockLen - Len(data)]]

\* One to BlockLen bytes are added, each of them their number.
Pad(data) ==
    LET n == Len(data) \div BlockLen + 1
    IN  [j \in 1 .. n |-> [i \in 1 .. BlockLen |->
            LET at == (j - 1) * BlockLen + i
            IN  IF at <= Len(data) THEN data[at] ELSE n * BlockLen - Len(data)]]

ByteAt(blocks, at) == blocks[(at - 1) \div BlockLen + 1][((at - 1) % BlockLen) + 1]

\* TransformFinalBlock throws when the last bytes are not a padding.
PaddingIsValid(blocks) ==
    LET size == Len(blocks) * BlockLen
    IN  /\ size > 0
        /\ ByteAt(blocks, size) \in 1 .. BlockLen
        /\ \A at \in (size - ByteAt(blocks, size) + 1) .. size :
              ByteAt(blocks, at) = ByteAt(blocks, size)

Unpad(blocks) ==
    LET size == Len(blocks) * BlockLen
    IN  [at \in 1 .. (size - ByteAt(blocks, size)) |-> ByteAt(blocks, at)]

-----------------------------------------------------------------------------
(* The layers *)

XorBlock(a, b) == [i \in 1 .. BlockLen |-> Xor(a[i], b[i])]

CbcEncrypt(key, iv, plain) ==
    LET chain[j \in 0 .. Len(plain)] ==
            IF j = 0 THEN iv ELSE Enc(key, XorBlock(plain[j], chain[j - 1]))
    IN  [j \in 1 .. Len(plain) |-> chain[j]]

Previous(iv, cipher, j) == IF j = 1 THEN iv ELSE cipher[j - 1]

CbcDecrypt(key, iv, cipher) ==
    [j \in 1 .. Len(cipher) |->
        XorBlock(Dec(key, cipher[j]), Previous(iv, cipher, j))]

\* The index of the key byte for byte i of block j.
KeyIndex(chacha, j, i) == (((j - 1) * BlockLen + i - 1) % Len(chacha)) + 1

\* Both loops over chachaKey.
XorLayer(blocks, chacha) ==
    [j \in 1 .. Len(blocks) |-> [i \in 1 .. BlockLen |->
        Xor(blocks[j][i], chacha[KeyIndex(chacha, j, i)])]]

EncryptLayers(data, key, iv, chacha) ==
    XorLayer(CbcEncrypt(key, iv, Pad(data)), chacha)

DecryptedBlocks(blocks, key, iv, chacha) ==
    CbcDecrypt(key, iv, XorLayer(blocks, chacha))

-----------------------------------------------------------------------------

\* cipher is plain in CBC mode: each block is mixed with the one before it.
IsCbc(key, iv, plain, cipher) ==
    /\ Len(cipher) = Len(plain)
    /\ \A j \in 1 .. Len(plain) :
          cipher[j] = Enc(key, XorBlock(plain[j], Previous(iv, cipher, j)))
=============================================================================
