------------------------- MODULE LayeredCipherProofs -------------------------
(***************************************************************************)
(* The layers undo themselves, for every byte width, block length, block   *)
(* cipher, file length and key: the XOR layer because both loops take the  *)
(* same key byte, CBC because decryption mixes with the same block as      *)
(* encryption did.                                                         *)
(***************************************************************************)
EXTENDS LayeredCipher, TLAPS, WellFoundedInduction

\* Blocks with the same bytes are equal.
LEMMA SameBytesSameBlock ==
  ASSUME NEW a \in Blocks, NEW b \in Blocks, \A i \in 1 .. BlockLen : a[i] = b[i]
  PROVE  a = b
<1> DEFINE S == 1 .. BlockLen
<1>1. a \in [S -> Bytes] /\ b \in [S -> Bytes]
  BY DEF Blocks
<1>2. \A i \in S : a[i] = b[i]
  OBVIOUS
<1> HIDE DEF S
<1>3. QED BY <1>1, <1>2

\* The loop's index stays inside the key, however long file and key are.
LEMMA KeyIndexInKey ==
  ASSUME NEW chacha \in Seq(Bytes), Len(chacha) > 0,
         NEW j \in Nat \ {0}, NEW i \in 1 .. BlockLen
  PROVE  KeyIndex(chacha, j, i) \in 1 .. Len(chacha)
<1> DEFINE at == (j - 1) * BlockLen + i - 1
<1>1. BlockLen \in Nat
  BY CipherAssumption
<1>2. (j - 1) * BlockLen \in Nat
  BY <1>1
<1>3. at \in Nat
  BY <1>1, <1>2
<1>4. at % Len(chacha) \in 0 .. Len(chacha) - 1
  BY <1>3
<1> HIDE DEF at
<1>5. KeyIndex(chacha, j, i) = (at % Len(chacha)) + 1
  BY DEF KeyIndex, at
<1>6. QED BY <1>4, <1>5

\* The XOR layer keeps the shape of what it is applied to.
LEMMA XorLayerType ==
  ASSUME NEW blocks \in Seq(Blocks), NEW chacha \in Seq(Bytes), Len(chacha) > 0
  PROVE  XorLayer(blocks, chacha) \in Seq(Blocks)
<1>1. ASSUME NEW j \in 1 .. Len(blocks), NEW i \in 1 .. BlockLen
      PROVE  Xor(blocks[j][i], chacha[KeyIndex(chacha, j, i)]) \in Bytes
  <2>1. blocks[j] \in Blocks
    OBVIOUS
  <2>2. blocks[j][i] \in Bytes
    BY <2>1 DEF Blocks
  <2>3. chacha[KeyIndex(chacha, j, i)] \in Bytes
    BY KeyIndexInKey
  <2>4. QED BY <2>2, <2>3, CipherAssumption
<1>2. \A j \in 1 .. Len(blocks) :
         [i \in 1 .. BlockLen |-> Xor(blocks[j][i], chacha[KeyIndex(chacha, j, i)])]
            \in Blocks
  BY <1>1 DEF Blocks
<1>3. QED BY <1>2 DEF XorLayer

\* The XOR layer with one key, applied twice, gives back the blocks: the second
\* loop of DecryptFileAsync undoes the second of EncryptFileAsync.
THEOREM XorLayerUndoesItself ==
  ASSUME NEW blocks \in Seq(Blocks), NEW chacha \in Seq(Bytes), Len(chacha) > 0
  PROVE  XorLayer(XorLayer(blocks, chacha), chacha) = blocks
<1> DEFINE once == XorLayer(blocks, chacha)
           twice == XorLayer(once, chacha)
<1>1. once \in Seq(Blocks) /\ Len(once) = Len(blocks)
  BY XorLayerType DEF XorLayer
<1>2. twice \in Seq(Blocks) /\ Len(twice) = Len(blocks)
  <2> HIDE DEF once
  <2>1. QED BY <1>1, XorLayerType DEF XorLayer
<1>3. ASSUME NEW j \in 1 .. Len(blocks), NEW i \in 1 .. BlockLen
      PROVE  twice[j][i] = blocks[j][i]
  <2>1. once[j][i] = Xor(blocks[j][i], chacha[KeyIndex(chacha, j, i)])
    BY DEF XorLayer
  <2>2. twice[j][i] = Xor(once[j][i], chacha[KeyIndex(chacha, j, i)])
    <3> HIDE DEF once
    <3>1. QED BY <1>1 DEF XorLayer
  <2>3. blocks[j] \in Blocks
    OBVIOUS
  <2>4. blocks[j][i] \in Bytes /\ chacha[KeyIndex(chacha, j, i)] \in Bytes
    <3>1. j \in Nat \ {0}
      OBVIOUS
    <3>2. KeyIndex(chacha, j, i) \in 1 .. Len(chacha)
      BY <3>1, KeyIndexInKey
    <3>3. chacha[KeyIndex(chacha, j, i)] \in Bytes
      BY <3>2
    <3>4. blocks[j][i] \in Bytes
      BY <2>3 DEF Blocks
    <3>5. QED BY <3>3, <3>4
  <2> HIDE DEF once, twice
  <2>5. QED BY <2>1, <2>2, <2>4, CipherAssumption
<1> HIDE DEF twice, once
<1>4. ASSUME NEW j \in 1 .. Len(blocks) PROVE twice[j] = blocks[j]
  <2>1. twice[j] \in Blocks /\ blocks[j] \in Blocks
    BY <1>2
  <2>2. \A i \in 1 .. BlockLen : twice[j][i] = blocks[j][i]
    BY <1>3
  <2>3. QED BY <2>1, <2>2, SameBytesSameBlock
<1>5. twice = blocks
  BY <1>2, <1>4
<1>6. QED BY <1>5 DEF twice, once

\* CBC decryption gives back the plain blocks of every chain that encryption in
\* CBC mode may have produced.
THEOREM CbcDecryptInvertsCbc ==
  ASSUME NEW key \in AesKeys, NEW iv \in Blocks, NEW plain \in Seq(Blocks),
         NEW cipher \in Seq(Blocks), IsCbc(key, iv, plain, cipher)
  PROVE  CbcDecrypt(key, iv, cipher) = plain
<1>1. Len(cipher) = Len(plain)
  BY DEF IsCbc
<1>2. ASSUME NEW j \in 1 .. Len(plain)
      PROVE  CbcDecrypt(key, iv, cipher)[j] = plain[j]
  <2> DEFINE prev == Previous(iv, cipher, j)
  <2>1. plain[j] \in Blocks
    OBVIOUS
  <2>2. prev \in Blocks
    BY <1>1 DEF Previous
  <2> HIDE DEF prev
  <2>3. XorBlock(plain[j], prev) \in Blocks
    BY <2>1, <2>2, CipherAssumption DEF XorBlock, Blocks
  <2>4. cipher[j] = Enc(key, XorBlock(plain[j], prev))
    BY DEF IsCbc, prev
  <2>5. Dec(key, cipher[j]) = XorBlock(plain[j], prev)
    BY <2>3, <2>4, CipherAssumption
  <2>6. CbcDecrypt(key, iv, cipher)[j] = XorBlock(XorBlock(plain[j], prev), prev)
    BY <1>1, <2>5 DEF CbcDecrypt, prev
  <2>7. \A i \in 1 .. BlockLen :
           XorBlock(XorBlock(plain[j], prev), prev)[i] = plain[j][i]
    BY <2>1, <2>2, CipherAssumption DEF XorBlock, Blocks
  <2>8. XorBlock(XorBlock(plain[j], prev), prev) = plain[j]
    BY <2>1, <2>7 DEF XorBlock, Blocks
  <2>9. QED BY <2>6, <2>8
<1>3. Len(CbcDecrypt(key, iv, cipher)) = Len(plain)
  BY <1>1 DEF CbcDecrypt
<1>4. CbcDecrypt(key, iv, cipher) \in Seq(Blocks)
  <2>1. \A j \in 1 .. Len(cipher) :
           XorBlock(Dec(key, cipher[j]), Previous(iv, cipher, j)) \in Blocks
    BY <1>1, <1>2 DEF CbcDecrypt
  <2>2. QED BY <2>1 DEF CbcDecrypt
<1>5. QED BY <1>2, <1>3, <1>4

-----------------------------------------------------------------------------
(* PKCS7 *)

\* Division with remainder.
LEMMA DivisionWithRemainder ==
  ASSUME NEW a \in Nat, NEW b \in Nat \ {0}
  PROVE  /\ a \div b \in Nat
         /\ a % b \in 0 .. b - 1
         /\ a = (a \div b) * b + (a % b)
  OBVIOUS

\* A smaller quotient belongs to what is below the product.
LEMMA QuotientBelow ==
  ASSUME NEW a \in Nat, NEW b \in Nat \ {0}, NEW n \in Nat, a < n * b
  PROVE  a \div b < n
<1> DEFINE q == a \div b
<1>1. q \in Nat /\ q * b <= a
  <2>1. a \div b \in Nat /\ a % b \in Nat /\ a = (a \div b) * b + (a % b)
    BY DivisionWithRemainder
  <2>2. QED BY <2>1
<1> HIDE DEF q
<1>2. SUFFICES ASSUME q >= n PROVE FALSE
  BY <1>1 DEF q
<1>3. PICK d \in Nat : q = n + d
  BY <1>1, <1>2
<1>4. q * b = n * b + d * b /\ d * b \in Nat /\ n * b \in Nat
  BY <1>3
<1>5. QED BY <1>1, <1>4

\* The number of bytes that are added.
Added(data) == (Len(data) \div BlockLen + 1) * BlockLen - Len(data)

\* One to BlockLen bytes are added.
LEMMA AddedRange ==
  ASSUME NEW data \in Seq(Bytes)
  PROVE  /\ Added(data) \in 1 .. BlockLen
         /\ Len(Pad(data)) * BlockLen = Len(data) + Added(data)
         /\ Len(Pad(data)) \in Nat \ {0}
<1>1. BlockLen \in Nat \ {0} /\ Len(data) \in Nat
  BY CipherAssumption
<1> DEFINE q == Len(data) \div BlockLen
           r == Len(data) % BlockLen
<1>2. q \in Nat /\ r \in 0 .. BlockLen - 1 /\ Len(data) = q * BlockLen + r
  BY <1>1, DivisionWithRemainder
<1>3. Len(Pad(data)) = q + 1
  BY <1>2 DEF Pad
<1>4. Added(data) = (q + 1) * BlockLen - Len(data)
  BY DEF Added
<1> HIDE DEF q, r
<1>5. (q + 1) * BlockLen = q * BlockLen + BlockLen
  BY <1>1, <1>2
<1>6. q * BlockLen \in Nat
  BY <1>1, <1>2
<1>7. Added(data) = BlockLen - r
  BY <1>1, <1>2, <1>4, <1>5, <1>6
<1>8. QED BY <1>1, <1>2, <1>3, <1>4, <1>5, <1>6, <1>7

\* Byte by byte, a padded file is the file followed by the padding.
LEMMA PaddedBytes ==
  ASSUME NEW data \in Seq(Bytes), NEW at \in 1 .. Len(Pad(data)) * BlockLen
  PROVE  ByteAt(Pad(data), at) = IF at <= Len(data) THEN data[at] ELSE Added(data)
<1> DEFINE n == Len(data) \div BlockLen + 1
           j == (at - 1) \div BlockLen + 1
           i == ((at - 1) % BlockLen) + 1
<1>1. BlockLen \in Nat \ {0} /\ Len(data) \in Nat
  BY CipherAssumption
<1>2. n \in Nat /\ Len(Pad(data)) = n
  <2>1. Len(data) \div BlockLen \in Nat
    BY <1>1, DivisionWithRemainder
  <2>2. QED BY <2>1 DEF Pad
<1>3. at - 1 \in Nat /\ at - 1 < n * BlockLen
  <2> HIDE DEF n
  <2>1. n * BlockLen \in Nat
    BY <1>1, <1>2
  <2>2. QED BY <1>2, <2>1
<1>4. /\ (at - 1) \div BlockLen \in Nat
      /\ (at - 1) % BlockLen \in 0 .. BlockLen - 1
      /\ at - 1 = ((at - 1) \div BlockLen) * BlockLen + ((at - 1) % BlockLen)
  BY <1>1, <1>3, DivisionWithRemainder
<1>5. (at - 1) \div BlockLen < n
  <2> HIDE DEF n
  <2>1. QED BY <1>1, <1>2, <1>3, QuotientBelow
<1>6. j \in 1 .. n /\ i \in 1 .. BlockLen
  <2> HIDE DEF n
  <2>1. QED BY <1>1, <1>2, <1>4, <1>5
<1>7. (j - 1) * BlockLen + i = at
  <2> DEFINE p == ((at - 1) \div BlockLen) * BlockLen
             r == (at - 1) % BlockLen
  <2>1. j - 1 = (at - 1) \div BlockLen
    BY <1>4
  <2>2. (j - 1) * BlockLen = p
    <3> HIDE DEF j
    <3>1. QED BY <2>1
  <2>3. p \in Nat
    BY <1>1, <1>4
  <2>4. r \in Nat /\ at - 1 = p + r
    BY <1>1, <1>4
  <2>5. i = r + 1
    OBVIOUS
  <2> HIDE DEF i, j, p, r
  <2>6. QED BY <2>2, <2>3, <2>4, <2>5
<1>8. Pad(data)[j][i] = IF (j - 1) * BlockLen + i <= Len(data)
                        THEN data[(j - 1) * BlockLen + i] ELSE n * BlockLen - Len(data)
  <2> HIDE DEF j, i
  <2>1. QED BY <1>6 DEF Pad
<1>9. ByteAt(Pad(data), at) = Pad(data)[j][i]
  BY DEF ByteAt
<1>10. Added(data) = n * BlockLen - Len(data)
  BY DEF Added
<1> HIDE DEF n, i, j
<1>11. QED BY <1>7, <1>8, <1>9, <1>10

\* A padded file is a sequence of blocks.
LEMMA PadType ==
  ASSUME NEW data \in Seq(Bytes)
  PROVE  Pad(data) \in Seq(Blocks)
<1> DEFINE n == Len(data) \div BlockLen + 1
<1>1. n \in Nat
  <2>1. BlockLen \in Nat \ {0} /\ Len(data) \in Nat
    BY CipherAssumption
  <2>2. Len(data) \div BlockLen \in Nat
    BY <2>1, DivisionWithRemainder
  <2>3. QED BY <2>2
<1>2. n * BlockLen - Len(data) \in Bytes
  <2>1. Added(data) \in 1 .. BlockLen
    BY AddedRange
  <2>2. Added(data) \in Bytes
    <3>1. MaxByte \in Nat /\ BlockLen \in 1 .. MaxByte
      BY CipherAssumption
    <3>2. QED BY <2>1, <3>1 DEF Bytes
  <2>3. Added(data) = n * BlockLen - Len(data)
    BY DEF Added
  <2>4. QED BY <2>2, <2>3
<1>3. ASSUME NEW j \in 1 .. n, NEW i \in 1 .. BlockLen
      PROVE  (IF (j - 1) * BlockLen + i <= Len(data)
              THEN data[(j - 1) * BlockLen + i] ELSE n * BlockLen - Len(data)) \in Bytes
  <2>1. (j - 1) * BlockLen \in Nat
    BY <1>1, CipherAssumption
  <2>2. (j - 1) * BlockLen + i \in Nat \ {0}
    BY <2>1
  <2> DEFINE at == (j - 1) * BlockLen + i
  <2> HIDE DEF at
  <2>3. at \in Nat \ {0}
    BY <2>2 DEF at
  <2>4. at <= Len(data) => data[at] \in Bytes
    BY <2>3
  <2>5. QED BY <2>4, <1>2 DEF at
<1>4. \A j \in 1 .. n :
         [i \in 1 .. BlockLen |-> IF (j - 1) * BlockLen + i <= Len(data)
             THEN data[(j - 1) * BlockLen + i] ELSE n * BlockLen - Len(data)] \in Blocks
  <2> HIDE DEF n
  <2>1. QED BY <1>3 DEF Blocks
<1>5. QED
  <2> HIDE DEF n
  <2>1. Pad(data) = [j \in 1 .. n |-> [i \in 1 .. BlockLen |->
           IF (j - 1) * BlockLen + i <= Len(data)
           THEN data[(j - 1) * BlockLen + i] ELSE n * BlockLen - Len(data)]]
    BY DEF Pad, n
  <2> DEFINE block(j) == [i \in 1 .. BlockLen |->
                 IF (j - 1) * BlockLen + i <= Len(data)
                 THEN data[(j - 1) * BlockLen + i] ELSE n * BlockLen - Len(data)]
  <2>2. \A j \in 1 .. n : block(j) \in Blocks
    BY <1>4
  <2>3. Pad(data) = [j \in 1 .. n |-> block(j)]
    BY <2>1
  <2> HIDE DEF block
  <2>4. [j \in 1 .. n |-> block(j)] \in Seq(Blocks)
    BY <1>1, <2>2
  <2>5. QED BY <2>3, <2>4

\* Whatever its length and its last bytes, a padded file is accepted and gives
\* back the file.
THEOREM UnpadInvertsPad ==
  ASSUME NEW data \in Seq(Bytes)
  PROVE  PaddingIsValid(Pad(data)) /\ Unpad(Pad(data)) = data
<1> DEFINE size == Len(Pad(data)) * BlockLen
<1>1. /\ Added(data) \in 1 .. BlockLen
      /\ size = Len(data) + Added(data)
      /\ Len(data) \in Nat /\ BlockLen \in Nat
  BY AddedRange, CipherAssumption
<1>2. \A at \in 1 .. size :
         ByteAt(Pad(data), at) = IF at <= Len(data) THEN data[at] ELSE Added(data)
  BY PaddedBytes
<1> HIDE DEF size
<1>3. ByteAt(Pad(data), size) = Added(data)
  BY <1>1, <1>2
<1>4. PaddingIsValid(Pad(data))
  <2>1. \A at \in (size - Added(data) + 1) .. size :
           ByteAt(Pad(data), at) = Added(data)
    BY <1>1, <1>2
  <2>2. size > 0
    BY <1>1
  <2>3. QED BY <1>1, <1>3, <2>1, <2>2 DEF PaddingIsValid, size
<1>5. Unpad(Pad(data)) = [at \in 1 .. Len(data) |-> data[at]]
  <2>1. size - ByteAt(Pad(data), size) = Len(data)
    BY <1>1, <1>3
  <2>2. \A at \in 1 .. Len(data) : ByteAt(Pad(data), at) = data[at]
    BY <1>1, <1>2
  <2>3. Unpad(Pad(data)) = [at \in 1 .. Len(data) |-> ByteAt(Pad(data), at)]
    BY <2>1 DEF Unpad, size
  <2>4. QED BY <2>2, <2>3
<1>6. QED BY <1>4, <1>5

-----------------------------------------------------------------------------
(* CbcEncrypt produces such a chain *)

\* The least-number principle, without an operator parameter.
LEMMA LeastNumber ==
  ASSUME NEW T \in SUBSET Nat, T # {}
  PROVE  \E x \in T : \A y \in T : x <= y
<1> DEFINE R == OpToRel(<, Nat)
<1>1. IsWellFoundedOn(R, Nat)
  BY NatLessThanWellFounded
<1>2. \A y, x \in Nat : y < x => <<y, x>> \in R
  BY DEF OpToRel
<1> HIDE DEF R
<1>3. PICK x \in T : \A y \in T : ~ (<<y, x>> \in R)
  BY <1>1, WFMin
<1>4. ASSUME NEW y \in T PROVE x <= y
  <2>1. x \in Nat /\ y \in Nat /\ ~ (y < x)
    BY <1>2, <1>3
  <2>2. QED BY <2>1
<1>5. QED BY <1>4

LEMMA XorBlockType ==
  ASSUME NEW a \in Blocks, NEW b \in Blocks
  PROVE  XorBlock(a, b) \in Blocks
  BY CipherAssumption DEF XorBlock, Blocks

\* c is the chain of the first n blocks, after the IV.
Chained(key, iv, plain, c, n) ==
    /\ c[0] = iv
    /\ \A j \in 1 .. n : c[j] = Enc(key, XorBlock(plain[j], c[j - 1]))

\* Every file has its chain: the chain of n - 1 blocks goes on for one more.
LEMMA ChainExists ==
  ASSUME NEW key \in AesKeys, NEW iv \in Blocks, NEW plain \in Seq(Blocks)
  PROVE  \E c \in [0 .. Len(plain) -> Blocks] : Chained(key, iv, plain, c, Len(plain))
<1> DEFINE Has(n) == \E c \in [0 .. n -> Blocks] : Chained(key, iv, plain, c, n)
           T == {n \in 0 .. Len(plain) : ~ Has(n)}
<1>1. SUFFICES ASSUME T # {} PROVE FALSE
  OBVIOUS
<1>2. T \in SUBSET Nat
  OBVIOUS
<1> HIDE DEF T
<1>3. PICK n \in T : \A y \in T : n <= y
  BY <1>1, <1>2, LeastNumber
<1>4. n \in 0 .. Len(plain) /\ ~ Has(n)
  BY DEF T
<1>5. Has(0)
  <2>1. [j \in 0 .. 0 |-> iv] \in [0 .. 0 -> Blocks]
    OBVIOUS
  <2>2. Chained(key, iv, plain, [j \in 0 .. 0 |-> iv], 0)
    BY DEF Chained
  <2>3. QED BY <2>1, <2>2
<1> HIDE DEF Has
<1>6. n # 0
  BY <1>4, <1>5
<1>7. n - 1 \in 0 .. Len(plain) /\ n - 1 \notin T
  BY <1>3, <1>4, <1>6
<1>8. Has(n - 1)
  BY <1>7 DEF T
<1>9. PICK c \in [0 .. n - 1 -> Blocks] : Chained(key, iv, plain, c, n - 1)
  BY <1>8 DEF Has
<1> DEFINE next == Enc(key, XorBlock(plain[n], c[n - 1]))
<1>10. next \in Blocks
  <2>1. n \in 1 .. Len(plain)
    BY <1>4, <1>6
  <2>2. plain[n] \in Blocks /\ c[n - 1] \in Blocks
    BY <2>1, <1>9
  <2>3. QED BY <2>2, XorBlockType, CipherAssumption
<1> DEFINE d == [j \in 0 .. n |-> IF j < n THEN c[j] ELSE next]
<1>11. d \in [0 .. n -> Blocks]
  <2> HIDE DEF next
  <2>1. QED BY <1>4, <1>9, <1>10
<1>12. Chained(key, iv, plain, d, n)
  <2>1. d[0] = iv
    BY <1>4, <1>6, <1>9 DEF Chained
  <2>2. ASSUME NEW j \in 1 .. n
        PROVE  d[j] = Enc(key, XorBlock(plain[j], d[j - 1]))
    <3>1. d[j - 1] = c[j - 1]
      BY <1>4
    <3>2. CASE j = n
      <4>1. d[j] = next
        BY <1>4, <3>2
      <4>2. QED BY <3>1, <3>2, <4>1
    <3>3. CASE j # n
      <4>1. j \in 1 .. n - 1 /\ d[j] = c[j]
        BY <1>4, <3>3
      <4>2. QED BY <1>9, <3>1, <4>1 DEF Chained
    <3>4. QED BY <3>2, <3>3
  <2> HIDE DEF d
  <2>3. QED BY <2>1, <2>2 DEF Chained
<1>13. QED
  <2> HIDE DEF d
  <2>1. QED BY <1>4, <1>11, <1>12 DEF Has

\* What CbcEncrypt returns is a chain of blocks in CBC mode.
THEOREM CbcEncryptIsCbc ==
  ASSUME NEW key \in AesKeys, NEW iv \in Blocks, NEW plain \in Seq(Blocks)
  PROVE  /\ CbcEncrypt(key, iv, plain) \in Seq(Blocks)
         /\ IsCbc(key, iv, plain, CbcEncrypt(key, iv, plain))
<1> DEFINE body(c) == [j \in 0 .. Len(plain) |->
               IF j = 0 THEN iv ELSE Enc(key, XorBlock(plain[j], c[j - 1]))]
           chain == CHOOSE c : c = body(c)
           result == CbcEncrypt(key, iv, plain)
<1>1. result = [j \in 1 .. Len(plain) |-> chain[j]]
  BY DEF CbcEncrypt
<1>2. \E c : c = body(c)
  <2>1. PICK c \in [0 .. Len(plain) -> Blocks] : Chained(key, iv, plain, c, Len(plain))
    BY ChainExists
  <2>2. \A j \in 0 .. Len(plain) :
           c[j] = IF j = 0 THEN iv ELSE Enc(key, XorBlock(plain[j], c[j - 1]))
    BY <2>1 DEF Chained
  <2>3. c = [j \in 0 .. Len(plain) |-> c[j]]
    BY <2>1
  <2>4. c = body(c)
    BY <2>2, <2>3
  <2>5. QED BY <2>4
<1>3. chain = body(chain)
  <2> HIDE DEF body
  <2>1. QED BY <1>2, Zenon
<1> HIDE DEF chain
<1>4. /\ chain[0] = iv
      /\ \A j \in 1 .. Len(plain) : chain[j] = Enc(key, XorBlock(plain[j], chain[j - 1]))
  BY <1>3
<1> HIDE DEF body
<1>5. \A j \in 0 .. Len(plain) : chain[j] \in Blocks
  <2> DEFINE T == {j \in 0 .. Len(plain) : chain[j] \notin Blocks}
  <2>1. SUFFICES ASSUME T # {} PROVE FALSE
    OBVIOUS
  <2>2. T \in SUBSET Nat
    OBVIOUS
  <2> HIDE DEF T
  <2>3. PICK n \in T : \A y \in T : n <= y
    BY <2>1, <2>2, LeastNumber
  <2>4. n \in 0 .. Len(plain) /\ chain[n] \notin Blocks
    BY DEF T
  <2>5. n # 0
    BY <2>4, <1>4
  <2>6. n - 1 \in 0 .. Len(plain) /\ n - 1 \notin T
    BY <2>3, <2>4, <2>5
  <2>7. chain[n - 1] \in Blocks
    BY <2>6 DEF T
  <2>8. n \in 1 .. Len(plain) /\ plain[n] \in Blocks
    BY <2>4, <2>5
  <2>9. XorBlock(plain[n], chain[n - 1]) \in Blocks
    BY <2>7, <2>8, XorBlockType
  <2>10. Enc(key, XorBlock(plain[n], chain[n - 1])) \in Blocks
    BY <2>9, CipherAssumption
  <2>11. QED BY <1>4, <2>4, <2>8, <2>10
<1> HIDE DEF result
<1>6. result \in Seq(Blocks) /\ Len(result) = Len(plain)
  <2>1. \A j \in 1 .. Len(plain) : chain[j] \in Blocks
    BY <1>5
  <2>2. QED BY <1>1, <2>1
<1>7. ASSUME NEW j \in 1 .. Len(plain)
      PROVE  result[j] = Enc(key, XorBlock(plain[j], Previous(iv, result, j)))
  <2>1. result[j] = chain[j]
    BY <1>1
  <2>2. Previous(iv, result, j) = chain[j - 1]
    <3>1. CASE j = 1
      BY <3>1, <1>4 DEF Previous
    <3>2. CASE j # 1
      <4>1. j - 1 \in 1 .. Len(plain)
        BY <3>2
      <4>2. result[j - 1] = chain[j - 1]
        BY <1>1, <4>1
      <4>3. QED BY <3>2, <4>2 DEF Previous
    <3>3. QED BY <3>1, <3>2
  <2>3. QED BY <1>4, <2>1, <2>2
<1>8. IsCbc(key, iv, plain, result)
  BY <1>6, <1>7 DEF IsCbc
<1>9. QED BY <1>6, <1>8 DEF result

-----------------------------------------------------------------------------

\* A stored file gives back its content: what DecryptFileAsync computes from the
\* two layers that EncryptFileAsync put on the padded file.
THEOREM LayersUndoThemselves ==
  ASSUME NEW key \in AesKeys, NEW iv \in Blocks, NEW data \in Seq(Bytes),
         NEW chacha \in Seq(Bytes), Len(chacha) > 0
  PROVE  LET plain == DecryptedBlocks(EncryptLayers(data, key, iv, chacha),
                                      key, iv, chacha)
         IN  PaddingIsValid(plain) /\ Unpad(plain) = data
<1> DEFINE cipher == CbcEncrypt(key, iv, Pad(data))
<1>1. cipher \in Seq(Blocks) /\ IsCbc(key, iv, Pad(data), cipher)
  BY PadType, CbcEncryptIsCbc
<1> HIDE DEF cipher
<1>2. XorLayer(XorLayer(cipher, chacha), chacha) = cipher
  BY <1>1, XorLayerUndoesItself
<1>3. CbcDecrypt(key, iv, cipher) = Pad(data)
  BY <1>1, PadType, CbcDecryptInvertsCbc
<1>4. DecryptedBlocks(EncryptLayers(data, key, iv, chacha), key, iv, chacha) = Pad(data)
  BY <1>2, <1>3 DEF DecryptedBlocks, EncryptLayers, cipher
<1>5. QED BY <1>4, UnpadInvertsPad
=============================================================================
