-------------------------- MODULE FileCryptoProofs --------------------------
(***************************************************************************)
(* FileCrypto for every set of users, files and passwords, every block     *)
(* cipher and every content.  The shipped key management never recovers a  *)
(* file's key: an envelope is empty or has three parts (salt, IV,          *)
(* ciphertext), and DecryptUserPrivateKey takes all of it for one          *)
(* ciphertext.  The private key of the owner would be enough: it opens the *)
(* keys of the file, and the keys give back the content.                   *)
(***************************************************************************)
EXTENDS FileCrypto, LayeredCipherProofs

-----------------------------------------------------------------------------
(* The keys *)

\* No envelope is a single ciphertext, and no key has been recovered.
EnvelopeInv ==
    /\ DOMAIN envelope = Users
    /\ \A u \in Users : Len(envelope[u]) # 1
    /\ result \in [Users -> [Files -> {"none", "error"}]]

LEMMA EnvelopeNeverOpens ==
  ASSUME EnvelopeInv, NEW u \in Users, NEW w
  PROVE  DecryptKey(w, u) = "error"
<1>1. DecryptUserPrivateKey(u) = Garbage
  BY DEF EnvelopeInv, DecryptUserPrivateKey, Decrypt
<1>2. ~ Imports(DecryptUserPrivateKey(u))
  BY <1>1, KeyAssumption DEF Imports
<1>3. QED BY <1>2 DEF DecryptKey

LEMMA EnvelopeInit == Init => EnvelopeInv
  BY DEF Init, EnvelopeInv

LEMMA UnwrapKeepsEnvelopeInv ==
  ASSUME EnvelopeInv, NEW u \in Users, NEW f \in Files, UnwrapFileKey(u, f)
  PROVE  EnvelopeInv'
<1>1. DecryptKey(wrapped[f], u) = "error"
  BY EnvelopeNeverOpens
<1>2. result' = [result EXCEPT ![u][f] = "error"] /\ envelope' = envelope
  BY <1>1 DEF UnwrapFileKey
<1>3. QED BY <1>2 DEF EnvelopeInv

LEMMA EnvelopeStep == EnvelopeInv /\ [Next]_vars => EnvelopeInv'
<1> SUFFICES ASSUME EnvelopeInv, [Next]_vars PROVE EnvelopeInv'
  OBVIOUS
<1>1. ASSUME NEW u \in Users, NEW p \in Passwords, Register(u, p)
      PROVE  EnvelopeInv'
  <2>1. Len(EncryptPrivateKey(u, p)) = 3
    BY DEF EncryptPrivateKey
  <2>2. envelope' = [envelope EXCEPT ![u] = EncryptPrivateKey(u, p)] /\ result' = result
    BY <1>1 DEF Register
  <2>3. ASSUME NEW v \in Users PROVE Len(envelope'[v]) # 1
    <3>1. DOMAIN envelope = Users /\ Len(envelope[v]) # 1
      BY DEF EnvelopeInv
    <3>2. envelope'[v] = IF v = u THEN EncryptPrivateKey(u, p) ELSE envelope[v]
      BY <2>2, <3>1
    <3>3. QED BY <2>1, <3>1, <3>2
  <2>4. DOMAIN envelope' = Users
    BY <2>2 DEF EnvelopeInv
  <2>5. QED BY <2>2, <2>3, <2>4 DEF EnvelopeInv
<1>2. ASSUME NEW u \in Users, NEW f \in Files, WrapFileKey(u, f)
      PROVE  EnvelopeInv'
  BY <1>2 DEF WrapFileKey, EnvelopeInv
<1>3. ASSUME NEW u \in Users, NEW f \in Files, UnwrapFileKey(u, f)
      PROVE  EnvelopeInv'
  BY <1>3, UnwrapKeepsEnvelopeInv
<1>4. ASSUME NEW f \in Files, NEW from \in Users, NEW to \in Users,
             ShareFileKey(f, from, to)
      PROVE  EnvelopeInv'
  BY <1>4, UnwrapKeepsEnvelopeInv DEF ShareFileKey
<1>5. CASE UNCHANGED vars
  BY <1>5 DEF vars, EnvelopeInv
<1>6. QED BY <1>1, <1>2, <1>3, <1>4, <1>5 DEF Next

\* Every DecryptKeyAsync on a stored file throws, for the owner too.
THEOREM KeysNeverRecovered == Spec => []DecryptKeyAlwaysThrows
<1>1. EnvelopeInv => DecryptKeyAlwaysThrows
  BY DEF EnvelopeInv, DecryptKeyAlwaysThrows
<1>2. QED BY EnvelopeInit, EnvelopeStep, <1>1, PTL DEF Spec

-----------------------------------------------------------------------------
(* The files *)

\* FileCrypto adds the contents to KeyVault and changes nothing in it.
THEOREM CryptoImplementsVault == CryptoSpec => Spec
<1>1. CryptoInit => Init
  BY DEF CryptoInit
<1>2. [CryptoNext]_cryptoVars => [Next]_vars
  BY DEF CryptoNext, EncryptFile, Next, cryptoVars
<1>3. QED BY <1>1, <1>2, PTL DEF CryptoSpec, Spec

\* The keys of a file are wrapped for its owner, and its bytes are the two
\* layers on what was uploaded.
StoredInv ==
    /\ DOMAIN owner = Files /\ DOMAIN wrapped = Files
    /\ DOMAIN content = Files /\ DOMAIN stored = Files
    /\ \A f \in Files : owner[f] # None =>
          /\ wrapped[f] = [to |-> owner[f], key |-> f]
          /\ content[f] \in Contents
          /\ stored[f].key \in AesKeys
          /\ stored[f].iv \in Ivs
          /\ stored[f].chacha \in ChachaKeys
          /\ stored[f].blocks =
                EncryptLayers(content[f], stored[f].key, stored[f].iv, stored[f].chacha)

LEMMA StoredInit == CryptoInit => StoredInv
  BY DEF CryptoInit, Init, StoredInv

LEMMA StoredStep == StoredInv /\ [CryptoNext]_cryptoVars => StoredInv'
<1> SUFFICES ASSUME StoredInv, [CryptoNext]_cryptoVars PROVE StoredInv'
  OBVIOUS
<1>1. ASSUME NEW u \in Users, NEW f \in Files, EncryptFile(u, f)
      PROVE  StoredInv'
  <2>1. PICK data \in Contents, key \in AesKeys, iv \in Ivs, chacha \in ChachaKeys :
          /\ content' = [content EXCEPT ![f] = data]
          /\ stored' = [stored EXCEPT ![f] =
                [blocks |-> EncryptLayers(data, key, iv, chacha),
                 iv |-> iv, key |-> key, chacha |-> chacha]]
    BY <1>1 DEF EncryptFile
  <2>2. /\ owner' = [owner EXCEPT ![f] = u]
        /\ wrapped' = [wrapped EXCEPT ![f] = [to |-> u, key |-> f]]
    BY <1>1 DEF EncryptFile, WrapFileKey
  <2>3. QED BY <2>1, <2>2 DEF StoredInv
<1>2. ASSUME UNCHANGED <<owner, wrapped, content, stored>> PROVE StoredInv'
  BY <1>2 DEF StoredInv
<1>3. ASSUME UNCHANGED <<content, stored>>,
             \/ \E u \in Users, p \in Passwords : Register(u, p)
             \/ \E u \in Users, f \in Files : UnwrapFileKey(u, f)
             \/ \E f \in Files, from, to \in Users : ShareFileKey(f, from, to)
      PROVE  StoredInv'
  BY <1>2, <1>3 DEF Register, UnwrapFileKey, ShareFileKey
<1>4. CASE UNCHANGED cryptoVars
  BY <1>2, <1>4 DEF cryptoVars, vars
<1>5. QED BY <1>1, <1>3, <1>4 DEF CryptoNext

\* With the private key of its owner, and with no other, a stored file gives
\* back exactly what was uploaded.
THEOREM StoredFilesOpen == CryptoSpec => []StoredFileOpensForOwner
<1>1. StoredInv => StoredFileOpensForOwner
  <2> SUFFICES ASSUME StoredInv, NEW f \in Files, NEW u \in Users, owner[f] # None
               PROVE  IF u = owner[f]
                      THEN RsaDecrypt(u, wrapped[f]) = f /\ GivesContent(f)
                      ELSE RsaDecrypt(u, wrapped[f]) = "error"
    BY DEF StoredFileOpensForOwner
  <2>1. RsaDecrypt(u, wrapped[f]) = IF owner[f] = u THEN f ELSE "error"
    BY DEF StoredInv, RsaDecrypt
  <2>2. /\ stored[f].key \in AesKeys /\ stored[f].iv \in Blocks
        /\ content[f] \in Seq(Bytes)
        /\ stored[f].chacha \in Seq(Bytes) /\ stored[f].chacha # <<>>
    BY FileAssumption DEF StoredInv
  <2>3. Len(stored[f].chacha) > 0
    BY <2>2
  <2>4. stored[f].blocks =
          EncryptLayers(content[f], stored[f].key, stored[f].iv, stored[f].chacha)
    BY DEF StoredInv
  <2>5. PaddingIsValid(Plain(f)) /\ Unpad(Plain(f)) = content[f]
    BY <2>2, <2>3, <2>4, LayersUndoThemselves DEF Plain
  <2>6. QED BY <2>1, <2>5 DEF GivesContent
<1>2. QED BY StoredInit, StoredStep, <1>1, PTL DEF CryptoSpec
=============================================================================
