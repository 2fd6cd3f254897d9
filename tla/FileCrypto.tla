----------------------------- MODULE FileCrypto -----------------------------
(***************************************************************************)
(* A stored file as a whole: the key envelopes of KeyVault around the      *)
(* layers of LayeredCipher.  An upload encrypts the content under two      *)
(* fresh keys and wraps them for its user; who has the keys undoes the     *)
(* layers.                                                                 *)
(***************************************************************************)
EXTENDS KeyVault, LayeredCipher

CONSTANTS
    Contents,    \* what users upload, as sequences of bytes
    ChachaKeys,  \* keys of the XOR layer, as sequences of bytes
    Ivs

ASSUME FileAssumption ==
    /\ Contents \subseteq Seq(Bytes)
    /\ ChachaKeys \subseteq Seq(Bytes) \ {<<>>}
    /\ Ivs \subseteq Blocks

VARIABLES
    content,     \* what was uploaded as each file
    stored       \* its EncryptionResult: the bytes, the IV and, for the model,
                 \* the keys that wrapped[f] stands for

cryptoVars == <<vars, content, stored>>

NoFile == [blocks |-> <<>>, iv |-> <<>>, key |-> None, chacha |-> <<>>]

CryptoInit ==
    /\ Init
    /\ content = [f \in Files |-> <<>>]
    /\ stored = [f \in Files |-> NoFile]

\* EncryptFileAsync, and the row and bytes the upload keeps of its result.
EncryptFile(u, f) ==
    /\ WrapFileKey(u, f)
    /\ \E data \in Contents, key \in AesKeys, iv \in Ivs, chacha \in ChachaKeys :
          /\ content' = [content EXCEPT ![f] = data]
          /\ stored' = [stored EXCEPT ![f] =
                [blocks |-> EncryptLayers(data, key, iv, chacha),
                 iv |-> iv, key |-> key, chacha |-> chacha]]

\* DecryptFileAsync once the keys are there: what the layers give back, and
\* whether it is the upload.
Plain(f) ==
    DecryptedBlocks(stored[f].blocks, stored[f].key, stored[f].iv, stored[f].chacha)
GivesContent(f) == PaddingIsValid(Plain(f)) /\ Unpad(Plain(f)) = content[f]

CryptoNext ==
    \/ \E u \in Users, f \in Files : EncryptFile(u, f)
    \/ /\ \/ \E u \in Users, p \in Passwords : Register(u, p)
          \/ \E u \in Users, f \in Files : UnwrapFileKey(u, f)
          \/ \E f \in Files, from, to \in Users : ShareFileKey(f, from, to)
       /\ UNCHANGED <<content, stored>>

CryptoSpec == CryptoInit /\ [][CryptoNext]_cryptoVars

-----------------------------------------------------------------------------
(* Property *)

\* Whoever holds the private key of a stored file's owner recovers exactly what
\* was uploaded, whatever its length, also when it ends like a padding or fills
\* its last block; with any other private key the keys do not open.
StoredFileOpensForOwner ==
    \A f \in Files, u \in Users : owner[f] # None =>
        IF u = owner[f]
        THEN RsaDecrypt(u, wrapped[f]) = f /\ GivesContent(f)
        ELSE RsaDecrypt(u, wrapped[f]) = "error"
=============================================================================
