------------------------------ MODULE KeyVault ------------------------------
(***************************************************************************)
(* The key envelopes: how registration stores a user's private key, how an *)
(* upload wraps a file's key for its owner, and how a download and a share *)
(* unwrap it (AuthController, KeyManagementService).  Cryptography is      *)
(* symbolic: a derived key is what it is derived from, a ciphertext opens  *)
(* with exactly the key that made it, and everything else decrypts to      *)
(* Garbage, which no key parser accepts.                                   *)
(*                                                                         *)
(* The columns involved never change once written, so each operation is    *)
(* one step.  The two keys of a file (AES and XOR) are handled alike, and  *)
(* one stands for both.                                                    *)
(***************************************************************************)
EXTENDS Sequences

CONSTANTS
    Users,
    Files,
    Passwords,
    None,
    Garbage

ASSUME KeyAssumption == None \notin Users /\ Garbage \notin Users

VARIABLES
    password,   \* the password each user registered with, None before
    envelope,   \* Users.EncryptedPrivateKey, as the sequence of its parts
    owner,      \* SecureFiles.OwnerId, None before the upload
    wrapped,    \* SecureFiles.EncryptedFileKey: for whose key pair, which key
    result      \* what the last DecryptKeyAsync of a user on a file returned

vars == <<password, envelope, owner, wrapped, result>>

Init ==
    /\ password = [u \in Users |-> None]
    /\ envelope = [u \in Users |-> <<>>]
    /\ owner = [f \in Files |-> None]
    /\ wrapped = [f \in Files |-> None]
    /\ result = [u \in Users |-> [f \in Files |-> "none"]]

-----------------------------------------------------------------------------
(* Symbolic cryptography *)

\* Rfc2898DeriveBytes.
Derive(secret, salt) == <<"derived", secret, salt>>

\* The two salts drawn at registration.
LoginSalt(u) == <<"login salt", u>>
WrapSalt(u)  == <<"wrap salt", u>>

\* AES under a derived key.
Encrypt(key, plain) == <<"cipher", key, plain>>
Decrypt(key, parts) ==
    IF Len(parts) = 1 /\ parts[1][1] = "cipher" /\ parts[1][2] = key
    THEN parts[1][3] ELSE Garbage

\* ImportRSAPrivateKey; a user's key pair is named after the user.
Imports(bytes) == bytes \in Users

\* RSA-OAEP: decrypting with another private key throws.
RsaDecrypt(private, w) == IF w.to = private THEN w.key ELSE "error"

-----------------------------------------------------------------------------
(* The operations *)

PasswordHash(u) == Derive(password[u], LoginSalt(u))

\* AuthController.EncryptPrivateKey: salt, then IV, then ciphertext.
EncryptPrivateKey(u, p) ==
    LET key == Derive(p, WrapSalt(u))
    IN  << <<"salt", WrapSalt(u)>>, <<"iv", key>>, Encrypt(key, u) >>

Register(u, p) ==
    /\ password[u] = None
    /\ password' = [password EXCEPT ![u] = p]
    /\ envelope' = [envelope EXCEPT ![u] = EncryptPrivateKey(u, p)]
    /\ UNCHANGED <<owner, wrapped, result>>

\* mutant: the inverse of EncryptPrivateKey, for a password kept in memory
DecryptUserPrivateKey_inverse(u) ==
    Decrypt(Derive(password[u], WrapSalt(u)), <<envelope[u][3]>>)

\* KeyManagementService.DecryptUserPrivateKey: the key is derived from the
\* stored hash and the login salt, and the whole envelope is decrypted.
DecryptUserPrivateKey(u) ==
    Decrypt(Derive(PasswordHash(u), LoginSalt(u)), envelope[u])

\* EncryptKeyAsync, called by an upload for its own user.
WrapFileKey(u, f) ==
    /\ password[u] # None
    /\ owner[f] = None
    /\ owner' = [owner EXCEPT ![f] = u]
    /\ wrapped' = [wrapped EXCEPT ![f] = [to |-> u, key |-> f]]
    /\ UNCHANGED <<password, envelope, result>>

\* DecryptKeyAsync.
DecryptKey(w, u) ==
    IF Imports(DecryptUserPrivateKey(u))
    THEN RsaDecrypt(DecryptUserPrivateKey(u), w)
    ELSE "error"

UnwrapFileKey(u, f) ==
    /\ password[u] # None
    /\ owner[f] # None
    /\ result' = [result EXCEPT ![u][f] = DecryptKey(wrapped[f], u)]
    /\ UNCHANGED <<password, envelope, owner, wrapped>>

\* ShareFileKeyAsync unwraps for one user and wraps for another, but the new
\* envelopes are local variables: SecureFiles is left as it was.
ShareFileKey(f, from, to) ==
    /\ password[from] # None /\ password[to] # None
    /\ UnwrapFileKey(from, f)

Next ==
    \/ \E u \in Users, p \in Passwords : Register(u, p)
    \/ \E u \in Users, f \in Files : WrapFileKey(u, f) \/ UnwrapFileKey(u, f)
    \/ \E f \in Files, from, to \in Users : ShareFileKey(f, from, to)

Spec == Init /\ [][Next]_vars

-----------------------------------------------------------------------------
(* Properties *)

\* The service as shipped: whatever users and passwords coincide, every
\* DecryptKeyAsync on a stored file throws.  This is the instance of FileVault
\* in which Unwraps is empty.
DecryptKeyAlwaysThrows ==
    \A u \in Users, f \in Files : result[u][f] \in {"none", "error"}

\* README.md:120 "Encrypt keys with user's RSA public key": the owner of a
\* stored file, who holds the private key, recovers its keys.
OwnerRecoversFileKey ==
    \A u \in Users, f \in Files :
        (owner[f] = u /\ result[u][f] # "none") => result[u][f] = f
=============================================================================
