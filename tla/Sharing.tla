------------------------------- MODULE Sharing -------------------------------
(***************************************************************************)
(* Share links (SharingService) and permissions (PermissionService): a     *)
(* token in the distributed cache and a row in FilePermissions, written    *)
(* one after the other by calls that may fail in between, while files are  *)
(* deleted and time passes.  A share is named by the call that creates it: *)
(* each call draws its own token.  No endpoint calls these services yet;   *)
(* their callers are any number of concurrent requests.                    *)
(***************************************************************************)
EXTENDS Naturals

CONSTANTS
    Shares,       \* calls of CreateShareLinkAsync
    Files, Users,
    Owner,        \* the user who owns the files
    Arguments,    \* values of the parameter permissions: one name of
                  \* PermissionType, or what else the page offers
    DefaultDays,  \* life of a token without an expiry, 7 days in the code
    Horizon,      \* the time at which the model stops
    None

Times == 0 .. Horizon

ASSUME SharingAssumption ==
    /\ Owner \in Users
    /\ DefaultDays \in Nat \ {0}
    /\ Horizon \in Nat
    /\ None \notin Nat
    /\ Arguments \subseteq {"Read", "Write", "Delete", "Share", "Owner", "ReadWrite"}

VARIABLES
    now,
    deleted,     \* files with IsDeleted
    pc,          \* where each call is, or how it ended
    file, user, argument, expiresAt,   \* its parameters
    tokenUntil,  \* ShareData.ExpiresAt
    cache,       \* the calls whose token is in the cache
    permissions  \* the table FilePermissions

params == <<file, user, argument, expiresAt, tokenUntil>>
vars == <<now, deleted, pc, params, cache, permissions>>

\* A row; its id is the call that drew it.
FilePermission ==
    [id: Shares, fileId: Files, userId: Users,
     permission: SUBSET {"read", "write", "delete", "share"},
     expiresAt: Times \cup {None}]

InFlight == {"caching", "granting"}

TypeOK ==
    /\ now \in Times
    /\ deleted \subseteq Files
    /\ pc \in [Shares -> {"idle", "ok", "error", "lost"} \cup InFlight]
    /\ file \in [Shares -> Files \cup {None}]
    /\ user \in [Shares -> Users \cup {None}]
    /\ argument \in [Shares -> Arguments \cup {None}]
    /\ expiresAt \in [Shares -> Times \cup {None}]
    /\ tokenUntil \in [Shares -> Nat]
    /\ cache \subseteq Shares
    /\ permissions \subseteq FilePermission

Init ==
    /\ now = 0
    /\ deleted = {}
    /\ pc = [s \in Shares |-> "idle"]
    /\ file = [s \in Shares |-> None]
    /\ user = [s \in Shares |-> None]
    /\ argument = [s \in Shares |-> None]
    /\ expiresAt = [s \in Shares |-> None]
    /\ tokenUntil = [s \in Shares |-> 0]
    /\ cache = {}
    /\ permissions = {}

-----------------------------------------------------------------------------
(* PermissionService, on the rows of the table *)

\* PermissionType, a set of flags.
Flags(a) ==
    CASE a = "Read"   -> {"read"}
      [] a = "Write"  -> {"write"}
      [] a = "Delete" -> {"delete"}
      [] a = "Share"  -> {"share"}
      [] a = "Owner"  -> {"read", "write", "delete", "share"}
      [] OTHER        -> {}

\* Enum.Parse: the page also offers "ReadWrite", which is not a PermissionType.
Parses(a) == Flags(a) # {}

\* mutant: the row does not get the expiry
NewRow_forever(s) ==
    [id |-> s, fileId |-> file[s], userId |-> user[s],
     permission |-> Flags(argument[s]), expiresAt |-> None]

\* The row that GrantPermissionAsync makes of its arguments.
NewRow(s) ==
    [id |-> s, fileId |-> file[s], userId |-> user[s],
     permission |-> Flags(argument[s]), expiresAt |-> expiresAt[s]]

\* file.Permissions of one user: FirstOrDefault takes any of them.
Rows(u, f) == {p \in permissions : p.userId = u /\ p.fileId = f}

\* mutant: a row without an expiry counts as expired
Expired_null(p) == p.expiresAt = None \/ p.expiresAt < now

Expired(p) == p.expiresAt # None /\ p.expiresAt < now

\* The row p lets its user read the file.
Permits(p) == ~Expired(p) /\ "read" \in p.permission

\* CanAccessFileAsync and CanShareFileAsync may answer yes, and no; only the
\* first looks at IsDeleted and at the expiry.
MayAccess(u, f) == f \notin deleted /\ (u = Owner \/ \E p \in Rows(u, f) : Permits(p))
MayBeDenied(u, f) ==
    \/ f \in deleted
    \/ u # Owner /\ (Rows(u, f) = {} \/ \E p \in Rows(u, f) : ~Permits(p))
MayShare(u, f) == u = Owner \/ \E p \in Rows(u, f) : "share" \in p.permission

\* CanDeleteFileAsync, for any file, deleted or not: no row is looked at.
MayDelete(u, f) == f \in Files /\ u = Owner

-----------------------------------------------------------------------------
(* SharingService *)

Goto(s, label) == pc' = [pc EXCEPT ![s] = label]

\* mutant: every token gets the default life
CreateShareLink_default(s, f, u, a, e) ==
    /\ pc[s] = "idle"
    /\ file' = [file EXCEPT ![s] = f]
    /\ user' = [user EXCEPT ![s] = u]
    /\ argument' = [argument EXCEPT ![s] = a]
    /\ expiresAt' = [expiresAt EXCEPT ![s] = e]
    /\ tokenUntil' = [tokenUntil EXCEPT ![s] = now + DefaultDays]
    /\ Goto(s, "caching")
    /\ UNCHANGED <<now, deleted, cache, permissions>>

CreateShareLink(s, f, u, a, e) ==
    /\ pc[s] = "idle"
    /\ file' = [file EXCEPT ![s] = f]
    /\ user' = [user EXCEPT ![s] = u]
    /\ argument' = [argument EXCEPT ![s] = a]
    /\ expiresAt' = [expiresAt EXCEPT ![s] = e]
    /\ tokenUntil' = [tokenUntil EXCEPT ![s] = IF e = None THEN now + DefaultDays ELSE e]
    /\ Goto(s, "caching")
    /\ UNCHANGED <<now, deleted, cache, permissions>>

\* SetStringAsync throws when the absolute expiration is not in the future.
CacheToken(s) ==
    /\ pc[s] = "caching"
    /\ IF tokenUntil[s] > now
       THEN cache' = cache \cup {s} /\ Goto(s, "granting")
       ELSE Goto(s, "error") /\ UNCHANGED cache
    /\ UNCHANGED <<now, deleted, params, permissions>>

\* mutant: an argument that does not parse is passed over
GrantPermission_lenient(s) ==
    /\ pc[s] = "granting"
    /\ permissions' = IF Parses(argument[s]) THEN permissions \cup {NewRow(s)} ELSE permissions
    /\ Goto(s, "ok")
    /\ UNCHANGED <<now, deleted, params, cache>>

\* mutant: the token is cached once more with the grant
GrantPermission_recaches(s) ==
    /\ pc[s] = "granting"
    /\ IF Parses(argument[s])
       THEN permissions' = permissions \cup {NewRow(s)} /\ cache' = cache \cup {s} /\ Goto(s, "ok")
       ELSE Goto(s, "error") /\ UNCHANGED <<cache, permissions>>
    /\ UNCHANGED <<now, deleted, params>>

\* GrantPermissionAsync; then the token is returned.
GrantPermission(s) ==
    /\ pc[s] = "granting"
    /\ IF Parses(argument[s])
       THEN permissions' = permissions \cup {NewRow(s)} /\ Goto(s, "ok")
       ELSE Goto(s, "error") /\ UNCHANGED permissions
    /\ UNCHANGED <<now, deleted, params, cache>>

\* mutant: a token counts as long as it is in the cache
ValidateShareToken_cached(s) == s \in cache

\* ValidateShareTokenAsync.
ValidateShareToken(s) == s \in cache /\ tokenUntil[s] > now

-----------------------------------------------------------------------------
(* Time, other requests and faults *)

Tick ==
    /\ now < Horizon
    /\ now' = now + 1
    /\ UNCHANGED <<deleted, pc, params, cache, permissions>>

\* SecureDeleteFileAsync of another request; permission rows and tokens stay.
DeleteFile(f) ==
    /\ f \notin deleted
    /\ deleted' = deleted \cup {f}
    /\ UNCHANGED <<now, pc, params, cache, permissions>>

\* The cache drops an entry at its expiration, or before when it needs room.
Evict(s) ==
    /\ s \in cache
    /\ cache' = cache \ {s}
    /\ UNCHANGED <<now, deleted, pc, params, permissions>>

\* A call throws, before or after the store has done what it was asked.
Throw(s) ==
    /\ pc[s] \in InFlight
    /\ \/ UNCHANGED <<cache, permissions>>
       \/ pc[s] = "caching" /\ tokenUntil[s] > now
          /\ cache' = cache \cup {s} /\ UNCHANGED permissions
       \/ pc[s] = "granting" /\ Parses(argument[s])
          /\ permissions' = permissions \cup {NewRow(s)} /\ UNCHANGED cache
    /\ Goto(s, "error")
    /\ UNCHANGED <<now, deleted, params>>

\* The process is killed and started again; cache and database are not.
Crash ==
    /\ \E s \in Shares : pc[s] \in InFlight
    /\ pc' = [s \in Shares |-> IF pc[s] \in InFlight THEN "lost" ELSE pc[s]]
    /\ UNCHANGED <<now, deleted, params, cache, permissions>>

-----------------------------------------------------------------------------
(* Specification *)

Call(s) ==
    \/ \E f \in Files, u \in Users, a \in Arguments, e \in Times \cup {None} :
          CreateShareLink(s, f, u, a, e)
    \/ CacheToken(s) \/ GrantPermission(s)

Next ==
    \/ \E s \in Shares : Call(s) \/ Throw(s) \/ Evict(s)
    \/ \E f \in Files : DeleteFile(f)
    \/ Tick \/ Crash

Spec == Init /\ [][Next]_vars

-----------------------------------------------------------------------------
(* Properties *)

\* The token of a call that returned, while it validates, is backed by a row
\* that has not expired, for the user, the file and the rights that were asked
\* for, although token and row are written apart and get different expiries.
ReturnedTokenHasGrant ==
    \A s \in Shares :
        pc[s] = "ok" /\ ValidateShareToken(s) =>
            \E p \in Rows(user[s], file[s]) :
                p.id = s /\ p.permission = Flags(argument[s]) /\ ~Expired(p)

\* Whoever holds such a token for reading a file that is not deleted is let in,
\* unless another row of the same user is picked, one that has expired or does
\* not allow reading: no choice among rows that are all good denies access.
ReturnedTokenGrantsAccess ==
    \A s \in Shares :
        /\ pc[s] = "ok" /\ ValidateShareToken(s)
        /\ "read" \in Flags(argument[s])
        /\ MayBeDenied(user[s], file[s])
        => \/ file[s] \in deleted
           \/ \E other \in Rows(user[s], file[s]) : other.id # s /\ ~Permits(other)

\* Nobody else gets in: whoever the checks let read or share a file without
\* owning it was named in a call for that file with that permission, also when
\* the call failed after its row was stored; for reading, the expiry that the
\* call asked for has not passed.  No share lets anyone delete.
RightsComeFromShares ==
    \A u \in Users \ {Owner}, f \in Files :
        /\ MayAccess(u, f) =>
              \E s \in Shares : /\ pc[s] # "idle" /\ user[s] = u /\ file[s] = f
                                /\ "read" \in Flags(argument[s])
                                /\ expiresAt[s] # None => now <= expiresAt[s]
        /\ MayShare(u, f) =>
              \E s \in Shares : /\ pc[s] # "idle" /\ user[s] = u /\ file[s] = f
                                /\ "share" \in Flags(argument[s])
        /\ ~MayDelete(u, f)

\* Past the expiry that was asked for, neither the token nor the row works.
ExpiredShareIsDead ==
    \A s \in Shares :
        expiresAt[s] # None /\ expiresAt[s] < now =>
            /\ ~ValidateShareToken(s)
            /\ \A p \in permissions : p.id = s => ~Permits(p)

\* There is no way back: once a call is past the cache, a token that does not
\* validate, be it expired, evicted or never stored, never does again, and a
\* row is never changed, and permits nothing any more once it does not,
\* whatever the rest of its call, other calls, failures and restarts do.
NoShareRevives ==
    [][/\ \A s \in Shares : pc[s] \notin {"idle", "caching"} =>
              (~ValidateShareToken(s) => ~ValidateShareToken(s)')
       /\ \A p \in permissions :
              p \in permissions' /\ (~Permits(p) => ~Permits(p)')]_vars

-----------------------------------------------------------------------------
(* The inductive invariant *)

\* The life of the token is the expiry asked for, if one was; the token is
\* cached by a call that got that far and has its parameters, and a call that
\* returned has a row.
ShareInv ==
    \A s \in Shares :
        /\ pc[s] # "idle" => file[s] \in Files /\ user[s] \in Users
        /\ expiresAt[s] # None => tokenUntil[s] = expiresAt[s]
        /\ s \in cache => pc[s] \notin {"idle", "caching"}
        /\ pc[s] = "ok" => \E p \in permissions : p.id = s

\* A row is written by a call past the cache and says what the call asked for.
RowInv ==
    \A p \in permissions :
        /\ pc[p.id] \notin {"idle", "caching"}
        /\ p.fileId = file[p.id] /\ p.userId = user[p.id]
        /\ p.permission = Flags(argument[p.id])
        /\ p.expiresAt = expiresAt[p.id]

SharingInv == TypeOK /\ ShareInv /\ RowInv
=============================================================================
