---------------------------- MODULE SharingProofs ----------------------------
(***************************************************************************)
(* Sharing for every set of shares, files, users and arguments, every      *)
(* default life and every horizon: SharingInv is inductive, and the        *)
(* properties follow from it alone.  Parameters are fixed by the call,     *)
(* rows are never removed or changed, and a call writes its row, from its  *)
(* parameters, before it returns.                                          *)
(***************************************************************************)
EXTENDS Sharing, TLAPS

USE DEF Goto, vars, params, InFlight, Times

\* The rights of an argument are rights, and a new row is a row that says what
\* its call asked for.
LEMMA NewRowIsRow ==
  ASSUME SharingInv, NEW s \in Shares, pc[s] \notin {"idle", "caching"}
  PROVE  NewRow(s) \in FilePermission
  BY DEF SharingInv, TypeOK, ShareInv, RowInv, NewRow, FilePermission, Flags

LEMMA InitInv == Init => SharingInv
  BY SharingAssumption DEF Init, SharingInv, TypeOK, ShareInv, RowInv

LEMMA StepInv == SharingInv /\ [Next]_vars => SharingInv'
<1> SUFFICES ASSUME SharingInv, [Next]_vars PROVE SharingInv'
  OBVIOUS
<1>0. \A p \in permissions : p.id \in Shares
  BY DEF SharingInv, TypeOK, FilePermission
<1> USE SharingAssumption DEF SharingInv, TypeOK, ShareInv, RowInv
<1>1. ASSUME NEW s \in Shares, NEW f \in Files, NEW u \in Users,
             NEW a \in Arguments, NEW e \in Times \cup {None},
             CreateShareLink(s, f, u, a, e)
      PROVE  SharingInv'
  <2>1. (IF e = None THEN now + DefaultDays ELSE e) \in Nat
    OBVIOUS
  <2>2. TypeOK'
    BY <1>1, <2>1 DEF CreateShareLink
  <2>3. \A p \in permissions : p.id # s
    BY <1>1 DEF CreateShareLink
  <2>4. ShareInv' /\ RowInv'
    BY <1>0, <1>1, <2>3 DEF CreateShareLink
  <2>5. QED BY <2>2, <2>4
<1>2. ASSUME NEW s \in Shares, CacheToken(s) PROVE SharingInv'
  BY <1>0, <1>2 DEF CacheToken
<1>3. ASSUME NEW s \in Shares, GrantPermission(s) PROVE SharingInv'
  <2>1. TypeOK'
    BY <1>3, NewRowIsRow DEF GrantPermission
  <2>2. CASE Parses(argument[s])
    <3>1. /\ permissions' = permissions \cup {NewRow(s)} /\ pc' = [pc EXCEPT ![s] = "ok"]
          /\ UNCHANGED <<params, cache>> /\ pc[s] = "granting"
      BY <1>3, <2>2 DEF GrantPermission
    <3>2. NewRow(s) \in permissions' /\ NewRow(s).id = s
      BY <3>1 DEF NewRow
    <3>3. ShareInv'
      BY <3>1, <3>2
    <3>4. ASSUME NEW p \in permissions' PROVE p = NewRow(s) \/ p \in permissions
      BY <3>1
    <3>5. RowInv'
      <4>1. \A p \in permissions' : pc'[p.id] \notin {"idle", "caching"}
        BY <1>0, <3>1, <3>2, <3>4
      <4>2. ASSUME NEW p \in permissions'
            PROVE  /\ p.fileId = file'[p.id] /\ p.userId = user'[p.id]
                   /\ p.permission = Flags(argument'[p.id])
                   /\ p.expiresAt = expiresAt'[p.id]
        BY <3>1, <3>4 DEF NewRow
      <4>3. QED BY <4>1, <4>2
    <3>6. QED BY <2>1, <3>3, <3>5
  <2>3. CASE ~Parses(argument[s])
    BY <1>0, <1>3, <2>3 DEF GrantPermission
  <2>4. QED BY <2>1, <2>2, <2>3
<1>4. ASSUME NEW s \in Shares, Throw(s) PROVE SharingInv'
  <2>1. TypeOK'
    BY <1>4, NewRowIsRow DEF Throw
  <2>2. ShareInv' /\ RowInv'
    BY <1>0, <1>4 DEF Throw, NewRow
  <2>3. QED BY <2>1, <2>2
<1>5. ASSUME NEW s \in Shares, Evict(s) PROVE SharingInv'
  BY <1>0, <1>5 DEF Evict
<1>6. ASSUME NEW f \in Files, DeleteFile(f) PROVE SharingInv'
  BY <1>0, <1>6 DEF DeleteFile
<1>7. CASE Tick
  BY <1>0, <1>7 DEF Tick
<1>8. CASE Crash
  BY <1>0, <1>8 DEF Crash
<1>9. CASE UNCHANGED vars
  BY <1>9
<1>10. QED
  BY <1>1, <1>2, <1>3, <1>4, <1>5, <1>6, <1>7, <1>8, <1>9 DEF Next, Call

-----------------------------------------------------------------------------
(* The theorems *)

\* Every reachable state satisfies the inductive invariant.
THEOREM SharingInvariance == Spec => []SharingInv
  BY InitInv, StepInv, PTL DEF Spec

\* The token of a call that returned is backed by a row that has not expired.
THEOREM ReturnedTokensHaveGrants == Spec => []ReturnedTokenHasGrant
<1>1. SharingInv => ReturnedTokenHasGrant
  <2> SUFFICES ASSUME SharingInv, NEW s \in Shares, pc[s] = "ok", ValidateShareToken(s)
               PROVE  \E p \in Rows(user[s], file[s]) :
                         p.id = s /\ p.permission = Flags(argument[s]) /\ ~Expired(p)
    BY DEF ReturnedTokenHasGrant
  <2>1. PICK p \in permissions : p.id = s
    BY DEF SharingInv, ShareInv, RowInv
  <2>2. /\ p \in Rows(user[s], file[s]) /\ p.permission = Flags(argument[s])
        /\ p.expiresAt = expiresAt[s]
    BY <2>1 DEF SharingInv, ShareInv, RowInv, Rows
  <2>3. expiresAt[s] # None => expiresAt[s] > now
    BY DEF SharingInv, ShareInv, RowInv, ValidateShareToken
  <2>4. ~Expired(p)
    BY <2>2, <2>3, SharingAssumption DEF Expired, SharingInv, TypeOK
  <2>5. QED BY <2>1, <2>2, <2>4
<1>2. QED BY <1>1, SharingInvariance, PTL

\* Its holder is let in, unless another, bad row of the same user is picked.
THEOREM ReturnedTokensGrantAccess == Spec => []ReturnedTokenGrantsAccess
<1>1. SharingInv /\ ReturnedTokenHasGrant => ReturnedTokenGrantsAccess
  <2> SUFFICES ASSUME SharingInv, ReturnedTokenHasGrant, NEW s \in Shares,
                      pc[s] = "ok", ValidateShareToken(s),
                      "read" \in Flags(argument[s]), MayBeDenied(user[s], file[s])
               PROVE  \/ file[s] \in deleted
                      \/ \E other \in Rows(user[s], file[s]) :
                            other.id # s /\ ~Permits(other)
    BY DEF ReturnedTokenGrantsAccess
  <2>1. PICK p \in Rows(user[s], file[s]) :
           p.id = s /\ p.permission = Flags(argument[s]) /\ ~Expired(p)
    BY DEF ReturnedTokenHasGrant
  <2>2. ASSUME NEW other \in Rows(user[s], file[s]), other.id = s
        PROVE  Permits(other)
    <3>1. other.permission = p.permission /\ other.expiresAt = p.expiresAt
      BY <2>1, <2>2 DEF SharingInv, ShareInv, RowInv, Rows
    <3>2. QED BY <2>1, <3>1 DEF Permits, Expired
  <2>3. QED BY <2>1, <2>2 DEF MayBeDenied
<1>2. QED BY <1>1, SharingInvariance, ReturnedTokensHaveGrants, PTL

\* Every right that the checks give a user who is not the owner goes back, over
\* a row of the table, to a call that asked for it.
THEOREM RightsAreShared == Spec => []RightsComeFromShares
<1>1. SharingInv => RightsComeFromShares
  <2> SUFFICES ASSUME SharingInv, NEW u \in Users \ {Owner}, NEW f \in Files
               PROVE  /\ MayAccess(u, f) =>
                           \E s \in Shares :
                              /\ pc[s] # "idle" /\ user[s] = u /\ file[s] = f
                              /\ "read" \in Flags(argument[s])
                              /\ expiresAt[s] # None => now <= expiresAt[s]
                      /\ MayShare(u, f) =>
                           \E s \in Shares :
                              /\ pc[s] # "idle" /\ user[s] = u /\ file[s] = f
                              /\ "share" \in Flags(argument[s])
                      /\ ~MayDelete(u, f)
    BY DEF RightsComeFromShares
  <2>1. ASSUME NEW p \in Rows(u, f)
        PROVE  /\ p.id \in Shares /\ pc[p.id] # "idle"
               /\ user[p.id] = u /\ file[p.id] = f
               /\ Flags(argument[p.id]) = p.permission
               /\ expiresAt[p.id] = p.expiresAt
    BY DEF Rows, SharingInv, TypeOK, ShareInv, RowInv, FilePermission
  <2>2. ASSUME NEW p \in Rows(u, f), ~Expired(p)
        PROVE  p.expiresAt # None => now <= p.expiresAt
    BY <2>2, SharingAssumption DEF Rows, Expired, SharingInv, TypeOK, FilePermission
  <2>3. ASSUME MayAccess(u, f)
        PROVE  \E s \in Shares : /\ pc[s] # "idle" /\ user[s] = u /\ file[s] = f
                                 /\ "read" \in Flags(argument[s])
                                 /\ expiresAt[s] # None => now <= expiresAt[s]
    BY <2>1, <2>2, <2>3 DEF MayAccess, Permits
  <2>4. ASSUME MayShare(u, f)
        PROVE  \E s \in Shares : /\ pc[s] # "idle" /\ user[s] = u /\ file[s] = f
                                 /\ "share" \in Flags(argument[s])
    BY <2>1, <2>4 DEF MayShare
  <2>5. QED BY <2>3, <2>4 DEF MayDelete
<1>2. QED BY <1>1, SharingInvariance, PTL

\* Past the expiry asked for, neither token nor row works.
THEOREM ExpiredSharesAreDead == Spec => []ExpiredShareIsDead
<1>1. SharingInv => ExpiredShareIsDead
  <2> SUFFICES ASSUME SharingInv, NEW s \in Shares, expiresAt[s] # None, expiresAt[s] < now
               PROVE  /\ ~ValidateShareToken(s)
                      /\ \A p \in permissions : p.id = s => ~Permits(p)
    BY DEF ExpiredShareIsDead
  <2>1. tokenUntil[s] = expiresAt[s] /\ expiresAt[s] \in Nat /\ now \in Nat
    BY DEF SharingInv, TypeOK, ShareInv, RowInv
  <2>2. \A p \in permissions : p.id = s => p.expiresAt = expiresAt[s]
    BY DEF SharingInv, ShareInv, RowInv
  <2>3. QED BY <2>1, <2>2 DEF ValidateShareToken, Permits, Expired
<1>2. QED BY <1>1, SharingInvariance, PTL

\* Neither a token nor a row that stopped working ever works again: parameters
\* are fixed once a call has begun, time does not go back, and only the first
\* step of a call puts its token in the cache.
THEOREM NoShareComesBack == Spec => NoShareRevives
<1>1. ASSUME SharingInv, [Next]_vars, NEW s \in Shares, pc[s] \notin {"idle", "caching"}
      PROVE  /\ tokenUntil'[s] = tokenUntil[s]
             /\ s \in cache' => s \in cache
  <2> USE DEF SharingInv, TypeOK
  <2>1. ASSUME NEW z \in Shares, NEW f \in Files, NEW u \in Users,
               NEW a \in Arguments, NEW e \in Times \cup {None},
               CreateShareLink(z, f, u, a, e)
        PROVE  tokenUntil'[s] = tokenUntil[s] /\ cache' = cache
    BY <1>1, <2>1 DEF CreateShareLink
  <2>2. ASSUME NEW z \in Shares, CacheToken(z) \/ Throw(z)
        PROVE  tokenUntil' = tokenUntil /\ (s \in cache' => s \in cache)
    BY <1>1, <2>2 DEF CacheToken, Throw
  <2>3. ASSUME NEW z \in Shares, GrantPermission(z) \/ Evict(z)
        PROVE  tokenUntil' = tokenUntil /\ cache' \subseteq cache
    BY <2>3 DEF GrantPermission, Evict
  <2>4. CASE Crash \/ Tick \/ (\E f \in Files : DeleteFile(f)) \/ UNCHANGED vars
    BY <2>4 DEF Crash, Tick, DeleteFile
  <2>5. QED
    BY <1>1, <2>1, <2>2, <2>3, <2>4 DEF Next, Call
<1>2. ASSUME SharingInv, [Next]_vars
      PROVE  permissions \subseteq permissions' /\ now <= now'
  <2>1. now \in Nat
    BY <1>2, SharingAssumption DEF SharingInv, TypeOK
  <2>2. QED
    BY <1>2, <2>1 DEF Next, Call, CreateShareLink, CacheToken, GrantPermission, Throw,
       Evict, DeleteFile, Tick, Crash
<1>3. ASSUME SharingInv, [Next]_vars
      PROVE  now \in Nat /\ now' \in Nat
  <2>1. SharingInv'
    BY <1>3, StepInv
  <2>2. QED BY <1>3, <2>1, SharingAssumption DEF SharingInv, TypeOK
<1>4. ASSUME SharingInv, [Next]_vars, NEW s \in Shares, pc[s] \notin {"idle", "caching"},
             ~ValidateShareToken(s)
      PROVE  ~ValidateShareToken(s)'
  <2>1. tokenUntil[s] \in Nat
    BY <1>4 DEF SharingInv, TypeOK
  <2>2. QED BY <1>1, <1>2, <1>3, <1>4, <2>1 DEF ValidateShareToken
<1>5. ASSUME SharingInv, [Next]_vars, NEW p \in permissions
      PROVE  p \in permissions' /\ (~Permits(p) => ~Permits(p)')
  <2>1. p.expiresAt \in Nat \cup {None}
    BY <1>5, SharingAssumption DEF SharingInv, TypeOK, FilePermission
  <2>2. Expired(p) => Expired(p)'
    BY <1>2, <1>3, <1>5, <2>1 DEF Expired
  <2>3. QED BY <1>2, <1>5, <2>2 DEF Permits
<1>6. SharingInv /\ [Next]_vars =>
         [/\ \A s \in Shares : pc[s] \notin {"idle", "caching"} =>
                (~ValidateShareToken(s) => ~ValidateShareToken(s)')
          /\ \A p \in permissions :
                p \in permissions' /\ (~Permits(p) => ~Permits(p)')]_vars
  BY <1>4, <1>5
<1>7. QED BY <1>6, SharingInvariance, PTL DEF Spec, NoShareRevives
=============================================================================
