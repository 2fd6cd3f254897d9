--------------------------- MODULE AccountsProofs ---------------------------
(***************************************************************************)
(* Accounts for every set of requests, names, emails and passwords: the    *)
(* invariant AccountsInv is inductive and implies the safety properties,   *)
(* and every step is a step of AccountDirectory.                           *)
(* Accounts are never removed and a body never changes once its request    *)
(* has arrived, so what a handler has learned about an account stays true. *)
(***************************************************************************)
EXTENDS Accounts, Naturals, TLAPS

USE DEF Goto, vars, body, InFlight, Answers, Registering, LoggingIn, NoToken

LEMMA InitInv == Init => AccountsInv
  BY DEF Init, AccountsInv, TypeOK, ControlInv, LoginInv, TokenInv,
     OneAccountPerName, LoserHasWinner, AuthenticationIsAudited, IdleInv

LEMMA ArriveShape ==
  ASSUME NEW r \in Requests, Arrive(r)
  PROVE  \E n \in Names \cup {None}, e \in Emails \cup {None}, p \in Passwords \cup {None} :
            \/ Receive(r, "register", n, e, p, "invalid")
            \/ Receive(r, "login", n, e, p, "invalid")
            \/ Receive(r, "register", n, e, p, "regName")
            \/ Receive(r, "login", n, e, p, "logFind")
  BY DEF Arrive, RegisterInvalid, LoginInvalid, Register, Login

LEMMA TypeStep ==
  ASSUME AccountsInv, [Next]_vars
  PROVE  TypeOK'
<1> USE DEF AccountsInv, TypeOK
<1>1. CASE Crash
  BY <1>1 DEF Crash
<1>2. ASSUME NEW r \in Requests, Arrive(r) PROVE TypeOK'
  <2>1. PICK what \in {"register", "login"}, n \in Names \cup {None},
             e \in Emails \cup {None}, p \in Passwords \cup {None},
             label \in {"invalid", "regName", "logFind"} :
                Receive(r, what, n, e, p, label)
    BY <1>2, ArriveShape
  <2>2. QED BY <2>1 DEF Receive
<1>3. ASSUME NEW r \in Requests, Handle(r) PROVE TypeOK'
  <2>1. CASE CheckUsername(r) \/ CheckEmail(r) \/ CreateUser(r)
    BY <2>1 DEF CheckUsername, CheckEmail, CreateUser
  <2>2. CASE LogRegistered(r)
    BY <2>2 DEF LogRegistered, LogEvent
  <2>3. CASE FindAndVerify(r)
    BY <2>3 DEF FindAndVerify, GetByUsername
  <2>4. CASE LogLoginFailed(r)
    BY <2>4 DEF LogLoginFailed, LogEvent, LoginInv
  <2>5. CASE UpdateLastLogin(r)
    BY <2>5 DEF UpdateLastLogin
  <2>6. CASE LogLoginSuccess(r)
    BY <2>6 DEF LogLoginSuccess, LogEvent, LoginInv
  <2>7. QED BY <1>3, <2>1, <2>2, <2>3, <2>4, <2>5, <2>6 DEF Handle
<1>4. ASSUME NEW r \in Requests, Throw(r) PROVE TypeOK'
  BY <1>4 DEF Throw
<1>5. CASE UNCHANGED vars
  BY <1>5
<1>6. QED BY <1>1, <1>2, <1>3, <1>4, <1>5 DEF Next

LEMMA ControlStep ==
  ASSUME AccountsInv, [Next]_vars
  PROVE  ControlInv'
<1> USE NoneAssumption DEF AccountsInv, TypeOK, ControlInv
<1>1. CASE Crash
  BY <1>1 DEF Crash
<1>2. ASSUME NEW r \in Requests, Arrive(r) PROVE ControlInv'
  BY <1>2, ArriveShape DEF Receive
<1>3. ASSUME NEW r \in Requests, Handle(r) PROVE ControlInv'
  BY <1>3 DEF Handle, CheckUsername, CheckEmail, CreateUser, LogRegistered,
     FindAndVerify, LogLoginFailed, UpdateLastLogin, LogLoginSuccess
<1>4. ASSUME NEW r \in Requests, Throw(r) PROVE ControlInv'
  BY <1>4 DEF Throw
<1>5. CASE UNCHANGED vars
  BY <1>5
<1>6. QED BY <1>1, <1>2, <1>3, <1>4, <1>5 DEF Next

\* What a login found stays as it was: accounts are kept and bodies fixed.
LEMMA LoginStep ==
  ASSUME AccountsInv, [Next]_vars
  PROVE  LoginInv'
<1> USE NoneAssumption DEF AccountsInv, TypeOK, ControlInv, LoginInv
<1>1. CASE Crash
  BY <1>1 DEF Crash
<1>2. ASSUME NEW r \in Requests, Arrive(r) PROVE LoginInv'
  BY <1>2, ArriveShape DEF Receive
<1>3. ASSUME NEW r \in Requests, Handle(r) PROVE LoginInv'
  <2>1. CASE FindAndVerify(r)
    BY <2>1 DEF FindAndVerify, GetByUsername, VerifyPassword
  <2>2. CASE ~FindAndVerify(r)
    BY <1>3, <2>2 DEF Handle, CheckUsername, CheckEmail, CreateUser,
       LogRegistered, LogLoginFailed, UpdateLastLogin, LogLoginSuccess
  <2>3. QED BY <2>1, <2>2
<1>4. ASSUME NEW r \in Requests, Throw(r) PROVE LoginInv'
  BY <1>4 DEF Throw
<1>5. CASE UNCHANGED vars
  BY <1>5
<1>6. QED BY <1>1, <1>2, <1>3, <1>4, <1>5 DEF Next

LEMMA TokenStep ==
  ASSUME AccountsInv, [Next]_vars
  PROVE  TokenInv'
<1> USE NoneAssumption DEF AccountsInv, TypeOK, ControlInv, LoginInv, TokenInv
<1>1. CASE Crash
  BY <1>1 DEF Crash
<1>2. ASSUME NEW r \in Requests, Arrive(r) PROVE TokenInv'
  BY <1>2, ArriveShape DEF Receive
<1>3. ASSUME NEW r \in Requests, Handle(r) PROVE TokenInv'
  <2>1. CASE LogRegistered(r)
    BY <2>1 DEF LogRegistered
  <2>2. CASE LogLoginSuccess(r)
    BY <2>2 DEF LogLoginSuccess
  <2>3. CASE ~(LogRegistered(r) \/ LogLoginSuccess(r))
    BY <1>3, <2>3 DEF Handle, CheckUsername, CheckEmail, CreateUser,
       FindAndVerify, LogLoginFailed, UpdateLastLogin
  <2>4. QED BY <2>1, <2>2, <2>3
<1>4. ASSUME NEW r \in Requests, Throw(r) PROVE TokenInv'
  BY <1>4 DEF Throw
<1>5. CASE UNCHANGED vars
  BY <1>5
<1>6. QED BY <1>1, <1>2, <1>3, <1>4, <1>5 DEF Next

\* The unique indexes decide at the insert, whatever the checks saw.
LEMMA UniqueStep ==
  ASSUME AccountsInv, [Next]_vars
  PROVE  OneAccountPerName'
<1> USE NoneAssumption DEF AccountsInv, TypeOK, ControlInv, OneAccountPerName
<1>1. CASE Crash
  BY <1>1 DEF Crash
<1>2. ASSUME NEW r \in Requests, Arrive(r) PROVE OneAccountPerName'
  BY <1>2, ArriveShape DEF Receive
<1>3. ASSUME NEW r \in Requests, Handle(r) PROVE OneAccountPerName'
  <2>1. CASE CreateUser(r)
    BY <2>1 DEF CreateUser, Insertable, GetByUsername, GetByEmail
  <2>2. CASE ~CreateUser(r)
    BY <1>3, <2>2 DEF Handle, CheckUsername, CheckEmail, LogRegistered,
       FindAndVerify, LogLoginFailed, UpdateLastLogin, LogLoginSuccess
  <2>3. QED BY <2>1, <2>2
<1>4. ASSUME NEW r \in Requests, Throw(r) PROVE OneAccountPerName'
  BY <1>4 DEF Throw
<1>5. CASE UNCHANGED vars
  BY <1>5
<1>6. QED BY <1>1, <1>2, <1>3, <1>4, <1>5 DEF Next

\* The account that was in the way is never removed or renamed.
LEMMA LoserStep ==
  ASSUME AccountsInv, [Next]_vars
  PROVE  LoserHasWinner'
<1> USE NoneAssumption DEF AccountsInv, TypeOK, ControlInv, LoserHasWinner
<1>1. CASE Crash
  BY <1>1 DEF Crash
<1>2. ASSUME NEW r \in Requests, Arrive(r) PROVE LoserHasWinner'
  <2>1. /\ pc'[r] \notin {"taken", "conflict"} /\ r \notin users /\ users' = users
        /\ \A s \in Requests \ {r} :
              pc'[s] = pc[s] /\ name'[s] = name[s] /\ email'[s] = email[s]
    BY <1>2, ArriveShape DEF Receive
  <2>2. QED BY <2>1
<1>3. ASSUME NEW r \in Requests, Handle(r) PROVE LoserHasWinner'
  <2>1. CASE CheckUsername(r)
    BY <2>1 DEF CheckUsername, GetByUsername
  <2>2. CASE CheckEmail(r)
    BY <2>2 DEF CheckEmail, GetByEmail
  <2>3. CASE CreateUser(r)
    BY <2>3 DEF CreateUser, Insertable, GetByUsername, GetByEmail
  <2>4. CASE ~(CheckUsername(r) \/ CheckEmail(r) \/ CreateUser(r))
    BY <1>3, <2>4 DEF Handle, LogRegistered, FindAndVerify, LogLoginFailed,
       UpdateLastLogin, LogLoginSuccess
  <2>5. QED BY <2>1, <2>2, <2>3, <2>4
<1>4. ASSUME NEW r \in Requests, Throw(r) PROVE LoserHasWinner'
  BY <1>4 DEF Throw
<1>5. CASE UNCHANGED vars
  BY <1>5
<1>6. QED BY <1>1, <1>2, <1>3, <1>4, <1>5 DEF Next

LEMMA AuditStep ==
  ASSUME AccountsInv, [Next]_vars
  PROVE  AuthenticationIsAudited'
<1> USE DEF AccountsInv, TypeOK, ControlInv, AuthenticationIsAudited, Logged
<1>1. CASE Crash
  BY <1>1 DEF Crash
<1>2. ASSUME NEW r \in Requests, Arrive(r) PROVE AuthenticationIsAudited'
  <2>1. /\ pc[r] = "idle" /\ pc'[r] \notin {"ok", "refused"}
        /\ \A s \in Requests \ {r} : pc'[s] = pc[s] /\ kind'[s] = kind[s]
        /\ events' = events /\ found' = found
    BY <1>2, ArriveShape DEF Receive
  <2>2. QED BY <2>1
<1>3. ASSUME NEW r \in Requests, Handle(r) PROVE AuthenticationIsAudited'
  <2>1. CASE LogRegistered(r)
    BY <2>1 DEF LogRegistered, LogEvent
  <2>2. CASE LogLoginFailed(r)
    BY <2>2 DEF LogLoginFailed, LogEvent
  <2>3. CASE LogLoginSuccess(r)
    BY <2>3 DEF LogLoginSuccess, LogEvent
  <2>4. CASE FindAndVerify(r)
    BY <2>4 DEF FindAndVerify
  <2>5. CASE CheckUsername(r) \/ CheckEmail(r) \/ CreateUser(r) \/ UpdateLastLogin(r)
    BY <2>5 DEF CheckUsername, CheckEmail, CreateUser, UpdateLastLogin
  <2>6. QED BY <1>3, <2>1, <2>2, <2>3, <2>4, <2>5 DEF Handle
<1>4. ASSUME NEW r \in Requests, Throw(r) PROVE AuthenticationIsAudited'
  BY <1>4 DEF Throw
<1>5. CASE UNCHANGED vars
  BY <1>5
<1>6. QED BY <1>1, <1>2, <1>3, <1>4, <1>5 DEF Next

LEMMA IdleStep ==
  ASSUME AccountsInv, [Next]_vars
  PROVE  IdleInv'
<1> USE DEF AccountsInv, TypeOK, IdleInv
<1>1. CASE Crash
  BY <1>1 DEF Crash
<1>2. ASSUME NEW r \in Requests, Arrive(r) PROVE IdleInv'
  <2>1. /\ pc'[r] # "idle"
        /\ \A s \in Requests \ {r} : /\ pc'[s] = pc[s] /\ name'[s] = name[s]
                                     /\ email'[s] = email[s] /\ password'[s] = password[s]
    BY <1>2, ArriveShape DEF Receive
  <2>2. QED BY <2>1
<1>3. ASSUME NEW r \in Requests, Handle(r) PROVE IdleInv'
  <2>1. pc'[r] # "idle" /\ (\A s \in Requests \ {r} : pc'[s] = pc[s]) /\ UNCHANGED body
    BY <1>3 DEF Handle, CheckUsername, CheckEmail, CreateUser, LogRegistered,
       FindAndVerify, LogLoginFailed, UpdateLastLogin, LogLoginSuccess
  <2>2. QED BY <2>1
<1>4. ASSUME NEW r \in Requests, Throw(r) PROVE IdleInv'
  BY <1>4 DEF Throw
<1>5. CASE UNCHANGED vars
  BY <1>5
<1>6. QED BY <1>1, <1>2, <1>3, <1>4, <1>5 DEF Next

-----------------------------------------------------------------------------
(* The theorems *)

\* Every reachable state satisfies the inductive invariant.
THEOREM AccountsInvariance == Spec => []AccountsInv
<1>1. Init => AccountsInv
  BY InitInv
<1>2. AccountsInv /\ [Next]_vars => AccountsInv'
  BY TypeStep, ControlStep, LoginStep, TokenStep, UniqueStep, LoserStep, AuditStep,
     IdleStep DEF AccountsInv
<1>3. QED BY <1>1, <1>2, PTL DEF Spec

\* No two accounts ever share a name or an email.
THEOREM NamesAreUnique == Spec => []OneAccountPerName
<1>1. AccountsInv => OneAccountPerName
  BY DEF AccountsInv
<1>2. QED BY <1>1, AccountsInvariance, PTL

\* A registration is turned away only by an account that exists.
THEOREM LosersHaveWinners == Spec => []LoserHasWinner
<1>1. AccountsInv => LoserHasWinner
  BY DEF AccountsInv
<1>2. QED BY <1>1, AccountsInvariance, PTL

\* A token is issued only to who registered its subject or knew its password.
THEOREM TokensAreAuthentic == Spec => []TokenIsAuthentic
<1>1. AccountsInv => TokenIsAuthentic
  <2> SUFFICES ASSUME AccountsInv, NEW r \in Requests, pc[r] = "ok"
               PROVE  LET a == token[r].user IN
                      /\ a \in users
                      /\ name[a] = name[r] /\ password[a] = password[r]
                      /\ kind[r] = "register" => a = r
    BY DEF TokenIsAuthentic
  <2>1. CASE kind[r] = "register"
    BY <2>1 DEF AccountsInv, TokenInv
  <2>2. CASE kind[r] = "login"
    BY <2>2, NoneAssumption DEF AccountsInv, TypeOK, TokenInv, LoginInv
  <2>3. QED BY <2>1, <2>2 DEF AccountsInv, ControlInv
<1>2. QED BY <1>1, AccountsInvariance, PTL

\* Whoever is answered has been logged.
THEOREM AuthenticationsAreAudited == Spec => []AuthenticationIsAudited
<1>1. AccountsInv => AuthenticationIsAudited
  BY DEF AccountsInv
<1>2. QED BY <1>1, AccountsInvariance, PTL

-----------------------------------------------------------------------------
(* Accounts implements AccountDirectory *)

LEMMA DirectoryInit == Init => Directory!Init
  BY DEF Init, Directory!Init, Holder

\* Whatever leaves accounts, bodies and answers alone stutters.
LEMMA QuietStep ==
  ASSUME AccountsInv, NEW r \in Requests, NEW label, label # "ok",
         pc[r] # "ok", Goto(r, label), UNCHANGED <<users, Directory!claim, token>>
  PROVE  UNCHANGED <<users, Directory!claim, Holder>>
<1>1. pc'[r] # "ok" /\ \A s \in Requests \ {r} : pc'[s] = pc[s]
  BY DEF AccountsInv, TypeOK
<1>2. Holder' = Holder
  BY <1>1 DEF Holder
<1>3. QED BY <1>2

\* An answer "ok" lets the request in as the subject of its token.
LEMMA AdmitStep ==
  ASSUME AccountsInv, NEW r \in Requests, NEW a \in users, NEW roles,
         pc[r] # "ok", name[a] = name[r], password[a] = password[r],
         Goto(r, "ok"), token' = [token EXCEPT ![r] = [user |-> a, roles |-> roles]],
         UNCHANGED <<users, body>>
  PROVE  Directory!Next
<1>1. r \in DOMAIN token /\ r \in DOMAIN pc /\ a \in Requests /\ DOMAIN pc = Requests
      /\ DOMAIN token = Requests
  BY DEF AccountsInv, TypeOK
<1>2. token'[r].user = a /\ \A s \in Requests \ {r} : token'[s] = token[s]
  BY <1>1
<1>3. pc'[r] = "ok" /\ \A s \in Requests \ {r} : pc'[s] = pc[s]
  BY <1>1
<1>4. Holder[r] = None
  BY DEF Holder
<1>5. Holder'[r] = a
  BY <1>2, <1>3 DEF Holder
<1>6. ASSUME NEW s \in Requests \ {r} PROVE Holder'[s] = Holder[s]
  BY <1>2, <1>3 DEF Holder
<1>7. Holder' = [Holder EXCEPT ![r] = a]
  <2>1. Holder = [s \in Requests |-> Holder[s]] /\ Holder' = [s \in Requests |-> Holder'[s]]
    BY DEF Holder
  <2>2. QED BY <2>1, <1>5, <1>6
<1>8. Directory!Admit(r, a)
  BY <1>4, <1>7 DEF Directory!Admit, Directory!claim
<1>9. QED BY <1>1, <1>8 DEF Directory!Next

LEMMA DirectoryStep ==
  ASSUME AccountsInv, [Next]_vars
  PROVE  [Directory!Next]_<<users, Directory!claim, Holder>>
<1> USE DEF Directory!claim
<1>0. pc \in [Requests -> {"idle"} \cup InFlight \cup Answers]
  BY DEF AccountsInv, TypeOK
<1>1. CASE Crash
  <2>1. Holder' = Holder
    BY <1>0, <1>1 DEF Crash, Holder
  <2>2. QED BY <1>1, <2>1 DEF Crash
<1>2. ASSUME NEW r \in Requests, Arrive(r)
      PROVE  [Directory!Next]_<<users, Directory!claim, Holder>>
  <2>1. pc[r] = "idle" /\ name[r] = None /\ email[r] = None /\ password[r] = None
        /\ r \notin users
    BY <1>2, ArriveShape DEF Receive, AccountsInv, IdleInv, ControlInv
  <2>2. Holder[r] = None
    BY <2>1 DEF Holder
  <2>3. CASE RegisterInvalid(r) \/ LoginInvalid(r)
    <3>1. PICK what : Receive(r, what, None, None, None, "invalid")
      BY <2>3 DEF RegisterInvalid, LoginInvalid
    <3>2. UNCHANGED <<name, email, password>>
      BY <2>1, <3>1 DEF Receive, AccountsInv, TypeOK
    <3>3. pc[r] # "ok" /\ Goto(r, "invalid") /\ UNCHANGED <<users, token>>
      BY <2>1, <3>1 DEF Receive
    <3>4. QED BY <3>2, <3>3, QuietStep
  <2>4. ASSUME NEW what, NEW n \in Names, NEW e \in Emails \cup {None}, NEW p \in Passwords,
               NEW label \in {"regName", "logFind"}, Receive(r, what, n, e, p, label)
        PROVE  Directory!Next
    <3>1. Holder' = Holder
      BY <1>0, <2>1, <2>4 DEF Receive, Holder
    <3>2. Directory!Present(r)
      BY <2>1, <2>2, <2>4, <3>1 DEF Receive, Directory!Present
    <3>3. QED BY <3>2 DEF Directory!Next
  <2>5. QED BY <1>2, <2>3, <2>4 DEF Arrive, Register, Login
<1>3. ASSUME NEW r \in Requests, Handle(r)
      PROVE  [Directory!Next]_<<users, Directory!claim, Holder>>
  <2>1. CASE CheckUsername(r) \/ CheckEmail(r)
    BY <2>1, QuietStep DEF CheckUsername, CheckEmail
  <2>2. CASE CreateUser(r) /\ Insertable(r)
    <3>1. /\ pc[r] = "regCreate" /\ Goto(r, "regLog") /\ users' = users \cup {r}
          /\ UNCHANGED <<Directory!claim, token>>
      BY <2>2 DEF CreateUser
    <3>2. pc'[r] # "ok" /\ \A s \in Requests \ {r} : pc'[s] = pc[s]
      BY <1>0, <3>1
    <3>3. Holder' = Holder /\ Holder[r] = None
      BY <3>1, <3>2 DEF Holder
    <3>4. r \notin users
      BY <3>1 DEF AccountsInv, ControlInv
    <3>5. \A a \in users : name[a] # name[r] /\ email[a] # email[r]
      BY <2>2 DEF Insertable, GetByUsername, GetByEmail
    <3>6. Directory!Enter(r)
      BY <3>1, <3>3, <3>4, <3>5 DEF Directory!Enter
    <3>7. QED BY <3>6 DEF Directory!Next
  <2>3. CASE CreateUser(r) /\ ~Insertable(r)
    BY <2>3, QuietStep DEF CreateUser
  <2>4. CASE LogRegistered(r)
    <3>1. pc[r] = "regLog" /\ r \in users
      BY <2>4 DEF LogRegistered, AccountsInv, ControlInv
    <3>2. QED BY <2>4, <3>1, AdmitStep DEF LogRegistered
  <2>5. CASE FindAndVerify(r)
    <3>1. PICK label \in {"refused", "logStamp", "logFailed"} : Goto(r, label)
      BY <2>5 DEF FindAndVerify
    <3>2. QED BY <2>5, <3>1, QuietStep DEF FindAndVerify
  <2>6. CASE LogLoginFailed(r) \/ UpdateLastLogin(r)
    BY <2>6, QuietStep DEF LogLoginFailed, UpdateLastLogin
  <2>7. CASE LogLoginSuccess(r)
    <3>1. pc[r] = "logSuccess" /\ found[r] \in users
          /\ name[found[r]] = name[r] /\ password[found[r]] = password[r]
      BY <2>7 DEF LogLoginSuccess, AccountsInv, LoginInv
    <3>2. QED BY <2>7, <3>1, AdmitStep DEF LogLoginSuccess
  <2>8. QED BY <1>3, <2>1, <2>2, <2>3, <2>4, <2>5, <2>6, <2>7 DEF Handle
<1>4. ASSUME NEW r \in Requests, Throw(r)
      PROVE  [Directory!Next]_<<users, Directory!claim, Holder>>
  <2>1. pc[r] # "ok"
    BY <1>4 DEF Throw
  <2>2. QED BY <1>4, <2>1, QuietStep DEF Throw
<1>5. CASE UNCHANGED vars
  BY <1>5 DEF Holder
<1>6. QED BY <1>1, <1>2, <1>3, <1>4, <1>5 DEF Next

\* Registration and login keep the promise of AccountDirectory: accounts are
\* unique and permanent, and who is let in had the name and password of one.
THEOREM AccountsImplementDirectory == Spec => ImplementsDirectory
<1>1. Init => Directory!Init
  BY DirectoryInit
<1>2. AccountsInv /\ [Next]_vars => [Directory!Next]_<<users, Directory!claim, Holder>>
  BY DirectoryStep
<1>3. QED BY <1>1, <1>2, AccountsInvariance, PTL
          DEF Spec, ImplementsDirectory, Directory!Spec
-----------------------------------------------------------------------------
(* The roles of a login *)

\* TokensCarryRole fails in every login, and in nothing but logins.
LoginsHaveNoRole ==
    \A r \in Requests : pc[r] = "ok" =>
        token[r].roles = IF kind[r] = "login" THEN {} ELSE {"User"}

LEMMA RolesStep ==
  ASSUME AccountsInv, LoginsHaveNoRole, [Next]_vars
  PROVE  LoginsHaveNoRole'
<1> USE DEF AccountsInv, TypeOK, ControlInv, LoginsHaveNoRole
<1>1. CASE Crash
  BY <1>1 DEF Crash
<1>2. ASSUME NEW r \in Requests, Arrive(r) PROVE LoginsHaveNoRole'
  <2>1. /\ pc'[r] # "ok" /\ UNCHANGED token
        /\ \A s \in Requests \ {r} : pc'[s] = pc[s] /\ kind'[s] = kind[s]
    BY <1>2, ArriveShape DEF Receive
  <2>2. QED BY <2>1
<1>3. ASSUME NEW r \in Requests, Handle(r) PROVE LoginsHaveNoRole'
  <2>1. CASE LogRegistered(r)
    BY <2>1 DEF LogRegistered
  <2>2. CASE LogLoginSuccess(r)
    BY <2>2 DEF LogLoginSuccess
  <2>3. CASE ~(LogRegistered(r) \/ LogLoginSuccess(r))
    <3>1. /\ pc'[r] # "ok" /\ UNCHANGED <<token, kind>>
          /\ \A s \in Requests \ {r} : pc'[s] = pc[s]
      BY <1>3, <2>3 DEF Handle, CheckUsername, CheckEmail, CreateUser,
         FindAndVerify, LogLoginFailed, UpdateLastLogin
    <3>2. QED BY <3>1
  <2>4. QED BY <2>1, <2>2, <2>3
<1>4. ASSUME NEW r \in Requests, Throw(r) PROVE LoginsHaveNoRole'
  BY <1>4 DEF Throw
<1>5. CASE UNCHANGED vars
  BY <1>5
<1>6. QED BY <1>1, <1>2, <1>3, <1>4, <1>5 DEF Next

\* Whoever registers gets the role User, and loses it with the next login: no
\* token of a login ever has a role, for any accounts and interleaving.
THEOREM LoginsNeverHaveRoles == Spec => []LoginsHaveNoRole
<1>1. Init => LoginsHaveNoRole
  BY DEF Init, LoginsHaveNoRole
<1>2. AccountsInv /\ LoginsHaveNoRole /\ [Next]_vars => LoginsHaveNoRole'
  BY RolesStep
<1>3. QED BY <1>1, <1>2, AccountsInvariance, PTL DEF Spec
-----------------------------------------------------------------------------
(* What StoredAccountCanLogIn says besides the scheduling *)

\* A bound on the steps that a handler has left.
StepsLeft(r) ==
    CASE pc[r] = "regName"                           -> 4
      [] pc[r] \in {"regEmail", "logFind"}           -> 3
      [] pc[r] \in {"regCreate", "logStamp"}         -> 2
      [] pc[r] \in {"regLog", "logFailed", "logSuccess"} -> 1
      [] OTHER                                       -> 0

Known(r) == \E a \in users : name[a] = name[r] /\ password[a] = password[r]

\* A login that names an account with its password goes on to its token unless
\* it fails or is cut off, and no handler steps back.
LoginsConclude ==
    [][\A r \in Requests :
          /\ (pc[r] = "logFind" /\ Known(r)) \/ pc[r] \in {"logStamp", "logSuccess"} =>
                pc'[r] \in {pc[r], "logStamp", "logSuccess", "ok", "error", "lost"}
          /\ pc[r] # "idle" /\ pc'[r] # pc[r] => StepsLeft(r)' < StepsLeft(r)]_vars

LEMMA ConcludeStep ==
  ASSUME AccountsInv, Next, NEW s \in Requests, pc[s] # "idle", pc'[s] # pc[s]
  PROVE  /\ (pc[s] = "logFind" /\ Known(s)) \/ pc[s] \in {"logStamp", "logSuccess"} =>
               pc'[s] \in {"logStamp", "logSuccess", "ok", "error", "lost"}
         /\ StepsLeft(s)' < StepsLeft(s)
<1> USE DEF AccountsInv, TypeOK, StepsLeft
<1>1. CASE Crash
  BY <1>1 DEF Crash
<1>2. CASE Throw(s)
  BY <1>2 DEF Throw
<1>3. CASE Handle(s)
  <2>1. CASE FindAndVerify(s)
    <3>1. StepsLeft(s)' < StepsLeft(s)
      BY <2>1 DEF FindAndVerify
    <3>2. ASSUME NEW a \in users, name[a] = name[s], password[a] = password[s]
          PROVE  GetByUsername(name[s]) = {a} /\ VerifyPassword(s, a)
      BY <3>2 DEF GetByUsername, VerifyPassword, OneAccountPerName
    <3>3. Known(s) => pc'[s] = "logStamp"
      BY <2>1, <3>2 DEF FindAndVerify, Known
    <3>4. QED BY <2>1, <3>1, <3>3 DEF FindAndVerify
  <2>2. CASE ~FindAndVerify(s)
    BY <1>3, <2>2 DEF Handle, CheckUsername, CheckEmail, CreateUser, LogRegistered,
       LogLoginFailed, UpdateLastLogin, LogLoginSuccess
  <2>3. QED BY <2>1, <2>2
<1>4. CASE Arrive(s)
  BY <1>4, ArriveShape DEF Receive
<1>5. ASSUME NEW r \in Requests \ {s}, Arrive(r) \/ Handle(r) \/ Throw(r)
      PROVE  FALSE
  <2>1. pc'[s] = pc[s]
    BY <1>5, ArriveShape DEF Receive, Handle, CheckUsername, CheckEmail, CreateUser,
       LogRegistered, FindAndVerify, LogLoginFailed, UpdateLastLogin,
       LogLoginSuccess, Throw
  <2>2. QED BY <2>1
<1>6. QED BY <1>1, <1>2, <1>3, <1>4, <1>5 DEF Next

\* Who knows the name and password of an account is never refused, whatever
\* registers or logs in meanwhile, and is answered within three steps: what
\* StoredAccountCanLogIn adds is the scheduling.
THEOREM StoredAccountsConclude == Spec => LoginsConclude
<1>1. AccountsInv /\ [Next]_vars
         => [\A r \in Requests :
               /\ (pc[r] = "logFind" /\ Known(r)) \/ pc[r] \in {"logStamp", "logSuccess"} =>
                     pc'[r] \in {pc[r], "logStamp", "logSuccess", "ok", "error", "lost"}
               /\ pc[r] # "idle" /\ pc'[r] # pc[r] => StepsLeft(r)' < StepsLeft(r)]_vars
  BY ConcludeStep
<1>2. QED BY <1>1, AccountsInvariance, PTL DEF Spec, LoginsConclude
-----------------------------------------------------------------------------
(* What AccountDirectory allows, and so do registration and login *)

\* An account stays, under the name, email and password it was opened with, and
\* an answer that let a request in as some account is final.
DirectoryIsPermanent ==
    [][/\ users \subseteq users'
       /\ \A a \in users : /\ name'[a] = name[a] /\ email'[a] = email[a]
                          /\ password'[a] = password[a]
       /\ \A r \in Requests : Holder[r] # None => Holder'[r] = Holder[r]
      ]_<<users, name, email, password, Holder>>

\* Follows from the abstract directory alone: once a request is an account or
\* was let in, Present, Enter and Admit do not apply to it any more.
THEOREM AccountsArePermanent == Spec => DirectoryIsPermanent
<1> DEFINE Step == /\ users \subseteq users'
                   /\ \A a \in users : /\ name'[a] = name[a] /\ email'[a] = email[a]
                                      /\ password'[a] = password[a]
                   /\ \A r \in Requests : Holder[r] # None => Holder'[r] = Holder[r]
<1>1. AccountsInv /\ [Directory!Next]_<<users, Directory!claim, Holder>>
         => [Step]_<<users, name, email, password, Holder>>
  <2> SUFFICES ASSUME AccountsInv, Directory!Next PROVE Step
    BY DEF Directory!claim
  <2>1. /\ DOMAIN name = Requests /\ DOMAIN email = Requests /\ DOMAIN password = Requests
        /\ DOMAIN Holder = Requests /\ users \subseteq Requests
    BY DEF AccountsInv, TypeOK, Holder
  <2>2. PICK r \in Requests : \/ Directory!Present(r) \/ Directory!Enter(r)
                              \/ \E a \in users : Directory!Admit(r, a)
    BY DEF Directory!Next
  <2>3. CASE Directory!Present(r)
    BY <2>1, <2>3 DEF Directory!Present
  <2>4. CASE Directory!Enter(r)
    BY <2>4 DEF Directory!Enter, Directory!claim
  <2>5. ASSUME NEW a \in users, Directory!Admit(r, a) PROVE Step
    BY <2>1, <2>5 DEF Directory!Admit, Directory!claim
  <2>6. QED BY <2>2, <2>3, <2>4, <2>5
<1>2. QED BY <1>1, AccountsInvariance, AccountsImplementDirectory, PTL
          DEF ImplementsDirectory, Directory!Spec, DirectoryIsPermanent
=============================================================================
