------------------------------ MODULE Accounts ------------------------------
(***************************************************************************)
(* Registration and login (AuthController) on the Users and UserAuditLogs  *)
(* tables: concurrent requests whose handlers interleave at every query    *)
(* and SaveChangesAsync, with exceptions and restarts.                     *)
(*                                                                         *)
(* An account is named by the request that registers it: every             *)
(* registration draws its own Guid.  A password is a model value, and its  *)
(* salted hash is told apart from another's exactly when they differ.      *)
(***************************************************************************)
CONSTANTS
    Requests,    \* HTTP requests to register or to log in
    Names, Emails, Passwords,
    None         \* no account, no value

ASSUME NoneAssumption == None \notin Requests \cup Names \cup Emails \cup Passwords

VARIABLES
    users,       \* Users: the accounts stored, as requests that created them
    lastLogin,   \* Users.LastLoginAt: the login whose time the row holds
    events,      \* UserAuditLogs
    pc,          \* the step each request is about to take, or its answer
    kind,        \* "register" or "login"
    name, email, password,   \* the body of each request
    found,       \* login: the user it loaded
    token        \* the JWT in the answer: its subject and its roles

body == <<kind, name, email, password>>
vars == <<users, lastLogin, events, pc, kind, name, email, password, found, token>>

InFlight == {"regName", "regEmail", "regCreate", "regLog",
             "logFind", "logStamp", "logFailed", "logSuccess"}

\* "invalid" and "taken" are both status 400, "refused" is 401; "conflict" is the
\* 500 of an insert that a unique index rejects, "error" any other 500.
Answers == {"ok", "invalid", "taken", "conflict", "refused", "error", "lost"}

NoToken == [user |-> None, roles |-> {}]

TypeOK ==
    /\ users \subseteq Requests
    /\ lastLogin \in [Requests -> Requests \cup {None}]
    /\ events \subseteq [req: Requests, user: Requests,
                         type: {"UserRegistered", "LoginFailed", "LoginSuccess"}]
    /\ pc \in [Requests -> {"idle"} \cup InFlight \cup Answers]
    /\ kind \in [Requests -> {"none", "register", "login"}]
    /\ name \in [Requests -> Names \cup {None}]
    /\ email \in [Requests -> Emails \cup {None}]
    /\ password \in [Requests -> Passwords \cup {None}]
    /\ found \in [Requests -> Requests \cup {None}]
    /\ token \in [Requests -> [user: Requests \cup {None}, roles: SUBSET {"User"}]]

Init ==
    /\ users = {}
    /\ lastLogin = [r \in Requests |-> None]
    /\ events = {}
    /\ pc = [r \in Requests |-> "idle"]
    /\ kind = [r \in Requests |-> "none"]
    /\ name = [r \in Requests |-> None]
    /\ email = [r \in Requests |-> None]
    /\ password = [r \in Requests |-> None]
    /\ found = [r \in Requests |-> None]
    /\ token = [r \in Requests |-> NoToken]

-----------------------------------------------------------------------------
(* Queries and helpers *)

\* mutant: an account is looked up by its registration event
GetByUsername_audited(n) ==
    {a \in users : name[a] = n /\ \E e \in events : e.user = a}

\* UserRepository.GetByUsernameAsync and GetByEmailAsync: the rows that match.
GetByUsername(n) == {a \in users : name[a] = n}
GetByEmail(e)    == {a \in users : email[a] = e}

\* mutant: the hash is not compared
VerifyPassword_any(r, a) == TRUE

\* VerifyPassword: the same password, hashed with the stored salt.
VerifyPassword(r, a) == password[r] = password[a]

\* mutant: the unique indexes are missing
Insertable_any(r) == TRUE

\* The unique indexes on Username and Email let the row in.
Insertable(r) == GetByUsername(name[r]) = {} /\ GetByEmail(email[r]) = {}

Goto(r, label) == pc' = [pc EXCEPT ![r] = label]

Receive(r, what, n, e, p, label) ==
    /\ pc[r] = "idle"
    /\ kind' = [kind EXCEPT ![r] = what]
    /\ name' = [name EXCEPT ![r] = n]
    /\ email' = [email EXCEPT ![r] = e]
    /\ password' = [password EXCEPT ![r] = p]
    /\ Goto(r, label)
    /\ UNCHANGED <<users, lastLogin, events, found, token>>

\* LogUserSecurityEventAsync: one row that references an existing user.
LogEvent(r, a, type) ==
    events' = events \cup {[req |-> r, user |-> a, type |-> type]}

-----------------------------------------------------------------------------
(* POST register *)

\* A field is missing or the password is shorter than 8 characters.
RegisterInvalid(r) == Receive(r, "register", None, None, None, "invalid")

Register(r, n, e, p) == Receive(r, "register", n, e, p, "regName")

CheckUsername(r) ==
    /\ pc[r] = "regName"
    /\ Goto(r, IF GetByUsername(name[r]) # {} THEN "taken" ELSE "regEmail")
    /\ UNCHANGED <<users, lastLogin, events, body, found, token>>

\* mutant: the form is compared with itself
CheckEmail_always(r) ==
    /\ pc[r] = "regEmail"
    /\ Goto(r, "taken")
    /\ UNCHANGED <<users, lastLogin, events, body, found, token>>

CheckEmail(r) ==
    /\ pc[r] = "regEmail"
    /\ Goto(r, IF GetByEmail(email[r]) # {} THEN "taken" ELSE "regCreate")
    /\ UNCHANGED <<users, lastLogin, events, body, found, token>>

\* CreateAsync: another registration may have been stored since the checks,
\* and then the database rejects the row.
CreateUser(r) ==
    /\ pc[r] = "regCreate"
    /\ IF Insertable(r)
       THEN users' = users \cup {r} /\ Goto(r, "regLog")
       ELSE Goto(r, "conflict") /\ UNCHANGED users
    /\ UNCHANGED <<lastLogin, events, body, found, token>>

\* The event, then the token of the answer.
LogRegistered(r) ==
    /\ pc[r] = "regLog"
    /\ LogEvent(r, r, "UserRegistered")
    /\ token' = [token EXCEPT ![r] = [user |-> r, roles |-> {"User"}]]
    /\ Goto(r, "ok")
    /\ UNCHANGED <<users, lastLogin, body, found>>

-----------------------------------------------------------------------------
(* POST login *)

LoginInvalid(r) == Receive(r, "login", None, None, None, "invalid")

Login(r, n, p) == Receive(r, "login", n, None, p, "logFind")

\* mutant: a wrong password leaves the handler without its user
FindAndVerify_keeps(r) ==
    /\ pc[r] = "logFind"
    /\ \/ /\ GetByUsername(name[r]) = {}
          /\ Goto(r, "refused")
          /\ UNCHANGED found
       \/ \E a \in GetByUsername(name[r]) :
             IF VerifyPassword(r, a)
             THEN found' = [found EXCEPT ![r] = a] /\ Goto(r, "logStamp")
             ELSE UNCHANGED found /\ Goto(r, "logFailed")
    /\ UNCHANGED <<users, lastLogin, events, body, token>>

FindAndVerify(r) ==
    /\ pc[r] = "logFind"
    /\ \/ /\ GetByUsername(name[r]) = {}
          /\ Goto(r, "refused")
          /\ UNCHANGED found
       \/ \E a \in GetByUsername(name[r]) :
             /\ found' = [found EXCEPT ![r] = a]
             /\ Goto(r, IF VerifyPassword(r, a) THEN "logStamp" ELSE "logFailed")
    /\ UNCHANGED <<users, lastLogin, events, body, token>>

\* mutant: a failed login is not logged
LogLoginFailed_silent(r) ==
    /\ pc[r] = "logFailed"
    /\ Goto(r, "refused")
    /\ UNCHANGED <<users, lastLogin, events, body, found, token>>

LogLoginFailed(r) ==
    /\ pc[r] = "logFailed"
    /\ LogEvent(r, found[r], "LoginFailed")
    /\ Goto(r, "refused")
    /\ UNCHANGED <<users, lastLogin, body, found, token>>

\* UpdateAsync writes the row back as it was loaded, with the new LastLoginAt:
\* the last of several concurrent logins to get here wins, not the latest.
UpdateLastLogin(r) ==
    /\ pc[r] = "logStamp"
    /\ lastLogin' = [lastLogin EXCEPT ![found[r]] = r]
    /\ Goto(r, "logSuccess")
    /\ UNCHANGED <<users, events, body, found, token>>

\* The roles come from the loaded UserRoles, a collection that is never null
\* and that nothing ever fills.
LogLoginSuccess(r) ==
    /\ pc[r] = "logSuccess"
    /\ LogEvent(r, found[r], "LoginSuccess")
    /\ token' = [token EXCEPT ![r] = [user |-> found[r], roles |-> {}]]
    /\ Goto(r, "ok")
    /\ UNCHANGED <<users, lastLogin, body, found>>

-----------------------------------------------------------------------------
(* Faults *)

\* mutant: the catch of a registration takes its account out again
Throw_undo(r) ==
    /\ pc[r] \in InFlight
    /\ Goto(r, "error")
    /\ users' = users \ {r}
    /\ UNCHANGED <<lastLogin, events, body, found, token>>

\* Any await may throw: the catch answers 500 and undoes nothing.
Throw(r) ==
    /\ pc[r] \in InFlight
    /\ Goto(r, "error")
    /\ UNCHANGED <<users, lastLogin, events, body, found, token>>

\* The process is killed and started again.
Crash ==
    /\ \E r \in Requests : pc[r] \in InFlight
    /\ pc' = [r \in Requests |-> IF pc[r] \in InFlight THEN "lost" ELSE pc[r]]
    /\ UNCHANGED <<users, lastLogin, events, body, found, token>>

-----------------------------------------------------------------------------
(* Specification *)

Arrive(r) ==
    \/ RegisterInvalid(r)
    \/ LoginInvalid(r)
    \/ \E n \in Names, p \in Passwords :
          \/ \E e \in Emails : Register(r, n, e, p)
          \/ Login(r, n, p)

Handle(r) ==
    \/ CheckUsername(r) \/ CheckEmail(r) \/ CreateUser(r) \/ LogRegistered(r)
    \/ FindAndVerify(r) \/ LogLoginFailed(r) \/ UpdateLastLogin(r)
    \/ LogLoginSuccess(r)

Next == Crash \/ \E r \in Requests : Arrive(r) \/ Handle(r) \/ Throw(r)

Spec == Init /\ [][Next]_vars

\* The thread pool runs a handler that has begun; nothing obliges a request to
\* arrive or a fault to happen.
FairSpec == Spec /\ \A r \in Requests : WF_vars(Handle(r))

\* The handlers on their own: no exception and no restart.
FaultFreeSpec == Init /\ [][\E r \in Requests : Arrive(r) \/ Handle(r)]_vars

-----------------------------------------------------------------------------
(* Safety *)

Logged(r, a, type) == [req |-> r, user |-> a, type |-> type] \in events

\* However registrations interleave between their checks and their inserts, no
\* two accounts share a name or an email.
OneAccountPerName ==
    \A a, b \in users : (name[a] = name[b] \/ email[a] = email[b]) => a = b

\* Whoever holds a token registered its subject, or knew its name and password
\* at a time when the account existed.
TokenIsAuthentic ==
    \A r \in Requests : pc[r] = "ok" =>
        LET a == token[r].user IN
        /\ a \in users
        /\ name[a] = name[r] /\ password[a] = password[r]
        /\ kind[r] = "register" => a = r

\* A registration, a login and a wrong password for an existing account are in
\* the audit log by the time they are answered.
AuthenticationIsAudited ==
    \A r \in Requests :
        /\ pc[r] = "ok" /\ kind[r] = "register" => Logged(r, r, "UserRegistered")
        /\ pc[r] = "ok" /\ kind[r] = "login" => Logged(r, found[r], "LoginSuccess")
        /\ pc[r] = "refused" /\ found[r] # None => Logged(r, found[r], "LoginFailed")

\* A registration that is turned away, by a check or by the database, lost to an
\* account that does exist, whatever became of that account's own registration:
\* two registrations of one name never turn each other away.
LoserHasWinner ==
    \A r \in Requests : pc[r] \in {"taken", "conflict"} =>
        \E a \in users \ {r} : name[a] = name[r] \/ email[a] = email[r]

-----------------------------------------------------------------------------
(* The inductive invariant from which the safety properties follow *)

Registering == {"regName", "regEmail", "regCreate", "regLog"}
LoggingIn == {"logFind", "logStamp", "logFailed", "logSuccess"}

\* Each handler is in its own code, and an account exists from the moment its
\* registration is past the insert.
ControlInv ==
    \A r \in Requests :
        /\ pc[r] \in Registering \cup {"taken", "conflict"} => kind[r] = "register"
        /\ pc[r] \in LoggingIn \cup {"refused"} => kind[r] = "login"
        /\ pc[r] = "ok" => kind[r] \in {"register", "login"}
        /\ r \in users => kind[r] = "register"
        /\ pc[r] \in {"idle", "regName", "regEmail", "regCreate", "taken", "conflict"}
              => r \notin users
        /\ pc[r] = "regLog" => r \in users
        /\ pc[r] \in {"idle", "logFind"} \cup Registering => found[r] = None

\* A login works on an account that exists and has the name it was given; past
\* the check, on one that has its password too.
LoginInv ==
    \A r \in Requests :
        /\ found[r] # None => found[r] \in users /\ name[found[r]] = name[r]
        /\ pc[r] \in {"logStamp", "logFailed", "logSuccess"} => found[r] # None
        /\ pc[r] \in {"logStamp", "logSuccess"} => password[found[r]] = password[r]

TokenInv ==
    \A r \in Requests : pc[r] = "ok" =>
        /\ token[r].user \in users
        /\ kind[r] = "register" => token[r].user = r
        /\ kind[r] = "login" => token[r].user = found[r]
                                /\ password[found[r]] = password[r]

\* What has not arrived has presented nothing.
IdleInv ==
    \A r \in Requests :
        pc[r] = "idle" => name[r] = None /\ email[r] = None /\ password[r] = None

AccountsInv ==
    /\ TypeOK
    /\ ControlInv
    /\ LoginInv
    /\ TokenInv
    /\ OneAccountPerName
    /\ LoserHasWinner
    /\ AuthenticationIsAudited
    /\ IdleInv

-----------------------------------------------------------------------------
(* Implementation of the abstract directory *)

\* The account whose token a request was answered with.
Holder == [r \in Requests |-> IF pc[r] = "ok" THEN token[r].user ELSE None]

Directory == INSTANCE AccountDirectory WITH accounts <- users, holder <- Holder

\* Every step of a handler, exception or restart is a step of AccountDirectory:
\* an account is stored once and never changed or removed, and an answer that
\* lets a request in is for an account that is there, and final.
ImplementsDirectory == Directory!Spec

-----------------------------------------------------------------------------
(* Liveness, under FairSpec *)

\* An account that was stored can be used, also when its registration was
\* answered with an error or cut off before it was logged.
StoredAccountCanLogIn ==
    \A r \in Requests :
        (pc[r] = "logFind" /\ \E a \in users : name[a] = name[r] /\ password[a] = password[r])
            ~> pc[r] \in {"ok", "error", "lost"}

-----------------------------------------------------------------------------
(* A claim of the documentation that the handlers do not keep *)

\* README.md:129 "Role-based access control", and the default of
\* AuthController.cs:126: the token of every user carries the role User.
TokensCarryRole ==
    \A r \in Requests : pc[r] = "ok" => "User" \in token[r].roles
=============================================================================
