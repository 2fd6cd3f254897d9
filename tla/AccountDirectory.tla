-------------------------- MODULE AccountDirectory --------------------------
(***************************************************************************)
(* What registration and login promise together, whatever their handlers,  *)
(* failures and restarts do.  An account is entered once, under a name and *)
(* an email that no other account has, and is never changed or taken out.  *)
(* A request is let in as an account that is there and whose name and      *)
(* password it presented, and what it was given is never taken back.       *)
(***************************************************************************)
CONSTANTS Requests, Names, Emails, Passwords, None

VARIABLES
    accounts,               \* the accounts, as the requests that opened them
    name, email, password,  \* what each request presented, None before
    holder                  \* the account each request was let in as, or None

claim == <<name, email, password>>

Init ==
    /\ accounts = {}
    /\ name = [r \in Requests |-> None]
    /\ email = [r \in Requests |-> None]
    /\ password = [r \in Requests |-> None]
    /\ holder = [r \in Requests |-> None]

\* A request says who it is, once; a login names no email.
Present(r) ==
    /\ name[r] = None /\ email[r] = None /\ password[r] = None
    /\ r \notin accounts /\ holder[r] = None
    /\ \E n \in Names : name' = [name EXCEPT ![r] = n]
    /\ \E e \in Emails \cup {None} : email' = [email EXCEPT ![r] = e]
    /\ \E p \in Passwords : password' = [password EXCEPT ![r] = p]
    /\ UNCHANGED <<accounts, holder>>

\* It becomes an account of its own.
Enter(r) ==
    /\ r \notin accounts /\ holder[r] = None
    /\ \A a \in accounts : name[a] # name[r] /\ email[a] # email[r]
    /\ accounts' = accounts \cup {r}
    /\ UNCHANGED <<claim, holder>>

\* It is let in as the account a.
Admit(r, a) ==
    /\ holder[r] = None
    /\ name[a] = name[r] /\ password[a] = password[r]
    /\ holder' = [holder EXCEPT ![r] = a]
    /\ UNCHANGED <<accounts, claim>>

Next ==
    \E r \in Requests :
        Present(r) \/ Enter(r) \/ \E a \in accounts : Admit(r, a)

Spec == Init /\ [][Next]_<<accounts, claim, holder>>
=============================================================================
