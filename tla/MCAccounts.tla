----------------------------- MODULE MCAccounts -----------------------------
(* Small instances of Accounts: requests, names, emails and passwords are all *)
(* interchangeable. *)
EXTENDS Accounts, TLC

AccountSymmetry ==
    Permutations(Requests) \cup Permutations(Names)
        \cup Permutations(Emails) \cup Permutations(Passwords)
=============================================================================
