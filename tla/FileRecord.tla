----------------------------- MODULE FileRecord -----------------------------
(***************************************************************************)
(* What the service promises about one stored file, whatever its requests, *)
(* failures and restarts do.  A file has a row and bytes.  The row is      *)
(* inserted once, then soft-deleted, and never comes back.  The bytes of   *)
(* the upload can be written only in the window that opens with the row    *)
(* and closes for good with that one write, successful, torn or given up.  *)
(* Until then a delete, or the write itself, may leave other bytes in the  *)
(* file; after it ciphertext can only be destroyed: once it is gone no     *)
(* step brings it back.                                                    *)
(*                                                                         *)
(* The step of the service relates every file's state to its next one, so  *)
(* that a restart, which closes several windows at once, is one step.      *)
(***************************************************************************)
CONSTANT Files

VARIABLES
    row,      \* "none", "live" or "deleted"
    bytes,    \* "absent", "cipher" or "junk"
    window    \* files whose one write is still to come

Init ==
    /\ row = [f \in Files |-> "none"]
    /\ bytes = [f \in Files |-> "absent"]
    /\ window = {}

Stays(x, f) == x'[f] = x[f]
WindowStays(f) == f \in window' <=> f \in window

\* The row is inserted and the window opens.
Insert(f) ==
    /\ row[f] = "none" /\ row'[f] = "live"
    /\ f \in window'
    /\ Stays(bytes, f)

\* The window closes: the bytes are written, torn, or never will be.
Close(f) ==
    /\ f \in window /\ f \notin window'
    /\ \/ bytes'[f] \in {"cipher", "junk"}
       \/ Stays(bytes, f)
    /\ Stays(row, f)

\* What is there is overwritten or unlinked.
Shred(f) ==
    /\ row[f] # "none"
    /\ bytes'[f] \in {"absent", "junk"}
    /\ Stays(row, f) /\ WindowStays(f)

\* The row is soft-deleted, in the window or after it.
Mark(f) ==
    /\ row[f] # "none" /\ row'[f] = "deleted"
    /\ Stays(bytes, f) /\ WindowStays(f)

Same(f) == Stays(row, f) /\ Stays(bytes, f) /\ WindowStays(f)

FileStep(f) == Insert(f) \/ Close(f) \/ Shred(f) \/ Mark(f) \/ Same(f)

Next ==
    /\ row' \in [Files -> {"none", "live", "deleted"}]
    /\ bytes' \in [Files -> {"absent", "cipher", "junk"}]
    /\ window' \in SUBSET Files
    /\ \A f \in Files : FileStep(f)

Spec == Init /\ [][Next]_<<row, bytes, window>>
=============================================================================
