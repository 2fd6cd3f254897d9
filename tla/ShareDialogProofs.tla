-------------------------- MODULE ShareDialogProofs --------------------------
(***************************************************************************)
(* ShareDialog for every set of files and of clicks: ShareFile sets the    *)
(* file and empties the form in one go, and nothing is entered without a   *)
(* dialog, so a form never outlives its file.                              *)
(***************************************************************************)
EXTENDS ShareDialog, TLAPS

LEMMA InitInv == Init => DialogInv
  BY DEF Init, DialogInv, TypeOK, ShareIsForItsFile, NoRequest

LEMMA StepInv == DialogInv /\ [Next]_vars => DialogInv'
<1> SUFFICES ASSUME DialogInv, [Next]_vars PROVE DialogInv'
  OBVIOUS
<1> USE DialogAssumption DEF DialogInv, TypeOK, ShareIsForItsFile
<1>1. CASE Opened \/ Closed \/ Dismiss
  BY <1>1 DEF Opened, Closed, Dismiss, hideModal
<1>2. CASE FillIn
  BY <1>2 DEF FillIn
<1>3. ASSUME NEW f \in Files, ShareFile(f) PROVE DialogInv'
  BY <1>3 DEF ShareFile, showModal
<1>4. ASSUME NEW c \in Confirms, ConfirmShare(c) PROVE DialogInv'
  BY <1>4 DEF ConfirmShare
<1>5. ASSUME NEW c \in Confirms, ServeShare(c) PROVE DialogInv'
  BY <1>5 DEF ServeShare
<1>6. ASSUME NEW c \in Confirms, FinishShare(c) PROVE DialogInv'
  BY <1>6 DEF FinishShare, hideModal
<1>7. CASE UNCHANGED vars
  BY <1>7 DEF vars
<1>8. QED BY <1>1, <1>2, <1>3, <1>4, <1>5, <1>6, <1>7 DEF Next

\* Every reachable state satisfies the inductive invariant.
THEOREM DialogInvariance == Spec => []DialogInv
  BY InitInv, StepInv, PTL DEF Spec

\* No file is shared with what was entered for another one.
THEOREM SharesAreForTheirFile == Spec => []ShareIsForItsFile
<1>1. DialogInv => ShareIsForItsFile
  BY DEF DialogInv
<1>2. QED BY <1>1, DialogInvariance, PTL
=============================================================================
