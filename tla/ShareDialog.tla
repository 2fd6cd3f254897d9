----------------------------- MODULE ShareDialog -----------------------------
(***************************************************************************)
(* The share dialog of the file page: ShareFile and ConfirmShare of        *)
(* FileManager.razor with showModal and hideModal of fileHelpers.js around *)
(* one bootstrap.Modal.  A dialog takes time to open and to close, and     *)
(* ignores hide meanwhile; ConfirmShare awaits the server, and the user    *)
(* may go on with another file before the answer comes.                    *)
(*                                                                         *)
(* shareEmail, sharePermission and shareExpiry are one form here, and what *)
(* is entered is represented by the file it was entered for.               *)
(***************************************************************************)

CONSTANTS
    Files,
    Confirms,    \* clicks on the dialog's Share button
    Answers,     \* how the server may answer a share; the API of this
                 \* repository has no such route and answers 404
    None

ASSUME DialogAssumption ==
    /\ None \notin Files
    /\ Answers \subseteq {"answered", "failed"} /\ Answers # {}

VARIABLES
    dialog,         \* the state of the dialog, whose backdrop covers the page
    currentFileId,
    form,           \* for which file it was filled in, None when it is empty
    pc,             \* where each ConfirmShare is
    request         \* the file and the form it sent

vars == <<dialog, currentFileId, form, pc, request>>

NoRequest == [file |-> None, form |-> None]

TypeOK ==
    /\ dialog \in {"hidden", "opening", "shown", "closing"}
    /\ {currentFileId, form} \subseteq Files \cup {None}
    /\ pc \in [Confirms -> {"idle", "sending", "answered", "failed", "done"}]
    /\ request \in [Confirms -> [file: Files \cup {None}, form: Files \cup {None}]]

Init ==
    /\ dialog = "hidden"
    /\ currentFileId = None
    /\ form = None
    /\ pc = [c \in Confirms |-> "idle"]
    /\ request = [c \in Confirms |-> NoRequest]

-----------------------------------------------------------------------------
(* The dialog *)

\* A new Modal, which takes the place of the element's last one and opens.  If
\* that one is still fading out, it may hide the element at its end.
showModal ==
    \/ dialog' = "opening"
    \/ dialog = "closing" /\ dialog' = "hidden"

\* mutant: hide is called on a new Modal, which is not shown
hideModal_new == UNCHANGED dialog

\* hide of the element's last Modal, which ignores it during a transition.
hideModal == dialog' = IF dialog = "shown" THEN "closing" ELSE dialog

Opened ==
    /\ dialog = "opening" /\ dialog' = "shown"
    /\ UNCHANGED <<currentFileId, form, pc, request>>

Closed ==
    /\ dialog = "closing" /\ dialog' = "hidden"
    /\ UNCHANGED <<currentFileId, form, pc, request>>

\* The close button, Cancel, Escape or a click beside the dialog.
Dismiss ==
    /\ dialog = "shown" /\ hideModal
    /\ UNCHANGED <<currentFileId, form, pc, request>>

-----------------------------------------------------------------------------
(* The handlers *)

\* mutant: the form keeps what the last dialog left in it
ShareFile_keeps(f) ==
    /\ dialog # "shown"
    /\ currentFileId' = f
    /\ showModal
    /\ UNCHANGED <<form, pc, request>>

\* The Share button of a row.  The backdrop covers it, but until a dialog is
\* shown, and again once it fades out, the keyboard still reaches it.
ShareFile(f) ==
    /\ dialog # "shown"
    /\ currentFileId' = f
    /\ form' = None
    /\ showModal
    /\ UNCHANGED <<pc, request>>

\* The elements of the dialog can be used while it fades in or out, too.
FillIn ==
    /\ dialog # "hidden"
    /\ form' = currentFileId
    /\ UNCHANGED <<dialog, currentFileId, pc, request>>

\* Up to the await: the arguments are read at once.
ConfirmShare(c) ==
    /\ pc[c] = "idle" /\ dialog # "hidden"
    /\ pc' = [pc EXCEPT ![c] = "sending"]
    /\ request' = [request EXCEPT ![c] = [file |-> currentFileId, form |-> form]]
    /\ UNCHANGED <<dialog, currentFileId, form>>

ServeShare(c) ==
    /\ pc[c] = "sending"
    /\ \E answer \in Answers : pc' = [pc EXCEPT ![c] = answer]
    /\ UNCHANGED <<dialog, currentFileId, form, request>>

\* After the await: success closes the dialog that is open by now; either way
\* an alert tells the user.
FinishShare(c) ==
    /\ \/ pc[c] = "answered" /\ hideModal
       \/ pc[c] = "failed" /\ UNCHANGED dialog
    /\ pc' = [pc EXCEPT ![c] = "done"]
    /\ UNCHANGED <<currentFileId, form, request>>

-----------------------------------------------------------------------------
(* Specification *)

Next ==
    \/ Opened \/ Closed \/ Dismiss \/ FillIn
    \/ \E f \in Files : ShareFile(f)
    \/ \E c \in Confirms : ConfirmShare(c) \/ ServeShare(c) \/ FinishShare(c)

Spec == Init /\ [][Next]_vars

\* Transitions end, HttpClient answers or throws, and Blazor resumes handlers.
FairSpec ==
    /\ Spec
    /\ WF_vars(Opened) /\ WF_vars(Closed)
    /\ \A c \in Confirms : WF_vars(ServeShare(c)) /\ WF_vars(FinishShare(c))

-----------------------------------------------------------------------------
(* Properties *)

\* A file is never shared with what was entered for another one, however many
\* dialogs were opened, filled in and cancelled before.
ShareIsForItsFile ==
    \A c \in Confirms : request[c].form \in {None, request[c].file}

\* The inductive invariant: a form that is filled in belongs to currentFileId,
\* and a request is sent from a dialog, which has a file.
DialogInv ==
    /\ TypeOK
    /\ form \in {None, currentFileId}
    /\ dialog # "hidden" => currentFileId \in Files
    /\ \A c \in Confirms : pc[c] # "idle" => request[c].file \in Files
    /\ ShareIsForItsFile

\* A share that succeeds while a dialog is shown closes it, also when the user
\* does nothing; only a dialog that is still opening may stay.
SuccessClosesDialog ==
    \A c \in Confirms :
        (pc[c] = "answered" /\ dialog = "shown") ~> dialog \in {"closing", "hidden"}
=============================================================================
