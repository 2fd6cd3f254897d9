----------------------------- MODULE FileManager -----------------------------
(***************************************************************************)
(* The file page of one user (Pages/FileManager.razor, with the client's   *)
(* FileService).  Blazor runs one handler at a time, but at every await of *)
(* an HTTP call it goes on with other events, so handlers interleave on    *)
(* the fields of the page; the server handles requests, and answers        *)
(* arrive, in any order.                                                   *)
(*                                                                         *)
(* Every handler begins at most one LoadFiles, which is named after it.    *)
(* alert and confirm block the page and are no step of their own.  Files   *)
(* come from the file input; HandleDrop does nothing with dropped ones.    *)
(* The share dialog is in ShareDialog.                                     *)
(***************************************************************************)
EXTENDS Naturals, FiniteSets

CONSTANTS
    Stored,      \* files of the user that the server has at first
    Picks,       \* files on the user's disk
    Unsendable,  \* picks above 5 GB, or without a content type
    Elsewhere,   \* files the same user may delete in another tab
    Handlers,    \* events the user may cause
    Opening,     \* OnInitializedAsync
    MaxFiles,    \* files one selection may have; 10 in the code
    None

Files == Stored \cup Picks
Tasks == Handlers \cup {Opening}

ASSUME PageAssumption ==
    /\ Unsendable \subseteq Picks
    /\ Stored \cap Picks = {}
    /\ Elsewhere \subseteq Files
    /\ Opening \notin Handlers
    /\ MaxFiles \in Nat
    /\ None \notin Files \cup Tasks
    /\ \A list \in SUBSET Files : list # None

VARIABLES
    server,      \* the user's rows: not there yet, listed, or gone
    files,       \* the list on screen, None before the first answer
    isUploading, \* with uploadProgress: 50 while TRUE, 0 while FALSE
    pc,          \* where each handler is: the call it awaits, and its answer
    target,      \* the file a handler is about
    upload,      \* the upload of each pick
    batch,       \* the handler that uploads it
    answer,      \* the rows in the answer to a handler's LoadFiles
    latest,      \* the handler whose LoadFiles was started last
    shown,       \* the handler whose answer is on screen, None if it failed
    inOrder,     \* so far every answer shown was that of the latest LoadFiles
    outcome      \* what a handler told the user at its end

listVars  == <<files, shown, inOrder>>
loadVars  == <<answer, latest>>
uploadVars == <<isUploading, upload, batch>>
vars == <<server, uploadVars, pc, target, loadVars, listVars, outcome>>

\* An upload whose task has not ended.
Sent == {"sent", "stored", "failed"}

UploadStates == {"none", "acked", "error"} \cup Sent

Labels == {"idle", "uploading", "loading", "answered", "failed", "deleting",
           "deleted", "undeleted", "fetching", "fetched", "done", "unhandled"}

Outcomes == {"nothing", "deleted", "its name", "download"}

TypeOK ==
    /\ server \in [Files -> {"none", "listed", "gone"}]
    /\ files = None \/ files \subseteq Files
    /\ isUploading \in BOOLEAN
    /\ pc \in [Tasks -> Labels]
    /\ target \in [Tasks -> Files \cup {None}]
    /\ upload \in [Picks -> UploadStates]
    /\ batch \in [Picks -> Tasks \cup {None}]
    /\ answer \in [Tasks -> SUBSET Files]
    /\ {latest, shown} \subseteq Tasks \cup {None}
    /\ inOrder \in BOOLEAN
    /\ outcome \in [Tasks -> Outcomes]

\* The page has just been opened and OnInitializedAsync has called LoadFiles.
Init ==
    /\ server = [f \in Files |-> IF f \in Stored THEN "listed" ELSE "none"]
    /\ files = None
    /\ isUploading = FALSE
    /\ pc = [h \in Tasks |-> IF h = Opening THEN "loading" ELSE "idle"]
    /\ target = [h \in Tasks |-> None]
    /\ upload = [f \in Picks |-> "none"]
    /\ batch = [f \in Picks |-> None]
    /\ answer = [h \in Tasks |-> {}]
    /\ latest = Opening
    /\ shown = None
    /\ inOrder = TRUE
    /\ outcome = [h \in Tasks |-> "nothing"]

Goto(h, label) == pc' = [pc EXCEPT ![h] = label]

Listed == {f \in Files : server[f] = "listed"}

\* The user acts on the rows on screen.
Clickable(f) == files # None /\ f \in files

-----------------------------------------------------------------------------
(* LoadFiles *)

StartLoad(h) == Goto(h, "loading") /\ latest' = h

\* The server answers with the rows it has then, or the call fails.
ServeList(h) ==
    /\ pc[h] = "loading"
    /\ \/ Goto(h, "answered") /\ answer' = [answer EXCEPT ![h] = Listed]
       \/ Goto(h, "failed") /\ UNCHANGED answer
    /\ UNCHANGED <<server, uploadVars, target, latest, listVars, outcome>>

\* The answer is put on screen whichever call it belongs to; after an exception
\* the list is empty.
ReceiveList(h) ==
    /\ pc[h] \in {"answered", "failed"}
    /\ files' = answer[h]
    /\ answer' = [answer EXCEPT ![h] = {}]
    /\ shown' = IF pc[h] = "answered" THEN h ELSE None
    /\ inOrder' = (inOrder /\ pc[h] = "answered" /\ latest = h)
    /\ Goto(h, "done")
    /\ UNCHANGED <<server, uploadVars, target, latest, outcome>>

-----------------------------------------------------------------------------
(* OnFileSelected and UploadSingleFile *)

\* GetMultipleFiles throws when there are more files than it is told to expect.
SelectTooMany(h, S) ==
    /\ pc[h] = "idle"
    /\ Cardinality(S) > MaxFiles
    /\ Goto(h, "unhandled")
    /\ UNCHANGED <<server, uploadVars, target, loadVars, listVars, outcome>>

\* mutant: only the first selection switches the spinner on
SpinnerFor_first(S) ==
    IF S = {} \/ \E f \in Picks : batch[f] # None
    THEN isUploading ELSE S \cap Unsendable = {}

\* The spinner once the uploads of S are started.  One that cannot be sent has
\* ended already, and its finally hides the others.
SpinnerFor(S) == IF S = {} THEN isUploading ELSE S \cap Unsendable = {}

\* All uploads are started before the first answer; the alert of one that cannot
\* be sent is acknowledged as soon as the loop is over.  A selection may be
\* emptied again.
OnFileSelected(h, S) ==
    /\ pc[h] = "idle"
    /\ Cardinality(S) <= MaxFiles
    /\ \A f \in S : upload[f] = "none"
    /\ upload' = [f \in Picks |-> IF f \notin S THEN upload[f]
                                  ELSE IF f \in Unsendable THEN "error" ELSE "sent"]
    /\ batch' = [f \in Picks |-> IF f \in S THEN h ELSE batch[f]]
    /\ isUploading' = SpinnerFor(S)
    /\ IF S \subseteq Unsendable
       THEN StartLoad(h)
       ELSE Goto(h, "uploading") /\ UNCHANGED latest
    /\ UNCHANGED <<server, target, answer, listVars, outcome>>

\* The server stores the file, or fails before or after doing so.
ServeUpload(f) ==
    /\ upload[f] = "sent"
    /\ \/ upload' = [upload EXCEPT ![f] = "stored"] /\ server' = [server EXCEPT ![f] = "listed"]
       \/ upload' = [upload EXCEPT ![f] = "failed"] /\ UNCHANGED server
       \/ upload' = [upload EXCEPT ![f] = "failed"] /\ server' = [server EXCEPT ![f] = "listed"]
    /\ UNCHANGED <<isUploading, batch, pc, target, loadVars, listVars, outcome>>

\* mutant: the list is loaded as soon as one upload of the selection has ended
LastOfBatch_any(f) == TRUE

\* f is the last of its selection to end.
LastOfBatch(f) ==
    \A g \in Picks \ {f} : batch[g] = batch[f] => upload[g] \notin Sent

\* mutant: a failed upload keeps WhenAll waiting
FinishUpload_hangs(f) ==
    /\ upload[f] \in Sent \ {"sent"}
    /\ upload' = [upload EXCEPT ![f] = IF upload[f] = "stored" THEN "acked" ELSE "error"]
    /\ isUploading' = FALSE
    /\ IF LastOfBatch(f) /\ upload[f] = "stored"
       THEN StartLoad(batch[f]) ELSE UNCHANGED <<pc, latest>>
    /\ UNCHANGED <<server, batch, target, answer, listVars, outcome>>

\* The finally of UploadSingleFile, and after the last one the end of WhenAll.
FinishUpload(f) ==
    /\ upload[f] \in Sent \ {"sent"}
    /\ upload' = [upload EXCEPT ![f] = IF upload[f] = "stored" THEN "acked" ELSE "error"]
    /\ isUploading' = FALSE
    /\ IF LastOfBatch(f) THEN StartLoad(batch[f]) ELSE UNCHANGED <<pc, latest>>
    /\ UNCHANGED <<server, batch, target, answer, listVars, outcome>>

-----------------------------------------------------------------------------
(* DeleteFile and DownloadFile *)

\* The user has confirmed.
DeleteFile(h, f) ==
    /\ pc[h] = "idle" /\ Clickable(f)
    /\ target' = [target EXCEPT ![h] = f]
    /\ Goto(h, "deleting")
    /\ UNCHANGED <<server, uploadVars, loadVars, listVars, outcome>>

\* 204, also when another delete has just marked the row: DeleteFileAsync then
\* does nothing.  Or an error: before the row was marked, after it, or for a row
\* that was not listed any more.
ServeDelete(h) ==
    /\ pc[h] = "deleting"
    /\ \/ /\ target[h] \in Listed
          /\ server' = [server EXCEPT ![target[h]] = "gone"]
          /\ \E result \in {"deleted", "undeleted"} : Goto(h, result)
       \/ server[target[h]] = "gone" /\ Goto(h, "deleted") /\ UNCHANGED server
       \/ Goto(h, "undeleted") /\ UNCHANGED server
    /\ UNCHANGED <<uploadVars, target, loadVars, listVars, outcome>>

\* mutant: the list is not loaded again
FinishDelete_noReload(h) ==
    /\ pc[h] \in {"deleted", "undeleted"}
    /\ Goto(h, "done")
    /\ outcome' = [outcome EXCEPT ![h] = IF pc[h] = "deleted" THEN "deleted" ELSE @]
    /\ UNCHANGED <<server, uploadVars, target, loadVars, listVars>>

\* Only a delete that was answered with success loads the list again.
FinishDelete(h) ==
    /\ pc[h] \in {"deleted", "undeleted"}
    /\ IF pc[h] = "deleted"
       THEN StartLoad(h) /\ outcome' = [outcome EXCEPT ![h] = "deleted"]
       ELSE Goto(h, "done") /\ UNCHANGED <<latest, outcome>>
    /\ UNCHANGED <<server, uploadVars, target, answer, listVars>>

DownloadFile(h, f) ==
    /\ pc[h] = "idle" /\ Clickable(f)
    /\ target' = [target EXCEPT ![h] = f]
    /\ Goto(h, "fetching")
    /\ UNCHANGED <<server, uploadVars, loadVars, listVars, outcome>>

ServeDownload(h) ==
    /\ pc[h] = "fetching"
    /\ \/ target[h] \in Listed /\ Goto(h, "fetched")
       \/ Goto(h, "done")
    /\ UNCHANGED <<server, uploadVars, target, loadVars, listVars, outcome>>

\* mutant: the name is looked up among the rows that are being loaded
NameOf_loading(f) ==
    IF \E h \in Tasks : pc[h] = "answered" /\ f \notin answer[h]
    THEN "download" ELSE "its name"

\* The name is looked up in the list that is on screen when the bytes arrive.
NameOf(f) == IF files # None /\ f \in files THEN "its name" ELSE "download"

FinishDownload(h) ==
    /\ pc[h] = "fetched"
    /\ outcome' = [outcome EXCEPT ![h] = NameOf(target[h])]
    /\ Goto(h, "done")
    /\ UNCHANGED <<server, uploadVars, target, loadVars, listVars>>

-----------------------------------------------------------------------------
(* Specification *)

DeletedElsewhere(f) ==
    /\ f \in Listed
    /\ server' = [server EXCEPT ![f] = "gone"]
    /\ UNCHANGED <<uploadVars, pc, target, loadVars, listVars, outcome>>

User ==
    \/ \E h \in Handlers :
          \/ \E S \in SUBSET Picks : SelectTooMany(h, S) \/ OnFileSelected(h, S)
          \/ \E f \in Files : DeleteFile(h, f) \/ DownloadFile(h, f)
    \/ \E f \in Elsewhere : DeletedElsewhere(f)

\* What goes on without the user: calls are answered and handlers resumed.
Run(h) ==
    \/ ServeList(h) \/ ReceiveList(h)
    \/ ServeDelete(h) \/ FinishDelete(h)
    \/ ServeDownload(h) \/ FinishDownload(h)

RunUpload(f) == ServeUpload(f) \/ FinishUpload(f)

Next ==
    \/ User
    \/ \E h \in Tasks : Run(h)
    \/ \E f \in Picks : RunUpload(f)

Spec == Init /\ [][Next]_vars

\* HttpClient answers or throws (its timeout is 100 s), and Blazor resumes the
\* handler; the user need not do anything.
FairSpec ==
    /\ Spec
    /\ \A h \in Tasks : WF_vars(Run(h))
    /\ \A f \in Picks : WF_vars(RunUpload(f))

-----------------------------------------------------------------------------
(* Properties *)

\* A list shows what the user was told: every upload that succeeded in a
\* selection that is complete, if the server still has it, and no file whose
\* delete succeeded.
Fresh(list) ==
    /\ \A f \in Picks :
          upload[f] = "acked" /\ pc[batch[f]] # "uploading" /\ server[f] = "listed"
              => f \in list
    /\ \A h \in Tasks : outcome[h] = "deleted" => target[h] \notin list

\* The list on screen is fresh when it is the answer of the LoadFiles started
\* last, whatever uploads, deletes and other loads it raced with.
FreshWhenInOrder == (files # None /\ shown = latest) => Fresh(files)

Begins(f) == upload[f] = "none" /\ upload'[f] \in Sent
Ends(f) == upload'[f] # upload[f] /\ upload'[f] \in {"acked", "error"}

\* A selection whose uploads are all under way has the spinner on, also when it
\* is not the first one, and the spinner goes off only in the step in which an
\* upload ends.
SpinnerTruth ==
    [][/\ (\E f \in Picks : Begins(f)) /\ ~(\E f \in Picks : Ends(f)) => isUploading'
       /\ isUploading /\ ~isUploading' => \E f \in Picks : Ends(f)]_vars

\* A download loses its name only when its row has been taken off the list for
\* good, or a list failed to load or arrived out of order.
DownloadKeepsItsName ==
    \A h \in Handlers : outcome[h] = "download" =>
        server[target[h]] = "gone" \/ ~inOrder

\* The inductive invariant.  Uploads: a file is sent once, by a handler that
\* waits for it.
UploadInv ==
    \A f \in Picks :
        /\ upload[f] \in {"none", "sent"} => server[f] = "none"
        /\ upload[f] \in {"stored", "acked"} => server[f] # "none"
        /\ upload[f] \in Sent \cup {"acked"} => batch[f] \in Tasks
        /\ upload[f] \in Sent => pc[batch[f]] = "uploading"
        /\ batch[f] \in Tasks => pc[batch[f]] # "idle" /\ target[batch[f]] = None

\* The spinner never shows without an upload in progress.
SpinnerInv == isUploading => \E f \in Picks : upload[f] \in Sent

\* Deletes and downloads are about one file, and what is gone stays gone.
TargetInv ==
    \A h \in Tasks :
        /\ outcome[h] # "nothing" => target[h] \in Files
        /\ pc[h] = "idle" => target[h] = None /\ outcome[h] = "nothing"
        /\ pc[h] \in {"deleting", "undeleted", "fetching", "fetched"} =>
              target[h] \in Files /\ outcome[h] = "nothing"
        /\ pc[h] = "deleted" \/ outcome[h] = "deleted" =>
              target[h] \in Files /\ server[target[h]] = "gone"

\* Lists hold rows that were there; the answer of the latest LoadFiles is
\* fresh, and in order it takes only rows that are gone off the screen.
ListInv ==
    /\ latest \in Tasks
    /\ \A h \in Tasks : shown = h => pc[h] = "done"
    /\ \A h \in Tasks : \A f \in answer[h] : server[f] # "none"
    /\ files # None => \A f \in files : server[f] # "none"
    /\ pc[latest] = "answered" => Fresh(answer[latest])
    /\ inOrder /\ pc[latest] = "answered" /\ files # None =>
          \A f \in files \ answer[latest] : server[f] = "gone"
    /\ inOrder => \A h \in Tasks : pc[h] \in {"fetching", "fetched"} =>
          server[target[h]] = "gone" \/ (files # None /\ target[h] \in files)

PageInv ==
    TypeOK /\ UploadInv /\ TargetInv /\ ListInv
        /\ SpinnerInv /\ FreshWhenInOrder /\ DownloadKeepsItsName

\* Every handler comes to its end, whatever fails on the way: in the end the
\* page waits for nothing but the user.
HandlersFinish ==
    <>[](\A h \in Tasks : pc[h] \in {"idle", "done", "unhandled"})
=============================================================================
