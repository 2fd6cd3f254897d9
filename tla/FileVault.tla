----------------------------- MODULE FileVault -----------------------------
(***************************************************************************)
(* The file endpoints of the API: every HTTP request that uploads,         *)
(* downloads or deletes a file, as the sequence of steps its handler in    *)
(* SecureFilesController takes.  A step is what happens between two awaits *)
(* on something shared: a query or a SaveChangesAsync on the database, or  *)
(* one call on the storage directory.  Requests interleave freely, any     *)
(* step may throw, and the process may be killed and restarted at any      *)
(* moment.                                                                 *)
(*                                                                         *)
(* Shared state: the SecureFiles table (rows, owner), the storage          *)
(* directory (blobs) and the FileAuditLogs table (audit).  A file name in  *)
(* Files stands for the pair of Guids drawn for one upload: the row's Id   *)
(* and the storage name.  Bytes are told apart only as far as anyone can   *)
(* tell: "cipher" is exactly what the upload encrypted, "junk" is anything *)
(* else (random overwrites, a torn write).                                 *)
(*                                                                         *)
(* File.WriteAllBytesAsync opens with FileShare.Read.  On Windows a second *)
(* open of a file that is being written fails (a fault, below), so a write *)
(* is one step.  On Linux and macOS that share mode excludes nobody, and   *)
(* the upload's write is two steps, between which a delete may overwrite   *)
(* or unlink the file.                                                     *)
(***************************************************************************)
EXTENDS Naturals

CONSTANTS
    Users,       \* authenticated users
    Files,       \* one element per Guid pair an upload draws
    Requests,    \* HTTP requests; each is sent, and handled, once
    Passes,      \* overwrite passes of StorageService.DeleteFileAsync
    GuidEmpty,   \* an id that no row has (Guid.Empty, or any unknown id)
    NoUser,
    Unwraps      \* users whose private key IKeyManagementService recovers

ASSUME PassesAssumption == Passes \in Nat
ASSUME GuidEmptyAssumption == GuidEmpty \notin Files
ASSUME NoUserAssumption == NoUser \notin Users
ASSUME UnwrapsAssumption == Unwraps \subseteq Users

VARIABLES
    rows,     \* SecureFiles: "none", "live", or "deleted" (IsDeleted)
    owner,    \* SecureFiles.OwnerId
    blobs,    \* the storage directory: "absent", "cipher" or "junk"
    audit,    \* FileAuditLogs
    pc,       \* the step each request is about to take, or its answer
    op,       \* what each request asks for
    caller,   \* NameIdentifier claim of its token
    target,   \* the file it names, or for an upload the file it creates
    exclusive,  \* whether the system keeps others out of a file being written
    pass,     \* delete: overwrite passes completed
    data      \* download: encryptedData, as read from the directory

store   == <<rows, owner, blobs, audit>>
request == <<op, caller, target, exclusive>>
vars    == <<rows, owner, blobs, audit, pc, op, caller, target, exclusive,
             pass, data>>

InFlight == {"upSave", "upWrite", "upWriting", "upLog", "upMalware",
             "dlAccess", "dlMeta", "dlLoad", "dlRead", "dlDecrypt", "dlLog",
             "delFind", "delLoad", "delExists", "delWipe", "delUnlink",
             "delMark", "delLog"}

Answers == {"ok", "noContent", "bad", "refused", "notFound", "error", "lost"}

AuditRecord == [req: Requests, user: Users, file: Files,
                action: {"Upload", "Decrypt", "Download", "Delete",
                         "MalwareDetected"}]

TypeOK ==
    /\ rows \in [Files -> {"none", "live", "deleted"}]
    /\ owner \in [Files -> Users \cup {NoUser}]
    /\ blobs \in [Files -> {"absent", "cipher", "junk"}]
    /\ audit \subseteq AuditRecord
    /\ pc \in [Requests -> {"idle"} \cup InFlight \cup Answers]
    /\ op \in [Requests -> {"none", "upload", "infected", "download", "delete"}]
    /\ caller \in [Requests -> Users \cup {NoUser}]
    /\ target \in [Requests -> Files \cup {GuidEmpty}]
    /\ exclusive \in BOOLEAN
    /\ pass \in [Requests -> 0..Passes]
    /\ data \in [Requests -> {"none", "cipher", "junk"}]

Init ==
    /\ rows = [f \in Files |-> "none"]
    /\ owner = [f \in Files |-> NoUser]
    /\ blobs = [f \in Files |-> "absent"]
    /\ audit = {}
    /\ pc = [r \in Requests |-> "idle"]
    /\ op = [r \in Requests |-> "none"]
    /\ caller = [r \in Requests |-> NoUser]
    /\ target = [r \in Requests |-> GuidEmpty]
    /\ exclusive \in BOOLEAN
    /\ pass = [r \in Requests |-> 0]
    /\ data = [r \in Requests |-> "none"]

-----------------------------------------------------------------------------
(* Queries and helpers *)

\* A row with this primary key exists, soft-deleted or not: what the foreign
\* key from FileAuditLogs.FileId requires.
RowExists(id) == id \in Files /\ rows[id] # "none"

\* FileRepository.GetByIdAsync: null unless the row exists and is not deleted.
GetById(id) == id \in Files /\ rows[id] = "live"

\* mutant: whoever knows the id of a listed file may read it
CanAccess_anyone(u, id) == GetById(id)

\* PermissionService.CanAccessFileAsync for a caller without a permission row
\* (no endpoint creates one).
CanAccess(u, id) == GetById(id) /\ owner[id] = u

OwnedBy_unchecked(id, u) == TRUE  \* mutant: any user may delete
OwnedBy(id, u) == owner[id] = u

\* FileRepository.GetUserFilesAsync, the list the web client shows.
UserFiles(u) == {f \in Files : rows[f] = "live" /\ owner[f] = u}

HashMatches_skipped(bytes) == TRUE  \* mutant: no integrity check

\* ComputeHash(encryptedData) = file.FileHash.
HashMatches(bytes) == bytes = "cipher"

\* mutant: the storage name is not unique to the upload
Fresh_reused(f) == TRUE

\* Guid.NewGuid: no other request has drawn this one.
Fresh(f) == \A r \in Requests : op[r] = "upload" => target[r] # f

Goto(r, label) == pc' = [pc EXCEPT ![r] = label]

\* A request arrives; its handler has done nothing shared yet.
Receive(r, u, what, id, label) ==
    /\ pc[r] = "idle"
    /\ op' = [op EXCEPT ![r] = what]
    /\ caller' = [caller EXCEPT ![r] = u]
    /\ target' = [target EXCEPT ![r] = id]
    /\ Goto(r, label)
    /\ UNCHANGED <<store, exclusive, pass, data>>

\* One handler step that changes nothing but its own pc.
Step(r, from, to) ==
    /\ pc[r] = from
    /\ Goto(r, to)
    /\ UNCHANGED <<store, request, pass, data>>

\* LogFileOperationAsync and LogSecurityEventAsync: insert one audit row whose
\* FileId must reference a SecureFiles row, otherwise SaveChangesAsync throws.
AuditInsert(r, from, action, to) ==
    /\ pc[r] = from
    /\ IF RowExists(target[r])
       THEN /\ audit' = audit \cup {[req |-> r, user |-> caller[r],
                                     file |-> target[r], action |-> action]}
            /\ Goto(r, to)
       ELSE /\ Goto(r, "error")
            /\ UNCHANGED audit
    /\ UNCHANGED <<rows, owner, blobs, request, pass, data>>

-----------------------------------------------------------------------------
(* POST upload *)

\* Empty or larger than 100 MB.
UploadRejected(r, u) == Receive(r, u, "upload", GuidEmpty, "bad")

\* The scan found a threat.  The event is logged under Guid.Empty.
UploadInfected(r, u) == Receive(r, u, "infected", GuidEmpty, "upMalware")

LogSecurityEvent(r) == AuditInsert(r, "upMalware", "MalwareDetected", "bad")

\* mutant: the bytes are written before, and without, the row
UploadClean_swapped(r, u, f) ==
    /\ Fresh(f)
    /\ Receive(r, u, "upload", f, "upWrite")

\* The scan is clean: draw the Guids and encrypt in memory.
UploadClean(r, u, f) ==
    /\ Fresh(f)
    /\ Receive(r, u, "upload", f, "upSave")

SaveFileMetadata(r) ==
    /\ pc[r] = "upSave"
    /\ rows' = [rows EXCEPT ![target[r]] = "live"]
    /\ owner' = [owner EXCEPT ![target[r]] = caller[r]]
    /\ Goto(r, "upWrite")
    /\ UNCHANGED <<blobs, audit, request, pass, data>>

\* File.WriteAllBytesAsync where nothing can come between.
SaveEncryptedFile(r) ==
    /\ pc[r] = "upWrite"
    /\ blobs' = [blobs EXCEPT ![target[r]] = "cipher"]
    /\ Goto(r, "upLog")
    /\ UNCHANGED <<rows, owner, audit, request, pass, data>>

\* The file is created, or opened, and truncated.
BeginWrite(r) ==
    /\ pc[r] = "upWrite" /\ ~exclusive
    /\ blobs' = [blobs EXCEPT ![target[r]] = "junk"]
    /\ Goto(r, "upWriting")
    /\ UNCHANGED <<rows, owner, audit, request, pass, data>>

\* A delete has overwritten the file meanwhile, or removed it.
Disturbed(f) ==
    blobs[f] = "absent" \/ \E d \in Requests : target[d] = f /\ pass[d] >= 1

\* The bytes are written.  They are lost in a file that was unlinked, and mixed
\* with those of an overwrite unless they come last.
FinishWrite(r) ==
    /\ pc[r] = "upWriting"
    /\ \/ /\ blobs[target[r]] # "absent"
          /\ blobs' = [blobs EXCEPT ![target[r]] = "cipher"]
       \/ Disturbed(target[r]) /\ UNCHANGED blobs
    /\ Goto(r, "upLog")
    /\ UNCHANGED <<rows, owner, audit, request, pass, data>>

LogUpload(r) == AuditInsert(r, "upLog", "Upload", "ok")

-----------------------------------------------------------------------------
(* GET download *)

\* A client names a file by an id it was given: one that some row has or had,
\* or one that no row has, for which GuidEmpty stands.
KnownIds == {f \in Files : rows[f] # "none"} \cup {GuidEmpty}

DownloadFile(r, u, id) ==
    /\ id \in KnownIds
    /\ Receive(r, u, "download", id, "dlAccess")

CheckAccess(r) ==
    Step(r, "dlAccess", IF CanAccess(caller[r], target[r]) THEN "dlMeta"
                        ELSE "refused")

GetMetadata(r) ==
    Step(r, "dlMeta", IF GetById(target[r]) THEN "dlLoad" ELSE "notFound")

\* DecryptFileAsync up to the keys.  Its second CanAccessFileAsync finds the
\* entity already tracked by this request, with the values of the first query,
\* so it cannot see a deletion that happened since and answers as before.
LoadKeys(r) ==
    Step(r, "dlLoad", IF ~GetById(target[r]) THEN "notFound"
                      ELSE IF caller[r] \in Unwraps THEN "dlRead"
                      ELSE "error")

\* ReadFileAsync, then the hash check on what was read.
ReadAndVerify(r) ==
    /\ pc[r] = "dlRead"
    /\ IF blobs[target[r]] = "absent"
       THEN Goto(r, "notFound") /\ UNCHANGED data
       ELSE /\ data' = [data EXCEPT ![r] = blobs[target[r]]]
            /\ Goto(r, IF HashMatches(blobs[target[r]]) THEN "dlDecrypt"
                       ELSE "error")
    /\ UNCHANGED <<store, request, pass>>

LogDecrypt(r)  == AuditInsert(r, "dlDecrypt", "Decrypt", "dlLog")
LogDownload(r) == AuditInsert(r, "dlLog", "Download", "ok")

-----------------------------------------------------------------------------
(* DELETE *)

DeleteFile(r, u, id) ==
    /\ id \in KnownIds
    /\ Receive(r, u, "delete", id, "delFind")

FindForDelete(r) ==
    Step(r, "delFind", IF ~GetById(target[r]) THEN "notFound"
                       ELSE IF OwnedBy(target[r], caller[r]) THEN "delLoad"
                       ELSE "refused")

\* SecureDeleteFileAsync reads the row again, and does nothing, not even
\* report it, when another request deleted it in between.
LoadForDelete(r) ==
    Step(r, "delLoad", IF GetById(target[r]) THEN "delExists" ELSE "delLog")

\* mutant: a delete that finds no bytes leaves the row alone
ProbeFile_keepsRow(r) ==
    Step(r, "delExists", IF blobs[target[r]] = "absent" THEN "delLog"
                         ELSE IF Passes = 0 THEN "delUnlink" ELSE "delWipe")

\* File.Exists; its answer is not looked at again.
ProbeFile(r) ==
    Step(r, "delExists", IF blobs[target[r]] = "absent" THEN "delMark"
                         ELSE IF Passes = 0 THEN "delUnlink" ELSE "delWipe")

\* mutant: the pass counter never advances
Overwrite_forever(r) ==
    /\ pc[r] = "delWipe"
    /\ blobs' = [blobs EXCEPT ![target[r]] = "junk"]
    /\ UNCHANGED <<rows, owner, audit, request, pc, pass, data>>

\* WriteAllBytesAsync of random bytes, which creates the file if another
\* delete has removed it in between.
Overwrite(r) ==
    /\ pc[r] = "delWipe"
    /\ blobs' = [blobs EXCEPT ![target[r]] = "junk"]
    /\ pass' = [pass EXCEPT ![r] = @ + 1]
    /\ Goto(r, IF pass[r] + 1 < Passes THEN "delWipe" ELSE "delUnlink")
    /\ UNCHANGED <<rows, owner, audit, request, data>>

Unlink(r) ==
    /\ pc[r] = "delUnlink"
    /\ blobs' = [blobs EXCEPT ![target[r]] = "absent"]
    /\ Goto(r, "delMark")
    /\ UNCHANGED <<rows, owner, audit, request, pass, data>>

\* mutant: the row is removed instead of marked
MarkDeleted_hard(r) ==
    /\ pc[r] = "delMark"
    /\ rows' = [rows EXCEPT ![target[r]] = "none"]
    /\ Goto(r, "delLog")
    /\ UNCHANGED <<owner, blobs, audit, request, pass, data>>

\* FileRepository.DeleteAsync.
MarkDeleted(r) ==
    /\ pc[r] = "delMark"
    /\ rows' = [rows EXCEPT ![target[r]] = "deleted"]
    /\ Goto(r, "delLog")
    /\ UNCHANGED <<owner, blobs, audit, request, pass, data>>

\* mutant: a delete is not logged
LogDelete_silent(r) == Step(r, "delLog", "noContent")

LogDelete(r) == AuditInsert(r, "delLog", "Delete", "noContent")

-----------------------------------------------------------------------------
(* Faults *)

\* Any await of a handler may throw (database, disk, a sharing violation with
\* another request's open file): the catch answers 500 and undoes nothing.
Throw(r) ==
    /\ pc[r] \in InFlight
    /\ Goto(r, "error")
    /\ UNCHANGED <<store, request, pass, data>>

\* Requests that are about to write bytes; one that is in the middle of it has
\* torn the file already.
Writing == {r \in Requests : pc[r] \in {"upWrite", "delWipe"}}

\* WriteAllBytesAsync fails half way: the file is truncated or partly written.
TornWrite(r) ==
    /\ r \in Writing
    /\ blobs' = [blobs EXCEPT ![target[r]] = "junk"]
    /\ Goto(r, "error")
    /\ UNCHANGED <<rows, owner, audit, request, pass, data>>

\* The process is killed and started again: nothing of a request in flight
\* survives but what it stored; a write in progress may leave a torn file.
Crash ==
    /\ \E r \in Requests : pc[r] \in InFlight
    /\ \E torn \in SUBSET Writing :
          blobs' = [f \in Files |->
                       IF \E r \in torn : target[r] = f THEN "junk" ELSE blobs[f]]
    /\ pc' = [r \in Requests |-> IF pc[r] \in InFlight THEN "lost" ELSE pc[r]]
    /\ UNCHANGED <<rows, owner, audit, request, pass, data>>

-----------------------------------------------------------------------------
(* Specification *)

Arrive(r) ==
    \E u \in Users :
        \/ UploadRejected(r, u)
        \/ UploadInfected(r, u)
        \/ \E f \in Files : UploadClean(r, u, f)
        \/ \E id \in Files \cup {GuidEmpty} : DownloadFile(r, u, id)
        \/ \E id \in Files \cup {GuidEmpty} : DeleteFile(r, u, id)

\* The steps of a handler that has begun.
Handle(r) ==
    \/ LogSecurityEvent(r)
    \/ SaveFileMetadata(r)
    \/ SaveEncryptedFile(r) \/ BeginWrite(r) \/ FinishWrite(r)
    \/ LogUpload(r)
    \/ CheckAccess(r)
    \/ GetMetadata(r)
    \/ LoadKeys(r)
    \/ ReadAndVerify(r)
    \/ LogDecrypt(r)
    \/ LogDownload(r)
    \/ FindForDelete(r)
    \/ LoadForDelete(r)
    \/ ProbeFile(r)
    \/ Overwrite(r)
    \/ Unlink(r)
    \/ MarkDeleted(r)
    \/ LogDelete(r)

Fault(r) == Throw(r) \/ TornWrite(r)

Next == Crash \/ \E r \in Requests : Arrive(r) \/ Handle(r) \/ Fault(r)

Spec == Init /\ [][Next]_vars

\* A handler that has begun is run to its answer by the thread pool; nothing
\* obliges a request to arrive or a fault to happen.
Fairness == \A r \in Requests : WF_vars(Handle(r))

FairSpec == Spec /\ Fairness

\* The handlers on their own: no exception and no restart.
FaultFreeSpec == Init /\ [][\E r \in Requests : Arrive(r) \/ Handle(r)]_vars

-----------------------------------------------------------------------------
(* Safety *)

\* A delete of f that its owner sent has got past the ownership check.
OwnerDeletes(f) ==
    \E d \in Requests : op[d] = "delete" /\ target[d] = f /\ caller[d] = owner[f]

\* An upload that was answered 200 is there, row and bytes, until its owner
\* asks for its deletion: no other request, failed write or restart loses it.
AckedUploadSurvives ==
    \A r \in Requests :
        (op[r] = "upload" /\ pc[r] = "ok" /\ ~OwnerDeletes(target[r]))
            => rows[target[r]] = "live" /\ blobs[target[r]] = "cipher"

\* Once a delete has completed an overwrite pass, the ciphertext is gone from
\* the directory for good, however that delete ends and whatever the upload,
\* other deletes (which may re-create the file) or a restart still do.  It takes
\* a system that lets nobody write a file somebody else is writing: without, the
\* upload under way may still put its bytes over those of the pass.
WipeIsFinal ==
    exclusive => \A r \in Requests : pass[r] >= 1 => blobs[target[r]] # "cipher"

\* Bytes on disk always have a row that names them (metadata is saved first),
\* so that whatever fails in between, a delete can still reach them.
NoUnreferencedBytes ==
    \A f \in Files : blobs[f] # "absent" => rows[f] # "none"

\* A download that was served returned the bytes of the upload, never a torn or
\* overwritten file, and only to the owner, who is one of those whose keys are
\* recovered, even when a delete ran alongside.
ServedIntact ==
    \A r \in Requests :
        (op[r] = "download" /\ pc[r] = "ok")
            => /\ data[r] = "cipher"
               /\ caller[r] = owner[target[r]] /\ caller[r] \in Unwraps

Logged(r, action) ==
    [req |-> r, user |-> caller[r], file |-> target[r], action |-> action] \in audit

\* A request that succeeded took effect and is in the audit log: whoever was
\* told 200 or 204 left a trace, also when two deletes of one file overlap and
\* the second finds nothing to do.
SuccessIsAudited ==
    \A r \in Requests :
        /\ pc[r] = "ok" => CASE op[r] = "upload" -> Logged(r, "Upload")
                             [] OTHER -> Logged(r, "Decrypt") /\ Logged(r, "Download")
        /\ pc[r] = "noContent" => Logged(r, "Delete") /\ rows[target[r]] = "deleted"

-----------------------------------------------------------------------------
(* The inductive invariant from which the safety properties follow *)

Uploading == {"upSave", "upWrite", "upWriting", "upLog"}
Downloading == {"dlAccess", "dlMeta", "dlLoad", "dlRead", "dlDecrypt", "dlLog"}
Deleting == {"delFind", "delLoad", "delExists", "delWipe", "delUnlink",
             "delMark", "delLog"}

Uploads(r, f) == op[r] = "upload" /\ target[r] = f
Deletes(r, f) == op[r] = "delete" /\ target[r] = f

\* Each handler is in its own code, and works on a file that exists.
ControlInv ==
    \A r \in Requests :
        /\ pc[r] = "idle" => op[r] = "none" /\ pass[r] = 0
        /\ pc[r] # "idle" => caller[r] \in Users
        /\ pc[r] \in Uploading => op[r] = "upload" /\ target[r] \in Files
        /\ pc[r] = "upWriting" => ~exclusive
        /\ pc[r] = "upMalware" => op[r] = "infected"
        /\ pc[r] \in Downloading => op[r] = "download"
        /\ pc[r] \in Deleting \cup {"noContent"} => op[r] = "delete"
        /\ pc[r] = "ok" => op[r] \in {"upload", "download"} /\ target[r] \in Files
        /\ op[r] = "infected" => target[r] = GuidEmpty
        /\ pc[r] \in {"delFind", "delLoad", "delExists"} => pass[r] = 0
        /\ pc[r] = "delWipe" => pass[r] < Passes

\* One upload per file, which has not inserted the row while it is at upSave
\* and has when it is past it.
UploadInv ==
    /\ \A r1, r2 \in Requests, f \in Files :
          Uploads(r1, f) /\ Uploads(r2, f) => r1 = r2
    /\ \A r \in Requests :
          /\ pc[r] = "upSave" => rows[target[r]] = "none"
          /\ pc[r] \in {"upWrite", "upWriting", "upLog"} => rows[target[r]] # "none"
          /\ pc[r] = "ok" /\ op[r] = "upload" => rows[target[r]] # "none"
    /\ \A f \in Files : rows[f] # "none" =>
          \E r \in Requests : Uploads(r, f) /\ pc[r] # "upSave" /\ caller[r] = owner[f]

\* Bytes appear after the row, and not before the one upload has begun to write.
BytesInv ==
    \A f \in Files : blobs[f] # "absent" =>
        /\ rows[f] # "none"
        /\ \A r \in Requests : Uploads(r, f) => pc[r] # "upWrite"

\* Who names a file names one that has, or had, a row.
TargetInv ==
    \A r \in Requests :
        op[r] \in {"download", "delete"} /\ target[r] \in Files
            => rows[target[r]] # "none"

\* Past its ownership check a delete works on its caller's own file, and once
\* it has seen the file on disk the upload has begun to write.
DeleteInv ==
    \A r \in Requests :
        /\ pc[r] \in (Deleting \ {"delFind"}) \cup {"noContent"} \/ pass[r] >= 1 =>
              /\ op[r] = "delete"
              /\ target[r] \in Files
              /\ owner[target[r]] = caller[r]
        /\ pc[r] \in {"delWipe", "delUnlink"} \/ pass[r] >= 1 =>
              \A u \in Requests : Uploads(u, target[r]) => pc[u] # "upWrite"
        /\ pc[r] \in {"delLog", "noContent"} => rows[target[r]] = "deleted"

\* Past its access check a download works on its caller's own file, past the
\* keys its caller is one who has them, and past the hash check it holds the
\* bytes of the upload.
DownloadInv ==
    \A r \in Requests :
        /\ \/ pc[r] \in Downloading \ {"dlAccess"}
           \/ pc[r] = "ok" /\ op[r] = "download"
           => target[r] \in Files /\ owner[target[r]] = caller[r]
        /\ \/ pc[r] \in {"dlRead", "dlDecrypt", "dlLog"}
           \/ pc[r] = "ok" /\ op[r] = "download"
           => caller[r] \in Unwraps
        /\ \/ pc[r] \in {"dlDecrypt", "dlLog"}
           \/ pc[r] = "ok" /\ op[r] = "download"
           => data[r] = "cipher"

\* The row, and then what the upload wrote, is there unless the owner has asked
\* for its deletion.
KeptInv ==
    \A r \in Requests :
        /\ pc[r] = "upWrite" /\ ~OwnerDeletes(target[r]) =>
              rows[target[r]] = "live"
        /\ pc[r] = "upWriting" /\ ~OwnerDeletes(target[r]) =>
              rows[target[r]] = "live" /\ blobs[target[r]] = "junk"
        /\ /\ pc[r] = "upLog" \/ (pc[r] = "ok" /\ op[r] = "upload")
           /\ ~OwnerDeletes(target[r])
           => rows[target[r]] = "live" /\ blobs[target[r]] = "cipher"

AuditInv ==
    \A r \in Requests :
        /\ pc[r] = "dlLog" => Logged(r, "Decrypt")
        /\ pc[r] = "ok" /\ op[r] = "upload" => Logged(r, "Upload")
        /\ pc[r] = "ok" /\ op[r] = "download" =>
              Logged(r, "Decrypt") /\ Logged(r, "Download")
        /\ pc[r] = "noContent" => Logged(r, "Delete")

\* The conjunction is inductive (FileVaultProofs): no part is by itself.
VaultInv ==
    /\ TypeOK
    /\ ControlInv
    /\ UploadInv
    /\ BytesInv
    /\ TargetInv
    /\ DeleteInv
    /\ DownloadInv
    /\ KeptInv
    /\ WipeIsFinal
    /\ AuditInv

-----------------------------------------------------------------------------
(* Implementation of the abstract file *)

PendingWrites ==
    {f \in Files : \E r \in Requests : pc[r] \in {"upWrite", "upWriting"} /\ target[r] = f}

Record == INSTANCE FileRecord
              WITH row <- rows, bytes <- blobs, window <- PendingWrites

\* Every step of every request, fault or restart is a step of FileRecord: one
\* insertion, one write, no resurrection of a row or of ciphertext.
ImplementsFileRecord == Record!Spec

-----------------------------------------------------------------------------
(* Liveness, under FairSpec *)

\* Every request that arrives gets an answer, or is cut off by a restart.
EveryRequestAnswered ==
    \A r \in Requests : pc[r] \in InFlight ~> pc[r] \in Answers

\* A delete that its owner sends for a listed file ends with the file deleted
\* unless the request itself is told of a failure: an earlier delete that died
\* half way, leaving a live row with shredded or missing bytes, is no obstacle.
OwnerDeleteTakesEffect ==
    \A r \in Requests, f \in Files :
        (pc[r] = "delFind" /\ target[r] = f /\ f \in UserFiles(caller[r]))
            ~> (rows[f] = "deleted" \/ pc[r] \in {"error", "lost"})

-----------------------------------------------------------------------------
(* Claims of the documentation that the handlers do not keep *)

\* README.md:18 "Comprehensive file access tracking": a rejected malware upload
\* is in the audit log once its handler has finished.
MalwareIsLogged ==
    \A r \in Requests :
        (op[r] = "infected" /\ pc[r] \in Answers) => Logged(r, "MalwareDetected")

\* FileManager.razor:431 "This action cannot be undone.", and the name of
\* SecureDeleteFileAsync: when a delete was answered 204 and no request is in
\* flight any more, the ciphertext is not on disk.
DeletedLeavesNoCiphertext ==
    (\A r \in Requests : pc[r] \notin InFlight)
        => \A f \in Files : rows[f] = "deleted" => blobs[f] # "cipher"
=============================================================================
