-------------------------- MODULE FileVaultProofs --------------------------
(***************************************************************************)
(* FileVault for every set of users, files and requests, and every number  *)
(* of overwrite passes: the invariant VaultInv is inductive, the safety    *)
(* properties follow from it, and every step is a step of FileRecord.      *)
(*                                                                         *)
(* One lemma shows that each part of VaultInv is preserved.  Its steps are *)
(* the kinds of step the service takes (Crash, Arrive, Handle, Fault); the *)
(* handler actions that can disturb the part have a step of their own, and *)
(* Quiet collects the handler actions that write neither row nor bytes.    *)
(***************************************************************************)
EXTENDS FileVault, TLAPS

Quiet(r) ==
    \/ LogSecurityEvent(r) \/ LogUpload(r) \/ LogDecrypt(r)
    \/ LogDownload(r) \/ LogDelete(r)
    \/ CheckAccess(r) \/ GetMetadata(r) \/ LoadKeys(r) \/ ReadAndVerify(r)
    \/ FindForDelete(r) \/ LoadForDelete(r) \/ ProbeFile(r)

\* The upload's write, in one step or in two.
UploadWrites(r) == SaveEncryptedFile(r) \/ BeginWrite(r) \/ FinishWrite(r)

USE DEF Goto, vars, store, request, InFlight, Answers,
        Uploading, Downloading, Deleting

\* The program starts in a state of the invariant.
LEMMA InitInv == Init => VaultInv
  BY PassesAssumption
     DEF Init, VaultInv, TypeOK, ControlInv, UploadInv, BytesInv, TargetInv,
         DeleteInv, DownloadInv, KeptInv, WipeIsFinal, AuditInv, Uploads,
         OwnerDeletes

-----------------------------------------------------------------------------
(* Shapes of a step *)

\* Handle is the writing actions and Quiet.
LEMMA HandleSplit ==
  ASSUME NEW r \in Requests, Handle(r)
  PROVE  \/ SaveFileMetadata(r) \/ UploadWrites(r)
         \/ Overwrite(r) \/ Unlink(r) \/ MarkDeleted(r) \/ Quiet(r)
  BY DEF Handle, Quiet, UploadWrites

\* An arriving request leaves the stores alone and writes its own slot only.
LEMMA ArriveShape ==
  ASSUME NEW r \in Requests, Arrive(r)
  PROVE  \E u \in Users, id \in Files \cup {GuidEmpty} :
            \/ Receive(r, u, "upload", GuidEmpty, "bad")
            \/ Receive(r, u, "infected", GuidEmpty, "upMalware")
            \/ id \in Files /\ Fresh(id) /\ Receive(r, u, "upload", id, "upSave")
            \/ id \in KnownIds /\ Receive(r, u, "download", id, "dlAccess")
            \/ id \in KnownIds /\ Receive(r, u, "delete", id, "delFind")
  BY DEF Arrive, UploadRejected, UploadInfected, UploadClean, DownloadFile,
         DeleteFile

\* The audit log only grows, and every insertion of a request that goes on, or
\* answers with success, is there afterwards.
LEMMA LogGrows ==
  ASSUME TypeOK, ControlInv, NEW r \in Requests, Arrive(r) \/ Handle(r),
         NEW s \in Requests, NEW action, pc[s] # "idle", Logged(s, action)
  PROVE  Logged(s, action)'
<1>1. CASE Arrive(r)
  BY <1>1, ArriveShape DEF TypeOK, Logged, Receive
<1>2. CASE Handle(r)
  BY <1>2 DEF Logged, Handle, Step, AuditInsert, LogSecurityEvent, LogUpload,
     LogDecrypt, LogDownload, LogDelete, CheckAccess, GetMetadata, LoadKeys,
     FindForDelete, LoadForDelete, ProbeFile, SaveFileMetadata,
     UploadWrites, SaveEncryptedFile, BeginWrite, FinishWrite, ReadAndVerify, Overwrite, Unlink, MarkDeleted
<1>3. QED BY <1>1, <1>2

LEMMA LogInserts ==
  ASSUME TypeOK, NEW r \in Requests, NEW from, NEW action, NEW to,
         AuditInsert(r, from, action, to), pc'[r] # "error"
  PROVE  Logged(r, action)' /\ RowExists(target[r]) /\ pc'[r] = to
  BY DEF TypeOK, Logged, AuditInsert

LEMMA AuditInsertType ==
  ASSUME TypeOK, ControlInv, NEW r \in Requests, NEW from \in InFlight,
         NEW action \in {"Upload", "Decrypt", "Download", "Delete",
                         "MalwareDetected"},
         NEW to \in InFlight \cup Answers, AuditInsert(r, from, action, to)
  PROVE  TypeOK'
<1>1. CASE RowExists(target[r])
  <2> DEFINE entry == [req |-> r, user |-> caller[r],
                       file |-> target[r], action |-> action]
  <2>1. entry \in AuditRecord
    BY <1>1 DEF AuditInsert, ControlInv, AuditRecord, RowExists
  <2>2. audit' \subseteq AuditRecord
    BY <1>1, <2>1 DEF TypeOK, AuditInsert
  <2>3. QED BY <1>1, <2>2 DEF TypeOK, AuditInsert
<1>2. CASE ~RowExists(target[r])
  BY <1>2 DEF TypeOK, AuditInsert
<1>3. QED BY <1>1, <1>2

-----------------------------------------------------------------------------
(* Each part of the invariant is preserved *)

\* An overwrite count stays below its bound because delWipe is left on time.
LEMMA TypeStep ==
  ASSUME VaultInv, [Next]_vars
  PROVE  TypeOK'
<1> USE PassesAssumption DEF VaultInv, TypeOK
<1>1. CASE Crash
  BY <1>1 DEF Crash, Writing
<1>2. ASSUME NEW r \in Requests, Arrive(r) PROVE TypeOK'
  BY <1>2, ArriveShape DEF Receive
<1>3. ASSUME NEW r \in Requests, Handle(r) PROVE TypeOK'
  <2>1. CASE \/ LogSecurityEvent(r) \/ LogUpload(r) \/ LogDecrypt(r)
             \/ LogDownload(r) \/ LogDelete(r)
    BY <2>1, AuditInsertType
       DEF LogSecurityEvent, LogUpload, LogDecrypt, LogDownload, LogDelete
  <2>2. CASE \/ CheckAccess(r) \/ GetMetadata(r) \/ LoadKeys(r)
             \/ FindForDelete(r) \/ LoadForDelete(r) \/ ProbeFile(r)
    BY <2>2 DEF Step, CheckAccess, GetMetadata, LoadKeys, FindForDelete,
       LoadForDelete, ProbeFile
  <2>3. CASE ReadAndVerify(r)
    BY <2>3 DEF ReadAndVerify, DownloadInv
  <2>4. CASE SaveFileMetadata(r) \/ UploadWrites(r)
    BY <2>4 DEF SaveFileMetadata, UploadWrites, SaveEncryptedFile, BeginWrite, FinishWrite, ControlInv
  <2>5. CASE Overwrite(r)
    <3>1. pass[r] \in 0..Passes /\ pass[r] < Passes
      BY <2>5 DEF Overwrite, ControlInv
    <3>2. pass[r] + 1 \in 0..Passes
      BY <3>1
    <3>3. pass' \in [Requests -> 0..Passes]
      BY <2>5, <3>2 DEF Overwrite
    <3>4. QED BY <2>5, <3>3 DEF Overwrite
  <2>6. CASE Unlink(r) \/ MarkDeleted(r)
    BY <2>6 DEF Unlink, MarkDeleted
  <2>7. QED BY <1>3, <2>1, <2>2, <2>3, <2>4, <2>5, <2>6 DEF Handle, UploadWrites
<1>4. ASSUME NEW r \in Requests, Fault(r) PROVE TypeOK'
  BY <1>4 DEF Fault, Throw, TornWrite, Writing
<1>5. CASE UNCHANGED vars
  BY <1>5
<1>6. QED BY <1>1, <1>2, <1>3, <1>4, <1>5 DEF Next

\* A handler never leaves its own code; only a row's id gets past the first query.
LEMMA ControlStep ==
  ASSUME VaultInv, [Next]_vars
  PROVE  ControlInv'
<1> USE PassesAssumption, GuidEmptyAssumption DEF VaultInv, TypeOK, ControlInv, DeleteInv, DownloadInv
<1>1. CASE Crash
  BY <1>1 DEF Crash, Writing
<1>2. ASSUME NEW r \in Requests, Arrive(r) PROVE ControlInv'
  BY <1>2, ArriveShape DEF Receive
<1>3. ASSUME NEW r \in Requests, Handle(r) PROVE ControlInv'
  <2>1. CASE SaveFileMetadata(r) \/ UploadWrites(r)
    BY <2>1 DEF SaveFileMetadata, UploadWrites, SaveEncryptedFile, BeginWrite, FinishWrite
  <2>2. CASE Overwrite(r) \/ Unlink(r) \/ MarkDeleted(r)
    BY <2>2 DEF Overwrite, Unlink, MarkDeleted
  <2>3. CASE Quiet(r)
    BY <2>3 DEF Quiet, Step, AuditInsert, RowExists, GetById, CanAccess, OwnedBy,
         HashMatches, LogSecurityEvent, LogUpload, LogDecrypt, LogDownload,
         LogDelete, CheckAccess, GetMetadata, LoadKeys, ReadAndVerify,
         FindForDelete, LoadForDelete, ProbeFile
  <2>4. QED BY <1>3, <2>1, <2>2, <2>3, HandleSplit
<1>4. ASSUME NEW r \in Requests, Fault(r) PROVE ControlInv'
  BY <1>4 DEF Fault, Throw, TornWrite, Writing
<1>5. CASE UNCHANGED vars
  BY <1>5
<1>6. QED BY <1>1, <1>2, <1>3, <1>4, <1>5 DEF Next

\* Guids are fresh, so the row of an upload is inserted by it and by nothing else.
LEMMA UploadStep ==
  ASSUME VaultInv, [Next]_vars
  PROVE  UploadInv'
<1> USE GuidEmptyAssumption DEF VaultInv, TypeOK, ControlInv, UploadInv, DeleteInv, TargetInv, Uploads
<1>1. CASE Crash
  BY <1>1 DEF Crash, Writing
<1>2. ASSUME NEW r \in Requests, Arrive(r) PROVE UploadInv'
  BY <1>2, ArriveShape DEF Receive, Fresh
<1>3. ASSUME NEW r \in Requests, Handle(r) PROVE UploadInv'
  <2>1. CASE SaveFileMetadata(r)
    BY <2>1 DEF SaveFileMetadata
  <2>2. CASE UploadWrites(r) \/ Overwrite(r) \/ Unlink(r)
    BY <2>2 DEF UploadWrites, SaveEncryptedFile, BeginWrite, FinishWrite, Overwrite, Unlink
  <2>3. CASE MarkDeleted(r)
    BY <2>3 DEF MarkDeleted
  <2>4. CASE Quiet(r)
    BY <2>4 DEF Quiet, Step, AuditInsert, RowExists, GetById, CanAccess, OwnedBy,
         HashMatches, LogSecurityEvent, LogUpload, LogDecrypt, LogDownload,
         LogDelete, CheckAccess, GetMetadata, LoadKeys, ReadAndVerify,
         FindForDelete, LoadForDelete, ProbeFile
  <2>5. QED BY <1>3, <2>1, <2>2, <2>3, <2>4, HandleSplit
<1>4. ASSUME NEW r \in Requests, Fault(r) PROVE UploadInv'
  BY <1>4 DEF Fault, Throw, TornWrite, Writing
<1>5. CASE UNCHANGED vars
  BY <1>5
<1>6. QED BY <1>1, <1>2, <1>3, <1>4, <1>5 DEF Next

\* Bytes are written after the row, and by a delete only once the upload's write
\* has begun.
LEMMA BytesStep ==
  ASSUME VaultInv, [Next]_vars
  PROVE  BytesInv'
<1> USE GuidEmptyAssumption DEF VaultInv, TypeOK, ControlInv, UploadInv, DeleteInv, BytesInv, TargetInv, Uploads
<1>1. CASE Crash
  BY <1>1 DEF Crash, Writing
<1>2. ASSUME NEW r \in Requests, Arrive(r) PROVE BytesInv'
  BY <1>2, ArriveShape DEF Receive, Fresh
<1>3. ASSUME NEW r \in Requests, Handle(r) PROVE BytesInv'
  <2>1. CASE SaveFileMetadata(r)
    BY <2>1 DEF SaveFileMetadata
  <2>2. CASE UploadWrites(r)
    BY <2>2 DEF UploadWrites, SaveEncryptedFile, BeginWrite, FinishWrite
  <2>3. CASE Overwrite(r) \/ Unlink(r)
    BY <2>3 DEF Overwrite, Unlink
  <2>4. CASE MarkDeleted(r)
    BY <2>4 DEF MarkDeleted
  <2>5. CASE Quiet(r)
    BY <2>5 DEF Quiet, Step, AuditInsert, RowExists, GetById, CanAccess, OwnedBy,
         HashMatches, LogSecurityEvent, LogUpload, LogDecrypt, LogDownload,
         LogDelete, CheckAccess, GetMetadata, LoadKeys, ReadAndVerify,
         FindForDelete, LoadForDelete, ProbeFile
  <2>6. QED BY <1>3, <2>1, <2>2, <2>3, <2>4, <2>5, HandleSplit
<1>4. ASSUME NEW r \in Requests, Fault(r) PROVE BytesInv'
  BY <1>4 DEF Fault, Throw, TornWrite, Writing
<1>5. CASE UNCHANGED vars
  BY <1>5
<1>6. QED BY <1>1, <1>2, <1>3, <1>4, <1>5 DEF Next

\* No row is ever removed, and a client names only ids that have been used.
LEMMA TargetStep ==
  ASSUME VaultInv, [Next]_vars
  PROVE  TargetInv'
<1> USE GuidEmptyAssumption DEF VaultInv, TypeOK, ControlInv, TargetInv
<1>1. CASE Crash
  BY <1>1 DEF Crash, Writing
<1>2. ASSUME NEW r \in Requests, Arrive(r) PROVE TargetInv'
  BY <1>2, ArriveShape DEF Receive, KnownIds
<1>3. ASSUME NEW r \in Requests, Handle(r) PROVE TargetInv'
  <2>1. CASE SaveFileMetadata(r) \/ MarkDeleted(r)
    BY <2>1 DEF SaveFileMetadata, MarkDeleted
  <2>2. CASE UploadWrites(r) \/ Overwrite(r) \/ Unlink(r)
    BY <2>2 DEF UploadWrites, SaveEncryptedFile, BeginWrite, FinishWrite, Overwrite, Unlink
  <2>3. CASE Quiet(r)
    BY <2>3 DEF Quiet, Step, AuditInsert, RowExists, GetById, CanAccess, OwnedBy,
         HashMatches, LogSecurityEvent, LogUpload, LogDecrypt, LogDownload,
         LogDelete, CheckAccess, GetMetadata, LoadKeys, ReadAndVerify,
         FindForDelete, LoadForDelete, ProbeFile
  <2>4. QED BY <1>3, <2>1, <2>2, <2>3, HandleSplit
<1>4. ASSUME NEW r \in Requests, Fault(r) PROVE TargetInv'
  BY <1>4 DEF Fault, Throw, TornWrite, Writing
<1>5. CASE UNCHANGED vars
  BY <1>5
<1>6. QED BY <1>1, <1>2, <1>3, <1>4, <1>5 DEF Next

\* The file found on disk tells a delete that the upload's write has begun.
LEMMA DeleteStep ==
  ASSUME VaultInv, [Next]_vars
  PROVE  DeleteInv'
<1> USE PassesAssumption, GuidEmptyAssumption DEF VaultInv, TypeOK, ControlInv, UploadInv, BytesInv, DeleteInv, TargetInv, Uploads
<1>1. CASE Crash
  BY <1>1 DEF Crash, Writing
<1>2. ASSUME NEW r \in Requests, Arrive(r) PROVE DeleteInv'
  BY <1>2, ArriveShape DEF Receive, Fresh, KnownIds
<1>3. ASSUME NEW r \in Requests, Handle(r) PROVE DeleteInv'
  <2>1. CASE SaveFileMetadata(r)
    BY <2>1 DEF SaveFileMetadata
  <2>2. CASE UploadWrites(r) \/ Overwrite(r) \/ Unlink(r)
    BY <2>2 DEF UploadWrites, SaveEncryptedFile, BeginWrite, FinishWrite, Overwrite, Unlink
  <2>3. CASE MarkDeleted(r)
    BY <2>3 DEF MarkDeleted
  <2>4. CASE Quiet(r)
    BY <2>4 DEF Quiet, Step, AuditInsert, RowExists, GetById, CanAccess, OwnedBy,
         HashMatches, LogSecurityEvent, LogUpload, LogDecrypt, LogDownload,
         LogDelete, CheckAccess, GetMetadata, LoadKeys, ReadAndVerify,
         FindForDelete, LoadForDelete, ProbeFile
  <2>5. QED BY <1>3, <2>1, <2>2, <2>3, <2>4, HandleSplit
<1>4. ASSUME NEW r \in Requests, Fault(r) PROVE DeleteInv'
  BY <1>4 DEF Fault, Throw, TornWrite, Writing
<1>5. CASE UNCHANGED vars
  BY <1>5
<1>6. QED BY <1>1, <1>2, <1>3, <1>4, <1>5 DEF Next

\* The owner of a row never changes, so the access check stays true.
LEMMA DownloadStep ==
  ASSUME VaultInv, [Next]_vars
  PROVE  DownloadInv'
<1> USE GuidEmptyAssumption DEF VaultInv, TypeOK, ControlInv, UploadInv, DownloadInv, TargetInv
<1>1. CASE Crash
  BY <1>1 DEF Crash, Writing
<1>2. ASSUME NEW r \in Requests, Arrive(r) PROVE DownloadInv'
  BY <1>2, ArriveShape DEF Receive
<1>3. ASSUME NEW r \in Requests, Handle(r) PROVE DownloadInv'
  <2>1. CASE SaveFileMetadata(r)
    BY <2>1 DEF SaveFileMetadata
  <2>2. CASE UploadWrites(r) \/ Overwrite(r) \/ Unlink(r) \/ MarkDeleted(r)
    BY <2>2 DEF UploadWrites, SaveEncryptedFile, BeginWrite, FinishWrite, Overwrite, Unlink, MarkDeleted
  <2>3. CASE Quiet(r)
    BY <2>3 DEF Quiet, Step, AuditInsert, RowExists, GetById, CanAccess, OwnedBy,
         HashMatches, LogSecurityEvent, LogUpload, LogDecrypt, LogDownload,
         LogDelete, CheckAccess, GetMetadata, LoadKeys, ReadAndVerify,
         FindForDelete, LoadForDelete, ProbeFile
  <2>4. QED BY <1>3, <2>1, <2>2, <2>3, HandleSplit
<1>4. ASSUME NEW r \in Requests, Fault(r) PROVE DownloadInv'
  BY <1>4 DEF Fault, Throw, TornWrite, Writing
<1>5. CASE UNCHANGED vars
  BY <1>5
<1>6. QED BY <1>1, <1>2, <1>3, <1>4, <1>5 DEF Next

\* Whatever destroys bytes or marks a row is a delete past its ownership check.
LEMMA KeptStep ==
  ASSUME VaultInv, [Next]_vars
  PROVE  KeptInv'
<1> USE GuidEmptyAssumption DEF VaultInv, TypeOK, ControlInv, UploadInv, DeleteInv, KeptInv, TargetInv, BytesInv,
        Uploads, OwnerDeletes
<1>1. CASE Crash
  BY <1>1 DEF Crash, Writing
<1>2. ASSUME NEW r \in Requests, Arrive(r) PROVE KeptInv'
  BY <1>2, ArriveShape DEF Receive, Fresh, KnownIds
<1>3. ASSUME NEW r \in Requests, Handle(r) PROVE KeptInv'
  <2>1. CASE SaveFileMetadata(r)
    BY <2>1 DEF SaveFileMetadata
  <2>2. CASE UploadWrites(r)
    <3>1. CASE SaveEncryptedFile(r)
      BY <3>1 DEF SaveEncryptedFile
    <3>2. CASE BeginWrite(r)
      BY <3>2 DEF BeginWrite
    <3>3. CASE FinishWrite(r)
      <4>1. Disturbed(target[r]) => OwnerDeletes(target[r])
        BY <3>3 DEF FinishWrite, Disturbed
      <4>2. QED BY <3>3, <4>1 DEF FinishWrite
    <3>4. QED BY <2>2, <3>1, <3>2, <3>3 DEF UploadWrites
  <2>3. CASE Overwrite(r) \/ Unlink(r)
    BY <2>3 DEF Overwrite, Unlink
  <2>4. CASE MarkDeleted(r)
    BY <2>4 DEF MarkDeleted
  <2>5. CASE Quiet(r)
    BY <2>5 DEF Quiet, Step, AuditInsert, RowExists, GetById, CanAccess, OwnedBy,
         HashMatches, LogSecurityEvent, LogUpload, LogDecrypt, LogDownload,
         LogDelete, CheckAccess, GetMetadata, LoadKeys, ReadAndVerify,
         FindForDelete, LoadForDelete, ProbeFile
  <2>6. QED BY <1>3, <2>1, <2>2, <2>3, <2>4, <2>5, HandleSplit
<1>4. ASSUME NEW r \in Requests, Fault(r) PROVE KeptInv'
  BY <1>4 DEF Fault, Throw, TornWrite, Writing
<1>5. CASE UNCHANGED vars
  BY <1>5
<1>6. QED BY <1>1, <1>2, <1>3, <1>4, <1>5 DEF Next

\* Where a file being written is closed to others, the one write of ciphertext is
\* over before the first overwrite pass begins.
LEMMA WipeStep ==
  ASSUME VaultInv, [Next]_vars
  PROVE  WipeIsFinal'
<1> DEFINE Wiped == \A r \in Requests : pass[r] >= 1 => blobs[target[r]] # "cipher"
<1>0. exclusive' = exclusive
  BY ArriveShape
     DEF Next, Crash, Receive, Fault, Throw, TornWrite, Handle, Step, AuditInsert,
     LogSecurityEvent, LogUpload, LogDecrypt, LogDownload, LogDelete, CheckAccess,
     GetMetadata, LoadKeys, FindForDelete, LoadForDelete, ProbeFile, SaveFileMetadata,
     SaveEncryptedFile, BeginWrite, FinishWrite, ReadAndVerify, Overwrite, Unlink,
     MarkDeleted
<1>a. SUFFICES ASSUME exclusive PROVE Wiped'
  BY <1>0 DEF WipeIsFinal
<1>b. Wiped
  BY <1>a DEF VaultInv, WipeIsFinal
<1>c. \A r \in Requests : ~BeginWrite(r) /\ ~FinishWrite(r)
  BY <1>a DEF VaultInv, ControlInv, BeginWrite, FinishWrite
<1> USE PassesAssumption, GuidEmptyAssumption DEF VaultInv, TypeOK, ControlInv, UploadInv, DeleteInv, TargetInv, Uploads
<1>1. CASE Crash
  BY <1>1, <1>b DEF Crash, Writing
<1>2. ASSUME NEW r \in Requests, Arrive(r) PROVE Wiped'
  BY <1>2, <1>b, ArriveShape DEF Receive
<1>3. ASSUME NEW r \in Requests, Handle(r) PROVE Wiped'
  <2>1. CASE UploadWrites(r)
    BY <1>b, <1>c, <2>1 DEF UploadWrites, SaveEncryptedFile
  <2>2. CASE SaveFileMetadata(r) \/ Overwrite(r) \/ Unlink(r) \/ MarkDeleted(r)
    BY <2>2, <1>b DEF SaveFileMetadata, Overwrite, Unlink, MarkDeleted
  <2>3. CASE Quiet(r)
    BY <2>3, <1>b DEF Quiet, Step, AuditInsert, RowExists, GetById, CanAccess, OwnedBy,
         HashMatches, LogSecurityEvent, LogUpload, LogDecrypt, LogDownload,
         LogDelete, CheckAccess, GetMetadata, LoadKeys, ReadAndVerify,
         FindForDelete, LoadForDelete, ProbeFile
  <2>4. QED BY <1>3, <2>1, <2>2, <2>3, HandleSplit
<1>4. ASSUME NEW r \in Requests, Fault(r) PROVE Wiped'
  BY <1>4, <1>b DEF Fault, Throw, TornWrite, Writing
<1>5. CASE UNCHANGED vars
  BY <1>5, <1>b
<1>6. QED BY <1>1, <1>2, <1>3, <1>4, <1>5 DEF Next

\* A handler answers with success only from the step that logs it.
LEMMA AuditStep ==
  ASSUME VaultInv, [Next]_vars
  PROVE  AuditInv'
<1> USE DEF VaultInv, AuditInv
<1>1. CASE Crash
  BY <1>1 DEF Crash, Logged
<1>2. ASSUME NEW r \in Requests, Arrive(r) PROVE AuditInv'
  <2>1. \A s \in Requests :
           \/ s = r /\ pc'[s] \in {"bad", "upSave", "upMalware", "dlAccess", "delFind"}
           \/ pc[s] # "idle" /\ pc'[s] = pc[s] /\ op'[s] = op[s]
           \/ pc[s] = "idle" /\ pc'[s] = "idle"
    BY <1>2, ArriveShape DEF Receive, TypeOK
  <2>2. QED BY <1>2, <2>1, LogGrows
<1>3. ASSUME NEW r \in Requests, Handle(r) PROVE AuditInv'
  <2>1. op' = op /\ (\A s \in Requests \ {r} : pc'[s] = pc[s]) /\ pc[r] # "idle"
    BY <1>3 DEF TypeOK, Handle, Step, AuditInsert, LogSecurityEvent, LogUpload,
       LogDecrypt, LogDownload, LogDelete, CheckAccess, GetMetadata, LoadKeys,
       FindForDelete, LoadForDelete, ProbeFile, SaveFileMetadata,
       UploadWrites, SaveEncryptedFile, BeginWrite, FinishWrite, ReadAndVerify, Overwrite, Unlink, MarkDeleted
  <2>2. ASSUME NEW s \in Requests \ {r}, NEW action, Logged(s, action)
        PROVE  Logged(s, action)' \/ pc[s] = "idle"
    BY <1>3, <2>2, LogGrows
  <2>3. CASE LogUpload(r)
    <3>1. op[r] = "upload" /\ pc'[r] \in {"ok", "error"}
      BY <2>3 DEF LogUpload, AuditInsert, ControlInv, TypeOK
    <3>2. pc'[r] = "ok" => Logged(r, "Upload")'
      BY <2>3, LogInserts DEF LogUpload
    <3>3. QED BY <2>1, <2>2, <3>1, <3>2
  <2>4. CASE LogDecrypt(r)
    <3>1. pc'[r] \in {"dlLog", "error"}
      BY <2>4 DEF LogDecrypt, AuditInsert, TypeOK
    <3>2. pc'[r] = "dlLog" => Logged(r, "Decrypt")'
      BY <2>4, LogInserts DEF LogDecrypt
    <3>3. QED BY <2>1, <2>2, <3>1, <3>2
  <2>5. CASE LogDownload(r)
    <3>1. op[r] = "download" /\ pc[r] = "dlLog" /\ pc'[r] \in {"ok", "error"}
      BY <2>5 DEF LogDownload, AuditInsert, ControlInv, TypeOK
    <3>2. pc'[r] = "ok" => Logged(r, "Download")'
      BY <2>5, LogInserts DEF LogDownload
    <3>3. Logged(r, "Decrypt")'
      BY <1>3, <3>1, LogGrows
    <3>4. QED BY <2>1, <2>2, <3>1, <3>2, <3>3
  <2>6. CASE LogDelete(r)
    <3>1. pc'[r] \in {"noContent", "error"}
      BY <2>6 DEF LogDelete, AuditInsert, TypeOK
    <3>2. pc'[r] = "noContent" => Logged(r, "Delete")'
      BY <2>6, LogInserts DEF LogDelete
    <3>3. QED BY <2>1, <2>2, <3>1, <3>2
  <2>7. CASE ~(LogUpload(r) \/ LogDecrypt(r) \/ LogDownload(r) \/ LogDelete(r))
    <3>1. pc'[r] \notin {"dlLog", "ok", "noContent"}
      BY <1>3, <2>7
         DEF TypeOK, Handle, Step, AuditInsert, LogSecurityEvent,
         CheckAccess, GetMetadata, LoadKeys, FindForDelete, LoadForDelete,
         ProbeFile, SaveFileMetadata, UploadWrites, SaveEncryptedFile, BeginWrite, FinishWrite, ReadAndVerify,
         Overwrite, Unlink, MarkDeleted
    <3>2. QED BY <2>1, <2>2, <3>1
  <2>8. QED BY <2>3, <2>4, <2>5, <2>6, <2>7
<1>4. ASSUME NEW r \in Requests, Fault(r) PROVE AuditInv'
  <2>1. op' = op /\ (\A s \in Requests \ {r} : pc'[s] = pc[s]) /\ pc'[r] = "error"
    BY <1>4 DEF TypeOK, Fault, Throw, TornWrite
  <2>2. \A s, action : Logged(s, action)' <=> Logged(s, action)
    BY <1>4 DEF Fault, Throw, TornWrite, Logged
  <2>3. QED BY <2>1, <2>2
<1>5. CASE UNCHANGED vars
  BY <1>5 DEF Logged
<1>6. QED BY <1>1, <1>2, <1>3, <1>4, <1>5 DEF Next

-----------------------------------------------------------------------------
(* The theorems *)

LEMMA InvStep == VaultInv /\ [Next]_vars => VaultInv'
  BY TypeStep, ControlStep, UploadStep, BytesStep, TargetStep, DeleteStep,
     DownloadStep, KeptStep, WipeStep, AuditStep DEF VaultInv

\* Every reachable state satisfies the inductive invariant.
THEOREM VaultInvariance == Spec => []VaultInv
<1>1. Init => VaultInv
  BY InitInv
<1>2. VaultInv /\ [Next]_vars => VaultInv'
  BY InvStep
<1>3. QED BY <1>1, <1>2, PTL DEF Spec

\* An upload answered 200 survives every failure, restart and other user.
THEOREM AckedUploadsSurvive == Spec => []AckedUploadSurvives
<1>1. VaultInv => AckedUploadSurvives
  BY DEF VaultInv, KeptInv, AckedUploadSurvives
<1>2. QED BY <1>1, VaultInvariance, PTL

\* Where a file being written is closed to others, ciphertext that a delete has
\* overwritten once never comes back.
THEOREM WipesAreFinal == Spec => []WipeIsFinal
<1>1. VaultInv => WipeIsFinal
  BY DEF VaultInv
<1>2. QED BY <1>1, VaultInvariance, PTL

\* Every file on disk is named by a row.
THEOREM BytesAreReferenced == Spec => []NoUnreferencedBytes
<1>1. VaultInv => NoUnreferencedBytes
  BY DEF VaultInv, BytesInv, NoUnreferencedBytes
<1>2. QED BY <1>1, VaultInvariance, PTL

\* A served download is the owner's own, unaltered file.
THEOREM DownloadsAreIntact == Spec => []ServedIntact
<1>1. VaultInv => ServedIntact
  BY DEF VaultInv, DownloadInv, ServedIntact
<1>2. QED BY <1>1, VaultInvariance, PTL

\* A request that was answered with success took effect and was logged.
THEOREM SuccessesAreAudited == Spec => []SuccessIsAudited
<1>1. VaultInv => SuccessIsAudited
  BY DEF VaultInv, ControlInv, AuditInv, DeleteInv, SuccessIsAudited
<1>2. QED BY <1>1, VaultInvariance, PTL

-----------------------------------------------------------------------------
(* FileVault implements FileRecord *)

\* Every step, seen through rows, blobs and PendingWrites, is a FileRecord
\* step of each file or leaves the file as it is.
LEMMA RecordStep ==
  ASSUME VaultInv, VaultInv', [Next]_vars
  PROVE  [Record!Next]_<<rows, blobs, PendingWrites>>
<1> USE GuidEmptyAssumption
    DEF VaultInv, TypeOK, ControlInv, UploadInv, BytesInv, TargetInv, DeleteInv,
        Uploads, PendingWrites, Record!Next, Record!FileStep, Record!Insert,
        Record!Close, Record!Shred, Record!Mark, Record!Same, Record!Stays,
        Record!WindowStays
<1>1. CASE Crash
  BY <1>1 DEF Crash, Writing
<1>2. ASSUME NEW r \in Requests, Arrive(r) PROVE Record!Next
  BY <1>2, ArriveShape DEF Receive
<1>3. ASSUME NEW r \in Requests, Handle(r) PROVE Record!Next
  <2>1. CASE SaveFileMetadata(r)
    BY <2>1 DEF SaveFileMetadata
  <2>2. CASE UploadWrites(r)
    BY <2>2 DEF UploadWrites, SaveEncryptedFile, BeginWrite, FinishWrite
  <2>3. CASE Overwrite(r) \/ Unlink(r)
    BY <2>3 DEF Overwrite, Unlink
  <2>4. CASE MarkDeleted(r)
    BY <2>4 DEF MarkDeleted
  <2>5. CASE Quiet(r)
    BY <2>5 DEF Quiet, Step, AuditInsert, LogSecurityEvent, LogUpload,
       LogDecrypt, LogDownload, LogDelete, CheckAccess, GetMetadata, LoadKeys,
       ReadAndVerify, FindForDelete, LoadForDelete, ProbeFile
  <2>6. QED BY <1>3, <2>1, <2>2, <2>3, <2>4, <2>5, HandleSplit
<1>4. ASSUME NEW r \in Requests, Fault(r) PROVE Record!Next
  BY <1>4 DEF Fault, Throw, TornWrite, Writing
<1>5. CASE UNCHANGED vars
  BY <1>5
<1>6. QED BY <1>1, <1>2, <1>3, <1>4, <1>5 DEF Next

\* The handlers keep the promise of FileRecord: one insertion, one write of
\* ciphertext, no way back from a deletion.
THEOREM VaultImplementsRecord == Spec => ImplementsFileRecord
<1>1. Init => Record!Init
  BY DEF Init, Record!Init, PendingWrites
<1>2. VaultInv /\ VaultInv' /\ [Next]_vars
         => [Record!Next]_<<rows, blobs, PendingWrites>>
  BY RecordStep
<1>3. QED BY <1>1, <1>2, VaultInvariance, PTL DEF Spec, ImplementsFileRecord, Record!Spec
-----------------------------------------------------------------------------
(* The service as shipped *)

\* KeyVault shows that the shipped service recovers the keys of nobody: then no
\* download is ever served, whoever asks and whatever else happens.
THEOREM ShippedServiceServesNothing ==
  ASSUME Unwraps = {}
  PROVE  Spec => [](\A r \in Requests : op[r] = "download" => pc[r] # "ok")
<1>1. ServedIntact => \A r \in Requests : op[r] = "download" => pc[r] # "ok"
  BY DEF ServedIntact
<1>2. QED BY <1>1, DownloadsAreIntact, PTL

\* No security event in the log, and no rejection of malware that was answered
\* as the code means to: the event is always inserted under GuidEmpty.
NothingRejected ==
    /\ \A entry \in audit : entry.action # "MalwareDetected"
    /\ \A r \in Requests : op[r] = "infected" => pc[r] \in {"upMalware", "error", "lost"}

LEMMA NothingRejectedStep ==
  ASSUME VaultInv, NothingRejected, [Next]_vars
  PROVE  NothingRejected'
<1> USE GuidEmptyAssumption DEF VaultInv, TypeOK, ControlInv, NothingRejected
<1>1. CASE Crash
  BY <1>1 DEF Crash
<1>2. ASSUME NEW r \in Requests, Arrive(r) PROVE NothingRejected'
  BY <1>2, ArriveShape DEF Receive
<1>3. ASSUME NEW r \in Requests, Handle(r) PROVE NothingRejected'
  <2>1. CASE LogSecurityEvent(r)
    <3>1. op[r] = "infected" /\ ~RowExists(target[r])
      BY <2>1 DEF LogSecurityEvent, AuditInsert, RowExists
    <3>2. QED BY <2>1, <3>1 DEF LogSecurityEvent, AuditInsert
  <2>2. CASE LogUpload(r) \/ LogDecrypt(r) \/ LogDownload(r) \/ LogDelete(r)
    BY <2>2 DEF AuditInsert, LogUpload, LogDecrypt, LogDownload, LogDelete
  <2>3. CASE \/ SaveFileMetadata(r) \/ UploadWrites(r)
             \/ Overwrite(r) \/ Unlink(r) \/ MarkDeleted(r) \/ ReadAndVerify(r)
    BY <2>3 DEF SaveFileMetadata, UploadWrites, SaveEncryptedFile, BeginWrite, FinishWrite, Overwrite, Unlink, MarkDeleted,
       ReadAndVerify
  <2>4. CASE \/ CheckAccess(r) \/ GetMetadata(r) \/ LoadKeys(r)
             \/ FindForDelete(r) \/ LoadForDelete(r) \/ ProbeFile(r)
    BY <2>4 DEF Step, CheckAccess, GetMetadata, LoadKeys, FindForDelete,
       LoadForDelete, ProbeFile
  <2>5. QED BY <1>3, <2>1, <2>2, <2>3, <2>4 DEF Handle, UploadWrites
<1>4. ASSUME NEW r \in Requests, Fault(r) PROVE NothingRejected'
  BY <1>4 DEF Fault, Throw, TornWrite, Writing
<1>5. CASE UNCHANGED vars
  BY <1>5
<1>6. QED BY <1>1, <1>2, <1>3, <1>4, <1>5 DEF Next

\* What one behaviour of MalwareIsLogged's counterexample shows is always so:
\* no upload that the scan rejects is logged, or answered with its rejection.
THEOREM MalwareIsNeverLogged == Spec => []NothingRejected
<1>1. Init => NothingRejected
  BY DEF Init, NothingRejected
<1>2. VaultInv /\ NothingRejected /\ [Next]_vars => NothingRejected'
  BY NothingRejectedStep
<1>3. QED BY <1>1, <1>2, VaultInvariance, PTL DEF Spec

-----------------------------------------------------------------------------
(* Handlers are finite *)

\* A bound on the steps that a handler has left.
StepsLeft(r) ==
    CASE pc[r] = "delWipe"                            -> Passes - pass[r] + 3
      [] pc[r] = "delExists"                          -> Passes + 4
      [] pc[r] = "delLoad"                            -> Passes + 5
      [] pc[r] = "delFind"                            -> Passes + 6
      [] pc[r] = "dlAccess"                           -> 6
      [] pc[r] = "dlMeta"                             -> 5
      [] pc[r] \in {"upSave", "dlLoad"}               -> 4
      [] pc[r] \in {"upWrite", "dlRead", "delUnlink"} -> 3
      [] pc[r] \in {"upWriting", "dlDecrypt", "delMark"} -> 2
      [] pc[r] \in {"upLog", "upMalware", "dlLog", "delLog"} -> 1
      [] OTHER                                        -> 0

Moves(r) == pc[r] # "idle" /\ <<pc[r], pass[r]>>' # <<pc[r], pass[r]>>

\* Whatever a step does to a request that has arrived, it has fewer left.
HandlersAdvance ==
    [][\A r \in Requests : Moves(r) => StepsLeft(r)' < StepsLeft(r)]_vars

\* The bound of an answered request is 0, and of one in flight it is positive.
LEMMA StepsLeftPositive ==
  ASSUME VaultInv, NEW r \in Requests
  PROVE  /\ StepsLeft(r) \in 0 .. Passes + 6
         /\ pc[r] \in Answers => StepsLeft(r) = 0
         /\ pc[r] \in InFlight => StepsLeft(r) >= 1
  BY PassesAssumption DEF VaultInv, TypeOK, ControlInv, StepsLeft

LEMMA AdvanceStep ==
  ASSUME VaultInv, VaultInv', [Next]_vars, NEW s \in Requests, Moves(s)
  PROVE  StepsLeft(s)' < StepsLeft(s)
<1>1. pc[s] \in {"idle"} \cup InFlight \cup Answers /\ pass[s] \in Nat
  BY PassesAssumption DEF VaultInv, TypeOK
<1>2. CASE pc[s] \in InFlight /\ pc'[s] \in Answers
  <2>1. StepsLeft(s)' = 0
    BY <1>2 DEF StepsLeft
  <2>2. StepsLeft(s) \in Nat /\ StepsLeft(s) >= 1
    BY <1>2, StepsLeftPositive, PassesAssumption
  <2>3. QED BY <2>1, <2>2
<1>3. CASE ~(pc[s] \in InFlight /\ pc'[s] \in Answers)
  <2> USE PassesAssumption DEF VaultInv, TypeOK, Moves
  <2>1. ~Crash /\ ~UNCHANGED vars /\ \A r \in Requests : ~Fault(r)
    BY <1>3 DEF Crash, Fault, Throw, TornWrite, Writing
  <2>2. \A r \in Requests : ~Arrive(r)
    BY ArriveShape DEF Receive
  <2>3. Handle(s)
    <3>1. PICK r \in Requests : Handle(r)
      BY <2>1, <2>2 DEF Next
    <3>2. \A q \in Requests \ {r} : pc'[q] = pc[q] /\ pass'[q] = pass[q]
      BY <3>1 DEF Handle, Step, AuditInsert, LogSecurityEvent, LogUpload,
         LogDecrypt, LogDownload, LogDelete, CheckAccess, GetMetadata, LoadKeys,
         FindForDelete, LoadForDelete, ProbeFile, SaveFileMetadata,
         UploadWrites, SaveEncryptedFile, BeginWrite, FinishWrite, ReadAndVerify, Overwrite, Unlink, MarkDeleted
    <3>3. QED BY <3>1, <3>2
  <2>4. CASE Overwrite(s)
    BY <2>4 DEF Overwrite, ControlInv, StepsLeft
  <2>5. CASE ProbeFile(s) \/ LoadForDelete(s) \/ FindForDelete(s)
    BY <2>5 DEF ProbeFile, LoadForDelete, FindForDelete, Step, ControlInv, StepsLeft
  <2>6. CASE ~(Overwrite(s) \/ ProbeFile(s) \/ LoadForDelete(s) \/ FindForDelete(s))
    BY <1>3, <2>3, <2>6
       DEF StepsLeft, Handle, Step, AuditInsert, LogSecurityEvent, LogUpload,
       LogDecrypt, LogDownload, LogDelete, CheckAccess, GetMetadata, LoadKeys,
       SaveFileMetadata, UploadWrites, SaveEncryptedFile, BeginWrite, FinishWrite, ReadAndVerify, Unlink, MarkDeleted
  <2>7. QED BY <2>4, <2>5, <2>6
<1>4. QED BY <1>2, <1>3

\* No handler runs for ever, for any number of passes: the longest, a delete,
\* takes Passes + 6 steps.  What EveryRequestAnswered adds is the scheduling.
THEOREM HandlersAreFinite == Spec => HandlersAdvance
<1>1. VaultInv /\ VaultInv' /\ [Next]_vars
         => [\A r \in Requests : Moves(r) => StepsLeft(r)' < StepsLeft(r)]_vars
  BY AdvanceStep
<1>2. QED BY <1>1, VaultInvariance, PTL DEF Spec, HandlersAdvance
-----------------------------------------------------------------------------
(* What OwnerDeleteTakesEffect says besides the scheduling *)

\* A delete that the owner sent is never refused, and whichever answer but a
\* failure it gets, the row is marked deleted by then, by it or by another.
OwnDeletesConclude ==
    \A r \in Requests :
        (op[r] = "delete" /\ target[r] \in Files /\ caller[r] = owner[target[r]]) =>
            /\ pc[r] \in Deleting \cup {"notFound", "noContent", "error", "lost"}
            /\ pc[r] \in {"notFound", "noContent"} => rows[target[r]] = "deleted"

LEMMA OwnDeletesStep ==
  ASSUME VaultInv, OwnDeletesConclude, [Next]_vars
  PROVE  OwnDeletesConclude'
<1> USE GuidEmptyAssumption DEF VaultInv, TypeOK, ControlInv, TargetInv, OwnDeletesConclude
<1>1. CASE Crash
  BY <1>1 DEF Crash, Writing
<1>2. ASSUME NEW r \in Requests, Arrive(r) PROVE OwnDeletesConclude'
  BY <1>2, ArriveShape DEF Receive, KnownIds
<1>3. ASSUME NEW r \in Requests, Handle(r) PROVE OwnDeletesConclude'
  <2>1. CASE SaveFileMetadata(r)
    BY <2>1 DEF SaveFileMetadata, UploadInv
  <2>2. CASE UploadWrites(r) \/ Overwrite(r) \/ Unlink(r) \/ MarkDeleted(r)
    BY <2>2 DEF UploadWrites, SaveEncryptedFile, BeginWrite, FinishWrite, Overwrite, Unlink, MarkDeleted
  <2>3. CASE FindForDelete(r) \/ LoadForDelete(r)
    BY <2>3 DEF FindForDelete, LoadForDelete, Step, GetById, OwnedBy
  <2>4. CASE LogDelete(r)
    BY <2>4 DEF LogDelete, AuditInsert, DeleteInv
  <2>5. CASE Quiet(r) /\ ~(FindForDelete(r) \/ LoadForDelete(r) \/ LogDelete(r))
    BY <2>5 DEF Quiet, Step, AuditInsert, RowExists, GetById, CanAccess,
         HashMatches, LogSecurityEvent, LogUpload, LogDecrypt, LogDownload,
         CheckAccess, GetMetadata, LoadKeys, ReadAndVerify, ProbeFile
  <2>6. QED BY <1>3, <2>1, <2>2, <2>3, <2>4, <2>5, HandleSplit
<1>4. ASSUME NEW r \in Requests, Fault(r) PROVE OwnDeletesConclude'
  BY <1>4 DEF Fault, Throw, TornWrite, Writing
<1>5. CASE UNCHANGED vars
  BY <1>5
<1>6. QED BY <1>1, <1>2, <1>3, <1>4, <1>5 DEF Next

\* With HandlersAreFinite: once its owner deletes a file, it ends deleted or
\* the request is told of a failure, provided that the handler keeps being run.
THEOREM OwnersDeletesConclude == Spec => []OwnDeletesConclude
<1>1. Init => OwnDeletesConclude
  BY DEF Init, OwnDeletesConclude
<1>2. VaultInv /\ OwnDeletesConclude /\ [Next]_vars => OwnDeletesConclude'
  BY OwnDeletesStep
<1>3. QED BY <1>1, <1>2, VaultInvariance, PTL DEF Spec
-----------------------------------------------------------------------------
(* What FileRecord allows, and so does FileVault *)

\* A row that is deleted stays so, and once the upload of a file has written or
\* given up, ciphertext that is not there never will be: not after a torn
\* write, an overwrite or an unlink, and not when nothing was ever written.
NothingRevives ==
    [][\A f \in Files :
          /\ rows[f] # "none" => rows'[f] # "none"
          /\ rows[f] = "deleted" => rows'[f] = "deleted"
          /\ rows[f] # "none" /\ f \notin PendingWrites =>
                /\ f \notin PendingWrites'
                /\ blobs[f] # "cipher" => blobs'[f] # "cipher"
      ]_<<rows, blobs, PendingWrites>>

\* Follows from the abstract record alone, whatever implements it.
THEOREM NoFileRevives == Spec => NothingRevives
<1>1. [Record!Next]_<<rows, blobs, PendingWrites>> =>
      [\A f \in Files :
          /\ rows[f] # "none" => rows'[f] # "none"
          /\ rows[f] = "deleted" => rows'[f] = "deleted"
          /\ rows[f] # "none" /\ f \notin PendingWrites =>
                /\ f \notin PendingWrites'
                /\ blobs[f] # "cipher" => blobs'[f] # "cipher"
      ]_<<rows, blobs, PendingWrites>>
  BY DEF Record!Next, Record!FileStep, Record!Insert, Record!Close, Record!Shred,
     Record!Mark, Record!Same, Record!Stays, Record!WindowStays
<1>2. QED BY <1>1, VaultImplementsRecord, PTL
          DEF ImplementsFileRecord, Record!Spec, NothingRevives
=============================================================================
