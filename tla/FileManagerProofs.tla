-------------------------- MODULE FileManagerProofs --------------------------
(***************************************************************************)
(* FileManager for every set of files, picks and handlers: PageInv is      *)
(* inductive.  A load that is started last is answered after everything    *)
(* the user has been told of until then, because whatever tells the user   *)
(* of a change starts a load of its own.                                   *)
(***************************************************************************)
EXTENDS FileManager, TLAPS

-----------------------------------------------------------------------------
(* What most steps do not do *)

\* A row never comes back, and never vanishes without a trace.
GoneStays ==
    \A f \in Files : /\ server[f] = "gone" => server'[f] = "gone"
                     /\ server[f] # "none" => server'[f] # "none"

\* The user is told of no upload and no delete.
NothingNew ==
    /\ \A f \in Picks :
          upload'[f] = "acked" /\ pc'[batch'[f]] # "uploading" /\ server'[f] = "listed"
          => upload[f] = "acked" /\ pc[batch[f]] # "uploading" /\ server[f] = "listed"
    /\ \A h \in Tasks : outcome'[h] = "deleted" =>
          outcome[h] = "deleted" /\ target'[h] = target[h]

\* TargetInv for one handler.
TargetAt(h) ==
    /\ outcome[h] # "nothing" => target[h] \in Files
    /\ pc[h] = "idle" => target[h] = None /\ outcome[h] = "nothing"
    /\ pc[h] \in {"deleting", "undeleted", "fetching", "fetched"} =>
          target[h] \in Files /\ outcome[h] = "nothing"
    /\ pc[h] = "deleted" \/ outcome[h] = "deleted" =>
          target[h] \in Files /\ server[target[h]] = "gone"

LEMMA SetFacts ==
    /\ Picks \subseteq Files /\ Elsewhere \subseteq Files /\ Handlers \subseteq Tasks
    /\ None \notin Files /\ None \notin Tasks /\ None \notin SUBSET Files
  BY PageAssumption DEF Files, Tasks

-----------------------------------------------------------------------------
(* Uploads *)

\* A handler that is not uploading does not disturb the uploads.
LEMMA OthersKeepUploads ==
  ASSUME TypeOK, UploadInv, GoneStays, NEW h \in Tasks, NEW l,
         l # "idle", pc[h] # "uploading", pc' = [pc EXCEPT ![h] = l],
         UNCHANGED <<upload, batch>>,
         \A f \in Picks : server[f] = "none" => server'[f] = "none",
         \A k \in Tasks : target'[k] = target[k] \/ (k = h /\ pc[h] = "idle")
  PROVE  UploadInv'
<1>1. pc \in [Tasks -> Labels]
  BY DEF TypeOK
<1>2. SUFFICES ASSUME NEW f \in Picks
      PROVE  /\ upload[f] \in {"none", "sent"} => server'[f] = "none"
             /\ upload[f] \in {"stored", "acked"} => server'[f] # "none"
             /\ upload[f] \in Sent \cup {"acked"} => batch[f] \in Tasks
             /\ upload[f] \in Sent => pc'[batch[f]] = "uploading"
             /\ batch[f] \in Tasks => pc'[batch[f]] # "idle" /\ target'[batch[f]] = None
  BY DEF UploadInv
<1>3. /\ upload[f] \in {"none", "sent"} => server[f] = "none"
      /\ upload[f] \in {"stored", "acked"} => server[f] # "none"
      /\ upload[f] \in Sent \cup {"acked"} => batch[f] \in Tasks
      /\ upload[f] \in Sent => pc[batch[f]] = "uploading"
      /\ batch[f] \in Tasks => pc[batch[f]] # "idle" /\ target[batch[f]] = None
  BY DEF UploadInv
<1>4. upload[f] \in {"stored", "acked"} => server'[f] # "none"
  BY <1>3, SetFacts DEF GoneStays
<1>5. upload[f] \in Sent => pc'[batch[f]] = "uploading"
  <2>1. SUFFICES ASSUME upload[f] \in Sent PROVE pc'[batch[f]] = "uploading"
    OBVIOUS
  <2>2. batch[f] \in Tasks /\ pc[batch[f]] = "uploading"
    BY <1>3, <2>1
  <2>3. QED BY <1>1, <2>2
<1>6. batch[f] \in Tasks => pc'[batch[f]] # "idle" /\ target'[batch[f]] = None
  BY <1>1, <1>3
<1>7. QED BY <1>3, <1>4, <1>5, <1>6

-----------------------------------------------------------------------------
(* Lists *)

\* Without news, a fresh list stays fresh.
LEMMA NothingNewKeepsFresh ==
  ASSUME NothingNew, NEW list, Fresh(list)
  PROVE  /\ \A f \in Picks :
               upload'[f] = "acked" /\ pc'[batch'[f]] # "uploading" /\ server'[f] = "listed"
                  => f \in list
         /\ \A h \in Tasks : outcome'[h] = "deleted" => target'[h] \notin list
  BY DEF NothingNew, Fresh

\* A step without news and without a new list or load.
LEMMA QuietStep ==
  ASSUME TypeOK, ListInv, FreshWhenInOrder, NothingNew, GoneStays,
         UNCHANGED <<latest, answer, files, shown, inOrder>>,
         \A k \in Tasks : pc'[k] = pc[k] \/ (pc[k] # "done" /\ pc'[k] # "answered"),
         \A k \in Tasks : pc'[k] \in {"fetching", "fetched"} =>
            \/ pc[k] \in {"fetching", "fetched"} /\ target'[k] = target[k]
               /\ target[k] \in Files
            \/ files # None /\ target'[k] \in files
  PROVE  ListInv' /\ FreshWhenInOrder'
<1>1. /\ files = None \/ files \subseteq Files
      /\ \A k \in Tasks : answer[k] \subseteq Files
  BY DEF TypeOK
<1>2. latest \in Tasks
  BY DEF ListInv
<1>3. \A k \in Tasks : shown = k => pc'[k] = "done"
  BY DEF ListInv
<1>4. \A k \in Tasks : \A f \in answer[k] : server'[f] # "none"
  BY <1>1 DEF ListInv, GoneStays
<1>5. files # None => \A f \in files : server'[f] # "none"
  BY <1>1 DEF ListInv, GoneStays
<1>6. pc'[latest] = "answered" => pc[latest] = "answered"
  BY <1>2
<1>7. pc'[latest] = "answered" => Fresh(answer[latest])'
  <2>1. SUFFICES ASSUME pc'[latest] = "answered" PROVE Fresh(answer[latest])'
    OBVIOUS
  <2>2. Fresh(answer[latest])
    BY <1>6, <2>1 DEF ListInv
  <2>3. QED BY <2>2, NothingNewKeepsFresh DEF Fresh
<1>8. inOrder /\ pc'[latest] = "answered" /\ files # None =>
          \A f \in files \ answer[latest] : server'[f] = "gone"
  BY <1>1, <1>6 DEF ListInv, GoneStays
<1>9. inOrder => \A k \in Tasks : pc'[k] \in {"fetching", "fetched"} =>
          server'[target'[k]] = "gone" \/ (files # None /\ target'[k] \in files)
  BY DEF ListInv, GoneStays
<1>10. ListInv'
  BY <1>2, <1>3, <1>4, <1>5, <1>7, <1>8, <1>9 DEF ListInv
<1>11. FreshWhenInOrder'
  <2>1. SUFFICES ASSUME files # None, shown = latest PROVE Fresh(files)'
    BY DEF FreshWhenInOrder
  <2>2. Fresh(files)
    BY <2>1 DEF FreshWhenInOrder
  <2>3. QED BY <2>2, NothingNewKeepsFresh DEF Fresh
<1>12. QED BY <1>10, <1>11

\* A step that starts a load: no answer is the latest any more.
LEMMA LoadStep ==
  ASSUME TypeOK, ListInv, GoneStays, NEW h \in Tasks,
         UNCHANGED <<answer, files, shown, inOrder, target>>,
         pc[h] # "done", latest' = h, pc' = [pc EXCEPT ![h] = "loading"],
         \A k \in Tasks : pc[k] \in {"fetching", "fetched"} => target[k] \in Files
  PROVE  ListInv' /\ FreshWhenInOrder'
<1>1. /\ files = None \/ files \subseteq Files
      /\ \A k \in Tasks : answer[k] \subseteq Files
      /\ pc \in [Tasks -> Labels]
  BY DEF TypeOK
<1>2. pc'[h] = "loading" /\ \A k \in Tasks \ {h} : pc'[k] = pc[k]
  BY <1>1
<1>3. \A k \in Tasks : shown = k => pc'[k] = "done"
  BY <1>2 DEF ListInv
<1>4. \A k \in Tasks : \A f \in answer[k] : server'[f] # "none"
  BY <1>1 DEF ListInv, GoneStays
<1>5. files # None => \A f \in files : server'[f] # "none"
  BY <1>1 DEF ListInv, GoneStays
<1>6. inOrder => \A k \in Tasks : pc'[k] \in {"fetching", "fetched"} =>
          server'[target[k]] = "gone" \/ (files # None /\ target[k] \in files)
  <2>1. SUFFICES ASSUME inOrder, NEW k \in Tasks, pc'[k] \in {"fetching", "fetched"}
                 PROVE  server'[target[k]] = "gone" \/ (files # None /\ target[k] \in files)
    OBVIOUS
  <2>2. pc[k] \in {"fetching", "fetched"}
    BY <1>2, <2>1
  <2>3. QED BY <2>1, <2>2 DEF ListInv, GoneStays
<1>7. ListInv'
  BY <1>2, <1>3, <1>4, <1>5, <1>6 DEF ListInv
<1>8. shown # h
  BY DEF ListInv
<1>9. QED BY <1>7, <1>8 DEF FreshWhenInOrder

-----------------------------------------------------------------------------
(* Targets and names *)

\* What is gone stays gone, for every handler but the one that moves.
LEMMA OthersKeepTargets ==
  ASSUME TargetInv, GoneStays, NEW h \in Tasks, TargetAt(h)',
         \A k \in Tasks \ {h} :
            pc'[k] = pc[k] /\ target'[k] = target[k] /\ outcome'[k] = outcome[k]
  PROVE  TargetInv'
<1>1. ASSUME NEW k \in Tasks \ {h} PROVE TargetAt(k)'
  <2>1. TargetAt(k)
    BY DEF TargetInv, TargetAt
  <2>2. pc'[k] = pc[k] /\ target'[k] = target[k] /\ outcome'[k] = outcome[k]
    OBVIOUS
  <2>3. QED BY <2>1, <2>2 DEF TargetAt, GoneStays
<1>2. \A k \in Tasks : TargetAt(k)'
  BY <1>1
<1>3. QED BY <1>2 DEF TargetInv, TargetAt

LEMMA AllKeepTargets ==
  ASSUME TargetInv, GoneStays, UNCHANGED <<pc, target, outcome>>
  PROVE  TargetInv'
<1>1. ASSUME NEW k \in Tasks PROVE TargetAt(k)'
  <2>1. TargetAt(k)
    BY DEF TargetInv, TargetAt
  <2>2. QED BY <2>1 DEF TargetAt, GoneStays
<1>2. QED BY <1>1 DEF TargetInv, TargetAt

\* A step at which no download ends.
LEMMA NoNameStep ==
  ASSUME TargetInv, DownloadKeepsItsName, GoneStays, inOrder' => inOrder,
         \A k \in Handlers : outcome'[k] = "download" =>
            outcome[k] = "download" /\ target'[k] = target[k]
  PROVE  DownloadKeepsItsName'
<1>1. SUFFICES ASSUME NEW k \in Handlers, outcome'[k] = "download"
      PROVE  server'[target'[k]] = "gone" \/ ~ inOrder'
  BY DEF DownloadKeepsItsName
<1>2. outcome[k] = "download" /\ target'[k] = target[k]
  BY <1>1
<1>3. target[k] \in Files
  BY <1>2, SetFacts DEF TargetInv
<1>4. QED BY <1>1, <1>2, <1>3 DEF DownloadKeepsItsName, GoneStays

-----------------------------------------------------------------------------
(* The steps *)

LEMMA ServeListStep ==
  ASSUME PageInv, NEW h \in Tasks, ServeList(h)
  PROVE  PageInv'
<1>1. /\ TypeOK /\ UploadInv /\ TargetInv /\ ListInv
      /\ SpinnerInv /\ FreshWhenInOrder /\ DownloadKeepsItsName
  BY DEF PageInv
<1>2. PICK l \in {"answered", "failed"} :
        /\ pc[h] = "loading" /\ pc' = [pc EXCEPT ![h] = l]
        /\ answer' = IF l = "answered" THEN [answer EXCEPT ![h] = Listed] ELSE answer
        /\ UNCHANGED <<server, isUploading, upload, batch, target, latest,
                       files, shown, inOrder, outcome>>
  BY DEF ServeList, Goto, uploadVars, listVars
<1>3. /\ pc \in [Tasks -> Labels]
      /\ answer \in [Tasks -> SUBSET Files] /\ Listed \in SUBSET Files
      /\ files = None \/ files \subseteq Files
  BY <1>1 DEF TypeOK, Listed
<1>4. \A k \in Tasks \ {h} : pc'[k] = pc[k] /\ answer'[k] = answer[k]
  BY <1>2, <1>3
<1>5. pc'[h] = l /\ (l = "answered" => answer'[h] = Listed) /\ (l # "answered" => answer'[h] = answer[h])
  BY <1>2, <1>3
<1>6. TypeOK'
  <2>1. pc' \in [Tasks -> Labels]
    BY <1>2, <1>3 DEF Labels
  <2>2. answer' \in [Tasks -> SUBSET Files]
    BY <1>2, <1>3
  <2>3. QED BY <1>1, <1>2, <2>1, <2>2 DEF TypeOK
<1>7. GoneStays
  BY <1>2 DEF GoneStays
<1>8. UploadInv'
  BY <1>1, <1>2, <1>7, OthersKeepUploads
<1>9. TargetInv'
  <2>1. TargetAt(h)'
    BY <1>1, <1>2, <1>5 DEF TargetInv, TargetAt
  <2>2. QED BY <1>1, <1>2, <1>4, <1>7, <2>1, OthersKeepTargets
<1>10. SpinnerInv'
  BY <1>1, <1>2 DEF SpinnerInv
<1>11. DownloadKeepsItsName'
  BY <1>1, <1>2, <1>7, NoNameStep
<1>12. NothingNew
  <2>1. \A f \in Picks : upload[f] = "acked" => batch[f] \in Tasks
    BY <1>1 DEF UploadInv
  <2>2. \A k \in Tasks : pc'[k] # "uploading" => pc[k] # "uploading"
    BY <1>2, <1>4
  <2>3. QED BY <1>2, <2>1, <2>2 DEF NothingNew
<1>13. \A f \in Files : f \in Listed <=> server[f] = "listed"
  BY DEF Listed
<1>14. ListInv'
  <2>1. latest \in Tasks /\ \A k \in Tasks : shown = k => pc'[k] = "done"
    BY <1>1, <1>2, <1>4 DEF ListInv
  <2>2. \A k \in Tasks : \A f \in answer'[k] : server[f] # "none"
    <3>1. ASSUME NEW k \in Tasks, NEW f \in answer'[k] PROVE server[f] # "none"
      <4>1. CASE f \in answer[k]
        BY <1>1, <4>1 DEF ListInv
      <4>2. CASE f \notin answer[k]
        <5>1. f \in Listed
          BY <1>4, <1>5, <3>1, <4>2
        <5>2. QED BY <1>3, <1>13, <5>1
      <4>3. QED BY <4>1, <4>2
    <3>2. QED BY <3>1
  <2>3. files # None => \A f \in files : server[f] # "none"
    BY <1>1 DEF ListInv
  <2>4. pc'[latest] = "answered" => Fresh(answer'[latest])
    <3>1. CASE latest = h
      <4>1. SUFFICES ASSUME l = "answered" PROVE Fresh(Listed)
        BY <1>5, <3>1
      <4>2. \A f \in Picks : server[f] = "listed" => f \in Listed
        BY <1>13, SetFacts
      <4>3. \A k \in Tasks : outcome[k] = "deleted" => target[k] \notin Listed
        BY <1>1, <1>13 DEF TargetInv
      <4>4. QED BY <4>2, <4>3 DEF Fresh
    <3>2. CASE latest # h
      BY <1>1, <1>4, <2>1, <3>2 DEF ListInv
    <3>3. QED BY <3>1, <3>2
  <2>5. inOrder /\ pc'[latest] = "answered" /\ files # None =>
            \A f \in files \ answer'[latest] : server[f] = "gone"
    <3>1. CASE latest = h
      <4>1. ASSUME NEW f \in Files, server[f] # "none", f \notin Listed PROVE server[f] = "gone"
        BY <1>1, <1>13, <4>1 DEF TypeOK
      <4>2. QED BY <1>3, <1>5, <2>3, <3>1, <4>1
    <3>2. CASE latest # h
      BY <1>1, <1>4, <2>1, <3>2 DEF ListInv
    <3>3. QED BY <3>1, <3>2
  <2>6. inOrder => \A k \in Tasks : pc'[k] \in {"fetching", "fetched"} =>
            server[target[k]] = "gone" \/ (files # None /\ target[k] \in files)
    BY <1>1, <1>4, <1>5 DEF ListInv
  <2>7. (pc'[latest] = "answered" => Fresh(answer[latest])')
    <3>1. SUFFICES ASSUME pc'[latest] = "answered" PROVE Fresh(answer[latest])'
      OBVIOUS
    <3>2. Fresh(answer'[latest])
      BY <2>4, <3>1
    <3>3. QED BY <1>2, <1>12, <3>2, NothingNewKeepsFresh DEF Fresh
  <2>8. QED BY <1>2, <2>1, <2>2, <2>3, <2>5, <2>6, <2>7 DEF ListInv
<1>15. FreshWhenInOrder'
  <2>1. SUFFICES ASSUME files # None, shown = latest PROVE Fresh(files)'
    BY <1>2 DEF FreshWhenInOrder
  <2>2. Fresh(files)
    BY <1>1, <2>1 DEF FreshWhenInOrder
  <2>3. QED BY <1>2, <1>12, <2>2, NothingNewKeepsFresh DEF Fresh
<1>16. QED BY <1>6, <1>8, <1>9, <1>10, <1>11, <1>14, <1>15 DEF PageInv

\* A handler that neither uploads nor loads: from idle to its first await, from
\* there to the answer, or to its end.
LEMMA QuietHandlerStep ==
  ASSUME PageInv, NEW h \in Tasks, NEW l \in Labels \ {"idle", "answered"},
         pc[h] \notin {"uploading", "done"}, pc' = [pc EXCEPT ![h] = l],
         UNCHANGED <<isUploading, upload, batch, latest, answer, files, shown, inOrder>>,
         server' \in [Files -> {"none", "listed", "gone"}],
         \A f \in Files : server'[f] = server[f]
                          \/ (server[f] = "listed" /\ server'[f] = "gone"),
         target' \in [Tasks -> Files \cup {None}], outcome' \in [Tasks -> Outcomes],
         \A k \in Tasks \ {h} : target'[k] = target[k] /\ outcome'[k] = outcome[k],
         target'[h] = target[h] \/ pc[h] = "idle",
         outcome'[h] # "deleted", TargetAt(h)',
         outcome'[h] = "download" => server'[target'[h]] = "gone" \/ ~ inOrder,
         l \in {"fetching", "fetched"} =>
            \/ pc[h] = "fetching" /\ target'[h] = target[h]
            \/ files # None /\ target'[h] \in files
  PROVE  PageInv'
<1>1. /\ TypeOK /\ UploadInv /\ TargetInv /\ ListInv
      /\ SpinnerInv /\ FreshWhenInOrder /\ DownloadKeepsItsName
  BY DEF PageInv
<1>2. pc \in [Tasks -> Labels]
  BY <1>1 DEF TypeOK
<1>3. pc'[h] = l /\ \A k \in Tasks \ {h} : pc'[k] = pc[k]
  BY <1>2
<1>4. TypeOK'
  <2>1. pc' \in [Tasks -> Labels]
    BY <1>2
  <2>2. QED BY <1>1, <2>1 DEF TypeOK
<1>5. GoneStays
  BY DEF GoneStays
<1>6. UploadInv'
  <2>1. \A f \in Picks : server[f] = "none" => server'[f] = "none"
    BY SetFacts
  <2>2. \A k \in Tasks : target'[k] = target[k] \/ (k = h /\ pc[h] = "idle")
    OBVIOUS
  <2>3. l # "idle" /\ pc[h] # "uploading"
    OBVIOUS
  <2>4. QED BY <1>1, <1>5, <2>1, <2>2, <2>3, OthersKeepUploads
<1>7. TargetInv'
  BY <1>1, <1>3, <1>5, OthersKeepTargets
<1>8. SpinnerInv'
  BY <1>1 DEF SpinnerInv
<1>9. DownloadKeepsItsName'
  <2>1. SUFFICES ASSUME NEW k \in Handlers, outcome'[k] = "download"
        PROVE  server'[target'[k]] = "gone" \/ ~ inOrder
    BY DEF DownloadKeepsItsName
  <2>2. CASE k = h
    BY <2>1, <2>2
  <2>3. CASE k # h
    <3>1. k \in Tasks /\ target'[k] = target[k] /\ outcome[k] = "download"
      BY <2>1, <2>3, SetFacts
    <3>2. target[k] \in Files
      BY <1>1, <3>1 DEF TargetInv
    <3>3. server[target[k]] = "gone" \/ ~ inOrder
      BY <1>1, <3>1 DEF DownloadKeepsItsName
    <3>4. QED BY <1>5, <3>1, <3>2, <3>3 DEF GoneStays
  <2>4. QED BY <2>2, <2>3
<1>10. NothingNew
  <2>1. \A f \in Picks : upload[f] = "acked" => batch[f] \in Tasks
    BY <1>1 DEF UploadInv
  <2>2. \A k \in Tasks : pc'[k] # "uploading" => pc[k] # "uploading"
    BY <1>3
  <2>3. \A f \in Picks : server'[f] = "listed" => server[f] = "listed"
    BY SetFacts
  <2>4. \A k \in Tasks : outcome'[k] = "deleted" =>
           outcome[k] = "deleted" /\ target'[k] = target[k]
    OBVIOUS
  <2>5. QED BY <2>1, <2>2, <2>3, <2>4 DEF NothingNew
<1>11. ListInv' /\ FreshWhenInOrder'
  <2>1. \A k \in Tasks : pc'[k] = pc[k] \/ (pc[k] # "done" /\ pc'[k] # "answered")
    BY <1>3
  <2>2. ASSUME NEW k \in Tasks, pc'[k] \in {"fetching", "fetched"}
        PROVE  \/ pc[k] \in {"fetching", "fetched"} /\ target'[k] = target[k]
                  /\ target[k] \in Files
               \/ files # None /\ target'[k] \in files
    <3>1. CASE k = h
      BY <1>1, <1>3, <2>2, <3>1 DEF TargetInv
    <3>2. CASE k # h
      BY <1>1, <1>3, <2>2, <3>2 DEF TargetInv
    <3>3. QED BY <3>1, <3>2
  <2>3. QED BY <1>1, <1>5, <1>10, <2>1, <2>2, QuietStep
<1>12. QED BY <1>4, <1>6, <1>7, <1>8, <1>9, <1>11 DEF PageInv

LEMMA SelectTooManyStep ==
  ASSUME PageInv, NEW h \in Handlers, NEW S \in SUBSET Picks, SelectTooMany(h, S)
  PROVE  PageInv'
<1>1. TypeOK /\ TargetInv
  BY DEF PageInv
<1>2. h \in Tasks /\ pc[h] = "idle" /\ pc' = [pc EXCEPT ![h] = "unhandled"]
      /\ UNCHANGED <<server, isUploading, upload, batch, target, answer, latest,
                     files, shown, inOrder, outcome>>
  BY SetFacts DEF SelectTooMany, Goto, uploadVars, loadVars, listVars
<1>3. pc'[h] = "unhandled"
  BY <1>1, <1>2 DEF TypeOK
<1>4. outcome[h] = "nothing" /\ TargetAt(h)'
  BY <1>1, <1>2, <1>3 DEF TargetInv, TargetAt
<1>5. /\ server \in [Files -> {"none", "listed", "gone"}]
      /\ target \in [Tasks -> Files \cup {None}] /\ outcome \in [Tasks -> Outcomes]
  BY <1>1 DEF TypeOK
<1>6. QED BY <1>2, <1>4, <1>5, QuietHandlerStep DEF Labels

LEMMA DeleteFileStep ==
  ASSUME PageInv, NEW h \in Handlers, NEW f \in Files, DeleteFile(h, f)
  PROVE  PageInv'
<1>1. TypeOK /\ TargetInv
  BY DEF PageInv
<1>2. /\ h \in Tasks /\ pc[h] = "idle" /\ pc' = [pc EXCEPT ![h] = "deleting"]
      /\ target' = [target EXCEPT ![h] = f]
      /\ UNCHANGED <<server, isUploading, upload, batch, answer, latest,
                     files, shown, inOrder, outcome>>
  BY SetFacts DEF DeleteFile, Goto, uploadVars, loadVars, listVars
<1>3. /\ server \in [Files -> {"none", "listed", "gone"}]
      /\ target \in [Tasks -> Files \cup {None}] /\ outcome \in [Tasks -> Outcomes]
      /\ pc \in [Tasks -> Labels]
  BY <1>1 DEF TypeOK
<1>4. pc'[h] = "deleting" /\ target'[h] = f /\ target' \in [Tasks -> Files \cup {None}]
      /\ \A k \in Tasks \ {h} : target'[k] = target[k]
  BY <1>2, <1>3
<1>5. outcome[h] = "nothing" /\ TargetAt(h)'
  BY <1>1, <1>2, <1>4 DEF TargetInv, TargetAt
<1>6. QED BY <1>2, <1>3, <1>4, <1>5, QuietHandlerStep DEF Labels

LEMMA DownloadFileStep ==
  ASSUME PageInv, NEW h \in Handlers, NEW f \in Files, DownloadFile(h, f)
  PROVE  PageInv'
<1>1. TypeOK /\ TargetInv
  BY DEF PageInv
<1>2. /\ h \in Tasks /\ pc[h] = "idle" /\ pc' = [pc EXCEPT ![h] = "fetching"]
      /\ target' = [target EXCEPT ![h] = f] /\ files # None /\ f \in files
      /\ UNCHANGED <<server, isUploading, upload, batch, answer, latest,
                     files, shown, inOrder, outcome>>
  BY SetFacts DEF DownloadFile, Clickable, Goto, uploadVars, loadVars, listVars
<1>3. /\ server \in [Files -> {"none", "listed", "gone"}]
      /\ target \in [Tasks -> Files \cup {None}] /\ outcome \in [Tasks -> Outcomes]
      /\ pc \in [Tasks -> Labels]
  BY <1>1 DEF TypeOK
<1>4. pc'[h] = "fetching" /\ target'[h] = f /\ target' \in [Tasks -> Files \cup {None}]
      /\ \A k \in Tasks \ {h} : target'[k] = target[k]
  BY <1>2, <1>3
<1>5. outcome[h] = "nothing" /\ TargetAt(h)'
  BY <1>1, <1>2, <1>4 DEF TargetInv, TargetAt
<1>6. QED BY <1>2, <1>3, <1>4, <1>5, QuietHandlerStep DEF Labels

LEMMA ServeDownloadStep ==
  ASSUME PageInv, NEW h \in Tasks, ServeDownload(h)
  PROVE  PageInv'
<1>1. TypeOK /\ TargetInv
  BY DEF PageInv
<1>2. PICK l \in {"fetched", "done"} :
      /\ pc[h] = "fetching" /\ pc' = [pc EXCEPT ![h] = l]
      /\ UNCHANGED <<server, isUploading, upload, batch, target, answer, latest,
                     files, shown, inOrder, outcome>>
  BY DEF ServeDownload, Goto, uploadVars, loadVars, listVars
<1>3. /\ server \in [Files -> {"none", "listed", "gone"}]
      /\ target \in [Tasks -> Files \cup {None}] /\ outcome \in [Tasks -> Outcomes]
      /\ pc \in [Tasks -> Labels]
  BY <1>1 DEF TypeOK
<1>4. pc'[h] = l
  BY <1>2, <1>3
<1>5. outcome[h] = "nothing" /\ TargetAt(h)'
  BY <1>1, <1>2, <1>4 DEF TargetInv, TargetAt
<1>6. l \in Labels \ {"idle", "answered"}
  BY DEF Labels
<1>7. QED BY <1>2, <1>3, <1>5, <1>6, QuietHandlerStep

LEMMA FinishDownloadStep ==
  ASSUME PageInv, NEW h \in Tasks, FinishDownload(h)
  PROVE  PageInv'
<1>1. TypeOK /\ TargetInv /\ ListInv
  BY DEF PageInv
<1>2. /\ pc[h] = "fetched" /\ pc' = [pc EXCEPT ![h] = "done"]
      /\ outcome' = [outcome EXCEPT ![h] = NameOf(target[h])]
      /\ UNCHANGED <<server, isUploading, upload, batch, target, answer, latest,
                     files, shown, inOrder>>
  BY DEF FinishDownload, Goto, uploadVars, loadVars, listVars
<1>3. /\ server \in [Files -> {"none", "listed", "gone"}]
      /\ target \in [Tasks -> Files \cup {None}] /\ outcome \in [Tasks -> Outcomes]
      /\ pc \in [Tasks -> Labels]
  BY <1>1 DEF TypeOK
<1>4. NameOf(target[h]) \in {"its name", "download"}
  BY DEF NameOf
<1>5. /\ pc'[h] = "done" /\ outcome'[h] = NameOf(target[h])
      /\ outcome' \in [Tasks -> Outcomes]
      /\ \A k \in Tasks \ {h} : outcome'[k] = outcome[k]
  BY <1>2, <1>3, <1>4 DEF Outcomes
<1>6. target[h] \in Files /\ TargetAt(h)'
  BY <1>1, <1>2, <1>4, <1>5 DEF TargetInv, TargetAt
<1>7. outcome'[h] = "download" => server[target[h]] = "gone" \/ ~ inOrder
  BY <1>1, <1>2, <1>5 DEF ListInv, NameOf
<1>8. QED BY <1>2, <1>3, <1>4, <1>5, <1>6, <1>7, QuietHandlerStep DEF Labels

LEMMA ServeDeleteStep ==
  ASSUME PageInv, NEW h \in Tasks, ServeDelete(h)
  PROVE  PageInv'
<1>1. TypeOK /\ TargetInv
  BY DEF PageInv
<1>2. PICK l \in {"deleted", "undeleted"} :
      /\ pc[h] = "deleting" /\ pc' = [pc EXCEPT ![h] = l]
      /\ \/ target[h] \in Listed /\ server' = [server EXCEPT ![target[h]] = "gone"]
         \/ server' = server /\ (l = "undeleted" \/ server[target[h]] = "gone")
      /\ UNCHANGED <<isUploading, upload, batch, target, answer, latest,
                     files, shown, inOrder, outcome>>
  BY DEF ServeDelete, Goto, uploadVars, loadVars, listVars
<1>3. /\ server \in [Files -> {"none", "listed", "gone"}]
      /\ target \in [Tasks -> Files \cup {None}] /\ outcome \in [Tasks -> Outcomes]
      /\ pc \in [Tasks -> Labels]
  BY <1>1 DEF TypeOK
<1>4. pc'[h] = l
  BY <1>2, <1>3
<1>5. outcome[h] = "nothing" /\ target[h] \in Files
  BY <1>1, <1>2 DEF TargetInv
<1>6. /\ server' \in [Files -> {"none", "listed", "gone"}]
      /\ \A f \in Files : server'[f] = server[f]
                          \/ (server[f] = "listed" /\ server'[f] = "gone")
      /\ l = "deleted" => server'[target[h]] = "gone"
  BY <1>2, <1>3, <1>5 DEF Listed
<1>7. TargetAt(h)'
  BY <1>2, <1>4, <1>5, <1>6 DEF TargetAt
<1>8. l \in Labels \ {"idle", "answered"}
  BY DEF Labels
<1>9. QED BY <1>2, <1>3, <1>5, <1>6, <1>7, <1>8, QuietHandlerStep

LEMMA FinishDeleteStep ==
  ASSUME PageInv, NEW h \in Tasks, FinishDelete(h)
  PROVE  PageInv'
<1>1. /\ TypeOK /\ UploadInv /\ TargetInv /\ ListInv
      /\ SpinnerInv /\ FreshWhenInOrder /\ DownloadKeepsItsName
  BY DEF PageInv
<1>2. /\ server \in [Files -> {"none", "listed", "gone"}]
      /\ target \in [Tasks -> Files \cup {None}] /\ outcome \in [Tasks -> Outcomes]
      /\ pc \in [Tasks -> Labels]
  BY <1>1 DEF TypeOK
<1>3. CASE pc[h] = "undeleted"
  <2>1. /\ pc' = [pc EXCEPT ![h] = "done"]
        /\ UNCHANGED <<server, isUploading, upload, batch, target, answer, latest,
                       files, shown, inOrder, outcome>>
    BY <1>3 DEF FinishDelete, Goto, uploadVars, listVars
  <2>2. pc'[h] = "done"
    BY <1>2, <2>1
  <2>3. outcome[h] = "nothing" /\ TargetAt(h)'
    BY <1>1, <1>3, <2>1, <2>2 DEF TargetInv, TargetAt
  <2>4. QED BY <1>2, <1>3, <2>1, <2>3, QuietHandlerStep DEF Labels
<1>4. CASE pc[h] = "deleted"
  <2>1. /\ pc' = [pc EXCEPT ![h] = "loading"] /\ latest' = h
        /\ outcome' = [outcome EXCEPT ![h] = "deleted"]
        /\ UNCHANGED <<server, isUploading, upload, batch, target, answer,
                       files, shown, inOrder>>
    BY <1>4 DEF FinishDelete, StartLoad, Goto, uploadVars, listVars
  <2>2. /\ pc'[h] = "loading" /\ outcome'[h] = "deleted"
        /\ \A k \in Tasks \ {h} : pc'[k] = pc[k] /\ outcome'[k] = outcome[k]
    BY <1>2, <2>1
  <2>3. GoneStays
    BY <2>1 DEF GoneStays
  <2>4. TypeOK'
    <3>1. pc' \in [Tasks -> Labels] /\ outcome' \in [Tasks -> Outcomes]
      BY <1>2, <2>1 DEF Labels, Outcomes
    <3>2. QED BY <1>1, <2>1, <3>1 DEF TypeOK
  <2>5. UploadInv'
    BY <1>1, <1>4, <2>1, <2>3, OthersKeepUploads
  <2>6. TargetInv'
    <3>1. TargetAt(h)'
      BY <1>1, <1>4, <2>1, <2>2 DEF TargetInv, TargetAt
    <3>2. QED BY <1>1, <2>1, <2>2, <2>3, <3>1, OthersKeepTargets
  <2>7. SpinnerInv'
    BY <1>1, <2>1 DEF SpinnerInv
  <2>8. DownloadKeepsItsName'
    <3>1. \A k \in Handlers : outcome'[k] = "download" => outcome[k] = "download"
      BY <2>2, SetFacts
    <3>2. QED BY <1>1, <2>1, <2>3, <3>1, NoNameStep
  <2>9. ListInv' /\ FreshWhenInOrder'
    <3>1. \A k \in Tasks : pc[k] \in {"fetching", "fetched"} => target[k] \in Files
      BY <1>1 DEF TargetInv
    <3>2. QED BY <1>1, <1>4, <2>1, <2>3, <3>1, LoadStep
  <2>10. QED BY <2>4, <2>5, <2>6, <2>7, <2>8, <2>9 DEF PageInv
<1>5. QED BY <1>3, <1>4 DEF FinishDelete

LEMMA DeletedElsewhereStep ==
  ASSUME PageInv, NEW f \in Elsewhere, DeletedElsewhere(f)
  PROVE  PageInv'
<1>1. /\ TypeOK /\ UploadInv /\ TargetInv /\ ListInv
      /\ SpinnerInv /\ FreshWhenInOrder /\ DownloadKeepsItsName
  BY DEF PageInv
<1>2. /\ f \in Files /\ server[f] = "listed" /\ server' = [server EXCEPT ![f] = "gone"]
      /\ UNCHANGED <<isUploading, upload, batch, pc, target, answer, latest,
                     files, shown, inOrder, outcome>>
  BY SetFacts DEF DeletedElsewhere, Listed, uploadVars, loadVars, listVars
<1>3. server \in [Files -> {"none", "listed", "gone"}]
  BY <1>1 DEF TypeOK
<1>4. /\ server'[f] = "gone" /\ server' \in [Files -> {"none", "listed", "gone"}]
      /\ \A g \in Files \ {f} : server'[g] = server[g]
  BY <1>2, <1>3
<1>5. GoneStays
  BY <1>2, <1>4 DEF GoneStays
<1>6. TypeOK'
  BY <1>1, <1>2, <1>4 DEF TypeOK
<1>7. UploadInv'
  <2>1. ASSUME NEW g \in Picks
        PROVE  /\ upload[g] \in {"none", "sent"} => server'[g] = "none"
               /\ upload[g] \in {"stored", "acked"} => server'[g] # "none"
    BY <1>1, <1>2, <1>4, SetFacts DEF UploadInv
  <2>2. QED BY <1>1, <1>2, <2>1 DEF UploadInv
<1>8. TargetInv'
  BY <1>1, <1>2, <1>5, AllKeepTargets
<1>9. SpinnerInv'
  BY <1>1, <1>2 DEF SpinnerInv
<1>10. DownloadKeepsItsName'
  BY <1>1, <1>2, <1>5, NoNameStep
<1>11. NothingNew
  <2>1. \A g \in Picks : server'[g] = "listed" => server[g] = "listed"
    BY <1>2, <1>4, SetFacts
  <2>2. QED BY <1>2, <2>1 DEF NothingNew
<1>12. ListInv' /\ FreshWhenInOrder'
  <2>1. \A k \in Tasks : pc[k] \in {"fetching", "fetched"} => target[k] \in Files
    BY <1>1 DEF TargetInv
  <2>2. QED BY <1>1, <1>2, <1>5, <1>11, <2>1, QuietStep
<1>13. QED BY <1>6, <1>7, <1>8, <1>9, <1>10, <1>12 DEF PageInv

\* An upload is about no file that a list has, and is no news before its end.
LEMMA ServeUploadStep ==
  ASSUME PageInv, NEW f \in Picks, ServeUpload(f)
  PROVE  PageInv'
<1>1. /\ TypeOK /\ UploadInv /\ TargetInv /\ ListInv
      /\ SpinnerInv /\ FreshWhenInOrder /\ DownloadKeepsItsName
  BY DEF PageInv
<1>2. PICK u \in {"stored", "failed"} :
      /\ upload[f] = "sent" /\ upload' = [upload EXCEPT ![f] = u]
      /\ \/ server' = [server EXCEPT ![f] = "listed"]
         \/ u = "failed" /\ server' = server
      /\ UNCHANGED <<isUploading, batch, pc, target, answer, latest,
                     files, shown, inOrder, outcome>>
  BY DEF ServeUpload, loadVars, listVars
<1>3. /\ server \in [Files -> {"none", "listed", "gone"}] /\ upload \in [Picks -> UploadStates]
      /\ f \in Files /\ Picks \subseteq Files
  BY <1>1, SetFacts DEF TypeOK
<1>4. server[f] = "none"
  BY <1>1, <1>2 DEF UploadInv
<1>5. /\ server' \in [Files -> {"none", "listed", "gone"}]
      /\ server'[f] = "listed" \/ (u = "failed" /\ server'[f] = "none")
      /\ \A g \in Files \ {f} : server'[g] = server[g]
  BY <1>2, <1>3, <1>4
<1>6. upload'[f] = u /\ \A g \in Picks \ {f} : upload'[g] = upload[g]
  BY <1>2, <1>3
<1>7. GoneStays
  BY <1>4, <1>5 DEF GoneStays
<1>8. TypeOK'
  <2>1. upload' \in [Picks -> UploadStates]
    BY <1>2, <1>3 DEF UploadStates, Sent
  <2>2. QED BY <1>1, <1>2, <1>5, <2>1 DEF TypeOK
<1>9. UploadInv'
  <2>1. ASSUME NEW g \in Picks
        PROVE  /\ upload'[g] \in {"none", "sent"} => server'[g] = "none"
               /\ upload'[g] \in {"stored", "acked"} => server'[g] # "none"
               /\ upload'[g] \in Sent \cup {"acked"} => batch[g] \in Tasks
               /\ upload'[g] \in Sent => pc[batch[g]] = "uploading"
               /\ batch[g] \in Tasks => pc[batch[g]] # "idle" /\ target[batch[g]] = None
    <3>1. CASE g = f
      BY <1>1, <1>2, <1>5, <1>6, <3>1 DEF UploadInv, Sent
    <3>2. CASE g # f
      BY <1>1, <1>3, <1>5, <1>6, <3>2 DEF UploadInv
    <3>3. QED BY <3>1, <3>2
  <2>2. QED BY <1>2, <2>1 DEF UploadInv
<1>10. TargetInv'
  BY <1>1, <1>2, <1>7, AllKeepTargets
<1>11. SpinnerInv'
  <2>1. \A g \in Picks : /\ upload'[g] \in Sent <=> upload[g] \in Sent
                         /\ upload[g] \in {"acked", "error"} => upload'[g] \in {"acked", "error"}
    BY <1>2, <1>6 DEF Sent
  <2>2. QED BY <1>1, <1>2, <2>1 DEF SpinnerInv
<1>12. DownloadKeepsItsName'
  BY <1>1, <1>2, <1>7, NoNameStep
<1>13. NothingNew
  <2>1. \A g \in Picks : upload'[g] = "acked" => upload[g] = "acked" /\ server'[g] = server[g]
    BY <1>3, <1>5, <1>6
  <2>2. QED BY <1>2, <2>1 DEF NothingNew
<1>14. ListInv' /\ FreshWhenInOrder'
  <2>1. \A k \in Tasks : pc[k] \in {"fetching", "fetched"} => target[k] \in Files
    BY <1>1 DEF TargetInv
  <2>2. QED BY <1>1, <1>2, <1>7, <1>13, <2>1, QuietStep
<1>15. QED BY <1>8, <1>9, <1>10, <1>11, <1>12, <1>14 DEF PageInv

LEMMA ReceiveListStep ==
  ASSUME PageInv, NEW h \in Tasks, ReceiveList(h)
  PROVE  PageInv'
<1>1. /\ TypeOK /\ UploadInv /\ TargetInv /\ ListInv
      /\ SpinnerInv /\ FreshWhenInOrder /\ DownloadKeepsItsName
  BY DEF PageInv
<1>2. /\ pc[h] \in {"answered", "failed"} /\ pc' = [pc EXCEPT ![h] = "done"]
      /\ files' = answer[h] /\ answer' = [answer EXCEPT ![h] = {}]
      /\ shown' = IF pc[h] = "answered" THEN h ELSE None
      /\ inOrder' = (inOrder /\ pc[h] = "answered" /\ latest = h)
      /\ UNCHANGED <<server, isUploading, upload, batch, target, latest, outcome>>
  BY DEF ReceiveList, Goto, uploadVars
<1>3. pc \in [Tasks -> Labels] /\ answer \in [Tasks -> SUBSET Files] /\ latest \in Tasks
  BY <1>1 DEF TypeOK, ListInv
<1>4. /\ pc'[h] = "done" /\ answer'[h] = {}
      /\ \A k \in Tasks \ {h} : pc'[k] = pc[k] /\ answer'[k] = answer[k]
  BY <1>2, <1>3
<1>5. inOrder' => inOrder /\ pc[h] = "answered" /\ latest = h
  BY <1>2
<1>6. TypeOK'
  <2>1. pc' \in [Tasks -> Labels] /\ answer' \in [Tasks -> SUBSET Files]
    BY <1>2, <1>3 DEF Labels
  <2>2. files' \subseteq Files /\ shown' \in Tasks \cup {None} /\ inOrder' \in BOOLEAN
    BY <1>2, <1>3
  <2>3. QED BY <1>1, <1>2, <2>1, <2>2 DEF TypeOK
<1>7. GoneStays
  BY <1>2 DEF GoneStays
<1>8. UploadInv'
  BY <1>1, <1>2, <1>7, OthersKeepUploads
<1>9. TargetInv'
  <2>1. TargetAt(h)'
    BY <1>1, <1>2, <1>4 DEF TargetInv, TargetAt
  <2>2. QED BY <1>1, <1>2, <1>4, <1>7, <2>1, OthersKeepTargets
<1>10. SpinnerInv'
  BY <1>1, <1>2 DEF SpinnerInv
<1>11. DownloadKeepsItsName'
  BY <1>1, <1>2, <1>5, <1>7, NoNameStep
<1>12. NothingNew
  <2>1. \A f \in Picks : upload[f] = "acked" => batch[f] \in Tasks
    BY <1>1 DEF UploadInv
  <2>2. \A k \in Tasks : pc'[k] # "uploading" => pc[k] # "uploading"
    BY <1>2, <1>4
  <2>3. QED BY <1>2, <2>1, <2>2 DEF NothingNew
<1>13. ListInv'
  <2>1. \A k \in Tasks : shown' = k => pc'[k] = "done"
    BY <1>2, <1>4, SetFacts
  <2>2. \A k \in Tasks : \A f \in answer'[k] : server'[f] # "none"
    BY <1>1, <1>2, <1>4 DEF ListInv
  <2>3. \A f \in files' : server'[f] # "none"
    BY <1>1, <1>2 DEF ListInv
  <2>4. (pc[latest] = "answered" => Fresh(answer[latest]))'
    <3>1. SUFFICES ASSUME pc'[latest] = "answered" PROVE Fresh(answer[latest])'
      BY <1>2
    <3>2. latest # h /\ pc[latest] = "answered" /\ answer'[latest] = answer[latest]
      BY <1>3, <1>4, <3>1
    <3>3. Fresh(answer[latest])
      BY <1>1, <3>2 DEF ListInv
    <3>4. QED BY <1>2, <1>12, <3>2, <3>3, NothingNewKeepsFresh DEF Fresh
  <2>5. ~ (inOrder' /\ pc'[latest] = "answered")
    BY <1>4, <1>5
  <2>6. inOrder' => \A k \in Tasks : pc'[k] \in {"fetching", "fetched"} =>
            server[target[k]] = "gone" \/ (files' # None /\ target[k] \in files')
    <3>1. SUFFICES ASSUME inOrder', NEW k \in Tasks, pc'[k] \in {"fetching", "fetched"},
                          server[target[k]] # "gone"
                   PROVE  files' # None /\ target[k] \in files'
      OBVIOUS
    <3>2. pc[k] \in {"fetching", "fetched"} /\ inOrder /\ pc[latest] = "answered"
          /\ latest = h
      BY <1>4, <1>5, <3>1
    <3>3. files # None /\ target[k] \in files
      BY <1>1, <3>1, <3>2 DEF ListInv
    <3>4. target[k] \in answer[h]
      BY <1>1, <3>1, <3>2, <3>3 DEF ListInv
    <3>5. QED BY <1>2, <1>3, <3>4, SetFacts
  <2>7. QED BY <1>2, <1>3, <2>1, <2>2, <2>3, <2>4, <2>5, <2>6 DEF ListInv
<1>14. FreshWhenInOrder'
  <2>1. SUFFICES ASSUME shown' = latest PROVE Fresh(files)'
    BY <1>2 DEF FreshWhenInOrder
  <2>2. latest = h /\ pc[latest] = "answered"
    BY <1>2, <1>3, <2>1, SetFacts
  <2>3. Fresh(answer[h])
    BY <1>1, <2>2 DEF ListInv
  <2>4. QED BY <1>2, <1>12, <2>3, NothingNewKeepsFresh DEF Fresh
<1>15. QED BY <1>6, <1>8, <1>9, <1>10, <1>11, <1>13, <1>14 DEF PageInv

LEMMA OnFileSelectedStep ==
  ASSUME PageInv, NEW h \in Handlers, NEW S \in SUBSET Picks, OnFileSelected(h, S)
  PROVE  PageInv'
<1>1. /\ TypeOK /\ UploadInv /\ TargetInv /\ ListInv
      /\ SpinnerInv /\ FreshWhenInOrder /\ DownloadKeepsItsName
  BY DEF PageInv
<1>2. /\ h \in Tasks /\ pc[h] = "idle" /\ \A f \in S : upload[f] = "none"
      /\ upload' = [f \in Picks |-> IF f \notin S THEN upload[f]
                                    ELSE IF f \in Unsendable THEN "error" ELSE "sent"]
      /\ batch' = [f \in Picks |-> IF f \in S THEN h ELSE batch[f]]
      /\ isUploading' = IF S = {} THEN isUploading ELSE S \cap Unsendable = {}
      /\ UNCHANGED <<server, target, answer, files, shown, inOrder, outcome>>
  BY SetFacts DEF OnFileSelected, SpinnerFor, listVars
<1>3. PICK l \in {"loading", "uploading"} :
      /\ pc' = [pc EXCEPT ![h] = l]
      /\ l = "loading" => S \subseteq Unsendable /\ latest' = h
      /\ l = "uploading" => latest' = latest
  BY DEF OnFileSelected, StartLoad, Goto
<1>4. /\ pc \in [Tasks -> Labels] /\ upload \in [Picks -> UploadStates]
      /\ batch \in [Picks -> Tasks \cup {None}]
  BY <1>1 DEF TypeOK
<1>5. pc'[h] = l /\ \A k \in Tasks \ {h} : pc'[k] = pc[k]
  BY <1>2, <1>3, <1>4
<1>6. target[h] = None /\ outcome[h] = "nothing"
  BY <1>1, <1>2 DEF TargetInv
<1>7. \A f \in S : /\ upload'[f] \in {"sent", "error"} /\ batch'[f] = h
                   /\ upload'[f] = "sent" => f \notin Unsendable
  BY <1>2
<1>8. \A f \in Picks \ S : /\ upload'[f] = upload[f] /\ batch'[f] = batch[f]
                           /\ batch[f] \in Tasks => batch[f] # h
  BY <1>1, <1>2 DEF UploadInv
<1>9. GoneStays
  BY <1>2 DEF GoneStays
<1>10. TypeOK'
  <2>1. upload' \in [Picks -> UploadStates]
    BY <1>2, <1>4 DEF UploadStates, Sent
  <2>2. batch' \in [Picks -> Tasks \cup {None}]
    BY <1>2, <1>4
  <2>3. pc' \in [Tasks -> Labels]
    BY <1>3, <1>4 DEF Labels
  <2>4. latest' \in Tasks /\ isUploading' \in BOOLEAN
    BY <1>1, <1>2, <1>3 DEF ListInv, TypeOK
  <2>5. QED BY <1>1, <1>2, <2>1, <2>2, <2>3, <2>4 DEF TypeOK
<1>11. UploadInv'
  <2>1. ASSUME NEW f \in Picks
        PROVE  /\ upload'[f] \in {"none", "sent"} => server[f] = "none"
               /\ upload'[f] \in {"stored", "acked"} => server[f] # "none"
               /\ upload'[f] \in Sent \cup {"acked"} => batch'[f] \in Tasks
               /\ upload'[f] \in Sent => pc'[batch'[f]] = "uploading"
               /\ batch'[f] \in Tasks => pc'[batch'[f]] # "idle" /\ target[batch'[f]] = None
    <3>1. CASE f \in S
      <4>1. server[f] = "none"
        BY <1>1, <1>2, <3>1 DEF UploadInv
      <4>2. upload'[f] \in Sent => upload'[f] = "sent"
        BY <1>7, <3>1 DEF Sent
      <4>3. upload'[f] = "sent" => l = "uploading"
        BY <1>3, <1>7, <3>1
      <4>4. QED BY <1>2, <1>5, <1>6, <1>7, <3>1, <4>1, <4>2, <4>3
    <3>2. CASE f \notin S
      <4>1. batch[f] \in Tasks => pc'[batch[f]] = pc[batch[f]]
        BY <1>5, <1>8, <3>2
      <4>2. QED BY <1>1, <1>8, <3>2, <4>1 DEF UploadInv
    <3>3. QED BY <3>1, <3>2
  <2>2. QED BY <1>2, <2>1 DEF UploadInv
<1>12. TargetInv'
  <2>1. TargetAt(h)'
    BY <1>2, <1>5, <1>6 DEF TargetAt
  <2>2. QED BY <1>1, <1>2, <1>5, <1>9, <2>1, OthersKeepTargets
<1>13. SpinnerInv'
  <2>1. CASE S = {}
    BY <1>1, <1>2, <1>8, <2>1 DEF SpinnerInv
  <2>2. CASE S # {} /\ S \cap Unsendable = {}
    <3>1. PICK f \in S : f \notin Unsendable
      BY <2>2
    <3>2. f \in Picks /\ upload'[f] \in Sent
      BY <1>2, <3>1 DEF Sent
    <3>3. QED BY <1>2, <2>2, <3>2 DEF SpinnerInv
  <2>3. CASE S \cap Unsendable # {}
    <3>1. PICK f \in S : f \in Unsendable
      BY <2>3
    <3>2. f \in Picks /\ upload'[f] \in {"acked", "error"} /\ S # {}
      BY <1>2, <3>1
    <3>3. QED BY <1>2, <2>3, <3>2 DEF SpinnerInv
  <2>4. QED BY <2>1, <2>2, <2>3
<1>14. DownloadKeepsItsName'
  BY <1>1, <1>2, <1>9, NoNameStep
<1>15. ListInv' /\ FreshWhenInOrder'
  <2>1. \A k \in Tasks : pc[k] \in {"fetching", "fetched"} => target[k] \in Files
    BY <1>1 DEF TargetInv
  <2>2. CASE l = "loading"
    BY <1>1, <1>2, <1>3, <1>9, <2>1, <2>2, LoadStep
  <2>3. CASE l = "uploading"
    <3>1. NothingNew
      <4>1. ASSUME NEW f \in Picks, upload'[f] = "acked", pc'[batch'[f]] # "uploading"
            PROVE  upload[f] = "acked" /\ pc[batch[f]] # "uploading"
        <5>1. f \notin S
          BY <1>7, <4>1
        <5>2. upload[f] = "acked" /\ batch'[f] = batch[f]
          BY <1>8, <4>1, <5>1
        <5>3. batch[f] \in Tasks /\ batch[f] # h
          BY <1>1, <1>8, <5>1, <5>2 DEF UploadInv
        <5>4. QED BY <1>5, <4>1, <5>2, <5>3
      <4>2. QED BY <1>2, <4>1 DEF NothingNew
    <3>2. \A k \in Tasks : pc'[k] = pc[k] \/ (pc[k] # "done" /\ pc'[k] # "answered")
      BY <1>2, <1>5, <2>3
    <3>3. \A k \in Tasks : pc'[k] \in {"fetching", "fetched"} =>
             pc[k] \in {"fetching", "fetched"} /\ target'[k] = target[k] /\ target[k] \in Files
      BY <1>2, <1>5, <2>1, <2>3
    <3>4. latest' = latest
      BY <1>3, <2>3
    <3>5. QED BY <1>1, <1>2, <1>9, <3>1, <3>2, <3>3, <3>4, QuietStep
  <2>4. QED BY <2>2, <2>3
<1>16. QED BY <1>10, <1>11, <1>12, <1>13, <1>14, <1>15 DEF PageInv

\* Only the last upload of a selection lets its handler go on, to LoadFiles.
LEMMA FinishUploadStep ==
  ASSUME PageInv, NEW f \in Picks, FinishUpload(f)
  PROVE  PageInv'
<1>1. /\ TypeOK /\ UploadInv /\ TargetInv /\ ListInv
      /\ SpinnerInv /\ FreshWhenInOrder /\ DownloadKeepsItsName
  BY DEF PageInv
<1>2. PICK u \in {"acked", "error"} :
      /\ upload[f] \in Sent \ {"sent"} /\ (u = "acked" => upload[f] = "stored")
      /\ upload' = [upload EXCEPT ![f] = u] /\ isUploading' = FALSE
      /\ UNCHANGED <<server, batch, target, answer, files, shown, inOrder, outcome>>
  BY DEF FinishUpload, listVars
<1>3. /\ pc \in [Tasks -> Labels] /\ upload \in [Picks -> UploadStates]
  BY <1>1 DEF TypeOK
<1>4. upload'[f] = u /\ \A g \in Picks \ {f} : upload'[g] = upload[g]
  BY <1>2, <1>3
<1>5. /\ batch[f] \in Tasks /\ pc[batch[f]] = "uploading" /\ target[batch[f]] = None
      /\ u = "acked" => server[f] # "none"
  BY <1>1, <1>2 DEF UploadInv
<1>6. GoneStays
  BY <1>2 DEF GoneStays
<1>7. SpinnerInv'
  BY <1>2, <1>4 DEF SpinnerInv
<1>8. DownloadKeepsItsName'
  BY <1>1, <1>2, <1>6, NoNameStep
<1>9. upload' \in [Picks -> UploadStates]
  BY <1>2, <1>3 DEF UploadStates
<1>10. \A k \in Tasks : pc[k] \in {"fetching", "fetched"} => target[k] \in Files
  BY <1>1 DEF TargetInv
<1>11. CASE ~ LastOfBatch(f)
  <2>1. pc' = pc /\ latest' = latest
    BY <1>11 DEF FinishUpload
  <2>2. TypeOK'
    BY <1>1, <1>2, <1>9, <2>1 DEF TypeOK
  <2>3. UploadInv'
    <3>1. ASSUME NEW g \in Picks
          PROVE  /\ upload'[g] \in {"none", "sent"} => server[g] = "none"
                 /\ upload'[g] \in {"stored", "acked"} => server[g] # "none"
                 /\ upload'[g] \in Sent \cup {"acked"} => batch[g] \in Tasks
                 /\ upload'[g] \in Sent => pc[batch[g]] = "uploading"
                 /\ batch[g] \in Tasks => pc[batch[g]] # "idle" /\ target[batch[g]] = None
      <4>1. CASE g = f
        BY <1>2, <1>4, <1>5, <4>1 DEF Sent
      <4>2. CASE g # f
        BY <1>1, <1>4, <4>2 DEF UploadInv
      <4>3. QED BY <4>1, <4>2
    <3>2. QED BY <1>2, <2>1, <3>1 DEF UploadInv
  <2>4. TargetInv'
    BY <1>1, <1>2, <1>6, <2>1, AllKeepTargets
  <2>5. NothingNew
    <3>1. ASSUME NEW g \in Picks, upload'[g] = "acked", pc[batch[g]] # "uploading"
          PROVE  upload[g] = "acked"
      BY <1>4, <1>5, <3>1
    <3>2. QED BY <1>2, <2>1, <3>1 DEF NothingNew
  <2>6. ListInv' /\ FreshWhenInOrder'
    BY <1>1, <1>2, <1>6, <1>10, <2>1, <2>5, QuietStep
  <2>7. QED BY <1>7, <1>8, <2>2, <2>3, <2>4, <2>6 DEF PageInv
<1>12. CASE LastOfBatch(f)
  <2>1. pc' = [pc EXCEPT ![batch[f]] = "loading"] /\ latest' = batch[f]
    BY <1>12 DEF FinishUpload, StartLoad, Goto
  <2>2. pc'[batch[f]] = "loading" /\ \A k \in Tasks \ {batch[f]} : pc'[k] = pc[k]
    BY <1>3, <1>5, <2>1
  <2>3. TypeOK'
    <3>1. pc' \in [Tasks -> Labels]
      BY <1>3, <2>1 DEF Labels
    <3>2. QED BY <1>1, <1>2, <1>5, <1>9, <2>1, <3>1 DEF TypeOK
  <2>4. UploadInv'
    <3>1. ASSUME NEW g \in Picks
          PROVE  /\ upload'[g] \in {"none", "sent"} => server[g] = "none"
                 /\ upload'[g] \in {"stored", "acked"} => server[g] # "none"
                 /\ upload'[g] \in Sent \cup {"acked"} => batch[g] \in Tasks
                 /\ upload'[g] \in Sent => pc'[batch[g]] = "uploading"
                 /\ batch[g] \in Tasks => pc'[batch[g]] # "idle" /\ target[batch[g]] = None
      <4>1. CASE g = f
        BY <1>2, <1>4, <1>5, <2>2, <4>1 DEF Sent
      <4>2. CASE g # f
        <5>1. upload[g] \in Sent => batch[g] # batch[f]
          BY <1>12, <4>2 DEF LastOfBatch
        <5>2. batch[g] \in Tasks => pc'[batch[g]] # "idle"
          BY <1>1, <2>2 DEF UploadInv
        <5>3. upload[g] \in Sent => pc'[batch[g]] = "uploading"
          BY <1>1, <2>2, <5>1 DEF UploadInv
        <5>4. QED BY <1>1, <1>4, <4>2, <5>2, <5>3 DEF UploadInv
      <4>3. QED BY <4>1, <4>2
    <3>2. QED BY <1>2, <3>1 DEF UploadInv
  <2>5. TargetInv'
    <3>1. TargetAt(batch[f])'
      BY <1>1, <1>2, <1>5, <2>2 DEF TargetInv, TargetAt
    <3>2. QED BY <1>1, <1>2, <1>5, <1>6, <2>2, <3>1, OthersKeepTargets
  <2>6. ListInv' /\ FreshWhenInOrder'
    BY <1>1, <1>2, <1>5, <1>6, <1>10, <2>1, LoadStep
  <2>7. QED BY <1>7, <1>8, <2>3, <2>4, <2>5, <2>6 DEF PageInv
<1>13. QED BY <1>11, <1>12

-----------------------------------------------------------------------------
(* The page *)

LEMMA InitInv == Init => PageInv
<1>1. SUFFICES ASSUME Init PROVE PageInv
  OBVIOUS
<1>2. TypeOK
  BY <1>1 DEF Init, TypeOK, Labels, Outcomes, UploadStates, Tasks
<1>3. UploadInv
  BY <1>1, PageAssumption, SetFacts DEF Init, UploadInv, Sent
<1>4. TargetInv
  BY <1>1 DEF Init, TargetInv
<1>5. ListInv
  BY <1>1, SetFacts DEF Init, ListInv, Tasks
<1>6. SpinnerInv
  BY <1>1 DEF Init, SpinnerInv, Sent
<1>7. FreshWhenInOrder /\ DownloadKeepsItsName
  BY <1>1, SetFacts DEF Init, FreshWhenInOrder, DownloadKeepsItsName
<1>8. QED BY <1>2, <1>3, <1>4, <1>5, <1>6, <1>7 DEF PageInv

LEMMA StepInv == PageInv /\ [Next]_vars => PageInv'
<1>1. SUFFICES ASSUME PageInv, [Next]_vars PROVE PageInv'
  OBVIOUS
<1>2. CASE User
  <2>1. ASSUME NEW h \in Handlers, NEW S \in SUBSET Picks, SelectTooMany(h, S) PROVE PageInv'
    BY <1>1, <2>1, SelectTooManyStep
  <2>2. ASSUME NEW h \in Handlers, NEW S \in SUBSET Picks, OnFileSelected(h, S) PROVE PageInv'
    BY <1>1, <2>2, OnFileSelectedStep
  <2>3. ASSUME NEW h \in Handlers, NEW f \in Files, DeleteFile(h, f) PROVE PageInv'
    BY <1>1, <2>3, DeleteFileStep
  <2>4. ASSUME NEW h \in Handlers, NEW f \in Files, DownloadFile(h, f) PROVE PageInv'
    BY <1>1, <2>4, DownloadFileStep
  <2>5. ASSUME NEW f \in Elsewhere, DeletedElsewhere(f) PROVE PageInv'
    BY <1>1, <2>5, DeletedElsewhereStep
  <2>6. QED BY <1>2, <2>1, <2>2, <2>3, <2>4, <2>5 DEF User
<1>3. ASSUME NEW h \in Tasks, Run(h) PROVE PageInv'
  BY <1>1, <1>3, ServeListStep, ReceiveListStep, ServeDeleteStep, FinishDeleteStep,
     ServeDownloadStep, FinishDownloadStep DEF Run
<1>4. ASSUME NEW f \in Picks, RunUpload(f) PROVE PageInv'
  BY <1>1, <1>4, ServeUploadStep, FinishUploadStep DEF RunUpload
<1>5. CASE UNCHANGED vars
  BY <1>1, <1>5 DEF vars, uploadVars, loadVars, listVars, PageInv, TypeOK, UploadInv,
     TargetInv, ListInv, SpinnerInv, FreshWhenInOrder, DownloadKeepsItsName, Fresh
<1>6. QED BY <1>1, <1>2, <1>3, <1>4, <1>5 DEF Next

\* The inductive invariant of the page.
THEOREM PageInvariance == Spec => []PageInv
<1>1. QED BY InitInv, StepInv, PTL DEF Spec

\* The list on screen shows every upload and delete the user was told of, when
\* it is the answer to the load started last (LoadFiles, FileManager.razor).
THEOREM LatestListIsFresh == Spec => []FreshWhenInOrder
<1>1. PageInv => FreshWhenInOrder
  BY DEF PageInv
<1>2. QED BY <1>1, PageInvariance, PTL

\* A selection under way has the spinner on, and only the end of an upload takes
\* it off (UploadSingleFile, FileManager.razor).
THEOREM SpinnerIsTrue == Spec => SpinnerTruth
<1> DEFINE Truth ==
        /\ (\E f \in Picks : Begins(f)) /\ ~(\E f \in Picks : Ends(f)) => isUploading'
        /\ isUploading /\ ~isUploading' => \E f \in Picks : Ends(f)
<1>1. ASSUME PageInv, NEW h \in Handlers, NEW S \in SUBSET Picks, OnFileSelected(h, S)
      PROVE  Truth
  <2>1. /\ \A f \in S : upload[f] = "none"
        /\ upload' = [f \in Picks |-> IF f \notin S THEN upload[f]
                                      ELSE IF f \in Unsendable THEN "error" ELSE "sent"]
        /\ isUploading' = IF S = {} THEN isUploading ELSE S \cap Unsendable = {}
    BY <1>1 DEF OnFileSelected, SpinnerFor
  <2>2. upload \in [Picks -> UploadStates] /\ isUploading \in BOOLEAN
    BY <1>1 DEF PageInv, TypeOK
  <2>3. CASE S = {}
    <3>1. isUploading' = isUploading /\ \A f \in Picks : upload'[f] = upload[f]
      BY <2>1, <2>2, <2>3
    <3>2. QED BY <3>1 DEF Begins, Sent
  <2>4. CASE S # {} /\ S \cap Unsendable = {}
    BY <2>1, <2>4
  <2>5. CASE S \cap Unsendable # {}
    <3>1. PICK g \in S : g \in Unsendable
      BY <2>5
    <3>2. g \in Picks /\ upload'[g] = "error" /\ upload[g] = "none"
      BY <2>1, <3>1
    <3>3. QED BY <3>2 DEF Ends
  <2>6. QED BY <2>3, <2>4, <2>5
<1>2. ASSUME PageInv, NEW f \in Picks, FinishUpload(f) PROVE Truth
  <2>1. upload[f] \in {"stored", "failed"} /\ upload'[f] \in {"acked", "error"}
    <3>1. upload \in [Picks -> UploadStates]
      BY <1>2 DEF PageInv, TypeOK
    <3>2. QED BY <1>2, <3>1 DEF FinishUpload, Sent
  <2>2. QED BY <2>1 DEF Ends
<1>3. ASSUME PageInv, NEW f \in Picks, ServeUpload(f) PROVE Truth
  <2>1. upload \in [Picks -> UploadStates]
    BY <1>3 DEF PageInv, TypeOK
  <2>2. isUploading' = isUploading /\ \A g \in Picks \ {f} : upload'[g] = upload[g]
    BY <1>3, <2>1 DEF ServeUpload
  <2>3. upload[f] # "none"
    BY <1>3 DEF ServeUpload
  <2>4. QED BY <2>2, <2>3 DEF Begins, Sent
<1>4. ASSUME UNCHANGED <<isUploading, upload>> PROVE Truth
  BY <1>4 DEF Begins, Sent
<1>5. ASSUME PageInv, [Next]_vars PROVE Truth
  <2>1. CASE User
    <3>1. ASSUME NEW h \in Handlers, NEW S \in SUBSET Picks, SelectTooMany(h, S)
          PROVE  Truth
      BY <1>4, <3>1 DEF SelectTooMany, uploadVars
    <3>2. ASSUME NEW h \in Handlers, NEW f \in Files, DeleteFile(h, f) \/ DownloadFile(h, f)
          PROVE  Truth
      BY <1>4, <3>2 DEF DeleteFile, DownloadFile, uploadVars
    <3>3. ASSUME NEW f \in Elsewhere, DeletedElsewhere(f) PROVE Truth
      BY <1>4, <3>3 DEF DeletedElsewhere, uploadVars
    <3>4. QED BY <1>1, <1>5, <2>1, <3>1, <3>2, <3>3 DEF User
  <2>2. ASSUME NEW h \in Tasks, Run(h) PROVE Truth
    BY <1>4, <2>2 DEF Run, ServeList, ReceiveList, ServeDelete, FinishDelete,
       ServeDownload, FinishDownload, uploadVars
  <2>3. ASSUME NEW f \in Picks, RunUpload(f) PROVE Truth
    BY <1>2, <1>3, <1>5, <2>3 DEF RunUpload
  <2>4. CASE UNCHANGED vars
    BY <1>4, <2>4 DEF vars, uploadVars
  <2>5. QED BY <1>5, <2>1, <2>2, <2>3, <2>4 DEF Next
<1>6. PageInv /\ [Next]_vars => [Truth]_vars
  BY <1>5
<1>7. QED BY <1>6, PageInvariance, PTL DEF Spec, SpinnerTruth

\* A download is saved under its own name unless the row was deleted or a list
\* was lost or out of order (DownloadFile, FileManager.razor).
THEOREM DownloadsKeepNames == Spec => []DownloadKeepsItsName
<1>1. PageInv => DownloadKeepsItsName
  BY DEF PageInv
<1>2. QED BY <1>1, PageInvariance, PTL
-----------------------------------------------------------------------------
(* What HandlersFinish says besides the scheduling *)

\* No Task.WhenAll waits for nothing: a handler that is at it has an upload of
\* its own that has not ended.
UploadsAreAwaited ==
    \A h \in Tasks : pc[h] = "uploading" =>
        \E f \in Picks : batch[f] = h /\ upload[f] \in Sent

\* A handler begins to wait only in OnFileSelected, and the last of its uploads
\* to end takes it out of there.
LEMMA AwaitedStep ==
  ASSUME PageInv, UploadsAreAwaited, [Next]_vars
  PROVE  UploadsAreAwaited'
<1> USE DEF UploadsAreAwaited, Goto
<1>1. /\ pc \in [Tasks -> Labels] /\ upload \in [Picks -> UploadStates]
      /\ batch \in [Picks -> Tasks \cup {None}]
  BY DEF PageInv, TypeOK
<1>2. ASSUME NEW h \in Tasks, NEW label, label # "uploading",
             pc' = [pc EXCEPT ![h] = label], UNCHANGED <<upload, batch>>
      PROVE  UploadsAreAwaited'
  BY <1>1, <1>2
<1>3. CASE User
  <2>1. ASSUME NEW h \in Handlers, NEW S \in SUBSET Picks, OnFileSelected(h, S)
        PROVE  UploadsAreAwaited'
    <3>1. /\ \A f \in S : upload[f] = "none" /\ batch'[f] = h
          /\ \A f \in S \ Unsendable : upload'[f] = "sent"
          /\ \A f \in Picks \ S : upload'[f] = upload[f] /\ batch'[f] = batch[f]
      BY <2>1 DEF OnFileSelected
    <3>2. /\ \A k \in Tasks \ {h} : pc'[k] = pc[k]
          /\ pc'[h] = "uploading" => ~ S \subseteq Unsendable
      BY <1>1, <2>1 DEF OnFileSelected, StartLoad, Tasks
    <3>3. ASSUME NEW k \in Tasks \ {h}, pc'[k] = "uploading"
          PROVE  \E f \in Picks : batch'[f] = k /\ upload'[f] \in Sent
      <4>1. PICK f \in Picks : batch[f] = k /\ upload[f] \in Sent
        BY <3>2, <3>3
      <4>2. f \notin S
        BY <3>1, <4>1 DEF Sent
      <4>3. QED BY <3>1, <4>1, <4>2
    <3>4. QED BY <3>1, <3>2, <3>3 DEF Sent
  <2>2. ASSUME NEW h \in Handlers, NEW S \in SUBSET Picks, SelectTooMany(h, S)
        PROVE  UploadsAreAwaited'
    BY <1>2, <2>2 DEF SelectTooMany, uploadVars, Tasks
  <2>3. ASSUME NEW h \in Handlers, NEW f \in Files, DeleteFile(h, f) \/ DownloadFile(h, f)
        PROVE  UploadsAreAwaited'
    BY <1>2, <2>3 DEF DeleteFile, DownloadFile, uploadVars, Tasks
  <2>4. ASSUME NEW f \in Elsewhere, DeletedElsewhere(f) PROVE UploadsAreAwaited'
    BY <2>4 DEF DeletedElsewhere, uploadVars
  <2>5. QED BY <1>3, <2>1, <2>2, <2>3, <2>4 DEF User
<1>4. ASSUME NEW h \in Tasks, Run(h) PROVE UploadsAreAwaited'
  BY <1>2, <1>4 DEF Run, ServeList, ReceiveList, ServeDelete, FinishDelete,
     ServeDownload, FinishDownload, StartLoad, uploadVars
<1>5. ASSUME NEW f \in Picks, ServeUpload(f) PROVE UploadsAreAwaited'
  BY <1>1, <1>5 DEF ServeUpload, Sent
<1>6. ASSUME NEW f \in Picks, FinishUpload(f) PROVE UploadsAreAwaited'
  <2>1. UNCHANGED batch /\ \A g \in Picks \ {f} : upload'[g] = upload[g]
    BY <1>1, <1>6 DEF FinishUpload
  <2>2. batch[f] \in Tasks
    BY <1>6 DEF FinishUpload, PageInv, UploadInv
  <2>3. CASE LastOfBatch(f)
    <3>1. pc'[batch[f]] = "loading" /\ \A k \in Tasks \ {batch[f]} : pc'[k] = pc[k]
      BY <1>1, <1>6, <2>2, <2>3 DEF FinishUpload, StartLoad
    <3>2. QED BY <2>1, <3>1
  <2>4. CASE ~ LastOfBatch(f)
    <3>1. PICK g \in Picks \ {f} : batch[g] = batch[f] /\ upload[g] \in Sent
      BY <2>4 DEF LastOfBatch
    <3>2. UNCHANGED pc
      BY <1>6, <2>4 DEF FinishUpload
    <3>3. ASSUME NEW k \in Tasks, pc'[k] = "uploading"
          PROVE  \E e \in Picks : batch'[e] = k /\ upload'[e] \in Sent
      <4>1. PICK e \in Picks : batch[e] = k /\ upload[e] \in Sent
        BY <3>2, <3>3
      <4>2. QED BY <2>1, <3>1, <4>1
    <3>4. QED BY <3>3
  <2>5. QED BY <2>3, <2>4
<1>7. CASE UNCHANGED vars
  BY <1>7 DEF vars, uploadVars
<1>8. QED BY <1>3, <1>4, <1>5, <1>6, <1>7 DEF Next, RunUpload

\* No selection waits for ever on uploads that have all ended, however they
\* ended and whichever other selections were made meanwhile.
THEOREM NoSelectionHangs == Spec => []UploadsAreAwaited
<1>1. Init => UploadsAreAwaited
  BY DEF Init, UploadsAreAwaited
<1>2. PageInv /\ UploadsAreAwaited /\ [Next]_vars => UploadsAreAwaited'
  BY AwaitedStep
<1>3. QED BY <1>1, <1>2, PageInvariance, PTL DEF Spec

\* Bounds on the steps that a handler and an upload have left.
StepsLeft(h) ==
    CASE pc[h] = "deleting"                         -> 4
      [] pc[h] \in {"uploading", "deleted"}         -> 3
      [] pc[h] \in {"loading", "fetching"}          -> 2
      [] pc[h] \in {"answered", "failed", "undeleted", "fetched"} -> 1
      [] OTHER                                      -> 0

UploadStepsLeft(f) ==
    CASE upload[f] = "sent"               -> 2
      [] upload[f] \in {"stored", "failed"} -> 1
      [] OTHER                            -> 0

\* Handlers and uploads that have begun only get closer to their ends.
PageAdvances ==
    [][/\ \A h \in Tasks : pc[h] # "idle" /\ pc'[h] # pc[h] =>
             StepsLeft(h)' < StepsLeft(h)
       /\ \A f \in Picks : upload[f] # "none" /\ upload'[f] # upload[f] =>
             UploadStepsLeft(f)' < UploadStepsLeft(f)]_vars

LEMMA PageAdvanceStep ==
  ASSUME PageInv, Next
  PROVE  /\ \A h \in Tasks : pc[h] # "idle" /\ pc'[h] # pc[h] =>
                StepsLeft(h)' < StepsLeft(h)
         /\ \A f \in Picks : upload[f] # "none" /\ upload'[f] # upload[f] =>
                UploadStepsLeft(f)' < UploadStepsLeft(f)
<1> USE DEF Goto, StepsLeft, UploadStepsLeft
<1> DEFINE Advances == /\ \A h \in Tasks : pc[h] # "idle" /\ pc'[h] # pc[h] =>
                              StepsLeft(h)' < StepsLeft(h)
                       /\ \A f \in Picks : upload[f] # "none" /\ upload'[f] # upload[f] =>
                              UploadStepsLeft(f)' < UploadStepsLeft(f)
<1>1. /\ pc \in [Tasks -> Labels] /\ upload \in [Picks -> UploadStates]
  BY DEF PageInv, TypeOK
<1>2. CASE User
  <2>1. ASSUME NEW h \in Handlers, NEW S \in SUBSET Picks, OnFileSelected(h, S)
        PROVE  Advances
    BY <1>1, <2>1 DEF OnFileSelected, StartLoad
  <2>2. ASSUME NEW h \in Handlers, NEW S \in SUBSET Picks, SelectTooMany(h, S)
        PROVE  Advances
    BY <1>1, <2>2 DEF SelectTooMany, uploadVars
  <2>3. ASSUME NEW h \in Handlers, NEW f \in Files, DeleteFile(h, f) \/ DownloadFile(h, f)
        PROVE  Advances
    BY <1>1, <2>3 DEF DeleteFile, DownloadFile, uploadVars
  <2>4. ASSUME NEW f \in Elsewhere, DeletedElsewhere(f) PROVE Advances
    BY <2>4 DEF DeletedElsewhere, uploadVars
  <2>5. QED BY <1>2, <2>1, <2>2, <2>3, <2>4 DEF User
<1>3. ASSUME NEW h \in Tasks, Run(h) PROVE Advances
  BY <1>1, <1>3 DEF Run, ServeList, ReceiveList, ServeDelete, FinishDelete,
     ServeDownload, FinishDownload, StartLoad, uploadVars
<1>4. ASSUME NEW f \in Picks, ServeUpload(f) PROVE Advances
  BY <1>1, <1>4 DEF ServeUpload
<1>5. ASSUME NEW f \in Picks, FinishUpload(f) PROVE Advances
  <2>1. pc[batch[f]] = "uploading"
    BY <1>5 DEF FinishUpload, PageInv, UploadInv
  <2>2. QED BY <1>1, <1>5, <2>1 DEF FinishUpload, StartLoad, Sent
<1>6. QED BY <1>2, <1>3, <1>4, <1>5 DEF Next, RunUpload

\* With NoSelectionHangs: every handler ends after finitely many steps, of its
\* own or of its uploads, as long as calls are answered and handlers resumed.
THEOREM PageHandlersAreFinite == Spec => PageAdvances
<1>1. PageInv /\ [Next]_vars =>
      [/\ \A h \in Tasks : pc[h] # "idle" /\ pc'[h] # pc[h] =>
             StepsLeft(h)' < StepsLeft(h)
       /\ \A f \in Picks : upload[f] # "none" /\ upload'[f] # upload[f] =>
             UploadStepsLeft(f)' < UploadStepsLeft(f)]_vars
  BY PageAdvanceStep
<1>2. QED BY <1>1, PageInvariance, PTL DEF Spec, PageAdvances
=============================================================================
