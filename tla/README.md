# Secure File Storage: TLA+ models and proofs

This directory holds TLA+ models of the secure file storage service in `src/`,
the TLC configurations that check them, and TLAPS proofs of their main
properties. The reference is the code: every definition is translated from the
lines that `PROJECT.json` ("map") names for it.

## 1. Inventory of the system

The service is an ASP.NET Core API over PostgreSQL and a storage directory, with
a Blazor WebAssembly client. It is a single process; each HTTP request runs its
handler on the thread pool with its own `DbContext`, and there is no lock and no
database transaction around a handler: every `await` is a point where any other
request may run.

| Component | State it keeps | Operations |
| --- | --- | --- |
| File endpoints (`SecureFilesController`, `FileService`, `FileRepository`) | `SecureFiles` rows (owner, `IsDeleted`) | upload, list, download, delete |
| Storage directory (`StorageService`) | one file per upload | write, read, secure delete (probe, 3 overwrites, unlink) |
| Audit (`AuditService`) | `FileAuditLogs`, `UserAuditLogs`, with foreign keys | log a file operation, a security event, a user event |
| Permissions (`PermissionService`) | `FilePermissions` | access, share and delete checks, grant |
| Sharing (`SharingService`) | share tokens in the distributed cache | create link, validate token |
| Encryption (`MultiLayerEncryptionService`) | none | AES-CBC, XOR layer, SHA-512 check |
| Key management (`KeyManagementService`, `AuthController.EncryptPrivateKey`) | `Users.EncryptedPrivateKey`, wrapped file keys | wrap, unwrap, share a file key |
| Accounts (`AuthController`, `UserRepository`) | `Users` with two unique indexes | register, login |
| File page (`FileManager.razor`, client `FileService`) | the displayed list, spinner and progress, the share form | load, upload a selection, download, delete, share |
| Browser helpers (`wwwroot/js/fileHelpers.js`) | toasts, the drop zone's mark, an interval timer, Bootstrap dialogs | save a download, show and hide dialogs, toasts, animation, simulated progress |
| Client session (`AuthService`, `AuthStateProvider`, ...) | the token in local storage | login, logout |
| Hosting (`Program.cs`, `AuditMiddleware`) | rate limiter windows (framework) | configuration, migration at start |
| HSM service, key repository | none | called by nothing |

How they interact: the client calls the API; the file endpoints call encryption,
storage, repository and audit in sequence; encryption calls key management,
permissions, repository, storage and audit again. All communication between
requests goes through the database tables and the storage directory. In the
browser the page's handlers share the fields of the page; they run one at a time
but interleave at every `await`, and the helpers are JavaScript functions they
call, with timers and transition events of their own.

What is hard: the two stores are updated one after the other without a
transaction, so (a) concurrent requests on one file see every intermediate
state, (b) an exception or a restart leaves whatever was done so far, and
nothing is ever replayed or rolled back, (c) checks are made on values that may
be stale when they are used (`File.Exists`, the tracked entity, the uniqueness
checks of a registration). In the client, (d) answers arrive in any order and
are applied to whatever the page shows by then, and (e) two runtimes must agree
on the form in which bytes pass between them. `PROJECT.json` ("hazards") lists
these places.

## 2. Modules

| Module | Models | Theorems |
| --- | --- | --- |
| `FileRecord` | the abstract promise about one file: one row, one write window, no way back | |
| `FileVault` | upload, download and delete as interleaved handler steps, with exceptions, torn writes and restarts | `FileVaultProofs` |
| `AccountDirectory` | the abstract promise of registration and login: unique, permanent accounts, and final admissions | |
| `Accounts` | registration and login as interleaved handler steps | `AccountsProofs` |
| `KeyVault` | the key envelopes, with symbolic cryptography | in `FileCryptoProofs` |
| `LayeredCipher` | PKCS7, CBC and the XOR layer on the bytes of a file, as operators | `LayeredCipherProofs` |
| `FileCrypto` | stored files: `KeyVault` and `LayeredCipher` composed | `FileCryptoProofs` |
| `Sharing` | share tokens and permission rows, with expiry, eviction, exceptions and restarts | `SharingProofs` |
| `FileManager` | the file page: list, uploads, downloads and deletes as interleaved handlers | `FileManagerProofs` |
| `ShareDialog` | the share handlers with `showModal`, `hideModal` and the dialog's transitions | `ShareDialogProofs` |
| `FileHelpers` | every other function of `fileHelpers.js` | `FileHelpersProofs` |
| `MCFileVault`, `MCAccounts`, `MCFileCrypto`, `MCFileHelpers` | symmetry sets and data of the small instances | |

### FileVault

`rows` and `owner` are the `SecureFiles` table, `blobs` the storage directory,
`audit` the `FileAuditLogs` table. A file stands for the Guids one upload draws
(row id and storage name). Each request slot is one HTTP request: `op`, `caller`
and `target` are what it asks, `pc` is the step its handler is about to take or
the answer it got (`ok` 200, `noContent` 204, `bad` 400, `refused` for
`Forbid`, `notFound` 404, `error` 500, `lost` when the process died).
`Forbid("...")` names an authentication scheme that is not registered, so the
client really sees a 500 there; the model keeps the controller's own result.

A step is what a handler does between two awaits on something shared: one query,
one `SaveChangesAsync`, one call on a file.

    upload    upSave -> upWrite (-> upWriting) -> upLog -> ok
    download  dlAccess -> dlMeta -> dlLoad -> dlRead -> dlDecrypt -> dlLog -> ok
    delete    delFind -> delLoad -> delExists -> delWipe (x Passes) -> delUnlink
              -> delMark -> delLog -> noContent

Faults: `Throw` (any await of a handler may throw, and the catch block answers
500 without undoing anything; this covers sharing violations between requests
that have the same file open), `TornWrite` (a write of bytes fails half way) and
`Crash` (all requests in flight are lost; each write in progress may leave a torn
file).

`File.WriteAllBytesAsync` opens with `FileShare.Read`, which does not mean the same
everywhere. On Windows nobody else can open the file for writing meanwhile (the
attempt is a `Throw`), and the write of a whole file is one step,
`SaveEncryptedFile`. On Linux and macOS this share mode excludes nobody, and
the upload's write is two, `BeginWrite`, which truncates, and `FinishWrite`. In
between a delete may overwrite the file (a mixture of both, or whichever comes
last) or unlink it (the bytes go to a file that has no name any more). `exclusive`,
chosen at the start and never changed, says which of the two the system is; the
upload may take the single step on both. The passes of a delete stay single
steps: whatever they interleave with, another delete or an upload, what they
leave is random bytes or, last, what the upload wrote.

`Passes` is 3 in the code. `Unwraps` is the set of users whose private key the
key management service recovers: the intended service recovers every key, the
shipped one none (see KeyVault). The runs let one user of two be in it, so that
both outcomes occur.

### Accounts

`users` is the set of stored accounts (an account is named by the request that
registered it), `events` is `UserAuditLogs`, `lastLogin` the login whose time the
row holds. The checks, the insert with its unique indexes, the update and the
event of a handler are separate steps. Registration: `regName -> regEmail ->
regCreate -> regLog -> ok`; login: `logFind -> logStamp -> logSuccess -> ok`, or
`logFind -> logFailed -> refused`. A name or email found by a check is answered
`taken` (400); one that only the unique index finds is answered `conflict`, a 500
from the catch block. `LoserHasWinner` is about both.

### AccountDirectory

`accounts`, what each request presented (`name`, `email`, `password`) and the
account it was let in as (`holder`); no handlers, events, tokens or faults. A
request presents itself once, may enter as an account whose name and email are
new, and may be admitted as an account whose name and password it presented.
`Accounts` implements it with `accounts <- users` and `holder <- Holder`, the
subject of the token of a request answered `ok`; the other steps of the handlers,
exceptions and restarts stutter. A request that the model stops before its body is
read (`RegisterInvalid`, `LoginInvalid`) presents nothing.

### KeyVault

A derived key is the tuple it is derived from and a ciphertext opens with exactly
the key that made it; anything else decrypts to `Garbage`, which no parser
accepts. The columns are written once, so every operation is one step.

### LayeredCipher and FileCrypto

AES on one block, its inverse and the XOR of two bytes are constants, assumed to
be what they are in any block cipher: a permutation of blocks under each key, and
an operation that undoes itself. A padded file is a sequence of blocks. The
module defines what `TransformFinalBlock` does in both directions (padding of one
to `BlockLen` bytes, the chain, the check of the padding) and the two loops over
`chachaKey`. `FileCrypto` extends `KeyVault` by what an upload stores:
`EncryptFile` is the step `WrapFileKey` together with the layers under fresh
keys; `stored[f]` is its `EncryptionResult`.

### Sharing

A share is one call of `CreateShareLinkAsync`, `pc` says where it is (`caching`,
then `granting`), `cache` is the set of calls whose token Redis holds and
`permissions` the table of rows, each with its own user, file, flags and expiry
(`FilePermission`), which `GrantPermission` makes of the call's arguments
(`NewRow`). The checks of `PermissionService` look only at the rows.
`FirstOrDefault` over a user's rows is any of them, so the checks are predicates of
two kinds: what they may grant (`MayAccess`, `MayShare`, `MayDelete`) and what they
may deny (`MayBeDenied`). `CacheToken` fails when the expiry is not in the future, `GrantPermission` when the permission
is no `PermissionType` ("ReadWrite", which the page offers, is none). Tokens are
evicted, files deleted and calls cut off at any time.

### FileManager

A task is one event handler (or `OnInitializedAsync`), `pc` the call it awaits or
the answer it got: `loading -> answered | failed -> done` for a `LoadFiles`;
before it `uploading`, or `deleting -> deleted`, which lead to one; and
`fetching -> fetched -> done` for a download. A delete is answered 204 also when
another one has marked its row first. `server` is the user's rows as the
API lists them, `upload` and `batch` say how far each upload is and which
selection it belongs to. Between its two ends a call is served at any moment, and
it may fail before or after it took effect. `shown`, `inOrder` and `outcome` are
history variables for the properties. An upload that cannot be sent (too large,
no content type) fails at once; its `finally` runs when the loop of
`OnFileSelected` is over, before any answer. `HandleDrop` only resets a CSS flag.

### ShareDialog

`dialog` is the state of the Bootstrap modal, whose `hide` ignores calls during a
transition; `form` stands for the three bound fields, represented by the file
they were filled in for. `showModal` makes a new `Modal` on the element, `hideModal`
uses the element's last one. The button of a row can be reached, by keyboard at
least, whenever the dialog is not fully shown. The API has no share route, so that the shipped
server answers every request 404; the model takes both answers.

### FileHelpers

One action per function, one per event it listens to, one per timer it sets.
The file list calls `downloadFile` and the login page `showToast`; `showModal` and
`hideModal` are in ShareDialog. The drop zone, the badges and the simulated
progress are called by no page; they are modelled as the functions they are.

Strings are sequences over the base64 alphabet, "=" and ","; `Atob` is the decoder
of the HTML standard. `Argument` is what reaches it: a `byte[]` arrives in
JavaScript as a `Uint8Array`, whose string is its elements separated by commas.

Progress is kept as the number of ticks and the last report. The code adds up
doubles, so that whether the sum has reached 100 at a tick at which the exact sum
does is left open (`SumMayBe`: for 50000 ms a thousand increments of 0.1 stay just
below 100, for 3000 ms the sixty do not), and so is the side to which a half is
rounded (`Rounded`). Away from whole numbers and halves the error decides nothing
for durations up to `Precise`, 40,000,000 ms or eleven hours: it is smaller than
the least distance of an exact sum from one.

### FileRecord

`row`, `bytes` and `window` (files whose one write is not over). In the window the
bytes may be shredded and may still come; after it they can only be lost. Its step
relates each file's state to its next one, so that a restart, which closes
several windows, is a single step. `FileVault` implements it with
`window <- PendingWrites`, the files whose upload is about to write or writing.

## 3. Runs

| Run | Instance | Shows |
| --- | --- | --- |
| `vault` | 1 file, 3 requests, 2 users, 2 passes, exclusive writes and others, all faults, fair handlers | `VaultInv` (includes `TypeOK`), `AckedUploadSurvives`, `WipeIsFinal`, `NoUnreferencedBytes`, `ServedIntact`, `SuccessIsAudited`, `ImplementsFileRecord`, `EveryRequestAnswered`, `OwnerDeleteTakesEffect` |
| `vault_malware` | 2 requests, no faults | violated: `MalwareIsLogged` |
| `vault_orphan` | 3 requests, no faults | violated: `DeletedLeavesNoCiphertext` |
| `accounts` | 3 requests, 2 names, 2 emails, 2 passwords, all faults, fair handlers | `AccountsInv`, `OneAccountPerName`, `LoserHasWinner`, `TokenIsAuthentic`, `AuthenticationIsAudited`, `StoredAccountCanLogIn`, `ImplementsDirectory` |
| `accounts_roles` | 2 requests, no faults | violated: `TokensCarryRole` |
| `keys` | 2 users, 2 passwords, 2 files, contents of 0 to 6 bytes, blocks of 3 | `DecryptKeyAlwaysThrows`, `StoredFileOpensForOwner` |
| `keys_owner` | the users, passwords and files of `keys` | violated: `OwnerRecoversFileKey` |
| `sharing` | 2 calls, 1 file, an owner and 2 users, 4 permissions, times 0 to 2 | `SharingInv`, `ReturnedTokenHasGrant`, `ReturnedTokenGrantsAccess`, `RightsComeFromShares`, `ExpiredShareIsDead`, `NoShareRevives` |
| `page` | 1 stored file, 3 picks, 2 events and the first load, fair handlers | `PageInv`, `FreshWhenInOrder`, `SpinnerTruth`, `DownloadKeepsItsName`, `HandlersFinish` |
| `share_dialog` | 2 files, 3 confirmations, fair transitions and handlers | `DialogInv`, `ShareIsForItsFile`, `SuccessClosesDialog` |
| `helpers` | 2 toasts, 2 badges, 2 contents, durations 0, 20, 80 and 150 ms | `TypeOK`, `HighlightMeansDrag`, `ProgressEndsAt100`, `ProgressOnlyAdvances`, `ProgressEnds`, `ToastIsRemoved` |
| `helpers_download` | the same with 4 contents | violated: `SavedFileIsTheContent` |

Bounds of the server runs. Requests meet only through the file they name, so one
file shows every conflict of two requests; three are an upload with two deletes
(one re-creating what the other unlinked), or with a delete and a download. That
no more of them, no second file and no third pass changes anything is what the
proofs add: every safety property of `vault` and `accounts` is proved for all
values of the constants. Two names and two emails let two registrations agree on
either, both or neither. In `sharing`, two calls with an expiry of none or any of
three times give a user two rows of which one has expired, and a default life of
one unit lets a token without an expiry run out as well; the permissions are one
that reads, one that does not, one of several flags and one that does not parse.

Bounds of the client runs. Two handlers and the first load are three calls of
`LoadFiles` whose answers can come in any order; three picks are a selection of
two, one that is too large (`MaxFiles` is 2, 10 in the code) and one that cannot
be sent. Each pick is sent once. The contents of `helpers_download` are the empty
one, one whose string decodes to something else and two that `atob` refuses; the
durations are zero, less than a tick, not a multiple of it and a multiple. The
contents of `keys`
include one that ends like a padding, one that fills its last block and the empty
one; its block cipher is a rotation of the block plus the key.

The symmetry sets, in `vault_orphan` and `accounts_roles`, permute requests or
names that no definition tells apart; only safety is checked there. A request
slot, handler or share is used once, so most systems stop when all are done, and
those configurations turn the deadlock check off; that nothing is stuck before is
`EveryRequestAnswered`, `StoredAccountCanLogIn` and `HandlersFinish`.

Fairness. `FairSpec` gives each handler weak fairness on its own steps: the
thread pool keeps running a handler that has begun, and its awaits complete or
throw. In the client, `HttpClient` answers or throws (after 100 s at the latest),
Blazor resumes the handler, and the browser fires timers and ends transitions.
Nothing is assumed about arrivals, faults, or anything the user does.

### What the violated runs say

* `vault_malware`: the malware event is inserted with `FileId = Guid.Empty`, which
  the foreign key rejects. The event is never stored and the client gets a 500.
* `vault_orphan`: the row of an upload is visible before its bytes are written. A
  delete in that window finds nothing to wipe and marks the row; the upload then
  writes its ciphertext and answers 200. The bytes stay on disk with no way to
  delete them. Where writes are exclusive this is the only way, since a delete that
  did overwrite the file is final (`WipeIsFinal`); elsewhere the upload's bytes may
  also come after the passes of a delete that found the truncated file.
* `accounts_roles`: a login token has no role, unlike the registration token.
* `keys_owner`: `DecryptUserPrivateKey` is not the inverse of `EncryptPrivateKey`,
  so every download of the shipped program ends in a 500. `StoredFileOpensForOwner`
  shows that the stored bytes are not to blame: with the right private key they
  open.
* `helpers_download`: `downloadFile` hands its argument to `atob`. A `byte[]`
  arrives as a `Uint8Array`, so that a download that did get its bytes would still
  fail in the browser.

### What the page's properties do not say

`FreshWhenInOrder` is as strong as it can be: when an older answer comes last, the
list does stay stale until the next load. `SpinnerTruth` says when the spinner goes
off: in no step but one in which an upload ends, and a selection that gets under
way has it on, also a later one. It allows what happens with several uploads: the
first to end hides the spinner of the others. `PageInv` has the other half: with no
upload under way it is off.
`DownloadKeepsItsName` allows "download" only when the row is gone or a list was
lost or out of order. `SuccessClosesDialog` is about a dialog that is shown: one
that is still fading in ignores `hide` and stays, and the dialog that is closed
may be that of another file.

## 4. Proofs

`FileVaultProofs` proves, for every set of users, files and requests and every
number of passes, that `VaultInv` is inductive and hence
`Spec => []VaultInv`, for both values of `exclusive`, and from it the safety properties of run `vault` and the
refinement `Spec => ImplementsFileRecord`. None of the properties is inductive by
itself. For `WipeIsFinal` one has to know that a delete that saw the file on disk
cannot be overtaken by the start of the upload's write (`DeleteInv`), which rests
on bytes appearing only with that one write (`BytesInv`) and on nobody being
between its two steps where writes are exclusive (`ControlInv`); the former rests on one upload per
file (`UploadInv`) and on ids being named only once they exist (`TargetInv`). For
`AckedUploadSurvives`, whatever destroys bytes or marks a row is a delete past its
ownership check, and the owner of a row never changes.

`AccountsProofs` does the same for `AccountsInv`: accounts are never removed and
request bodies never change, so what a handler has learned about an account stays
true; uniqueness is decided at the insert. It then proves the refinement
`Spec => ImplementsDirectory`: `IdleInv` says that who arrives has presented
nothing yet, `QuietStep` which steps stutter, and `AdmitStep` that an answer `ok`
admits its request, with the name and password that `LoginInv` has kept since they
were compared.

`SharingProofs` proves `SharingInv`, which ties the expiry of a token to that of
its call, each column of a row to what its call asked for (`RowInv`), and both to
the step the call has reached. The properties follow from it, since time is part of
the state they read: `RightsComeFromShares`, for one, goes from a right that a
check reads off a row to the call behind the row. So does the action property
`NoShareRevives`: past `CacheToken` nothing adds the token again, rows are neither
changed nor removed, and time does not go back.

Three kinds of theorem go beyond the properties of the runs.

* What an abstract specification allows, its implementation does: `NoFileRevives`
  (rows stay deleted, lost ciphertext stays lost once the upload's write is over)
  is derived from `FileRecord`'s next-state relation and the refinement alone, and
  `AccountsArePermanent` (accounts stay as they were opened, admissions are final)
  from `AccountDirectory`'s with the types of `AccountsInv`.
* What a violated run shows once happens always: `MalwareIsNeverLogged`,
  `LoginsNeverHaveRoles`, `ByteArrayDownloadsFail` and, from `KeysNeverRecovered`
  for `KeyVault`, `ShippedServiceServesNothing` for the instance of `FileVault`
  in which `Unwraps` is empty.
* The part of a liveness property that is not about scheduling:
  `HandlersAreFinite`, `StoredAccountsConclude` and `PageHandlersAreFinite` give
  each handler a bound on the steps it has left that every one of its steps
  decreases; `OwnersDeletesConclude` and `StoredAccountsConclude` say where a
  handler can end, and `NoSelectionHangs` that a selection of the page never waits
  for uploads that have all ended. What remains for TLC is that a handler with
  steps left is run.

`LayeredCipherProofs` proves about the operators, for every byte size, block
length, block cipher and content, that the XOR layer and CBC undo themselves and
that unpadding inverts padding, and from these `LayersUndoThemselves`: what
`DecryptFileAsync` computes is what `EncryptFileAsync` was given. CBC is a
recursive function; that it satisfies its recursion is proved by looking at the
least index at which it would not (`WFMin` on the natural numbers).

`FileCryptoProofs` proves `DecryptKeyAlwaysThrows` for `KeyVault` (an envelope has
no or three parts, and never the one that `Decrypt` opens), that `FileCrypto`
implements `KeyVault`, and with the layers `StoredFileOpensForOwner`.

`FileManagerProofs` proves `PageInv`. It needs three facts beside the properties:
an upload that is under way belongs to a handler that waits for it (`UploadInv`), a
file that was deleted stays gone (`TargetInv`), and the answer to the load started
last is fresh already when the server gives it (`ListInv`). The last rests on the
order of the code: whatever tells the user of a change starts a load afterwards,
so an answer that is still the latest was given after all of it. Most actions
are instances of two lemmas, `QuietStep` (no news, no new list) and `LoadStep`.
`SpinnerTruth` is an action property and is proved action by action, with
`SpinnerInv` from `PageInv`.

`ShareDialogProofs` proves `DialogInv`: a form that is filled in belongs to
`currentFileId`, because whatever sets that field empties the form in the same
step, and only then can the form be filled in again.

`FileHelpersProofs` proves, for every duration up to `Precise` and whatever the
rounding of the doubles decides, that the simulated progress only advances and
that it ends at 100 at the first tick at which the duration is over or, when the
sum stays just below, at the next (`ProgressEndsAt100`). That no report is smaller
than the last is `RoundedAdvances`: each is within a half of its sum and the sums
grow, so that they differ by less than one the wrong way. It proves of `downloadFile` that it saves no content but the empty one:
the string of two or more elements contains a comma, which makes `atob` throw, and
that of one element has at most three digits, which decode to
something else (`ArrayIsNotDecoded`). `ArrayToString` is a recursive function
whose recursion is again proved by a least index.

The assumptions are those the modules name: sizes are natural numbers, the block
cipher and the XOR have inverses, the values that stand for "nothing" are not
members of the sets they are used beside, the permissions asked for
(`Arguments`) are single names, durations are at most `Precise`.

Only model-checked: the liveness properties (`EveryRequestAnswered`,
`OwnerDeleteTakesEffect`, `StoredAccountCanLogIn`, `HandlersFinish`,
`SuccessClosesDialog`, `ProgressEnds`, `ToastIsRemoved`): they rest on `ENABLED`
and fairness, which the provers do not handle. Every other property of a passing
run is a theorem.

## 5. Not modelled, and the plan

All components with state of their own but the client's session are modelled. What
could be added:

1. The composition of `Accounts`, `FileCrypto` and `FileVault`. They meet in two
   places that are parameters today: the users whose keys unwrap (`Unwraps`) and
   who is logged in (`caller`).
2. The client's session: the token in local storage, which the page reads before
   every call and which may expire or be removed by another tab.
3. The share route, when the API has one: `ShareDialog` and `Sharing` would meet
   there.

Left out for good: framework code (JWT validation, rate limiter, EF Core itself),
the mock antivirus (its verdict is an input of `FileVault`), the HSM service and
the key repository (called by nothing), rendering and formatting in the client,
`HandleDrop` (it discards what is dropped) and the generated files below `bin`
and `obj`.
