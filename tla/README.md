# DropPoint: specification, model checking and proofs

DropPoint is a relay for encrypted handoffs. A receiver creates a *drop point*;
senders upload *submissions* to it; the receiver picks each up, acknowledges it,
and closes the drop point. Metadata lives in one SQLite database, ciphertext in
one directory tree, and a cleanup service deletes what has ended. The database
and the directory are never updated together, so almost everything that can go
wrong here is a deletion or an update done from something read earlier. This
directory models those steps in TLA+, checks them with TLC and proves the most
important properties with TLAPS.

## 1. Inventory

| Part | State | Operations | Hard behaviour |
|---|---|---|---|
| Metadata store (`internal/store/repository.go`, `migrate.go`) | rows of `drop_points`, `submissions` | one SQL statement or transaction each | quotas under concurrency; conditional updates that may hit nothing; the purge's cascade |
| Blob store (`internal/blobstore`) | directories, temporaries, `payload.bin`, `envelope.json` | WriteSubmission, DeleteSubmission, DeleteDropPoint, DropPointIDs, ReadEnvelope, OpenPayload | several filesystem steps per call; a directory recreated after its deletion |
| Upload handler (`httpapi/drop.go`) | one request | authorise, begin, write, commit, undo | commit whose outcome is unknown; client lost; retry of the same id; crash at any step |
| Receiver handlers (`httpapi/pickup.go`, `receiver.go`) | one request | list, status, pickup, acknowledge, close | files deleted under a pickup; pickup recorded after its response; cancellation |
| Cleanup (`internal/cleanup`) | the lists of one pass | ReconcileStartup, Expire | works from lists read earlier; second cleaner from the command line |
| Server (`internal/server`) | main goroutine, listener, loop, handlers, signal | open, recover, listen, loop, drain, close | restart with work half done; shutdown while a pass or an upload runs; a second process on the directory |
| Schema (`store/store.go`, `migrate.go`) | `user_version`, tables | read the version, look for tables, create each, set the version | no transaction around them, several processes at once, a kill in between |
| API tokens and creation (`store/api_tokens.go`, `httpapi/create.go`, `auth.go`, `cmd/droppoint/main.go`) | rows of `api_tokens` | token add, disable, remove; create | commands beside the server; token read once, used later; compensation |
| Receiver client (`scripts/droppoint-receiver.py`, `drop_point_storage.py`) | the state file, one bundle directory per submission | create, status, pickup, close | killed between install, record and acknowledge; lost answers; concurrent commands on one state file |
| Sender page (`web/drop-page/app.js`) | one page's state object | select, encrypt, send, retry, countdown | a retry beside an attempt whose answer was lost; expiry during a send |
| File names and bundles (`cryptoenv/manifest.go`, `reference.go`, `app.js`, `drop_point_protocol.py`) | none: pure functions, written three times | canonicalise, disambiguate, build, encrypt; decrypt, validate, split | cutting, trimming, reserved and colliding names meet in one rule set |
| Tokens, configuration, routing | none | pure functions | none of concern here |

The parts share the database and the directory tree. Handlers run concurrently in
one process, the cleanup loop runs beside them, and each `droppoint` command is a
process of its own on the same database and directories. The pool holds one
connection, so statements are atomic and their interleaving is the concurrency.

What makes each part correct: a committed submission stays available and
unchanged until it is acknowledged or its drop point ends; quotas hold; everything
half done is finished or undone in the end; what has ended is erased, and both hold
on a disk that forgets what was not flushed; a token command changes only the token
it names; a server serves only after it has recovered and closes its database only
when nobody uses it; a receiver gets out of a bundle what was put in. The hazards
that threaten these, with their lines, are in `PROJECT.json`.

## 2. Modules

| Module | Models |
|---|---|
| `RelayBase` | constants, submission keys, the server's state, the number of injected faults |
| `Store` | both tables and the statements of `repository.go` |
| `BlobStore` | the directory tree and the filesystem steps of `blobstore.go` |
| `Upload` | `HandleSubmitDrop`, one process per upload |
| `Receiver` | pickup, acknowledge and close, one process per request |
| `Cleanup` | `ReconcileStartup` and `Expire`, one process per cleaner |
| `Relay` | all of them together with time, crashes, restarts and fairness, and the properties |
| `PowerLoss` | `Relay` on a disk that forgets names which were not flushed |
| `Lifecycle` | opening the schema, start, listening, loop, signals and shutdown, for several processes |
| `LifecycleProofs` | theorems and proofs about `Lifecycle` |
| `RelayProofs` | types, both queue limits, `IInv` and what follows from it, proved |
| `RelayFileProofs` | `FilesInv`, what follows from both, and that `Relay` implements `Handoff`, proved |
| `PowerLossProofs` | the inductive invariant of the disk and what follows from it, proved |
| `Handoff` | the abstract specification: the life of drop points and submissions, as `internal/droppoint` states it |
| `RelayRefinement` | `Relay` implements `Handoff` |
| `ReceiverClient` | the receiver's commands, over `Handoff` |
| `SenderPage` | the sender's page with the upload handler's answers, over `Handoff` |
| `ApiTokens` | token commands and `HandleCreateDropPoint` |
| `ReceiverClientProofs`, `SenderPageProofs`, `ApiTokensProofs` | theorems and proofs about these three |
| `FileNames` | the rules for the names in a bundle, as operators |
| `Bundle` | a sender that builds and seals a bundle and a receiver that opens it |
| `BundleProofs` | what the rules of `FileNames` return, and theorems about `Bundle`, proved |
| `MCRelay`, `MCPowerLoss`, `MCLifecycle`, `MCReceiverClient`, `MCSenderPage`, `MCApiTokens`, `MCBundle` | instances for TLC |

`Handoff` is the joint between the two halves of the project. The relay with its
files, cleaners and crashes is shown to implement it; the client and the page are
modelled against it, so their state spaces need not contain a relay. The
refinement maps a row that is being received to *absent*: to everybody but its
uploader it does not exist yet. `SenderPage` is the one place where that is too
coarse, since a retry can meet its own first attempt, and so it keeps the attempts
in progress itself (`put`).

### State

A key `<<d, s>>` is the primary key of a submission. `dp[d]` is the status of a
drop point row (`purged` once its row was deleted; identifiers are random and not
reused), `status[k]` that of a submission row, `ptr` the keys whose two path
columns are set, `owner[k]` the content whose size the row records, `picked` the
keys with `first_picked_up_at`. In the directory tree, `payload[k]` and
`envelope[k]` name the upload that wrote the file, `tmp[k]` the uploads with
temporaries there, `made` and `dropdir` the directories. `upc`, `rpc`, `cpc` say
what a handler or a cleaner does next; the other registers hold what it read.

Time is kept as the regions the SQL compares: a drop point is `lapsed` once
`expires_at <= now`, `aged` once its end is older than the retention, a row is
`stale` once it is older than `ReceivingStaleAfter`. A pass of the cleanup reads
the clock once, so it carries its own `clapsed` and `caged`.

### Actions

One action stands for one statement, one filesystem deletion or one rename,
because another process can act between any two of them. Merged are only steps
no other process can tell apart:

- `MkdirAll` and the writing of both temporaries (`CreateTemps`); a cancelled
  attempt between them is `WriteFails` after it.
- A lookup and the conditional `markExpired` that follows it (`Authorize`,
  `ExpireLazily`).
- The clock `CommitSubmission` compares with is read just before its transaction:
  `InstallEnvelope` fixes it, and the handler goes on to `late` when the drop
  point had lapsed by then, to `commit` otherwise.
- `ExpireDropPoints` selects and marks row by row; every mark is conditional and
  on a different row.
- `ReconcileStartup` runs `Expire` on a database that has no receiving row left,
  so the second listing is skipped.

Errors are of two kinds. Those any request can cause (bad body, lost client, full
disk) are ordinary actions: `WriteFails`, `EnvelopeFails`, `SyncFails`,
`Abandon`. Errors of the database or the machine, and crashes, count against
`MaxFaults`: `BeginLost`, `CommitErrs`, `GiveUp`, `RequestFault`, `Abort`, `Crash`.

### ReceiverClient

A command is a process with its own copy of the state (`mem`), as `load_state`
gives it; `file` is the state file, which `atomic_write_private_json` replaces as a
whole, and `bundle[k]` what is installed for a submission. Staging and renaming a
bundle is one action: nothing reads a bundle before the rename, and a killed
command leaves only its own staging directory. Each request is one action, at the
moment the relay answers it, and every write of the state file is one. A command
may be killed, or lose a request or an answer, at any step (`Die`); when that
happens to an acknowledgement which the relay has already authorised, the relay may
still execute it later (`DieAcknowledging`, `LateAcknowledge`). Every refusal and
every exception ends the command (`Refuse`), since `main` catches them all.
A content is either `Readable` or not: whether a bundle decrypts depends on
nothing else. `queue[d]` is the order of `dropped_at`, and `List` returns the ready
submissions in that order. `list` only prints and is left out.

### SenderPage

`page` is the page's state object with the place in `dropSelectedFiles` where it
waits: `encrypting`, `sending`. A batch is a selection of files, a ciphertext
comes from encrypting a batch once (`plain` says which). `put` holds the requests
the relay works on; one whose answer the page gave up stays there, goes through the
upload handler beside its retry, and is finished or undone by it. The handler is
`Upload` without its files: what it does to the row and what it answers.
`sent`, `drawn` and `seen` are histories; `sent` is what the page lists as sent.

### ApiTokens

`tokens[l]` is the row of a label with its secret, so that a label that was
removed and added again is told from the old row. A create carries the label and
the limit it authenticated with. `points` and `payer` are the drop points and
their `api_token_id`. Drawing an identifier is a choice among all identifiers,
so a conflict happens as often as the bounds allow.

### PowerLoss

`PowerLoss` adds to `Relay` what the disk remembers. An *entry* is a name in a
directory: of a drop point, of a submission, of one of its two files. `may[e]` is the
set of things entry `e` may be after a power loss; a step that changes a name adds
the new value, a flush of the directory (`SyncDir`) leaves only the present one.
After each step of `Relay`, `flush[a]` lists the directories its function still
flushes before it returns (`Due`), and each flush is a step of its own, between which
others run and the power may fail. `LosePower` chooses for every entry one of the
values it may have, independently of the others; a file is there only if its
directory is. A process crash (`CrashOnDisk`) forgets nothing: what was written is
in the hands of the operating system. File contents are synced before their names
are installed, and SQLite's commits are durable (write-ahead log with SQLite's default,
`synchronous = FULL`, which `configureSQLite` leaves as it is), so neither is lost. A temporary that comes back is of no
account to anybody and is modelled by keeping all or none.

The receiver client syncs every file and directory before it records anything, so
for it a power loss is no more than the kill of a command (`Die`).

### Lifecycle

One process is a server or a command; `pc` is its main goroutine, and a server has
besides a listener, a cleanup loop and handlers, of which one upload stands for all.
`Open` and `Migrate` are one action per statement, since there is no transaction
around `schemaSQL`; a table stands for itself and its indexes. `errCh` is the channel
the listener reports on. `Shutdown` closes the listener and drains; the drain ends
by itself or by its ten seconds; the deferred functions stop the loop, wait for it,
and close the database, in that order.

A row in `rows` is a receiving row. It bears the name of the server that took the
upload, so that the recovery by one server of another's upload can be seen, and what
became of its handler: at work (`handled`), given up (`abandoned`), or gone with an
earlier life of the server (`earlier`, set by `Ends`, the end of a process). An upload
settles its row (`UploadSettles`: commit, or undo) or leaves it to cleanup
(`UploadGivesUp`: its commit is ambiguous, or its undo fails or times out,
drop.go:67-75, :110-125); `BeginLost` leaves a row whose handler answered an error at
once (repository.go:146). A pass of the loop and a command recover some of the rows
that no handler works on, since a handler's row is never stale (`HandlersInTime`);
`Recover` takes all rows, as `ReconcileStartup` does. What passes and uploads do
otherwise is `Relay`.

### FileNames and Bundle

A name is a sequence of symbols, and a symbol is a character or a run of characters
no rule takes apart: the letters of a device name, the words of the two built-in
names, a number in parentheses. Bytes are counted by symbol, and the limits are
scaled down with them; a symbol is never split by cutting, as the code never splits
a character. Normalisation, lower-casing, trimming, cutting and numbering are
modelled by what they do to symbols. The differences between the lower-casing and
the normalisation tables of Go, JavaScript and Python are left out, and so are MIME
types, JSON, base64 and nonces.

`Bundle` is one handoff: files are added one at a time, checked by the senders that
check (`RefuseFile`), named apart, and sealed. Sealing is a record of the plaintext
and the recipient, which only the recipient's key opens. A page that retries sends the
bundle it has (`RetryRepeats` of `SenderPage`), so no bundle has parts of two
encryptions.

## 3. Runs

| Run | Bounds | Shows |
|---|---|---|
| `relay_core` | 1 drop point, 1 id, 2 uploads, 2 requests, loop, 1 fault | `ReadyAvailable`, `NoLeak`, `PickupIntact`, `ReadyIsKept`, `PurgedIsEmpty`, `ImplementsHandoff`, `PickupRecordedUnlessFailed`, `IInv` |
| `relay_queue` | 3 ids, 2 uploads of sizes 2 and 1, limits 2 and 2 | both quotas |
| `relay_live` | 1 upload, 1 request, 1 fault | `ReceivingSettles`, `AcknowledgedIsErased` |
| `power_loss` | 1 upload, 1 request, loop, 1 crash or power loss | `ReadyAvailable`, `NoLeak`, `EndedIsErased` on a disk that forgets |
| `lifecycle` | 1 server, 2 commands, 2 kills or listener failures, with and without a legacy database | `OpenSchemaIsComplete`, `ServingHasRecovered`, `ClosedAfterUse`, `SignalledStops` |
| `tokens_quota` | 2 labels, 2 secrets, 1 command, 2 creates, 3 drop points, limits 1 and 2 | `QuotaHolds`, `CreatedIsOwn`, types |
| `client_one` | 1 drop point, 2 ids, readable and unreadable content, 1 command at a time, 2 faults | `TakenIsInstalled`, `TakenIsRecorded`, `ReceiptsAreTrue`, `KeyKeptWhileOpen`, `ReadyIsProcessedUnlessBlocked`, `EndedKeyIsDeleted`, types |
| `page_retry` | 2 ids, 2 ciphertexts, 2 batches, 2 requests in hand, 2 faults | `OnePerSelection`, `SentIsStored`, `RetryRepeats`, `TerminalSendsNothing`, `SelectionSettles`, types |
| `bundle_names` | every name of up to 3 of 9 symbols and some longer ones, names of at most 6 symbols, bundles of up to 3 colliding names, Go sender and page | `RefusedOnlyIfReserved`, `RejectedOnlyIfReserved`, `RecoveredIsSent`, `RecoveredApart`, types |
| `relay_two_cleaners`, `relay_pickup_lost`, `bundle_page` | small | disagreements, section 6 |

Why the bounds are enough: two uploads on one id give a retry beside its
predecessor, every file and row has at most two writers at a time, and a third
upload would repeat one of them. Two requests give each pair of pickup,
acknowledge and close. Three ids
with a limit of two let the queue be full and freed. One fault makes a single
failure at each place. The
proofs of section 5 do not depend on these bounds, and are what covers several
drop points: the relay runs have one, which they create, end and purge while the
sweep runs.

One power loss per behaviour is enough for safety, because afterwards the disk and
the tables are in a state of the model with nothing uncertain, and what recovery
does from there is the same as after a crash. In `lifecycle`, two faults kill a
process while it opens the database and another which opens it after it, or a server
and its successor; three processes are more than the two that a statement of the
schema can come between.

For the client, two submissions let one be handled while the other waits behind
it; two faults kill a command and also the one that resumes its work.
`TakenIsRecorded` is checked with one command at a time only: of two concurrent
commands, one writes back a copy without the other's receipt, which costs a
second download and nothing else, because installing the same bundle again is
accepted. `client_two.cfg`, kept beside the runs because of its million states, has
two commands at once on a state file that may become another drop point's, and
finds no violation of `TakenIsInstalled`, `ReceiptsAreTrue` and `KeyKeptWhileOpen`
either. For the page, two requests in hand are a retry beside its predecessor,
and two ids, ciphertexts and batches allow a new selection after a given-up one.

For names, three symbols are as many as any rule of `manifest.go` looks at together
(a stem, its trimmed end and a dot); the longer names are one for each way in which
cutting and trimming meet a reserved name, an extension or a number. Three files let
a number be taken already. The Python sender follows the rules of the Go one, and
`Apps` allows it.

Uploads and requests are symmetric in `relay_core` and `relay_pickup_lost`; where
`SizeOf` distinguishes uploads, or liveness is checked, no symmetry is used. The
token, client, page and bundle runs stop when every secret, identifier, id or batch
is used up or the one bundle was opened, which the code never does, so they do not
check for deadlock; the relay, power and lifecycle runs do.

`IInv` is among the invariants of `relay_core`. The inductive invariants of the disk
and of the bundles have configurations of their own beside the runs, with the bounds
of `power_loss` and `bundle_names`: `power_invariant.cfg` and `bundle_invariant.cfg`.
TLC finds no violation of either.

### Fairness

`relay_live` uses `FairSpec`. Every handler that has started takes its next step:
the server's read and write timeouts bound each blocking step, and detached steps
have timeouts of their own. The cleanup loop takes its next step and begins the
next pass, by its ticker (`server.go:142-151`), and a stopped server is started
again, as `compose.yaml` asks with `restart: unless-stopped`. Receiving rows
become stale, because the clock advances. Nothing is assumed of clients, of
the second cleaner, or of the clock reaching `expires_at`.

`power_loss` uses `PowerFairSpec`: the same, where the next step of an actor may be a
flush. `lifecycle` assumes that goroutines run on, that a pass ends (its statements
have timeouts and its context is cancelled) and that uploads end (server timeouts).
The loop's `select` takes either of two ready cases, so the ticker may win a while:
`LoopStops` is strongly fair, which the random choice of Go's `select` justifies.
Nothing is assumed of signals, kills, or processes being started.

`client_one` uses a `FairSpec` which assumes that a command which has started takes
its next step (each request has a timeout, `--wait` has one too) and that the
receiver starts a pickup of all submissions, and a status, again and again. The latter is strong fairness,
because the state file or a running command may disable a start for a while.
`page_retry` assumes that encryption ends, that the upload handler answers, and that
the sender presses *Retry send* again and again (strong fairness again: the button
is disabled while a request is in flight).

### Mutants

Each property has a mutant operator beside the definition it replaces, marked
`Mutant of`. No specification uses them; they show that the property is
able to fail.

## 4. Assumptions of the model

- `HandlersInTime = TRUE` in the passing runs and the proofs: `GoStale` marks a row
  only when no handler works on it. `ReceivingStaleAfter` is chosen longer than any
  handler runs (`server.go:157-158`, SPEC.md:108), but the code does not enforce it
  on a handler that is slow between its reads. `relay_slow_handler.cfg` drops the
  assumption and loses a committed submission.
- `SweepIsolated = TRUE` there as well: no drop point is created between
  the two listings of the orphan sweep. `relay_sweep_race.cfg` drops it.
- Passing runs and the theorems about `Relay` and `PowerLoss`, except for types and
  the queue limits, have the server's own loop as only cleaner. The run `relay_two_cleaners` adds one.
- `Relay` has process crashes, which keep every file operation that returned;
  `PowerLoss` adds power losses. There, contents are synced before names are
  installed, and commits of the database are durable.
- `ServingHasRecovered` is said of one server per data directory.
  `lifecycle_second.cfg` has two. It speaks of rows of earlier lives: a server may well
  accept requests beside a row its own upload gave up, which a later pass takes
  (`ReceivingSettles` of `Relay`).
- The receiver's commands use one state file and one output directory. With
  another `--out-dir` the same submission may be installed twice.
- The page's clock (`over`) and the relay's are independent.
- A drop point of status `failed` never occurs: `FailDropPoint` has no caller.
- In `PowerLoss` an actor is an upload, a request or a cleaner and nothing else
  (`ActorsAssumption`).
- In `Bundle` names are sequences of symbols, a bundle has up to three files, as
  many as the model has numbers for, and a name has room for an extension, a number
  and one more symbol (`BundleAssumption`).

## 5. Proofs

### Relay

`RelayProofs` proves `TypeCorrectness`: `Spec => []TypeOK`, for all constants. It
proves `ReadingsHold`: `Spec => []IInv`, and from it `Availability`:
`Spec => []ReadyAvailable`, assuming `SweepIsolated`, `HandlersInTime` and
`Cleaners = {Loop}`, for any drop points, ids, uploads,
requests, limits and number of faults. `ReadyAvailable` is not inductive: a
deletion is harmless only because of what the deleter read before. `IInv` adds,
for each reader, what is still true of its reading:

- `UploadOwnsKey`, `UploadHasFiles`: a working handler is the only one on its
  key, its row is still receiving, and what it installed is still there at the
  commit. A commit whose outcome is unknown may have made the row ready, so the
  handler in `verify` is the exception, and only a second look at the row lets it
  go on to `undo`.
- `StaleIsInterrupted`, and `ListsHold` for `recover`: listed rows are receiving
  and nobody works on them. This needs the single cleaner, which lets
  nobody else reuse the key, and `HandlersInTime`.
- `ListsHold` for the other phases: listed children stay acknowledged or failed,
  listed drop points stay ended, and a directory found without a row belongs to a
  purged drop point. The last one needs `SweepIsolated`.
- `RequestReadingsHold`: what an acknowledge, a close or a pickup has read stays
  so; a row is failed or deleted only in that state.
- `IdleUnlessServing`, `RowsHaveParents`: nothing runs before the startup pass is
  over, and rows belong to existing drop points.

The proof has one lemma per kind of actor. `UploadFrame`, `RequestEffect` and
`CleanerEffect` reduce a step to its effect on the shared state; `HarmlessKeeps`
shows once that a step that changes nothing of a live key keeps `ReadyAvailable`
and the other actors' facts; `UploadKeeps`, `RequestKeeps`, `CleanerKeeps`,
`CreateKeeps`, `TickKeeps`, `ExpireLazilyKeeps` and `CrashKeeps` give `IInv'` and
`StepIInv` collects them.

`FilesInv` (in `RelayFileProofs`, found inductive relative to `IInv` by TLC on the instance
of `relay_core` before its proof) is a second invariant beside it, about the files of
*ended* drop points and acknowledged rows as well, of which `IInv` says nothing.
`FilesHold` proves it, under the same assumptions. It is needed because these
properties speak of what is left after an end:

- `ReadyFilesOwn`, `PickupsHold`: the files of a ready row are its upload's or are
  deleted. A pickup past its lookup finds those of the row it read, or none, and
  none only if the row is finished or the drop point over; for nobody but an upload
  that can only verify or undo is left below its key. From this `PickupsIntact`
  (`PickupIntact`) and, since a pickup that takes its row for corrupt has a finished
  row or an ended drop point, `CommittedIsKept` (`ReadyIsKept`).
- `MadeHasRow`, `UndoneIsEmpty`: a directory of an open drop point has a row, and
  whoever is about to delete a row has deleted its directory. From this
  `NothingLeaks` (`NoLeak`).
- `UnpointedIsEmpty`, `ClearedIsEmpty`: a committed row has lost its pointers only
  after its directory. The purge asks for rows without pointers, hence
  `PurgeComesLast` (`PurgedIsEmpty`).

`PickupsAreRecorded` (`PickupRecordedUnlessFailed`) needs of `IInv` only that the row
a pickup is about to mark was committed.

`RelayImplementsHandoff` proves the refinement `ImplementsHandoff`, under the same
assumptions: one lemma for each kind of process maps its steps. Of an upload only the
commit is visible; of the receiver's requests the acknowledgement, the close, and
`FailCorrupt`, which is `Lose` because `RequestReadingsHold` and `PickupsHold` leave
it no ready row of an open drop point; of the cleanup the expiry, and the purge, which
is `Forget`.

`QueueIsBounded` (in `RelayProofs`) proves `PendingWithinQuota` from types alone: only
the insert of `BeginSubmission`, which counts in the same statement, makes a row
pending. `BytesAreBounded` proves `ReadyBytesWithinQuota` likewise: only
`CommitSubmission`, which sums in the same statement, makes a row ready. That a sum
over a finite set grows by what is added, and shrinks by what is freed, is proved
first ("Sums over finite sets"), for the fold that the model's `SUM` is. Both hold
with any cleaners and without `HandlersInTime` and `SweepIsolated`.

### PowerLoss

`PowerLossProofs` proves `DiskHolds`: `PowerSpec => []PowerInv`, and from it
`SurvivesPowerLoss` (`ReadyAvailable`) and `NothingLeaksOnDisk` (`NoLeak`), under the
assumptions of `ReadingsHold`. `PowerInv` is `IInv`, which every loss of power has to
leave true, and `DiskInv`, which says what the disk may hold:

- `ReadyIsCertain`: a ready row of an open drop point has both directories and both
  files on the disk for certain. `UploadIsCertain` says how far an upload has got
  with that: the parents' names after their flushes, the files' after the last one.
- `FlushesDue`: which directories an upload, or the recovery of an interrupted one,
  has still to flush where it stands. Without it nothing would say that the commit
  comes after the flush.
- `NoDirNoEntry`, `NoRowNoEntry`, `GoneForGood`: a drop point without a directory and
  an id without a row have none on the disk either, and whoever is about to delete a
  row has deleted its directory, after its flush for good. So no power loss brings a
  directory back under an open drop point that has no row for it.
- `FilesHaveDirs`, `NowIsPossible`: what is there lies in directories that are there,
  and is among what a power loss may leave.

A step of `Relay` may do four things to the disk, which `UploadsGoOn`, `CleanersGoOn`,
`DirsGoOn` and `RowsGoOn` state without naming the step, and leaves what it changed
uncertain (`Uncertain`). `OnDiskKeeps` shows once that such a step keeps `DiskInv`;
each kind of actor is then shown to take no other (`UploadOnDiskKeeps`,
`RequestOnDiskKeeps`, `CleanerOnDiskKeeps`, `TimeOnDiskKeeps`, `CrashOnDiskKeeps`),
and `IInv` is kept because the step is one of `Relay`, or the failure of a flush,
which is an undo. A flush narrows what an entry may be (`FlushKeeps`), and what a loss
leaves was possible and, where it was certain, is what there was (`LostFacts`).

### Bundle

`BundleProofs` proves `BundleHolds`: `Spec => []BundleInv`, for names of any length
over any symbols, any sizes, and any limits that leave room for an extension, a number
and a symbol. Its first half proves what the operators of `FileNames` return. Most
are folds, searches and smallest or largest numbers, so that they need induction: it
is had from `WFMin`, applied to the set of numbers for which something fails
(`Induction`), because the library's induction theorems need an operator for a
parameter. `Length` and `SizeBefore` are shown to be running totals, and
`FlattenedInPlace` that each part of a joined payload is found where the sizes before
it add up to. Then, of the rules:

- `Tidy` is all that `SanitizeFilename` asks of a name, but for its length and for
  being reserved (`TidyIsCanonical`). `FitFacts` shows that `Fit` returns a tidy name
  within the limit, and when it leaves the name as it was; `BaseFacts` that what a
  sender makes of any name is tidy and fits, and is reserved only if the name was
  too long or a space or dot ended its stem (`Squeezed`).
- `Device` is `ReservedWindowsName` read symbol by symbol (`WindowsNames`).
  `CandidateFacts` uses it to show that numbering a name never makes it reserved.
- `NumberedApart`: the numbered candidates have their numbers in one place, so their
  keys differ, and with two keys taken one of the first four candidates is free
  (`DisambiguatedFacts`).

`BundleInv` says of the state that names are tidy, fit, differ in their keys and are
reserved only where the page cut them (`NamesHold`), and that what was sealed and
recovered is made of what was chosen (`PartsHold`). The five invariants that TLC
checks follow: `BundleIsTyped`, `NoOtherRefusal`, `NoOtherRejection`,
`WhatWasSentArrives` (with `TakenApart`, that `SplitPayload` undoes the joining) and
`WhatArrivesIsApart` (with `SameFileSameKey`).

### API tokens, receiver client, sender page, lifecycle

`ApiTokensProofs` proves `TokensTyped`, `CreatesOwn` (`CreatedIsOwn`: identifiers are
inserted only where there is no row, so no two creates answer with the same one) and
`QuotaIsKept` (`QuotaHolds`, an action property: the count and the insert are one
statement, and the insert adds one to a finite set).

`ReceiverClientProofs` proves five properties of the client from one invariant, for
any number of concurrent commands. Besides the types it says that relay and queue
agree (`RelayInv`, `QueueInv`), that a bundle is what the relay has under its id as
long as it has anything (`BundlesAreGenuine`), that an acknowledgement still under
way is of an installed bundle (`LateIsInstalled`), and, of the state file *and of
every command's copy of it*, however old: its entries have bundles, its acknowledged
entries are settled for good, and it has the key or its drop point is over
(`CopyInv`). Only what holds of every copy survives one command writing over
another's. `TodoInv` and `HeadInv` say what the list a command works through and the
submission it is at have to do with its copy. `TakenHasEntry` is the theorem
`OneCommand /\ Spec => []TakenIsRecorded`; with two commands it is false (section 3).
The ids are assumed to be a finite set (`ClientAssumption`), so that they can be
listed.

`SenderPageProofs` proves `TypeOK`, `OnePerSelection`, `SentIsStored`, `RetryRepeats`
and `TerminalSendsNothing`, for any number of requests the relay has in hand. The
central notion is `Used(id, x)`: ciphertext `x` goes under `id` in a request in hand,
in a row, or in the page's state object. `UsesAgree` says that uses agree: one
ciphertext for an id and one id for a selection. It is inductive only with
`PageRepeats` (whatever is in use for the page's selection is what the page would
send again, until it is over) and `UsesAreDrawn` (an id or ciphertext in use is not
fresh). `NothingBegun` and `PageStepKeeps` treat all steps that begin no request at
once, `SendingUses` those that do. `SentIsStored` uses that a confirmed request's
submission is known to the relay (`RelayInv`) and what the relay keeps
(`RelayKept`).

`LifecycleProofs` proves three theorems, for any number of processes and kills, from
one invariant `LInv`: the types, `SchemaHolds` (a process that has executed n
statements finds their tables; whoever is past opening finds version 3, which only
a process that has executed all of them sets; tables are only added) and
`GoroutinesHold` (where each goroutine is when the main one is at a given place; for
instance, the listener accepts only while the main goroutine is in its `select`).
`SchemaSafety` and `ShutdownSafety` follow from it. `RecoverySafety` adds
`RowsRecovered`, which speaks of all rows at once and so of one server (`Servers =
{s}`): from its recovery until its life ends, no row of an earlier life is left. It
needs the types of rows (`RowTypes`), and that a process whose life ends, which turns
its rows into rows of an earlier life, is not past its recovery afterwards.

### Model-checked only

- Liveness (`ReceivingSettles`, `AcknowledgedIsErased`, `EndedIsErased`,
  `SignalledStops`, `ReadyIsProcessedUnlessBlocked`, `EndedKeyIsDeleted`,
  `SelectionSettles`): fairness and `ENABLED` are beyond the prover's reach.
- What `relay_two_cleaners`, `relay_pickup_lost` and `bundle_page` show, which are
  counterexamples.

## 6. Disagreements found

- `relay_two_cleaners`: `droppoint cleanup expired` beside the server
  (docs/deployment.md:83-89) lets one cleaner act on a list the other made stale.
- `relay_pickup_lost`: a finished pickup may find its row failed by a second pickup,
  which was authorised before the drop point expired and then found its files deleted
  by the cleanup loop (SPEC.md:371). Expiry or cleanup alone loses no pickup
  (`PickupRecordedUnlessFailed`).
- `bundle_page`: the page looks for reserved names before it cuts and trims
  (app.js:643-646) and not after, so it may send a bundle every receiver rejects
  (SPEC.md:838, :841).

More configurations are kept beside the runs. In each, TLC finds the named
property violated (`tlc -config X.cfg MC<module>`):

| Configuration | Module | Property | What happens |
|---|---|---|---|
| `relay_sweep_race.cfg` | `MCRelay` | `ReadyAvailable` | the sweep lists rows before directories (cleanup.go:109-113), so a drop point born in between loses its directory (SPEC.md:8) |
| `relay_slow_handler.cfg` | `MCRelay` | `ReadyAvailable` | a handler slower than `ReceivingStaleAfter` (server.go:158) is taken for interrupted; its retry commits, and it deletes the retry's files (SPEC.md:108) |
| `power_cleared.cfg` | `MCPowerLoss` | `ClearedIsFlushed` | a deletion that finds its parent gone takes the flush for done (blobstore.go:244), and the pointers are cleared before the removal is durable (SPEC.md:516); a later pass erases what comes back |
| `lifecycle_interrupted.cfg` | `MCLifecycle` | `RefusedIsLegacy` | a first start killed inside the schema, or met there by another, leaves tables without a version, which later starts refuse as legacy (migrate.go:92; migrate.go:69, SPEC.md:439) |
| `lifecycle_second.cfg` | `MCLifecycle` | `OnlyInterruptedRecovered` | a second `serve` recovers the uploads at work in the first before it finds the address in use (server.go:55; SPEC.md:108) |
| `client_unreadable.cfg` | `MCReceiverClient` | `ReadyIsProcessed` | pickup stops at the first submission it cannot decrypt (droppoint-receiver.py:145), and those behind it are never fetched by it (docs/local-testing.md:144); `--submission-id` gets around it |
| `client_replaced.cfg` | `MCReceiverClient` | `StateKeptWhileOpen` | `create` writes over a state file whose drop point is open (droppoint-receiver.py:126; SPEC.md:1011) |
| `client_key_back.cfg` | `MCReceiverClient` | `KeyStaysDeleted` | a command running while another discards the key writes it back (droppoint-receiver.py:272; SPEC.md:606) |
| `client_key_left.cfg` | `MCReceiverClient` | `KeyIsDeleted` | once the ended drop point is purged, status is answered 404 and the key stays (droppoint-receiver.py:224; SPEC.md:606) |
| `page_ended.cfg` | `MCSenderPage` | `UsableWhileOpen` | a retry that finds its first attempt's row just before that is undone is answered 404 (drop.go:138), which the page takes for the end (app.js:360; SPEC.md:951) |
| `tokens_disable.cfg` | `MCApiTokens` | `DisabledCreatesNothing` | a create that authenticated before `token disable` inserts after it (create.go:94; api_tokens.go:110, SPEC.md:568) |
| `tokens_rollback.cfg` | `MCApiTokens` | `RollbackRemovesOwnRow` | the compensation of `token add` deletes by label, and so another command's row (main.go:170; SPEC.md:567) |

## 7. Not modelled

Token generation and display names are randomness and hashing: a token is a model
value. Configuration is read and validated once; the limits it yields are the
constants (`max_bytes` is at most 2^40, so `max_pending_bytes`, ten times that, does
not overflow). Routing and the served pages hold no state. `status` and `list` only
read, apart from marking a lapsed drop point. File modes and the write-ahead-log
pragma change no row. Of the sender's page, rendering, thumbnails, camera mode and
the size limit message are left out; of the client, parsing, other output
directories and the plaintext staged inside a bundle directory; of the cryptography,
MIME types, JSON, base64 and nonces: what is parsed is what was written. The sender
script makes one request and keeps no state; what it seals is in `Bundle`.

## 8. Plan

Done, in this order: `RelayBase` to `Relay` with the availability proof,
`ApiTokens`, `Handoff` with its refinement, `ReceiverClient`, `SenderPage`;
`FileNames` and `Bundle`, `PowerLoss`, `Lifecycle` with its proofs, the assumption
`HandlersInTime`; `FilesInv` with the remaining safety properties of `Relay`, the
proof of the refinement, the queue limits, and the proofs about `ApiTokens`,
`ReceiverClient`, `SenderPage`, `PowerLoss` and `Bundle`. Every invariant and every
safety property that a passing run checks is a theorem. What could come next:

1. The remaining safety properties of `Relay` (`PickupIntact`, `ReadyIsKept`,
   `PurgedIsEmpty`) and the refinement on a disk that forgets, where `FilesInv` needs
   a counterpart for what a power loss brings back under an ended drop point.
2. `Bundle` with as many numbers as the code has, so that bundles of any number of
   files are covered.
