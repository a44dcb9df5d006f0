# PhotoDrop: a TLA+ verification project

PhotoDrop collects photos and videos from the guests of an event: a guest opens a public
link, gets an upload session and uploads files, either through the server to a local
directory or straight to an S3 bucket with presigned URLs; an administrator creates, closes,
exports and deletes events. One Go process, one SQLite database, one or more object stores.

This directory holds TLA+ modules translated from the Go source, the TLC configurations that
check them on small instances, and TLAPS proofs of the safety properties for all values of
the constants. `PROJECT.json` maps every definition to the lines it models.

    tlc -workers 2 -config Direct.cfg MCMedia      # one of the runs below
    tlapm MediaProofs.tla                          # one of the proof modules

## 1. Inventory

| Component | State | Operations | Status |
|---|---|---|---|
| Media service (`internal/media/media.go`, `direct.go`) | tables `upload_sessions`, `assets`, `s3_cleanup`; per event a `sync.RWMutex`, 256 asset stripes, two cleanup cursors | CreateAttributedSession, Upload, Prepare, Authorize, Complete, Snapshot, DeleteEvent, Cleanup, cleanupRetired, removeAttempt | modelled |
| Capacity rules (`internal/media/quotas.go`) | none: counts rows | reserve, reserveClass, fileLimit | modelled |
| Validation (`internal/media/validation.go`) | none | Sniff | its verdicts |
| Events (`internal/events/events.go`) | table `events` | create, Update, Get, deletion flag | what media depends on |
| Object stores (`internal/storage`) | files, S3 objects | Put, Delete, HEAD, GET, presigned PUT | effects on one key |
| Backend registry (`internal/storage/backends.go`) | table `storage_backends`, the clients of the process | Reconcile, Resolve | modelled |
| Immich importer (`internal/integrations/immich`) | jobs, per-asset imports, album targets | enqueue, cancel, retry, automatic pass, run, recover | modelled |
| Administrator auth (`internal/auth/auth.go`) | tables `admin_credential`, `admin_sessions`; the hash each process remembers, login slots | start, login, logout, expiry | modelled |
| OIDC sign-in (`internal/auth/oidc.go`, `internal/server/oidc.go`) | table `oidc_transactions`; cached provider, its mutex, slots; cookies | Begin, discover, Complete | modelled |
| Rate limiter, client address, challenge (`internal/abuse`) | token buckets; challenge slots | Allow, sweep; ClientIP; Verify, Validate | modelled |
| Export (`internal/export`) | a directory tree | Filename, filenames, Run, publish | modelled |
| Migrations (`internal/database`) | table `schema_migrations` | migrate | modelled |
| Process lifecycle (`cmd/photodrop`, `server.Serve`, `maintain`) | listener, workers, database handle | start, signal, drain, join, close; the cleanup ticker | modelled |
| Browser client (`web/src/lib`) | queue of files | prepare, PUT, complete, retry | its requests, in any order |
| HTTP application | slots and limits (above) | decode, authorize, call | the parts with state |
| Configuration, web interface | none of their own | parse, show | not modelled |

How they interact. Handlers run in goroutines of their own and call the media service; all
state they share is in SQLite (one connection, `BEGIN IMMEDIATE`: one transaction at a time),
in the object stores, and in the locks of `Service`. Upload, Prepare, Authorize, Complete and
Snapshot hold the event's lock for reading; DeleteEvent and Cleanup `TryLock` it for writing
and give up or move on when it is busy. Authorize and Complete also hold the stripe of their
asset, across network calls. Cleanup runs in one background goroutine. A presigned URL lets a
guest write to the bucket without the server knowing, and cannot be revoked. The Immich
importer is one goroutine with three transfers at a time, driven by durable jobs in SQLite;
it meets the media service in Snapshot, whose read lock keeps an event from being deleted.
Around these are parts that share no state with them or with each other: sign-in, the limits on
requests, the reconciliation at startup, the export CLI, the end of the process. Several
processes may run on one database: the old server and the one that replaces it, and the CLI.

What is hard. No transaction spans the database and a store, so every operation is a sequence
of steps between which the process may stop, another request may run, or a call may fail
although it was carried out. Event ids are looked up before the lock is taken and SQLite
reuses them. Pages of rows are read without locks and used later. A pending row is at the
same time a capacity reservation, the record of an object that may not exist yet, and what
Cleanup removes. A process keeps what it read at its start (a password hash, a backend, a
provider) while another one changes it. Tables and pools have limits, and whoever takes a place
must give it back on every path. `PROJECT.json` lists the hazards line by line, with the property aimed at
each of them.

## 2. Modules

    Quotas            capacity rules as pure operators
      MediaState      tables, stores, locks, control state; checks shared by transactions
        MediaRemoval  removeAttempt, DeleteEvent, Cleanup, cleanupRetired
          MediaUpload CreateAttributedSession, Upload, Snapshot
            MediaDirect  Prepare, directLock, Authorize, Complete, the guest's PUT
              Media   administration, time, restart; Init, Next, fairness, properties
                MediaInv        the inductive invariant
                  MediaLedger   Media implements AssetLedger
                    MCMedia     constants for TLC
                    MediaStepProofs  action properties, the refinement, capacity
                  MediaControlProofs     locks and labels
                    MediaProofs          the inductive invariant

    ImmichState       the importer's tables, the Immich servers, the worker's memory
      ImmichAdmin     enqueueTx, Cancel, SetAutoImport; events and media that come and go
        ImmichWorker  Run, recover, reconcile, claim, execute up to the album
          ImmichTransfer  importAsset and the end of execute
            Immich    stop, restart; Init, Next, fairness, properties
              MCImmich    constants for TLC
              ImmichProofs

    AssetLedger       abstract: what guests and administrators see of events and media
    TokenBucket       abstract: rate limits without a table

    Limiter           abuse.Limiter and the middlewares that ask it; implements TokenBucket
    ClientAddress     abuse.ClientIP
    Access            password and OIDC sign-in, sessions
    Challenge         admission of guests with a Turnstile challenge
    Registry          migrate, storage.Reconcile, immich.Reconcile
    Export            file names, publication, manifest
    Shutdown          server.Serve and the end of main.run
    Maintenance       whose turn it is in Cleanup and cleanupRetired
      MCServer        one of these parts at a time; constants for TLC
      AccessProofs    proofs about Access
      ServerProofs    proofs about Limiter, ClientAddress, Challenge, Registry, Shutdown
      ExportProofs    proofs about Export

    NumberLemmas      induction, least and largest elements, for all of the proofs

### The media service

**State.** `events`, `sessions`, `assets` and `retired` (table `s3_cleanup`) are functions
from ids to rows; a row that does not exist is a record that says so. `objects` is the object
under the key of each asset, `parts` the local `.part` files, `urls` the keys for which a
presigned PUT is in a guest's hands. `readers`, `writer` and `stripes` are the locks.
`pc[p]` and `loc[p]` are the place and the local variables of goroutine `p`.

**Steps.** One SQL statement or transaction is one step; a file or network operation is a
step of its own. Waiting for a lock is a label. Taking a lock is one step with the first
statement it protects, releasing it one step with the last statement of the call: nobody can
tell these apart. Every call that can fail has a branch that fails; a commit, an S3 request
or a file operation may also be carried out and then reported as failed.

| Action | Code |
|---|---|
| `UploadBegin`, `UploadLock`, `UploadReserve`, `UploadOpen`, `UploadWrite`, `UploadFinish`, `UploadFinishFails` | `Service.Upload`, `Local.Put` |
| `PrepareBegin`, `PrepareReserve` | `Service.Prepare` |
| `DirectBegin`, `DirectLock`, `AuthorizeLoad`, `AuthorizeSave` | `Authorize`, `directLock`, `loadDirect` |
| `CompleteLoad`, `CompleteHead`, `CompletePrefix`, `CompleteReject`, `CompleteCommit` | `Complete` |
| `SnapshotBegin`, `SnapshotList`, `SnapshotClose` | `Snapshot`, `Snapshot.Close` |
| `DeleteBegin`, `DeleteMark`, `DeleteDemote`, `DeleteEmpty`, `DeleteDrop` | `DeleteEvent` |
| `RemoveRead`, `RemoveRetire`, `RemoveObject`, `RemoveRow`, `RemoveFails` | `removeAttempt` |
| `CleanupStart`, `CleanupTake`, `CleanupSkip` | `Cleanup` |
| `RetiredStart`, `RetiredDelete`, `RetiredSkip`, `RetiredMark`, `RetiredDone` | `cleanupRetired` |
| `GuestPut` | external: S3 on a conditional PUT |
| `CreateEvent`, `UpdateEvent` | `events.create`, `events.Update` |
| `Restart` | `main`: the process is stopped anywhere and started again |

**Abstractions**, and why they lose nothing the properties speak of:

- A body is a size and what it sniffs as. `torn` is a video whose box tree runs past the end
  of the object, which a full 512-byte prefix does not show and the known length does. A
  content type that HEAD reports wrongly ends like a body that does not sniff.
- An ETag is equality of the body. A second PUT of the same bytes cannot happen
  (`If-None-Match: *`) unless the object was deleted in between, and then the bytes are those
  that were verified.
- Time is a flag per row that the environment sets: `stale` (created and authorized more than
  an hour ago), `lapsed`, `expired`, `due`. An upload URL is usable for ever, which includes
  every expiry. Timestamps as text are a hazard of their own, see the plan.
- An S3 request takes effect before its caller stops waiting for it, or never.
- Asset, session and public ids are random in the code and never repeat: here, ids that are
  never used twice. Asset ids are ordered numbers because Cleanup's cursors compare them.
- The 5000-row limit on purging expired sessions is left out; pages of stale rows are not.
- Between DeleteEvent's `SELECT ... LIMIT 1` and its `UPDATE` the event is locked for writing,
  so they are one step; so are the end of a page of Cleanup and the query of the next table.

### The Immich importer

**State.** `bindings`, `imports` and `jobs` are the tables `immich_event_imports`,
`immich_asset_imports` and `integration_jobs`, by id; `events` and `owner` are what the importer
sees of the media service. `created`, `stored` and `shelved` are what the Immich servers hold:
albums per marker, media, media in albums. `wk` is where the worker is, `exec` the ids that
`claim` read, `ctx` the context of `execute`, `pin` the event its snapshot holds, `tasks` the
transfers under way, by asset (which of the three goroutines has one does not matter).

| Action | Code |
|---|---|
| `Enqueue`, `CreateEvent`, `Cancel`, `SetAutoImport` | the same, one transaction each |
| `recover`, `ReconcileBegin`, `ReconcileNext`, `ReconcileEnd`, `Claim`, `Wake` | `Run` with `recover`, `reconcile`, `reconcileBinding`, `claim` |
| `CheckCancel`, `Monitor`, `Finish`, `FinishFails` | `execute` and its polling goroutine |
| `Validate`, `Snapshot`, `ImportFails`, `ImportEnds` | `importJob` |
| `AlbumRead`, `AlbumIntent`, `AlbumCreate`, `AlbumFind`, `AlbumGet`, `AlbumSave` | `album` and its client calls |
| `TransferTake` ... `TransferFail` | `importAsset`, its deferred update, `Client.Upload`, `AddToAlbum` |
| `MediaReady`, `DeleteMark`, `DeleteDrop` | the media service, as modelled in Media |
| `Stop`, `Restart` | SIGTERM; the process ends anywhere and starts again |

Ids of events, bindings and jobs are numbers, and a new row gets the largest one plus one, as in
SQLite without AUTOINCREMENT: the last row that is deleted gives its id away. An album is its
server and marker. A call that fails may have been carried out; it succeeds only under a live
context. `by` and `lost` in a row, and the mode `auto`, are history that only properties read.
Left out: album names, error texts, credentials (a call without them fails like any other), the
wake channel and the ticker (when nothing is queued the next pass follows), the order in which a snapshot's media are handed
out, users who delete albums in Immich (a call fails). An event's deletion is two steps here,
because nothing of the importer runs between the deletions of its media.

### The ledger

`AssetLedger` is the media service without uploads, locks, stores, retries and crashes: albums are
opened, closing and gone, one after the other; media are private, published with some content,
withdrawn only from a closing album, and gone for ever. `MediaLedger` maps Media to it. An album is
an event by its *public* id, so that a row that survived into the event which got its internal id
would be a medium that moves to another album; and the content of a published medium is the object
behind it, so that an overwritten or deleted object would be a change of content. Content is vouched
for only while the key is not retired: that is finding 1 below.

### The parts around it

The parts share no variable, so MCServer does not run them side by side: the variable `part` is
chosen in the initial state and only the steps of that part are taken. The state space is the sum
and not the product, and every part still meets all interleavings of its own actors. The fairness
of a part asks for nothing of the behaviours of another one, because none of its steps is enabled
in its initial state.

| Module | State and actions | Abstractions |
|---|---|---|
| `Limiter` | `entries` and `swept` as ages; `Allow` is one step under its mutex, `Ask` one call of it from `guarded` (global key first) or `oidcRoute` (a Go map: either order) | hashed keys are keys; contents are counted in 1/`Minute` of a token, which makes the refill exact where the code has floats |
| `ClientAddress` | a request travels from a client with an invented header over proxies that append; `ClientIP` at the server | an address is trusted or not, usable or not |
| `Access` | credential, sessions and transactions in the database; per process the remembered hash, cached provider, mutex and slots; per browser two cookies; `Start`, `LoginBegin` ... `Answer`, `Logout`, `OIDCBegin`, `DiscoverLock`, `DiscoverFetch`, `Begin`, `Consume`, `Exchange` | state, nonce, verifier and binding of a sign-in are drawn together and are one number; whatever `Verify` and the allow lists reject is one failing branch; answers may be lost |
| `Challenge` | `CheckOpen`, `TakeSlot`, `Redeem`, `Judge`, `CreateUploadSession` of `createUploadSession` | the verification service redeems a token once (external) |
| `Registry` | history and executed scripts, registered backends and targets, home and real place of every asset; processes that are launched with any binary and environment and quit anywhere | a destination is a place and an addressing style, because the fingerprint of old rows does not contain the style; id and key of a backend are never separated (triggers) |
| `Export` | a tree of entries that are torn, whole or directories; `RunBegins`, `OpenPart`, `CopyPart`, `LinkPart`, `RemovePart`, `Killed` | a name is a sequence of tokens (words, extensions, separators, blanks), so that `Filename` and `filenames` keep their rules; 180 bytes are a number of tokens |
| `Shutdown` | where main is, listener, handlers, workers, database | net/http's Shutdown waits for handlers, Close does not |
| `Maintenance` | the cursor, the page and the due rows of one of the two passes (they have the same form) | what a visit does is in MediaRemoval; here it disposes of the row or fails |

## 3. Properties and runs

| Property | Says |
|---|---|
| `TypeOK` | rows, locks, labels and locals have their types (a reservation is never negative) |
| `NothingOrphaned` | an object, a `.part` file or a usable URL has an asset row or a retired key |
| `ReadyIsBacked` | a ready row has an object of its size and class, unless its key is retired |
| `SealedBody` | the bytes behind a ready, unretired asset never change |
| `SnapshotPinned` | what Snapshot listed stays ready until Close |
| `ReadyIsKept` | only the deletion of its event takes an asset out of ready, through pending |
| `DeletionDrains` | an event being deleted gains no row and no ready asset, and is dropped empty |
| `DeletesWhatWasAsked` | a deletion never marks or drops another event with the same internal id |
| `NoOvercommit` | whatever grows is within the limits in force when the step commits |
| `EveryCallReturns` | no lock is left behind, nobody waits for ever |
| `DeletionFinishes` | a deletion that is asked for again and again is finished |
| `ImmichTypeOK` | rows of the importer obey the CHECK constraints of their tables |
| `AccountedIsThere` | media recorded as imported are on the binding's server, in its album |
| `OneAlbum` | no second album under one marker, whatever was lost or repeated |
| `NothingLeftPending` | media pending under no job were cancelled, or their failure could not be recorded |
| `TransfersPinned` | whatever is being transferred is ready media of an event not being deleted |
| `AutoTakesOnlyItsOwn` | an automatic job transfers only rows it selected itself |
| `ProgressKept` | accounted media and known remote ids stay; failed media move only on a retry |
| `JobEnds` | every job ends |
| `AutoImportReaches` | media of an automatic binding are selected, unless switched off or paused |
| `ImplementsLedger` | what is visible of Media is a behaviour of `AssetLedger` |
| `ForgettingIsInvisible` | `Limiter` implements `TokenBucket`: sweeping is never noticed, Retry-After is exact, only full buckets are turned away for want of room |
| `RoomForNewKeys` | a key is turned away only while `Capacity` others were used lately |
| `ChargedToNearestUntrusted` | the address is that of the last sender outside the trusted proxies |
| `PasswordSessionsCurrent` | every password session was made under the credential in force |
| `OneSessionPerFlow` | a sign-in gives one session at most, to the browser that began it |
| `RefusedOnlyWhenFull` | Begin refuses only while other sign-ins that can still be finished fill the table |
| `SlotsComeBack` | every request ends and gives its slot and the mutex back |
| `OneGrantPerToken` | a challenge admits one guest, and a foreign one nobody |
| `SchemaNeverForks` | every script ran once in the recorded order, and a process serves only on a schema that begins with its own scripts |
| `NothingRepointed` | a serving process knows the backend of every asset, it is the place the asset was put at, and an API key is only sent to the server it was configured for |
| `ManifestMeansComplete` | a final name has a whole file; with a manifest there are all files of its run and no others |
| `PortableNames` | exported names are distinct up to case and usable everywhere, with one exception (see below) |
| `FailsOnlyInTrouble` | names make no export fail, with one exception |
| `ClosedAfterUse` | the database is closed after both workers, and under a request only when Serve failed |
| `ShutdownEnds` | a process told to stop does |
| `CleanupReaches` | every row of a working backend gets its turn |

| Run | Instance | Checks | Distinct states |
|---|---|---|---|
| `Direct` | one S3 asset, 2 requests at a time, good and bad body, all direct operations, deletion, cleanup, expiry, restart | `NothingOrphaned`, `ReadyIsBacked`, `SealedBody`, `ImplementsLedger` | 686,000 |
| `Local` | two local assets, 2 requests, photo and torn video, unknown length, snapshots, deletion, cleanup, expiry, restart | `TypeOK`, `NothingOrphaned`, `ReadyIsBacked`, `SnapshotPinned`, `ReadyIsKept`, `DeletionDrains` | 1,290,000 |
| `Quota` | a legacy row without class and one more asset, local or S3, known and unknown length, two request ids, tight limits that an administrator changes | `NoOvercommit` | 664,000 |
| `Live` | Complete, DeleteEvent, Cleanup, 2 requests on one stripe, one internal event id with two public ids | `EveryCallReturns`, `DeletesWhatWasAsked`, `ImplementsLedger` | 40,000 |
| `Retry` | one request at a time, failing steps, late PUTs, restarts | `DeletionFinishes` | 7,300 |
| `ReadyHasObject` | as `Direct` | `ReadyHasObject`: violated | |
| `Import` | two assets, two jobs, two transfers at a time, automatic policy, lost answers, cancel, retry, crashes | `ImmichTypeOK`, `AccountedIsThere`, `NothingLeftPending`, `ProgressKept`, `AutoTakesOnlyItsOwn` | 1,414,000 |
| `ImportReuse` | one asset, two jobs, one event and one binding id used twice, every operation, failing statements, SIGTERM, crashes | `OneAlbum`, `TransfersPinned` | 1,867,000 |
| `ImportLive` | two events with automatic bindings, one per pass, three jobs, cancel | `JobEnds`, `AutoImportReaches` | 193,000 |
| `WrongServer` | one event id used twice, two targets | `AccountedIsThere`: violated | |
| `Server` | limiter: 3 keys, table of 2, 2 requests; addresses: 2 trusted, 2 not, 2 invented parts, 2 proxies; sign-in: 2 processes with different passwords, 2 browsers, 2 requests, 3 starts; challenges: 3 guests for 2 slots, 2 tokens and a foreign one; registry: 2 processes, 3 binaries, 5 environments, a legacy asset; export: 2 runs, pairs of 8 and triples of 3 awkward names | `RoomForNewKeys`, `ChargedToNearestUntrusted`, `PasswordSessionsCurrent`, `OneSessionPerFlow`, `OneGrantPerToken`, `NothingRepointed`, `SchemaNeverForks`, `ManifestMeansComplete`, `PortableNames`, `FailsOnlyInTrouble`, `ForgettingIsInvisible`, `RefusedOnlyWhenFull` | 772,000 |
| `ServerLive` | one process started twice, 2 browsers, 2 sign-ins at a time for one slot; 3 handlers; 5 rows of which 3 are broken, pages of two, 2 launches | `SlotsComeBack`, `ShutdownEnds`, `CleanupReaches`, `ClosedAfterUse` | 39,000 |

**Bounds.** Two requests and Cleanup are enough for every pair of operations to meet, which
is all that the locks of one event distinguish: readers share, a writer excludes everybody,
and a third reader adds nothing to two. One asset suffices where the properties speak of one
key; two are there where a page, a list or a removal could touch the wrong one. Two public
ids under one internal id are the shortest reuse. The tight limits can each be reached, and
exceeded by one, with the bodies of the instance. `Ops` selects the operations of a run, so
that each run stays small; together the runs take every action.

For the importer, two assets make a job that is finished in part and two batches of an automatic
binding; two jobs make every kind of job follow every other; two bindings under one id are the
shortest reuse. Two bindings and pages of one make the cursor wrap around.

For the other parts: a table of two and three keys is the smallest that fills up while an old key
is still throttled; two processes, browsers and requests are the shortest overlap of a rotation or
of two callbacks; a table of one sign-in is full as soon as one is abandoned, and the second one
meets it; the environments contain every way in which a key can be repointed, doubled or left out;
of five rows on pages of two, three broken ones fill a first page and share the second with a
working row. The limits of the
code (10000 keys, 512 sign-ins, 8 challenges, pages of 1000) are constants.

**Finding 1** (`ReadyHasObject`). `docs/storage.md` says that cleanup excludes all ready
assets and that rechecking retired keys "cannot delete a newer asset". removeAttempt puts the
key into `s3_cleanup` before it deletes the object and the row. When one of these two fails
(or only its answer is lost), the row stays pending. The guest still has its upload session:
Authorize and Complete work as before and make the row ready. An hour later cleanupRetired
deletes the object of the retired key without looking at the asset row, and the ready asset
has no file. `ReadyIsBacked` states what does hold: this is the only way to lose the file.

**Finding 2** (`WrongServer`). `docs/export-immich.md` says that a read lock pins the event during
an active job, so that its deletion is refused. `execute` takes that lock in `media.Snapshot`, after
`Validate` has called the server, and gives it back before the transaction that ends the job.
While `Validate` waits for its answer the event can be deleted, SQLite gives the ids of the deleted
rows to the next ones, and `execute` goes on with the ids it has. If the event with the old id is
bound to another target, its media go to the old server and are recorded as imported in the new
binding; and the job that is ended is whatever job has the id now, perhaps one that was never
claimed. The monitor does not see that the row was replaced. `AccountedIsThere` and the other
properties of `Import` are therefore checked without deletions, and `ImportReuse` shows what holds
with them.

**Two observations about exports** (no runs of their own; the properties name them as exceptions).
A file is written to its name with `.part` appended, and names are made unique only against each other.
If `a.jpg.part` was uploaded before `a.jpg`, the first keeps the name that the second one's temporary
file needs: `O_EXCL` fails, and so does every export of that event, while
`docs/export-immich.md` lists credentials and unavailable objects as the reasons.
`FailsOnlyInTrouble` holds with exactly this case as its exception.

And `Filename` looks for a Windows device name, then cuts the name to 180 bytes, then trims the blanks
that are now at its end. The filename `con`, followed by spaces past byte 180 and any other character, is
no device when it is checked, and is exported as `con`; an upload accepts up to 255 characters, and
`docs/export-immich.md` says that device names are handled. Without `BlanksToTheLimit` TLC finds this
name in `PortableNames`; with it the theorem says that there is no other way to get a device name.

**Fairness.** Safety needs none. `EveryCallReturns` assumes that a goroutine that can take a
step again and again takes one: no operation waits for anything but a lock, every transfer
and call has a deadline, and Go's mutexes hand themselves to a waiter instead of starving it,
hence strong fairness. `DeletionFinishes` assumes besides that the administrator repeats a
failed deletion when the event is not busy, and that the database and the stores do not fail
every time; `docs/storage-backends.md` calls a failed deletion closed and retryable. No fairness is
assumed of guests, of Cleanup's schedule or of restarts. For the importer, weak fairness of the
worker: statements and calls have deadlines and return, if only with an error, and a pass is due
five seconds after the last one. `ImportLive` assumes a working database and no restarts: the
transaction that ends a job is not repeated when it fails, and the job then stays running until the
next start.

In `ServerLive`: strong fairness of every request inside sign-in, which waits only for the
discovery mutex, behind calls that end after ten seconds; weak fairness of main, whose timer fires, and of the two workers,
which notice that their context is done, but none of handlers, which may outlast the drain; of the
maintenance ticker, strong where a pass may be cut short by its deadline but not every time.

Each property has a mutant: the change of one mapped definition that breaks it (a lock taken
over readers, a key that is not retired, a public id that is not compared, and so on).

## 4. Proofs

The theorems hold for every value of the constants that satisfies the assumptions of the module:
any number of goroutines, events, assets, jobs, servers, browsers, keys and proxies. The
assumptions say that the value standing for "none" is no proper id, that bounds, limits and sizes
are natural numbers (positive where the code has a positive constant), that `Idle` of the limiter
is at least a minute, that trusted addresses are addresses, that a configuration does not name an
S3 backend `local-default` and makes one of its own backends the active one
(`config/backends.go` refuses others), and that a migrated table has finitely many legacy rows. For
the exporter they say that the names the code writes itself (`photo`, `photos`, `.part`, `_`, the
suffixes) are in lower case and need no cleaning, that an original name does not begin with an
extension once it is trimmed (`Filename` trims dots), and that there are different suffixes for as
many files as a snapshot has.
Nothing is assumed about how assets hash to stripes, which operations a run selects, or how bodies
sniff. TLC evaluates every assumption in the runs of its component.

### The media service

`IInv` (MediaInv) is the inductive invariant. The properties are not inductive: that a
`DELETE` of a row orphans nothing depends on where in removeAttempt the goroutine is, and on
nobody else working on the row. So `IInv` adds

- `LocalsOK`: which local variables are set at which label;
- `LocksOK`: readers and writer of an event exclude each other, and every label holds the
  locks the code needs there;
- `TablesOK`: an unused key has no object, file, URL or retirement; a local row has no URL
  and is not retired;
- `WorkOK`: what a goroutine knows about the row it works on, label by label (e.g. at
  `f_commit` the object is the verified one, or the key was retired);
- `UploadsDisjoint`, `EmptiedOK`, `SnapshotOK`, `PassOK`: uploads own different rows, an event
  about to be dropped is empty, snapshots list ready rows, cleanupRetired lists retired keys.

The argument: from the locks follows that whoever holds a row holds it alone (`HolderAlone`,
`WriterAlone` in MediaControlProofs); a step touches at most one key, which nobody else holds,
so what the others know stays true (`StepKeeps` in MediaProofs), and each action is left with
the proof for its own key. Three steps take no lock and are argued separately: the guest's PUT
finds no object and no local row, cleanupRetired touches retired keys only (`SweepKeeps`), a
crash leaves nobody to rely on anything.

| Theorem | States |
|---|---|
| `Invariant`, `TypeCorrect` (MediaProofs) | `Spec => []IInv`, `Spec => []TypeOK` |
| `NeverOrphaned`, `ReadyBacked`, `SnapshotsPinned` (MediaProofs) | the three state properties |
| `Marks` (MediaStepProofs) | `Spec => []MarksOK`: the deleting flag stays on the row that was asked for |
| `BodiesSealed`, `ReadyKept`, `DeletionAsked`, `DeletionOnlyDrains` (MediaStepProofs) | the four action properties |

The action properties follow from lists of everything one step can do to one asset row
(`RowSteps`), to one event row (`EventSteps`) and to the object of a ready row (`BodyKept`).

**The refinement** (MediaStepProofs). `ServiceIsALedger` is `Spec => ImplementsLedger`. Beyond `IInv`
it needs `PubsOK`: public ids are handed out once and in order, and an asset row belongs to an event
that exists. `StepKinds` says that what the ledger can see of a step is one of eight: nothing, an
event opened, marked or dropped, a row reserved, finished, withdrawn or removed. For each kind there
is one lemma that gives the ledger's step or its stuttering. A removal erases a medium that is private
because `RemoveRow` runs only on such a row; a finished upload publishes what the object was
before the step, because the step itself leaves the object alone.

**Capacity** (MediaStepProofs). `NeverOvercommitted` is `Spec => NoOvercommit`. The limits are checked
once, when a row is reserved; what follows may shrink a row but not let it grow. That needs `CapacityOK`
(MediaInv): a row belongs to a session of its own event, so that it is charged to one scope for life; a
finished upload has at most the bytes it reserved; and Complete verifies the size and the class that its
row still has. `Charges` says that a step adds one row within the limits, settles or removes one row, or
leaves the rows alone, and `ScopeStep` carries this to the usage of any scope (an event, one of its
classes, a session). `Used` adds up the rows of a finite set in an order chosen by CHOOSE, of
which nothing is known: `SumsSplit` shows by induction over the subsets of the set (`Gather` in
NumberLemmas) that taking any one element out leaves the rest, so that a step that changes one row
changes one term.

### The importer

`ImportInv` (ImmichProofs) is inductive with every operation, including deletions after which
SQLite hands the same ids out again:

- `RefsOK`: jobs refer to bindings, bindings to events, and every marker was drawn;
- `ExecOK`: which of the ids that `claim` read and which parts of the album are set at which label;
- `MarkersOK`, `CreationOK`: no two bindings share a marker, no server was asked for a marker whose
  binding is `new`, and between the read of the marker and the POST nobody has used it. Without the
  last part `OneAlbum` is not inductive: nothing else stops a second POST;
- `PinOK`: from the snapshot on the event is open and only its media are handed out.

`KeepInv` adds what jobs achieve, and needs that no event is deleted: the hypothesis
`"delete" \notin Ops` of the theorems marked so in the table below. It cannot be dropped: finding 2 is a counterexample
to `AccountedIsThere`. `KeepInv` says that the job being executed runs for the binding it was claimed
for (`BoundOK`), that the album in memory is the one on record (`AlbumAt`), what each transfer knows
of its row (`TaskOK`), that the active job of a binding is its last (`QueueOK`), that until a job fails
the pending rows are those it has not handed out (`PendingOK`), and where rows without a job come from
(`ImportingOK`, `WaitingOK`). `TaskOK` says of a transfer that belongs to an automatic job that the
job selected the row; without this `AutoOK` is not inductive, because `TransferFail` may set an
accounted row back to pending. Every step is one of a few kinds (`KeepSteps`): rows selected for a new
job, recovery, claim, finish, a move of one transfer, a move of the worker, or nothing of this.

### Sign-in

`SessionsFollowCredential` is inductive with the types; the argument turns on
the insert, which compares the hash that the process remembers with the stored credential again, and
on the start of a process, which revokes password sessions in the transaction that changes it.
`SignInOnce` needs `FlowInv`: what a browser or a request knows of a sign-in was begun for that browser (`Bound`); whoever took a row out of `oidc_transactions` is alone with it until
it is answered (`TakenOnce`); a session that was made belongs to a row that is gone (`MadeOnce`).

### The parts around it

- `ShutdownInv` and `ChallengeInv`: what each place of main, and of a request, relies on.
- `RegistryInv`: every history a process has checked begins with its scripts (`MigratedInv`); from
  its Reconcile on, what a process was configured with is what is registered, and a row that names a
  backend was put where that backend is (`RegisteredInv`), although another process may add to the
  tables between any two steps.
- `LimiterInv`: an entry is never older than the last sweep allows. The refinement maps a key that
  is not in the table to a full bucket; `Idle >= Minute` makes a bucket that is swept a full one,
  whatever its rate.
- `ExportInv` (ExportProofs): an entry of the tree is the directory, a whole file of this run under its
  final name, or a temporary one; the files before the current one have their names; the temporary file in
  use has taken no other one's place; without trouble nothing else is there. What it needs of the names is
  `NamesOK`: there is one for each file, all different up to case and without separators, for every
  snapshot. `FilenamesAre` shows this file by file. That a free suffix exists (`SuffixFree`) is the
  pigeonhole principle: the candidates of one name differ from each other, and there are more of them
  than names in use.
- `AddressInv`: the end of the header is what the proxies wrote, sender by sender. `WalkStops` then
  follows the loop from its last part: through trusted senders it goes to the sender before, and at
  the first other one it stays, whatever is left of the header.

| Theorem | States |
|---|---|
| `PublicIds`, `ServiceIsALedger` (MediaStepProofs) | `PubsOK`; `Spec => ImplementsLedger` |
| `CapacityRelied`, `NeverOvercommitted` (MediaStepProofs) | `CapacityOK`; `Spec => NoOvercommit` |
| `ImportInvariant`, `ImportTypes`, `AlbumsOnce`, `SnapshotPins` (ImmichProofs) | `ImportInv`, `ImmichTypeOK`, `OneAlbum`, `TransfersPinned`, with id reuse |
| `KeepInvariant`, `AccountedThere`, `NothingForgotten` (ImmichProofs) | without deletions: `KeepInv`, `AccountedIsThere`, `NothingLeftPending` |
| `ProgressIsKept`, `AutoKeepsToItsOwn` (ImmichProofs) | without deletions: the two action properties |
| `AccessTypes`, `SessionsFollowCredential`, `SignInOnce`, `BeginRefusesOnlyWhenFull` (AccessProofs) | types; `PasswordSessionsCurrent`, `OneSessionPerFlow`, `RefusedOnlyWhenFull` |
| `DatabaseClosedLast`, `TokenAdmitsOne` (ServerProofs) | `ClosedAfterUse`, `OneGrantPerToken` |
| `RegistryInvariant`, `SchemaForksNever`, `NeverRepointed` (ServerProofs) | `RegistryInv`, `SchemaNeverForks`, `NothingRepointed` |
| `LimiterInvariant`, `NewKeysHaveRoom`, `SweepingIsInvisible` (ServerProofs) | `LimiterInv`, `RoomForNewKeys`; `Limiter` implements `TokenBucket` |
| `NearestUntrustedPays` (ServerProofs) | `ChargedToNearestUntrusted` |
| `NamesArePortable`, `ManifestIsComplete`, `FailureHasAReason` (ExportProofs) | `PortableNames`, `ManifestMeansComplete`, `FailsOnlyInTrouble` |

Induction over numbers, which `ClientIP`'s loop, the smallest and largest ids of a table and the list of
exported names need, goes through the existence of a least element (`LeastOf`, `Climb`); induction over
the subsets of a finite set through the library's theorem about finite sets (`Gather`). All are in
NumberLemmas: what is to be shown is stated as membership in a set, because the provers instantiate no
operator.

The parts of MCServer are proved about with their own specifications (`AccessSpec`,
`RegistrySpec` and so on), which is what a behaviour of MCServer that chose the part satisfies; no
proof uses their fairness.

Every safety invariant and every action property that a passing run checks is the statement of a
theorem (four of the importer's without deletions, see above), and so are both refinements. Only model-checked are the liveness properties:
`EveryCallReturns`, `DeletionFinishes`, `JobEnds`, `AutoImportReaches`, `SlotsComeBack`, `ShutdownEnds`
and `CleanupReaches` (fairness and ENABLED are out of the prover's reach).

## 5. Not modelled, and the plan

Not modelled on purpose:

- wording and layout of responses, logging, HTTP headers, the web interface;
- parsing of configuration: what a valid one can select is the assumption of Registry;
- HTTP signing and path handling of the stores, decoding of media formats beyond the verdict, and
  the ID token's claims beyond accepted or not: pure functions of their input;
- read-only reports (contributors, usage, import status, listings);
- handlers that only decode, authorize and call a service: the call is the action;
- the retry loop of the browser client: Media lets guests send every request in any order and any
  number of times, which includes what the client does;
- RFC3339Nano timestamps compared as text: trailing zeros are dropped, so two instants of one second
  may compare the wrong way round. Expiry and cleanup then move by less than a second, which the
  age flags of the models already allow;
- a job of the importer whose last transaction fails: nothing in the process repeats it.

What could come next: the claims of an ID token as data, so that the rules of `Verify` and of the allow
lists are more than one failing branch; timestamps as text, so that the order of two instants of one
second can be checked against SQL's; and a release that keeps event ids unused (AUTOINCREMENT) or takes the
read lock before the first call to Immich, under which the properties of the importer that need
`"delete" \notin Ops` should hold without it.
