# FooPodBridge in TLA+

FooPodBridge is a foobar2000 component that reads, and will write, the library
of an iPod: an `iTunesDB` database and the audio files it references, on a FAT32
volume that may be unplugged at any moment. This directory holds TLA+ modules
translated from its C++ source, TLC configurations that check them, and proofs
that TLAPS checks. Paths below are relative to the root of the repository;
`transaction.cpp` is `src/core/transaction/transaction.cpp`.

## 1. The system

### Components

| Component | State it keeps | Operations | Talks to |
|---|---|---|---|
| Transaction engine (`src/core/transaction/transaction.cpp`) | no state of its own but one process-wide lock; everything is in files on the player and in the recovery repository on the computer | `prepare`, `execute` (with cancellation), `recover`, `inspect_journal`, `discover_recovery`, `verify_baseline`, `retention_candidates` | two file systems, the caller's `current_identity` / `cancelled` / `progress` callbacks, the database validator |
| Transaction file system (`filesystem.cpp`) | a root; pinned directory handles for the length of a call | `create` (new files only), `append`, `flush`, `rename` (never over a file), `remove`, `read`, `list`; a read-only view for baselines | Windows |
| Snapshot store (`snapshots.cpp`) | `<id>.db`, `<id>.meta`, `.released`, last-known-good mark, on the computer | `save`, `inspect`, `mark_last_known_good`, `load_last_known_good`, `release_recovery`, `prune` | the engine, the recovery session |
| Recovery session (`recovery.cpp`) | the identity it was made for, the proof of a baseline and its directory; backup records on the computer | `inspect` (catalog), `remember_backup`, `find_backups`, `verify_backup`, `resume`, `restore_last_known_good` | engine, snapshot store |
| Device discovery (`src/core/device/device.cpp`) | catalog, epoch, mount epoch, pending flag, stop flag; the worker's token table | `start`, `request`, `refresh`, `current`, `is_current`, `stop`, worker `run`; pure `identify`, `inspect`, `safe_relative_path` | a backend that enumerates and watches volumes, a `changed` callback, the device journal scan (`device/recovery.cpp`) |
| Device service (`src/foobar/device_service.cpp`) | engine pointer, listeners, running and notification-pending flags | `subscribe`, `cancel`, `deliver`, `post_notification`, `on_init`, `on_quit` | discovery, foobar2000's main thread |
| Database core (`src/core/database`) | none: pure functions over bytes | reader, writer, editor, validator, comparator, hash58 | the transaction engine through `database_adapter.cpp` |
| Component shell (`src/foobar/component.cpp`, preferences, GUIDs) | user interface state | registration, preferences page | the device service |

The device service of this version rejects every write; the engine is reached
through `recovery_session` and directly by its tests. It is nevertheless the part
that can lose a user's library, and the part the design documents
(`docs/SAFETY_MODEL.md`, task 007) make most promises about. It comes first.

### What is hard here

* A crash, an I/O failure or an unplugged player between any two file calls.
  The formal database is replaced by two renames, so there is a window with no
  database at all; FAT32 does not make a rename atomic either.
* Evidence on two media: the manifest is written to the computer, then the
  marker to the player; a failure between leaves the two with different stories.
* Plans, manifests and journals outlive the library they were made against;
  recovery of one operation may be asked for after others have run.
* Cancellation races the commit.
* A recovery session decides by what it read without the engine's lock, from two
  media and record by record, while other callers run.
* A comparison of the player with its backup takes hours over two trees that
  others can change.
* The database comes from elsewhere and may be damaged, or hold what this
  program does not know; it must not be read beyond its end, nor lose that data.
* Discovery runs on a worker thread against requests, device changes, `stop`
  and callbacks; notifications are coalesced and delivered on another thread.

### What makes each component correct

* Engine: no lost update; the last good library stays playable; a vacant formal
  name can always be filled; nothing is touched before its evidence is whole;
  results tell the truth; recovery converges; finished operations are inert.
* Snapshot store: pruning keeps ten validated versions and everything pinned;
  an interrupted save or prune is not taken for a good snapshot.
* Recovery session: a restore goes through a transaction of its own, begins only
  over a library that is backed up, and waits for unfinished work; what is pending
  can be finished.
* Baseline: a proof is about one instant and one mount, and covers every file.
* Discovery: a published catalog belongs to the newest request; a token that is
  current names the mount it was issued for; nothing is published or called back
  after `stop`; every request is followed by a scan.
* Device service: no notification is lost, none is delivered to a cancelled
  subscription or after the component has quit.
* Database core: what the writer writes the reader reads back; an edit keeps
  references and counts consistent at each of its steps; data that is not
  understood blocks a rewrite; only a sound and rightly signed library is ready.

`PROJECT.json` lists every component with its status and every hazard with the
line where it bites.

## 2. Modules

| Module | Contents |
|---|---|
| `Transaction` | the engine: state, one action per file call, callers, failures |
| `TransactionProperties` | what the engine promises, and what the documents say of it |
| `LibraryRegister` | what the engine is to its callers, in the abstract: a compare-and-swap register |
| `TransactionProofs` | theorems about `Transaction` and their proofs: its invariants; that it implements the register and its commit window is recoverable; that what a call returns and writes down as settled is so; planned mounts, unknown databases |
| `RecoverySession` | the recovery session beside the engine (it extends `TransactionProperties`), and its properties |
| `SessionProofs` | a restore is backed and waits, and the engine keeps its promises beside a session: theorems and proofs |
| `Baseline`, `BaselineProofs` | the comparison of two trees and its properties; theorems and proofs |
| `DatabaseFormat` | the database file: reader, validator, comparator, writer, signature, as operators over sequences of cells |
| `Database`, `DatabaseProperties` | a database in use: opened, edited operation by operation, saved, inspected, damaged; and what that promises |
| `FormatProofs` | lemmas about the reader and the writer: what each of their operators returns for every file and every document |
| `RoundTripProofs` | lemmas about both together: the reader finds in the writer's output what was written |
| `DatabaseProofs` | theorems about `Database` and their proofs |
| `Snapshots` | the snapshot store as the engine and its callers use it, retention, and its properties |
| `SnapshotsProofs` | theorems about `Snapshots` and their proofs |
| `Discovery` | the discovery worker, requests, notifications, start and stop, and its properties |
| `DeviceService` | the service over `Discovery` (which it extends): main thread, tasks, subscribers |
| `MCTransaction`, `MCRecovery`, `MCBaseline`, `MCDatabase`, `MCSnapshots`, `MCDiscovery`, `MCDeviceService` | small instances for TLC |
| `DiscoveryProofs` | theorems about `Discovery` and about `DeviceService`, and their proofs |

The engine and the discovery share no state in this version: the engine takes the
identity the discovery publishes as its caller's `current_identity`, which is
`gen` and `Attached` in `Transaction`. `Transaction` and `Snapshots` look at the
same calls of the engine from two sides: the first knows every file on the player
and takes a snapshot for one file, the second knows every file of the snapshots
and takes the player for the library it holds. `RecoverySession` composes the session
with the whole of `Transaction`; the comparison it calls, and the database adapter the
engine is given, are modules of their own, since they share no variable with it.

### The engine: state

| Variable | In the code |
|---|---|
| `formal`, `media` | the files under `database_path` and under the audio paths |
| `tmp[o][m]`, `retired[o]` | `temp(r, target)` and `old_path(r)`: the temporary of an addition, the old database moved aside |
| `dev[o]` | the operation's small files on the player: `.journal`, `.commit`, `.done`, the staged database, the `.restore` copy |
| `host[o]` | its files on the computer: `old.db`, `new.db`, `manifest`, `finalized`, the `-before` and `-after` snapshots and the release of the former |
| `pc`, `op`, `mode`, `bound` | where the call holding `write_mutex` is, for which operation, in which handler, and the mount generation of the `guarded` file system |
| `opened`, `committed`, `refs`, `todo`, `clean` | the locals of `execute`, `recover_record` and `cleanup` |
| `base[o]`, `planGen[o]` | the digest and the mount generation a plan was made with; `base` is also what the manifest records |
| `cancel`, `gen`, `faults`, `outcome` | the caller's request to cancel, the mount, failures so far, the last result |
| `lastGood`, `copiedBy` | history: the last formal database, and who put an audio file there |

A file is `"none"`, `"torn"` (created, not known to be whole) or whole. Completion
and finalized records hold which database was chosen. A database is an
identity that names its audio; digests are equality of identities.

### The engine: actions

Each write is two actions, `Create...` (fails on an existing file) and `Fill...`
(append, flush, read back), taken at the location `pc` names; `Successor` gives
the order of writes. `Refresh`, `Copy*`, `VerifyStaged`, `Retire`, `Publish` and
`Confirm` are `execute` from top to bottom; `ObserveCancel`, `UndoBegin` its
cancel handler; `CleanTmp`, `CleanAudio`, `Unstage`, `Settle` are `cleanup` and
`finish_snapshots`, shared by execute, cancel and recover as in the code;
`Recover*` are the branches of `recover_record`. Every throw is `Reject` (a check
that does not hold) or `IoFailure` (any call may fail), with the outcome the
`catch` blocks give it. `Crash` ends the process between any two calls;
`RenameLost` is a crash inside a rename that loses the file; `Remount` unplugs
and replaces the player; `ForeignEdit` is another program.

### The engine: choices made

* `prepare` only reads, so it is one action. `execute` prepares again under the
  lock; what could change between the two is covered there.
* Space, capability and writability checks, a source file that changes and
  short reads are outcomes of `IoFailure`: they change no file and lead to the
  same handlers.
* All databases of an instance are accepted by the validator. A file the
  validator refuses is the same to the engine as one with an unknown digest.
* A snapshot's `.db` and `.meta` are one file; how they are written apart, `prune`
  and the sequence number are in `Snapshots`.
* Additions are copied and cleaned up in any order; the code goes in the order
  of the request.
* A caller that finds the lock taken gets `busy` and changes nothing: no action.
* `finish_snapshots` prunes the store before it writes the finalized record. That
  changes no file of this module but a released `-before` snapshot, and is in
  `Snapshots`; here the snapshot stays, so `AlreadyWritten` may accept an earlier
  `.released` without looking for it, as `release_recovery` does.
* The identity check of the guarded file system and the file call behind it are one
  step: a player changed between the two is not seen, here or in the code.
* Another program writes the library between two calls, not within one (`ForeignEdit`).
  The code compares the formal database for the last time at `transaction.cpp:390` and
  renames it at 396; what is written between is not examined.
* `RenameLost` is about the database files. An audio file that the rename of line 381
  loses is a copy that its operation cleans up or leaves missing, as after a crash
  before that rename.

### The engine in the abstract

`LibraryRegister` has three variables: the library, the library each operation was
planned against, and how far each operation is: free, recorded, open, decided old or
new. `Replace` is its compare-and-swap. `Register` in `TransactionProperties` maps the
engine to it: the library is `lastGood` (the formal database, or the last one while
the name is vacant), `base` is what was asked, and `StageOf(o)` reads the stage off the
files of `o`: its completion record, its journal on the player, its manifest. One
action of the register is not what one would ask of such a register: `Revert`, by
which an operation whose marker never reached the player puts back the library it
found, while another is open. That is `stale_rollback` (section 5); everything else
the engine does is a compare-and-swap.

### The recovery session: state, actions and choices

| Variable | In the code |
|---|---|
| `at`, `call`, `wanted` | where the call of the session is, which call, and its operation |
| `unread`, `catalog` | what `inspect` has still to read, and what it has found |
| `expected`, `proof`, `named` | `expected_`, `baseline_`, `backup_` |
| `backed`, `quiet`, `waiting` | history: what has changed since the last proof and since the call began |

`ReadJournal` and `ReadRecord` read one record each (`discover_recovery`, the loop of
`inspect`); `Merged` joins the two. `StartRecovery` and `StartRestore` enter the engine by its
`Recover` and `Execute`, whose steps then run as in `Transaction`; `Beside` notices their
return. `DecideRestore`, `Prove`, `PlanRestore` are the statements of
`restore_last_known_good`; `Refuse` is a check that fails, `Fail` an I/O error or a
cancelled call, `Busy` the lock found taken. `Others` is everything else that happens
to the engine.

* `verify_directory_baseline` is one step, by the property `ProofHeldAtOnce` of
  `Baseline`; whether the backup matches is free.
* Other callers do not execute again an operation they have on record: `prepare`
  refuses an identifier that has one.
* `load_last_known_good` and `find_backups` only read; a failure of theirs is `Fail`.
* `inspect` also lists the snapshots, for its caller, and throws if two have one number.
  They are taken to be listable, which is what `NumbersDistinct` of `Snapshots` says.

### The baseline: state, actions and choices

`tree` holds both trees, block by block; `stage` is how far the comparison is, `unlisted`
and `listed` the enumeration under way, `paths` the first one, `reads` and `entry` what
has been read of each block and its recorded content. `List`, `Read` and `Reread` are
one call on a file system each; `Listed`, `PassDone`, `RecheckDone`, `Conclude` the comparisons
between; `Throw` any that fails. `Overwrite`, `Create`, `Remove`, `Remount` are the
world. `held`, `mid`, `midGen`, `stayed` are history.

* A digest is its contents; blocks are read in any order, not file by file.
* While a comparison runs no block comes back to a content it had before on that
  side: nothing that reads could notice. Files that come and go between two
  enumerations are not noticed either and need not be.

### The database: state, actions and choices

| Variable | In the code |
|---|---|
| `file` | the bytes of the iTunesDB |
| `phase`, `doc` | whether a `database_document` is held, and which |
| `draft`, `todo`, `spare`, `known` | the locals of `editor::apply`: the model being edited, the rest of the plan, the injected identifiers, those in use |
| `result`, `shown` | the last answer; the snapshot `inspect` makes for discovery |
| `edits`, `damages`, `written` | bounds; history: the writer generated the file |

`Open`, `Create`, `Close`, `Save` are the reader's and the writer's entry points; `StartEdit`, one
action per kind of operation, `GiveUp` and `FinishEdit` are `editor::apply`; `Inspect` is `inspect` of
`device.cpp`; `Damage` scribbles on or cuts off the file.

* A cell is a 32-bit field or one UTF-16 unit; offsets and lengths count cells.
  The model can so not see an offset that is not a multiple of four.
* A read outside the file is an outcome of its own, `undefined`, which
  `ReadsStayInside` excludes.
* Of the node tree, the preserved ranges and the diagnostics only what decides is
  kept: the flag that data is opaque.
* The signature is a weighted sum over the cells that are signed, with the key as
  one weight, in place of SHA-1 over derived keys. It has collisions; nothing that is
  checked or proved rests on its having none.
* A path is a sequence of units too. Some units stand for the characters that the
  adapter and `safe_path` look at (colon, slash, dot, space, one for all that are
  forbidden), some for whole names (`iPod_Control`, `Music`, a reserved device name).
  `MaxPath` counts units where the code counts bytes.

### The snapshot store: state

| Variable | In the code |
|---|---|
| `file[s][p]` | part `p` of snapshot `s` on the computer: `<id>.db`, `.meta`, `.lkg`, `.released`; a snapshot is named by its operation and `before` or `after` |
| `sequence[s]` | the number its metadata records |
| `finalized[o]` | the `finalized` record of an operation |
| `stage[o]`, `base[o]`, `formal` | the player, reduced: whether the manifest, the journal and the completion record of `o` are written and which way it went; the library `o` was planned against; the formal library |
| `pc`, `op`, `snap`, `opened`, `doomed` | where the call is, for which operation and snapshot; whether the file it is writing exists; what `prune` has still to remove |
| `faults`, `unread` | failures so far; inspections that could not read some metadata |

### The snapshot store: actions and choices

`SaveAgain`, `SaveBegin` are `save_snapshot` of `transaction.cpp`, `SaveCheck` and
`SaveWrite` are `snapshot_store::save`; `Finish`, `Release`, `ReleaseWrite`, `Prune`,
`Unpublish`, `Drop`, `Forget`, `Finalize` are `finish_snapshots` with what it
calls; `RetentionCandidates` is `retention_candidates`; `Execute`, `Record`, `Install`,
`Decide` and `Recover` are what of the engine decides which of them are called.
`Reject` and `Blocked` are the throws, `Fault` a crash or a failed call anywhere.

* Each call inspects the catalog afresh. `Inspect(H)`: an entry whose metadata cannot
  be read this time, because it is damaged or another program holds it open, is
  taken for damaged (`snapshots.cpp:44`), and its number for zero.
* `Decay` damages a stored database between two calls. Metadata does not decay: that is
  `H` again.
* `mark_last_known_good` takes no lock. Its callers have to keep it apart from
  transactions, and the model does.
* `Known(o)` stands for the branches of `recover_record` that lead to
  `finish_snapshots`; which files on the player decide it is in `Transaction`.
* `load_last_known_good` only reads. The sequence number does not overflow: 2^64
  snapshots are not made.

### The discovery and the device service: state

| Variable | In the code |
|---|---|
| `catalog`, `pending`, `epoch`, `mountEpoch`, `scanStop`, `changed` | the members of `discovery` under `mutex_`; `changed` says whether a callback is set, `catalog.failed` that the problem is `enumeration_failed` |
| `wpc`, `scan`, `tokens`, `nextToken`, `tokenMount` | where `run` is, and its locals; `scan.open` is a database that has been read and not yet recorded |
| `rpc[t]`, `mpc` | a thread between the critical section of `request` and the callback it copied; where `start` or `stop` is |
| `watching`, `events` | the backend's registration, and notifications the system has not delivered |
| `running`, `posted`, `engine`, `listeners`, `active` | the fields of `shared_state` and of each `listener`; `posted` is `notification_pending` |
| `queue`, `spc`, `calls`, `word` | foobar2000's queue of main-thread tasks; where the main thread is; what `deliver` has still to do |
| `mount`, `changes`, `refreshes` | the world: which mount of each player is there, numbered, and how much happened so far |
| `issued`, `joined`, `told`, `stale` | history: snapshots ever published, subscriptions made, what a subscriber was told last and whether the catalog changed since |

### The discovery and the device service: actions and choices

A critical section of the mutex is one action (`Request`, `Take`, `Publish`, `Discard`,
`Stop`, `Collect`, `Subscribe`), what is done outside it is others: `Enumerate`,
`Read` and `Record` of one device (its last check, the look at the stop flag and the
issue of the token together), `Fail` for an exception, `Callback` and
`WorkerCallback` for the copied callback. `Start`, `Watch`, `Spawn`, `FirstRequest`
and `Stop`, `Unwatch`, `Join` are the statements of `start` and `stop`. `OnInit`,
`Starting`, `Started`, `RunTask`, `DeliverTask`, `DropTask`, `Call`, `OnQuit`, `Stopping`,
`Quitted` are the main thread; `Background` lets the other threads of `Discovery`
run beside it, a callback posting a task as `post_notification` does.

* A device is its physical and volume identity together; a snapshot is reduced
  to its token, generation, revision and the mount it was read from, 0 standing for
  one that could not be read or was removed. Which candidates are left out, and
  what `inspect` says of a database, change no shared state.
* Players may be mounted before `start`; any may come or go at any time. A change
  while the backend is registered becomes a notification, delivered later.
* `CM_Unregister_Notification` waits for a notification that is being delivered
  (`windows_backend.cpp:323`), so `Unwatch` does.
* `post_notification` is one action. Between its exchange and the task's arrival
  nothing else looks at the flag; a task that arrives after `on_quit` is modelled.
  A throwing `inMainThread` is not.
* Subscribers come and go from any thread. A call may still reach one that
  cancels at that moment; the contract leaves that to the consumer
  (`service_v1.h:157`).

## 3. Runs

`tlc -config <cfg> <module>`. Sizes are distinct states.

| Run | Instance | Shows |
|---|---|---|
| `swap` (`TransactionSwap.cfg`, 13 thousand) | one update, two additions, one deletion; 3 failures, 1 remount; fairness | type invariant, evidence first, recoverable window, pinned recovery point, settlement, mount discipline, truthful results; recovery converges |
| `chain` (`TransactionChain.cfg`, 0.8 million) | an empty player, its initialization, two updates planned against the library that makes, and another program that installs either of two libraries; 1 failure | the engine implements `LibraryRegister`: no lost update, one open operation, decided once; the audio of the last good library stays; no library of another program displaced |
| `recovery` (`Recovery.cfg`, 0.26 million) | a session, an initialization by another caller, the session's restore; 1 failure, 1 remount; fairness | one open journal; a restore begins over a backed library only and waits for what is pending; what is pending is finished |
| `baseline` (`BaselineComparison.cfg`, 1.4 million) | a file of two blocks and one of one block, in two directories; 2 changes, 1 remount | a proof is about one instant, an audit about contents both sides had, nothing is left out |
| `database` (`DatabaseUse.cfg`, 0.13 million) | sound, strange, exhausted, ambiguous and damaged files; ten plans, three generation contexts, twelve kinds of player; an edit and a damage, or two edits | no read outside the file; data in the places `UnknownData` names is reported, and its file saved unchanged or not at all; the writer's output passes its own check and can be edited again; the engine takes from it the paths its tracks name, and none out of the music; the draft is sound after every operation; new identifiers are new; a ready library is sound and signed |
| `retention` (`SnapshotsRetention.cfg`, 1.1 million up to symmetry) | an initialization and two updates, two snapshots kept, 2 failures or damaged files, 1 inspection that misses entries | the catalog announces only what is there, numbers distinct, restore points kept, the newest kept |
| `discovery` (`DiscoveryScans.cfg`, 2.1 million) | two players, there before start or not; two refreshes or changes; stop at any time | accepted handles name the present mount, no device missed, tokens not reused, silence after stop |
| `service` (`DeviceService.cfg`, 0.14 million) | one player, one subscriber, one refresh or change, a start that may fail, quit at any time; fairness | tasks coalesced, no notification lost, none after quit; requests answered; stop and quit end |
| `stale_rollback`, `referenced_audio`, `half_saved`, `dropped_records` | see section 5 | disagreements of code and documents |

Bounds. `MaxFaults` bounds I/O failures and crashes, `MaxGen` remounts; both are
guards of the actions concerned. Three failures suffice to interrupt an
operation, the recovery from that, and the recovery from that recovery. Three
operations are the fewest that let a stale record meet a library that was
replaced twice.
One failure is enough in `chain`, where the harm comes from the order in which
records, callers and another program meet (with two, 8 million states, it passes
too, in more time than a run should take); `stale_rollback` and
`referenced_audio` need two, and have them.
`Keep` is 2 in place of ten: with three operations there are up to five snapshots, so
the limit is passed with marked, held and damaged ones among them. `MaxUnread`
is 1, and must be: if both inspections of one save miss the same entry, the new
snapshot gets its number, and once both can be read `inspect` refuses the
catalog. With `MaxUnread` 2 TLC finds that; no document promises otherwise.
Symmetry is used in `retention` only, for the two updates, which nothing tells apart.
`MaxInputs` bounds refreshes and changes of what is mounted, together: removing a
player and mounting it again, or removing it and refreshing, is what an old scan,
an old token or a late notification needs to do harm; the first request comes
from `start`.
`Width` is 997 in place of 2^32: an addition that wraps is reached by files that
hold such values, and by the library whose last identifier is `Width` - 1. Texts
are of one or two units, one of them a surrogate pair and one not encodable, so
that lengths of both encodings differ. `MaxEdits` bounds plans and damages together:
damage after an edit, or an edit after an edit. Every cell of the two damaged
files is overwritten and every prefix of them taken. The largest library read is of
290 cells, the largest written of 270, so that a plan of two tracks may be refused for
its size. `MaxPath` is 8: a song needs five units. Locations are named that lack the first colon, lead
upwards, name a device, use a slash for a colon, or name audio of the player.
`UnknownDataReported` and `ReportedDataKept` are about the places `UnknownData` lists:
behind the root and its datasets, in datasets that are not looked into, behind and among
the children of the tracks and playlists that are read. Not among them are a second
dataset of a kind, the mirror of the playlists included, fields of a known header that
are not read, and the rest of text children and members. There the reader is silent and
a save loses the data: two files of that kind are the run `dropped_records`, whose
`UnknownDataKept` asks for all data, wherever it stands.
In `baseline` two changes are what it takes to deceive a comparison that reads each
side once: one on either side. In `recovery` one failure is enough to leave an
operation pending, and one remount to outdate a session.

Deadlock is not checked: when every operation is finished and no failure is
left to happen the model stops, as the program does; so does a stopped discovery.

Fairness of the engine (`FairSpec`). `WF(Step)`: the thread that runs a call goes on to its next
file call, which nothing in the code waits before. `SF(Recover(o))`: whoever
has a record asks for its recovery again and again; `recovery_session::resume` is
that request, and other callers may hold the lock in between. Nothing is
assumed of failures, which are bounded, of remounts or of other programs.
`RecoveryConverges` supposes that no torn file of the operation stays behind:
the code leaves those to the user on purpose (task 007, SPEC.md:45). Its run has one
operation and nothing that prunes; where a released recovery point is pruned before the
finalized record is written, the code does not converge (section 5, under `half_saved`).

`FairSessionSpec` says the same of the engine's and of the session's thread, that a
session that has become void is replaced, and that the resumption of an operation
that is pending is asked for again and again and meets a free lock often
enough. `ResumptionConverges` is about an operation that nothing keeps from being
finished (`Clear`): all records readable, no torn file of its own, and the library
one that its record knows. The last is needed. An operation whose record on the
computer is not final stays pending once another has replaced its library
(`prepare` looks for open journals on the player only), `recover_record` then
refuses it, and `restore_last_known_good` refuses to begin for ever after.

`FairSpec` of `Snapshots` is the same assumption about the same thread and the
same callers.

Fairness of the service (`FairService`, and `Threading` for the discovery alone):
the worker, the watcher, threads about to call a callback and the main thread run on,
each weakly fair: none of them waits for more than a mutex held for a moment, apart
from `wake_.wait` and the join, which are guards. The system delivers its
notifications. Nothing is assumed of refreshes, changes, subscribers, `on_quit`,
or of a start that fails.

Every property of a passing run has a mutant: an operator in the module, marked
as such, that stands for a plausible bug, under which TLC finds the property
violated.

## 4. Proofs

`tlapm` checks them in `TransactionProofs.tla`, `SessionProofs.tla`,
`SnapshotsProofs.tla`, `DiscoveryProofs.tla`, `BaselineProofs.tla`, `FormatProofs.tla`,
`RoundTripProofs.tla` and `DatabaseProofs.tla`. Those about the engine hold for every
set of operations, databases and audio, and for every bound, under the assumptions
`DataAssumption`, `RequestAssumption` and `StartAssumption` of `Transaction`.

| Theorem | States | Inductive invariant |
|---|---|---|
| `TypeCorrect` | `[]TypeOK` | `Typing`: with what `todo` may hold and that a running operation, and every recorded one, has a plan |
| `EvidenceHeld` | `[]EvidenceFirst` | `EvidenceInv`: which files are whole at each location, since `Touched` alone says nothing of the writes before the first change; that released snapshots stay, which it also says, holds here because nothing prunes, and the theorem does not claim it |
| `PinHeld` | `[]RecoveryPointPinned` | `PinInv`: the locations after the completion record imply it |
| `OneJournal` | `[]OneOpenJournal` | `OneInv`: an operation between `Refresh` and its marker excludes other open journals |
| `FormalStaysPlayable` | `[]FormalPlayable` | `PlayInv`: the audio of the formal database is in `refs` whenever cleanup runs, and present whenever an install is next |
| `ResultsAreTrue` | `ResultsTruthful` | `ResultInv`: `ModeInv`, what a call in each phase has chosen; `SweepInv`, that what cleanup no longer has on its list is gone if it counts as clean; `SnapshotInv`, that a record finalized for the new library has its snapshots settled |
| `DoneIsSettled` | `DoneMeansSettled` | `SweepInv` at the call that begins the completion record, with `OwnInv`: nothing of an operation is where cleanup does not look |
| `MountsAreChecked` | `PlannedMountOnly` | `ModeInv`: an execution is bound to the generation of its plan, and a finished record is recovered without touching the player |
| `UnknownIsKept` | `UnknownKept` | `PlayInv`: the only step that moves a database out of its name still sees the planned one |
| `UpdatesKeepPlayable` | `[]LastGoodPlayable`, for updates | `PlayInv` for the last good library while the name is vacant |
| `UpdatesCompareAndSwap` | `NoLostUpdate`, for updates | the same invariant: `execute` reaches its renames only on the planned library |
| `WindowsRecoverable` | `[]WindowRecoverable`, for updates | `RegisterInv`: a vacant formal name is the window of an operation whose journal is on the player and which was planned against the last library |
| `EngineIsRegister` | `ImplementsRegister`, for updates | `RegisterInv` with all of the above: what is formal when a call has chosen, which file is being written where; one lemma per group of actions shows the step of the register it is |
| `CallsAreBounded` | a call takes at most 112 * `Width` steps, and nothing that happens meanwhile gives it back one | `Typing`: `Rank` counts what is left by the rung `pc` is on and, within the loops over files, the files to go |

Those "for updates" suppose `Fresh = {} \/ Library # NoDatabase`: no request is an
initialization, or the player has a library to begin with, and then `prepare` refuses
every initialization as long as there is one (`UpdatesOnly`: what is recorded was planned
against a library, in the vacant window too, since the journal that opened it is found
first). What is excluded is an empty player with initializations. That exclusion
is needed: with two on record the run `referenced_audio` shows the audio of the last good
library removed, so `LastGoodPlayable` is false there. The run `chain`, which checks
it and the register, has one initialization, which does no harm. `FormalStaysPlayable`, `UpdatesCompareAndSwap`, the types
of discovery, store and database, `OldScansDropped`, `RecoveryPointStays` and `DamagedStays` are
proved of any instance and are not repeated as runs.

Model-checked only: the liveness properties (`RecoveryConverges`,
`ResumptionConverges`, `ScanEnds`, `NotificationArrives`, `QuitEnds`), since liveness and
`ENABLED` are out of the prover's reach.

What is proved of termination is its safety half. Four theorems, one for each component with a
loop, give a measure in the naturals that every step of the running call decreases:
`CallsAreBounded`, `StoreCallsAreBounded`, `ComparisonsAreBounded`,
`ScansDoNotFeedThemselves`. In the first three no step of anything else increases it while
the call runs, so no call runs in circles, however faults, remounts, changes and other
callers fall in between. The worker of the discovery has no last step, since it may always
be asked again; there an input adds a fixed amount and all else decreases. That the
next step is possible and taken is left to TLC and to fairness. The measures count
files, so these theorems suppose that there are finitely many: of media (`Media`), of
operations (`FiniteOps`), of directories and blocks, of devices and threads. A device and a
process have no more.

Those about the recovery session hold for every number of other callers' operations,
faults and remounts, under `RestoreAssumption` too (a restore moves no audio).
`Composition` shows that every step of `SessionNext` is a step of the engine or a
failure that only counts as one, so the engine's invariants, `EngineInv`, hold beside
the session; `SessionInv` says what the session has read and knows.

| Theorem | States | Argument |
|---|---|---|
| `RestoresAreBacked` | `RestoresBackedLibrary` | `BackedInv`: between the second comparison and the engine only another caller can change the tree, and that ends `quiet` |
| `RestoresWait` | `RestoreWaits` | `WaitInv`: an operation that waits is still to be read or has been read as pending; for as long as it is pending at all, its record on the computer is (`PendingOnComputer`, from `JournalOnComputer` and `PinInv`), and the session reads the computer last |
| `SessionKeepsOneJournal` | `[]OneOpenJournal` | `EngineInv` |

Those about the snapshot store hold for every set of operations, every retention
and any number of faults and missed entries, under `SnapshotsAssumption`. One
inductive invariant, `IInv`, carries them all; it adds to `TypeOK`, `NoDanglingEntry`
and `RecoveryPointKept` three parts: `Where`, which operation and stage each
location belongs to; `Files`, which files of the snapshot at hand are whole
there; `Expendable`, that what `prune` has still to remove is valid, not marked
and not held for recovery. The last is what makes a list computed once safe to
work through.

| Theorem | States |
|---|---|
| `StoreTypes` | `[]TypeOK` |
| `NoEntryDangles` | `[]NoDanglingEntry` |
| `RecoveryPointStays` | `[]RecoveryPointKept` |
| `RestorePointsStay` | `RestorePointsKept` |
| `DamagedStays` | `DamagedKept` |
| `NumbersStayDistinct` | `[](unread <= 1 => NumbersDistinct)` |
| `NewestStay` | `NewestKept`, under `FiniteOps` too, since it counts |
| `StoreCallsAreBounded` | a call takes at most 38 * `Width` steps: what `prune` has still to remove only shrinks |

`NumbersStayDistinct` adds `NumberInv`: a number is chosen in one inspection and checked in
another, and while only one of them may miss entries the number is new to all of them
from the check on. The condition is needed: with two such inspections the property is
false (section 3). `NewestStay` adds `RetentionInv`: what prune counted as newer than
the first of its list is newer than all that is left of the list, and stays.

Those about the database hold for every file, format width and profile, every set of plans,
candidates and generation contexts, and any number of damages, under
`FormatAssumption`, `ProfileAssumption` and `DatabaseAssumption`. `ProfileAssumption` is what
`format_profile.h` has of numbers that must agree: no profile writes more than it reads,
and the version and playlist header that a signed library is written with are among those
`reader.cpp` admits.

| Theorem | States | Inductive invariant |
|---|---|---|
| `EverythingIsTyped` | `[]TypeOK` | `Typing`: it and `ReadsStayInside`, since a cell read outside the file would have no value |
| `ReaderStaysInside` | `[]ReadsStayInside` | the same, with `ReadType`: for any bytes, profile and key the reader answers with one of its errors or a document that fits the cells |
| `DraftsAreSound` | `[]DraftSound` | `DraftInv`: the draft is sound, and the editor knows every identifier the draft or the document has |
| `AddedIdsAreNew` | `GeneratedIdsAreNew` | `DraftInv`: what the document or the draft has is known, and what is known stays known until the plan ends |
| `ReadyLibrariesAreSound` | `[]ReadyIsSound` | `ReadyInv`: nothing is shown while a document is open, so no save happens behind what is shown |
| `AudioIsSeen` | `EngineSeesTheAudio`, under `AudioAssumption` | `SourceInv`: a document that is open while there is no file was made for an empty library, and its own bytes say again what it says; beside it `NamedIsConverted`, that the conversion gives exactly the path a location names, and `SafeStaysBelow` |
| `OutputIsAccepted` | `[]OutputAccepted` | `MasterInv`: no document and no draft has more than one master playlist, since the reader refuses a second and no operation adds one |
| `WrittenIsEditable` | `[]WrittenStaysEditable` | `EditableInv` beside `SourceInv`: while there is no file the open document holds nothing opaque |
| `EditsKeepTheRest` | between operations and after an edit, smart playlists, identifiers, the master's name and old tracks are what they were (`KeepsTheRest`) | `RestInv` beside `DraftInv`: an identifier that was ever in use is never taken again, so a track that has one is the track that had it |
| `OpaqueBytesAreKept` | while `doc.opaque`, a save writes `doc.original` | none: what `write` has been through before it answers (`WriteSucceeds`) |
| `UnknownIsReported` | `[]UnknownDataReported` | itself, with `Typing`; its substance is the lemma `ReadReports` of `FormatProofs` |
| `ReportedIsKept` | `ReportedDataKept` | `UnknownDataReported`, and what `write` has been through |

`OutputIsAccepted` is the way through the file. `write` reads its output with the reader,
which shares no code with it, validates and compares; the theorem says that this never
fails, so every field, text, count, length and offset that is written is found where it is
looked for. `RoundTripProofs` goes by the nesting of the file: a record written at an
offset is found there (`RecordPlaced`), records written one after another are found where
the sizes say (`PlacedParts`), a text decodes to the text it was encoded from (`TextKept`),
and so, loop by loop, data children, tracks, members, playlists, datasets and the root
(`TrackKept`, `PlaylistKept`, `SetsKept`, `RootKept`); `SignedStands` adds that the signature
changes no cell it covers. `MasterInv` is needed because the writer takes one master
playlist and the type of a document would allow more: the comparison would then fail.

`UnknownData` walks a file by the sizes of its records alone, the way a reader of the
format would look for data this program does not know; `ReadReports` shows that the
reader, whose loops go their own way through the file, comes by each of those places
(`ItemsWalk`, `TracksWalk`, `PlaylistsWalk`, `DatasetsWalk`) and sets the flag. What it does
not walk into, `dropped_records` shows to be lost.

The reader's loops are folds over a sequence of cells (`Iterate`). What they compute for
every input takes an induction over data. `FormatProofs` makes it without the library's
induction theorems: the indices at which a claim about an iteration fails are a set of
naturals, if there are any, one of them is the least (`LeastNatural`, by
well-foundedness), and the step from its predecessor refutes it (`Induction`,
`IterationIn`). On this rest the type of each loop's state, which says where the loop is
in the file (`ReadType`), and the sums of sizes in what the writer produces
(`SerializeSized`), and the loops of `RoundTripProofs`, where the state after each step is
given in full. Counts come from
the file; `Rounds` cuts a loop short where its state can only be in error.

Those about the discovery hold for every set of players and threads and any
number of requests, changes and scans, under `ThreadAssumption`. Four
invariants, each proved from the ones before it, one lemma per invariant;
`ScansDoNotFeedThemselves` needs a small one beside them:

| Theorem | States | Inductive invariant |
|---|---|---|
| `ScanTypes` | `[]TypeOK` | itself |
| `OldScansDropped` | `NoOldResult` | `RevisionInv`: the catalog has the newest revision; a request that waits, or the scan of the newest request, means that the catalog says scanning; so a publication never meets a finished catalog |
| `StopSilences` | `SilentAfterStop` | `ThreadInv`: without a registration there is no worker or the discovery is stopped; after the join the worker has ended |
| `HandlesPresent` | `[]CurrentIsPresent` | `PresenceInv`: as long as a scan was not told to stop, what it found is mounted or a notification is on its way; with `RevisionInv`, since an accepted handle was published under the newest revision |
| `CatalogsComplete` | `[]CatalogComplete` | `PresenceInv` too: every mounted player is found, still to be visited, or announced |
| `ScansDoNotFeedThemselves` | each step uses up `Work`, or is an input and adds at most `InputCost` | `OpenListed`: what a scan is reading is still on its list |
| `TokensUnique` | `[]TokenNamesOneMount` | `TokenInv`: the table holds each token once, and only for the device and mount epoch it was made for |

`CurrentIsPresent` is not inductive: a scan's private findings, and the
requests that will discard them, decide what is published later.

Those about the device service hold for any number of subscribers too. `QuitInv` says
that the flag is down whenever there is no engine, and from `on_quit` on; `TaskInv`
what the flag of a posted task says.

| Theorem | States |
|---|---|
| `QuitSilences` | `QuietAfterQuit` |
| `OneTaskWaits` | `[]TaskInv`: at most one task is on the main thread's queue |
| `ServiceKeepsDiscovery` | `Spec` of `Discovery`: the service is a refinement of it, so each theorem above holds under the service |

Those about the comparison hold for every pair of trees, any number of changes and
remounts, under `TreeAssumption`. One inductive invariant, `IInv`, carries the first three:

| Theorem | States | Parts of `IInv` it rests on |
|---|---|---|
| `ProofsAreInstants` | `[]ProofHeldAtOnce` | `Steady`: behind the first pass, what still is as recorded was so at its end, because a content that was left does not come back; `Rechecked`: what the second reading has confirmed so far; `Mounts` |
| `EntriesWereRead` | `[]EntriesWereOnBoth` | `Tracked`, `Taken`: what a block held since the call began, and what was read of it |
| `ListsAreComplete` | `[]NothingLeftOut` | `Covered`: a file that stays is in a directory not listed yet, or in the list |
| `ComparisonsAreBounded` | a comparison takes at most 12 * `Width` steps, and a change makes it longer by none | `TypeOK` alone |

## 5. Where code and documents disagree

Each has a run that finds it; `PROJECT.json` quotes the lines.

* `stale_rollback`: a record that reached the computer but never the player is
  recovered inside the commit window of a later operation, and reinstates a
  version that had already been replaced.
* `referenced_audio`: a stale initialization record recovered while the formal
  name is vacant sees no references and removes audio the last good library
  needs.
* `half_saved`: a crash between the two files of an operation's `-after` snapshot
  leaves a database without metadata. The catalog does not list it and the name is
  taken, so every later recovery ends in `snapshot_exists`: the operation is never
  finalized and the library it replaced stays held. There is a second way to the same end that the
  module has and this run's first trace does not show: a crash between the release
  of the recovery point and the finalized record leaves a snapshot that nothing holds
  any more. The operation's own prune or that of the next update takes it, and from
  then on `release_recovery` (snapshots.cpp:77-79) refuses every recovery of the
  operation.
* `dropped_records`: a rewritten library is made from the model alone. A second
  playlist dataset, and fields of a track header beyond those that are read, raise
  no dependency and are gone after an edit of something else.

Known limits without a run of their own: another program's write between the last
comparison and the renames of a commit (section 2); the generation of a snapshot counts delivered
notifications, not mounts, so a refresh that scans a player removed and mounted
again before its two notifications arrive publishes the new mount under the old token
until the first of them comes (`CurrentIsPresent` allows for a notification under way); and the
operation that stays pending, described under fairness.

## 6. Not modelled, and the plan

What is left, the most important first:

1. `identify` and `safe_relative_path` of discovery, and the media kinds of a
   display: pure functions over strings and numbers from the registry.
2. Initializations of an empty player in the register: `EngineIsRegister` supposes
   a library to begin with, or updates only. The run `chain` has one; what two of
   them may do to each other (`referenced_audio`) the register would have to allow.

Left out for good: Windows handles, path resolution and enumeration (the environment of
the file system and of discovery: they change nothing this program keeps); the
device journal scan, which counts records for display; the tables and rounds of
hash58 and SHA-1 (nothing here tells one digest from another but its input); the
read-only projections of the service contract and its rejected plans; the user
interface, registration and build.
