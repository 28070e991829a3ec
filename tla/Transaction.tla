---------------------------- MODULE Transaction ----------------------------
(***************************************************************************)
(* The device transaction engine of src/src/core/transaction: a plan is    *)
(* prepared against the library database found on the player, executed     *)
(* under one process-wide lock, and recovered from its journal after a     *)
(* failure.  One step of the model is one call that can change a file, so  *)
(* a fault can strike between any two of them.                             *)
(*                                                                         *)
(* Data is abstracted to identity: a database is a member of Databases     *)
(* that names the audio it references, the bytes of an audio file are a    *)
(* member of Bytes, a small record is the state of its file.               *)
(***************************************************************************)
EXTENDS Naturals

CONSTANTS
  Ops,          \* operation identifiers; a request carries one
  Fresh,        \* the requests of kind initialize_library
  Databases,    \* contents of iTunesDB files, each accepted by the validator
  NoDatabase,   \* the formal path holds no file
  Unplanned,    \* no plan and no record exists for an operation
  Media,        \* audio paths
  Bytes,        \* contents of audio files
  Absent,       \* an audio path holds no file
  NoOp,         \* no operation
  Refs,         \* Refs[d]: the audio a database references
  New,          \* New[o]: the database operation o installs
  Add,          \* Add[o]: the additions of o, target path -> digest
  Del,          \* Del[o]: the deletions of o, target path -> digest
  Foreign,      \* databases another program may leave on the player
  Library,      \* the database first found on the player
  Audio,        \* the audio first found on the player
  MaxFaults,    \* bound on I/O failures and crashes
  MaxGen        \* bound on mount generations

ASSUME DataAssumption ==
  /\ Fresh \subseteq Ops
  /\ NoDatabase \notin Databases
  /\ Unplanned \notin Databases \cup {NoDatabase}
  /\ Absent \notin Bytes
  /\ NoOp \notin Ops
  /\ Foreign \subseteq Databases
  /\ MaxFaults \in Nat /\ MaxGen \in Nat

ASSUME RequestAssumption ==
  /\ \A d \in Databases : Refs[d] \subseteq Media
  /\ \A o \in Ops : /\ New[o] \in Databases
                    /\ DOMAIN Add[o] \subseteq Media
                    /\ DOMAIN Del[o] \subseteq Media
                    /\ DOMAIN Add[o] \cap DOMAIN Del[o] = {}
                    /\ \A m \in DOMAIN Add[o] : Add[o][m] \in Bytes
                    /\ \A m \in DOMAIN Del[o] : Del[o][m] \in Bytes
                    /\ o \in Fresh => DOMAIN Del[o] = {}

ASSUME StartAssumption ==
  /\ Library \in Databases \cup {NoDatabase}
  /\ Audio \in [Media -> Bytes \cup {Absent}]
  /\ Library # NoDatabase => \A m \in Refs[Library] : Audio[m] # Absent

VARIABLES
  \* the player
  formal,   \* the database under its formal name
  media,    \* the audio files under their final names
  tmp,      \* tmp[o][m]: the temporary of addition m
  retired,  \* retired[o]: the database under o's .old name
  dev,      \* dev[o]: o's other files on the player
  \* the recovery repository on the computer
  host,     \* host[o]: o's files there
  \* the engine
  pc, op, mode, bound, opened, committed, refs, todo, clean,
  \* callers and the environment
  base,     \* base[o]: old database of o's plan, and of its manifest
  planGen,  \* planGen[o]: mount generation in o's plan
  cancel,   \* the running caller asked to cancel
  gen,      \* the mount generation the player has now
  faults,   \* failures so far
  outcome,  \* outcome[o]: what the last execute or recover of o returned
  \* history
  lastGood, \* the last database that was formal
  copiedBy  \* copiedBy[m]: the operation that put audio m on the player

deviceVars == <<formal, media, tmp, retired, dev>>
callFrame == <<op, mode, bound>>
sweepVars == <<committed, refs, todo, clean>>
engineVars == <<callFrame, opened, sweepVars>>
callerVars == <<base, planGen, cancel, gen, faults, outcome>>
historyVars == <<lastGood, copiedBy>>
vars == <<deviceVars, host, pc, engineVars, callerVars, historyVars>>

-----------------------------------------------------------------------------
(* Files.  "torn" is a file created but not yet known to be whole: what a  *)
(* fault leaves behind.  The completion records hold which database was    *)
(* chosen, every other small record is "full" when whole.                  *)

DeviceFiles == {"journal", "staged", "commit", "restore", "done"}
HostFiles == {"old", "new", "before", "manifest", "after", "released", "finalized"}
FileState == {"none", "torn", "full", "old", "new"}

DevFile == [marker |-> "journal", stage |-> "staged", commit |-> "commit",
            restore |-> "restore", done |-> "done"]
HostFile == [old_db |-> "old", new_db |-> "new", before |-> "before",
             manifest |-> "manifest", after |-> "after",
             release |-> "released", finalize |-> "finalized"]

Locations == DOMAIN DevFile \cup DOMAIN HostFile \cup
  {"idle", "prepare", "copy", "verify", "retire", "publish", "confirm", "undo",
   "recover", "reinstate", "recheck", "clean", "unstage", "settle", "report"}
Outcomes == {"none", "lost", "failed", "cancelled", "completed",
             "cleaning_required", "recovery_required"}

TypeOK ==
  /\ formal \in Databases \cup {NoDatabase}
  /\ media \in [Media -> Bytes \cup {Absent}]
  /\ tmp \in [Ops -> [Media -> {"none", "torn", "full"}]]
  /\ retired \in [Ops -> Databases \cup {NoDatabase}]
  /\ dev \in [Ops -> [DeviceFiles -> FileState]]
  /\ host \in [Ops -> [HostFiles -> FileState]]
  /\ pc \in Locations
  /\ op \in Ops \cup {NoOp}
  /\ (pc # "idle") => (op \in Ops)
  /\ mode \in {"execute", "undo", "recover", "again"}
  /\ bound \in Nat
  /\ opened \in BOOLEAN /\ committed \in BOOLEAN /\ clean \in BOOLEAN
  /\ refs \subseteq Media
  /\ todo \subseteq {"tmp", "final", "delete"} \X Media
  /\ base \in [Ops -> Databases \cup {NoDatabase, Unplanned}]
  /\ planGen \in [Ops -> Nat]
  /\ cancel \in BOOLEAN
  /\ gen \in Nat /\ faults \in Nat
  /\ outcome \in [Ops -> Outcomes]
  /\ lastGood \in Databases \cup {NoDatabase}
  /\ copiedBy \in [Media -> Ops \cup {NoOp}]

Adds(o) == DOMAIN Add[o]
Dels(o) == DOMAIN Del[o]
IsUpdate(o) == o \notin Fresh
RefsOf(d) == IF d \in Databases THEN Refs[d] ELSE {}
Present == {m \in Media : media[m] # Absent}
Chosen == IF committed THEN "new" ELSE "old"

-----------------------------------------------------------------------------
(* Checks shared by the handlers.                                          *)

\* references_exist: every referenced path is there and is not empty.
ReferencesExist(d) == RefsOf(d) \subseteq Present

\* recovered_media_valid: besides, the additions it names are the record's.
RecoveredMediaValid(o, d) ==
  /\ ReferencesExist(d)
  /\ \A m \in Adds(o) \cap RefsOf(d) : media[m] = Add[o][m]

\* Mutant: prepare does not look for unfinished operations.
AnyJournal == TRUE

\* Every journal on the player carries a whole completion record.
NoUnfinishedJournal ==
  \A o \in Ops : dev[o]["journal"] # "none" =>
    dev[o]["journal"] = "full" /\ dev[o]["done"] \in {"old", "new"}

\* engine::prepare, all of whose checks only read.
Preflight(o) ==
  /\ NoUnfinishedJournal
  /\ host[o]["manifest"] = "none" /\ dev[o]["journal"] = "none"
  /\ retired[o] = NoDatabase /\ dev[o]["staged"] = "none"
  /\ (o \in Fresh) <=> (formal = NoDatabase)
  /\ ReferencesExist(formal)
  /\ \A m \in Adds(o) : /\ media[m] = Absent /\ tmp[o][m] = "none"
                        /\ m \in Refs[New[o]]
  /\ Refs[New[o]] \ Adds(o) \subseteq Present
  /\ \A m \in Dels(o) : /\ m \in RefsOf(formal) \ Refs[New[o]]
                        /\ media[m] = Del[o][m]

\* Mutant: the digest of the plan is not compared.
AnyDatabase == TRUE

\* The formal database has the digest the plan was made against.
PlannedDatabase == formal = base[op]

\* A request that asks for nothing.
NoChange(o) == IsUpdate(o) /\ New[o] = base[o] /\ Adds(o) = {} /\ Dels(o) = {}

\* Mutant: a cancelled operation leaves the audio it published.
OwnedTemporaries(o, new) == ({"tmp"} \X Adds(o)) \cup
  (IF new THEN {"delete"} \X Dels(o) ELSE {})

\* What cleanup looks at, when the new database was or was not chosen.
Owned(o, new) == ({"tmp"} \X Adds(o)) \cup
  (IF new THEN {"delete"} \X Dels(o) ELSE {"final"} \X Adds(o))

-----------------------------------------------------------------------------
(* Control.  guarded compares the identity, mount generation included,     *)
(* before each call on the player.                                         *)

\* Mutant: the identity is not checked again.
AnyMount == TRUE

\* The identity a call was made for is still there.  guarded asks before each file
\* call; the question and the call are one step.
Attached == bound = gen

\* What a caught failure makes of the call that was running.
ThrowOutcome ==
  IF committed /\ mode = "execute" THEN "cleaning_required"
  ELSE IF mode = "recover" /\ pc \in {"clean", "unstage", "done", "settle",
                                      "after", "release", "finalize"}
       THEN "cleaning_required"
  ELSE IF mode = "execute" /\ pc \in {"prepare", "old_db", "new_db", "before", "manifest"}
       THEN "failed"
  ELSE "recovery_required"

\* The lock is released and the caller gets r.
Return(r) ==
  /\ pc' = "idle" /\ op' = NoOp /\ mode' = "execute" /\ bound' = 0
  /\ opened' = FALSE /\ committed' = FALSE /\ clean' = TRUE
  /\ refs' = {} /\ todo' = {}
  /\ outcome' = [outcome EXCEPT ![op] = r]

\* The call that follows a completed write.
Successor(l) ==
  CASE l = "old_db"   -> "new_db"
    [] l = "new_db"   -> IF IsUpdate(op) THEN "before" ELSE "manifest"
    [] l = "before"   -> "manifest"
    [] l = "manifest" -> "marker"
    [] l = "marker"   -> "copy"
    [] l = "stage"    -> "verify"
    [] l = "commit"   -> IF IsUpdate(op) THEN "retire" ELSE "publish"
    [] l = "restore"  -> "reinstate"
    [] l = "done"     -> "settle"
    [] l = "after"    -> IF IsUpdate(op) THEN "release" ELSE "finalize"
    [] l = "release"  -> "finalize"
    [] OTHER          -> "report"

\* What the write at l leaves in its file.
Content(l) == IF l \in {"done", "finalize"} THEN Chosen ELSE "full"

\* Mutant: the release of the recovery point cannot be repeated.
RepeatableOnDevice == {"before", "done", "after"}

\* Writes that take an existing file with the right content for their own.
Repeatable == {"before", "done", "after", "release"}

-----------------------------------------------------------------------------
(* detail::write: create, which fails on an existing file; then append,    *)
(* flush and read back.                                                    *)

CreateOnHost ==
  /\ pc \in DOMAIN HostFile /\ ~opened
  /\ host[op][HostFile[pc]] = "none"
  /\ host' = [host EXCEPT ![op][HostFile[pc]] = "torn"]
  /\ opened' = TRUE
  /\ UNCHANGED <<deviceVars, pc, callFrame, sweepVars, callerVars, historyVars>>

FillOnHost ==
  /\ pc \in DOMAIN HostFile /\ opened
  /\ host' = [host EXCEPT ![op][HostFile[pc]] = Content(pc)]
  /\ opened' = FALSE
  /\ pc' = Successor(pc)
  /\ UNCHANGED <<deviceVars, callFrame, sweepVars, callerVars, historyVars>>

\* cancel() is polled before the staged database is written.
CreateOnDevice ==
  /\ pc \in DOMAIN DevFile /\ ~opened /\ Attached
  /\ pc = "stage" => ~cancel
  /\ dev[op][DevFile[pc]] = "none"
  /\ dev' = [dev EXCEPT ![op][DevFile[pc]] = "torn"]
  /\ opened' = TRUE
  /\ UNCHANGED <<formal, media, tmp, retired, host, pc, callFrame, sweepVars,
                 callerVars, historyVars>>

FillOnDevice ==
  /\ pc \in DOMAIN DevFile /\ opened /\ Attached
  /\ dev' = [dev EXCEPT ![op][DevFile[pc]] = Content(pc)]
  /\ opened' = FALSE
  /\ pc' = Successor(pc)
  /\ UNCHANGED <<formal, media, tmp, retired, host, callFrame, sweepVars,
                 callerVars, historyVars>>

\* save_snapshot, mark_done and release_recovery accept their own result.  The
\* last wants the -before entry too, which is there as long as nothing prunes.
AlreadyWritten ==
  /\ pc \in Repeatable /\ ~opened
  /\ IF pc = "done" THEN Attached /\ dev[op]["done"] = Chosen
                    ELSE host[op][HostFile[pc]] = "full"
  /\ pc' = Successor(pc)
  /\ UNCHANGED <<deviceVars, host, engineVars, callerVars, historyVars>>

-----------------------------------------------------------------------------
(* engine::prepare as the caller sees it: a plan holds the database it was *)
(* made against and the mount generation.                                  *)

Prepare(o) ==
  /\ op # o
  /\ Preflight(o)
  /\ base' = [base EXCEPT ![o] = formal]
  /\ planGen' = [planGen EXCEPT ![o] = gen]
  /\ UNCHANGED <<deviceVars, host, pc, engineVars, cancel, gen, faults, outcome, historyVars>>

-----------------------------------------------------------------------------
(* engine::execute.                                                        *)

\* try_lock succeeds; a caller that finds the lock taken gets busy and changes
\* nothing.
Execute(o) ==
  /\ pc = "idle" /\ base[o] # Unplanned
  /\ pc' = "prepare" /\ op' = o /\ mode' = "execute" /\ bound' = planGen[o]
  /\ cancel' = FALSE
  /\ outcome' = [outcome EXCEPT ![o] = "none"]
  /\ UNCHANGED <<deviceVars, host, opened, committed, clean, refs, todo, base, planGen,
                 gen, faults, historyVars>>

CancelBeforeWork ==
  /\ pc = "prepare" /\ cancel
  /\ Return("cancelled")
  /\ UNCHANGED <<deviceVars, host, base, planGen, cancel, gen, faults, historyVars>>

\* The plan is prepared again under the lock and compared with the input.
PlanStillHolds == Attached /\ Preflight(op) /\ PlannedDatabase

\* Mutant: the databases are not stored on the computer first.
RefreshUnbacked ==
  /\ pc = "prepare" /\ ~cancel /\ PlanStillHolds /\ ~NoChange(op)
  /\ pc' = IF IsUpdate(op) THEN "before" ELSE "manifest"
  /\ todo' = {"tmp"} \X Adds(op)
  /\ UNCHANGED <<deviceVars, host, callFrame, opened, committed, refs, clean,
                 callerVars, historyVars>>

Refresh ==
  /\ pc = "prepare" /\ ~cancel /\ PlanStillHolds /\ ~NoChange(op)
  /\ pc' = IF IsUpdate(op) THEN "old_db" ELSE "new_db"
  /\ todo' = {"tmp"} \X Adds(op)
  /\ UNCHANGED <<deviceVars, host, callFrame, opened, committed, refs, clean,
                 callerVars, historyVars>>

NothingToDo ==
  /\ pc = "prepare" /\ ~cancel /\ PlanStillHolds /\ NoChange(op)
  /\ Return("completed")
  /\ UNCHANGED <<deviceVars, host, base, planGen, cancel, gen, faults, historyVars>>

\* One addition at a time: create the temporary, append chunks to it, flush,
\* rename it.  cancel() is polled before each of the three.
CopyBegin(m) ==
  /\ pc = "copy" /\ ~opened /\ ~cancel /\ Attached
  /\ <<"tmp", m>> \in todo /\ tmp[op][m] = "none"
  /\ \A n \in Adds(op) : <<"tmp", n>> \in todo => tmp[op][n] = "none"
  /\ tmp' = [tmp EXCEPT ![op][m] = "torn"]
  /\ opened' = TRUE
  /\ UNCHANGED <<formal, media, retired, dev, host, pc, callFrame, sweepVars,
                 callerVars, historyVars>>

CopyFill(m) ==
  /\ pc = "copy" /\ opened /\ ~cancel /\ Attached
  /\ <<"tmp", m>> \in todo /\ tmp[op][m] = "torn"
  /\ tmp' = [tmp EXCEPT ![op][m] = "full"]
  /\ opened' = FALSE
  /\ UNCHANGED <<formal, media, retired, dev, host, pc, callFrame, sweepVars,
                 callerVars, historyVars>>

CopyPublish(m) ==
  /\ pc = "copy" /\ ~opened /\ ~cancel /\ Attached
  /\ <<"tmp", m>> \in todo /\ tmp[op][m] = "full" /\ media[m] = Absent
  /\ media' = [media EXCEPT ![m] = Add[op][m]]
  /\ tmp' = [tmp EXCEPT ![op][m] = "none"]
  /\ todo' = todo \ {<<"tmp", m>>}
  /\ copiedBy' = [copiedBy EXCEPT ![m] = op]
  /\ UNCHANGED <<formal, retired, dev, host, pc, callFrame, opened, committed,
                 refs, clean, callerVars, lastGood>>

CopyDone ==
  /\ pc = "copy" /\ todo = {}
  /\ pc' = "stage"
  /\ UNCHANGED <<deviceVars, host, engineVars, callerVars, historyVars>>

\* The staged database is read back and validated, the formal one compared
\* with the plan, and cancel() polled for the last time.
VerifyStaged ==
  /\ pc = "verify" /\ ~cancel /\ Attached
  /\ ReferencesExist(New[op]) /\ PlannedDatabase
  /\ pc' = "commit"
  /\ UNCHANGED <<deviceVars, host, engineVars, callerVars, historyVars>>

\* A poll that finds the request: the exception leads to the cancel handler.
ObserveCancel ==
  /\ cancel /\ mode = "execute"
  /\ pc \in {"copy", "verify"} \/ (pc = "stage" /\ ~opened)
  /\ pc' = "undo" /\ mode' = "undo" /\ opened' = FALSE
  /\ UNCHANGED <<deviceVars, host, op, bound, committed, refs, todo, clean,
                 callerVars, historyVars>>

Retire ==
  /\ pc = "retire" /\ Attached
  /\ formal # NoDatabase /\ retired[op] = NoDatabase
  /\ retired' = [retired EXCEPT ![op] = formal]
  /\ formal' = NoDatabase
  /\ pc' = "publish"
  /\ UNCHANGED <<media, tmp, dev, host, engineVars, callerVars, historyVars>>

\* rename(staged, formal): the file moves, and fails on an existing target.
InstallStaged ==
  /\ formal = NoDatabase /\ dev[op]["staged"] = "full"
  /\ formal' = New[op]
  /\ dev' = [dev EXCEPT ![op]["staged"] = "none"]
  /\ lastGood' = New[op]

Publish ==
  /\ pc = "publish" /\ Attached
  /\ InstallStaged
  /\ pc' = "confirm"
  /\ UNCHANGED <<media, tmp, retired, host, engineVars, callerVars, copiedBy>>

Confirm ==
  /\ pc = "confirm" /\ Attached
  /\ formal = New[op] /\ ReferencesExist(New[op])
  /\ committed' = TRUE
  /\ refs' = Refs[New[op]]
  /\ todo' = Owned(op, TRUE)
  /\ pc' = "clean"
  /\ UNCHANGED <<deviceVars, host, callFrame, opened, clean, callerVars, historyVars>>

\* The cancel handler verifies the old library before it cleans up.
UndoBegin ==
  /\ pc = "undo" /\ Attached
  /\ IsUpdate(op) => PlannedDatabase
  /\ ReferencesExist(base[op])
  /\ refs' = RefsOf(base[op])
  /\ todo' = Owned(op, FALSE)
  /\ pc' = "clean"
  /\ UNCHANGED <<deviceVars, host, callFrame, opened, committed, clean,
                 callerVars, historyVars>>

-----------------------------------------------------------------------------
(* cleanup, finish_snapshots.  remove_owned skips a file that is not there *)
(* and keeps, as unfinished work, one that is referenced or whose content  *)
(* is not the record's.                                                    *)

\* Mutant: a short temporary is not counted as unfinished work.
CleanTmpQuietly(m) ==
  /\ pc = "clean" /\ Attached /\ <<"tmp", m>> \in todo
  /\ todo' = todo \ {<<"tmp", m>>}
  /\ tmp' = IF tmp[op][m] = "full" THEN [tmp EXCEPT ![op][m] = "none"] ELSE tmp
  /\ UNCHANGED <<formal, media, retired, dev, host, pc, callFrame, opened,
                 committed, refs, clean, callerVars, historyVars>>

CleanTmp(m) ==
  /\ pc = "clean" /\ Attached /\ <<"tmp", m>> \in todo
  /\ todo' = todo \ {<<"tmp", m>>}
  /\ tmp' = IF tmp[op][m] = "full" THEN [tmp EXCEPT ![op][m] = "none"] ELSE tmp
  /\ clean' = (clean /\ tmp[op][m] # "torn")
  /\ UNCHANGED <<formal, media, retired, dev, host, pc, callFrame, opened,
                 committed, refs, callerVars, historyVars>>

\* The digest the record holds for an audio file cleanup may remove.
Recorded(k, m) == IF k = "final" THEN Add[op][m] ELSE Del[op][m]
RemovableByContent(k, m) == media[m] = Recorded(k, m)  \* mutant: references ignored
Removable(k, m) == media[m] = Recorded(k, m) /\ m \notin refs

\* An addition's temporary is looked at before its final name, and all of them
\* before any deletion.
CleanAudio(k, m) ==
  /\ pc = "clean" /\ Attached /\ <<k, m>> \in todo
  /\ \A n \in Media : <<"tmp", n>> \in todo => k = "final" /\ n # m
  /\ todo' = todo \ {<<k, m>>}
  /\ media' = IF media[m] # Absent /\ Removable(k, m)
              THEN [media EXCEPT ![m] = Absent] ELSE media
  /\ clean' = (clean /\ (media[m] = Absent \/ Removable(k, m)))
  /\ copiedBy' = [copiedBy EXCEPT ![m] = IF media'[m] = Absent THEN NoOp ELSE @]
  /\ UNCHANGED <<formal, tmp, retired, dev, host, pc, callFrame, opened,
                 committed, refs, callerVars, lastGood>>

CleanLoopDone ==
  /\ pc = "clean" /\ todo = {}
  /\ pc' = "unstage"
  /\ UNCHANGED <<deviceVars, host, engineVars, callerVars, historyVars>>

\* Mutant: the snapshots are settled without a completion record.
UnstageUnmarked ==
  /\ pc = "unstage" /\ Attached
  /\ dev' = IF dev[op]["staged"] = "full" THEN [dev EXCEPT ![op]["staged"] = "none"] ELSE dev
  /\ clean' = (clean /\ dev[op]["staged"] # "torn")
  /\ pc' = IF clean' THEN "settle" ELSE "report"
  /\ UNCHANGED <<formal, media, tmp, retired, host, callFrame, opened,
                 committed, refs, todo, callerVars, historyVars>>

Unstage ==
  /\ pc = "unstage" /\ Attached
  /\ dev' = IF dev[op]["staged"] = "full" THEN [dev EXCEPT ![op]["staged"] = "none"] ELSE dev
  /\ clean' = (clean /\ dev[op]["staged"] # "torn")
  /\ pc' = IF clean' THEN "done" ELSE "report"
  /\ UNCHANGED <<formal, media, tmp, retired, host, callFrame, opened,
                 committed, refs, todo, callerVars, historyVars>>

\* finish_snapshots returns at once when the finalized record agrees; else it
\* saves the -after snapshot of a committed change and releases -before.  The
\* prune that follows changes the store only and is in module Snapshots.
Settle ==
  /\ pc = "settle"
  /\ pc' = IF host[op]["finalized"] = Chosen THEN "report"
           ELSE IF committed THEN "after"
           ELSE IF IsUpdate(op) THEN "release" ELSE "finalize"
  /\ host[op]["finalized"] \in {"none", Chosen}
  /\ UNCHANGED <<deviceVars, host, engineVars, callerVars, historyVars>>

Report ==
  /\ pc = "report"
  /\ Return(IF ~clean THEN "cleaning_required"
            ELSE IF mode = "undo" THEN "cancelled" ELSE "completed")
  /\ UNCHANGED <<deviceVars, host, base, planGen, cancel, gen, faults, historyVars>>

-----------------------------------------------------------------------------
(* engine::recover: the record is read from the repository, everything     *)
(* else from the player as it is now.                                      *)

\* The manifest holds what recovery needs of the plan.
OnRecord(o) == host[o]["manifest"] = "full"

Recover(o) ==
  /\ pc = "idle" /\ OnRecord(o)
  /\ pc' = "recover" /\ op' = o /\ mode' = "recover" /\ bound' = gen
  /\ cancel' = FALSE
  /\ outcome' = [outcome EXCEPT ![o] = "none"]
  /\ UNCHANGED <<deviceVars, host, opened, committed, clean, refs, todo, base, planGen,
                 gen, faults, historyVars>>

\* The checks made before any branch.
Recovering == pc = "recover" /\ Attached /\ dev[op]["journal"] \in {"none", "full"}

\* A completion record ends the matter, if the player still shows its choice.
DoneDatabase == IF dev[op]["done"] = "new" THEN New[op] ELSE base[op]

RecoverDone ==
  /\ Recovering /\ dev[op]["done"] \in {"old", "new"}
  /\ formal = DoneDatabase /\ RecoveredMediaValid(op, formal)
  /\ committed' = (dev[op]["done"] = "new")
  /\ mode' = "again"
  /\ pc' = "settle"
  /\ UNCHANGED <<deviceVars, host, op, bound, opened, refs, todo, clean, callerVars, historyVars>>

\* From here on the choice is c; the call at l is next.
Choose(c, keep, l) ==
  /\ committed' = c
  /\ refs' = keep
  /\ todo' = Owned(op, c)
  /\ pc' = l
  /\ UNCHANGED <<host, callFrame, opened, clean, callerVars>>

\* Mutant: whatever is formal counts as the old database.
RecoverAnyFormal ==
  /\ Recovering /\ dev[op]["done"] = "none"
  /\ formal # NoDatabase
  /\ RecoveredMediaValid(op, formal)
  /\ Choose(formal = New[op], RefsOf(base[op]), "clean")
  /\ UNCHANGED <<deviceVars, historyVars>>

\* The formal database is the old or the new one: that is the choice.
RecoverFormal ==
  /\ Recovering /\ dev[op]["done"] = "none"
  /\ formal \in {New[op], base[op]} \ {NoDatabase}
  /\ RecoveredMediaValid(op, formal)
  /\ Choose(formal = New[op], RefsOf(formal), "clean")
  /\ UNCHANGED <<deviceVars, historyVars>>

\* Mutant: the formal database is not looked at.
OldWantedAlways ==
  /\ Recovering /\ dev[op]["done"] = "none"
  /\ formal # New[op] /\ base[op] # NoDatabase
  /\ host[op]["old"] = "full" /\ ReferencesExist(base[op])

\* No formal database, an old one on record: it must be usable.
OldWanted ==
  /\ Recovering /\ dev[op]["done"] = "none"
  /\ formal = NoDatabase /\ base[op] # NoDatabase
  /\ host[op]["old"] = "full" /\ ReferencesExist(base[op])

RecoverRetired ==
  /\ OldWanted /\ retired[op] = base[op]
  /\ formal' = base[op] /\ lastGood' = base[op]
  /\ retired' = [retired EXCEPT ![op] = NoDatabase]
  /\ Choose(FALSE, RefsOf(base[op]), "recheck")
  /\ UNCHANGED <<media, tmp, dev, copiedBy>>

\* The player's .old does not match: the old database comes from the computer.
RecoverFromHost ==
  /\ OldWanted /\ retired[op] # base[op]
  /\ dev[op]["restore"] \in {"none", "full"}
  /\ pc' = IF dev[op]["restore"] = "none" THEN "restore" ELSE "reinstate"
  /\ UNCHANGED <<deviceVars, host, engineVars, callerVars, historyVars>>

Reinstate ==
  /\ pc = "reinstate" /\ Attached
  /\ formal = NoDatabase
  /\ formal' = base[op] /\ lastGood' = base[op]
  /\ dev' = [dev EXCEPT ![op]["restore"] = "none"]
  /\ Choose(FALSE, RefsOf(base[op]), "recheck")
  /\ UNCHANGED <<media, tmp, retired, copiedBy>>

\* An interrupted initialization goes forward only with its commit record.
CommitIntent == dev[op]["staged"] # "none" /\ dev[op]["commit"] # "none"

ForwardWanted ==
  /\ Recovering /\ dev[op]["done"] = "none"
  /\ formal = NoDatabase /\ base[op] = NoDatabase
  /\ CommitIntent /\ dev[op]["commit"] = "full"
  /\ RecoveredMediaValid(op, New[op])

RecoverInitialize ==
  /\ ForwardWanted /\ InstallStaged
  /\ Choose(TRUE, Refs[New[op]], "recheck")
  /\ UNCHANGED <<media, tmp, retired, copiedBy>>

\* Mutant: any operation is undone that way.
RecoverVacant ==
  /\ Recovering /\ dev[op]["done"] = "none"
  /\ formal = NoDatabase /\ ~CommitIntent
  /\ Choose(FALSE, {}, "clean")
  /\ UNCHANGED <<deviceVars, historyVars>>

RecoverUninitialized ==
  /\ Recovering /\ dev[op]["done"] = "none"
  /\ formal = NoDatabase /\ base[op] = NoDatabase /\ ~CommitIntent
  /\ Choose(FALSE, {}, "clean")
  /\ UNCHANGED <<deviceVars, historyVars>>

\* What a rename installed is read back before cleanup starts.
Recheck ==
  /\ pc = "recheck" /\ Attached
  /\ pc' = "clean"
  /\ UNCHANGED <<deviceVars, host, engineVars, callerVars, historyVars>>

-----------------------------------------------------------------------------
(* Failures.  A check of the running call that does not hold, or an I/O    *)
(* error, is caught and becomes its outcome; the files stay as they are.   *)

OnDevice == pc \in (DOMAIN DevFile) \cup {"prepare", "verify", "retire", "publish",
              "confirm", "undo", "recover", "reinstate", "recheck", "unstage"}
            \/ (pc \in {"copy", "clean"} /\ todo # {})

\* The write at pc finds a file it did not make.
Conflict ==
  \/ /\ pc \in DOMAIN HostFile /\ ~opened
     /\ host[op][HostFile[pc]] # "none"
     /\ ~(pc \in Repeatable /\ host[op][HostFile[pc]] = "full")
  \/ /\ pc \in DOMAIN DevFile /\ ~opened
     /\ dev[op][DevFile[pc]] # "none"
     /\ ~(pc \in Repeatable /\ dev[op][DevFile[pc]] = Chosen)

\* recover_record has a branch for what it finds.
Recoverable ==
  \/ dev[op]["done"] \in {"old", "new"} /\ formal = DoneDatabase /\ RecoveredMediaValid(op, formal)
  \/ /\ dev[op]["done"] = "none"
     /\ \/ formal \in {New[op], base[op]} \ {NoDatabase} /\ RecoveredMediaValid(op, formal)
        \/ OldWanted /\ (retired[op] = base[op] \/ dev[op]["restore"] \in {"none", "full"})
        \/ /\ formal = NoDatabase /\ base[op] = NoDatabase
           /\ CommitIntent => dev[op]["commit"] = "full" /\ dev[op]["staged"] = "full"
                              /\ RecoveredMediaValid(op, New[op])

CheckFails ==
  \/ OnDevice /\ ~Attached /\ ~(pc = "prepare" /\ cancel)
  \/ pc = "prepare" /\ ~cancel /\ ~PlanStillHolds
  \/ Conflict
  \/ pc = "copy" /\ \E m \in Adds(op) : tmp[op][m] = "full" /\ media[m] # Absent
  \/ pc = "verify" /\ ~(ReferencesExist(New[op]) /\ PlannedDatabase)
  \/ pc = "retire" /\ (formal = NoDatabase \/ retired[op] # NoDatabase)
  \/ pc \in {"publish", "reinstate"} /\ formal # NoDatabase
  \/ pc = "confirm" /\ ~(formal = New[op] /\ ReferencesExist(New[op]))
  \/ pc = "undo" /\ ~((IsUpdate(op) => PlannedDatabase) /\ ReferencesExist(base[op]))
  \/ pc = "recover" /\ ~(dev[op]["journal"] \in {"none", "full"} /\ Recoverable)
  \/ pc = "settle" /\ host[op]["finalized"] \notin {"none", Chosen}

Reject ==
  /\ pc # "idle" /\ CheckFails
  /\ Return(ThrowOutcome)
  /\ UNCHANGED <<deviceVars, host, base, planGen, cancel, gen, faults, historyVars>>

IoFailure ==
  /\ pc # "idle" /\ faults < MaxFaults
  /\ faults' = faults + 1
  /\ Return(ThrowOutcome)
  /\ UNCHANGED <<deviceVars, host, base, planGen, cancel, gen, historyVars>>

RememberedNothing(o) == Unplanned  \* mutant: the manifest lacks the old digest
Remembered(o) == IF OnRecord(o) THEN base[o] ELSE Unplanned

\* The process ends; plans not on record are gone with it.
Die ==
  /\ pc # "idle" /\ faults < MaxFaults
  /\ faults' = faults + 1
  /\ Return("lost")
  /\ base' = [o \in Ops |-> Remembered(o)]
  /\ cancel' = FALSE
  /\ UNCHANGED <<host, planGen, gen, historyVars>>

Crash == Die /\ UNCHANGED deviceVars

\* A rename is not atomic on FAT32: power lost during one may lose the file.  The
\* file of an audio rename is a copy that recovery does not need.
RenameLost ==
  /\ Die /\ Attached
  /\ \/ pc = "retire" /\ formal' = NoDatabase /\ UNCHANGED <<retired, dev>>
     \/ /\ pc = "publish" \/ (ForwardWanted /\ dev[op]["staged"] = "full")
        /\ dev' = [dev EXCEPT ![op]["staged"] = "none"]
        /\ UNCHANGED <<formal, retired>>
     \/ /\ OldWanted /\ retired[op] = base[op]
        /\ retired' = [retired EXCEPT ![op] = NoDatabase]
        /\ UNCHANGED <<formal, dev>>
     \/ /\ pc = "reinstate"
        /\ dev' = [dev EXCEPT ![op]["restore"] = "none"]
        /\ UNCHANGED <<formal, retired>>
  /\ UNCHANGED <<media, tmp>>

-----------------------------------------------------------------------------
(* Callers and the world.                                                  *)

RequestCancel ==
  /\ mode = "execute" /\ pc # "idle" /\ ~cancel
  /\ cancel' = TRUE
  /\ UNCHANGED <<deviceVars, host, pc, engineVars, base, planGen, gen, faults, outcome, historyVars>>

\* The player is unplugged and comes back as a new mount.
Remount ==
  /\ gen < MaxGen
  /\ gen' = gen + 1
  /\ UNCHANGED <<deviceVars, host, pc, engineVars, base, planGen, cancel, faults, outcome, historyVars>>

\* Another program rewrites the library while no transaction runs.  The code does
\* not see one that does so between its last comparison and its rename.
ForeignEdit(d) ==
  /\ pc = "idle" /\ formal # d /\ ReferencesExist(d)
  /\ formal' = d /\ lastGood' = d
  /\ UNCHANGED <<media, tmp, retired, dev, host, pc, engineVars, callerVars, copiedBy>>

-----------------------------------------------------------------------------
Init ==
  /\ formal = Library /\ lastGood = Library
  /\ media = Audio
  /\ tmp = [o \in Ops |-> [m \in Media |-> "none"]]
  /\ retired = [o \in Ops |-> NoDatabase]
  /\ dev = [o \in Ops |-> [f \in DeviceFiles |-> "none"]]
  /\ host = [o \in Ops |-> [f \in HostFiles |-> "none"]]
  /\ pc = "idle" /\ op = NoOp /\ mode = "execute" /\ bound = 0
  /\ opened = FALSE /\ committed = FALSE /\ clean = TRUE
  /\ refs = {} /\ todo = {}
  /\ base = [o \in Ops |-> Unplanned]
  /\ planGen = [o \in Ops |-> 0]
  /\ cancel = FALSE /\ gen = 0 /\ faults = 0
  /\ outcome = [o \in Ops |-> "none"]
  /\ copiedBy = [m \in Media |-> NoOp]

\* Steps the engine's thread takes by itself.
Write == CreateOnHost \/ FillOnHost \/ CreateOnDevice \/ FillOnDevice \/ AlreadyWritten
Copy == (\E m \in Media : CopyBegin(m) \/ CopyFill(m) \/ CopyPublish(m)) \/ CopyDone
Commit == VerifyStaged \/ Retire \/ Publish \/ Confirm
Clean ==
  \/ \E m \in Media : CleanTmp(m) \/ CleanAudio("final", m) \/ CleanAudio("delete", m)
  \/ CleanLoopDone \/ Unstage \/ Settle
RecoverStep ==
  \/ RecoverDone \/ RecoverFormal \/ RecoverRetired \/ RecoverFromHost \/ Reinstate
  \/ RecoverInitialize \/ RecoverUninitialized
  \/ Recheck
Step ==
  \/ CancelBeforeWork \/ Refresh \/ NothingToDo \/ Write \/ Copy \/ ObserveCancel
  \/ Commit \/ UndoBegin \/ Clean \/ RecoverStep \/ Report \/ Reject

Caller == (\E o \in Ops : Prepare(o) \/ Execute(o) \/ Recover(o)) \/ RequestCancel
World == IoFailure \/ Crash \/ RenameLost \/ Remount \/ \E d \in Foreign : ForeignEdit(d)

Next == Step \/ Caller \/ World

Spec == Init /\ [][Next]_vars

\* The engine's thread runs on, and whoever has a record that needs recovery
\* keeps asking for it.
FairSpec == Spec /\ WF_vars(Step) /\ \A o \in Ops : SF_vars(Recover(o))

=============================================================================
