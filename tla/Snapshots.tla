----------------------------- MODULE Snapshots -----------------------------
(***************************************************************************)
(* The snapshot store of src/src/core/transaction/snapshots.cpp as the     *)
(* engine uses it: execute saves the library it is about to replace, and   *)
(* settling an operation saves the new one, releases the old one, prunes   *)
(* what is past retention and finalizes the record.                        *)
(*                                                                         *)
(* The player is reduced to the operation whose library is formal and to   *)
(* how far each operation's records there have come (module Transaction    *)
(* has the rest).  One step is one call that can change a file, so a fault *)
(* can strike between any two of them.                                     *)
(***************************************************************************)
EXTENDS Integers, FiniteSets

CONSTANTS
  Ops,        \* operations, each with at most two snapshots
  Fresh,      \* those that initialize a player: there is no old library to save
  NoDatabase, \* the player holds no library
  Library,    \* the library first found on the player, or NoDatabase
  None,       \* no operation, no snapshot
  Keep,       \* retention: how many valid snapshots are kept (10 in the code)
  MaxFaults,  \* bound on failed calls, crashes and damaged snapshots
  MaxUnread   \* bound on inspections that fail to read some entry

Snaps == Ops \X {"before", "after"}

ASSUME SnapshotsAssumption ==
  /\ Fresh \subseteq Ops
  /\ NoDatabase \notin Ops /\ Library \notin Ops /\ None \notin Ops \cup Snaps
  /\ Keep \in Nat \ {0} /\ MaxFaults \in Nat /\ MaxUnread \in Nat

\* What counts snapshots needs a finite number of them.
ASSUME FiniteOps == IsFiniteSet(Ops)

VARIABLES
  file,       \* file[s][p]: part p of snapshot s in the repository
  sequence,   \* sequence[s]: the number recorded in its metadata
  finalized,  \* finalized[o]: the record that says o is settled
  stage,      \* stage[o]: how far o has come
  base,       \* base[o]: the library o was planned against
  formal,     \* the formal library, named by the operation that installed it
  pc, op,     \* the call that runs
  snap,       \* the snapshot it is at
  opened,     \* it has created the file it is writing
  doomed,     \* what is left of the list prune works through
  faults, unread

storeVars == <<file, sequence, finalized>>
deviceVars == <<stage, base, formal>>
vars == <<storeVars, deviceVars, pc, op, snap, opened, doomed, faults, unread>>

Parts == {"db", "meta", "lkg", "released"}
FileState == {"none", "torn", "full"}
Stages == {"new", "begun", "recorded", "open", "undone", "committed"}
Locations == {"idle", "save", "check", "db", "meta", "manifest", "journal", "commit", "decide",
              "finish", "release", "released", "prune", "unpublish", "drop", "forget",
              "finalize", "lkg"}

TypeOK ==
  /\ file \in [Snaps -> [Parts -> FileState]]
  /\ sequence \in [Snaps -> Nat]
  /\ finalized \in [Ops -> FileState]
  /\ stage \in [Ops -> Stages]
  /\ base \in [Ops -> Ops \cup {Library, NoDatabase}]
  /\ formal \in Ops \cup {Library, NoDatabase}
  /\ pc \in Locations
  /\ op \in Ops \cup {None} /\ snap \in Snaps \cup {None}
  /\ pc \notin {"idle", "lkg"} => op \in Ops
  /\ pc # "idle" => snap \in Snaps
  /\ opened \in BOOLEAN
  /\ doomed \subseteq Snaps
  /\ faults \in 0..MaxFaults /\ unread \in 0..MaxUnread

-----------------------------------------------------------------------------
(* The catalog.                                                            *)

Entries == {s \in Snaps : file[s]["meta"] # "none"}
Validated(s) == file[s]["meta"] = "full" /\ file[s]["db"] = "full"
Marked(s) == Validated(s) /\ file[s]["lkg"] = "full"
Active(s) == Validated(s) /\ s[2] = "before" /\ file[s]["released"] # "full"

(***************************************************************************)
(* inspect takes an entry it fails to read for a damaged one, whether it   *)
(* is damaged or another program has the file open: H holds those whose    *)
(* metadata could not be read this time.                                   *)
(***************************************************************************)
Inspect(H) ==
  /\ H \subseteq Entries
  /\ unread' = IF H = {} THEN unread ELSE unread + 1
  /\ unread' <= MaxUnread
Seen(H) == {s \in Snaps \ H : Validated(s)}

\* Metadata that cannot be read leaves the number at zero.
Number(s, H) == IF file[s]["meta"] = "full" /\ s \notin H THEN sequence[s] ELSE 0

\* One more than the highest number, or zero: a set of one number.
NextNumber(H) ==
  {n \in {0} \cup {Number(s, H) + 1 : s \in Entries} :
     \A s \in Entries : Number(s, H) < n}

\* Mutant: save trusts the number it is given.
NeverTaken(H) == FALSE
Taken(H) == \E s \in Entries : Number(s, H) = sequence[snap]

\* inspect refuses a catalog in which two valid entries have one number.
Readable(H) == \A s, t \in Seen(H) : sequence[s] = sequence[t] => s = t

Newer(s, H) == {t \in Seen(H) : sequence[t] > sequence[s]}
Unpinned(H) == {s \in Seen(H) : ~Marked(s) /\ ~Active(s)}

\* Mutants: one too many; those held for recovery too.
CandidatesOffByOne(H) ==
  {s \in Unpinned(H) : Cardinality(Newer(s, H)) + 1 >= Keep /\ \E t \in Seen(H) : Marked(t)}
CandidatesActiveToo(H) ==
  {s \in Seen(H) : ~Marked(s) /\ Cardinality(Newer(s, H)) >= Keep /\ \E t \in Seen(H) : Marked(t)}

\* Nothing is pruned until some snapshot is marked last known good.
RetentionCandidates(H) ==
  {s \in Unpinned(H) : Cardinality(Newer(s, H)) >= Keep /\ \E t \in Seen(H) : Marked(t)}

-----------------------------------------------------------------------------
(* Control.                                                                *)

Goto(l) == pc' = l /\ opened' = FALSE
Stay == pc' = pc
Return == Goto("idle") /\ op' = None /\ snap' = None /\ doomed' = {}
At(l) == pc = l
Aim(s) == snap' = s

\* A file is created and then filled.  A name that is taken stops the call.
Create(s, p) ==
  /\ ~opened /\ file[s][p] = "none"
  /\ file' = [file EXCEPT ![s][p] = "torn"]
  /\ opened' = TRUE /\ Stay
Fill(s, p, next) ==
  /\ opened
  /\ file' = [file EXCEPT ![s][p] = "full"]
  /\ Goto(next)
Write(s, p, next) == Create(s, p) \/ Fill(s, p, next)

\* What the player tells recover about o: it holds a library that o's record
\* names, and, once o's completion record is there, the one it chose.
Known(o) ==
  \/ stage[o] \in {"recorded", "open"} /\ formal \in {base[o], o}
  \/ stage[o] = "undone" /\ formal = base[o]
  \/ stage[o] = "committed" /\ formal = o

-----------------------------------------------------------------------------
(* execute and recover.                                                    *)

\* prepare finds no unfinished journal; an initialization needs an empty
\* player, an update one with a library.
Execute(o) ==
  /\ At("idle") /\ stage[o] = "new"
  /\ \A p \in Ops : stage[p] # "open"
  /\ (o \in Fresh) <=> (formal = NoDatabase)
  /\ stage' = [stage EXCEPT ![o] = "begun"]
  /\ base' = [base EXCEPT ![o] = formal]
  /\ op' = o /\ Aim(<<o, "before">>)
  /\ Goto(IF o \in Fresh THEN "manifest" ELSE "save")
  /\ UNCHANGED <<storeVars, formal, doomed, faults, unread>>

Recover(o) ==
  /\ At("idle") /\ Known(o)
  /\ op' = o /\ Aim(<<o, "before">>)
  /\ Goto(IF stage[o] \in {"recorded", "open"} THEN "decide" ELSE "finish")
  /\ UNCHANGED <<storeVars, deviceVars, doomed, faults, unread>>

Saved == IF snap[2] = "before" THEN "manifest" ELSE "release"

\* save_snapshot: a valid snapshot of the same name is taken as it is.
SaveAgain(H) ==
  /\ At("save") /\ Inspect(H) /\ Readable(H) /\ snap \in Seen(H)
  /\ Goto(Saved)
  /\ UNCHANGED <<storeVars, deviceVars, op, snap, doomed, faults>>

SaveBegin(H) ==
  /\ At("save") /\ Inspect(H) /\ Readable(H) /\ snap \notin Entries
  /\ \E n \in NextNumber(H) : sequence' = [sequence EXCEPT ![snap] = n]
  /\ Goto("check")
  /\ UNCHANGED <<file, finalized, deviceVars, op, snap, doomed, faults>>

\* snapshot_store::save inspects again.
SaveCheck(H) ==
  /\ At("check") /\ Inspect(H) /\ Readable(H) /\ ~Taken(H)
  /\ file[snap]["db"] = "none" /\ file[snap]["meta"] = "none"
  /\ Goto("db")
  /\ UNCHANGED <<storeVars, deviceVars, op, snap, doomed, faults>>

SaveWrite ==
  /\ \/ At("db") /\ Write(snap, "db", "meta")
     \/ At("meta") /\ Write(snap, "meta", Saved)
  /\ UNCHANGED <<sequence, finalized, deviceVars, op, snap, doomed, faults, unread>>

\* The manifest on the computer, the journal on the player.
Record ==
  /\ \/ At("manifest") /\ stage' = [stage EXCEPT ![op] = "recorded"] /\ Goto("journal")
     \/ At("journal") /\ stage' = [stage EXCEPT ![op] = "open"] /\ Goto("commit")
  /\ UNCHANGED <<storeVars, base, formal, op, snap, doomed, faults, unread>>

\* The new library becomes formal, or the caller cancels and nothing does.
Install ==
  /\ At("commit")
  /\ formal' \in {formal, op}
  /\ Goto("decide")
  /\ UNCHANGED <<storeVars, stage, base, op, snap, doomed, faults, unread>>

\* The completion record, after cleanup.
Decide ==
  /\ At("decide")
  /\ stage' = [stage EXCEPT ![op] = IF formal = op THEN "committed" ELSE "undone"]
  /\ Goto("finish")
  /\ UNCHANGED <<storeVars, base, formal, op, snap, doomed, faults, unread>>

-----------------------------------------------------------------------------
(* finish_snapshots.                                                       *)

Finish ==
  /\ At("finish") /\ finalized[op] # "torn"
  /\ UNCHANGED <<storeVars, deviceVars, faults, unread>>
  /\ IF finalized[op] = "full" THEN Return
     ELSE /\ Goto(IF stage[op] = "committed" THEN "save" ELSE "release")
          /\ Aim(<<op, IF stage[op] = "committed" THEN "after" ELSE "before">>)
          /\ UNCHANGED <<op, doomed>>

\* release_recovery, for an operation that had an old library.
Release(H) ==
  /\ At("release") /\ Inspect(H) /\ (op \in Fresh => H = {})
  /\ Aim(<<op, "before">>)
  /\ op \notin Fresh => Readable(H) /\ <<op, "before">> \in Seen(H)
  /\ Goto(IF op \in Fresh \/ file[<<op, "before">>]["released"] = "full"
          THEN "prune" ELSE "released")
  /\ UNCHANGED <<storeVars, deviceVars, op, doomed, faults>>

ReleaseWrite ==
  /\ At("released") /\ Write(snap, "released", "prune")
  /\ UNCHANGED <<sequence, finalized, deviceVars, op, snap, doomed, faults, unread>>

Prune(H) ==
  /\ At("prune") /\ Inspect(H) /\ Readable(H)
  /\ doomed' = RetentionCandidates(H)
  /\ Goto("unpublish")
  /\ UNCHANGED <<storeVars, deviceVars, op, snap, faults>>

\* Mutant: the data first.
UnpublishLast(s) ==
  /\ At("unpublish") /\ s \in doomed
  /\ \A t \in doomed : sequence[t] <= sequence[s]
  /\ file' = [file EXCEPT ![s]["db"] = "none"]
  /\ doomed' = doomed \ {s}
  /\ Aim(s) /\ Goto("drop")
  /\ UNCHANGED <<sequence, finalized, deviceVars, op, faults, unread>>

\* The newest first.  The metadata goes before the data it announces.
Unpublish(s) ==
  /\ At("unpublish") /\ s \in doomed
  /\ \A t \in doomed : sequence[t] <= sequence[s]
  /\ file' = [file EXCEPT ![s]["meta"] = "none"]
  /\ doomed' = doomed \ {s}
  /\ Aim(s) /\ Goto("drop")
  /\ UNCHANGED <<sequence, finalized, deviceVars, op, faults, unread>>

Drop ==
  /\ At("drop")
  /\ file' = [file EXCEPT ![snap]["db"] = "none"]
  /\ Goto("forget")
  /\ UNCHANGED <<sequence, finalized, deviceVars, op, snap, doomed, faults, unread>>

Forget ==
  /\ At("forget")
  /\ file' = [file EXCEPT ![snap]["released"] = "none"]
  /\ Goto("unpublish")
  /\ UNCHANGED <<sequence, finalized, deviceVars, op, snap, doomed, faults, unread>>

Pruned ==
  /\ At("unpublish") /\ doomed = {}
  /\ Goto("finalize")
  /\ UNCHANGED <<storeVars, deviceVars, op, snap, doomed, faults, unread>>

Finalize ==
  /\ At("finalize")
  /\ UNCHANGED <<file, sequence, deviceVars, faults, unread>>
  /\ \/ /\ ~opened
        /\ finalized' = [finalized EXCEPT ![op] = "torn"]
        /\ opened' = TRUE /\ Stay /\ UNCHANGED <<op, snap, doomed>>
     \/ /\ opened
        /\ finalized' = [finalized EXCEPT ![op] = "full"]
        /\ Return

-----------------------------------------------------------------------------
(* mark_last_known_good, which takes no lock: the engine's callers have to *)
(* call it between transactions, and the model does.                       *)

MarkLastKnownGood(s, H) ==
  /\ At("idle") /\ Inspect(H) /\ Readable(H) /\ s \in Seen(H) /\ file[s]["lkg"] = "none"
  /\ Aim(s) /\ Goto("lkg")
  /\ UNCHANGED <<storeVars, deviceVars, op, doomed, faults>>

MarkWrite ==
  /\ At("lkg")
  /\ \/ Create(snap, "lkg") /\ UNCHANGED <<op, snap, doomed>>
     \/ /\ opened
        /\ file' = [file EXCEPT ![snap]["lkg"] = "full"]
        /\ Return
  /\ UNCHANGED <<sequence, finalized, deviceVars, faults, unread>>

-----------------------------------------------------------------------------
(* A call that finds what it cannot accept returns.                        *)

Refused(H) ==
  \/ pc \in {"save", "check", "release", "prune"} /\ ~Readable(H)
  \/ At("save") /\ snap \in Entries \ Seen(H)
  \/ At("check") /\ (Taken(H) \/ file[snap]["db"] # "none")
  \/ At("release") /\ op \notin Fresh /\ <<op, "before">> \notin Seen(H)

Reject(H) ==
  /\ Inspect(H) /\ Refused(H)
  /\ Return
  /\ UNCHANGED <<storeVars, deviceVars, faults>>

\* A torn record under the name to be written stays in the way.
Blocked ==
  /\ \/ At("finish") /\ finalized[op] = "torn"
     \/ At("released") /\ ~opened /\ file[snap]["released"] # "none"
  /\ Return
  /\ UNCHANGED <<storeVars, deviceVars, faults, unread>>

\* The process ends, or a file call fails and the call with it.
Fault ==
  /\ pc # "idle" /\ faults < MaxFaults
  /\ faults' = faults + 1
  /\ Return
  /\ UNCHANGED <<storeVars, deviceVars, unread>>

\* The bytes of a stored database decay while no call runs.
Decay(s) ==
  /\ At("idle") /\ faults < MaxFaults /\ file[s]["db"] = "full"
  /\ file' = [file EXCEPT ![s]["db"] = "torn"]
  /\ faults' = faults + 1
  /\ UNCHANGED <<sequence, finalized, deviceVars, pc, op, snap, opened, doomed, unread>>

-----------------------------------------------------------------------------
Init ==
  /\ file = [s \in Snaps |-> [p \in Parts |-> "none"]]
  /\ sequence = [s \in Snaps |-> 0]
  /\ finalized = [o \in Ops |-> "none"]
  /\ stage = [o \in Ops |-> "new"]
  /\ base = [o \in Ops |-> NoDatabase]
  /\ formal = Library
  /\ pc = "idle" /\ op = None /\ snap = None
  /\ opened = FALSE /\ doomed = {} /\ faults = 0 /\ unread = 0

\* One inspection, whatever of the catalog it fails to read.
Inspecting(H) ==
  \/ SaveAgain(H) \/ SaveBegin(H) \/ SaveCheck(H)
  \/ Release(H) \/ Prune(H) \/ Reject(H)
Pruning == (\E s \in Snaps : Unpublish(s)) \/ Drop \/ Forget \/ Pruned
Step ==
  \/ \E H \in SUBSET Entries : Inspecting(H)
  \/ SaveWrite \/ Record \/ Install \/ Decide
  \/ Finish \/ ReleaseWrite \/ Pruning \/ Finalize
  \/ MarkWrite \/ Blocked
Caller ==
  \/ \E o \in Ops : Execute(o) \/ Recover(o)
  \/ \E s \in Snaps, H \in SUBSET Entries : MarkLastKnownGood(s, H)
World == Fault \/ \E s \in Snaps : Decay(s)
Next == Step \/ Caller \/ World

Spec == Init /\ [][Next]_vars

\* The engine's thread runs on, and recovery is asked for again and again.
FairSpec == Spec /\ WF_vars(Step) /\ \A o \in Ops : SF_vars(Recover(o))

-----------------------------------------------------------------------------
(***************************************************************************)
(* prune's comment (snapshots.cpp:88): a crash leaves data, never a valid  *)
(* catalog entry that points to an absent database.  Save writes metadata  *)
(* last and prune removes it first, wherever a fault strikes.              *)
(***************************************************************************)
NoDanglingEntry == \A s \in Snaps : file[s]["meta"] = "full" => file[s]["db"] # "none"

(***************************************************************************)
(* The catalog stays readable: no two valid snapshots get one number,      *)
(* though numbers are computed afresh from whatever survives prune, decay  *)
(* and interrupted saves, and though one inspection may miss entries.      *)
(* Otherwise every later call would be refused.                            *)
(***************************************************************************)
NumbersDistinct == Readable({})

(***************************************************************************)
(* The recovery point of an update that may still need recovery is there:  *)
(* no prune on behalf of another operation has taken it, from the manifest *)
(* to the completion record.                                               *)
(***************************************************************************)
RecoveryPointKept ==
  \A o \in Ops \ Fresh : stage[o] \in {"recorded", "open"} =>
    LET s == <<o, "before">> IN
    /\ file[s]["meta"] = "full" /\ file[s]["db"] # "none"
    /\ file[s]["released"] = "none"

(***************************************************************************)
(* The engine never takes away a restore point: a snapshot that is valid   *)
(* and marked last known good, or valid and held for recovery, is not      *)
(* invalidated by any step of save, release or prune.                      *)
(***************************************************************************)
RestorePointsKept ==
  [][\A s \in Snaps : pc # "idle" /\ (Marked(s) \/ Active(s)) => Validated(s)']_vars

(***************************************************************************)
(* Retention keeps the newest: the engine removes a valid snapshot only    *)
(* while Keep valid ones with higher numbers remain, and only once a last  *)
(* known good snapshot exists.                                             *)
(***************************************************************************)
NewestKept ==
  [][\A s \in Snaps : pc # "idle" /\ Validated(s) /\ ~Validated(s)' =>
       /\ Cardinality({t \in Snaps : Validated(t)' /\ sequence'[t] > sequence[s]}) >= Keep
       /\ \E t \in Snaps : Marked(t)']_vars

(***************************************************************************)
(* Damaged evidence is retained: a published snapshot whose database no    *)
(* longer matches is left as it is by every call (inspect's comment,       *)
(* snapshots.cpp:46).                                                      *)
(***************************************************************************)
DamagedKept ==
  [][\A s \in Snaps : file[s]["meta"] = "full" /\ file[s]["db"] = "torn"
       => file'[s] = file[s]]_vars

-----------------------------------------------------------------------------
(***************************************************************************)
(* Task 007, SPEC.md: recovery can be repeated, and an interrupted one     *)
(* goes on from the same evidence.  So a decided operation that the player *)
(* lets recover identify, and none of whose files is torn, gets finalized. *)
(***************************************************************************)
Whole(o) == finalized[o] # "torn" /\ \A s \in {o} \X {"before", "after"}, p \in Parts : file[s][p] # "torn"
SettlingRepeatable ==
  \A o \in Ops : <>[](stage[o] \in {"undone", "committed"} /\ Known(o)) /\ []<>Whole(o)
                  => <>(finalized[o] = "full")

=============================================================================
