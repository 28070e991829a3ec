-------------------------- MODULE RecoverySession --------------------------
(***************************************************************************)
(* The recovery session (recovery.cpp) at work beside other callers of the *)
(* transaction engine, in one process.  It reads the journals of the       *)
(* player and the records of the computer one after the other and without  *)
(* the engine's lock, decides by that catalog, and only then calls the     *)
(* engine: to resume a pending operation, or to put the named last known   *)
(* good database back as an operation of its own.                          *)
(*                                                                         *)
(* verify_directory_baseline is one step: a proof is about one instant     *)
(* (module Baseline).  Whether the external backup matches at that instant *)
(* is up to its owner, who may copy the player at any time.                *)
(***************************************************************************)
EXTENDS TransactionProperties

CONSTANT Restores  \* operations a session makes to restore the last known good

ASSUME RestoreAssumption ==
  /\ Restores \subseteq Ops \ Fresh
  /\ \A r \in Restores : DOMAIN Add[r] = {} /\ DOMAIN Del[r] = {}

VARIABLES
  at,       \* where the session's call is
  call,     \* "resume" or "restore"
  wanted,   \* the operation it is about
  unread,   \* records this reading has still to look at
  catalog,  \* catalog[o]: what has been read of o
  expected, \* the mount generation the session was made for
  proof,    \* it holds the proof of a baseline
  named,    \* it has a backup directory: verify_backup has succeeded once
  \* history
  backed,   \* nothing under iPod_Control has changed since the last proof
  quiet,    \* nor since the running call began
  waiting   \* operations that have been pending since then

frameVars == <<call, wanted, unread, catalog>>
bindingVars == <<expected, proof, named>>
sessionVars == <<at, frameVars, bindingVars>>
sightVars == <<backed, quiet, waiting>>
allVars == <<vars, sessionVars, sightVars>>

Status == {"none", "pending", "completed", "invalid"}

SessionTypeOK ==
  /\ at \in {"idle", "device", "host", "decide", "prove", "plan", "launch", "engine", "return"}
  /\ call \in {"resume", "restore"}
  /\ wanted \in Ops \cup {NoOp} /\ unread \subseteq Ops
  /\ catalog \in [Ops -> Status]
  /\ expected \in Nat /\ {proof, named, backed, quiet} \subseteq BOOLEAN
  /\ waiting \subseteq Ops

-----------------------------------------------------------------------------
(* The catalog.                                                            *)

\* inspect_journal of a manifest and, if there is one, its completion record.
Inspected(manifest, completion) ==
  IF manifest = "none" THEN "none"
  ELSE IF "torn" \in {manifest, completion} THEN "invalid"
  ELSE IF completion = "none" THEN "pending"
  ELSE "completed"

OnPlayer(o) == Inspected(dev[o]["journal"], dev[o]["done"])
OnComputer(o) == Inspected(host[o]["manifest"], host[o]["finalized"])

\* Mutant: a journal the player shows completed is not compared any further.
FirstSeen(seen, record) ==
  IF seen \in {"none", "pending"} /\ record # "none" THEN record ELSE seen

\* Invalid outweighs pending, pending outweighs completed.
Merged(seen, record) ==
  LET both == {seen, record} IN
  IF "invalid" \in both THEN "invalid"
  ELSE IF "pending" \in both THEN "pending"
  ELSE IF "completed" \in both THEN "completed"
  ELSE "none"

\* What the records say now; for the history only.
Pending(o) ==
  LET both == {OnPlayer(o), OnComputer(o)} IN "pending" \in both /\ "invalid" \notin both

\* Everything under iPod_Control.
Tree == <<formal, media, tmp, retired,
          [o \in Ops |-> <<dev[o]["staged"], dev[o]["restore"]>>]>>

-----------------------------------------------------------------------------
(* The calls of a session.                                                 *)

\* check(false); the caller's cancel is one of the failures below.
Alive == gen = expected
HasProof == proof /\ named

\* The rest of the program stands still while the session reads.
Reading == UNCHANGED <<vars, sightVars>>

Unlisted == [o \in Ops |-> "none"]

\* The session's call is over.
Back ==
  /\ at' = "idle" /\ call' = "resume" /\ wanted' = NoOp
  /\ unread' = {} /\ catalog' = Unlisted
  /\ quiet' = FALSE /\ waiting' = {}

\* So is a proof, if keep does not hold.
Keep(keep) == proof' = (proof /\ keep) /\ backed' = (backed /\ keep)

\* Nothing of the session is left but the paths: a new one is made.
NewSession ==
  /\ at = "idle" /\ expected # gen
  /\ expected' = gen /\ Keep(FALSE) /\ named' = FALSE
  /\ UNCHANGED <<vars, at, frameVars, quiet, waiting>>

\* verify_backup drops the proof it has.  The backup may not match, and its
\* registration in the repository may fail; a proof about a directory that was
\* never registered is of no use.
VerifyBackup ==
  /\ at = "idle" /\ Alive
  /\ \E match \in BOOLEAN, remembered \in BOOLEAN :
       /\ remembered => match
       /\ named' = (named \/ remembered)
       /\ proof' = (match /\ named') /\ backed' = proof'
  /\ UNCHANGED <<vars, at, frameVars, expected, quiet, waiting>>

Call(c, o) ==
  /\ at = "idle" /\ Alive
  /\ at' = "device" /\ call' = c /\ wanted' = o /\ unread' = Ops
  /\ quiet' = (c = "restore")
  /\ waiting' = {p \in Ops : c = "restore" /\ Pending(p)}
  /\ UNCHANGED <<vars, catalog, bindingVars, backed>>

Resume(o) == Call("resume", o)
RestoreLastKnownGood(r) == HasProof /\ Call("restore", r)

ReadJournal(o) ==
  /\ at = "device" /\ o \in unread
  /\ catalog' = [catalog EXCEPT ![o] = OnPlayer(o)]
  /\ at' = IF unread = {o} THEN "host" ELSE at
  /\ unread' = IF unread = {o} THEN Ops ELSE unread \ {o}
  /\ Reading /\ UNCHANGED <<call, wanted, bindingVars>>

\* The snapshots that inspect lists next are for its caller.  It is assumed that
\* they can be listed, apart from a failure (Fail): two with one number could not.
ReadRecord(o) ==
  /\ at = "host" /\ o \in unread
  /\ catalog' = [catalog EXCEPT ![o] = Merged(@, OnComputer(o))]
  /\ at' = IF unread = {o} THEN "decide" ELSE at
  /\ unread' = unread \ {o}
  /\ Reading /\ UNCHANGED <<call, wanted, bindingVars>>

\* One record nobody can read blocks every resumption.
MayResume ==
  /\ catalog[wanted] = "pending"
  /\ \A o \in Ops : catalog[o] # "invalid"
MayRestore == \A o \in Ops : catalog[o] \in {"none", "completed"}

\* The engine's lock is free: recover runs in the session's thread.
StartRecovery(o) ==
  /\ at = "decide" /\ call = "resume" /\ wanted = o /\ Alive /\ MayResume
  /\ Recover(o)
  /\ at' = "engine" /\ catalog' = Unlisted
  /\ UNCHANGED <<call, wanted, unread, bindingVars, sightVars>>

\* Mutant: the proof of verify_backup is taken for a current one.
DecideOnOldProof ==
  /\ at = "decide" /\ call = "restore" /\ Alive /\ MayRestore
  /\ at' = "plan"
  /\ catalog' = Unlisted
  /\ Reading /\ UNCHANGED <<call, wanted, unread, bindingVars>>

DecideRestore ==
  /\ at = "decide" /\ call = "restore" /\ Alive /\ MayRestore
  /\ at' = "prove"
  /\ catalog' = Unlisted
  /\ Reading /\ UNCHANGED <<call, wanted, unread, bindingVars>>

\* The whole backup is compared again.
Prove ==
  /\ at = "prove" /\ Alive
  /\ at' = "plan" /\ proof' = TRUE /\ backed' = TRUE
  /\ UNCHANGED <<vars, frameVars, expected, named, quiet, waiting>>

PlanRestore ==
  /\ at = "plan" /\ Prepare(wanted)
  /\ at' = "launch"
  /\ UNCHANGED <<frameVars, bindingVars, sightVars>>

StartRestore ==
  /\ at = "launch" /\ Alive /\ HasProof
  /\ Execute(wanted)
  /\ at' = "engine"
  /\ UNCHANGED <<frameVars, bindingVars, sightVars>>

\* The engine's lock is taken.
Busy ==
  /\ (at = "decide" /\ call = "resume" /\ MayResume) \/ at = "launch"
  /\ Alive /\ pc # "idle"
  /\ Back
  /\ Keep(call = "resume")
  /\ UNCHANGED <<vars, expected, named>>

\* The engine has returned; a proof serves one restore.
Returned ==
  /\ at = "return"
  /\ Back
  /\ Keep(call = "resume")
  /\ UNCHANGED <<vars, expected, named>>

\* A check fails.  A baseline that does not match leaves the old proof.
Refused ==
  \/ ~Alive /\ at \notin {"engine", "return"}
  \/ at = "decide" /\ call = "resume" /\ ~MayResume
  \/ at = "decide" /\ call = "restore" /\ ~MayRestore
  \/ at = "prove"
  \/ at = "plan" /\ ~Preflight(wanted)

Refuse ==
  /\ at # "idle" /\ Refused
  /\ Back
  /\ UNCHANGED <<vars, bindingVars, backed>>

\* An I/O error, or the caller cancels.
Fail ==
  /\ at \notin {"idle", "engine", "return"} /\ faults < MaxFaults
  /\ faults' = faults + 1
  /\ Back
  /\ UNCHANGED <<deviceVars, host, pc, engineVars, base, planGen, cancel, gen, outcome,
                 historyVars, bindingVars, backed>>

-----------------------------------------------------------------------------
(* The rest of the program goes on beside it; what it has on record it     *)
(* does not plan again (prepare refuses that).  The process takes the      *)
(* session along when it ends.                                             *)

Watch ==
  /\ backed' = (backed /\ Tree' = Tree)
  /\ quiet' = (quiet /\ Tree' = Tree)
  /\ waiting' = {o \in waiting : Pending(o)'}

\* When the engine gives its lock back, the session's call goes on.
Beside ==
  /\ at' = IF at = "engine" /\ op = wanted /\ op' # wanted THEN "return" ELSE at
  /\ UNCHANGED <<frameVars, bindingVars>>

Others ==
  /\ \/ Step \/ RequestCancel \/ IoFailure \/ Remount
     \/ \E o \in Ops \ Restores : host[o]["manifest"] = "none" /\ (Prepare(o) \/ Execute(o))
     \/ \E d \in Foreign : ForeignEdit(d)
  /\ Watch /\ Beside

ProcessEnds ==
  /\ Crash \/ RenameLost
  /\ Back /\ expected' = gen /\ Keep(FALSE) /\ named' = FALSE

SessionStep ==
  \/ \E o \in Ops : ReadJournal(o) \/ ReadRecord(o) \/ StartRecovery(o)
  \/ DecideRestore \/ Prove \/ PlanRestore \/ StartRestore
  \/ Busy \/ Returned \/ Refuse

SessionNext ==
  \/ SessionStep \/ VerifyBackup \/ NewSession \/ Fail \/ Others \/ ProcessEnds
  \/ \E o \in Ops : Resume(o)
  \/ \E r \in Restores : RestoreLastKnownGood(r)

SessionInit ==
  /\ Init
  /\ at = "idle" /\ call = "resume" /\ wanted = NoOp
  /\ unread = {} /\ catalog = [o \in Ops |-> "none"]
  /\ expected = 0 /\ proof = FALSE /\ named = FALSE
  /\ backed = FALSE /\ quiet = FALSE /\ waiting = {}

SessionSpec == SessionInit /\ [][SessionNext]_allVars

\* The threads of the engine and of the session run on; the user asks for the
\* resumption of a pending operation again, with a new session where the mount
\* has changed.
FairSessionSpec ==
  /\ SessionSpec
  /\ WF_allVars(Step /\ Watch /\ Beside)
  /\ WF_allVars(SessionStep) /\ WF_allVars(NewSession)
  /\ \A o \in Ops : SF_allVars(Resume(o) /\ Pending(o)) /\ SF_allVars(StartRecovery(o))

-----------------------------------------------------------------------------
(***************************************************************************)
(* A restore begins only over a backed library: what it is about to        *)
(* replace was in the external backup when that was last compared, unless  *)
(* another caller has changed it since the restore was asked for.  A proof *)
(* from before (verify_backup, or a restore that failed half way) is not   *)
(* enough.                                                                 *)
(***************************************************************************)
RestoresBackedLibrary ==
  [][at = "launch" /\ at' = "engine" => backed \/ ~quiet]_allVars

(***************************************************************************)
(* A restore waits for unfinished work: it does not begin while an         *)
(* operation is pending that was so when the restore was asked for, also   *)
(* one the player shows completed but whose snapshots are not settled.     *)
(***************************************************************************)
RestoreWaits ==
  [][at = "launch" /\ at' = "engine" => waiting = {}]_allVars

\* Nothing keeps o from being finished: the lock is not taken by others, all
\* records are readable, no file of o is in the way, the library is still its own.
Clear(o) ==
  /\ pc # "idle" => op = wanted
  /\ \A p \in Ops : "invalid" \notin {OnPlayer(p), OnComputer(p)}
  /\ ~TornFile(o)
  /\ formal \in {NoDatabase, base[o], New[o]}

(***************************************************************************)
(* A recorded operation can be finished through the session: asked for     *)
(* again and again, it does not stay unfinished with nothing in its way.   *)
(* Any unreadable record is in the way of all.                             *)
(***************************************************************************)
ResumptionConverges ==
  \A o \in Ops : []<>(OnRecord(o) /\ Clear(o) => Finalized(o))

=============================================================================
