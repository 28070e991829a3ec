--------------------------- MODULE SessionProofs ---------------------------
(***************************************************************************)
(* The recovery session is safe beside any number of callers: a restore    *)
(* begins only over a backed library and waits for unfinished work, and    *)
(* the engine's promises hold while the session uses it.                   *)
(*                                                                         *)
(* Every step of the composition is a step of the engine, or a failure of  *)
(* the session that counts as a fault.  Why a restore waits: as long as an *)
(* operation is pending at all, its record on the computer is pending      *)
(* (PendingOnComputer), and that is what the session reads last.           *)
(***************************************************************************)
EXTENDS RecoverySession, TransactionProofs

\* A journal reaches the player after its record has reached the computer.
JournalOnComputer == \A o \in Ops : dev[o]["journal"] # "none" => OnRecord(o)

EngineInv == Typing /\ EvidenceInv /\ PinInv /\ OneInv /\ JournalOnComputer

\* The call of the session, and what it has read.
CallInv ==
  /\ at # "idle" => wanted \in Ops
  /\ unread \subseteq Ops
  /\ catalog \in [Ops -> Status]

\* A restore that is decided has a proof of what is there, if nobody else has
\* changed it meanwhile.
BackedInv == at \in {"plan", "launch"} /\ quiet => backed

\* Operations that wait are pending, and the session has read so.
WaitInv ==
  /\ \A o \in waiting : o \in Ops /\ Pending(o)
  /\ call = "resume" \/ at \in {"idle", "prove", "plan", "launch"} => waiting = {}
  /\ at \in {"host", "decide"} =>
       \A o \in waiting : o \in unread \/ catalog[o] \in {"pending", "invalid"}
  /\ at = "decide" => unread = {}

SessionInv == CallInv /\ BackedInv /\ WaitInv

-----------------------------------------------------------------------------
(* The engine beside a session.                                            *)

LEMMA RecordStays ==
  ASSUME Typing, [Next]_vars, NEW o \in Ops
  PROVE  OnRecord(o) => OnRecord(o)'
<1>0. host \in [Ops -> [HostFiles -> FileState]] /\ (pc # "idle" => op \in Ops)
  BY DEF Typing, TypeOK
<1>1. CASE UNCHANGED host
  BY <1>1 DEF OnRecord
<1>2. CASE CreateOnHost
  BY <1>0, <1>2, WriteLocations DEF CreateOnHost, OnRecord, HostFile
<1>3. CASE FillOnHost
  BY <1>0, <1>3, WriteLocations DEF FillOnHost, OnRecord, HostFile, Content, HostFiles
<1> QED
  BY <1>1, <1>2, <1>3, HostStep

LEMMA EngineStep == ASSUME EngineInv, [Next]_vars PROVE EngineInv'
<1>1. ASSUME NEW o \in Ops, dev'[o]["journal"] # "none" PROVE OnRecord(o)'
  <2>1. dev[o]["journal"] # "none" \/ (pc = "marker" /\ op = o)
    BY <1>1, RecordsStay DEF EngineInv
  <2>2. OnRecord(o)
    BY <2>1 DEF EngineInv, JournalOnComputer, EvidenceInv
  <2> QED
    BY <2>2, RecordStays DEF EngineInv
<1> QED
  BY <1>1, TypeStep, EvidenceStep, PinStep, OneStep DEF EngineInv, JournalOnComputer

\* All the engine has but the count of failures.
Files == <<deviceVars, host, pc, engineVars, base, planGen, cancel, gen, outcome, historyVars>>

LEMMA FailStep == ASSUME EngineInv, Fail PROVE EngineInv'
<1> USE DEF deviceVars, callFrame, sweepVars, engineVars, historyVars
<1>1. faults' \in Nat /\ UNCHANGED Files
  BY DEF Fail, EngineInv, Typing, TypeOK, Files
<1>2. Typing'
  BY <1>1 DEF Files, EngineInv, Typing, TypeOK, TodoOK, PlanKnown, OnRecord, Adds, Dels
<1>3. EvidenceInv'
  BY <1>1 DEF Files, EngineInv, EvidenceInv, Evidence, OnRecord, Touched, IsUpdate
<1>4. PinInv' /\ OneInv' /\ JournalOnComputer'
  BY <1>1 DEF Files, EngineInv, PinInv, RecoveryPointPinned, OneInv, OneOpenJournal, Finished,
     JournalOnComputer, OnRecord
<1> QED
  BY <1>2, <1>3, <1>4 DEF EngineInv

LEMMA Composition ==
  ASSUME CallInv, [SessionNext]_allVars
  PROVE  [Next]_vars \/ Fail
<1> USE DEF Reading
<1>1. CASE SessionStep
  BY <1>1 DEF SessionStep, ReadJournal, ReadRecord, StartRecovery, DecideRestore, Prove, PlanRestore,
     StartRestore, Busy, Returned, Refuse, CallInv, Next, Caller
<1>2. CASE VerifyBackup \/ NewSession \/ (\E o \in Ops : Resume(o)) \/ (\E r \in Restores : RestoreLastKnownGood(r))
  BY <1>2 DEF VerifyBackup, NewSession, Resume, RestoreLastKnownGood, Call
<1>3. CASE Others
  BY <1>3 DEF Others, Next, Caller, World
<1>4. CASE ProcessEnds \/ UNCHANGED allVars
  BY <1>4 DEF ProcessEnds, Next, World, allVars
<1> QED
  BY <1>1, <1>2, <1>3, <1>4 DEF SessionNext

-----------------------------------------------------------------------------
(* What is pending is so on the computer.                                  *)

LEMMA InspectedValues ==
  ASSUME NEW m, NEW c
  PROVE  /\ Inspected(m, c) \in Status
         /\ Inspected(m, c) = "pending" => m # "none" /\ c = "none"
         /\ m # "none" /\ m # "torn" /\ c = "none" => Inspected(m, c) = "pending"
  BY DEF Inspected, Status

LEMMA MergedValues ==
  ASSUME NEW s \in Status, NEW r \in Status
  PROVE  /\ Merged(s, r) \in Status
         /\ r = "pending" => Merged(s, r) \in {"pending", "invalid"}
  BY DEF Merged, Status

LEMMA PendingOnComputer ==
  ASSUME EngineInv, NEW o \in Ops, Pending(o)
  PROVE  OnComputer(o) = "pending"
<1>1. OnComputer(o) = "pending" \/ OnPlayer(o) = "pending"
  BY DEF Pending
<1>2. SUFFICES ASSUME OnPlayer(o) = "pending" PROVE OnComputer(o) = "pending"
  BY <1>1
<1>3. dev[o]["journal"] # "none" /\ dev[o]["done"] = "none"
  BY <1>2, InspectedValues DEF OnPlayer
<1>4. host[o]["manifest"] = "full"
  BY <1>3 DEF EngineInv, JournalOnComputer, OnRecord
<1>5. host[o]["finalized"] = "none"
  BY <1>3 DEF EngineInv, PinInv, RecoveryPointPinned, Finished
<1> QED
  BY <1>4, <1>5, InspectedValues DEF OnComputer

-----------------------------------------------------------------------------
(* The invariant of the session.                                           *)

LEMMA SessionInitInv == SessionInit => EngineInv /\ SessionInv
<1> SUFFICES ASSUME SessionInit PROVE EngineInv /\ SessionInv
  OBVIOUS
<1>1. Init
  BY DEF SessionInit
<1>2. /\ \A o \in Ops, f \in DeviceFiles : dev[o][f] = "none"
      /\ \A o \in Ops, f \in HostFiles : host[o][f] = "none"
  BY <1>1 DEF Init
<1>3. Typing
  BY <1>1, TypingInit
<1>4. EvidenceInv
  BY <1>1, DataAssumption, StartAssumption DEF Init, EvidenceInv, Evidence, OnRecord, Touched, HostFiles, DeviceFiles
<1>5. PinInv
  BY <1>1, <1>2 DEF Init, PinInv, RecoveryPointPinned, Finished, HostFiles, DeviceFiles
<1>6. OneInv
  BY <1>1, <1>2 DEF Init, OneInv, OneOpenJournal, Finished, DeviceFiles, HostFiles
<1>7. JournalOnComputer
  BY <1>2 DEF JournalOnComputer, DeviceFiles
<1>8. SessionInv
  BY DEF SessionInit, SessionInv, CallInv, BackedInv, WaitInv, Status
<1> QED
  BY <1>3, <1>4, <1>5, <1>6, <1>7, <1>8 DEF EngineInv

\* Nothing is left of a call that is over.
LEMMA BackStep == ASSUME Back PROVE SessionInv'
  BY DEF Back, Unlisted, SessionInv, CallInv, BackedInv, WaitInv, Status

LEMMA ReadJournalStep ==
  ASSUME SessionInv, NEW o \in Ops, ReadJournal(o)
  PROVE  SessionInv'
<1> USE DEF ReadJournal, Reading, sightVars
<1>1. CallInv'
  BY InspectedValues DEF SessionInv, CallInv, OnPlayer
<1>2. BackedInv'
  BY DEF BackedInv
<1>3. \A p \in waiting : Pending(p)'
  BY DEF SessionInv, WaitInv, vars, deviceVars, Pending, OnPlayer, OnComputer
<1>4. WaitInv'
  BY <1>3 DEF SessionInv, WaitInv
<1> QED
  BY <1>1, <1>2, <1>4 DEF SessionInv

LEMMA ReadRecordStep ==
  ASSUME EngineInv, SessionInv, NEW o \in Ops, ReadRecord(o)
  PROVE  SessionInv'
<1> USE DEF ReadRecord, Reading, sightVars
<1>1. catalog[o] \in Status /\ OnComputer(o) \in Status
  BY InspectedValues DEF SessionInv, CallInv, OnComputer
<1>2. CallInv'
  BY <1>1, MergedValues DEF SessionInv, CallInv
<1>3. BackedInv'
  BY DEF BackedInv
<1>4. \A p \in waiting : Pending(p)'
  BY DEF SessionInv, WaitInv, vars, deviceVars, Pending, OnPlayer, OnComputer
<1>5. o \in waiting => catalog'[o] \in {"pending", "invalid"}
  BY <1>1, MergedValues, PendingOnComputer DEF SessionInv, WaitInv, CallInv
<1>6. \A p \in waiting : p \in unread' \/ catalog'[p] \in {"pending", "invalid"}
  BY <1>5 DEF SessionInv, WaitInv, CallInv
<1>7. WaitInv'
  BY <1>4, <1>6 DEF SessionInv, WaitInv
<1> QED
  BY <1>2, <1>3, <1>7 DEF SessionInv

\* The steps of a call that has read both: a restore gets past the catalog only
\* if nothing waits.
LEMMA CallStep ==
  ASSUME SessionInv,
         DecideRestore \/ Prove \/ PlanRestore \/ StartRestore \/ (\E o \in Ops : StartRecovery(o))
  PROVE  SessionInv'
<1> USE DEF Reading, sightVars, frameVars
<1>1. CallInv'
  BY DEF SessionInv, CallInv, DecideRestore, Prove, PlanRestore, StartRestore, StartRecovery,
     Unlisted, Status
<1>2. BackedInv'
  BY DEF SessionInv, BackedInv, DecideRestore, Prove, PlanRestore, StartRestore, StartRecovery
<1>3. waiting = {} /\ waiting' = {}
  <2>1. CASE DecideRestore
    BY <2>1 DEF SessionInv, WaitInv, DecideRestore, MayRestore
  <2>2. CASE Prove \/ PlanRestore \/ StartRestore
    BY <2>2 DEF SessionInv, WaitInv, Prove, PlanRestore, StartRestore
  <2>3. CASE \E o \in Ops : StartRecovery(o)
    BY <2>3 DEF SessionInv, WaitInv, StartRecovery
  <2> QED
    BY <2>1, <2>2, <2>3
<1>4. at' \in {"prove", "plan", "launch", "engine"}
  BY DEF DecideRestore, Prove, PlanRestore, StartRestore, StartRecovery
<1> QED
  BY <1>1, <1>2, <1>3, <1>4 DEF SessionInv, WaitInv

LEMMA BeginStep ==
  ASSUME SessionInv,
         NewSession \/ VerifyBackup \/ (\E o \in Ops : Resume(o))
           \/ (\E r \in Restores : RestoreLastKnownGood(r))
  PROVE  SessionInv'
<1> USE DEF frameVars
<1>1. CASE NewSession \/ VerifyBackup
  BY <1>1 DEF NewSession, VerifyBackup, SessionInv, CallInv, BackedInv, WaitInv
<1>2. ASSUME NEW c \in {"resume", "restore"}, NEW o \in Ops, Call(c, o) PROVE SessionInv'
  <2>1. CallInv' /\ BackedInv'
    BY <1>2 DEF Call, SessionInv, CallInv, BackedInv
  <2>2. \A p \in waiting' : p \in Ops /\ Pending(p)'
    BY <1>2 DEF Call, vars, deviceVars, Pending, OnPlayer, OnComputer
  <2>3. WaitInv'
    BY <1>2, <2>2 DEF Call, WaitInv
  <2> QED
    BY <2>1, <2>3 DEF SessionInv
<1>3. Restores \subseteq Ops
  BY RestoreAssumption
<1> QED
  BY <1>1, <1>2, <1>3 DEF Resume, RestoreLastKnownGood

LEMMA OthersStep == ASSUME SessionInv, Others PROVE SessionInv'
<1> USE DEF Others, Watch, Beside, frameVars
<1>1. CallInv'
  BY DEF SessionInv, CallInv
<1>2. BackedInv'
  BY DEF SessionInv, BackedInv
<1>3. waiting' = {o \in waiting : Pending(o)'} /\ waiting' \subseteq waiting
  OBVIOUS
<1>4. at' \in {at, "return"} /\ call' = call /\ unread' = unread /\ catalog' = catalog
  OBVIOUS
<1>5. call = "resume" \/ at' \in {"idle", "prove", "plan", "launch"} => waiting' = {}
  BY <1>3, <1>4 DEF SessionInv, WaitInv
<1>6. WaitInv'
  BY <1>3, <1>4, <1>5 DEF SessionInv, WaitInv
<1> QED
  BY <1>1, <1>2, <1>6 DEF SessionInv

LEMMA SessionStepInv ==
  ASSUME EngineInv, SessionInv, [SessionNext]_allVars
  PROVE  EngineInv' /\ SessionInv'
<1>1. EngineInv'
  BY Composition, EngineStep, FailStep DEF SessionInv
<1>2. CASE UNCHANGED allVars
  BY <1>1, <1>2 DEF allVars, vars, deviceVars, sessionVars, frameVars, sightVars, SessionInv, CallInv,
     BackedInv, WaitInv, Pending, OnPlayer, OnComputer
<1>3. CASE SessionStep
  BY <1>1, <1>3, ReadJournalStep, ReadRecordStep, CallStep, BackStep
     DEF SessionStep, Busy, Returned, Refuse
<1>4. CASE Fail \/ ProcessEnds
  BY <1>1, <1>4, BackStep DEF Fail, ProcessEnds
<1> QED
  BY <1>1, <1>2, <1>3, <1>4, BeginStep, OthersStep DEF SessionNext

-----------------------------------------------------------------------------
(* The theorems.                                                           *)

LEMMA SessionInvariant == SessionSpec => [](EngineInv /\ SessionInv)
  BY SessionInitInv, SessionStepInv, PTL DEF SessionSpec

(***************************************************************************)
(* restore_last_known_good replaces a library only if the external backup  *)
(* matched it when last compared, for any number of operations, faults and *)
(* other callers; what another caller changes after the call is excepted.  *)
(***************************************************************************)
THEOREM RestoresAreBacked == SessionSpec => RestoresBackedLibrary
<1>1. SessionInv /\ [SessionNext]_allVars => [at = "launch" /\ at' = "engine" => backed \/ ~quiet]_allVars
  BY DEF SessionInv, BackedInv
<1> QED
  BY <1>1, SessionInvariant, PTL DEF SessionSpec, RestoresBackedLibrary

(***************************************************************************)
(* restore_last_known_good begins only after every operation that was      *)
(* pending when it was called has been finished, though the records are    *)
(* read one by one while the engine works.                                 *)
(***************************************************************************)
THEOREM RestoresWait == SessionSpec => RestoreWaits
<1>1. SessionInv /\ [SessionNext]_allVars => [at = "launch" /\ at' = "engine" => waiting = {}]_allVars
  BY DEF SessionInv, WaitInv
<1> QED
  BY <1>1, SessionInvariant, PTL DEF SessionSpec, RestoreWaits

(***************************************************************************)
(* The player never shows two journals that are open, with a session       *)
(* resuming and restoring beside the other callers as without one.         *)
(***************************************************************************)
THEOREM SessionKeepsOneJournal == SessionSpec => []OneOpenJournal
<1>1. EngineInv => OneOpenJournal
  BY DEF EngineInv, OneInv
<1> QED
  BY <1>1, SessionInvariant, PTL

=============================================================================
