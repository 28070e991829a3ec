-------------------------- MODULE TransactionProofs --------------------------
(***************************************************************************)
(* Theorems about the transaction engine, for every set of operations,     *)
(* databases and audio, and any number of failures and remounts.  Each     *)
(* invariant is proved from an inductive one: Typing under all of them,    *)
(* then EvidenceInv, PinInv, OneInv and PlayInv, one lemma per step.       *)
(*                                                                         *)
(* The engine implements module LibraryRegister: the initial states and    *)
(* every step map to the register.  The invariants of the first part say   *)
(* what is formal in each phase; RegisterInv adds whose commit window a    *)
(* vacant formal name is, and what the running call has chosen.            *)
(*                                                                         *)
(* What a call of the engine says is true, and what it writes down as      *)
(* settled is settled, initializations included.  OwnInv says what an      *)
(* operation can have left on the player, ModeInv in which phase and under *)
(* which mount a call is and what it has chosen, SweepInv what cleanup has *)
(* been through, SnapshotInv what the files of the record on the computer  *)
(* show.                                                                   *)
(***************************************************************************)
EXTENDS TransactionProperties, FiniteSetTheorems, TLAPS

-----------------------------------------------------------------------------
(* Type correctness.  What is still to be done belongs to the running      *)
(* operation, and an operation that runs or is on record has a plan.       *)
TodoOK ==
  \A m \in Media :
    /\ <<"tmp", m>> \in todo => pc # "idle" /\ m \in Adds(op)
    /\ <<"final", m>> \in todo => pc # "idle" /\ m \in Adds(op)
    /\ <<"delete", m>> \in todo => pc # "idle" /\ m \in Dels(op)

PlanKnown ==
  /\ pc # "idle" => base[op] # Unplanned
  /\ \A o \in Ops : OnRecord(o) => base[o] # Unplanned

Typing == TypeOK /\ TodoOK /\ PlanKnown

LEMMA WriteLocations ==
  /\ DOMAIN DevFile = {"marker", "stage", "commit", "restore", "done"}
  /\ DOMAIN HostFile = {"old_db", "new_db", "before", "manifest", "after", "release", "finalize"}
  /\ \A l \in DOMAIN DevFile : DevFile[l] \in DeviceFiles
  /\ \A l \in DOMAIN HostFile : HostFile[l] \in HostFiles
  BY DEF DevFile, HostFile, DeviceFiles, HostFiles

LEMMA WrittenContent == \A l : Content(l) \in {"full", "old", "new"}
  BY DEF Content, Chosen

LEMMA SuccessorLocation == \A l : Successor(l) \in Locations \ {"idle"}
  BY WriteLocations DEF Successor, Locations

LEMMA ThrowType == ThrowOutcome \in Outcomes
  BY DEF ThrowOutcome, Outcomes

LEMMA OwnedType ==
  ASSUME NEW o \in Ops, NEW b \in BOOLEAN
  PROVE  /\ Owned(o, b) \subseteq {"tmp", "final", "delete"} \X Media
         /\ \A m \in Media : /\ <<"tmp", m>> \in Owned(o, b) => m \in Adds(o)
                             /\ <<"final", m>> \in Owned(o, b) => m \in Adds(o)
                             /\ <<"delete", m>> \in Owned(o, b) => m \in Dels(o)
  BY RequestAssumption DEF Owned, Adds, Dels

LEMMA TypeStep == ASSUME Typing, [Next]_vars PROVE Typing'
<1> USE DEF Typing, deviceVars, callFrame, sweepVars, engineVars, callerVars, historyVars, vars
<1>1. CASE CreateOnHost
  BY <1>1, WriteLocations DEF CreateOnHost, TypeOK, TodoOK, PlanKnown, FileState, OnRecord
<1>2. CASE FillOnHost
  BY <1>2, WriteLocations, WrittenContent, SuccessorLocation DEF FillOnHost, TypeOK, TodoOK, PlanKnown, FileState, OnRecord
<1>3. CASE CreateOnDevice
  BY <1>3, WriteLocations DEF CreateOnDevice, TypeOK, TodoOK, PlanKnown, FileState, OnRecord
<1>4. CASE FillOnDevice
  BY <1>4, WriteLocations, WrittenContent, SuccessorLocation DEF FillOnDevice, TypeOK, TodoOK, PlanKnown, FileState, OnRecord
<1>5. CASE AlreadyWritten
  BY <1>5, SuccessorLocation DEF AlreadyWritten, Repeatable, TypeOK, TodoOK, PlanKnown, OnRecord
<1>6. ASSUME NEW o \in Ops, Prepare(o) PROVE Typing'
  BY <1>6, DataAssumption DEF Prepare, TypeOK, TodoOK, PlanKnown, OnRecord
<1>7. ASSUME NEW o \in Ops, Execute(o) PROVE Typing'
  BY <1>7 DEF Execute, TypeOK, TodoOK, PlanKnown, OnRecord, Outcomes, Locations
<1>8. ASSUME NEW o \in Ops, Recover(o) PROVE Typing'
  BY <1>8 DEF Recover, TypeOK, TodoOK, PlanKnown, OnRecord, Outcomes, Locations
<1>9. ASSUME NEW m \in Media, CopyBegin(m) PROVE Typing'
  BY <1>9 DEF CopyBegin, TypeOK, TodoOK, PlanKnown, OnRecord
<1>10. ASSUME NEW m \in Media, CopyFill(m) PROVE Typing'
  BY <1>10 DEF CopyFill, TypeOK, TodoOK, PlanKnown, OnRecord
<1>11. ASSUME NEW m \in Media, CopyPublish(m) PROVE Typing'
  BY <1>11, RequestAssumption DEF CopyPublish, TypeOK, TodoOK, PlanKnown, OnRecord, Adds
<1>12. CASE CopyDone
  BY <1>12, WriteLocations DEF CopyDone, TypeOK, TodoOK, PlanKnown, OnRecord, Locations
<1>13. CASE CancelBeforeWork
  BY <1>13 DEF CancelBeforeWork, Return, TypeOK, TodoOK, PlanKnown, OnRecord, Outcomes, Locations
<1>14. CASE Refresh
  BY <1>14, RequestAssumption, WriteLocations DEF Refresh, TypeOK, TodoOK, PlanKnown, OnRecord, Locations, Adds
<1>15. CASE NothingToDo
  BY <1>15 DEF NothingToDo, Return, TypeOK, TodoOK, PlanKnown, OnRecord, Outcomes, Locations
<1>16. CASE ObserveCancel
  BY <1>16 DEF ObserveCancel, TypeOK, TodoOK, PlanKnown, OnRecord, Locations
<1>17. CASE VerifyStaged
  BY <1>17, WriteLocations DEF VerifyStaged, TypeOK, TodoOK, PlanKnown, OnRecord, Locations
<1>18. CASE Retire
  BY <1>18 DEF Retire, TypeOK, TodoOK, PlanKnown, OnRecord, Locations
<1>19. CASE Publish
  BY <1>19, RequestAssumption DEF Publish, InstallStaged, TypeOK, TodoOK, PlanKnown, OnRecord, Locations, FileState, DeviceFiles
<1>20. CASE Confirm
  BY <1>20, RequestAssumption, OwnedType DEF Confirm, TypeOK, TodoOK, PlanKnown, OnRecord, Locations
<1>21. CASE UndoBegin
  BY ZenonT(60), <1>21, RequestAssumption, OwnedType DEF UndoBegin, TypeOK, TodoOK, PlanKnown, OnRecord, Locations, RefsOf
<1>22. ASSUME NEW m \in Media, CleanTmp(m) PROVE Typing'
  BY <1>22 DEF CleanTmp, TypeOK, TodoOK, PlanKnown, OnRecord
<1>23. ASSUME NEW m \in Media, NEW k \in {"final", "delete"}, CleanAudio(k, m) PROVE Typing'
  BY <1>23 DEF CleanAudio, TypeOK, TodoOK, PlanKnown, OnRecord
<1>24. CASE CleanLoopDone
  BY <1>24 DEF CleanLoopDone, TypeOK, TodoOK, PlanKnown, OnRecord, Locations
<1>25. CASE Unstage
  BY <1>25, WriteLocations DEF Unstage, TypeOK, TodoOK, PlanKnown, OnRecord, Locations, FileState, DeviceFiles
<1>26. CASE Settle
  BY <1>26, WriteLocations DEF Settle, TypeOK, TodoOK, PlanKnown, OnRecord, Locations
<1>27. CASE Report
  BY <1>27 DEF Report, Return, TypeOK, TodoOK, PlanKnown, OnRecord, Outcomes, Locations
<1>28. CASE RecoverDone
  BY <1>28 DEF RecoverDone, Recovering, TypeOK, TodoOK, PlanKnown, OnRecord, Locations
<1>29. CASE RecoverFormal
  BY <1>29, RequestAssumption, OwnedType DEF RecoverFormal, Recovering, Choose, RefsOf, TypeOK, TodoOK, PlanKnown, OnRecord, Locations
<1>30. CASE RecoverRetired
  BY <1>30, RequestAssumption, OwnedType DEF RecoverRetired, OldWanted, Recovering, Choose, RefsOf, TypeOK, TodoOK, PlanKnown, OnRecord, Locations
<1>31. CASE RecoverFromHost
  BY <1>31, WriteLocations DEF RecoverFromHost, OldWanted, Recovering, TypeOK, TodoOK, PlanKnown, OnRecord, Locations
<1>32. CASE Reinstate
  BY <1>32, RequestAssumption, OwnedType DEF Reinstate, Choose, RefsOf, TypeOK, TodoOK, PlanKnown, OnRecord, Locations, FileState, DeviceFiles
<1>33. CASE RecoverInitialize
  BY <1>33, RequestAssumption, OwnedType DEF RecoverInitialize, ForwardWanted, InstallStaged, Recovering, Choose, TypeOK, TodoOK, PlanKnown, OnRecord, Locations, FileState, DeviceFiles
<1>34. CASE RecoverUninitialized
  BY <1>34, RequestAssumption, OwnedType DEF RecoverUninitialized, Recovering, Choose, TypeOK, TodoOK, PlanKnown, OnRecord, Locations
<1>35. CASE Recheck
  BY <1>35 DEF Recheck, TypeOK, TodoOK, PlanKnown, OnRecord, Locations
<1>36. CASE Reject
  BY <1>36, ThrowType DEF Reject, Return, TypeOK, TodoOK, PlanKnown, OnRecord, Locations
<1>37. CASE IoFailure
  <2>1. faults' \in Nat
    BY <1>37 DEF IoFailure, TypeOK
  <2> QED
    BY <1>37, <2>1, ThrowType DEF IoFailure, Return, TypeOK, TodoOK, PlanKnown, OnRecord, Locations
<1>38. CASE Crash
  <2>1. faults' \in Nat
    BY <1>38 DEF Crash, Die, TypeOK
  <2>2. \A o \in Ops : base'[o] \in {base[o], Unplanned} /\ (OnRecord(o) => base'[o] = base[o])
    BY <1>38 DEF Crash, Die, Remembered, TypeOK
  <2>3. base' \in [Ops -> Databases \cup {NoDatabase, Unplanned}]
    BY <1>38, <2>2 DEF Crash, Die, TypeOK
  <2> QED
    BY <1>38, <2>1, <2>2, <2>3 DEF Crash, Die, Return, TypeOK, TodoOK, PlanKnown, OnRecord, Locations, Outcomes
<1>39. CASE RenameLost
  <2>1. faults' \in Nat
    BY <1>39 DEF RenameLost, Die, TypeOK
  <2>2. \A o \in Ops : base'[o] \in {base[o], Unplanned} /\ (OnRecord(o) => base'[o] = base[o])
    BY <1>39 DEF RenameLost, Die, Remembered, TypeOK
  <2>3. base' \in [Ops -> Databases \cup {NoDatabase, Unplanned}]
    BY <1>39, <2>2 DEF RenameLost, Die, TypeOK
  <2>4. formal' \in Databases \cup {NoDatabase}
    BY <1>39 DEF RenameLost, Die, TypeOK
  <2>6. retired' \in [Ops -> Databases \cup {NoDatabase}]
    BY <1>39 DEF RenameLost, Die, TypeOK
  <2>7. dev' \in [Ops -> [DeviceFiles -> FileState]]
    <3>1. op \in Ops
      BY <1>39 DEF RenameLost, Die, TypeOK
    <3>2. \/ dev' = dev
          \/ \E f \in DeviceFiles : dev' = [dev EXCEPT ![op][f] = "none"]
      BY <1>39 DEF RenameLost, DeviceFiles
    <3>3. dev \in [Ops -> [DeviceFiles -> FileState]] /\ "none" \in FileState
      BY DEF TypeOK, FileState
    <3>4. ASSUME NEW f \in DeviceFiles
          PROVE  [dev EXCEPT ![op][f] = "none"] \in [Ops -> [DeviceFiles -> FileState]]
      BY <3>1, <3>3
    <3> QED
      BY <3>2, <3>3, <3>4
  <2>5. TypeOK'
    BY <1>39, <2>1, <2>3, <2>4, <2>6, <2>7 DEF RenameLost, Die, Return, TypeOK, Locations, Outcomes
  <2> QED
    BY <1>39, <2>2, <2>5 DEF RenameLost, Die, Return, TypeOK, TodoOK, PlanKnown, OnRecord
<1>40. CASE RequestCancel
  BY <1>40 DEF RequestCancel, TypeOK, TodoOK, PlanKnown, OnRecord
<1>41. CASE Remount
  BY <1>41 DEF Remount, TypeOK, TodoOK, PlanKnown, OnRecord
<1>42. ASSUME NEW d \in Foreign, ForeignEdit(d) PROVE Typing'
  BY <1>42, DataAssumption DEF ForeignEdit, TypeOK, TodoOK, PlanKnown, OnRecord
<1>43. CASE UNCHANGED vars
  BY <1>43 DEF TypeOK, TodoOK, PlanKnown, OnRecord
<1> QED
  BY <1>1, <1>2, <1>3, <1>4, <1>5, <1>6, <1>7, <1>8, <1>9, <1>10, <1>11, <1>12, <1>13, <1>14,
     <1>15, <1>16, <1>17, <1>18, <1>19, <1>20, <1>21, <1>22, <1>23, <1>24, <1>25, <1>26, <1>27,
     <1>28, <1>29, <1>30, <1>31, <1>32, <1>33, <1>34, <1>35, <1>36, <1>37, <1>38, <1>39, <1>40,
     <1>41, <1>42, <1>43
  DEF Next, Step, Write, Copy, Commit, Clean, RecoverStep, Caller, World

LEMMA TypingInit == Init => Typing
<1> SUFFICES ASSUME Init PROVE Typing
  OBVIOUS
<1>1. /\ tmp \in [Ops -> [Media -> {"none", "torn", "full"}]]
      /\ dev \in [Ops -> [DeviceFiles -> FileState]]
      /\ host \in [Ops -> [HostFiles -> FileState]]
  BY DEF Init, FileState
<1>2. TypeOK
  BY <1>1, StartAssumption, DataAssumption DEF Init, TypeOK, Locations, Outcomes
<1>3. TodoOK /\ PlanKnown
  BY DEF Init, TodoOK, PlanKnown, OnRecord, HostFiles
<1> QED
  BY <1>2, <1>3 DEF Typing

LEMMA TypingInvariant == Spec => []Typing
  BY TypingInit, TypeStep, PTL DEF Spec

(***************************************************************************)
(* Every reachable state is well typed: in particular a database recovery  *)
(* reinstates is one the record holds, and no call runs without a plan.    *)
(***************************************************************************)
THEOREM TypeCorrect == Spec => []TypeOK
<1>1. Typing => TypeOK
  BY DEF Typing
<1> QED
  BY <1>1, TypingInvariant, PTL

-----------------------------------------------------------------------------
(* Evidence: the manifest is the last file of the record, and nothing of the *)
(* operation is on the player before it.                                     *)
Evidence(o) ==
  /\ host[o]["new"] = "full"
  /\ IsUpdate(o) => host[o]["old"] = "full" /\ host[o]["before"] = "full"

EvidenceInv ==
  /\ \A o \in Ops : OnRecord(o) => Evidence(o)
  /\ \A o \in Ops : Touched(o) => OnRecord(o)
  /\ pc = "new_db" /\ IsUpdate(op) => host[op]["old"] = "full"
  /\ pc = "before" => host[op]["old"] = "full" /\ host[op]["new"] = "full"
  /\ pc = "manifest" => Evidence(op)
  /\ pc \notin {"idle", "prepare", "old_db", "new_db", "before", "manifest"} => OnRecord(op)

LEMMA EvidenceStep == ASSUME Typing, EvidenceInv, [Next]_vars PROVE EvidenceInv'
<1> USE DEF deviceVars, callFrame, sweepVars, engineVars, callerVars, historyVars, vars
<1> DEFINE Records == <<host, dev, tmp, retired, copiedBy>>
           Before == {"idle", "prepare", "old_db", "new_db", "before", "manifest"}
<1>0. /\ host \in [Ops -> [HostFiles -> FileState]]
      /\ dev \in [Ops -> [DeviceFiles -> FileState]]
      /\ tmp \in [Ops -> [Media -> {"none", "torn", "full"}]]
      /\ retired \in [Ops -> Databases \cup {NoDatabase}]
      /\ copiedBy \in [Media -> Ops \cup {NoOp}]
      /\ pc # "idle" => op \in Ops
      /\ NoOp \notin Ops
  BY DataAssumption DEF Typing, TypeOK
\* A step that changes no record and enters no earlier phase.
<1>a. ASSUME UNCHANGED Records,
             \/ pc' \in {"idle", "prepare", "old_db"}
             \/ pc' = pc /\ op' = op
             \/ pc' \notin Before /\ OnRecord(op) /\ op' = op
      PROVE  EvidenceInv'
  BY <1>a DEF EvidenceInv, Evidence, OnRecord, Touched
\* One that changes the player for a recorded operation.
<1>b. ASSUME UNCHANGED <<host, op>>, pc \notin Before, pc' \notin Before,
             \A o \in Ops : Touched(o)' => Touched(o) \/ o = op
      PROVE  EvidenceInv'
  BY <1>b DEF EvidenceInv, Evidence, OnRecord
<1>1. CASE CreateOnHost
  BY <1>1, <1>0, WriteLocations DEF CreateOnHost, EvidenceInv, Evidence, OnRecord, Touched, HostFile, HostFiles
<1>2. CASE FillOnHost
  BY <1>2, <1>0, WriteLocations DEF FillOnHost, EvidenceInv, Evidence, OnRecord, Touched, HostFile, HostFiles, Content, Successor, Chosen
<1>3. CASE CreateOnDevice
  <2>1. \A o \in Ops : Touched(o)' => Touched(o) \/ o = op
    BY <1>3, <1>0, WriteLocations DEF CreateOnDevice, Touched
  <2> QED
    BY <1>3, <1>b, <2>1, WriteLocations DEF CreateOnDevice
<1>4. CASE FillOnDevice
  <2>1. \A o \in Ops : Touched(o)' => Touched(o) \/ o = op
    BY <1>4, <1>0, WriteLocations DEF FillOnDevice, Touched
  <2> QED
    BY <1>4, <1>b, <2>1, WriteLocations DEF FillOnDevice, Successor
<1>5. CASE AlreadyWritten
  BY <1>5, <1>a, <1>0, WriteLocations DEF AlreadyWritten, Repeatable, Successor, EvidenceInv, Evidence, OnRecord, Touched, HostFile
<1>6. ASSUME NEW o \in Ops, Prepare(o) \/ Execute(o) \/ Recover(o) PROVE EvidenceInv'
  BY <1>6, <1>a, <1>0 DEF Prepare, Execute, Recover, EvidenceInv, Evidence, Touched, OnRecord
<1>7. ASSUME NEW m \in Media, CopyBegin(m) \/ CopyFill(m) \/ CopyPublish(m) PROVE EvidenceInv'
  <2>1. \A o \in Ops : Touched(o)' => Touched(o) \/ o = op
    BY <1>7, <1>0 DEF CopyBegin, CopyFill, CopyPublish, Touched
  <2> QED
    BY <1>7, <1>b, <2>1 DEF CopyBegin, CopyFill, CopyPublish
<1>8. CASE \/ CancelBeforeWork \/ Refresh \/ NothingToDo \/ CopyDone \/ ObserveCancel \/ VerifyStaged
           \/ Confirm \/ UndoBegin \/ CleanLoopDone \/ Settle \/ Report
  <2>1. CASE Refresh
    BY <2>1, <1>0, <1>a DEF Refresh, EvidenceInv, Evidence, OnRecord, Touched
  <2>2. CASE CancelBeforeWork \/ NothingToDo \/ Report
    BY <2>2, <1>a DEF CancelBeforeWork, NothingToDo, Report, Return
  <2>3. CASE CopyDone \/ ObserveCancel \/ VerifyStaged \/ Confirm \/ UndoBegin \/ CleanLoopDone \/ Settle
    BY <2>3, <1>a DEF CopyDone, ObserveCancel, VerifyStaged, Confirm, UndoBegin, CleanLoopDone, Settle, EvidenceInv
  <2> QED
    BY <1>8, <2>1, <2>2, <2>3
<1>9. CASE Retire \/ Publish
  <2>1. \A o \in Ops : Touched(o)' => Touched(o) \/ o = op
    BY <1>9, <1>0 DEF Retire, Publish, InstallStaged, Touched
  <2> QED
    BY <1>9, <1>b, <2>1 DEF Retire, Publish, InstallStaged
<1>10. ASSUME NEW m \in Media, CleanTmp(m) PROVE EvidenceInv'
  <2>1. \A o \in Ops : Touched(o)' => Touched(o) \/ o = op
    BY <1>10, <1>0 DEF CleanTmp, Touched
  <2> QED
    BY <1>10, <1>b, <2>1 DEF CleanTmp
<1>11. ASSUME NEW m \in Media, NEW k \in {"final", "delete"}, CleanAudio(k, m) PROVE EvidenceInv'
  <2>1. \A o \in Ops : Touched(o)' => Touched(o) \/ o = op
    BY <1>11, <1>0 DEF CleanAudio, Touched
  <2> QED
    BY <1>11, <1>b, <2>1 DEF CleanAudio
<1>12. CASE Unstage
  <2>1. \A o \in Ops : Touched(o)' => Touched(o) \/ o = op
    BY <1>12, <1>0 DEF Unstage, Touched
  <2> QED
    BY <1>12, <1>b, <2>1 DEF Unstage
<1>13. CASE RecoverDone \/ RecoverFormal \/ RecoverFromHost \/ RecoverUninitialized \/ Recheck
  BY <1>13, <1>a DEF RecoverDone, RecoverFormal, RecoverFromHost, RecoverUninitialized, Recheck, OldWanted, Recovering, Choose, EvidenceInv
<1>14. CASE RecoverRetired \/ Reinstate \/ RecoverInitialize
  <2>1. \A o \in Ops : Touched(o)' => Touched(o) \/ o = op
    BY ZenonT(60), <1>14, <1>0 DEF RecoverRetired, Reinstate, RecoverInitialize, InstallStaged, Touched
  <2> QED
    BY <1>14, <1>b, <2>1 DEF RecoverRetired, Reinstate, RecoverInitialize, OldWanted, ForwardWanted, Recovering, InstallStaged, Choose
<1>15. CASE Reject \/ IoFailure \/ Crash
  BY <1>15, <1>a DEF Reject, IoFailure, Crash, Die, Return
<1>16. CASE RenameLost
  <2>1. \A o \in Ops : Touched(o)' => Touched(o)
    <3>1. op \in Ops /\ UNCHANGED <<tmp, copiedBy>>
      BY <1>16, <1>0 DEF RenameLost, Die
    <3>2. \A o \in Ops : retired'[o] # NoDatabase => retired[o] # NoDatabase
      BY <1>16, <1>0, <3>1 DEF RenameLost
    <3>3. \A o \in Ops, f \in DeviceFiles : dev'[o][f] # "none" => dev[o][f] # "none"
      BY <1>16, <1>0, <3>1 DEF RenameLost, DeviceFiles
    <3> QED
      BY <3>1, <3>2, <3>3 DEF Touched
  <2> QED
    BY <1>16, <2>1 DEF RenameLost, Die, Return, EvidenceInv, Evidence, OnRecord
<1>17. CASE RequestCancel \/ Remount \/ UNCHANGED vars
  BY <1>17, <1>a DEF RequestCancel, Remount
<1>18. ASSUME NEW d \in Foreign, ForeignEdit(d) PROVE EvidenceInv'
  BY <1>18, <1>a DEF ForeignEdit
<1> QED
  BY <1>1, <1>2, <1>3, <1>4, <1>5, <1>6, <1>7, <1>8, <1>9, <1>10, <1>11, <1>12, <1>13, <1>14,
     <1>15, <1>16, <1>17, <1>18
  DEF Next, Step, Write, Copy, Commit, Clean, RecoverStep, Caller, World

(***************************************************************************)
(* Whatever fails and whenever, an operation that has left anything but    *)
(* its journal on the player has its evidence on the computer.             *)
(***************************************************************************)
THEOREM EvidenceHeld == Spec => []EvidenceFirst
<1>1. Init => EvidenceInv
  BY DataAssumption, StartAssumption DEF Init, EvidenceInv, Evidence, OnRecord, Touched, HostFiles, DeviceFiles
<1>2. Typing /\ EvidenceInv /\ [Next]_vars => EvidenceInv'
  BY EvidenceStep
<1>3. EvidenceInv => EvidenceFirst
  <2> SUFFICES ASSUME EvidenceInv, NEW o \in Ops, Touched(o)
               PROVE  /\ host[o]["manifest"] = "full" /\ host[o]["new"] = "full"
                      /\ IsUpdate(o) => host[o]["old"] = "full" /\ host[o]["before"] = "full"
    BY DEF EvidenceFirst
  <2> QED
    BY DEF EvidenceInv, Evidence, OnRecord
<1> QED
  BY <1>1, <1>2, <1>3, TypingInvariant, PTL DEF Spec

-----------------------------------------------------------------------------
(* What a step can do to the files of the record and on the player.        *)
LEMMA HostStep == [Next]_vars => UNCHANGED host \/ CreateOnHost \/ FillOnHost
<1> USE DEF deviceVars, callFrame, sweepVars, engineVars, callerVars, historyVars, vars
<1>1. Step => UNCHANGED host \/ CreateOnHost \/ FillOnHost
  <2>1. Write => UNCHANGED host \/ CreateOnHost \/ FillOnHost
    BY DEF Write, CreateOnDevice, FillOnDevice, AlreadyWritten
  <2>2. Copy \/ Commit \/ UndoBegin => UNCHANGED host
    BY DEF Copy, CopyBegin, CopyFill, CopyPublish, CopyDone, Commit, VerifyStaged, Retire, Publish, Confirm, UndoBegin
  <2>3. Clean => UNCHANGED host
    BY DEF Clean, CleanTmp, CleanAudio, CleanLoopDone, Unstage, Settle
  <2>4. RecoverStep => UNCHANGED host
    BY DEF RecoverStep, RecoverDone, RecoverFormal, RecoverRetired, RecoverFromHost, Reinstate,
           RecoverInitialize, RecoverUninitialized, Recheck, Choose
  <2>5. CancelBeforeWork \/ Refresh \/ NothingToDo \/ ObserveCancel \/ Report \/ Reject => UNCHANGED host
    BY DEF CancelBeforeWork, Refresh, NothingToDo, ObserveCancel, Report, Reject
  <2> QED
    BY <2>1, <2>2, <2>3, <2>4, <2>5 DEF Step
<1>2. Caller \/ World \/ UNCHANGED vars => UNCHANGED host
  BY DEF Caller, World, Prepare, Execute, Recover, RequestCancel, IoFailure, Crash, RenameLost, Die, Remount, ForeignEdit
<1> QED
  BY <1>1, <1>2 DEF Next

\* A file of an operation on the player is removed only as staged or restored
\* database.
DeviceLoss == pc # "idle" /\ \E f \in {"staged", "restore"} : dev' = [dev EXCEPT ![op][f] = "none"]

LEMMA DeviceStep == [Next]_vars => UNCHANGED dev \/ CreateOnDevice \/ FillOnDevice \/ DeviceLoss
<1> USE DEF deviceVars, callFrame, sweepVars, engineVars, callerVars, historyVars, vars
<1>1. Step => UNCHANGED dev \/ CreateOnDevice \/ FillOnDevice \/ DeviceLoss
  <2>1. Write => UNCHANGED dev \/ CreateOnDevice \/ FillOnDevice
    BY DEF Write, CreateOnHost, FillOnHost, AlreadyWritten
  <2>2. Copy \/ Commit \/ UndoBegin => UNCHANGED dev \/ DeviceLoss
    BY DEF Copy, CopyBegin, CopyFill, CopyPublish, CopyDone, Commit, VerifyStaged, Retire, Publish,
           InstallStaged, Confirm, UndoBegin, DeviceLoss
  <2>3. Clean => UNCHANGED dev \/ DeviceLoss
    BY DEF Clean, CleanTmp, CleanAudio, CleanLoopDone, Unstage, Settle, DeviceLoss
  <2>4. RecoverStep => UNCHANGED dev \/ DeviceLoss
    BY DEF RecoverStep, RecoverDone, RecoverFormal, RecoverRetired, RecoverFromHost, Reinstate,
           RecoverInitialize, ForwardWanted, Recovering, InstallStaged, RecoverUninitialized, Recheck, Choose, DeviceLoss
  <2>5. CancelBeforeWork \/ Refresh \/ NothingToDo \/ ObserveCancel \/ Report \/ Reject => UNCHANGED dev
    BY DEF CancelBeforeWork, Refresh, NothingToDo, ObserveCancel, Report, Reject
  <2> QED
    BY <2>1, <2>2, <2>3, <2>4, <2>5 DEF Step
<1>2. Caller \/ World \/ UNCHANGED vars => UNCHANGED dev \/ DeviceLoss
  BY DEF Caller, World, Prepare, Execute, Recover, RequestCancel, IoFailure, Crash, RenameLost, Die, Remount,
         ForeignEdit, DeviceLoss
<1> QED
  BY <1>1, <1>2 DEF Next

\* A completion record stays, and a journal is begun only by its own write.
LEMMA RecordsStay ==
  ASSUME Typing, [Next]_vars, NEW o \in Ops
  PROVE  /\ Finished(o) => Finished(o)'
         /\ dev'[o]["journal"] # "none" => dev[o]["journal"] # "none" \/ (pc = "marker" /\ op = o)
<1>0. dev \in [Ops -> [DeviceFiles -> FileState]] /\ (pc # "idle" => op \in Ops)
  BY DEF Typing, TypeOK
<1>1. CASE UNCHANGED dev
  BY <1>1 DEF Finished
<1>2. CASE CreateOnDevice
  BY <1>0, <1>2, WriteLocations DEF CreateOnDevice, Finished, DevFile, DeviceFiles
<1>3. CASE FillOnDevice
  BY <1>0, <1>3, WriteLocations DEF FillOnDevice, Finished, DevFile, DeviceFiles, Content, Chosen
<1>4. CASE DeviceLoss
  BY <1>0, <1>4 DEF DeviceLoss, Finished, DeviceFiles
<1> QED
  BY <1>1, <1>2, <1>3, <1>4, DeviceStep

PinInv ==
  /\ RecoveryPointPinned
  /\ pc \in {"settle", "after", "release", "finalize"} => Finished(op)

LEMMA PinStep == ASSUME Typing, PinInv, [Next]_vars PROVE PinInv'
<1> USE DEF deviceVars, callFrame, sweepVars, engineVars, callerVars, historyVars, vars
<1> DEFINE Late == {"settle", "after", "release", "finalize"}
<1>0. /\ host \in [Ops -> [HostFiles -> FileState]]
      /\ dev \in [Ops -> [DeviceFiles -> FileState]]
      /\ pc # "idle" => op \in Ops
  BY DEF Typing, TypeOK
<1>1. RecoveryPointPinned'
  <2>1. CASE UNCHANGED host
    BY <2>1, RecordsStay DEF PinInv, RecoveryPointPinned
  <2>2. CASE CreateOnHost \/ FillOnHost
    <3>1. op \in Ops /\ pc \in DOMAIN HostFile
      BY <2>2, <1>0, WriteLocations DEF CreateOnHost, FillOnHost
    <3>2. ASSUME NEW o \in Ops, NEW f \in {"released", "finalized"}, host'[o][f] # "none"
          PROVE  host[o][f] # "none" \/ (o = op /\ pc \in Late)
      BY <2>2, <3>1, <3>2, <1>0, WriteLocations DEF CreateOnHost, FillOnHost, HostFile, HostFiles
    <3> QED
      BY <3>2, RecordsStay DEF PinInv, RecoveryPointPinned
  <2> QED
    BY <2>1, <2>2, HostStep
<1>2. pc' \in Late => Finished(op)'
  <2>a. ASSUME pc' \in Late => pc \in Late /\ op' = op /\ op \in Ops
        PROVE  pc' \in Late => Finished(op)'
    BY <2>a, RecordsStay DEF PinInv
  <2>1. CASE Write
    <3>1. CASE CreateOnHost \/ FillOnHost \/ CreateOnDevice
      BY <3>1, <2>a, <1>0, WriteLocations DEF CreateOnHost, FillOnHost, CreateOnDevice, Successor
    <3>2. CASE FillOnDevice
      BY <3>2, <2>a, <1>0, WriteLocations DEF FillOnDevice, Successor, Content, Chosen, Finished, DevFile, DeviceFiles
    <3>3. CASE AlreadyWritten
      BY <3>3, <2>a, <1>0, WriteLocations DEF AlreadyWritten, Repeatable, Successor, Chosen, Finished
    <3> QED
      BY <2>1, <3>1, <3>2, <3>3 DEF Write
  <2>2. CASE Copy \/ Commit \/ UndoBegin
    BY <2>2 DEF Copy, CopyBegin, CopyFill, CopyPublish, CopyDone, Commit, VerifyStaged, Retire, Publish, Confirm, UndoBegin
  <2>3. CASE Clean
    BY <2>3, <2>a, <1>0 DEF Clean, CleanTmp, CleanAudio, CleanLoopDone, Unstage, Settle
  <2>4. CASE RecoverStep
    <3>1. CASE RecoverDone
      BY <3>1 DEF RecoverDone, Finished
    <3> QED
      BY <2>4, <3>1 DEF RecoverStep, RecoverFormal, RecoverRetired, RecoverFromHost, Reinstate,
         RecoverInitialize, RecoverUninitialized, Recheck, Choose
  <2>5. CASE CancelBeforeWork \/ Refresh \/ NothingToDo \/ ObserveCancel \/ Report \/ Reject
    BY <2>5 DEF CancelBeforeWork, Refresh, NothingToDo, ObserveCancel, Report, Reject, Return
  <2>6. CASE Caller
    BY <2>6, <2>a, <1>0 DEF Caller, Prepare, Execute, Recover, RequestCancel
  <2>7. CASE World
    BY <2>7, <2>a, <1>0 DEF World, IoFailure, Crash, RenameLost, Die, Return, Remount, ForeignEdit
  <2>8. CASE UNCHANGED vars
    BY <2>8, <2>a, <1>0
  <2> QED
    BY <2>1, <2>2, <2>3, <2>4, <2>5, <2>6, <2>7, <2>8 DEF Next, Step
<1> QED
  BY <1>1, <1>2 DEF PinInv

(***************************************************************************)
(* A recovery point is released only after the player holds the completion *)
(* record.                                                                 *)
(***************************************************************************)
THEOREM PinHeld == Spec => []RecoveryPointPinned
<1>1. Init => PinInv
  BY DataAssumption, StartAssumption DEF Init, PinInv, RecoveryPointPinned, HostFiles
<1>2. Typing /\ PinInv /\ [Next]_vars => PinInv'
  BY PinStep
<1>3. PinInv => RecoveryPointPinned
  BY DEF PinInv
<1> QED
  BY <1>1, <1>2, <1>3, TypingInvariant, PTL DEF Spec

-----------------------------------------------------------------------------
(* One open journal.                                                       *)
OneInv ==
  /\ OneOpenJournal
  /\ pc \in {"old_db", "new_db", "before", "manifest", "marker"} =>
       \A p \in Ops \ {op} : dev[p]["journal"] # "none" => Finished(p)

LEMMA OneStep == ASSUME Typing, OneInv, [Next]_vars PROVE OneInv'
<1> USE DEF deviceVars, callFrame, sweepVars, engineVars, callerVars, historyVars, vars
<1> DEFINE Starting == {"old_db", "new_db", "before", "manifest", "marker"}
           Clear(l) == l \in Starting => \A p \in Ops \ {op} : dev[p]["journal"] # "none" => Finished(p)
<1>1. OneOpenJournal'
  BY RecordsStay DEF OneInv, OneOpenJournal
<1>2. pc' \in Starting => \A p \in Ops \ {op'} : dev'[p]["journal"] # "none" => Finished(p)'
  <2>a. ASSUME pc' \in Starting => pc \in Starting /\ op' = op
        PROVE  pc' \in Starting => \A p \in Ops \ {op'} : dev'[p]["journal"] # "none" => Finished(p)'
    BY <2>a, RecordsStay DEF OneInv
  <2>1. CASE Write
    BY <2>1, <2>a, WriteLocations DEF Write, CreateOnHost, FillOnHost, CreateOnDevice, FillOnDevice, AlreadyWritten, Repeatable, Successor
  <2>2. CASE Copy \/ Commit \/ UndoBegin
    BY <2>2, <2>a DEF Copy, CopyBegin, CopyFill, CopyPublish, CopyDone, Commit, VerifyStaged, Retire, Publish, Confirm, UndoBegin
  <2>3. CASE Clean
    BY ZenonT(60), <2>3, <2>a DEF Clean, CleanTmp, CleanAudio, CleanLoopDone, Unstage, Settle
  <2>4. CASE RecoverStep
    BY <2>4, <2>a DEF RecoverStep, RecoverDone, RecoverFormal, RecoverRetired, RecoverFromHost, Reinstate,
         RecoverInitialize, RecoverUninitialized, Recheck, Choose
  <2>5. CASE Refresh
    BY <2>5 DEF Refresh, PlanStillHolds, Preflight, NoUnfinishedJournal, Finished
  <2>6. CASE CancelBeforeWork \/ NothingToDo \/ ObserveCancel \/ Report \/ Reject
    BY <2>6, <2>a DEF CancelBeforeWork, NothingToDo, ObserveCancel, Report, Reject, Return
  <2>7. CASE Caller
    BY <2>7, <2>a DEF Caller, Prepare, Execute, Recover, RequestCancel
  <2>8. CASE World
    BY <2>8, <2>a DEF World, IoFailure, Crash, RenameLost, Die, Return, Remount, ForeignEdit
  <2>9. CASE UNCHANGED vars
    BY <2>9, <2>a
  <2> QED
    BY <2>1, <2>2, <2>3, <2>4, <2>5, <2>6, <2>7, <2>8, <2>9 DEF Next, Step
<1> QED
  BY <1>1, <1>2 DEF OneInv

(***************************************************************************)
(* At most one operation is unfinished on the player, however many         *)
(* callers, plans and crashes there are.                                   *)
(***************************************************************************)
THEOREM OneJournal == Spec => []OneOpenJournal
<1>1. Init => OneInv
  BY DataAssumption, StartAssumption DEF Init, OneInv, OneOpenJournal, DeviceFiles
<1>2. Typing /\ OneInv /\ [Next]_vars => OneInv'
  BY OneStep
<1>3. OneInv => OneOpenJournal
  BY DEF OneInv
<1> QED
  BY <1>1, <1>2, <1>3, TypingInvariant, PTL DEF Spec

-----------------------------------------------------------------------------
(* Playability.  Each phase before the commit still sees the planned       *)
(* database, the commit has checked the new one, cleanup keeps what the    *)
(* formal one references.                                                  *)
Working == {"old_db", "new_db", "before", "manifest", "marker", "copy", "stage", "verify",
            "undo", "commit", "retire"}

PlayInv ==
  /\ formal # NoDatabase => formal = lastGood
  /\ FormalPlayable
  /\ \A o \in Ops : base[o] # Unplanned /\ IsUpdate(o) => base[o] # NoDatabase
  /\ pc \in Working => formal = base[op]
  /\ pc = "publish" /\ IsUpdate(op) => lastGood = base[op]
  /\ pc \in {"commit", "retire", "publish"} => Refs[New[op]] \subseteq Present
  /\ pc \in {"restore", "reinstate"} => RefsOf(base[op]) \subseteq Present
  /\ pc \in {"recheck", "clean"} => RefsOf(formal) \subseteq refs
  /\ pc \in {"recover", "restore", "reinstate", "recheck"} => mode = "recover"

LEMMA PlayStep == ASSUME Typing, PlayInv, [Next]_vars PROVE PlayInv'
<1> USE DEF deviceVars, callFrame, sweepVars, engineVars, callerVars, historyVars, vars, Working
<1> DEFINE Tracked == Working \cup {"publish", "restore", "reinstate", "recheck", "clean", "recover"}
           Player == <<formal, media, lastGood>>
<1>0. /\ formal \in Databases \cup {NoDatabase}
      /\ media \in [Media -> Bytes \cup {Absent}]
      /\ base \in [Ops -> Databases \cup {NoDatabase, Unplanned}]
      /\ pc # "idle" => op \in Ops /\ base[op] # Unplanned
      /\ \A o \in Ops : New[o] \in Databases
      /\ NoDatabase \notin Databases /\ RefsOf(NoDatabase) = {}
      /\ Unplanned \notin Databases \cup {NoDatabase} /\ Absent \notin Bytes
  BY RequestAssumption, DataAssumption DEF Typing, TypeOK, PlanKnown, IsUpdate, RefsOf
\* A step outside the phases PlayInv tells apart.
<1>a. ASSUME UNCHANGED <<Player, base>>,
             \/ pc' \notin Tracked
             \/ UNCHANGED <<pc, op, mode, refs>>
             \/ pc \in Working /\ pc' \in Working \ {"commit", "retire"} /\ op' = op
      PROVE  PlayInv'
  BY <1>a DEF PlayInv, FormalPlayable, Present
<1>1. CASE Write
  <2>1. CASE CreateOnHost \/ CreateOnDevice \/ AlreadyWritten
    BY <2>1, <1>a, WriteLocations DEF CreateOnHost, CreateOnDevice, AlreadyWritten, Repeatable, Successor
  <2>2. CASE FillOnHost
    BY <2>2, <1>a, WriteLocations DEF FillOnHost, Successor
  <2>3. CASE FillOnDevice
    BY <2>3, <1>0, WriteLocations DEF FillOnDevice, Successor, PlayInv, FormalPlayable, Present
  <2> QED
    BY <1>1, <2>1, <2>2, <2>3 DEF Write
<1>2. ASSUME NEW o \in Ops, Prepare(o) PROVE PlayInv'
  BY <1>2, <1>0 DEF Prepare, Preflight, PlayInv, FormalPlayable, Present, IsUpdate
<1>3. ASSUME NEW o \in Ops, Execute(o) \/ Recover(o) PROVE PlayInv'
  BY <1>3 DEF Execute, Recover, PlayInv, FormalPlayable, Present
<1>4. ASSUME NEW m \in Media, CopyBegin(m) \/ CopyFill(m) PROVE PlayInv'
  BY <1>4, <1>a DEF CopyBegin, CopyFill
<1>5. ASSUME NEW m \in Media, CopyPublish(m) PROVE PlayInv'
  <2>1. Present \subseteq Present'
    BY <1>5, <1>0 DEF CopyPublish, Present
  <2> QED
    BY <1>5, <2>1 DEF CopyPublish, PlayInv, FormalPlayable
<1>6. CASE CopyDone \/ Refresh \/ NothingToDo \/ CancelBeforeWork \/ ObserveCancel
  <2>1. CASE Refresh
    BY <2>1 DEF Refresh, PlanStillHolds, PlannedDatabase, PlayInv, FormalPlayable, Present
  <2>2. CASE CopyDone \/ ObserveCancel
    BY <2>2, <1>a DEF CopyDone, ObserveCancel
  <2>3. CASE NothingToDo \/ CancelBeforeWork
    BY <2>3, <1>a DEF NothingToDo, CancelBeforeWork, Return
  <2> QED
    BY <1>6, <2>1, <2>2, <2>3
<1>7. CASE VerifyStaged
  BY <1>7, <1>0 DEF VerifyStaged, ReferencesExist, RefsOf, PlannedDatabase, PlayInv, FormalPlayable, Present
<1>8. CASE Retire
  BY <1>8, <1>0 DEF Retire, PlayInv, FormalPlayable, Present
<1>9. CASE Publish
  BY <1>9, <1>0 DEF Publish, InstallStaged, RefsOf, PlayInv, FormalPlayable, Present
<1>10. CASE Confirm
  BY <1>10, <1>0 DEF Confirm, RefsOf, PlayInv, FormalPlayable, Present
<1>11. CASE UndoBegin
  BY <1>11, <1>0 DEF UndoBegin, PlannedDatabase, PlayInv, FormalPlayable, Present
<1>12. ASSUME NEW m \in Media, CleanTmp(m) PROVE PlayInv'
  BY <1>12, <1>a DEF CleanTmp
<1>13. ASSUME NEW m \in Media, NEW k \in {"final", "delete"}, CleanAudio(k, m) PROVE PlayInv'
  <2>1. FormalPlayable'
    BY <1>13, <1>0 DEF CleanAudio, Removable, PlayInv, FormalPlayable, Present
  <2> QED
    BY <1>13, <2>1 DEF CleanAudio, PlayInv, FormalPlayable
<1>14. CASE CleanLoopDone \/ Unstage \/ Settle \/ Report
  BY <1>14, <1>a DEF CleanLoopDone, Unstage, Settle, Report, Return
<1>15. CASE RecoverStep
  <2>1. CASE RecoverDone
    BY <2>1, <1>a DEF RecoverDone
  <2>2. CASE RecoverFormal
    BY <2>2, <1>0 DEF RecoverFormal, Choose, PlayInv, FormalPlayable, Present
  <2>3. CASE RecoverRetired \/ Reinstate
    BY <2>3, <1>0 DEF RecoverRetired, Reinstate, OldWanted, Recovering, ReferencesExist, Choose, PlayInv, FormalPlayable, Present
  <2>4. CASE RecoverFromHost
    BY <2>4, <1>0 DEF RecoverFromHost, OldWanted, Recovering, ReferencesExist, PlayInv, FormalPlayable, Present
  <2>5. CASE RecoverInitialize
    <3>1. RefsOf(New[op]) \subseteq Present
      BY <2>5 DEF RecoverInitialize, ForwardWanted, RecoveredMediaValid, ReferencesExist
    <3>2. Present' = Present /\ formal' = New[op] /\ lastGood' = New[op] /\ refs' = RefsOf(New[op])
          /\ pc' = "recheck" /\ UNCHANGED <<base, op, mode>>
      BY <2>5, <1>0 DEF RecoverInitialize, ForwardWanted, Recovering, InstallStaged, Choose, RefsOf, Present
    <3> QED
      BY <2>5, <3>1, <3>2 DEF RecoverInitialize, ForwardWanted, Recovering, PlayInv, FormalPlayable
  <2>7. CASE RecoverUninitialized
    BY <2>7, <1>0 DEF RecoverUninitialized, Recovering, Choose, PlayInv, FormalPlayable, Present
  <2>6. CASE Recheck
    BY <2>6 DEF Recheck, PlayInv, FormalPlayable, Present
  <2> QED
    BY <1>15, <2>1, <2>2, <2>3, <2>4, <2>5, <2>6, <2>7 DEF RecoverStep
<1>16. CASE Reject \/ IoFailure
  BY <1>16, <1>a DEF Reject, IoFailure, Return
<1>17. CASE Crash \/ RenameLost
  <2>1. \A o \in Ops : base'[o] \in {base[o], Unplanned}
    BY <1>17 DEF Crash, RenameLost, Die, Remembered
  <2>2. formal' \in {formal, NoDatabase} /\ UNCHANGED <<media, lastGood>> /\ pc' = "idle"
    BY <1>17 DEF Crash, RenameLost, Die, Return
  <2> QED
    BY <2>1, <2>2, <1>0 DEF PlayInv, FormalPlayable, Present
<1>18. CASE RequestCancel \/ Remount \/ UNCHANGED vars
  BY <1>18, <1>a DEF RequestCancel, Remount
<1>19. ASSUME NEW d \in Foreign, ForeignEdit(d) PROVE PlayInv'
  BY <1>19 DEF ForeignEdit, ReferencesExist, PlayInv, FormalPlayable, Present
<1> QED
  BY <1>1, <1>2, <1>3, <1>4, <1>5, <1>6, <1>7, <1>8, <1>9, <1>10, <1>11, <1>12, <1>13, <1>14,
     <1>15, <1>16, <1>17, <1>18, <1>19
  DEF Next, Step, Copy, Commit, Clean, Caller, World

LEMMA PlayInvariant == Spec => []PlayInv
<1>1. Init => PlayInv
  BY DataAssumption, RequestAssumption, StartAssumption
  DEF Init, PlayInv, Working, FormalPlayable, RefsOf, Present
<1>2. Typing /\ PlayInv /\ [Next]_vars => PlayInv'
  BY PlayStep
<1> QED
  BY <1>1, <1>2, TypingInvariant, PTL DEF Spec

(***************************************************************************)
(* A database under its formal name references only audio that is there.   *)
(***************************************************************************)
THEOREM FormalStaysPlayable == Spec => []FormalPlayable
<1>1. PlayInv => FormalPlayable
  BY DEF PlayInv
<1> QED
  BY <1>1, PlayInvariant, PTL

-----------------------------------------------------------------------------
(* The register.                                                           *)

IsOpen(o) == dev[o]["journal"] = "full" /\ ~Finished(o)
InWindow(o) == dev[o]["journal"] = "full" /\ dev[o]["done"] = "none"

Entering == {"old_db", "new_db", "before", "manifest", "marker"}
Inside == {"copy", "stage", "verify", "undo", "commit", "retire", "publish", "confirm"}
Decided == {"recheck", "clean", "unstage", "done"}
Writing == DOMAIN HostFile \cup DOMAIN DevFile

\* A vacant formal name is the window of the open operation, planned against
\* the last library; or nothing was ever planned.
WindowInv ==
  formal = NoDatabase =>
    \/ \E o \in Ops : InWindow(o) /\ base[o] = lastGood
    \/ lastGood = NoDatabase /\ \A o \in Ops : base[o] = Unplanned

\* A file is being written only at a write, and a completion record only once.
FileInv ==
  /\ opened => pc \in Writing \cup {"copy"}
  /\ opened /\ pc = "copy" => todo # {}
  /\ opened /\ pc = "done" => dev[op]["done"] = "torn"

PhaseInv ==
  /\ pc \in Entering => dev[op]["done"] = "none"
  /\ pc \in Inside => InWindow(op)
  /\ pc \in {"restore", "reinstate"} => ~Finished(op)

\* What is formal when the running call has chosen.
ChoiceInv ==
  /\ pc \in Decided => formal # NoDatabase /\ formal = IF committed THEN New[op] ELSE base[op]
  /\ pc \in {"idle", "prepare", "recover", "restore", "reinstate"} \cup Entering \cup Inside => ~committed

JournalOnRecord == \A o \in Ops : dev[o]["journal"] # "none" => OnRecord(o)

RegisterInv == JournalOnRecord /\ WindowInv /\ FileInv /\ PhaseInv /\ ChoiceInv

\* Initializations, if there are requests for them, find a library and are
\* refused; the records are those of updates.
UpdatesOnly ==
  /\ Fresh = {} \/ lastGood # NoDatabase
  /\ \A o \in Ops : base[o] # Unplanned => IsUpdate(o)

\* Everything already known, and that.
Known == Typing /\ EvidenceInv /\ OneInv /\ PlayInv /\ UpdatesOnly

LEMMA Facts ==
  ASSUME Known
  PROVE  /\ dev \in [Ops -> [DeviceFiles -> FileState]]
         /\ host \in [Ops -> [HostFiles -> FileState]]
         /\ base \in [Ops -> Databases \cup {NoDatabase, Unplanned}]
         /\ formal \in Databases \cup {NoDatabase}
         /\ formal # NoDatabase => formal = lastGood
         /\ pc # "idle" => op \in Ops /\ base[op] \notin {Unplanned, NoDatabase} /\ IsUpdate(op)
         /\ \A o \in Ops : OnRecord(o) => base[o] \notin {Unplanned, NoDatabase} /\ IsUpdate(o)
         /\ pc \in Working => formal = base[op]
         /\ pc = "publish" => lastGood = base[op]
         /\ \A o \in Ops : New[o] \in Databases
         /\ NoDatabase \notin Databases /\ Unplanned \notin Databases \cup {NoDatabase}
         /\ \A o \in Ops : dev[o]["done"] # "none" => OnRecord(o)
         /\ pc \notin {"idle", "prepare", "old_db", "new_db", "before", "manifest"} => OnRecord(op)
<1>1. \A o \in Ops : New[o] \in Databases
  BY RequestAssumption
<1>2. \A o \in Ops : dev[o]["done"] # "none" => Touched(o)
  BY DEF Touched, DeviceFiles
<1> QED
  BY <1>1, <1>2, DataAssumption DEF Known, UpdatesOnly, Typing, TypeOK, PlanKnown, PlayInv, EvidenceInv

\* Records appear only through their own writes.
LEMMA HostRecords ==
  ASSUME Known, [Next]_vars, NEW o \in Ops
  PROVE  OnRecord(o) => OnRecord(o)'
<1>1. CASE UNCHANGED host
  BY <1>1 DEF OnRecord
<1>2. CASE CreateOnHost
  BY <1>2, Facts, WriteLocations DEF CreateOnHost, OnRecord, HostFile
<1>3. CASE FillOnHost
  BY <1>3, Facts, WriteLocations DEF FillOnHost, OnRecord, HostFile, Content, HostFiles
<1> QED
  BY <1>1, <1>2, <1>3, HostStep

\* With an unfinished operation nothing is planned, and without one a library
\* that was there is there: an initialization finds it.
LEMMA PlannedUpdate ==
  ASSUME Known, RegisterInv, NEW o \in Ops, Prepare(o)
  PROVE  IsUpdate(o) /\ formal # NoDatabase /\ formal = lastGood
<1>1. formal # NoDatabase
  <2>1. CASE Fresh = {}
    BY <2>1 DEF Prepare, Preflight
  <2>2. CASE lastGood # NoDatabase
    <3>1. \A p \in Ops : ~InWindow(p)
      BY DEF Prepare, Preflight, NoUnfinishedJournal, InWindow
    <3> QED
      BY <2>2, <3>1 DEF RegisterInv, WindowInv
  <2> QED
    BY <2>1, <2>2 DEF Known, UpdatesOnly
<1>2. IsUpdate(o)
  BY <1>1 DEF Prepare, Preflight, IsUpdate
<1> QED
  BY <1>1, <1>2, Facts

LEMMA UpdatesOnlyStep == ASSUME Known, RegisterInv, [Next]_vars PROVE UpdatesOnly'
<1> USE DEF deviceVars, callFrame, sweepVars, engineVars, callerVars, historyVars, vars
<1>a. ASSUME lastGood' = lastGood \/ lastGood' # NoDatabase,
             \A o \in Ops : base'[o] \in {base[o], Unplanned}
      PROVE  UpdatesOnly'
  BY <1>a DEF Known, UpdatesOnly, IsUpdate
<1>1. CASE Write \/ Copy
  BY <1>1, <1>a DEF Write, CreateOnHost, FillOnHost, CreateOnDevice, FillOnDevice, AlreadyWritten,
     Copy, CopyBegin, CopyFill, CopyPublish, CopyDone
<1>2. CASE Commit
  <2>1. CASE VerifyStaged \/ Retire \/ Confirm
    BY <2>1, <1>a DEF VerifyStaged, Retire, Confirm
  <2>2. CASE Publish
    <3>1. pc = "publish" /\ lastGood' = New[op] /\ UNCHANGED base
      BY <2>2 DEF Publish, InstallStaged
    <3>2. op \in Ops
      BY <3>1, Facts
    <3>3. New[op] # NoDatabase
      BY <3>2, RequestAssumption, DataAssumption
    <3> QED
      BY <1>a, <3>1, <3>3
  <2> QED
    BY <1>2, <2>1, <2>2 DEF Commit
<1>3. CASE UndoBegin \/ Clean
  BY <1>3, <1>a DEF UndoBegin, Clean, CleanTmp, CleanAudio, CleanLoopDone, Unstage, Settle
<1>4. CASE RecoverStep
  BY <1>4, <1>a, Facts DEF RecoverStep, RecoverDone, RecoverFormal, RecoverRetired, RecoverFromHost, OldWanted,
     Recovering, Reinstate, RecoverInitialize, ForwardWanted, InstallStaged, RecoverUninitialized, Recheck, Choose
<1>5. CASE CancelBeforeWork \/ Refresh \/ NothingToDo \/ ObserveCancel \/ Report \/ Reject
  BY <1>5, <1>a DEF CancelBeforeWork, Refresh, NothingToDo, ObserveCancel, Report, Reject
<1>6. ASSUME NEW o \in Ops, Prepare(o) PROVE UpdatesOnly'
  BY <1>6, PlannedUpdate DEF Known, UpdatesOnly, Prepare, Typing, TypeOK, IsUpdate
<1>7. CASE (\E o \in Ops : Execute(o) \/ Recover(o)) \/ RequestCancel \/ UNCHANGED vars
  BY <1>7, <1>a DEF Execute, Recover, RequestCancel
<1>8. CASE IoFailure \/ Crash \/ RenameLost \/ Remount
  BY <1>8, <1>a DEF IoFailure, Crash, RenameLost, Die, Remembered, Remount
<1>9. ASSUME NEW d \in Foreign, ForeignEdit(d) PROVE UpdatesOnly'
  BY <1>9, <1>a, DataAssumption DEF ForeignEdit
<1> QED
  BY <1>1, <1>2, <1>3, <1>4, <1>5, <1>6, <1>7, <1>8, <1>9 DEF Next, Step, Caller, World

LEMMA JournalStep == ASSUME Known, RegisterInv, [Next]_vars PROVE JournalOnRecord'
<1>1. ASSUME NEW o \in Ops, dev'[o]["journal"] # "none" PROVE OnRecord(o)'
  <2>1. dev[o]["journal"] # "none" \/ (pc = "marker" /\ op = o)
    BY <1>1, RecordsStay DEF Known
  <2>2. OnRecord(o)
    BY <2>1, Facts DEF RegisterInv, JournalOnRecord
  <2> QED
    BY <2>2, HostRecords
<1> QED
  BY <1>1 DEF JournalOnRecord

LEMMA FileStep == ASSUME Known, RegisterInv, [Next]_vars PROVE FileInv'
<1> USE DEF deviceVars, callFrame, sweepVars, engineVars, callerVars, historyVars, vars
<1>0. FileInv /\ Writing = {"old_db", "new_db", "before", "manifest", "after", "release", "finalize",
                            "marker", "stage", "commit", "restore", "done"}
  BY WriteLocations DEF RegisterInv, Writing
<1>1. CASE CreateOnHost \/ CreateOnDevice
  BY <1>0, <1>1, Facts, WriteLocations DEF CreateOnHost, CreateOnDevice, FileInv, DevFile, DeviceFiles
<1>2. CASE ~opened'
  BY <1>2 DEF FileInv
<1>3. ASSUME NEW m \in Media, CopyBegin(m) PROVE FileInv'
  BY <1>0, <1>3 DEF CopyBegin, FileInv
<1>4. CASE /\ UNCHANGED <<opened, op>>
           /\ \/ ~opened
              \/ UNCHANGED <<pc, todo, dev>>
  BY <1>0, <1>4 DEF FileInv
<1>5. CASE Write
  BY <1>1, <1>2, <1>4, <1>5 DEF Write, FillOnHost, FillOnDevice, AlreadyWritten
<1>6. CASE Copy
  BY <1>0, <1>2, <1>3, <1>4, <1>6, Facts DEF Copy, CopyFill, CopyPublish, CopyDone, FileInv
<1>7. CASE CancelBeforeWork \/ NothingToDo \/ ObserveCancel \/ Report \/ Reject \/ IoFailure \/ Crash \/ RenameLost
  BY <1>2, <1>7 DEF CancelBeforeWork, NothingToDo, ObserveCancel, Report, Reject, IoFailure, Crash, RenameLost, Die, Return
<1>8. CASE Refresh \/ Commit \/ UndoBegin \/ Clean
  BY <1>0, <1>4, <1>8 DEF Refresh, Commit, VerifyStaged, Retire, Publish, Confirm, UndoBegin, Clean, CleanTmp, CleanAudio,
     CleanLoopDone, Unstage, Settle, FileInv
<1>9. CASE RecoverStep
  BY <1>0, <1>4, <1>9 DEF RecoverStep, RecoverDone, RecoverFormal, RecoverRetired, RecoverFromHost, OldWanted,
     Reinstate, RecoverInitialize, ForwardWanted, RecoverUninitialized, Recheck, Recovering, Choose, FileInv
<1>10. CASE Caller
  <2>1. ASSUME NEW o \in Ops, Prepare(o) PROVE FileInv'
    BY <1>4, <2>1 DEF Prepare
  <2>2. ASSUME NEW o \in Ops, Execute(o) \/ Recover(o) PROVE FileInv'
    BY <1>0, <1>2, <2>2 DEF Execute, Recover, FileInv
  <2> QED
    BY <1>4, <1>10, <2>1, <2>2 DEF Caller, RequestCancel
<1>11. CASE Remount \/ (\E d \in Foreign : ForeignEdit(d)) \/ UNCHANGED vars
  BY <1>4, <1>11 DEF Remount, ForeignEdit
<1> QED
  BY <1>5, <1>6, <1>7, <1>8, <1>9, <1>10, <1>11 DEF Next, Step, World

\* What a write makes of the completion record and the journal.
LEMMA WriteEffect ==
  ASSUME Known, RegisterInv, NEW o \in Ops
  PROVE  /\ CreateOnDevice /\ IsOpen(o) => IsOpen(o)'
         /\ CreateOnDevice => Finished(o)' = Finished(o)
         /\ FillOnDevice /\ ~(pc = "done" /\ o = op) => /\ IsOpen(o) => IsOpen(o)'
                                                       /\ dev'[o]["done"] = dev[o]["done"]
         /\ CreateOnDevice /\ pc # "done" /\ InWindow(o) => InWindow(o)'
         /\ DeviceLoss => /\ dev'[o]["journal"] = dev[o]["journal"]
                          /\ dev'[o]["done"] = dev[o]["done"]
<1>0. /\ dev \in [Ops -> [DeviceFiles -> FileState]]
      /\ \A l \in DOMAIN DevFile : DevFile[l] \in DeviceFiles
      /\ \A l \in DOMAIN DevFile : (DevFile[l] = "journal" <=> l = "marker") /\ (DevFile[l] = "done" <=> l = "done")
      /\ pc # "idle" => op \in Ops
      /\ pc \in DOMAIN DevFile => pc # "idle"
      /\ {"journal", "done", "staged", "restore"} \subseteq DeviceFiles
  BY Facts, WriteLocations DEF DevFile, DeviceFiles
<1>1. CreateOnDevice /\ IsOpen(o) => IsOpen(o)'
  BY <1>0 DEF CreateOnDevice, IsOpen, Finished
<1>2. CreateOnDevice => Finished(o)' = Finished(o)
  BY <1>0 DEF CreateOnDevice, Finished
<1>3. FillOnDevice /\ ~(pc = "done" /\ o = op) => /\ IsOpen(o) => IsOpen(o)'
                                                 /\ dev'[o]["done"] = dev[o]["done"]
  BY <1>0 DEF FillOnDevice, IsOpen, Finished, Content
<1>4. DeviceLoss => /\ dev'[o]["journal"] = dev[o]["journal"]
                   /\ dev'[o]["done"] = dev[o]["done"]
  BY <1>0 DEF DeviceLoss
<1>5. CreateOnDevice /\ pc # "done" /\ InWindow(o) => InWindow(o)'
  BY <1>0 DEF CreateOnDevice, InWindow
<1> QED
  BY <1>1, <1>2, <1>3, <1>4, <1>5

\* An operation in its window stays so until its completion record is begun.
LEMMA WindowStays ==
  ASSUME Known, RegisterInv, [Next]_vars, NEW o \in Ops, InWindow(o), pc # "done"
  PROVE  InWindow(o)'
<1>0. InWindow(o) => IsOpen(o)
  BY DEF InWindow, IsOpen, Finished
<1>1. CASE UNCHANGED dev
  BY <1>1 DEF InWindow
<1>2. CASE CreateOnDevice \/ FillOnDevice \/ DeviceLoss
  BY <1>0, <1>2, WriteEffect DEF InWindow, IsOpen, Finished
<1> QED
  BY <1>1, <1>2, DeviceStep

LEMMA PhaseStep == ASSUME Known, RegisterInv, [Next]_vars PROVE PhaseInv'
<1> USE DEF deviceVars, callFrame, sweepVars, engineVars, callerVars, historyVars, vars
<1> DEFINE Told == Entering \cup Inside \cup {"restore", "reinstate"}
<1>0. /\ PhaseInv
      /\ Told = {"old_db", "new_db", "before", "manifest", "marker", "copy", "stage", "verify", "undo",
                 "commit", "retire", "publish", "confirm", "restore", "reinstate"}
      /\ pc # "idle" => op \in Ops
  BY Facts DEF RegisterInv, Entering, Inside
<1>a. ASSUME pc' \notin Told
      PROVE  PhaseInv'
  BY <1>a DEF PhaseInv
\* Within a phase, or on to a weaker one.
<1>b. ASSUME UNCHANGED op, pc # "idle",
             dev'[op]["done"] = dev[op]["done"] /\ dev'[op]["journal"] = dev[op]["journal"],
             \/ pc' = pc
             \/ pc \in Entering /\ pc' \in Entering
             \/ pc \in Inside /\ pc' \in Inside
             \/ pc = "restore" /\ pc' = "reinstate"
      PROVE  PhaseInv'
  BY <1>0, <1>b DEF PhaseInv, InWindow, Finished, Entering, Inside
<1>1. CASE CreateOnHost \/ FillOnHost \/ AlreadyWritten
  <2>1. UNCHANGED <<op, dev>> /\ pc # "idle"
    BY <1>1, WriteLocations DEF CreateOnHost, FillOnHost, AlreadyWritten, Repeatable
  <2>2. pc' = pc \/ (pc \in Entering /\ pc' \in Entering) \/ pc' \notin Told
    BY <1>1, <1>0, WriteLocations DEF CreateOnHost, FillOnHost, AlreadyWritten, Repeatable, Successor, Entering
  <2> QED
    BY <1>a, <1>b, <2>1, <2>2
<1>2. CASE CreateOnDevice
  <2>1. UNCHANGED <<op, pc>> /\ pc # "idle" /\ op \in Ops
    BY <1>2, <1>0, WriteLocations DEF CreateOnDevice
  <2>2. pc \in Entering \cup Inside => dev'[op]["done"] = dev[op]["done"]
    BY <1>2, <2>1, <1>0, Facts, WriteLocations DEF CreateOnDevice, DevFile, DeviceFiles, Entering, Inside
  <2>3. pc # "done" => (InWindow(op) => InWindow(op)')
    BY <1>2, <2>1, WriteEffect
  <2>4. Finished(op)' = Finished(op)
    BY <1>2, <2>1, WriteEffect
  <2> QED
    BY <2>1, <2>2, <2>3, <2>4, <1>0 DEF PhaseInv, Inside
<1>3. CASE FillOnDevice
  <2>1. UNCHANGED op /\ op \in Ops /\ pc \in DOMAIN DevFile /\ pc' = Successor(pc)
    BY <1>3, <1>0, WriteLocations DEF FillOnDevice
  <2>2. CASE pc = "done"
    BY <2>1, <2>2, <1>a, <1>0 DEF Successor
  <2>3. CASE pc = "marker"
    <3>1. dev'[op]["journal"] = "full" /\ dev'[op]["done"] = dev[op]["done"] /\ pc' = "copy"
      BY <1>3, <2>1, <2>3, Facts DEF FillOnDevice, DevFile, DeviceFiles, Content, Successor
    <3> QED
      BY <3>1, <2>1, <2>3, <1>0 DEF PhaseInv, InWindow, Finished, Entering, Inside
  <2>4. CASE pc \in {"stage", "commit", "restore"}
    <3>1. dev'[op]["journal"] = dev[op]["journal"] /\ dev'[op]["done"] = dev[op]["done"]
      BY <1>3, <2>1, <2>4, Facts DEF FillOnDevice, DevFile, DeviceFiles
    <3>2. (pc \in Inside /\ pc' \in Inside) \/ (pc = "restore" /\ pc' = "reinstate")
      BY <2>1, <2>4 DEF Successor, Inside
    <3> QED
      BY <3>1, <3>2, <2>1, <2>4, <1>b
  <2> QED
    BY <2>1, <2>2, <2>3, <2>4, WriteLocations
<1>4. CASE Copy
  BY <1>4, <1>b DEF Copy, CopyBegin, CopyFill, CopyPublish, CopyDone, Inside
<1>5. CASE Refresh
  <2>1. dev[op]["done"] = "none"
    BY <1>5, <1>0, Facts DEF Refresh, PlanStillHolds, Preflight, OnRecord
  <2> QED
    BY <1>5, <2>1, <1>0 DEF Refresh, PhaseInv, Entering, Inside
<1>6. CASE VerifyStaged \/ Retire \/ ObserveCancel
  BY <1>6, <1>b DEF VerifyStaged, Retire, ObserveCancel, Inside
<1>7. CASE Publish
  <2>1. dev'[op]["done"] = dev[op]["done"] /\ dev'[op]["journal"] = dev[op]["journal"]
    BY <1>7, <1>0, Facts DEF Publish, InstallStaged, DeviceFiles
  <2> QED
    BY <1>7, <2>1, <1>b DEF Publish, Inside
<1>8. CASE Confirm \/ UndoBegin \/ CancelBeforeWork \/ NothingToDo \/ Report \/ Reject \/ IoFailure \/ Crash \/ RenameLost
  BY <1>8, <1>a, <1>0 DEF Confirm, UndoBegin, CancelBeforeWork, NothingToDo, Report, Reject, IoFailure, Crash, RenameLost, Die, Return
<1>9. CASE Clean
  BY <1>9, <1>a, <1>0 DEF Clean, CleanTmp, CleanAudio, CleanLoopDone, Unstage, Settle
<1>10. CASE RecoverStep
  <2>1. CASE RecoverFromHost
    BY <2>1, <1>0 DEF RecoverFromHost, OldWanted, PhaseInv, Finished, Entering, Inside
  <2> QED
    BY <1>10, <2>1, <1>a, <1>0 DEF RecoverStep, RecoverDone, RecoverFormal, RecoverRetired, OldWanted,
       Reinstate, RecoverInitialize, ForwardWanted, RecoverUninitialized, Recheck, Recovering, Choose
<1>11. CASE Caller \/ Remount \/ (\E d \in Foreign : ForeignEdit(d)) \/ UNCHANGED vars
  <2>1. \/ pc' \notin Told
        \/ UNCHANGED <<pc, op, dev>>
    BY <1>11, <1>0 DEF Caller, Prepare, Execute, Recover, RequestCancel, Remount, ForeignEdit
  <2> QED
    BY <2>1, <1>a, <1>0 DEF PhaseInv, InWindow, Finished
<1> QED
  BY <1>1, <1>2, <1>3, <1>4, <1>5, <1>6, <1>7, <1>8, <1>9, <1>10, <1>11 DEF Next, Step, Write, Commit, World

LEMMA ChoiceStep == ASSUME Known, RegisterInv, [Next]_vars PROVE ChoiceInv'
<1> USE DEF deviceVars, callFrame, sweepVars, engineVars, callerVars, historyVars, vars
<1> DEFINE Early == {"idle", "prepare", "recover", "restore", "reinstate"} \cup Entering \cup Inside
<1>0. /\ ChoiceInv /\ FileInv
      /\ Early = {"idle", "prepare", "recover", "restore", "reinstate", "old_db", "new_db", "before",
                  "manifest", "marker", "copy", "stage", "verify", "undo", "commit", "retire", "publish", "confirm"}
      /\ Decided = {"recheck", "clean", "unstage", "done"}
      /\ pc # "idle" => op \in Ops
  BY Facts DEF RegisterInv, Entering, Inside, Decided
<1>a. ASSUME UNCHANGED <<formal, committed, op, base>>,
             \/ pc' = pc
             \/ pc' \notin Early \cup Decided
             \/ pc \in Early /\ pc' \in Early
             \/ pc \in Decided /\ pc' \in Decided
      PROVE  ChoiceInv'
  BY <1>0, <1>a DEF ChoiceInv
<1>b. ASSUME ~committed', pc' \notin Decided
      PROVE  ChoiceInv'
  BY <1>b DEF ChoiceInv
<1>1. CASE Write
  <2>1. UNCHANGED <<formal, committed, op, base>>
    BY <1>1 DEF Write, CreateOnHost, FillOnHost, CreateOnDevice, FillOnDevice, AlreadyWritten
  <2>2. \/ pc' = pc
        \/ pc' \notin Early \cup Decided
        \/ pc \in Early /\ pc' \in Early
    BY <1>1, <1>0, WriteLocations DEF Write, CreateOnHost, FillOnHost, CreateOnDevice, FillOnDevice, AlreadyWritten,
       Repeatable, Successor
  <2> QED
    BY <2>1, <2>2, <1>a
<1>2. CASE Copy \/ VerifyStaged \/ Refresh \/ ObserveCancel
  BY <1>2, <1>0, <1>a DEF Copy, CopyBegin, CopyFill, CopyPublish, CopyDone, VerifyStaged, Refresh, ObserveCancel
<1>3. CASE Retire \/ Publish
  BY <1>3, <1>0, <1>b DEF Retire, Publish, ChoiceInv
<1>4. CASE Confirm
  BY <1>4, <1>0, Facts DEF Confirm, ChoiceInv
<1>5. CASE UndoBegin
  BY <1>5, <1>0, Facts DEF UndoBegin, Working, ChoiceInv
<1>6. CASE CancelBeforeWork \/ NothingToDo \/ Report \/ Reject \/ IoFailure \/ Crash \/ RenameLost
  BY <1>6, <1>0, <1>b DEF CancelBeforeWork, NothingToDo, Report, Reject, IoFailure, Crash, RenameLost, Die, Return
<1>7. CASE Clean
  BY <1>7, <1>0, <1>a DEF Clean, CleanTmp, CleanAudio, CleanLoopDone, Unstage, Settle
<1>8. CASE RecoverStep
  <2>1. CASE RecoverFormal
    BY <2>1, <1>0, Facts DEF RecoverFormal, Choose, ChoiceInv
  <2>2. CASE RecoverRetired \/ Reinstate
    BY <2>2, <1>0, Facts DEF RecoverRetired, OldWanted, Recovering, Reinstate, Choose, ChoiceInv
  <2>3. CASE RecoverInitialize \/ RecoverUninitialized
    BY <2>3, Facts DEF RecoverInitialize, ForwardWanted, RecoverUninitialized, Recovering
  <2>4. CASE RecoverFromHost \/ RecoverDone \/ Recheck
    BY <2>4, <1>0, <1>a DEF RecoverFromHost, OldWanted, RecoverDone, Recovering, Recheck, ChoiceInv
  <2> QED
    BY <1>8, <2>1, <2>2, <2>3, <2>4 DEF RecoverStep
<1>9. ASSUME NEW o \in Ops, Prepare(o) PROVE ChoiceInv'
  <2>1. pc # "idle" => base'[op] = base[op]
    BY <1>9, <1>0, Facts DEF Prepare
  <2> QED
    BY <1>9, <2>1, <1>0 DEF Prepare, ChoiceInv
<1>10. ASSUME NEW o \in Ops, Execute(o) \/ Recover(o) PROVE ChoiceInv'
  BY <1>10, <1>0, <1>b DEF Execute, Recover, ChoiceInv
<1>11. CASE RequestCancel \/ Remount \/ UNCHANGED vars
  BY <1>11, <1>a DEF RequestCancel, Remount
<1>12. ASSUME NEW d \in Foreign, ForeignEdit(d) PROVE ChoiceInv'
  BY <1>12, <1>0, <1>b DEF ForeignEdit, ChoiceInv
<1> QED
  BY <1>1, <1>2, <1>3, <1>4, <1>5, <1>6, <1>7, <1>8, <1>9, <1>10, <1>11, <1>12 DEF Next, Step, Commit, Caller, World

LEMMA WindowStep == ASSUME Known, RegisterInv, [Next]_vars PROVE WindowInv'
<1> USE DEF deviceVars, callFrame, sweepVars, engineVars, callerVars, historyVars, vars
<1>0. WindowInv /\ PhaseInv /\ ChoiceInv
  BY DEF RegisterInv
<1>a. CASE formal' # NoDatabase
  BY <1>a DEF WindowInv
\* Nothing but an open operation's completion record closes the window.
<1>b. ASSUME UNCHANGED <<formal, lastGood>>,
             \A o \in Ops : base'[o] \in {base[o], Unplanned} /\ (OnRecord(o) => base'[o] = base[o])
      PROVE  WindowInv'
  <2>1. SUFFICES ASSUME formal = NoDatabase PROVE WindowInv'
    BY <1>b DEF WindowInv
  <2>2. CASE lastGood = NoDatabase /\ \A o \in Ops : base[o] = Unplanned
    BY <2>2, <1>b DEF WindowInv
  <2>3. ASSUME NEW o \in Ops, InWindow(o), base[o] = lastGood PROVE WindowInv'
    <3>1. pc # "done"
      BY <2>1, <1>0 DEF ChoiceInv, Decided
    <3>2. InWindow(o)'
      BY <3>1, <2>3, WindowStays
    <3>3. OnRecord(o)
      BY <2>3 DEF RegisterInv, JournalOnRecord, InWindow
    <3> QED
      BY <3>2, <3>3, <2>3, <1>b DEF WindowInv
  <2> QED
    BY <2>1, <2>2, <2>3, <1>0 DEF WindowInv
<1>c. ASSUME UNCHANGED <<formal, lastGood, base>> PROVE WindowInv'
  BY <1>b, <1>c
<1>1. CASE Write
  BY <1>1, <1>c DEF Write, CreateOnHost, FillOnHost, CreateOnDevice, FillOnDevice, AlreadyWritten
<1>2. CASE Copy \/ VerifyStaged \/ Refresh \/ ObserveCancel \/ Confirm \/ UndoBegin
  BY <1>2, <1>c DEF Copy, CopyBegin, CopyFill, CopyPublish, CopyDone, VerifyStaged, Refresh, ObserveCancel, Confirm, UndoBegin
<1>3. CASE pc = "retire" /\ UNCHANGED lastGood /\ (UNCHANGED dev /\ base'[op] = base[op])
  <2>1. op \in Ops /\ base[op] # NoDatabase /\ formal = base[op]
    BY <1>3, Facts DEF Working
  <2>2. InWindow(op)
    BY <1>3, <1>0 DEF PhaseInv, Inside
  <2> QED
    BY <1>3, <2>1, <2>2, Facts DEF WindowInv, InWindow
<1>4. CASE Retire
  BY <1>4, <1>3 DEF Retire
<1>5. CASE Publish
  BY <1>5, <1>a, Facts DEF Publish, InstallStaged
<1>6. CASE CancelBeforeWork \/ NothingToDo \/ Report \/ Reject \/ IoFailure
  BY <1>6, <1>c DEF CancelBeforeWork, NothingToDo, Report, Reject, IoFailure
<1>7. CASE Crash \/ RenameLost
  <2>1. \A o \in Ops : base'[o] \in {base[o], Unplanned} /\ (OnRecord(o) => base'[o] = base[o])
    BY <1>7 DEF Crash, RenameLost, Die, Remembered
  <2>2. UNCHANGED lastGood
    BY <1>7 DEF Crash, RenameLost, Die
  <2>3. CASE UNCHANGED formal
    BY <1>b, <2>1, <2>2, <2>3
  <2>4. CASE pc = "retire" /\ UNCHANGED dev
    <3>1. op \in Ops /\ OnRecord(op)
      BY <2>4, Facts
    <3> QED
      BY <1>3, <2>1, <2>2, <2>4, <3>1
  <2> QED
    BY <1>7, <2>3, <2>4 DEF Crash, RenameLost
<1>8. CASE Clean
  BY <1>8, <1>c DEF Clean, CleanTmp, CleanAudio, CleanLoopDone, Unstage, Settle
<1>9. CASE RecoverStep
  <2>1. CASE RecoverRetired \/ Reinstate
    BY <2>1, <1>a, Facts DEF RecoverRetired, OldWanted, Recovering, Reinstate
  <2>2. CASE RecoverInitialize \/ RecoverUninitialized
    BY <2>2, Facts DEF RecoverInitialize, ForwardWanted, RecoverUninitialized, Recovering
  <2>3. CASE RecoverFormal \/ RecoverFromHost \/ RecoverDone \/ Recheck
    BY <2>3, <1>c DEF RecoverFormal, RecoverFromHost, RecoverDone, Recheck, Choose
  <2> QED
    BY <1>9, <2>1, <2>2, <2>3 DEF RecoverStep
<1>10. ASSUME NEW o \in Ops, Prepare(o) PROVE WindowInv'
  BY <1>10, <1>a, PlannedUpdate DEF Prepare
<1>11. ASSUME NEW o \in Ops, Execute(o) \/ Recover(o) PROVE WindowInv'
  BY <1>11, <1>c DEF Execute, Recover
<1>12. CASE RequestCancel \/ Remount \/ UNCHANGED vars
  BY <1>12, <1>c DEF RequestCancel, Remount
<1>13. ASSUME NEW d \in Foreign, ForeignEdit(d) PROVE WindowInv'
  BY <1>13, <1>a, DataAssumption DEF ForeignEdit
<1> QED
  BY <1>1, <1>2, <1>4, <1>5, <1>6, <1>7, <1>8, <1>9, <1>10, <1>11, <1>12, <1>13 DEF Next, Step, Commit, Caller, World

LEMMA RegisterInvariant ==
  ASSUME Fresh = {} \/ Library # NoDatabase
  PROVE  Spec => [](Known /\ RegisterInv)
<1>1. Init => EvidenceInv /\ OneInv
  BY DataAssumption, StartAssumption
  DEF Init, EvidenceInv, Evidence, OnRecord, Touched, HostFiles, DeviceFiles, OneInv, OneOpenJournal
<1>2. Init => RegisterInv /\ UpdatesOnly
  BY WriteLocations DEF Init, RegisterInv, JournalOnRecord, WindowInv, FileInv, PhaseInv, ChoiceInv, Entering, Inside,
     Decided, Writing, DeviceFiles, UpdatesOnly
<1>3. Typing /\ EvidenceInv /\ OneInv /\ [Next]_vars => EvidenceInv' /\ OneInv'
  BY EvidenceStep, OneStep
<1>4. Spec => [](EvidenceInv /\ OneInv)
  BY <1>1, <1>3, TypingInvariant, PTL DEF Spec
<1>5. Typing /\ PlayInv /\ EvidenceInv /\ OneInv /\ UpdatesOnly <=> Known
  BY DEF Known
<1>6. Known /\ RegisterInv /\ [Next]_vars => RegisterInv' /\ UpdatesOnly'
  BY JournalStep, WindowStep, FileStep, PhaseStep, ChoiceStep, UpdatesOnlyStep DEF RegisterInv
<1> QED
  BY <1>2, <1>4, <1>5, <1>6, TypingInvariant, PlayInvariant, PTL DEF Spec

-----------------------------------------------------------------------------
(* The steps of the engine on the register.                                *)

Stage == [o \in Ops |-> StageOf(o)]

\* An operation that nothing was ever done for, or planned at most.
LEMMA StageFacts ==
  ASSUME Known, RegisterInv, NEW o \in Ops
  PROVE  /\ StageOf(o) = "free" <=> ~OnRecord(o)
         /\ StageOf(o) = "open" <=> IsOpen(o)
         /\ OnRecord(o) /\ ~Finished(o) => StageOf(o) \in {"recorded", "open"}
<1>1. Finished(o) => OnRecord(o)
  BY Facts DEF Finished
<1>2. dev[o]["journal"] = "full" => OnRecord(o)
  BY DEF RegisterInv, JournalOnRecord
<1> QED
  BY <1>1, <1>2 DEF StageOf, IsOpen, Finished

\* Without a change of records or library the register stutters.
LEMMA Stutter ==
  ASSUME UNCHANGED <<dev, host, base, lastGood>>
  PROVE  UNCHANGED Register!registerVars
<1>1. \A o \in Ops : StageOf(o)' = StageOf(o)
  BY DEF StageOf, Finished, OnRecord
<1> QED
  BY <1>1 DEF Register!registerVars

LEMMA HostWrites ==
  ASSUME Known, RegisterInv, CreateOnHost \/ FillOnHost
  PROVE  [Register!RegisterNext]_Register!registerVars
<1> USE DEF deviceVars, callFrame, sweepVars, engineVars, callerVars, historyVars, vars
<1>0. op \in Ops /\ pc \in DOMAIN HostFile /\ UNCHANGED <<op, dev, base, lastGood>>
  BY Facts, WriteLocations DEF CreateOnHost, FillOnHost
<1>1. \A o \in Ops : o # op => StageOf(o)' = StageOf(o)
  BY <1>0, Facts, WriteLocations DEF CreateOnHost, FillOnHost, StageOf, Finished, OnRecord
<1>2. CASE OnRecord(op)' = OnRecord(op)
  <2>1. StageOf(op)' = StageOf(op)
    BY <1>0, <1>2 DEF StageOf, Finished
  <2> QED
    BY <1>0, <1>1, <2>1 DEF Register!registerVars
<1>3. CASE OnRecord(op)' # OnRecord(op)
  <2>1. pc = "manifest" /\ ~OnRecord(op) /\ OnRecord(op)'
    BY <1>0, <1>3, Facts, WriteLocations DEF CreateOnHost, FillOnHost, OnRecord, HostFile, HostFiles, Content
  <2>2. StageOf(op) = "free" /\ StageOf(op)' = "recorded"
    <3>1. StageOf(op) = "free"
      BY <1>0, <2>1, StageFacts
    <3>2. dev[op]["journal"] # "full" /\ ~Finished(op)
      BY <1>0, <2>1, Facts DEF RegisterInv, JournalOnRecord, Finished
    <3> QED
      BY <1>0, <2>1, <3>1, <3>2 DEF StageOf, Finished
  <2>3. base[op] = lastGood
    BY <1>0, <2>1, Facts DEF Working
  <2>4. Stage' = [Stage EXCEPT ![op] = "recorded"]
    BY <1>0, <1>1, <2>2 DEF Stage
  <2>5. Register!Record(op)
    BY <1>0, <2>2, <2>3, <2>4 DEF Register!Record, Stage
  <2> QED
    BY <1>0, <2>5 DEF Register!RegisterNext
<1> QED
  BY <1>2, <1>3

LEMMA DeviceWrites ==
  ASSUME Known, RegisterInv, CreateOnDevice \/ FillOnDevice
  PROVE  [Register!RegisterNext]_Register!registerVars
<1> USE DEF deviceVars, callFrame, sweepVars, engineVars, callerVars, historyVars, vars
<1>0. op \in Ops /\ pc \in DOMAIN DevFile /\ UNCHANGED <<op, host, base, lastGood>> /\ OnRecord(op)
  BY Facts, WriteLocations DEF CreateOnDevice, FillOnDevice
<1>1. \A o \in Ops : o # op => StageOf(o)' = StageOf(o)
  BY <1>0, Facts, WriteLocations DEF CreateOnDevice, FillOnDevice, StageOf, Finished, OnRecord
<1>2. CASE StageOf(op)' = StageOf(op)
  BY <1>0, <1>1, <1>2 DEF Register!registerVars
<1>3. CASE CreateOnDevice
  <2>1. StageOf(op)' = StageOf(op)
    <3>1. dev'[op]["journal"] = "full" <=> dev[op]["journal"] = "full"
      BY <1>0, <1>3, Facts, WriteLocations DEF CreateOnDevice, DevFile, DeviceFiles
    <3>2. Finished(op)' = Finished(op) /\ (Finished(op) => dev'[op]["done"] = dev[op]["done"])
      BY <1>0, <1>3, Facts, WriteLocations DEF CreateOnDevice, DevFile, DeviceFiles, Finished
    <3> QED
      BY <1>0, <3>1, <3>2 DEF StageOf, OnRecord
  <2> QED
    BY <2>1, <1>2
<1>4. CASE FillOnDevice /\ pc \notin {"marker", "done"}
  <2>1. dev'[op]["journal"] = dev[op]["journal"] /\ dev'[op]["done"] = dev[op]["done"]
    BY <1>0, <1>4, Facts, WriteLocations DEF FillOnDevice, DevFile, DeviceFiles
  <2> QED
    BY <1>0, <1>2, <2>1 DEF StageOf, Finished, OnRecord
<1>5. CASE FillOnDevice /\ pc = "marker" /\ StageOf(op)' # StageOf(op)
  <2>1. dev'[op]["journal"] = "full" /\ dev'[op]["done"] = dev[op]["done"] /\ ~Finished(op)
    <3>1. dev[op]["done"] = "none"
      BY <1>5 DEF RegisterInv, PhaseInv, Entering
    <3> QED
      BY <1>0, <1>5, <3>1, Facts DEF FillOnDevice, DevFile, DeviceFiles, Content, Finished
  <2>2. StageOf(op)' = "open" /\ StageOf(op) = "recorded"
    BY <1>0, <1>5, <2>1, StageFacts DEF StageOf, Finished
  <2>3. base[op] = lastGood
    BY <1>0, <1>5, Facts DEF Working
  <2>4. ASSUME NEW p \in Ops PROVE StageOf(p) # "open"
    <3>1. p # op => ~IsOpen(p)
      BY <1>5 DEF Known, OneInv, IsOpen
    <3> QED
      BY <2>2, <3>1, StageFacts
  <2>5. Stage' = [Stage EXCEPT ![op] = "open"]
    BY <1>0, <1>1, <2>2 DEF Stage
  <2>6. Register!Open(op)
    BY <1>0, <2>2, <2>3, <2>4, <2>5 DEF Register!Open, Stage
  <2> QED
    BY <1>0, <2>6 DEF Register!RegisterNext
<1>6. CASE FillOnDevice /\ pc = "done"
  <2>1. dev[op]["done"] = "torn"
    BY <1>6 DEF FillOnDevice, RegisterInv, FileInv
  <2>2. StageOf(op) \in {"recorded", "open"}
    BY <1>0, <2>1, StageFacts DEF Finished
  <2>3. StageOf(op)' = Chosen
    <3>1. dev'[op]["done"] = Chosen
      BY <1>0, <1>6, Facts DEF FillOnDevice, DevFile, DeviceFiles, Content
    <3>2. Finished(op)'
      BY <1>0, <3>1 DEF Finished, Chosen
    <3> QED
      BY <1>0, <3>1, <3>2 DEF StageOf
  <2>4. lastGood = IF committed THEN New[op] ELSE base[op]
    BY <1>6, Facts DEF RegisterInv, ChoiceInv, Decided
  <2>5. Stage' = [Stage EXCEPT ![op] = Chosen]
    BY <1>0, <1>1, <2>3 DEF Stage
  <2>6. \E d \in {"old", "new"} : lastGood = (IF d = "new" THEN New[op] ELSE base[op])
                                /\ Stage' = [Stage EXCEPT ![op] = d]
    BY <2>4, <2>5 DEF Chosen
  <2>7. Register!Decide(op)
    BY <1>0, <2>2, <2>6 DEF Register!Decide, Stage
  <2> QED
    BY <1>0, <2>7 DEF Register!RegisterNext
<1> QED
  BY <1>2, <1>3, <1>4, <1>5, <1>6

\* The library changes as the running call replaces or reinstates it.
LEMMA LibrarySteps ==
  ASSUME Known, RegisterInv, Publish \/ RecoverRetired \/ Reinstate
  PROVE  [Register!RegisterNext]_Register!registerVars
<1> USE DEF deviceVars, callFrame, sweepVars, engineVars, callerVars, historyVars, vars
<1>0. op \in Ops /\ UNCHANGED <<op, host, base>> /\ OnRecord(op)
  BY Facts DEF Publish, RecoverRetired, OldWanted, Recovering, Reinstate, Choose
<1>1. \A o \in Ops : dev'[o]["done"] = dev[o]["done"] /\ dev'[o]["journal"] = dev[o]["journal"]
  <2>1. UNCHANGED dev \/ DeviceLoss
    BY DEF Publish, InstallStaged, RecoverRetired, Reinstate, DeviceLoss
  <2> QED
    BY <2>1, WriteEffect
<1>2. \A o \in Ops : StageOf(o)' = StageOf(o)
  BY <1>0, <1>1 DEF StageOf, Finished, OnRecord
<1>3. Stage' = Stage
  BY <1>2 DEF Stage
<1>4. CASE Publish
  <2>1. StageOf(op) = "open" /\ base[op] = lastGood /\ lastGood' = New[op]
    BY <1>0, <1>4, StageFacts, Facts DEF Publish, InstallStaged, RegisterInv, PhaseInv, Inside, InWindow, IsOpen, Finished
  <2>2. Register!Replace(op)
    BY <1>0, <1>3, <2>1 DEF Register!Replace, Stage
  <2> QED
    BY <1>0, <2>2 DEF Register!RegisterNext
<1>5. CASE RecoverRetired \/ Reinstate
  <2>1. formal = NoDatabase /\ lastGood' = base[op] /\ ~Finished(op)
    BY <1>5 DEF RecoverRetired, OldWanted, Recovering, Reinstate, RegisterInv, PhaseInv, Finished
  <2>2. PICK p \in Ops : IsOpen(p) /\ base[p] = lastGood
    BY <1>0, <2>1, Facts DEF RegisterInv, WindowInv, InWindow, IsOpen, Finished
  <2>3. CASE IsOpen(op)
    <3>1. p = op
      BY <1>0, <2>2, <2>3 DEF Known, OneInv, OneOpenJournal, IsOpen
    <3> QED
      BY <1>0, <1>3, <2>1, <2>2, <3>1 DEF Register!registerVars, Stage
  <2>4. CASE ~IsOpen(op)
    <3>1. StageOf(op) = "recorded" /\ StageOf(p) = "open"
      BY <1>0, <2>1, <2>2, <2>4, StageFacts
    <3>2. Register!Revert(op)
      BY <1>0, <1>3, <2>1, <3>1 DEF Register!Revert, Stage
    <3> QED
      BY <1>0, <3>2 DEF Register!RegisterNext
  <2> QED
    BY <2>3, <2>4
<1> QED
  BY <1>4, <1>5

LEMMA CallerSteps ==
  ASSUME Known, RegisterInv, NEW o \in Ops, Prepare(o)
  PROVE  [Register!RegisterNext]_Register!registerVars
<1> USE DEF deviceVars, callFrame, sweepVars, engineVars, callerVars, historyVars, vars
<1>1. \A p \in Ops : StageOf(p)' = StageOf(p)
  BY DEF Prepare, StageOf, Finished, OnRecord
<1>2. StageOf(o) = "free"
  BY StageFacts DEF Prepare, Preflight, OnRecord
<1>3. base' = [base EXCEPT ![o] = lastGood] /\ lastGood' = lastGood
  BY PlannedUpdate DEF Prepare
<1>4. Stage' = Stage
  BY <1>1 DEF Stage
<1>5. Register!Plan(o)
  BY <1>2, <1>3, <1>4 DEF Register!Plan, Stage
<1> QED
  BY <1>5 DEF Register!RegisterNext

LEMMA WorldSteps ==
  ASSUME Known, RegisterInv, Crash \/ RenameLost \/ \E d \in Foreign : ForeignEdit(d)
  PROVE  [Register!RegisterNext]_Register!registerVars
<1> USE DEF deviceVars, callFrame, sweepVars, engineVars, callerVars, historyVars, vars
<1>1. CASE Crash \/ RenameLost
  <2>1. /\ UNCHANGED <<host, lastGood>>
        /\ base' = [o \in Ops |-> Remembered(o)]
    BY <1>1 DEF Crash, RenameLost, Die
  <2>2. \A o \in Ops : dev'[o]["done"] = dev[o]["done"] /\ dev'[o]["journal"] = dev[o]["journal"]
    <3>1. UNCHANGED dev \/ DeviceLoss
      BY <1>1 DEF Crash, RenameLost, Die, DeviceLoss
    <3> QED
      BY <3>1, WriteEffect
  <2>3. \A o \in Ops : StageOf(o)' = StageOf(o)
    BY <2>1, <2>2 DEF StageOf, Finished, OnRecord
  <2>4. Stage' = Stage
    BY <2>3 DEF Stage
  <2>5. base' = [o \in Ops |-> IF StageOf(o) = "free" THEN Unplanned ELSE base[o]]
    BY <2>1, StageFacts DEF Remembered
  <2>6. Register!Forget
    BY <2>1, <2>4, <2>5 DEF Register!Forget, Stage
  <2> QED
    BY <2>6 DEF Register!RegisterNext
<1>2. ASSUME NEW d \in Foreign, ForeignEdit(d) PROVE Register!Edit
  <2>1. \A o \in Ops : StageOf(o)' = StageOf(o)
    BY <1>2 DEF ForeignEdit, StageOf, Finished, OnRecord
  <2>2. Stage' = Stage
    BY <2>1 DEF Stage
  <2> QED
    BY <1>2, <2>2 DEF ForeignEdit, Register!Edit, Stage
<1> QED
  BY <1>1, <1>2 DEF Register!RegisterNext

LEMMA RegisterStep ==
  ASSUME Known, RegisterInv, [Next]_vars
  PROVE  [Register!RegisterNext]_Register!registerVars
<1> USE DEF deviceVars, callFrame, sweepVars, engineVars, callerVars, historyVars, vars
<1>1. CASE UNCHANGED <<dev, host, base, lastGood>>
  BY <1>1, Stutter
<1>2. CASE Write
  BY <1>1, <1>2, HostWrites, DeviceWrites DEF Write, AlreadyWritten
<1>3. CASE Copy \/ CancelBeforeWork \/ Refresh \/ NothingToDo \/ ObserveCancel \/ UndoBegin \/ Report \/ Reject
  BY <1>1, <1>3 DEF Copy, CopyBegin, CopyFill, CopyPublish, CopyDone, CancelBeforeWork, Refresh, NothingToDo,
     ObserveCancel, UndoBegin, Report, Reject
<1>4. CASE Commit
  BY <1>1, <1>4, LibrarySteps DEF Commit, VerifyStaged, Retire, Confirm
<1>5. CASE Clean
  <2>1. CASE Unstage
    <3>1. \A o \in Ops : dev'[o]["done"] = dev[o]["done"] /\ dev'[o]["journal"] = dev[o]["journal"]
      BY <2>1, Facts DEF Unstage, DeviceFiles
    <3>2. UNCHANGED <<host, base, lastGood>>
      BY <2>1 DEF Unstage
    <3>3. \A o \in Ops : StageOf(o)' = StageOf(o)
      BY <3>1, <3>2 DEF StageOf, Finished, OnRecord
    <3> QED
      BY <3>2, <3>3 DEF Register!registerVars
  <2> QED
    BY <1>1, <1>5, <2>1 DEF Clean, CleanTmp, CleanAudio, CleanLoopDone, Settle
<1>6. CASE RecoverStep
  <2>1. ~RecoverInitialize
    BY Facts DEF RecoverInitialize, ForwardWanted, Recovering
  <2> QED
    BY <1>1, <1>6, <2>1, LibrarySteps DEF RecoverStep, RecoverDone, RecoverFormal, RecoverFromHost,
       RecoverUninitialized, Recheck, Choose
<1>7. CASE Caller
  BY <1>1, <1>7, CallerSteps DEF Caller, Execute, Recover, RequestCancel
<1>8. CASE World
  BY <1>1, <1>8, WorldSteps DEF World, IoFailure, Remount
<1>9. CASE UNCHANGED vars
  BY <1>1, <1>9
<1> QED
  BY <1>2, <1>3, <1>4, <1>5, <1>6, <1>7, <1>8, <1>9 DEF Next, Step

(***************************************************************************)
(* However often updates are interrupted and recovered, a player without a *)
(* database under its formal name carries the journal of one operation     *)
(* whose evidence on the computer brings the last library back.            *)
(***************************************************************************)
THEOREM WindowsRecoverable ==
  ASSUME Fresh = {} \/ Library # NoDatabase
  PROVE  Spec => []WindowRecoverable
<1>1. ASSUME Known, RegisterInv PROVE WindowRecoverable
  <2>1. SUFFICES ASSUME formal = NoDatabase, lastGood # NoDatabase
                 PROVE  \E o \in Ops : /\ base[o] = lastGood
                                       /\ host[o]["manifest"] = "full" /\ host[o]["old"] = "full"
                                       /\ dev[o]["journal"] = "full" /\ dev[o]["done"] = "none"
    BY DEF WindowRecoverable
  <2>2. PICK o \in Ops : InWindow(o) /\ base[o] = lastGood
    BY <1>1, <2>1 DEF RegisterInv, WindowInv
  <2>3. OnRecord(o)
    BY <1>1, <2>2 DEF RegisterInv, JournalOnRecord, InWindow
  <2>4. host[o]["old"] = "full"
    BY <1>1, <2>3, Facts DEF Known, EvidenceInv, Evidence
  <2> QED
    BY <2>2, <2>3, <2>4 DEF InWindow, OnRecord
<1> QED
  BY <1>1, RegisterInvariant, PTL

(***************************************************************************)
(* On a player that has a library, whatever is asked, and on any player as *)
(* long as callers only update, the engine is the register, whatever fails, *)
(* however many plans there are and whichever record is recovered.         *)
(***************************************************************************)
THEOREM EngineIsRegister ==
  ASSUME Fresh = {} \/ Library # NoDatabase
  PROVE  Spec => ImplementsRegister
<1>1. Init => Register!RegisterInit
  <2>1. ASSUME Init, NEW o \in Ops PROVE StageOf(o) = "free"
    BY <2>1 DEF Init, StageOf, Finished, OnRecord, HostFiles, DeviceFiles
  <2> QED
    BY <2>1 DEF Init, Register!RegisterInit
<1>2. Known /\ RegisterInv /\ [Next]_vars => [Register!RegisterNext]_Register!registerVars
  BY RegisterStep
<1> QED
  BY <1>1, <1>2, RegisterInvariant, PTL DEF Spec, ImplementsRegister, Register!RegisterSpec

-----------------------------------------------------------------------------
(* The audio of the last good library.  Cleanup keeps what it references,  *)
(* on every path that leads there.                                         *)
AudioInv ==
  /\ LastGoodPlayable
  /\ pc \in {"recheck", "clean"} => RefsOf(lastGood) \subseteq refs

LEMMA AudioStep == ASSUME Known, RegisterInv, AudioInv, [Next]_vars PROVE AudioInv'
<1> USE DEF deviceVars, callFrame, sweepVars, engineVars, callerVars, historyVars, vars
<1>0. /\ media \in [Media -> Bytes \cup {Absent}] /\ Absent \notin Bytes
      /\ RefsOf(New[op]) = Refs[New[op]] \/ pc = "idle"
      /\ PlayInv
  BY Facts, DataAssumption DEF Known, Typing, TypeOK, RefsOf
<1>a. ASSUME UNCHANGED lastGood, Present \subseteq Present',
             pc' \notin {"recheck", "clean"} \/ (UNCHANGED refs /\ pc \in {"recheck", "clean"})
      PROVE  AudioInv'
  BY <1>a DEF AudioInv, LastGoodPlayable
\* A step that keeps a library and enters cleanup with its audio in refs.
<1>b. ASSUME RefsOf(lastGood') \subseteq Present', RefsOf(lastGood') \subseteq refs'
      PROVE  AudioInv'
  BY <1>b DEF AudioInv, LastGoodPlayable
<1>c. UNCHANGED media => Present' = Present
  BY DEF Present
<1>1. CASE Write
  <2>1. UNCHANGED <<lastGood, media>> /\ pc' \notin {"recheck", "clean"}
    BY <1>1, WriteLocations DEF Write, CreateOnHost, FillOnHost, CreateOnDevice, FillOnDevice, AlreadyWritten,
       Repeatable, Successor
  <2> QED
    BY <1>a, <1>c, <2>1
<1>2. CASE Copy
  <2>1. UNCHANGED lastGood /\ pc' \notin {"recheck", "clean"}
    BY <1>2 DEF Copy, CopyBegin, CopyFill, CopyPublish, CopyDone
  <2>2. UNCHANGED media \/ \E m \in Media : CopyPublish(m)
    BY <1>2 DEF Copy, CopyBegin, CopyFill, CopyDone
  <2>3. ASSUME NEW m \in Media, CopyPublish(m) PROVE Present \subseteq Present'
    BY <2>3, <1>0 DEF CopyPublish, Present
  <2> QED
    BY <1>a, <1>c, <2>1, <2>2, <2>3
<1>3. CASE VerifyStaged \/ Retire \/ Refresh \/ ObserveCancel
  BY <1>3, <1>a, <1>c DEF VerifyStaged, Retire, Refresh, ObserveCancel
<1>4. CASE Publish
  BY <1>0, <1>4, <1>c, Facts DEF Publish, InstallStaged, PlayInv, AudioInv, LastGoodPlayable
<1>5. CASE Confirm
  <2>1. lastGood = New[op] /\ UNCHANGED <<lastGood, media>> /\ refs' = RefsOf(New[op])
    BY <1>0, <1>5, Facts DEF Confirm
  <2> QED
    BY <1>b, <1>c, <2>1 DEF AudioInv, LastGoodPlayable
<1>6. CASE UndoBegin
  <2>1. lastGood = base[op] /\ UNCHANGED <<lastGood, media>> /\ refs' = RefsOf(base[op])
    BY <1>6, Facts DEF UndoBegin, Working
  <2> QED
    BY <1>b, <1>c, <2>1 DEF AudioInv, LastGoodPlayable
<1>7. CASE CancelBeforeWork \/ NothingToDo \/ Report \/ Reject \/ IoFailure \/ Crash \/ RenameLost
  BY <1>7, <1>a, <1>c DEF CancelBeforeWork, NothingToDo, Report, Reject, IoFailure, Crash, RenameLost, Die, Return
<1>8. ASSUME NEW m \in Media, NEW k \in {"final", "delete"}, CleanAudio(k, m) PROVE AudioInv'
  <2>1. LastGoodPlayable'
    BY <1>0, <1>8 DEF CleanAudio, Removable, AudioInv, LastGoodPlayable, Present
  <2> QED
    BY <1>8, <2>1 DEF CleanAudio, AudioInv
<1>9. CASE (\E m \in Media : CleanTmp(m)) \/ CleanLoopDone \/ Unstage \/ Settle
  BY <1>9, <1>a, <1>c DEF CleanTmp, CleanLoopDone, Unstage, Settle
<1>10. CASE RecoverStep
  <2>1. CASE RecoverFormal
    <3>1. formal = lastGood /\ UNCHANGED <<lastGood, media>> /\ refs' = RefsOf(formal)
      BY <2>1, Facts DEF RecoverFormal, Choose
    <3> QED
      BY <1>b, <1>c, <3>1 DEF AudioInv, LastGoodPlayable
  <2>2. CASE RecoverRetired \/ Reinstate
    <3>1. lastGood' = base[op] /\ UNCHANGED media /\ refs' = RefsOf(base[op])
      BY <2>2 DEF RecoverRetired, Reinstate, Choose
    <3>2. RefsOf(base[op]) \subseteq Present
      BY <1>0, <2>2 DEF RecoverRetired, OldWanted, ReferencesExist, Reinstate, PlayInv
    <3> QED
      BY <1>b, <1>c, <3>1, <3>2
  <2>3. ~RecoverInitialize /\ ~RecoverUninitialized
    BY Facts DEF RecoverInitialize, ForwardWanted, RecoverUninitialized, Recovering
  <2>4. CASE RecoverDone \/ RecoverFromHost \/ Recheck
    BY <2>4, <1>a, <1>c DEF RecoverDone, RecoverFromHost, Recheck
  <2> QED
    BY <1>10, <2>1, <2>2, <2>3, <2>4 DEF RecoverStep
<1>11. CASE Caller \/ Remount \/ UNCHANGED vars
  <2>1. UNCHANGED <<lastGood, media>> /\ (pc' = "recover" \/ pc' = "prepare" \/ UNCHANGED <<pc, refs>>)
    BY <1>11 DEF Caller, Prepare, Execute, Recover, RequestCancel, Remount
  <2> QED
    BY <1>a, <1>c, <2>1
<1>12. ASSUME NEW d \in Foreign, ForeignEdit(d) PROVE AudioInv'
  BY <1>12, <1>c DEF ForeignEdit, ReferencesExist, AudioInv, LastGoodPlayable
<1> QED
  BY <1>1, <1>2, <1>3, <1>4, <1>5, <1>6, <1>7, <1>8, <1>9, <1>10, <1>11, <1>12 DEF Next, Step, Commit, Clean, World

(***************************************************************************)
(* On a player that has a library, and on any player as long as no request *)
(* initializes one, the last library that was formal keeps all its audio,  *)
(* also while the formal name is vacant.  A recorded initialization of an  *)
(* empty player is excluded because recovering it in another operation's   *)
(* commit window cleans up against an empty library.                       *)
(***************************************************************************)
THEOREM UpdatesKeepPlayable ==
  ASSUME Fresh = {} \/ Library # NoDatabase
  PROVE  Spec => []LastGoodPlayable
<1>1. Init => AudioInv
  <2> SUFFICES ASSUME Init PROVE AudioInv
    OBVIOUS
  <2>1. lastGood = Library /\ media = Audio /\ pc = "idle"
    BY DEF Init
  <2>2. RefsOf(Library) \subseteq Present
    <3>1. CASE Library = NoDatabase
      BY <3>1, DataAssumption DEF RefsOf
    <3>2. CASE Library # NoDatabase
      BY <3>2, <2>1, StartAssumption, RequestAssumption DEF RefsOf, Present
    <3> QED
      BY <3>1, <3>2
  <2> QED
    BY <2>1, <2>2 DEF AudioInv, LastGoodPlayable
<1>2. Known /\ RegisterInv /\ AudioInv /\ [Next]_vars => AudioInv'
  BY AudioStep
<1>3. AudioInv => LastGoodPlayable
  BY DEF AudioInv
<1> QED
  BY <1>1, <1>2, <1>3, RegisterInvariant, PTL DEF Spec

LEMMA UpdateStep ==
  ASSUME Known, [Next]_vars, mode = "execute", lastGood' # lastGood, pc # "idle"
  PROVE  lastGood = base[op] /\ lastGood' = New[op]
<1> USE DEF deviceVars, callFrame, sweepVars, engineVars, callerVars, historyVars, vars
<1>1. CASE Publish
  BY <1>1, Facts DEF Publish, InstallStaged
<1>2. CASE RecoverStep
  BY <1>2 DEF RecoverStep, RecoverDone, RecoverFormal, RecoverRetired, RecoverFromHost, OldWanted, ForwardWanted,
     Recovering, Reinstate, RecoverInitialize, RecoverUninitialized, Recheck, Known, PlayInv
<1>3. CASE Write \/ Copy
  BY <1>3 DEF Write, CreateOnHost, FillOnHost, CreateOnDevice, FillOnDevice, AlreadyWritten,
     Copy, CopyBegin, CopyFill, CopyPublish, CopyDone
<1>4. CASE VerifyStaged \/ Retire \/ Confirm \/ UndoBegin \/ Clean
  BY <1>4 DEF VerifyStaged, Retire, Confirm, UndoBegin, Clean, CleanTmp, CleanAudio, CleanLoopDone, Unstage, Settle
<1>5. CASE CancelBeforeWork \/ Refresh \/ NothingToDo \/ ObserveCancel \/ Report \/ Reject
  BY <1>5 DEF CancelBeforeWork, Refresh, NothingToDo, ObserveCancel, Report, Reject
<1>6. CASE Caller \/ World \/ UNCHANGED vars
  BY <1>6 DEF Caller, Prepare, Execute, Recover, RequestCancel, World, IoFailure, Crash, RenameLost, Die, Remount, ForeignEdit
<1> QED
  BY <1>1, <1>2, <1>3, <1>4, <1>5, <1>6 DEF Next, Step, Commit

(***************************************************************************)
(* Updates never lose one another: each replaces exactly the library its   *)
(* plan was made against.                                                  *)
(***************************************************************************)
THEOREM UpdatesCompareAndSwap ==
  ASSUME Fresh = {} \/ Library # NoDatabase
  PROVE  Spec => NoLostUpdate
<1>1. Known /\ [Next]_vars =>
        [mode = "execute" /\ lastGood' # lastGood /\ pc # "idle"
           => lastGood = base[op] /\ lastGood' = New[op]]_vars
  BY UpdateStep
<1> QED
  BY <1>1, RegisterInvariant, PTL DEF Spec, NoLostUpdate

-----------------------------------------------------------------------------
(* What a call answers, and what it writes down as settled.                *)


\* A call that has chosen; at the end of it the snapshots are settled.
Saving == {"settle", "after", "release", "finalize"}
Settled == {"recheck", "clean", "unstage", "done", "report"} \cup Saving

OwnInv ==
  /\ \A o \in Ops, m \in Media : tmp[o][m] # "none" \/ copiedBy[m] = o => m \in Adds(o)
  /\ \A o \in Ops : dev[o]["staged"] \in {"none", "torn", "full"}

ModeInv ==
  /\ pc # "idle" /\ mode \in {"execute", "undo"} => bound = planGen[op]
  /\ mode = "undo" => pc \in {"undo"} \cup Settled /\ ~committed
  /\ mode = "again" => pc \in Saving \cup {"report"}
  /\ committed => pc \in Settled
  /\ pc \in Settled => formal = IF committed THEN New[op] ELSE base[op]

\* What the call no longer has to look at is gone.
Swept(m) ==
  /\ <<"tmp", m>> \notin todo => tmp[op][m] = "none"
  /\ committed /\ m \in Dels(op) /\ <<"delete", m>> \notin todo => media[m] # Del[op][m]
  /\ ~committed /\ <<"final", m>> \notin todo => copiedBy[m] # op

SweepInv ==
  /\ pc \in Settled /\ mode # "again" =>
       /\ pc \notin {"recheck", "clean"} => todo = {}
       /\ clean => \A m \in Media : Swept(m)
  /\ pc = "done" => clean /\ dev[op]["staged"] = "none"

\* The new snapshot is kept and the recovery point released.
Kept(o) == host[o]["after"] = "full" /\ (IsUpdate(o) => host[o]["released"] = "full")

SnapshotInv ==
  /\ \A o \in Ops : host[o]["finalized"] = "new" => Kept(o)
  /\ pc \in {"release", "finalize"} /\ committed => host[op]["after"] = "full"
  /\ pc = "finalize" /\ IsUpdate(op) => host[op]["released"] = "full"
  /\ pc = "report" /\ clean => Finished(op) /\ (committed => Kept(op))

Established == Typing /\ PinInv /\ PlayInv

LEMMA ResultFacts ==
  ASSUME Typing
  PROVE  /\ dev \in [Ops -> [DeviceFiles -> FileState]]
         /\ host \in [Ops -> [HostFiles -> FileState]]
         /\ tmp \in [Ops -> [Media -> {"none", "torn", "full"}]]
         /\ media \in [Media -> Bytes \cup {Absent}]
         /\ copiedBy \in [Media -> Ops \cup {NoOp}]
         /\ base \in [Ops -> Databases \cup {NoDatabase, Unplanned}]
         /\ pc # "idle" => op \in Ops
         /\ todo \subseteq {"tmp", "final", "delete"} \X Media
         /\ NoOp \notin Ops
         /\ \A m \in Media : <<"tmp", m>> \in todo => m \in Adds(op)
  BY DataAssumption DEF Typing, TypeOK, TodoOK

-----------------------------------------------------------------------------
LEMMA OwnStep == ASSUME Typing, OwnInv, [Next]_vars PROVE OwnInv'
<1> USE DEF deviceVars, callFrame, sweepVars, engineVars, callerVars, historyVars, vars
<1>1. ASSUME NEW o \in Ops PROVE dev'[o]["staged"] \in {"none", "torn", "full"}
  <2>1. CASE UNCHANGED dev
    BY <2>1 DEF OwnInv
  <2>2. CASE CreateOnDevice
    BY <2>2, ResultFacts, WriteLocations DEF CreateOnDevice, OwnInv, DevFile, DeviceFiles
  <2>3. CASE FillOnDevice
    BY <2>3, ResultFacts, WriteLocations DEF FillOnDevice, OwnInv, DevFile, DeviceFiles, Content
  <2>4. CASE DeviceLoss
    BY <2>4, ResultFacts DEF DeviceLoss, OwnInv, DeviceFiles
  <2> QED
    BY <2>1, <2>2, <2>3, <2>4, DeviceStep
<1>a. ASSUME UNCHANGED <<tmp, copiedBy>> PROVE OwnInv'
  BY <1>1, <1>a DEF OwnInv
<1>2. ASSUME NEW m \in Media, CopyBegin(m) \/ CopyFill(m) PROVE OwnInv'
  <2>1. op \in Ops /\ m \in Adds(op) /\ copiedBy' = copiedBy
    BY <1>2, ResultFacts DEF CopyBegin, CopyFill
  <2>2. \A o \in Ops, n \in Media : tmp'[o][n] = tmp[o][n] \/ (o = op /\ n = m)
    BY <1>2, ResultFacts DEF CopyBegin, CopyFill
  <2> QED
    BY <1>1, <2>1, <2>2 DEF OwnInv
<1>3. ASSUME NEW m \in Media, CopyPublish(m) PROVE OwnInv'
  BY <1>1, <1>3, ResultFacts DEF CopyPublish, OwnInv
<1>4. ASSUME NEW m \in Media, CleanTmp(m) PROVE OwnInv'
  BY <1>1, <1>4, ResultFacts DEF CleanTmp, OwnInv
<1>5. ASSUME NEW m \in Media, NEW k \in {"final", "delete"}, CleanAudio(k, m) PROVE OwnInv'
  BY <1>1, <1>5, ResultFacts DEF CleanAudio, OwnInv
<1>6. CASE Write \/ CopyDone \/ Commit \/ UndoBegin
  BY <1>a, <1>6 DEF Write, CreateOnHost, FillOnHost, CreateOnDevice, FillOnDevice, AlreadyWritten, CopyDone,
     Commit, VerifyStaged, Retire, Publish, Confirm, UndoBegin
<1>7. CASE CleanLoopDone \/ Unstage \/ Settle \/ Report \/ RecoverStep
  BY <1>a, <1>7 DEF CleanLoopDone, Unstage, Settle, Report, RecoverStep, RecoverDone, RecoverFormal, RecoverRetired,
     RecoverFromHost, Reinstate, RecoverInitialize, InstallStaged, RecoverUninitialized, Recheck
<1>8. CASE CancelBeforeWork \/ Refresh \/ NothingToDo \/ ObserveCancel \/ Reject
  BY <1>a, <1>8 DEF CancelBeforeWork, Refresh, NothingToDo, ObserveCancel, Reject
<1>9. CASE Caller \/ World \/ UNCHANGED vars
  BY <1>a, <1>9 DEF Caller, Prepare, Execute, Recover, RequestCancel, World, IoFailure, Crash, RenameLost, Die,
     Remount, ForeignEdit
<1> QED
  BY <1>2, <1>3, <1>4, <1>5, <1>6, <1>7, <1>8, <1>9 DEF Next, Step, Copy, Clean

-----------------------------------------------------------------------------
LEMMA ModeStep == ASSUME Established, ModeInv, [Next]_vars PROVE ModeInv'
<1> USE DEF deviceVars, callFrame, sweepVars, engineVars, callerVars, historyVars, vars, Saving, Settled
<1>0. /\ Typing
      /\ pc # "idle" => op \in Ops
      /\ pc \in Working => formal = base[op]
      /\ pc \in {"recover", "restore", "reinstate", "recheck"} => mode = "recover"
  BY ResultFacts DEF Established, PlayInv
\* Within a phase.
<1>a. ASSUME UNCHANGED <<formal, committed, mode, op, bound, base, planGen>>,
             \/ pc' = pc
             \/ pc \in Settled /\ pc' \in Settled /\ (pc \in Saving \cup {"report"} => pc' \in Saving \cup {"report"})
             \/ pc \notin Settled \cup {"undo", "idle"} /\ pc' \notin Settled
      PROVE  ModeInv'
  BY <1>a DEF ModeInv
\* The call is over.
<1>b. ASSUME pc' = "idle" /\ mode' = "execute" /\ committed' = FALSE
      PROVE  ModeInv'
  BY <1>b DEF ModeInv
<1>1. CASE Write
  BY <1>1, <1>a, WriteLocations DEF Write, CreateOnHost, FillOnHost, CreateOnDevice, FillOnDevice, AlreadyWritten,
     Repeatable, Successor
<1>2. CASE Copy \/ Refresh \/ VerifyStaged
  BY <1>2, <1>a DEF Copy, CopyBegin, CopyFill, CopyPublish, CopyDone, Refresh, VerifyStaged
<1>3. CASE Retire \/ Publish
  BY <1>3 DEF Retire, Publish, ModeInv
<1>4. CASE Confirm
  BY <1>4 DEF Confirm, ModeInv
<1>5. CASE UndoBegin
  BY <1>5, <1>0 DEF UndoBegin, Working, ModeInv
<1>6. CASE ObserveCancel
  BY <1>6 DEF ObserveCancel, ModeInv
<1>7. CASE Clean
  BY <1>7, <1>a DEF Clean, CleanTmp, CleanAudio, CleanLoopDone, Unstage, Settle
<1>8. CASE RecoverStep
  <2>1. CASE RecoverDone
    BY <2>1 DEF RecoverDone, Recovering, DoneDatabase, ModeInv
  <2>2. CASE RecoverFormal \/ RecoverUninitialized
    BY <2>2, <1>0 DEF RecoverFormal, RecoverUninitialized, Recovering, Choose, ModeInv
  <2>3. CASE RecoverRetired \/ Reinstate
    BY <2>3, <1>0 DEF RecoverRetired, OldWanted, Recovering, Reinstate, Choose, ModeInv
  <2>4. CASE RecoverInitialize
    BY <2>4, <1>0 DEF RecoverInitialize, ForwardWanted, InstallStaged, Recovering, Choose, ModeInv
  <2>5. CASE RecoverFromHost \/ Recheck
    BY <2>5, <1>a DEF RecoverFromHost, OldWanted, Recovering, Recheck
  <2> QED
    BY <1>8, <2>1, <2>2, <2>3, <2>4, <2>5 DEF RecoverStep
<1>9. CASE CancelBeforeWork \/ NothingToDo \/ Report \/ Reject \/ IoFailure \/ Crash \/ RenameLost
  BY <1>9, <1>b DEF CancelBeforeWork, NothingToDo, Report, Reject, IoFailure, Crash, RenameLost, Die, Return
<1>10. ASSUME NEW o \in Ops, Prepare(o) PROVE ModeInv'
  <2>1. pc # "idle" => base'[op] = base[op] /\ planGen'[op] = planGen[op]
    BY <1>10, <1>0 DEF Prepare, Typing, TypeOK
  <2> QED
    BY <1>10, <2>1 DEF Prepare, ModeInv
<1>11. ASSUME NEW o \in Ops, Execute(o) \/ Recover(o) PROVE ModeInv'
  BY <1>11 DEF Execute, Recover, ModeInv
<1>12. CASE RequestCancel \/ Remount \/ UNCHANGED vars
  BY <1>12, <1>a DEF RequestCancel, Remount
<1>13. ASSUME NEW d \in Foreign, ForeignEdit(d) PROVE ModeInv'
  BY <1>13 DEF ForeignEdit, ModeInv
<1> QED
  BY <1>1, <1>2, <1>3, <1>4, <1>5, <1>6, <1>7, <1>8, <1>9, <1>10, <1>11, <1>12, <1>13
     DEF Next, Step, Commit, Caller, World

-----------------------------------------------------------------------------
\* Where a choice sends cleanup is all that the operation can have left.
LEMMA ChoiceOwned ==
  ASSUME Typing, OwnInv, pc # "idle", NEW c \in BOOLEAN,
         committed' = c, todo' = Owned(op, c), UNCHANGED <<op, tmp, media, copiedBy>>
  PROVE  \A m \in Media : Swept(m)'
<1>1. ASSUME NEW m \in Media
      PROVE  /\ m \in Adds(op) => <<"tmp", m>> \in Owned(op, c) /\ (~c => <<"final", m>> \in Owned(op, c))
             /\ m \in Dels(op) /\ c => <<"delete", m>> \in Owned(op, c)
  BY DEF Owned
<1> QED
  BY <1>1, ResultFacts DEF Swept, OwnInv, Dels

LEMMA SweepStep == ASSUME Established, OwnInv, ModeInv, SweepInv, [Next]_vars PROVE SweepInv'
<1> USE DEF deviceVars, callFrame, sweepVars, engineVars, callerVars, historyVars, vars, Saving, Settled
<1> DEFINE Swing == <<op, mode, committed, todo, clean, tmp, media, copiedBy>>
<1>0. Typing /\ (pc # "idle" => op \in Ops) /\ NoOp \notin Ops
  BY ResultFacts DEF Established
<1>a. ASSUME pc' \notin Settled PROVE SweepInv'
  BY <1>a DEF SweepInv
<1>b. ASSUME UNCHANGED Swing,
             \/ pc' = pc /\ (pc = "done" => dev'[op]["staged"] = dev[op]["staged"])
             \/ pc \in Settled \ {"recheck", "clean"} /\ pc' \in Settled \ {"recheck", "clean", "done"}
      PROVE  SweepInv'
  <2>1. pc' \in Settled => pc \in Settled
    BY <1>b
  <2> QED
    BY <1>b, <2>1 DEF SweepInv, Swept
<1>1. CASE CreateOnHost \/ FillOnHost
  BY <1>1, <1>a, <1>b, WriteLocations DEF CreateOnHost, FillOnHost, Successor
<1>2. CASE CreateOnDevice
  <2>1. pc = "done" => dev'[op]["staged"] = dev[op]["staged"]
    BY <1>2, ResultFacts, <1>0 DEF CreateOnDevice, DevFile, DeviceFiles
  <2> QED
    BY <1>2, <2>1, <1>b DEF CreateOnDevice
<1>3. CASE FillOnDevice \/ AlreadyWritten
  BY <1>3, <1>a, <1>b, WriteLocations DEF FillOnDevice, AlreadyWritten, Repeatable, Successor
<1>4. CASE Copy \/ Refresh \/ VerifyStaged \/ Retire \/ Publish \/ ObserveCancel
  BY <1>4, <1>a DEF Copy, CopyBegin, CopyFill, CopyPublish, CopyDone, Refresh, VerifyStaged, Retire, Publish, ObserveCancel
<1>5. CASE Confirm
  BY <1>5, <1>0, ChoiceOwned DEF Confirm, SweepInv
<1>6. CASE UndoBegin
  <2>1. committed = FALSE
    BY <1>6, <1>0 DEF UndoBegin, ModeInv, Typing, TypeOK
  <2> QED
    BY <1>6, <2>1, <1>0, ChoiceOwned DEF UndoBegin, SweepInv
<1>7. ASSUME NEW m \in Media, CleanTmp(m) PROVE SweepInv'
  <2>1. ASSUME NEW n \in Media, clean', mode # "again" PROVE Swept(n)'
    <3>1. Swept(n) /\ tmp[op][m] # "torn"
      BY <1>7, <2>1 DEF CleanTmp, SweepInv
    <3>2. tmp'[op][n] = tmp[op][n] \/ tmp'[op][n] = "none"
      BY <1>7, <1>0, ResultFacts DEF CleanTmp
    <3>3. tmp'[op][m] = "none"
      BY <1>7, <1>0, <3>1, ResultFacts DEF CleanTmp
    <3> QED
      BY <1>7, <3>1, <3>2, <3>3 DEF CleanTmp, Swept
  <2> QED
    BY <1>7, <2>1 DEF CleanTmp, SweepInv
<1>8. ASSUME NEW m \in Media, NEW k \in {"final", "delete"}, CleanAudio(k, m) PROVE SweepInv'
  <2>1. ASSUME NEW n \in Media, clean', mode # "again" PROVE Swept(n)'
    <3>1. Swept(n) /\ media'[m] = Absent
      BY <1>8, <2>1, <1>0, ResultFacts DEF CleanAudio, SweepInv
    <3>2. media'[n] \in {media[n], Absent} /\ copiedBy'[n] \in {copiedBy[n], NoOp}
      BY <1>8, <1>0, ResultFacts DEF CleanAudio
    <3>3. copiedBy'[m] = NoOp
      BY <1>8, <3>1, <1>0, ResultFacts DEF CleanAudio
    <3>4. n \in Dels(op) => Del[op][n] # Absent
      BY <1>8, <1>0, RequestAssumption, DataAssumption DEF CleanAudio, Dels
    <3> QED
      BY <1>8, <1>0, <3>1, <3>2, <3>3, <3>4 DEF CleanAudio, Swept
  <2> QED
    BY <1>8, <2>1 DEF CleanAudio, SweepInv
<1>9. CASE CleanLoopDone
  BY <1>9 DEF CleanLoopDone, SweepInv, Swept
<1>10. CASE Unstage
  <2>1. dev[op]["staged"] \in {"none", "torn", "full"} /\ "staged" \in DeviceFiles /\ op \in Ops
    BY <1>10, <1>0 DEF Unstage, OwnInv, DeviceFiles
  <2>2. clean' <=> clean /\ dev[op]["staged"] # "torn"
    BY <1>10, <1>0 DEF Unstage
  <2>3. dev[op]["staged"] # "torn" => dev'[op]["staged"] = "none"
    BY <1>10, <1>0, <2>1, ResultFacts DEF Unstage
  <2> QED
    BY <1>10, <2>2, <2>3 DEF Unstage, SweepInv, Swept
<1>11. CASE Settle
  BY <1>11, <1>b DEF Settle
<1>12. CASE RecoverStep
  <2>1. CASE RecoverDone
    BY <2>1 DEF RecoverDone, SweepInv
  <2>2. CASE RecoverFormal \/ RecoverUninitialized
    BY <2>2, <1>0, ChoiceOwned DEF RecoverFormal, RecoverUninitialized, Recovering, Choose, SweepInv
  <2>3. CASE RecoverRetired \/ Reinstate
    BY <2>3, <1>0, ChoiceOwned DEF RecoverRetired, OldWanted, Recovering, Reinstate, Choose, SweepInv
  <2>4. CASE RecoverInitialize
    BY <2>4, <1>0, ChoiceOwned DEF RecoverInitialize, ForwardWanted, Recovering, Choose, SweepInv
  <2>5. CASE RecoverFromHost
    BY <2>5, <1>a DEF RecoverFromHost
  <2>6. CASE Recheck
    BY <2>6 DEF Recheck, SweepInv, Swept
  <2> QED
    BY <1>12, <2>1, <2>2, <2>3, <2>4, <2>5, <2>6 DEF RecoverStep
<1>13. CASE CancelBeforeWork \/ NothingToDo \/ Report \/ Reject \/ IoFailure \/ Crash \/ RenameLost
  BY <1>13, <1>a DEF CancelBeforeWork, NothingToDo, Report, Reject, IoFailure, Crash, RenameLost, Die, Return
<1>14. CASE Caller \/ Remount \/ (\E d \in Foreign : ForeignEdit(d)) \/ UNCHANGED vars
  BY <1>14, <1>a, <1>b DEF Caller, Prepare, Execute, Recover, RequestCancel, Remount, ForeignEdit
<1> QED
  BY <1>1, <1>2, <1>3, <1>4, <1>5, <1>6, <1>7, <1>8, <1>9, <1>10, <1>11, <1>12, <1>13, <1>14
     DEF Next, Step, Write, Commit, Clean, World

-----------------------------------------------------------------------------
LEMMA KeptStays ==
  ASSUME Typing, [Next]_vars, NEW o \in Ops, NEW f \in {"after", "released"}
  PROVE  host[o][f] = "full" => host'[o][f] = "full"
<1>1. CASE UNCHANGED host
  BY <1>1
<1>2. CASE CreateOnHost
  BY <1>2, ResultFacts, WriteLocations DEF CreateOnHost, HostFile, HostFiles
<1>3. CASE FillOnHost
  BY <1>3, ResultFacts, WriteLocations DEF FillOnHost, HostFile, HostFiles, Content
<1> QED
  BY <1>1, <1>2, <1>3, HostStep

LEMMA SnapshotStep == ASSUME Established, SnapshotInv, [Next]_vars PROVE SnapshotInv'
<1> USE DEF deviceVars, callFrame, sweepVars, engineVars, callerVars, historyVars, vars
<1> DEFINE Told == {"release", "finalize", "report"}
<1>0. /\ Typing /\ (pc # "idle" => op \in Ops)
      /\ pc \in {"settle", "after", "release", "finalize"} => Finished(op)
      /\ \A o \in Ops : Kept(o) => Kept(o)'
      /\ pc # "idle" /\ Finished(op) => Finished(op)' \/ op' # op
  BY ResultFacts, KeptStays, RecordsStay DEF Established, PinInv, Kept, IsUpdate, Finished
<1>1. \A o \in Ops : host'[o]["finalized"] = "new" => Kept(o)'
  <2>1. CASE UNCHANGED host
    BY <2>1, <1>0 DEF SnapshotInv
  <2>2. CASE CreateOnHost
    <3>1. \A o \in Ops : host'[o]["finalized"] \in {host[o]["finalized"], "torn"}
      BY <2>2, <1>0, ResultFacts, WriteLocations DEF CreateOnHost, HostFiles
    <3> QED
      BY <3>1, <1>0 DEF SnapshotInv
  <2>3. CASE FillOnHost
    <3>1. \A o \in Ops : \/ host'[o]["finalized"] = host[o]["finalized"]
                         \/ o = op /\ pc = "finalize" /\ host'[o]["finalized"] = Chosen
      BY <2>3, <1>0, ResultFacts, WriteLocations DEF FillOnHost, HostFile, HostFiles, Content
    <3>2. op \in Ops /\ pc = "finalize" /\ Chosen = "new" => Kept(op)
      BY <1>0 DEF SnapshotInv, Kept, Chosen
    <3> QED
      BY <3>1, <3>2, <1>0 DEF SnapshotInv
  <2> QED
    BY <2>1, <2>2, <2>3, HostStep
<1>a. ASSUME pc' \notin Told PROVE SnapshotInv'
  BY <1>1, <1>a DEF SnapshotInv
<1>b. ASSUME UNCHANGED <<pc, op, committed, clean>> PROVE SnapshotInv'
  BY <1>1, <1>b, <1>0, KeptStays DEF SnapshotInv, IsUpdate
<1>2. CASE CreateOnHost \/ CreateOnDevice
  BY <1>2, <1>b DEF CreateOnHost, CreateOnDevice
<1>3. CASE FillOnHost
  <2>1. CASE pc = "after"
    <3>1. host'[op]["after"] = "full" /\ pc' = IF IsUpdate(op) THEN "release" ELSE "finalize"
      BY <1>3, <2>1, <1>0, ResultFacts DEF FillOnHost, HostFile, HostFiles, Content, Successor
    <3> QED
      BY <1>1, <1>3, <3>1 DEF FillOnHost, SnapshotInv, IsUpdate
  <2>2. CASE pc = "release"
    <3>1. host'[op]["released"] = "full" /\ host'[op]["after"] = host[op]["after"] /\ pc' = "finalize"
      BY <1>3, <2>2, <1>0, ResultFacts DEF FillOnHost, HostFile, HostFiles, Content, Successor
    <3> QED
      BY <1>1, <1>3, <2>2, <3>1 DEF FillOnHost, SnapshotInv
  <2>3. CASE pc = "finalize"
    <3>1. committed => Kept(op)
      BY <2>3 DEF SnapshotInv, Kept
    <3>2. op \in Ops /\ op' = op /\ committed' = committed /\ pc' = "report"
      BY <1>3, <2>3, <1>0, WriteLocations DEF FillOnHost, Successor
    <3> QED
      BY <1>0, <1>1, <2>3, <3>1, <3>2 DEF SnapshotInv
  <2>4. CASE pc \notin {"after", "release", "finalize"}
    BY <1>3, <2>4, <1>a, WriteLocations DEF FillOnHost, Successor
  <2> QED
    BY <2>1, <2>2, <2>3, <2>4
<1>4. CASE FillOnDevice
  BY <1>4, <1>a, WriteLocations DEF FillOnDevice, Successor
<1>5. CASE AlreadyWritten
  <2>1. UNCHANGED <<host, op, committed>> /\ pc' = Successor(pc)
    BY <1>5 DEF AlreadyWritten
  <2>2. CASE pc \in {"after", "release"}
    BY <1>1, <1>5, <2>1, <2>2 DEF AlreadyWritten, Successor, HostFile, SnapshotInv, IsUpdate
  <2>3. CASE pc \in {"before", "done"}
    BY <2>1, <2>3, <1>a DEF Successor
  <2> QED
    BY <1>5, <2>2, <2>3 DEF AlreadyWritten, Repeatable
<1>6. CASE Settle
  <2>1. op \in Ops /\ op' = op /\ UNCHANGED <<host, dev, committed, clean>>
    BY <1>6, <1>0 DEF Settle
  <2>2. pc' = "report" => Finished(op)' /\ (committed => Kept(op)')
    BY <1>6, <2>1, <1>0 DEF Settle, SnapshotInv, Chosen, Finished
  <2>3. pc' = "release" => ~committed
    BY <1>6 DEF Settle
  <2>4. pc' = "finalize" => ~committed /\ ~IsUpdate(op)
    BY <1>6 DEF Settle
  <2> QED
    BY <1>1, <2>1, <2>2, <2>3, <2>4 DEF SnapshotInv, IsUpdate
<1>7. CASE Unstage
  BY <1>1, <1>7 DEF Unstage, SnapshotInv
<1>8. ASSUME NEW m \in Media, CleanTmp(m) \/ (\E k \in {"final", "delete"} : CleanAudio(k, m)) \/ CleanLoopDone
      PROVE  SnapshotInv'
  BY <1>8, <1>a DEF CleanTmp, CleanAudio, CleanLoopDone
<1>9. CASE Copy \/ Refresh \/ ObserveCancel \/ Commit \/ UndoBegin \/ CleanLoopDone
  BY <1>9, <1>a DEF Copy, CopyBegin, CopyFill, CopyPublish, CopyDone, Refresh, ObserveCancel, Commit, VerifyStaged,
     Retire, Publish, Confirm, UndoBegin, CleanLoopDone
<1>10. CASE RecoverStep
  BY <1>10, <1>a DEF RecoverStep, RecoverDone, RecoverFormal, RecoverRetired, RecoverFromHost, OldWanted,
     Reinstate, RecoverInitialize, ForwardWanted, RecoverUninitialized, Recheck, Recovering, Choose
<1>11. CASE CancelBeforeWork \/ NothingToDo \/ Report \/ Reject \/ IoFailure \/ Crash \/ RenameLost
  BY <1>11, <1>a DEF CancelBeforeWork, NothingToDo, Report, Reject, IoFailure, Crash, RenameLost, Die, Return
<1>12. CASE Caller \/ Remount \/ (\E d \in Foreign : ForeignEdit(d)) \/ UNCHANGED vars
  BY <1>12, <1>a, <1>b DEF Caller, Prepare, Execute, Recover, RequestCancel, Remount, ForeignEdit
<1> QED
  BY <1>2, <1>3, <1>4, <1>5, <1>6, <1>7, <1>8, <1>9, <1>10, <1>11, <1>12 DEF Next, Step, Write, Clean, World

-----------------------------------------------------------------------------
(* The theorems.                                                           *)
ResultInv == OwnInv /\ ModeInv /\ SweepInv /\ SnapshotInv

LEMMA ResultInvariant == Spec => [](Established /\ ResultInv)
<1>1. Init => PinInv
  BY DEF Init, PinInv, RecoveryPointPinned, HostFiles
<1>2. Init => ResultInv
  BY DataAssumption DEF Init, ResultInv, OwnInv, ModeInv, SweepInv, SnapshotInv, Saving, Settled,
     DeviceFiles, HostFiles
<1>3. Typing /\ PinInv /\ [Next]_vars => PinInv'
  BY PinStep
<1>4. Established /\ ResultInv /\ [Next]_vars => ResultInv'
  BY OwnStep, ModeStep, SweepStep, SnapshotStep DEF Established, ResultInv
<1>5. Established <=> Typing /\ PinInv /\ PlayInv
  BY DEF Established
<1> QED
  BY <1>1, <1>2, <1>3, <1>4, <1>5, TypingInvariant, PlayInvariant, PTL DEF Spec

\* Who tells a caller that its operation is cancelled or completed.
LEMMA TellingStep ==
  ASSUME Typing, [Next]_vars, NEW o \in Ops,
         outcome[o] = "none", outcome'[o] \in {"cancelled", "completed"}
  PROVE  o = op /\ (CancelBeforeWork \/ NothingToDo \/ Report)
<1> USE DEF deviceVars, callFrame, sweepVars, engineVars, callerVars, historyVars, vars
<1>0. outcome \in [Ops -> Outcomes] /\ (pc # "idle" => op \in Ops)
  BY DEF Typing, TypeOK
<1>a. outcome' # outcome
  OBVIOUS
<1>1. CASE CancelBeforeWork \/ NothingToDo \/ Report
  BY <1>0, <1>1 DEF CancelBeforeWork, NothingToDo, Report, Return
<1>2. CASE Reject \/ IoFailure
  BY <1>0, <1>2, ThrowType DEF Reject, IoFailure, Return, ThrowOutcome
<1>3. CASE Crash \/ RenameLost
  BY <1>0, <1>3 DEF Crash, RenameLost, Die, Return
<1>4. CASE Write \/ Copy \/ Refresh \/ ObserveCancel
  BY <1>a, <1>4 DEF Write, CreateOnHost, FillOnHost, CreateOnDevice, FillOnDevice, AlreadyWritten,
     Copy, CopyBegin, CopyFill, CopyPublish, CopyDone, Refresh, ObserveCancel
<1>5. CASE Commit \/ UndoBegin \/ Clean
  BY <1>a, <1>5 DEF Commit, VerifyStaged, Retire, Publish, Confirm, UndoBegin, Clean, CleanTmp, CleanAudio,
     CleanLoopDone, Unstage, Settle
<1>6. CASE RecoverStep
  BY <1>a, <1>6 DEF RecoverStep, RecoverDone, RecoverFormal, RecoverRetired, RecoverFromHost, Reinstate,
     RecoverInitialize, RecoverUninitialized, Recheck, Choose
<1>7. CASE Caller
  BY <1>0, <1>a, <1>7 DEF Caller, Prepare, Execute, Recover, RequestCancel
<1>8. CASE Remount \/ (\E d \in Foreign : ForeignEdit(d)) \/ UNCHANGED vars
  BY <1>a, <1>8 DEF Remount, ForeignEdit
<1> QED
  BY <1>1, <1>2, <1>3, <1>4, <1>5, <1>6, <1>7, <1>8 DEF Next, Step, World

(***************************************************************************)
(* What execute and recover return is true: a caller that hears cancelled  *)
(* after work began has its old library and none of the operation's audio; *)
(* one that hears completed after a commit has the new library, its        *)
(* snapshot, and a recovery point that is released.                        *)
(***************************************************************************)
THEOREM ResultsAreTrue == Spec => ResultsTruthful
<1>1. Established /\ ResultInv /\ [Next]_vars =>
        [\A o \in Ops :
           /\ outcome[o] = "none" /\ outcome'[o] = "cancelled" /\ mode = "undo" =>
                /\ base[o] = formal /\ Finished(o)
                /\ \A m \in Media : copiedBy[m] # o /\ tmp[o][m] = "none"
           /\ outcome[o] = "none" /\ outcome'[o] = "completed" /\ committed =>
                /\ formal = New[o] /\ Finished(o) /\ host[o]["after"] = "full"
                /\ IsUpdate(o) => host[o]["released"] = "full"]_vars
  <2> SUFFICES ASSUME Established, ResultInv, [Next]_vars, NEW o \in Ops, outcome[o] = "none"
               PROVE  /\ outcome'[o] = "cancelled" /\ mode = "undo" =>
                           /\ base[o] = formal /\ Finished(o)
                           /\ \A m \in Media : copiedBy[m] # o /\ tmp[o][m] = "none"
                      /\ outcome'[o] = "completed" /\ committed =>
                           formal = New[o] /\ Finished(o) /\ Kept(o)
    BY DEF Kept
  <2>1. outcome'[o] \in {"cancelled", "completed"} => o = op /\ (CancelBeforeWork \/ NothingToDo \/ Report)
    BY TellingStep DEF Established
  <2>2. CASE outcome'[o] = "cancelled" /\ mode = "undo"
    <3>1. pc = "report" /\ clean /\ op = o
      BY <2>1, <2>2, ResultFacts DEF CancelBeforeWork, NothingToDo, Report, Return, ResultInv, ModeInv, Settled, Saving,
         Established, Typing, TypeOK
    <3>2. ~committed /\ base[o] = formal /\ Finished(o)
      BY <2>2, <3>1 DEF ResultInv, ModeInv, SnapshotInv, Settled
    <3>3. \A m \in Media : copiedBy[m] # o /\ tmp[o][m] = "none"
      BY <2>2, <3>1, <3>2 DEF ResultInv, SweepInv, Swept, Settled
    <3> QED
      BY <2>2, <3>2, <3>3
  <2>3. CASE outcome'[o] = "completed" /\ committed
    <3>1. pc = "report" /\ clean /\ op = o
      BY <2>1, <2>3, ResultFacts DEF CancelBeforeWork, NothingToDo, Report, Return, ResultInv, ModeInv, Settled, Saving,
         Established, Typing, TypeOK
    <3> QED
      BY <2>3, <3>1 DEF ResultInv, ModeInv, SnapshotInv, Settled
  <2> QED
    BY <2>2, <2>3
<1> QED
  BY <1>1, ResultInvariant, PTL DEF Spec, ResultsTruthful

(***************************************************************************)
(* mark_done is reached only over a settled player: the completion record  *)
(* is never begun with a temporary or staged file of the operation left,   *)
(* audio of the rejected choice, or another database than the chosen one.  *)
(***************************************************************************)
THEOREM DoneIsSettled == Spec => DoneMeansSettled
<1>1. Established /\ ResultInv /\ [Next]_vars =>
        [\A o \in Ops : dev[o]["done"] = "none" /\ dev'[o]["done"] # "none" =>
           /\ formal = IF committed THEN New[o] ELSE base[o]
           /\ dev[o]["staged"] = "none" /\ \A m \in Media : tmp[o][m] = "none"
           /\ IF committed THEN \A m \in Dels(o) : media[m] # Del[o][m]
                           ELSE \A m \in Adds(o) : copiedBy[m] # o]_vars
  <2> SUFFICES ASSUME Established, ResultInv, [Next]_vars, NEW o \in Ops,
                      dev[o]["done"] = "none", dev'[o]["done"] # "none"
               PROVE  /\ formal = IF committed THEN New[o] ELSE base[o]
                      /\ dev[o]["staged"] = "none" /\ \A m \in Media : tmp[o][m] = "none"
                      /\ IF committed THEN \A m \in Dels(o) : media[m] # Del[o][m]
                                      ELSE \A m \in Adds(o) : copiedBy[m] # o
    OBVIOUS
  <2>1. pc = "done" /\ o = op
    <3>1. CASE CreateOnDevice
      BY <3>1, ResultFacts, WriteLocations DEF Established, CreateOnDevice, DevFile, DeviceFiles
    <3>2. CASE FillOnDevice
      BY <3>2, ResultFacts, WriteLocations DEF Established, FillOnDevice, DevFile, DeviceFiles
    <3>3. CASE DeviceLoss
      BY <3>3, ResultFacts DEF Established, DeviceLoss, DeviceFiles
    <3> QED
      BY <3>1, <3>2, <3>3, DeviceStep
  <2>2. mode # "again" /\ formal = IF committed THEN New[o] ELSE base[o]
    BY <2>1 DEF ResultInv, ModeInv, Settled, Saving
  <2>3. dev[o]["staged"] = "none" /\ todo = {} /\ \A m \in Media : Swept(m)
    BY <2>1, <2>2 DEF ResultInv, SweepInv, Settled
  <2>4. Adds(o) \subseteq Media /\ Dels(o) \subseteq Media
    BY RequestAssumption DEF Adds, Dels
  <2> QED
    BY <2>1, <2>2, <2>3, <2>4 DEF Swept
<1> QED
  BY <1>1, ResultInvariant, PTL DEF Spec, DoneMeansSettled

(***************************************************************************)
(* guarded keeps an execution to the mount it was planned for: whatever it *)
(* changes on the player, it changes under the plan's own generation.      *)
(***************************************************************************)
THEOREM MountsAreChecked == Spec => PlannedMountOnly
<1>1. Established /\ ResultInv /\ [Next]_vars =>
        [mode # "recover" /\ pc # "idle" /\ deviceVars' # deviceVars
           => mode # "again" /\ gen = planGen[op]]_vars
  <2> SUFFICES ASSUME Established, ResultInv, Next, mode # "recover", pc # "idle", deviceVars' # deviceVars
               PROVE  mode # "again" /\ gen = planGen[op]
    BY DEF vars
  <2>1. Attached /\ pc \notin Saving \cup {"report"}
    <3>1. CASE Write
      BY <3>1, WriteLocations DEF Write, CreateOnHost, FillOnHost, CreateOnDevice, FillOnDevice, AlreadyWritten, Saving
    <3>2. CASE Copy \/ Refresh \/ ObserveCancel \/ CancelBeforeWork \/ NothingToDo \/ Report \/ Reject
      BY <3>2 DEF Copy, CopyBegin, CopyFill, CopyPublish, CopyDone, Refresh, ObserveCancel, CancelBeforeWork,
         NothingToDo, Report, Reject, Saving
    <3>3. CASE Commit \/ UndoBegin \/ Clean
      BY <3>3 DEF Commit, VerifyStaged, Retire, Publish, Confirm, UndoBegin, Clean, CleanTmp, CleanAudio,
         CleanLoopDone, Unstage, Settle, Saving
    <3>4. CASE RecoverStep
      BY <3>4 DEF RecoverStep, RecoverDone, RecoverFormal, RecoverRetired, RecoverFromHost, OldWanted, Reinstate,
         RecoverInitialize, ForwardWanted, RecoverUninitialized, Recheck, Recovering, Saving
    <3>5. CASE RenameLost
      BY <3>5 DEF RenameLost, Die, ForwardWanted, OldWanted, Recovering, Saving, deviceVars
    <3>6. CASE Caller \/ IoFailure \/ Crash \/ Remount \/ \E d \in Foreign : ForeignEdit(d)
      BY <3>6 DEF Caller, Prepare, Execute, Recover, RequestCancel, IoFailure, Crash, Remount, ForeignEdit
    <3> QED
      BY <3>1, <3>2, <3>3, <3>4, <3>5, <3>6 DEF Next, Step, World
  <2>2. mode \in {"execute", "undo", "recover", "again"}
    BY DEF Established, Typing, TypeOK
  <2> QED
    BY <2>1, <2>2 DEF ResultInv, ModeInv, Attached
<1> QED
  BY <1>1, ResultInvariant, PTL DEF Spec, PlannedMountOnly

(***************************************************************************)
(* Neither an execution nor a recovery ever moves or replaces a database   *)
(* its record does not know.                                               *)
(***************************************************************************)
THEOREM UnknownIsKept == Spec => UnknownKept
<1>1. Established /\ [Next]_vars =>
        [pc # "idle" /\ formal \notin {NoDatabase, base[op], New[op]} => formal' = formal]_vars
  <2> SUFFICES ASSUME Established, Next, pc # "idle", formal \notin {NoDatabase, base[op], New[op]}
               PROVE  formal' = formal
    BY DEF vars, deviceVars
  <2> USE DEF deviceVars
  <2>0. pc # "retire"
    BY DEF Established, PlayInv, Working
  <2>1. CASE Write \/ Copy \/ Refresh \/ ObserveCancel
    BY <2>1 DEF Write, CreateOnHost, FillOnHost, CreateOnDevice, FillOnDevice, AlreadyWritten,
       Copy, CopyBegin, CopyFill, CopyPublish, CopyDone, Refresh, ObserveCancel
  <2>2. CASE Commit \/ UndoBegin \/ Clean
    BY <2>0, <2>2 DEF Commit, VerifyStaged, Retire, Publish, InstallStaged, Confirm, UndoBegin, Clean, CleanTmp,
       CleanAudio, CleanLoopDone, Unstage, Settle
  <2>3. CASE RecoverStep
    BY <2>3 DEF RecoverStep, RecoverDone, RecoverFormal, RecoverRetired, RecoverFromHost, OldWanted, Reinstate,
       RecoverInitialize, ForwardWanted, RecoverUninitialized, Recheck, Recovering
  <2>4. CASE CancelBeforeWork \/ NothingToDo \/ Report \/ Reject \/ Caller
    BY <2>4 DEF CancelBeforeWork, NothingToDo, Report, Reject, Caller, Prepare, Execute, Recover, RequestCancel
  <2>5. CASE World
    BY <2>0, <2>5 DEF World, IoFailure, Crash, RenameLost, Remount, ForeignEdit
  <2> QED
    BY <2>1, <2>2, <2>3, <2>4, <2>5 DEF Next, Step
<1> QED
  BY <1>1, ResultInvariant, PTL DEF Spec, UnknownKept

-----------------------------------------------------------------------------
(* Progress.  A running call goes down a ladder of file calls: no step     *)
(* leads back up, the loops of copy and cleanup take an entry off their    *)
(* list, and what happens around the call either ends it or leaves it      *)
(* where it is.                                                            *)
Level == [prepare |-> 27, old_db |-> 26, new_db |-> 25, before |-> 24, manifest |-> 23,
          marker |-> 22, copy |-> 21, stage |-> 20, verify |-> 19, commit |-> 18,
          retire |-> 17, publish |-> 16, confirm |-> 15, undo |-> 14, recover |-> 14,
          restore |-> 13, reinstate |-> 12, recheck |-> 11, clean |-> 10, unstage |-> 9,
          done |-> 8, settle |-> 7, after |-> 6, release |-> 5, finalize |-> 4,
          report |-> 3, idle |-> 0]

\* How far the addition or the file at hand is: to be created, to be filled,
\* to be renamed.
FilePhase == IF opened THEN 2
         ELSE IF pc = "copy" /\ \E m \in Media : <<"tmp", m>> \in todo /\ tmp[op][m] = "full"
         THEN 1 ELSE 3

\* One more than the entries a list can have.
Width == 3 * Cardinality(Media) + 1

Rank == 4 * (Level[pc] * Width + Cardinality(todo)) + FilePhase

LEMMA Levels ==
  /\ Level["prepare"] = 27 /\ Level["old_db"] = 26 /\ Level["new_db"] = 25 /\ Level["before"] = 24
  /\ Level["manifest"] = 23 /\ Level["marker"] = 22 /\ Level["copy"] = 21 /\ Level["stage"] = 20
  /\ Level["verify"] = 19 /\ Level["commit"] = 18 /\ Level["retire"] = 17 /\ Level["publish"] = 16
  /\ Level["confirm"] = 15 /\ Level["undo"] = 14 /\ Level["recover"] = 14 /\ Level["restore"] = 13
  /\ Level["reinstate"] = 12 /\ Level["recheck"] = 11 /\ Level["clean"] = 10 /\ Level["unstage"] = 9
  /\ Level["done"] = 8 /\ Level["settle"] = 7 /\ Level["after"] = 6 /\ Level["release"] = 5
  /\ Level["finalize"] = 4 /\ Level["report"] = 3 /\ Level["idle"] = 0
  BY DEF Level

LEMMA LevelType == \A l \in Locations : Level[l] \in 0 .. 27 /\ (l # "idle" => Level[l] > 0)
<1>1. Locations = {"marker", "stage", "commit", "restore", "done",
        "old_db", "new_db", "before", "manifest", "after", "release", "finalize",
        "idle", "prepare", "copy", "verify", "retire", "publish", "confirm", "undo",
        "recover", "reinstate", "recheck", "clean", "unstage", "settle", "report"}
  BY WriteLocations DEF Locations
<1> QED
  BY <1>1, Levels

\* The call after a write is further down.
LEMMA SuccessorIsLower ==
  \A l \in DOMAIN DevFile \cup DOMAIN HostFile : Level[Successor(l)] < Level[l]
<1>1. /\ Successor("marker") = "copy" /\ Successor("stage") = "verify"
      /\ Successor("commit") \in {"retire", "publish"} /\ Successor("restore") = "reinstate"
      /\ Successor("done") = "settle" /\ Successor("old_db") = "new_db"
      /\ Successor("new_db") \in {"before", "manifest"} /\ Successor("before") = "manifest"
      /\ Successor("manifest") = "marker" /\ Successor("after") \in {"release", "finalize"}
      /\ Successor("release") = "finalize" /\ Successor("finalize") = "report"
  BY DEF Successor
<1> QED
  BY <1>1, Levels, WriteLocations

\* Fewer rungs count more than any list, a shorter list more than any stage.
LEMMA RankOrder ==
  ASSUME NEW w \in Nat, NEW a \in Nat, NEW b \in Nat, NEW c \in Nat, NEW d \in Nat,
         NEW s \in 1 .. 3, NEW t \in 1 .. 3, d < w,
         b < a \/ (b = a /\ (d < c \/ (d = c /\ t < s)))
  PROVE  4 * (b * w + d) + t < 4 * (a * w + c) + s
<1>1. CASE b < a
  <2>1. PICK k \in Nat : a = b + 1 + k
    <3>1. a - b - 1 \in Nat /\ a = b + 1 + (a - b - 1)
      BY <1>1
    <3> QED
      BY <3>1
  <2>2. a * w = b * w + w + k * w /\ k * w \in Nat /\ b * w \in Nat /\ a * w \in Nat
    BY <2>1
  <2> HIDE <2>1
  <2> DEFINE aw == a * w
             bw == b * w
             kw == k * w
  <2>3. aw = bw + w + kw /\ kw \in Nat /\ bw \in Nat /\ aw \in Nat
    BY <2>2
  <2> HIDE DEF aw, bw, kw
  <2>4. 4 * (bw + d) + t < 4 * (aw + c) + s
    BY <2>3
  <2> QED
    BY <2>4 DEF aw, bw
<1>2. CASE b = a
  <2> DEFINE aw == a * w
  <2>1. aw \in Nat
    OBVIOUS
  <2> HIDE DEF aw
  <2>2. d < c \/ (d = c /\ t < s)
    BY <1>2
  <2>3. 4 * (aw + d) + t < 4 * (aw + c) + s
    BY <2>1, <2>2
  <2> QED
    BY <1>2, <2>3 DEF aw
<1> QED
  BY <1>1, <1>2

LEMMA RankFacts ==
  ASSUME Typing, IsFiniteSet(Media)
  PROVE  /\ Level[pc] \in 0 .. 27 /\ (pc # "idle" => Level[pc] > 0)
         /\ IsFiniteSet(todo) /\ Cardinality(todo) \in Nat /\ Cardinality(todo) < Width
         /\ Width \in Nat /\ FilePhase \in 1 .. 3
<1>1. Level[pc] \in 0 .. 27 /\ (pc # "idle" => Level[pc] > 0)
  BY LevelType DEF Typing, TypeOK
<1>2. IsFiniteSet({"tmp", "final", "delete"}) /\ Cardinality({"tmp", "final", "delete"}) = 3
  <2>1. IsFiniteSet({"tmp", "final"}) /\ Cardinality({"tmp", "final"}) = 2
    <3>1. IsFiniteSet({"tmp"}) /\ Cardinality({"tmp"}) = 1
      BY FS_Singleton
    <3>2. {"tmp"} \cup {"final"} = {"tmp", "final"} /\ "final" \notin {"tmp"}
      OBVIOUS
    <3> QED
      BY <3>1, <3>2, FS_AddElement
  <2>2. {"tmp", "final"} \cup {"delete"} = {"tmp", "final", "delete"} /\ "delete" \notin {"tmp", "final"}
    OBVIOUS
  <2> QED
    BY <2>1, <2>2, FS_AddElement
<1>3. /\ IsFiniteSet({"tmp", "final", "delete"} \X Media)
      /\ Cardinality({"tmp", "final", "delete"} \X Media) = 3 * Cardinality(Media)
  BY <1>2, FS_Product
<1>4. Cardinality(Media) \in Nat
  BY FS_CardinalityType
<1>5. todo \in SUBSET ({"tmp", "final", "delete"} \X Media)
  BY DEF Typing, TypeOK
<1>6. IsFiniteSet(todo) /\ Cardinality(todo) <= 3 * Cardinality(Media)
  BY <1>3, <1>5, FS_Subset
<1>7. Cardinality(todo) \in Nat
  BY <1>6, FS_CardinalityType
<1>8. FilePhase \in 1 .. 3
  BY DEF FilePhase
<1> QED
  BY <1>1, <1>4, <1>6, <1>7, <1>8 DEF Width

\* What a step of a call does to the ladder.
LEMMA Descends ==
  ASSUME Typing, Typing', IsFiniteSet(Media),
         \/ Level[pc'] < Level[pc]
         \/ pc' = pc /\ \E e \in todo : todo' = todo \ {e}
         \/ pc' = pc /\ todo' = todo /\ FilePhase' < FilePhase
  PROVE  Rank' < Rank
<1>1. /\ Level[pc] \in Nat /\ Cardinality(todo) \in Nat /\ Width \in Nat /\ FilePhase \in 1 .. 3
      /\ IsFiniteSet(todo)
  BY RankFacts
<1>2. Level[pc'] \in Nat /\ Cardinality(todo') \in Nat /\ Cardinality(todo') < Width /\ FilePhase' \in 1 .. 3
  <2>1. (Level[pc] \in 0 .. 27 /\ Cardinality(todo) \in Nat /\ Cardinality(todo) < Width /\ FilePhase \in 1 .. 3)'
    BY RankFacts, PTL
  <2> QED
    BY <2>1 DEF Width, Level
<1>3. \/ Level[pc'] < Level[pc]
      \/ Level[pc'] = Level[pc] /\ \/ Cardinality(todo') < Cardinality(todo)
                                   \/ Cardinality(todo') = Cardinality(todo) /\ FilePhase' < FilePhase
  <2>1. ASSUME NEW e \in todo, todo' = todo \ {e} PROVE Cardinality(todo') < Cardinality(todo)
    <3>1. Cardinality(todo \ {e}) = Cardinality(todo) - 1
      BY <1>1, FS_RemoveElement
    <3> QED
      BY <1>1, <2>1, <3>1
  <2> QED
    BY <2>1
<1> DEFINE a == Level[pc]
           b == Level[pc']
           c == Cardinality(todo)
           d == Cardinality(todo')
           s == FilePhase
           t == FilePhase'
           w == Width
<1>4. Rank = 4 * (a * w + c) + s /\ Rank' = 4 * (b * w + d) + t
  BY DEF Rank, Width, Level
<1>5. /\ w \in Nat /\ a \in Nat /\ b \in Nat /\ c \in Nat /\ d \in Nat
      /\ s \in 1 .. 3 /\ t \in 1 .. 3 /\ d < w
  BY <1>1, <1>2
<1>6. b < a \/ (b = a /\ (d < c \/ (d = c /\ t < s)))
  BY <1>3
<1> HIDE DEF a, b, c, d, s, t, w
<1>7. 4 * (b * w + d) + t < 4 * (a * w + c) + s
  BY <1>5, <1>6, RankOrder
<1> QED
  BY <1>4, <1>7

LEMMA StepDescends ==
  ASSUME Typing, Typing', IsFiniteSet(Media), pc # "idle", Step
  PROVE  Rank' < Rank
<1> USE DEF deviceVars, callFrame, sweepVars, engineVars, callerVars, historyVars
<1>a. ASSUME Level[pc'] < Level[pc] PROVE Rank' < Rank
  BY <1>a, Descends
<1>b. ASSUME UNCHANGED pc, NEW e \in todo, todo' = todo \ {e} PROVE Rank' < Rank
  BY <1>b, Descends
<1>c. ASSUME UNCHANGED <<pc, todo>>, FilePhase' < FilePhase PROVE Rank' < Rank
  BY <1>c, Descends
<1>d. Level[pc] > 0 /\ Level["idle"] = 0
  BY RankFacts, Levels
<1>1. CASE CreateOnHost \/ CreateOnDevice
  <2>1. UNCHANGED <<pc, todo>> /\ ~opened /\ opened' = TRUE /\ pc # "copy"
    BY <1>1, WriteLocations DEF CreateOnHost, CreateOnDevice
  <2> QED
    BY <1>c, <2>1 DEF FilePhase
<1>2. CASE FillOnHost \/ FillOnDevice \/ AlreadyWritten
  <2>1. pc \in DOMAIN DevFile \cup DOMAIN HostFile /\ pc' = Successor(pc)
    BY <1>2, WriteLocations DEF FillOnHost, FillOnDevice, AlreadyWritten, Repeatable
  <2> QED
    BY <1>a, <2>1, SuccessorIsLower
<1>3. CASE Copy
  <2>1. ASSUME NEW m \in Media, CopyBegin(m) PROVE Rank' < Rank
    <3>1. /\ UNCHANGED <<pc, todo, op>> /\ ~opened /\ opened' = TRUE
          /\ \A n \in Adds(op) : <<"tmp", n>> \in todo => tmp[op][n] = "none"
      BY <2>1 DEF CopyBegin
    <3>2. \A n \in Media : <<"tmp", n>> \in todo => n \in Adds(op)
      BY DEF Typing, TodoOK
    <3>3. FilePhase = 3
      BY <3>1, <3>2 DEF FilePhase
    <3>4. FilePhase' = 2
      BY <3>1 DEF FilePhase
    <3> QED
      BY <1>c, <3>1, <3>3, <3>4
  <2>2. ASSUME NEW m \in Media, CopyFill(m) PROVE Rank' < Rank
    <3>1. /\ pc = "copy" /\ UNCHANGED <<pc, todo, op>> /\ opened /\ opened' = FALSE
          /\ <<"tmp", m>> \in todo
          /\ tmp' = [tmp EXCEPT ![op][m] = "full"]
      BY <2>2 DEF CopyFill
    <3>2. tmp'[op][m] = "full"
      BY <3>1 DEF Typing, TypeOK
    <3> QED
      BY <1>c, <3>1, <3>2 DEF FilePhase
  <2>3. ASSUME NEW m \in Media, CopyPublish(m) PROVE Rank' < Rank
    BY <1>b, <2>3 DEF CopyPublish
  <2>4. CASE CopyDone
    BY <1>a, <2>4, Levels DEF CopyDone
  <2> QED
    BY <1>3, <2>1, <2>2, <2>3, <2>4 DEF Copy
<1>4. CASE Commit \/ UndoBegin \/ Refresh \/ ObserveCancel
  <2>1. \/ <<pc, pc'>> \in {<<"verify", "commit">>, <<"retire", "publish">>, <<"publish", "confirm">>,
                            <<"confirm", "clean">>, <<"undo", "clean">>, <<"prepare", "old_db">>,
                            <<"prepare", "new_db">>}
        \/ pc \in {"copy", "verify", "stage"} /\ pc' = "undo"
    BY <1>4 DEF Commit, VerifyStaged, Retire, Publish, Confirm, UndoBegin, Refresh, ObserveCancel
  <2> QED
    BY <1>a, <2>1, Levels
<1>5. CASE Clean
  <2>1. ASSUME NEW m \in Media, CleanTmp(m) PROVE Rank' < Rank
    BY <1>b, <2>1 DEF CleanTmp
  <2>2. ASSUME NEW m \in Media, NEW k, CleanAudio(k, m) PROVE Rank' < Rank
    BY <1>b, <2>2 DEF CleanAudio
  <2>3. CASE CleanLoopDone \/ Unstage \/ Settle
    <3>1. <<pc, pc'>> \in {<<"clean", "unstage">>, <<"unstage", "done">>, <<"unstage", "report">>,
                           <<"settle", "report">>, <<"settle", "after">>, <<"settle", "release">>,
                           <<"settle", "finalize">>}
      BY <2>3 DEF CleanLoopDone, Unstage, Settle
    <3> QED
      BY <1>a, <3>1, Levels
  <2> QED
    BY <1>5, <2>1, <2>2, <2>3 DEF Clean
<1>6. CASE RecoverStep
  <2>1. CASE RecoverDone \/ RecoverFormal \/ RecoverRetired \/ RecoverFromHost \/ RecoverInitialize
          \/ RecoverUninitialized
    <3>1. /\ pc = "recover"
          /\ \/ pc' = "settle" \/ pc' = "clean" \/ pc' = "recheck" \/ pc' = "restore" \/ pc' = "reinstate"
      BY <2>1 DEF RecoverDone, RecoverFormal, RecoverRetired, RecoverFromHost, RecoverInitialize,
         RecoverUninitialized, OldWanted, ForwardWanted, Recovering, Choose
    <3> QED
      BY <1>a, <3>1, Levels
  <2>2. CASE Reinstate \/ Recheck
    <3>1. (pc = "reinstate" /\ pc' = "recheck") \/ (pc = "recheck" /\ pc' = "clean")
      BY <2>2 DEF Reinstate, Recheck, Choose
    <3> QED
      BY <1>a, <3>1, Levels
  <2> QED
    BY <1>6, <2>1, <2>2 DEF RecoverStep
<1>7. CASE CancelBeforeWork \/ NothingToDo \/ Report \/ Reject
  <2>1. pc' = "idle"
    BY <1>7 DEF CancelBeforeWork, NothingToDo, Report, Reject, Return
  <2> QED
    BY <1>a, <1>d, <2>1
<1> QED
  BY <1>1, <1>2, <1>3, <1>4, <1>5, <1>6, <1>7 DEF Step, Write

(***************************************************************************)
(* Every call comes to an end or to a stop: it takes at most MaxRank       *)
(* steps, whatever the player, the records and the list of files are, and  *)
(* nothing that happens meanwhile gives it back a step.                    *)
(***************************************************************************)
MaxRank == 112 * Width

THEOREM CallsAreBounded ==
  ASSUME IsFiniteSet(Media)
  PROVE  /\ Spec => [](Rank \in 0 .. MaxRank)
         /\ Spec => [][pc # "idle" => Rank' <= Rank /\ (Step => Rank' < Rank)]_vars
<1>1. Typing => Rank \in 0 .. MaxRank
  <2> SUFFICES ASSUME Typing PROVE Rank \in 0 .. MaxRank
    OBVIOUS
  <2>1. /\ Level[pc] \in 0 .. 27 /\ Cardinality(todo) \in Nat /\ Cardinality(todo) < Width
        /\ Width \in Nat /\ FilePhase \in 1 .. 3
    BY RankFacts
  <2> DEFINE lw == Level[pc] * Width
  <2>2. lw \in Nat /\ lw <= 27 * Width
    BY <2>1
  <2> HIDE DEF lw
  <2>3. 4 * (lw + Cardinality(todo)) + FilePhase \in 0 .. 112 * Width
    BY <2>1, <2>2
  <2> QED
    BY <2>3 DEF Rank, MaxRank, lw
<1>2. Typing /\ Typing' /\ [Next]_vars => [pc # "idle" => Rank' <= Rank /\ (Step => Rank' < Rank)]_vars
  <2> SUFFICES ASSUME Typing, Typing', Next, pc # "idle"
               PROVE  Rank' <= Rank /\ (Step => Rank' < Rank)
    OBVIOUS
  <2> USE DEF deviceVars, callFrame, sweepVars, engineVars, callerVars, historyVars
  <2>1. Rank \in Int /\ Rank' \in Int
    <3>1. MaxRank \in Int
      BY FS_CardinalityType DEF MaxRank, Width
    <3>2. Rank \in 0 .. MaxRank
      BY <1>1
    <3>3. (Rank \in 0 .. MaxRank)'
      BY <1>1, PTL
    <3> QED
      BY <3>1, <3>2, <3>3 DEF MaxRank, Width
  <2>2. CASE Step
    BY <2>1, <2>2, StepDescends
  <2>3. CASE pc' = "idle"
    <3>1. Level[pc'] < Level[pc]
      BY <2>3, RankFacts, Levels
    <3>2. Rank' < Rank
      BY <3>1, Descends
    <3> QED
      BY <2>1, <3>2
  <2>4. CASE Caller
    <3>1. UNCHANGED <<pc, todo, opened, op, tmp>>
      BY <2>4 DEF Caller, Prepare, Execute, Recover, RequestCancel
    <3>2. ~Step \/ Rank' < Rank
      BY StepDescends
    <3>3. Rank' = Rank
      BY <3>1 DEF Rank, FilePhase
    <3> QED
      BY <2>1, <3>2, <3>3
  <2>5. CASE World
    <3>1. pc' = "idle" \/ UNCHANGED <<pc, todo, opened, op, tmp>>
      BY <2>5 DEF World, IoFailure, Crash, RenameLost, Die, Return, Remount, ForeignEdit
    <3>2. ~Step \/ Rank' < Rank
      BY StepDescends
    <3>3. CASE UNCHANGED <<pc, todo, opened, op, tmp>>
      <4>1. Rank' = Rank
        BY <3>3 DEF Rank, FilePhase
      <4> QED
        BY <2>1, <3>2, <4>1
    <3> QED
      BY <2>3, <3>1, <3>3
  <2> QED
    BY <2>2, <2>4, <2>5 DEF Next
<1> QED
  BY <1>1, <1>2, TypingInvariant, PTL DEF Spec

=============================================================================
