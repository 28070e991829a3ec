-------------------------- MODULE SnapshotsProofs --------------------------
(***************************************************************************)
(* Theorems about the snapshot store, for every set of operations, every   *)
(* retention, and any number of faults and of inspections that miss        *)
(* entries.  The invariant says where a call is (Where), what is in the    *)
(* files it is at (Files), and that what prune still has to remove is      *)
(* valid, neither marked nor held for recovery (Expendable).               *)
(***************************************************************************)
EXTENDS Snapshots, TLAPS, FiniteSetTheorems

Settling == {"finish", "release", "released", "prune", "unpublish", "drop", "forget", "finalize"}
Decided(o) == stage[o] \in {"undone", "committed"}

Where ==
  /\ pc \in {"save", "check", "db", "meta"} =>
       \/ snap = <<op, "before">> /\ stage[op] = "begun" /\ op \notin Fresh
       \/ snap = <<op, "after">> /\ Decided(op)
  /\ pc = "manifest" => stage[op] = "begun"
  /\ pc = "journal" => stage[op] = "recorded"
  /\ pc = "commit" => stage[op] = "open"
  /\ pc = "decide" => stage[op] \in {"recorded", "open"}
  /\ pc \in Settling => Decided(op)
  /\ pc = "released" => snap = <<op, "before">>

Files ==
  /\ pc = "db" => file[snap]["meta"] = "none"
  /\ pc = "meta" => file[snap]["db"] = "full" /\ file[snap]["meta"] # "full"
  /\ pc \in {"released", "lkg"} => Validated(snap)
  /\ pc \in {"drop", "forget"} => file[snap]["meta"] = "none" /\ snap \notin doomed
  /\ \A o \in Ops : ~Decided(o) => file[<<o, "before">>]["released"] = "none"
  /\ pc = "manifest" /\ op \notin Fresh =>
       file[<<op, "before">>]["meta"] = "full" /\ file[<<op, "before">>]["db"] # "none"

Expendable ==
  pc \in {"unpublish", "drop", "forget"} =>
    \A s \in doomed : Validated(s) /\ ~Marked(s) /\ ~Active(s)

IInv == TypeOK /\ Where /\ Files /\ Expendable /\ NoDanglingEntry /\ RecoveryPointKept

-----------------------------------------------------------------------------
\* Writing one part of one snapshot leaves every other part alone.
LEMMA OnePart ==
  ASSUME TypeOK, NEW s \in Snaps, NEW p \in Parts, NEW v \in FileState,
         file' = [file EXCEPT ![s][p] = v]
  PROVE  /\ file' \in [Snaps -> [Parts -> FileState]]
         /\ file'[s][p] = v
         /\ \A t \in Snaps, q \in Parts : t # s \/ q # p => file'[t][q] = file[t][q]
         /\ \A t \in Snaps : t # s => file'[t] = file[t]
  BY DEF TypeOK

LEMMA States == /\ {"none", "torn", "full"} = FileState
                /\ {"db", "meta", "lkg", "released"} = Parts
  BY DEF FileState, Parts

LEMMA WriteType ==
  ASSUME TypeOK, NEW s \in Snaps, NEW p \in Parts, NEW next, Write(s, p, next)
  PROVE  file' \in [Snaps -> [Parts -> FileState]]
  BY OnePart, States DEF Write, Create, Fill

LEMMA NumberType == ASSUME TypeOK, NEW H, NEW s \in Snaps PROVE Number(s, H) \in Nat
  BY DEF TypeOK, Number

LEMMA NextNumberType == ASSUME TypeOK, NEW H PROVE NextNumber(H) \subseteq Nat
  BY NumberType DEF NextNumber, Entries

LEMMA InspectType == ASSUME TypeOK, NEW H, Inspect(H) PROVE unread' \in 0..MaxUnread
  BY SnapshotsAssumption DEF Inspect, TypeOK

LEMMA SnapOf == \A o \in Ops : <<o, "before">> \in Snaps /\ <<o, "after">> \in Snaps
  BY DEF Snaps

LEMMA TypeStep == ASSUME TypeOK, [Next]_vars PROVE TypeOK'
<1> USE SnapshotsAssumption DEF storeVars, deviceVars, vars, Goto, Stay, Return, At, Aim
<1>1. ASSUME NEW o \in Ops, Execute(o) PROVE TypeOK'
  BY <1>1, SnapOf DEF Execute, TypeOK, Locations, Stages
<1>2. ASSUME NEW o \in Ops, Recover(o) PROVE TypeOK'
  BY <1>2, SnapOf DEF Recover, TypeOK, Locations
<1>3. ASSUME NEW H, SaveAgain(H) PROVE TypeOK'
  BY <1>3, InspectType DEF SaveAgain, TypeOK, Locations, Saved
<1>4. ASSUME NEW H, SaveBegin(H) PROVE TypeOK'
  <2>1. PICK n \in NextNumber(H) : sequence' = [sequence EXCEPT ![snap] = n]
    BY <1>4 DEF SaveBegin
  <2>2. n \in Nat
    BY NextNumberType
  <2> QED
    BY <1>4, <2>1, <2>2, InspectType DEF SaveBegin, TypeOK, Locations
<1>5. ASSUME NEW H, SaveCheck(H) PROVE TypeOK'
  BY <1>5, InspectType DEF SaveCheck, TypeOK, Locations
<1>6. CASE SaveWrite
  <2>1. file' \in [Snaps -> [Parts -> FileState]]
    BY <1>6, States, WriteType DEF SaveWrite, TypeOK
  <2> QED
    BY <1>6, <2>1 DEF SaveWrite, Write, Create, Fill, TypeOK, Locations, Saved
<1>7. CASE Record
  BY <1>7 DEF Record, TypeOK, Locations, Stages
<1>8. CASE Install
  BY <1>8 DEF Install, TypeOK, Locations
<1>9. CASE Decide
  BY <1>9 DEF Decide, TypeOK, Locations, Stages
<1>10. CASE Finish
  BY <1>10, SnapOf DEF Finish, TypeOK, Locations
<1>11. ASSUME NEW H, Release(H) PROVE TypeOK'
  BY <1>11, InspectType, SnapOf DEF Release, TypeOK, Locations
<1>12. CASE ReleaseWrite
  <2>1. file' \in [Snaps -> [Parts -> FileState]]
    BY <1>12, States, WriteType DEF ReleaseWrite, TypeOK
  <2> QED
    BY <1>12, <2>1 DEF ReleaseWrite, Write, Create, Fill, TypeOK, Locations
<1>13. ASSUME NEW H, Prune(H) PROVE TypeOK'
  BY <1>13, InspectType DEF Prune, TypeOK, Locations, RetentionCandidates, Unpinned, Seen
<1>14. ASSUME NEW s \in Snaps, Unpublish(s) PROVE TypeOK'
  BY <1>14, States DEF Unpublish, TypeOK, Locations
<1>15. CASE Drop
  BY <1>15, States DEF Drop, TypeOK, Locations
<1>16. CASE Forget
  BY <1>16, States DEF Forget, TypeOK, Locations
<1>17. CASE Pruned
  BY <1>17 DEF Pruned, TypeOK, Locations
<1>18. CASE Finalize
  BY <1>18 DEF Finalize, TypeOK, Locations, FileState
<1>19. ASSUME NEW s \in Snaps, NEW H, MarkLastKnownGood(s, H) PROVE TypeOK'
  BY <1>19, InspectType DEF MarkLastKnownGood, TypeOK, Locations
<1>20. CASE MarkWrite
  <2>1. file' \in [Snaps -> [Parts -> FileState]]
    BY <1>20, States, OnePart DEF MarkWrite, Create, TypeOK
  <2> QED
    BY <1>20, <2>1 DEF MarkWrite, Create, TypeOK, Locations
<1>21. ASSUME NEW H, Reject(H) PROVE TypeOK'
  BY <1>21, InspectType DEF Reject, TypeOK, Locations
<1>22. CASE Blocked
  BY <1>22 DEF Blocked, TypeOK, Locations
<1>23. CASE Fault
  <2>1. faults' \in 0..MaxFaults
    BY <1>23 DEF Fault, TypeOK
  <2> QED
    BY <1>23, <2>1 DEF Fault, TypeOK, Locations
<1>24. ASSUME NEW s \in Snaps, Decay(s) PROVE TypeOK'
  BY <1>24, States DEF Decay, TypeOK
<1>25. CASE UNCHANGED vars
  BY <1>25 DEF TypeOK
<1> QED
  BY <1>1, <1>2, <1>3, <1>4, <1>5, <1>6, <1>7, <1>8, <1>9, <1>10, <1>11, <1>12, <1>13, <1>14,
     <1>15, <1>16, <1>17, <1>18, <1>19, <1>20, <1>21, <1>22, <1>23, <1>24, <1>25
     DEF Next, Step, Caller, World, Inspecting, Pruning

LEMMA InitTypes == Init => TypeOK
<1> SUFFICES ASSUME Init PROVE TypeOK
  OBVIOUS
<1>1. faults \in 0..MaxFaults /\ unread \in 0..MaxUnread
  BY SnapshotsAssumption DEF Init
<1>2. file \in [Snaps -> [Parts -> FileState]] /\ sequence \in [Snaps -> Nat]
  BY DEF Init, FileState
<1> QED
  BY <1>1, <1>2 DEF Init, TypeOK, Locations, FileState, Stages

(***************************************************************************)
(* Type correctness of the snapshot store, whatever the bounds.            *)
(***************************************************************************)
THEOREM StoreTypes == Spec => []TypeOK
  BY InitTypes, TypeStep, PTL DEF Spec

-----------------------------------------------------------------------------
(* Where a call is.                                                        *)

LEMMA WhereStep == ASSUME TypeOK, Where, [Next]_vars PROVE Where'
<1> USE SnapshotsAssumption DEF storeVars, deviceVars, vars, Goto, Stay, Return, At, Aim, Settling, Decided
<1>1. ASSUME NEW o \in Ops, Execute(o) PROVE Where'
  BY <1>1 DEF Execute, TypeOK, Where
<1>2. ASSUME NEW o \in Ops, Recover(o) PROVE Where'
  BY <1>2 DEF Recover, Known, TypeOK, Where
<1>3. ASSUME NEW H, SaveAgain(H) PROVE Where'
  BY <1>3 DEF SaveAgain, Saved, Where
<1>4. ASSUME NEW H, SaveBegin(H) PROVE Where'
  BY <1>4 DEF SaveBegin, Where
<1>5. ASSUME NEW H, SaveCheck(H) PROVE Where'
  BY <1>5 DEF SaveCheck, Where
<1>6. CASE SaveWrite
  BY <1>6 DEF SaveWrite, Write, Create, Fill, Saved, Where
<1>7. CASE Record
  BY <1>7 DEF Record, TypeOK, Where
<1>8. CASE Install
  BY <1>8 DEF Install, Where
<1>9. CASE Decide
  BY <1>9 DEF Decide, TypeOK, Where
<1>10. CASE Finish
  BY <1>10 DEF Finish, Where
<1>11. ASSUME NEW H, Release(H) PROVE Where'
  BY <1>11 DEF Release, Where
<1>12. CASE ReleaseWrite
  BY <1>12 DEF ReleaseWrite, Write, Create, Fill, Where
<1>13. ASSUME NEW H, Prune(H) PROVE Where'
  BY <1>13 DEF Prune, Where
<1>14. ASSUME NEW s \in Snaps, Unpublish(s) PROVE Where'
  BY <1>14 DEF Unpublish, Where
<1>15. CASE Drop \/ Forget \/ Pruned
  BY <1>15 DEF Drop, Forget, Pruned, Where
<1>16. CASE Finalize
  BY <1>16 DEF Finalize, Where
<1>17. ASSUME NEW s \in Snaps, NEW H, MarkLastKnownGood(s, H) PROVE Where'
  BY <1>17 DEF MarkLastKnownGood, Where
<1>18. CASE MarkWrite
  BY <1>18 DEF MarkWrite, Create, Where
<1>19. ASSUME NEW H, Reject(H) PROVE Where'
  BY <1>19 DEF Reject, Where
<1>20. CASE Blocked \/ Fault
  BY <1>20 DEF Blocked, Fault, Where
<1>21. ASSUME NEW s \in Snaps, Decay(s) PROVE Where'
  BY <1>21 DEF Decay, Where
<1>22. CASE UNCHANGED vars
  BY <1>22 DEF Where
<1> QED
  BY <1>1, <1>2, <1>3, <1>4, <1>5, <1>6, <1>7, <1>8, <1>9, <1>10, <1>11, <1>12, <1>13, <1>14,
     <1>15, <1>16, <1>17, <1>18, <1>19, <1>20, <1>21, <1>22
     DEF Next, Step, Caller, World, Inspecting, Pruning

-----------------------------------------------------------------------------
(* What is in the files: first the steps that leave every file alone, then *)
(* those that write or remove one part of one snapshot.                    *)
Consistent == Files /\ Expendable /\ NoDanglingEntry /\ RecoveryPointKept

Writing ==
  \/ SaveWrite \/ ReleaseWrite \/ Drop \/ Forget \/ MarkWrite
  \/ \E s \in Snaps : Unpublish(s) \/ Decay(s)

LEMMA QuietStep ==
  ASSUME IInv, [Next]_vars, ~Writing PROVE Consistent'
<1> USE SnapOf DEF IInv, Consistent, storeVars, deviceVars, vars, Goto, Stay, Return, At, Aim, Settling, Decided,
        Files, Expendable, NoDanglingEntry, RecoveryPointKept, Validated, Marked, Active
<1>1. ASSUME NEW o \in Ops, Execute(o) PROVE Consistent'
  BY <1>1 DEF Execute, TypeOK
<1>2. ASSUME NEW o \in Ops, Recover(o) PROVE Consistent'
  BY <1>2 DEF Recover, Known
<1>3. ASSUME NEW H, SaveAgain(H) PROVE Consistent'
  BY <1>3 DEF SaveAgain, Saved, Seen, Where
<1>4. ASSUME NEW H, SaveBegin(H) PROVE Consistent'
  BY <1>4 DEF SaveBegin
<1>5. ASSUME NEW H, SaveCheck(H) PROVE Consistent'
  BY <1>5 DEF SaveCheck
<1>6. CASE Record
  BY <1>6 DEF Record, TypeOK, Where
<1>7. CASE Install
  BY <1>7 DEF Install
<1>8. CASE Decide
  BY <1>8 DEF Decide, TypeOK, Where
<1>9. CASE Finish
  BY <1>9 DEF Finish
<1>10. ASSUME NEW H, Release(H) PROVE Consistent'
  BY <1>10 DEF Release, Seen
<1>11. ASSUME NEW H, Prune(H) PROVE Consistent'
  BY <1>11 DEF Prune, RetentionCandidates, Unpinned, Seen
<1>12. CASE Pruned
  BY <1>12 DEF Pruned
<1>13. CASE Finalize
  BY <1>13 DEF Finalize
<1>14. ASSUME NEW s \in Snaps, NEW H, MarkLastKnownGood(s, H) PROVE Consistent'
  BY <1>14 DEF MarkLastKnownGood, Seen
<1>15. ASSUME NEW H, Reject(H) PROVE Consistent'
  BY <1>15 DEF Reject
<1>16. CASE Blocked \/ Fault
  BY <1>16 DEF Blocked, Fault
<1>17. CASE UNCHANGED vars
  BY <1>17
<1> QED
  BY <1>1, <1>2, <1>3, <1>4, <1>5, <1>6, <1>7, <1>8, <1>9, <1>10, <1>11, <1>12, <1>13, <1>14, <1>15, <1>16, <1>17 DEF Next, Writing, Step, Caller, World, Inspecting, Pruning

LEMMA WritingStep ==
  ASSUME IInv, Writing PROVE Consistent'
<1> USE SnapOf, States DEF IInv, Consistent, storeVars, deviceVars, vars, Goto, Stay, Return, At, Aim, Settling, Decided
<1>1. CASE At("db") /\ SaveWrite
  <2>1. PICK v \in FileState \ {"none"} : /\ file' = [file EXCEPT ![snap]["db"] = v]
                                         /\ (pc' # "db" => v = "full")
    BY <1>1 DEF SaveWrite, Write, Create, Fill
  <2>2. /\ file'[snap]["db"] = v
        /\ \A t \in Snaps, q \in Parts : t # snap \/ q # "db" => file'[t][q] = file[t][q]
    BY <1>1, <2>1, OnePart DEF TypeOK
  <2>3. Files'
    BY <1>1, <2>1, <2>2 DEF SaveWrite, Write, Create, Fill, Files, TypeOK
  <2>4. NoDanglingEntry' /\ RecoveryPointKept'
    BY <1>1, <2>2 DEF SaveWrite, NoDanglingEntry, RecoveryPointKept
  <2>5. Expendable'
    BY <1>1 DEF SaveWrite, Write, Create, Fill, Expendable
  <2> QED
    BY <2>3, <2>4, <2>5
<1>2. CASE At("meta") /\ SaveWrite
  <2>1. PICK v \in FileState \ {"none"} : /\ file' = [file EXCEPT ![snap]["meta"] = v]
                                         /\ (pc' = "meta" => v = "torn")
                                         /\ (pc' # "meta" => v = "full")
    BY <1>2 DEF SaveWrite, Write, Create, Fill, Saved
  <2>2. /\ file'[snap]["meta"] = v
        /\ \A t \in Snaps, q \in Parts : t # snap \/ q # "meta" => file'[t][q] = file[t][q]
    BY <1>2, <2>1, OnePart DEF TypeOK
  <2>3. Files'
    <3>1. /\ snap \in Snaps /\ op \in Ops /\ snap' = snap /\ op' = op /\ stage' = stage
          /\ file[snap]["db"] = "full" /\ pc' \in {"meta", Saved}
          /\ snap[2] = "before" => snap = <<op, "before">>
      BY <1>2 DEF SaveWrite, Write, Create, Fill, Saved, Files, Where, TypeOK
    <3>2. pc' = "meta" => file'[snap]["db"] = "full" /\ file'[snap]["meta"] # "full"
      BY <2>1, <2>2, <3>1
    <3>3. pc' = "manifest" => snap = <<op, "before">> /\ file'[snap]["meta"] = "full"
                              /\ file'[snap]["db"] = "full"
      BY <2>1, <2>2, <3>1 DEF Saved
    <3>4. \A o \in Ops : ~Decided(o) => file'[<<o, "before">>]["released"] = "none"
      BY <2>2, <3>1 DEF Files
    <3> QED
      BY <3>1, <3>2, <3>3, <3>4 DEF Saved, Files
  <2>4. \A o \in Ops : stage[o] \in {"recorded", "open"} => <<o, "before">> # snap
    BY <1>2 DEF Where
  <2>5. NoDanglingEntry' /\ RecoveryPointKept'
    <3>1. UNCHANGED stage /\ file[snap]["db"] = "full" /\ snap \in Snaps
      BY <1>2 DEF SaveWrite, Files, TypeOK
    <3>2. NoDanglingEntry'
      BY <2>2, <3>1, States DEF NoDanglingEntry
    <3>3. RecoveryPointKept'
      BY <2>2, <2>4, <3>1, ZenonT(30) DEF RecoveryPointKept
    <3> QED
      BY <3>2, <3>3
  <2>6. Expendable'
    BY <1>2 DEF SaveWrite, Write, Create, Fill, Saved, Expendable
  <2> QED
    BY <2>3, <2>5, <2>6
<1>3. CASE ReleaseWrite
  <2>1. PICK v \in FileState : file' = [file EXCEPT ![snap]["released"] = v]
    BY <1>3 DEF ReleaseWrite, Write, Create, Fill
  <2>2. \A t \in Snaps, q \in Parts : t # snap \/ q # "released" => file'[t][q] = file[t][q]
    BY <1>3, <2>1, OnePart DEF TypeOK, ReleaseWrite
  <2>3. \A o \in Ops : ~Decided(o) => <<o, "before">> # snap
    BY <1>3 DEF ReleaseWrite, Where
  <2>4. Files'
    BY <1>3, <2>2, <2>3, ZenonT(30) DEF ReleaseWrite, Write, Create, Fill, Files, TypeOK, Validated
  <2>5. NoDanglingEntry' /\ RecoveryPointKept'
    BY <1>3, <2>2, <2>3, ZenonT(30) DEF ReleaseWrite, NoDanglingEntry, RecoveryPointKept, TypeOK
  <2>6. Expendable'
    BY <1>3 DEF ReleaseWrite, Write, Create, Fill, Expendable
  <2> QED
    BY <2>4, <2>5, <2>6
<1>4. ASSUME NEW s \in Snaps, Unpublish(s) PROVE Consistent'
  <2>1. /\ file'[s]["meta"] = "none"
        /\ \A t \in Snaps, q \in Parts : t # s \/ q # "meta" => file'[t][q] = file[t][q]
    BY <1>4, OnePart DEF Unpublish
  <2>2. Validated(s) /\ ~Active(s)
    BY <1>4 DEF Unpublish, Expendable
  <2>3. Files'
    BY <1>4, <2>1 DEF Unpublish, Files, TypeOK
  <2>4. NoDanglingEntry' /\ RecoveryPointKept'
    BY <1>4, <2>1, <2>2 DEF Unpublish, NoDanglingEntry, RecoveryPointKept, Active
  <2>5. Expendable'
    BY <1>4, <2>1 DEF Unpublish, Expendable, Validated, Marked, Active, TypeOK
  <2> QED
    BY <2>3, <2>4, <2>5
<1>5. CASE Drop
  <2>1. \A t \in Snaps, q \in Parts : t # snap \/ q # "db" => file'[t][q] = file[t][q]
    BY <1>5, OnePart DEF Drop, TypeOK
  <2>2. Files'
    BY <1>5, <2>1 DEF Drop, Files, TypeOK
  <2>3. NoDanglingEntry' /\ RecoveryPointKept'
    BY <1>5, <2>1 DEF Drop, Files, NoDanglingEntry, RecoveryPointKept, TypeOK
  <2>4. Expendable'
    BY <1>5, <2>1 DEF Drop, Files, Expendable, Validated, Marked, Active, TypeOK
  <2> QED
    BY <2>2, <2>3, <2>4
<1>6. CASE Forget
  <2>1. /\ file'[snap]["released"] = "none"
        /\ \A t \in Snaps, q \in Parts : t # snap \/ q # "released" => file'[t][q] = file[t][q]
    BY <1>6, OnePart DEF Forget, TypeOK
  <2>2. Files'
    BY <1>6, <2>1 DEF Forget, Files, TypeOK
  <2>3. NoDanglingEntry' /\ RecoveryPointKept'
    BY <1>6, <2>1 DEF Forget, Files, NoDanglingEntry, RecoveryPointKept, TypeOK
  <2>4. Expendable'
    BY <1>6, <2>1 DEF Forget, Files, Expendable, Validated, Marked, Active, TypeOK
  <2> QED
    BY <2>2, <2>3, <2>4
<1>7. CASE MarkWrite
  <2>1. PICK v \in FileState : file' = [file EXCEPT ![snap]["lkg"] = v]
    BY <1>7 DEF MarkWrite, Create
  <2>2. \A t \in Snaps, q \in Parts : q # "lkg" => file'[t][q] = file[t][q]
    BY <1>7, <2>1, OnePart DEF TypeOK, MarkWrite
  <2>3. Files'
    BY <1>7, <2>2, ZenonT(30) DEF MarkWrite, Create, Files, TypeOK, Validated
  <2>4. NoDanglingEntry' /\ RecoveryPointKept'
    BY <1>7, <2>2 DEF MarkWrite, NoDanglingEntry, RecoveryPointKept
  <2>5. Expendable'
    BY <1>7 DEF MarkWrite, Create, Expendable
  <2> QED
    BY <2>3, <2>4, <2>5
<1>8. ASSUME NEW s \in Snaps, Decay(s) PROVE Consistent'
  <2>1. /\ file'[s]["db"] = "torn"
        /\ \A t \in Snaps, q \in Parts : t # s \/ q # "db" => file'[t][q] = file[t][q]
    BY <1>8, OnePart DEF Decay
  <2>2. Files' /\ Expendable'
    BY <1>8, <2>1 DEF Decay, Files, Expendable
  <2>3. NoDanglingEntry' /\ RecoveryPointKept'
    BY <1>8, <2>1 DEF Decay, NoDanglingEntry, RecoveryPointKept
  <2> QED
    BY <2>2, <2>3
<1> QED
  BY <1>1, <1>2, <1>3, <1>4, <1>5, <1>6, <1>7, <1>8 DEF Writing, SaveWrite

LEMMA Invariance == Spec => []IInv
<1>1. Init => IInv
  <2> SUFFICES ASSUME Init PROVE IInv
    OBVIOUS
  <2>1. TypeOK
    BY InitTypes
  <2> QED
    BY <2>1, SnapOf, States DEF Init, IInv, Where, Files, Expendable, NoDanglingEntry, RecoveryPointKept, Settling
<1>2. IInv /\ [Next]_vars => IInv'
  BY TypeStep, WhereStep, QuietStep, WritingStep DEF IInv, Consistent
<1> QED
  BY <1>1, <1>2, PTL DEF Spec

(***************************************************************************)
(* The catalog never announces a database that is not there.               *)
(***************************************************************************)
THEOREM NoEntryDangles == Spec => []NoDanglingEntry
<1>1. IInv => NoDanglingEntry
  BY DEF IInv
<1> QED
  BY <1>1, Invariance, PTL

(***************************************************************************)
(* However many operations settle and prune in between, an update that may *)
(* need recovery keeps its recovery point.                                 *)
(***************************************************************************)
THEOREM RecoveryPointStays == Spec => []RecoveryPointKept
<1>1. IInv => RecoveryPointKept
  BY DEF IInv
<1> QED
  BY <1>1, Invariance, PTL

-----------------------------------------------------------------------------
(* What a step does to one valid, or one damaged, snapshot.                *)
LEMMA QuietFiles == ASSUME [Next]_vars, ~Writing PROVE UNCHANGED file
  BY DEF Next, Step, Caller, World, Inspecting, Pruning, Writing, Execute, Recover, SaveAgain,
         SaveBegin, SaveCheck, Record, Install, Decide, Finish, Release, Prune, Pruned, Finalize,
         MarkLastKnownGood, Reject, Blocked, Fault, vars, storeVars

LEMMA ValidKept ==
  ASSUME IInv, Writing, pc # "idle", NEW s \in Snaps, Validated(s), Marked(s) \/ Active(s)
  PROVE  Validated(s)'
<1> USE States DEF IInv, Goto, Stay, Return, At, Aim
<1>1. CASE SaveWrite
  <2>1. snap # s
    BY <1>1 DEF SaveWrite, Files, Validated
  <2> QED
    BY <1>1, <2>1, OnePart DEF SaveWrite, Write, Create, Fill, Validated, TypeOK
<1>2. CASE ReleaseWrite \/ MarkWrite \/ Forget
  <2>1. PICK p \in {"lkg", "released"}, v \in FileState : file' = [file EXCEPT ![snap][p] = v]
    BY <1>2 DEF ReleaseWrite, MarkWrite, Forget, Write, Create, Fill
  <2>2. snap \in Snaps
    BY <1>2 DEF ReleaseWrite, MarkWrite, Forget, TypeOK
  <2>3. file'[s]["meta"] = file[s]["meta"] /\ file'[s]["db"] = file[s]["db"]
    BY <2>1, <2>2, OnePart
  <2> QED
    BY <2>3 DEF Validated
<1>3. CASE Drop
  BY <1>3, OnePart DEF Drop, Files, Validated, TypeOK
<1>4. ASSUME NEW t \in Snaps, Unpublish(t) PROVE Validated(s)'
  <2>1. t # s
    BY <1>4 DEF Unpublish, Expendable
  <2> QED
    BY <1>4, <2>1, OnePart DEF Unpublish, Validated
<1> QED
  BY <1>1, <1>2, <1>3, <1>4 DEF Writing, Decay

(***************************************************************************)
(* A restore point is not taken away by any step of save, release or prune.*)
(***************************************************************************)
THEOREM RestorePointsStay == Spec => RestorePointsKept
<1>1. ASSUME IInv, [Next]_vars, NEW s \in Snaps, pc # "idle", Marked(s) \/ Active(s)
      PROVE  Validated(s)'
  <2>1. Validated(s)
    BY <1>1 DEF Marked, Active
  <2>2. CASE Writing
    BY <1>1, <2>1, <2>2, ValidKept
  <2>3. CASE ~Writing
    BY <1>1, <2>1, <2>3, QuietFiles DEF Validated
  <2> QED
    BY <2>2, <2>3
<1>2. IInv /\ [Next]_vars =>
        [\A s \in Snaps : pc # "idle" /\ (Marked(s) \/ Active(s)) => Validated(s)']_vars
  BY <1>1
<1> QED
  BY <1>2, Invariance, PTL DEF Spec, RestorePointsKept

(***************************************************************************)
(* A published snapshot whose database is damaged is left as it is.        *)
(***************************************************************************)
THEOREM DamagedStays == Spec => DamagedKept
<1>1. ASSUME IInv, Writing, NEW s \in Snaps, file[s]["meta"] = "full", file[s]["db"] = "torn"
      PROVE  file'[s] = file[s]
  <2> USE DEF IInv, Goto, Stay, Return, At, Aim
  <2>1. CASE SaveWrite \/ ReleaseWrite \/ MarkWrite \/ Drop \/ Forget
    <3>1. snap # s /\ snap \in Snaps
      BY <1>1, <2>1 DEF SaveWrite, ReleaseWrite, MarkWrite, Drop, Forget, Write, Create, Fill, Files, Validated, TypeOK
    <3>2. PICK p \in Parts, v \in FileState : file' = [file EXCEPT ![snap][p] = v]
      BY <2>1, States DEF SaveWrite, ReleaseWrite, MarkWrite, Drop, Forget, Write, Create, Fill
    <3> QED
      BY <1>1, <3>1, <3>2, OnePart
  <2>2. ASSUME NEW t \in Snaps, Unpublish(t) PROVE file'[s] = file[s]
    <3>1. t # s
      BY <1>1, <2>2 DEF Unpublish, Expendable, Validated
    <3> QED
      BY <1>1, <2>2, <3>1, OnePart, States DEF Unpublish
  <2>3. ASSUME NEW t \in Snaps, Decay(t) PROVE file'[s] = file[s]
    BY <1>1, <2>3, OnePart, States DEF Decay
  <2> QED
    BY <1>1, <2>1, <2>2, <2>3 DEF Writing
<1>2. IInv /\ [Next]_vars =>
        [\A s \in Snaps : file[s]["meta"] = "full" /\ file[s]["db"] = "torn" => file'[s] = file[s]]_vars
  BY <1>1, QuietFiles
<1> QED
  BY <1>2, Invariance, PTL DEF Spec, DamagedKept

-----------------------------------------------------------------------------
(* The numbers.  Two snapshots with readable metadata have two numbers,    *)
(* and so has the one that is being saved.  Between the inspection that    *)
(* chooses its number and the one that checks it, the number may be wrong, *)
(* if the first of them missed an entry; then the second misses none.      *)
Distinguished(s) ==
  \A t \in Snaps : t # s /\ file[t]["meta"] = "full" => sequence[t] # sequence[s]

NumberInv ==
  unread <= 1 =>
    /\ \A s \in Snaps : file[s]["meta"] = "full" => Distinguished(s)
    /\ pc = "check" => file[snap]["meta"] = "none" /\ (unread = 0 => Distinguished(snap))
    /\ pc \in {"db", "meta"} => Distinguished(snap)

\* A number chosen when every entry was read is none of theirs.
LEMMA NextIsNew ==
  ASSUME TypeOK, NEW n \in NextNumber({}), NEW t \in Snaps, file[t]["meta"] = "full"
  PROVE  sequence[t] # n
<1>1. t \in Entries /\ Number(t, {}) = sequence[t]
  BY DEF Entries, Number
<1>2. sequence[t] \in Nat /\ Number(t, {}) < n
  BY <1>1 DEF NextNumber, TypeOK
<1> QED
  BY <1>1, <1>2

LEMMA NumberStep == ASSUME IInv, NumberInv, [Next]_vars PROVE NumberInv'
<1> USE DEF storeVars, deviceVars, vars, Goto, Stay, Return, At, Aim
<1> SUFFICES ASSUME unread' <= 1 PROVE NumberInv'
  BY DEF NumberInv
<1>1. unread \in Nat /\ TypeOK
  BY DEF IInv, TypeOK
<1>2. \A H : Inspect(H) => (H = {} /\ unread' = unread) \/ (unread = 0 /\ unread' = 1)
  BY <1>1 DEF Inspect
<1>3. ASSUME NEW H, SaveBegin(H) PROVE NumberInv'
  <2>1. snap \in Snaps /\ file[snap]["meta"] = "none" /\ file' = file /\ pc' = "check" /\ snap' = snap
    BY <1>1, <1>3 DEF SaveBegin, Entries, TypeOK
  <2>2. PICK n \in NextNumber(H) : sequence' = [sequence EXCEPT ![snap] = n]
    BY <1>3 DEF SaveBegin
  <2>3. n \in Nat
    BY <1>1, <2>2, NextNumberType
  <2>4. sequence'[snap] = n /\ \A t \in Snaps : t # snap => sequence'[t] = sequence[t]
    BY <1>1, <2>1, <2>2, <2>3 DEF TypeOK
  <2>5. \A s \in Snaps : file'[s]["meta"] = "full" => Distinguished(s)'
    <3> SUFFICES ASSUME NEW s \in Snaps, NEW t \in Snaps, s # t,
                        file[s]["meta"] = "full", file[t]["meta"] = "full"
                 PROVE  sequence'[t] # sequence'[s]
      BY <2>1 DEF Distinguished
    <3>1. s # snap /\ t # snap
      BY <2>1
    <3>2. unread <= 1
      BY <1>1, <1>2, <1>3 DEF SaveBegin
    <3> QED
      BY <2>4, <3>1, <3>2 DEF NumberInv, Distinguished
  <2>6. unread' = 0 => Distinguished(snap)'
    <3> SUFFICES ASSUME unread' = 0, NEW t \in Snaps, t # snap, file[t]["meta"] = "full"
                 PROVE  sequence'[t] # sequence'[snap]
      BY <2>1 DEF Distinguished
    <3>1. H = {}
      BY <1>2, <1>3 DEF SaveBegin
    <3>2. sequence[t] # n
      BY <1>1, <2>2, <3>1, NextIsNew
    <3> QED
      BY <2>4, <3>2
  <2> QED
    BY <2>1, <2>5, <2>6 DEF NumberInv
<1>4. ASSUME NEW H, SaveCheck(H) PROVE NumberInv'
  <2>1. /\ UNCHANGED <<file, sequence, snap>> /\ snap \in Snaps
        /\ pc = "check" /\ pc' = "db" /\ unread <= 1
    BY <1>1, <1>2, <1>4 DEF SaveCheck, TypeOK
  <2>2. Distinguished(snap)
    <3>1. CASE unread = 0
      BY <2>1, <3>1 DEF NumberInv
    <3>2. CASE unread # 0
      <4>1. H = {}
        BY <1>2, <1>4, <3>2 DEF SaveCheck
      <4>2. \A t \in Entries : Number(t, {}) # sequence[snap]
        BY <1>4, <4>1 DEF SaveCheck, Taken
      <4> QED
        BY <4>2 DEF Distinguished, Entries, Number
    <3> QED
      BY <3>1, <3>2
  <2> QED
    BY <2>1, <2>2 DEF NumberInv, Distinguished
<1>5. CASE SaveWrite
  <2>1. /\ UNCHANGED <<sequence, snap, unread>> /\ snap \in Snaps /\ Distinguished(snap)
        /\ pc \in {"db", "meta"} /\ pc' # "check"
    BY <1>1, <1>5 DEF SaveWrite, TypeOK, NumberInv, Write, Create, Fill, Saved
  <2>2. \A t \in Snaps : t # snap => file'[t]["meta"] = file[t]["meta"]
    BY <1>1, <1>5, <2>1, OnePart, States DEF SaveWrite, Write, Create, Fill
  <2>3. \A s \in Snaps : file'[s]["meta"] = "full" => Distinguished(s)'
    <3> SUFFICES ASSUME NEW s \in Snaps, NEW t \in Snaps, s # t,
                        file'[s]["meta"] = "full", file'[t]["meta"] = "full"
                 PROVE  sequence[t] # sequence[s]
      BY <2>1 DEF Distinguished
    <3>1. CASE s = snap
      BY <2>1, <2>2, <3>1 DEF Distinguished
    <3>2. CASE t = snap
      BY <2>1, <2>2, <3>2 DEF Distinguished
    <3>3. CASE s # snap /\ t # snap
      BY <2>1, <2>2, <3>3 DEF NumberInv, Distinguished
    <3> QED
      BY <3>1, <3>2, <3>3
  <2>4. Distinguished(snap)'
    BY <2>1, <2>2 DEF Distinguished
  <2> QED
    BY <2>1, <2>3, <2>4 DEF NumberInv
<1>6. ASSUME ~SaveWrite, \A H : ~SaveBegin(H) /\ ~SaveCheck(H) PROVE NumberInv'
  <2>1. (UNCHANGED sequence /\ pc' \notin {"check", "db", "meta"}) \/ UNCHANGED vars
    BY <1>6 DEF Next, Step, Caller, World, Inspecting, Pruning, Execute, Recover, SaveAgain, Saved,
       Record, Install, Decide, Finish, Release, ReleaseWrite, Prune, Unpublish, Drop, Forget,
       Pruned, Finalize, MarkLastKnownGood, MarkWrite, Reject, Blocked, Fault, Decay,
       Write, Create, Fill
  <2>2. \A s \in Snaps : file'[s]["meta"] = "full" => file[s]["meta"] = "full"
    <3>1. ASSUME ~Writing PROVE file' = file
      BY <3>1, QuietFiles
    <3>2. CASE ReleaseWrite \/ MarkWrite \/ Drop \/ Forget
      <4>1. PICK p \in Parts \ {"meta"}, v \in FileState : file' = [file EXCEPT ![snap][p] = v]
        BY <3>2, States DEF ReleaseWrite, MarkWrite, Drop, Forget, Write, Create, Fill
      <4>2. snap \in Snaps
        BY <1>1, <3>2 DEF ReleaseWrite, MarkWrite, Drop, Forget, TypeOK
      <4> QED
        BY <1>1, <4>1, <4>2, OnePart, States
    <3>3. ASSUME NEW t \in Snaps, Unpublish(t)
          PROVE  \A s \in Snaps : file'[s]["meta"] = "full" => file[s]["meta"] = "full"
      BY <1>1, <3>3, OnePart, States DEF Unpublish
    <3>4. ASSUME NEW t \in Snaps, Decay(t)
          PROVE  \A s \in Snaps : file'[s]["meta"] = "full" => file[s]["meta"] = "full"
      BY <1>1, <3>4, OnePart, States DEF Decay
    <3> QED
      BY <1>6, <3>1, <3>2, <3>3, <3>4 DEF Writing
  <2>3. unread <= 1
    BY <1>1, <1>2, <1>6 DEF Next, Step, Caller, World, Inspecting, Pruning, Execute, Recover,
       SaveAgain, Record, Install, Decide, Finish, Release, ReleaseWrite, Prune, Unpublish, Drop,
       Forget, Pruned, Finalize, MarkLastKnownGood, MarkWrite, Reject, Blocked, Fault, Decay
  <2>4. CASE UNCHANGED vars
    BY <2>4 DEF NumberInv, Distinguished
  <2>5. CASE UNCHANGED sequence /\ pc' \notin {"check", "db", "meta"}
    <3>1. \A s \in Snaps : file'[s]["meta"] = "full" => Distinguished(s)'
      BY <2>2, <2>3, <2>5 DEF NumberInv, Distinguished
    <3> QED
      BY <2>5, <3>1 DEF NumberInv
  <2> QED
    BY <2>1, <2>4, <2>5
<1> QED
  BY <1>3, <1>4, <1>5, <1>6

(***************************************************************************)
(* As long as at most one inspection has missed entries, whatever number   *)
(* of them, no two valid snapshots get one number: the number is chosen    *)
(* and checked in two inspections, and one of them sees all there is.      *)
(***************************************************************************)
THEOREM NumbersStayDistinct == Spec => [](unread <= 1 => NumbersDistinct)
<1>1. Init => NumberInv
  BY DEF Init, NumberInv, Distinguished, Parts, Snaps
<1>2. IInv /\ NumberInv /\ [Next]_vars => NumberInv'
  BY NumberStep
<1>3. NumberInv => (unread <= 1 => NumbersDistinct)
  BY DEF NumberInv, Distinguished, NumbersDistinct, Readable, Seen, Validated
<1> QED
  BY <1>1, <1>2, <1>3, Invariance, PTL DEF Spec

-----------------------------------------------------------------------------
(* Retention.  Prune goes through its list from the newest, so what it     *)
(* counted as newer than the first stays, and is newer than all the rest.  *)
Above == {t \in Snaps : Validated(t) /\ \A d \in doomed : sequence[t] > sequence[d]}

RetentionInv ==
  pc \in {"unpublish", "drop", "forget"} /\ doomed # {} =>
    Cardinality(Above) >= Keep /\ \E t \in Snaps : Marked(t)

LEMMA SnapsFinite == IsFiniteSet(Snaps)
<1>1. IsFiniteSet({} \cup {"before"})
  BY FS_EmptySet, FS_AddElement
<1>2. IsFiniteSet(({} \cup {"before"}) \cup {"after"})
  BY <1>1, FS_AddElement
<1>3. ({} \cup {"before"}) \cup {"after"} = {"before", "after"}
  OBVIOUS
<1>4. IsFiniteSet({"before", "after"})
  BY <1>2, <1>3
<1> QED
  BY <1>4, FiniteOps, FS_Product DEF Snaps

\* A larger set of snapshots counts more.
LEMMA Counted ==
  ASSUME NEW S \in SUBSET Snaps, NEW T \in SUBSET S
  PROVE  /\ Cardinality(S) \in Nat /\ Cardinality(T) \in Nat
         /\ Cardinality(T) <= Cardinality(S)
         /\ Cardinality(S) = Cardinality(T) => S = T
<1>1. IsFiniteSet(S)
  BY SnapsFinite, FS_Subset
<1>2. IsFiniteSet(T)
  BY <1>1, FS_Subset
<1> QED
  BY <1>1, <1>2, FS_Subset, FS_CardinalityType

\* Some snapshot of a set has the highest number: the one with the fewest above.
LEMMA Highest ==
  ASSUME NEW S \in SUBSET Snaps, S # {}, NEW number \in [Snaps -> Nat]
  PROVE  \E m \in S : \A s \in S : number[s] <= number[m]
<1> DEFINE higher(s) == {t \in S : number[t] > number[s]}
           count(s) == Cardinality(higher(s))
           R == OpToRel(<, Nat)
           T == {count(s) : s \in S}
<1>1. \A s \in S : higher(s) \in SUBSET S /\ higher(s) \in SUBSET Snaps
  OBVIOUS
<1>2. \A s \in S : count(s) \in Nat
  BY <1>1, Counted
<1>3. \A x, y \in Nat : x < y => <<x, y>> \in R
  BY DEF OpToRel
<1>4. IsWellFoundedOn(R, Nat)
  BY NatLessThanWellFounded
<1> HIDE DEF R, count
<1>5. PICK n \in T : \A y \in T : ~(<<y, n>> \in R)
  <2>1. T \in SUBSET Nat /\ T # {}
    BY <1>2
  <2> HIDE DEF T
  <2> QED
    BY <1>4, <2>1, WFMin
<1>6. PICK m \in S : n = count(m)
  BY <1>5
<1>7. ASSUME NEW s \in S, ~(number[s] <= number[m]) PROVE FALSE
  <2>1. number[s] \in Nat /\ number[m] \in Nat /\ \A t \in S : number[t] \in Nat
    OBVIOUS
  <2>2. number[s] > number[m]
    BY <1>7, <2>1
  <2>3. higher(s) \subseteq higher(m) /\ s \in higher(m) /\ s \notin higher(s)
    BY <2>1, <2>2
  <2>4. count(s) <= count(m) /\ count(s) # count(m)
    <3> DEFINE A == higher(m)
               B == higher(s)
    <3>1. A \in SUBSET Snaps /\ B \in SUBSET A /\ A # B
      BY <1>1, <2>3
    <3> HIDE DEF A, B
    <3>2. Cardinality(B) <= Cardinality(A) /\ Cardinality(A) # Cardinality(B)
      BY <3>1, Counted
    <3> QED
      BY <3>2 DEF A, B, count
  <2>5. count(s) < count(m)
    BY <1>2, <2>4
  <2> QED
    BY <1>2, <1>3, <1>5, <1>6, <2>5
<1> QED
  BY <1>7

\* What a step does to the valid snapshots while prune works.
LEMMA UnpublishKeeps ==
  ASSUME IInv, RetentionInv, NEW s \in Snaps, Unpublish(s)
  PROVE  /\ Cardinality(Above) >= Keep /\ \E t \in Snaps : Marked(t)'
         /\ \A t \in Above : Validated(t)' /\ sequence[t] > sequence[s]
         /\ \A t \in Snaps : t # s => Validated(t)' = Validated(t)
         /\ UNCHANGED sequence /\ doomed' = doomed \ {s}
<1>1. /\ pc = "unpublish" /\ s \in doomed /\ UNCHANGED sequence /\ doomed' = doomed \ {s}
      /\ file' = [file EXCEPT ![s]["meta"] = "none"]
  BY DEF Unpublish, At
<1>2. Cardinality(Above) >= Keep /\ \E t \in Snaps : Marked(t)
  BY <1>1 DEF RetentionInv
<1>3. ~Marked(s)
  BY <1>1 DEF IInv, Expendable
<1>4. \A t \in Snaps : t # s => file'[t] = file[t]
  BY <1>1, OnePart, States DEF IInv
<1>5. \A t \in Snaps : t # s => Validated(t)' = Validated(t) /\ Marked(t)' = Marked(t)
  BY <1>4 DEF Validated, Marked
<1>6. \E t \in Snaps : Marked(t)'
  BY <1>2, <1>3, <1>5
<1>7. \A t \in Above : sequence[t] > sequence[s] /\ t # s
  <2>1. \A t \in Above : sequence[t] > sequence[s] /\ t \in Snaps
    BY <1>1 DEF Above
  <2>2. sequence[s] \in Nat
    BY DEF IInv, TypeOK
  <2> QED
    BY <2>1, <2>2
<1>8. \A t \in Above : Validated(t)'
  <2>1. \A t \in Above : t \in Snaps /\ Validated(t)
    BY DEF Above
  <2> QED
    BY <1>5, <1>7, <2>1
<1> QED
  BY <1>1, <1>2, <1>5, <1>6, <1>7, <1>8

LEMMA RetentionStep == ASSUME IInv, RetentionInv, [Next]_vars PROVE RetentionInv'
<1> USE DEF storeVars, deviceVars, vars, Goto, Stay, Return, At, Aim
<1> SUFFICES ASSUME pc' \in {"unpublish", "drop", "forget"}, doomed' # {}
             PROVE  Cardinality(Above') >= Keep /\ \E t \in Snaps : Marked(t)'
  BY DEF RetentionInv
<1>1. TypeOK /\ Keep \in Nat
  BY SnapshotsAssumption DEF IInv
<1>2. ASSUME NEW H, Prune(H) PROVE Cardinality(Above') >= Keep /\ \E t \in Snaps : Marked(t)'
  <2>1. UNCHANGED <<file, sequence>> /\ doomed' = RetentionCandidates(H) /\ doomed' \in SUBSET Snaps
    BY <1>2 DEF Prune, RetentionCandidates, Unpinned, Seen
  <2>2. sequence \in [Snaps -> Nat]
    BY <1>1 DEF TypeOK
  <2>3. PICK m \in doomed' : \A d \in doomed' : sequence[d] <= sequence[m]
    BY <2>1, <2>2, Highest
  <2>4. Cardinality(Newer(m, H)) >= Keep /\ \E t \in Snaps : Marked(t)
    BY <2>1, <2>3 DEF RetentionCandidates, Seen
  <2>5. Newer(m, H) \subseteq Above'
    <3> SUFFICES ASSUME NEW t \in Newer(m, H) PROVE t \in Above'
      OBVIOUS
    <3>1. t \in Snaps /\ Validated(t) /\ sequence[t] > sequence[m]
      BY DEF Newer, Seen
    <3>2. \A d \in doomed' : sequence[t] > sequence[d]
      <4>1. sequence[t] \in Nat /\ \A d \in doomed' : sequence[d] \in Nat /\ sequence[m] \in Nat
        BY <2>1, <2>2, <2>3, <3>1
      <4> QED
        BY <2>3, <3>1, <4>1
    <3>3. Validated(t)' /\ sequence' = sequence
      BY <2>1, <3>1 DEF Validated
    <3> QED
      BY <3>1, <3>2, <3>3 DEF Above
  <2>6. Above' \in SUBSET Snaps
    BY DEF Above
  <2>7. /\ Cardinality(Above') \in Nat /\ Cardinality(Newer(m, H)) \in Nat
        /\ Cardinality(Newer(m, H)) <= Cardinality(Above')
    BY <2>5, <2>6, Counted
  <2>8. Cardinality(Above') >= Keep
    BY <1>1, <2>4, <2>7
  <2> QED
    BY <2>1, <2>4, <2>8 DEF Marked, Validated
<1>3. ASSUME NEW s \in Snaps, Unpublish(s)
      PROVE  Cardinality(Above') >= Keep /\ \E t \in Snaps : Marked(t)'
  <2>1. /\ Cardinality(Above) >= Keep /\ \E t \in Snaps : Marked(t)'
        /\ \A t \in Above : Validated(t)'
        /\ UNCHANGED sequence /\ doomed' = doomed \ {s}
    BY <1>3, UnpublishKeeps
  <2>2. Above \subseteq Above'
    BY <2>1 DEF Above
  <2>3. Above' \in SUBSET Snaps
    BY DEF Above
  <2>4. /\ Cardinality(Above') \in Nat /\ Cardinality(Above) \in Nat
        /\ Cardinality(Above) <= Cardinality(Above')
    BY <2>2, <2>3, Counted
  <2> QED
    BY <1>1, <2>1, <2>4
<1>4. CASE Drop \/ Forget
  <2>1. /\ UNCHANGED <<sequence, doomed>> /\ snap \in Snaps /\ file[snap]["meta"] = "none"
        /\ pc \in {"drop", "forget"}
    BY <1>1, <1>4 DEF Drop, Forget, IInv, Files, TypeOK
  <2>2. PICK p \in Parts \ {"meta"} : file' = [file EXCEPT ![snap][p] = "none"]
    BY <1>4, States DEF Drop, Forget
  <2>3. \A t \in Snaps : file'[t]["meta"] = file[t]["meta"]
    BY <1>1, <2>1, <2>2, OnePart, States
  <2>4. \A t \in Snaps : t # snap => file'[t] = file[t]
    BY <1>1, <2>1, <2>2, OnePart, States
  <2>5. \A t \in Snaps : Validated(t)' = Validated(t) /\ Marked(t)' = Marked(t)
    BY <2>1, <2>3, <2>4 DEF Validated, Marked
  <2>6. Above' = Above
    BY <2>1, <2>5 DEF Above
  <2> QED
    BY <2>1, <2>5, <2>6 DEF RetentionInv
<1>5. CASE UNCHANGED vars
  BY <1>5 DEF RetentionInv, Above, Validated, Marked
<1>6. Drop \/ Forget \/ (UNCHANGED vars) \/ (\E H : Prune(H)) \/ (\E s \in Snaps : Unpublish(s))
  BY DEF Next, Step, Caller, World, Inspecting, Pruning, Execute, Recover, SaveAgain, SaveBegin,
     SaveCheck, SaveWrite, Saved, Record, Install, Decide, Finish, Release, ReleaseWrite, Pruned,
     Finalize, MarkLastKnownGood, MarkWrite, Reject, Blocked, Fault, Decay, Write, Create, Fill
<1> QED
  BY <1>2, <1>3, <1>4, <1>5, <1>6

\* Only prune takes away a valid snapshot while a call runs.
LEMMA OnlyUnpublished ==
  ASSUME IInv, [Next]_vars, pc # "idle", NEW s \in Snaps, Validated(s), ~Validated(s)'
  PROVE  Unpublish(s)
<1> USE States DEF Goto, Stay, Return, At, Aim
<1>1. TypeOK
  BY DEF IInv
<1>2. Writing
  BY QuietFiles DEF Validated
<1>3. ASSUME SaveWrite \/ ReleaseWrite \/ MarkWrite \/ Drop \/ Forget PROVE FALSE
  <2>1. snap \in Snaps
    BY <1>1, <1>3 DEF SaveWrite, ReleaseWrite, MarkWrite, Drop, Forget, TypeOK
  <2>2. SaveWrite \/ Drop => snap # s
    BY DEF SaveWrite, Drop, IInv, Files, Validated
  <2>3. PICK p \in Parts, v \in FileState :
          file' = [file EXCEPT ![snap][p] = v] /\ (p \in {"meta", "db"} => SaveWrite \/ Drop)
    BY <1>3 DEF SaveWrite, ReleaseWrite, MarkWrite, Drop, Forget, Write, Create, Fill
  <2>4. file'[s]["meta"] = file[s]["meta"] /\ file'[s]["db"] = file[s]["db"]
    BY <1>1, <2>1, <2>2, <2>3, OnePart
  <2> QED
    BY <2>4 DEF Validated
<1>4. ASSUME NEW t \in Snaps, Unpublish(t), t # s PROVE FALSE
  <2>1. file'[s] = file[s]
    BY <1>1, <1>4, OnePart DEF Unpublish
  <2> QED
    BY <2>1 DEF Validated
<1> QED
  BY <1>2, <1>3, <1>4 DEF Writing, Decay

(***************************************************************************)
(* Whatever the retention: each time prune takes a valid snapshot away, as *)
(* many valid ones as are to be kept, all newer, are there and stay, and   *)
(* one is marked last known good.                                          *)
(***************************************************************************)
THEOREM NewestStay == Spec => NewestKept
<1>1. Init => RetentionInv
  BY DEF Init, RetentionInv
<1>2. IInv /\ RetentionInv /\ [Next]_vars => RetentionInv'
  BY RetentionStep
<1>3. ASSUME IInv, RetentionInv, [Next]_vars, NEW s \in Snaps, pc # "idle",
             Validated(s), ~Validated(s)'
      PROVE  /\ Cardinality({t \in Snaps : Validated(t)' /\ sequence'[t] > sequence[s]}) >= Keep
             /\ \E t \in Snaps : Marked(t)'
  <2> DEFINE kept == {t \in Snaps : Validated(t)' /\ sequence'[t] > sequence[s]}
  <2>1. /\ Cardinality(Above) >= Keep /\ \E t \in Snaps : Marked(t)'
        /\ \A t \in Above : Validated(t)' /\ sequence[t] > sequence[s]
        /\ UNCHANGED sequence
    BY <1>3, OnlyUnpublished, UnpublishKeeps
  <2>2. Above \subseteq kept /\ kept \in SUBSET Snaps
    BY <2>1 DEF Above
  <2> HIDE DEF kept
  <2>3. /\ Cardinality(kept) \in Nat /\ Cardinality(Above) \in Nat
        /\ Cardinality(Above) <= Cardinality(kept)
    BY <2>2, Counted
  <2>4. Cardinality(kept) >= Keep
    BY <2>1, <2>3, SnapshotsAssumption
  <2> QED
    BY <2>1, <2>4 DEF kept
<1>4. IInv /\ RetentionInv /\ [Next]_vars =>
        [\A s \in Snaps : pc # "idle" /\ Validated(s) /\ ~Validated(s)' =>
           /\ Cardinality({t \in Snaps : Validated(t)' /\ sequence'[t] > sequence[s]}) >= Keep
           /\ \E t \in Snaps : Marked(t)']_vars
  BY <1>3
<1> QED
  BY <1>1, <1>2, <1>4, Invariance, PTL DEF Spec, NewestKept

-----------------------------------------------------------------------------
(* Progress.  A running call goes down a ladder; the snapshot it saves     *)
(* says which of the two ways through save it is on, and prune goes three  *)
(* rungs round for each entry it takes off its list.                       *)
Early == snap[2] = "before"
Level ==
  IF pc = "save" THEN IF Early THEN 18 ELSE 9
  ELSE IF pc = "check" THEN IF Early THEN 17 ELSE 8
  ELSE IF pc = "db" THEN IF Early THEN 16 ELSE 7
  ELSE IF pc = "meta" THEN IF Early THEN 15 ELSE 6
  ELSE IF pc = "manifest" THEN 14
  ELSE IF pc = "journal" THEN 13
  ELSE IF pc = "commit" THEN 12
  ELSE IF pc = "decide" THEN 11
  ELSE IF pc = "finish" THEN 10
  ELSE IF pc = "release" THEN 5
  ELSE IF pc = "released" THEN 4
  ELSE IF pc = "prune" THEN 3
  ELSE IF pc \in {"unpublish", "drop", "forget"} THEN 2
  ELSE IF pc \in {"finalize", "lkg"} THEN 1 ELSE 0

Round == 3 * Cardinality(doomed) + (IF pc = "drop" THEN 2 ELSE IF pc = "forget" THEN 1 ELSE 0)
Unwritten == IF opened THEN 0 ELSE 1
Width == 3 * Cardinality(Snaps) + 3

Rank == 2 * (Level * Width + Round) + Unwritten

\* Fewer rungs count more than any round, a smaller round more than a write.
LEMMA RankOrder ==
  ASSUME NEW w \in Nat, NEW a \in Nat, NEW b \in Nat, NEW c \in Nat, NEW d \in Nat,
         NEW s \in 0 .. 1, NEW t \in 0 .. 1, d < w,
         b < a \/ (b = a /\ (d < c \/ (d = c /\ t < s)))
  PROVE  2 * (b * w + d) + t < 2 * (a * w + c) + s
<1>1. CASE b < a
  <2>1. PICK k \in Nat : a = b + 1 + k
    <3>1. a - b - 1 \in Nat /\ a = b + 1 + (a - b - 1)
      BY <1>1
    <3> QED
      BY <3>1
  <2>2. a * w = b * w + w + k * w /\ k * w \in Nat /\ b * w \in Nat /\ a * w \in Nat
    BY <2>1
  <2> HIDE <2>1
  <2> DEFINE aw == a * w
             bw == b * w
             kw == k * w
  <2>3. aw = bw + w + kw /\ kw \in Nat /\ bw \in Nat /\ aw \in Nat
    BY <2>2
  <2> HIDE DEF aw, bw, kw
  <2>4. 2 * (bw + d) + t < 2 * (aw + c) + s
    BY <2>3
  <2> QED
    BY <2>4 DEF aw, bw
<1>2. CASE b = a
  <2> DEFINE aw == a * w
  <2>1. aw \in Nat
    OBVIOUS
  <2> HIDE DEF aw
  <2>2. d < c \/ (d = c /\ t < s)
    BY <1>2
  <2>3. 2 * (aw + d) + t < 2 * (aw + c) + s
    BY <2>1, <2>2
  <2> QED
    BY <1>2, <2>3 DEF aw
<1> QED
  BY <1>1, <1>2

LEMMA RankFacts ==
  ASSUME TypeOK
  PROVE  /\ Level \in 0 .. 18 /\ Round \in Nat /\ Round < Width /\ Width \in Nat /\ Unwritten \in 0 .. 1
         /\ IsFiniteSet(doomed) /\ Cardinality(doomed) \in Nat
         /\ pc # "idle" => Level > 0
<1>1. /\ Cardinality(doomed) \in Nat /\ Cardinality(Snaps) \in Nat
      /\ Cardinality(doomed) <= Cardinality(Snaps)
  BY Counted DEF TypeOK
<1>2. IsFiniteSet(doomed)
  BY SnapsFinite, FS_Subset DEF TypeOK
<1>3. Level \in 0 .. 18 /\ (pc # "idle" => Level > 0)
  BY DEF TypeOK, Locations, Level
<1> QED
  BY <1>1, <1>2, <1>3 DEF Round, Width, Unwritten

LEMMA Descends ==
  ASSUME TypeOK, TypeOK',
         Level' < Level \/ (Level' = Level /\ (Round' < Round \/ (Round' = Round /\ Unwritten' < Unwritten)))
  PROVE  Rank' < Rank
<1>1. Level \in Nat /\ Round \in Nat /\ Width \in Nat /\ Unwritten \in 0 .. 1
  BY RankFacts
<1>2. (Level \in 0 .. 18 /\ Round \in Nat /\ Round < Width /\ Unwritten \in 0 .. 1)'
  BY RankFacts, PTL
<1>3. Level' \in Nat /\ Round' \in Nat /\ Round' < Width /\ Unwritten' \in 0 .. 1
  BY <1>2 DEF Width
<1> HIDE DEF Level, Round, Unwritten, Width
<1>4. 2 * (Level' * Width + Round') + Unwritten' < 2 * (Level * Width + Round) + Unwritten
  BY <1>1, <1>3, RankOrder
<1> QED
  BY <1>4 DEF Rank, Width

LEMMA StepDescends ==
  ASSUME TypeOK, TypeOK', pc # "idle", Step
  PROVE  Rank' < Rank
<1> USE DEF storeVars, deviceVars, Goto, Stay, At, Aim
<1>a. ASSUME Level' < Level PROVE Rank' < Rank
  BY <1>a, Descends
<1>b. ASSUME UNCHANGED <<pc, snap, doomed>>, ~opened, opened' = TRUE PROVE Rank' < Rank
  <2>1. Level' = Level /\ Round' = Round
    BY <1>b DEF Level, Round, Early
  <2>2. Unwritten' < Unwritten
    BY <1>b DEF Unwritten
  <2> QED
    BY <2>1, <2>2, Descends
<1>c. ASSUME Return PROVE Rank' < Rank
  <2>1. Level' = 0
    BY <1>c DEF Return, Level
  <2> QED
    BY <2>1, <1>a, RankFacts
<1>1. ASSUME NEW H \in SUBSET Entries, Inspecting(H) PROVE Rank' < Rank
  <2>1. CASE SaveAgain(H)
    BY <2>1, <1>a DEF SaveAgain, Saved, Level, Early
  <2>2. CASE SaveBegin(H)
    BY <2>2, <1>a DEF SaveBegin, Level, Early
  <2>3. CASE SaveCheck(H)
    BY <2>3, <1>a DEF SaveCheck, Level, Early
  <2>4. CASE Release(H)
    BY <2>4, <1>a DEF Release, Level
  <2>5. CASE Prune(H)
    BY <2>5, <1>a DEF Prune, Level
  <2>6. CASE Reject(H)
    BY <2>6, <1>c DEF Reject
  <2> QED
    BY <1>1, <2>1, <2>2, <2>3, <2>4, <2>5, <2>6 DEF Inspecting
<1>2. CASE SaveWrite \/ ReleaseWrite
  <2>1. CASE opened' = TRUE
    BY <1>2, <2>1, <1>b DEF SaveWrite, ReleaseWrite, Write, Create, Fill
  <2>2. CASE opened' # TRUE
    <3>1. /\ \/ pc = "db" /\ pc' = "meta"
             \/ pc = "meta" /\ pc' = Saved
             \/ pc = "released" /\ pc' = "prune"
          /\ UNCHANGED snap
      BY <1>2, <2>2 DEF SaveWrite, ReleaseWrite, Write, Create, Fill
    <3>2. Level' < Level
      BY <3>1 DEF Saved, Level, Early
    <3> QED
      BY <3>2, <1>a
  <2> QED
    BY <2>1, <2>2
<1>3. CASE Record \/ Install \/ Decide
  BY <1>3, <1>a DEF Record, Install, Decide, Level
<1>4. CASE Finish
  <2>1. CASE finalized[op] = "full"
    BY <1>4, <2>1, <1>c DEF Finish
  <2>2. CASE finalized[op] # "full"
    BY <1>4, <2>2, <1>a DEF Finish, Level, Early
  <2> QED
    BY <2>1, <2>2
<1>5. CASE Pruning
  <2>1. ASSUME NEW s \in Snaps, Unpublish(s) PROVE Rank' < Rank
    <3>1. Cardinality(doomed') = Cardinality(doomed) - 1
      BY <2>1, RankFacts, FS_RemoveElement DEF Unpublish
    <3>2. Level' = Level
      BY <2>1 DEF Unpublish, Level
    <3>3. Round' < Round
      BY <2>1, <3>1, RankFacts DEF Unpublish, Round
    <3> QED
      BY <3>2, <3>3, Descends
  <2>2. CASE Drop \/ Forget
    <3>1. Level' = Level
      BY <2>2 DEF Drop, Forget, Level
    <3>2. Round' < Round
      BY <2>2, RankFacts DEF Drop, Forget, Round
    <3> QED
      BY <3>1, <3>2, Descends
  <2>3. CASE Pruned
    BY <2>3, <1>a DEF Pruned, Level
  <2> QED
    BY <1>5, <2>1, <2>2, <2>3 DEF Pruning
<1>6. CASE Finalize \/ MarkWrite
  BY <1>6, <1>b, <1>c DEF Finalize, MarkWrite, Create
<1>7. CASE Blocked
  BY <1>7, <1>c DEF Blocked
<1> QED
  BY <1>1, <1>2, <1>3, <1>4, <1>5, <1>6, <1>7 DEF Step

(***************************************************************************)
(* Every call of the store takes at most MaxRank steps: saving, releasing, *)
(* pruning however long a list and finalizing come to an end, and neither  *)
(* a caller nor a fault gives a call back a step.                          *)
(***************************************************************************)
MaxRank == 38 * Width

THEOREM StoreCallsAreBounded ==
  /\ Spec => [](Rank \in 0 .. MaxRank)
  /\ Spec => [][pc # "idle" => Rank' < Rank]_vars
<1>1. TypeOK => Rank \in 0 .. MaxRank
  <2> SUFFICES ASSUME TypeOK PROVE Rank \in 0 .. MaxRank
    OBVIOUS
  <2>1. /\ Level \in 0 .. 18 /\ Round \in Nat /\ Round < Width /\ Width \in Nat /\ Unwritten \in 0 .. 1
    BY RankFacts
  <2> HIDE DEF Level, Round, Width, Unwritten
  <2> DEFINE lw == Level * Width
  <2>2. lw \in Nat /\ lw <= 18 * Width
    BY <2>1
  <2> HIDE DEF lw
  <2>3. 2 * (lw + Round) + Unwritten \in 0 .. 38 * Width
    BY <2>1, <2>2
  <2> QED
    BY <2>3 DEF Rank, MaxRank, lw
<1>2. TypeOK /\ TypeOK' /\ [Next]_vars => [pc # "idle" => Rank' < Rank]_vars
  <2> SUFFICES ASSUME TypeOK, TypeOK', Next, pc # "idle" PROVE Rank' < Rank
    OBVIOUS
  <2>1. CASE Step
    BY <2>1, StepDescends
  <2>2. ~Caller /\ ~(\E s \in Snaps : Decay(s))
    BY DEF Caller, Execute, Recover, MarkLastKnownGood, Decay, At
  <2>3. CASE Fault
    <3>1. Level' = 0
      BY <2>3 DEF Fault, Return, Goto, Level
    <3> QED
      BY <3>1, RankFacts, Descends
  <2> QED
    BY <2>1, <2>2, <2>3 DEF Next, World
<1> QED
  BY <1>1, <1>2, StoreTypes, PTL DEF Spec

=============================================================================
