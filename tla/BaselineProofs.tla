--------------------------- MODULE BaselineProofs ---------------------------
(***************************************************************************)
(* A proof is about one instant: Spec => []ProofHeldAtOnce, and the two    *)
(* other promises of a comparison, for any trees, any number of changes    *)
(* and any unplugging.                                                     *)
(*                                                                         *)
(* The instant is the end of the first pass.  A block read before it with  *)
(* the recorded content and read again after it with the same content had  *)
(* that content at the instant, since a content left behind does not come  *)
(* back (Steady).  That the reading covers everything follows from the     *)
(* enumerations: a file that stays is in a directory not yet listed or in  *)
(* the list (Covered).                                                     *)
(***************************************************************************)
EXTENDS Baseline, FiniteSetTheorems, TLAPS

Middle == {"middle_source", "middle_backup"}
Last == {"last_source", "last_backup", "conclude", "accepted"}
AfterPass == Middle \cup {"recheck"} \cup Last

\* The mount the caller expects is the one there, or was there before.
Mounts ==
  /\ stage # "idle" => expected <= gen
  /\ stage \in AfterPass => expected <= midGen /\ midGen <= gen
  /\ stage = "accepted" => midGen = expected

\* Every content seen since the call began is remembered.
Tracked ==
  stage # "idle" =>
    \A s \in Sides, b \in Blocks :
      s = "backup" \/ gen = expected => tree[s][b] \in held[s][b] \cup {Absent}

\* A recorded content was read on the sides read so far.
Taken ==
  /\ stage = "pass" => \A b \in OnRecord :
       /\ reads[b] >= 1 => entry[b] \in held["source"][b]
       /\ reads[b] >= 2 => entry[b] \in held["backup"][b]
  /\ stage \in AfterPass => \A b \in OnRecord, s \in Sides : entry[b] \in held[s][b]

\* Behind the first pass, what still is as recorded was so at its end.
Steady ==
  stage \in AfterPass => \A b \in OnRecord, s \in Sides :
    (s = "backup" \/ gen = expected) /\ tree[s][b] = entry[b] => mid[s][b] = entry[b]

Rechecked ==
  /\ stage = "recheck" => \A b \in OnRecord :
       /\ reads[b] >= 1 => mid["source"][b] = entry[b]
       /\ reads[b] >= 2 => mid["backup"][b] = entry[b]
  /\ stage \in Last /\ kind = "proof" => \A b \in OnRecord :
       mid["source"][b] = entry[b] /\ mid["backup"][b] = entry[b]

\* Directories not listed yet, and files that stayed.
Covered ==
  /\ stage \in {"pass", "recheck"} => unlisted = Dirs
  /\ \A s \in Sides, f \in Files : <<s, f>> \in stayed => f \in Present(s)
  /\ \A s \in Sides, f \in Files : <<s, f>> \in stayed =>
       /\ stage \in DOMAIN ScanOf \cap Last /\ s = ScanOf[stage] =>
            DirOf[f] \in unlisted \/ f \in listed
       /\ stage \in {"conclude", "accepted"} \/ (stage = "last_backup" /\ s = "source")
            => f \in paths

\* A pass starts with no block read.
Unread ==
  stage \in {"idle", "first_source", "first_backup"} \cup Middle =>
    \A b \in Blocks : reads[b] = 0

IInv == TypeOK /\ Unread /\ Mounts /\ Tracked /\ Taken /\ Steady /\ Rechecked /\ Covered

-----------------------------------------------------------------------------
LEMMA ScanStages ==
  /\ DOMAIN ScanOf = {"first_source", "first_backup", "middle_source",
                      "middle_backup", "last_source", "last_backup"}
  /\ ScanOf["first_source"] = "source" /\ ScanOf["first_backup"] = "backup"
  /\ ScanOf["middle_source"] = "source" /\ ScanOf["middle_backup"] = "backup"
  /\ ScanOf["last_source"] = "source" /\ ScanOf["last_backup"] = "backup"
BY DEF ScanOf

LEMMA Begun ==
  ASSUME IInv, NEW k \in {"proof", "audit"}, NEW e \in 0 .. gen, Begin(k, e)
  PROVE  IInv'
<1> USE DEF IInv, Begin, passVars, midVars
<1>1. TypeOK'
  BY ScanStages DEF TypeOK, Trees, Stages, Sides
<1>2. Mounts' /\ Tracked' /\ Unread'
  BY DEF TypeOK, Mounts, Tracked, AfterPass, Middle, Last, Unread
<1>3. Taken' /\ Steady' /\ Rechecked'
  BY DEF Taken, Steady, Rechecked, AfterPass, Middle, Last
<1>4. Covered'
  BY ScanStages DEF Covered, Last, Present, BlocksOf
<1> QED BY <1>1, <1>2, <1>3, <1>4

LEMMA Forgotten ==
  ASSUME IInv, Forget
  PROVE  IInv'
<1> USE DEF IInv, Forget
<1>1. TypeOK'
  BY ScanStages DEF TypeOK, Trees, Stages, Sides
<1>2. Mounts' /\ Tracked' /\ Unread'
  BY DEF Mounts, Tracked, AfterPass, Middle, Last, Unread
<1>3. Taken' /\ Steady' /\ Rechecked'
  BY DEF Taken, Steady, Rechecked, AfterPass, Middle, Last
<1>4. Covered'
  BY ScanStages DEF Covered, Last
<1> QED BY <1>1, <1>2, <1>3, <1>4

LEMMA DirectoryListed ==
  ASSUME IInv, NEW d \in Dirs, List(d)
  PROVE  IInv'
<1> USE DEF IInv, List, worldVars, callVars, passVars, midVars
<1>1. TypeOK'
  BY DEF TypeOK, Present
<1>2. Mounts' /\ Tracked' /\ Unread'
  BY DEF Mounts, Tracked, Unread
<1>3. Taken' /\ Steady' /\ Rechecked'
  BY DEF Taken, Steady, Rechecked, OnRecord
<1>4. Covered'
  BY ScanStages DEF Covered, Present, BlocksOf, Last
<1> QED BY <1>1, <1>2, <1>3, <1>4

\* What follows the enumeration at g.
LEMMA Order ==
  /\ Following["first_source"] = "first_backup" /\ Following["first_backup"] = "pass"
  /\ Following["middle_source"] = "middle_backup" /\ Following["middle_backup"] = "recheck"
  /\ Following["last_source"] = "last_backup" /\ Following["last_backup"] = "conclude"
BY DEF Following

LEMMA ScanEnds ==
  ASSUME IInv, Listed
  PROVE  IInv'
<1> USE DEF IInv, Listed, worldVars, passVars, midVars
<1>1. TypeOK'
  BY ScanStages, Order DEF TypeOK, SameTree, Stages
<1>2. Mounts'
  BY ScanStages, Order DEF Mounts, AfterPass, Middle, Last
<1>3. Tracked' /\ Unread'
  BY ScanStages, Order DEF Tracked, TypeOK, Unread, Middle
<1>4. Taken'
  <2>1. CASE stage = "first_source"
    BY <2>1, Order DEF Taken, AfterPass, Middle, Last
  <2>2. CASE stage = "first_backup"
    BY <2>2, Order DEF Taken, AfterPass, Middle, Last, Unread, OnRecord
  <2>3. CASE stage \in AfterPass
    BY <2>3, ScanStages, Order DEF Taken, AfterPass, Middle, Last, OnRecord
  <2> QED BY <2>1, <2>2, <2>3, ScanStages DEF AfterPass, Middle, Last
<1>5. Steady' /\ Rechecked'
  BY ScanStages, Order DEF Steady, Rechecked, AfterPass, Middle, Last, OnRecord, Unread
<1>6. Covered'
  <2>1. \A f \in Files : DirOf[f] \in Dirs
    BY TreeAssumption
  <2>2. \A s \in Sides : Present(s)' = Present(s)
    BY DEF Present, BlocksOf
  <2>3. CASE stage \in {"first_source", "first_backup"} \cup Middle
    BY <2>1, <2>2, <2>3, ScanStages, Order DEF Covered, Last, Middle
  <2>4. CASE stage \in {"last_source", "last_backup"}
    BY <2>1, <2>2, <2>4, ScanStages, Order DEF Covered, Last, SameTree, Sides
  <2> QED BY <2>3, <2>4, ScanStages DEF Middle
<1> QED BY <1>1, <1>2, <1>3, <1>4, <1>5, <1>6

LEMMA BlockRead ==
  ASSUME IInv, NEW b \in Blocks, Read(b)
  PROVE  IInv'
<1> USE DEF IInv, Read, worldVars, callVars, scanVars, midVars
<1> DEFINE now == tree[Turn(reads[b])][b]
<1>1. reads[b] \in 0 .. 2 /\ Turn(reads[b]) \in Sides /\ now \in Contents
  BY DEF TypeOK, Trees, Turn, Sides, Readings
<1>2. TypeOK'
  BY <1>1 DEF TypeOK
<1>3. Unread' /\ Mounts' /\ Tracked'
  BY DEF Unread, Mounts, Tracked, Middle
<1>4. now \in held[Turn(reads[b])][b]
  BY <1>1 DEF Tracked, SameIdentity
<1>5. Taken'
  <2>1. entry' = [entry EXCEPT ![b] = now] /\ reads' = [reads EXCEPT ![b] = @ + 1]
        /\ (reads[b] # 0 => now = entry[b])
    OBVIOUS
  <2> HIDE DEF now
  <2>2. \A c \in OnRecord : c # b => entry'[c] = entry[c] /\ reads'[c] = reads[c]
    BY <2>1 DEF TypeOK, OnRecord
  <2>3. entry'[b] = now /\ reads'[b] = reads[b] + 1
    BY <2>1 DEF TypeOK
  <2>4. CASE reads[b] = 0
    BY <1>4, <2>2, <2>3, <2>4 DEF Taken, OnRecord, Turn, AfterPass, Middle, Last
  <2>5. CASE reads[b] = 1
    BY <1>4, <2>1, <2>2, <2>3, <2>5 DEF Taken, OnRecord, Turn, AfterPass, Middle, Last
  <2>6. CASE reads[b] = 2
    BY <2>1, <2>2, <2>3, <2>6 DEF Taken, OnRecord, AfterPass, Middle, Last
  <2> QED BY <1>1, <2>4, <2>5, <2>6
<1>6. Steady' /\ Rechecked'
  BY DEF Steady, Rechecked, AfterPass, Middle, Last
<1>7. Covered'
  BY ScanStages DEF Covered, Present, BlocksOf, Last
<1> QED BY <1>2, <1>3, <1>5, <1>6, <1>7

LEMMA PassEnds ==
  ASSUME IInv, PassDone
  PROVE  IInv'
<1> USE DEF IInv, PassDone, worldVars, callVars, scanVars
<1>1. TypeOK'
  BY ScanStages DEF TypeOK, Stages, Sides
<1>2. Unread' /\ Mounts' /\ Tracked'
  BY DEF Unread, Mounts, Tracked, TypeOK, AfterPass, Middle, Last
<1>3. Taken'
  BY DEF Taken, OnRecord, Readings, Sides, TypeOK
<1>4. Steady'
  BY DEF Steady, OnRecord
<1>5. Rechecked'
  BY DEF Rechecked, Last, TypeOK
<1>6. Covered'
  <2>1. \A s \in Sides, f \in Files : <<s, f>> \in stayed' => f \in Present(s)
    OBVIOUS
  <2>2. \A s \in Sides : Present(s)' = Present(s)
    BY DEF Present, BlocksOf
  <2>3. \A f \in Files : DirOf[f] \in unlisted
    BY TreeAssumption DEF Covered
  <2> QED BY <2>1, <2>2, <2>3 DEF Covered, Last
<1> QED BY <1>1, <1>2, <1>3, <1>4, <1>5, <1>6

LEMMA BlockReread ==
  ASSUME IInv, NEW b \in Blocks, Reread(b)
  PROVE  IInv'
<1> USE DEF IInv, Reread, worldVars, callVars, scanVars, midVars
<1>1. reads[b] \in 0 .. 1 /\ Turn(reads[b]) \in Sides
  BY DEF TypeOK, Turn, Sides
<1>2. TypeOK'
  BY <1>1 DEF TypeOK
<1>3. Unread' /\ Mounts' /\ Tracked'
  BY DEF Unread, Mounts, Tracked, Middle
<1>4. Taken' /\ Steady'
  BY DEF Taken, Steady, OnRecord, AfterPass, Middle, Last
<1>5. mid[Turn(reads[b])][b] = entry[b]
  BY <1>1 DEF Steady, SameIdentity, AfterPass
<1>6. Rechecked'
  <2>1. \A c \in OnRecord : c # b => reads'[c] = reads[c]
    BY DEF TypeOK, OnRecord
  <2>2. reads'[b] = reads[b] + 1
    BY DEF TypeOK
  <2>3. CASE reads[b] = 0
    BY <1>5, <2>1, <2>2, <2>3 DEF Rechecked, OnRecord, Turn, Last
  <2>4. CASE reads[b] = 1
    BY <1>5, <2>1, <2>2, <2>4 DEF Rechecked, OnRecord, Turn, Last
  <2> QED BY <1>1, <2>3, <2>4
<1>7. Covered'
  BY ScanStages DEF Covered, Present, BlocksOf, Last
<1> QED BY <1>2, <1>3, <1>4, <1>6, <1>7

LEMMA RecheckEnds ==
  ASSUME IInv, RecheckDone
  PROVE  IInv'
<1> USE DEF IInv, RecheckDone, worldVars, callVars, scanVars, passVars, midVars
<1>1. TypeOK'
  BY ScanStages DEF TypeOK, Stages
<1>2. Unread' /\ Mounts' /\ Tracked'
  BY DEF Unread, Mounts, Tracked, AfterPass, Middle, Last
<1>3. Taken' /\ Steady'
  BY DEF Taken, Steady, OnRecord, AfterPass, Middle, Last
<1>4. Rechecked'
  BY DEF Rechecked, OnRecord, TypeOK
<1>5. Covered'
  <2>1. \A s \in Sides : Present(s)' = Present(s)
    BY DEF Present, BlocksOf
  <2>2. \A f \in Files : DirOf[f] \in unlisted
    BY TreeAssumption DEF Covered
  <2> QED BY <2>1, <2>2 DEF Covered, Last
<1> QED BY <1>1, <1>2, <1>3, <1>4, <1>5

LEMMA Concluded ==
  ASSUME IInv, Conclude
  PROVE  IInv'
<1> USE DEF IInv, Conclude, worldVars, callVars, scanVars, passVars, midVars
<1>1. TypeOK'
  BY DEF TypeOK, Stages
<1>2. Unread' /\ Tracked' /\ Taken' /\ Steady' /\ Rechecked'
  BY DEF Unread, Tracked, Taken, Steady, Rechecked, OnRecord, AfterPass, Middle, Last
<1>3. Mounts'
  BY DEF Mounts, TypeOK, SameIdentity, AfterPass, Last
<1>4. Covered'
  BY ScanStages DEF Covered, Present, BlocksOf, Last
<1> QED BY <1>1, <1>2, <1>3, <1>4

-----------------------------------------------------------------------------
\* Another program gives side s the tree t, none of whose new contents the
\* side had since the call began.
LEMMA TreeChanged ==
  ASSUME IInv, NEW s \in Sides, NEW t \in [Blocks -> Contents \cup {Absent}],
         Becomes(s, t), stayed' \subseteq stayed,
         \A b \in Blocks : t[b] = tree[s][b] \/ t[b] \notin held[s][b]
  PROVE  /\ TypeOK' /\ tree'[s] = t
         /\ \A r \in Sides : r # s => tree'[r] = tree[r]
         /\ Unread' /\ Mounts' /\ Tracked' /\ Taken' /\ Steady' /\ Rechecked'
<1> USE DEF IInv, Becomes, callVars, scanVars, passVars
<1>1. tree' \in Trees /\ held' \in [Sides -> [Blocks -> SUBSET Contents]]
  BY DEF TypeOK, Trees
<1>2. /\ tree'[s] = t
      /\ \A r \in Sides : r # s => tree'[r] = tree[r] /\ held'[r] = held[r]
      /\ \A b \in Blocks : held'[s][b] = held[s][b] \cup ({t[b]} \ {Absent})
  BY DEF TypeOK, Trees
<1>3. TypeOK'
  BY <1>1 DEF TypeOK
<1>4. Unread' /\ Mounts'
  BY DEF Unread, Mounts
<1>5. Tracked'
  BY <1>2 DEF Tracked
<1>6. Taken'
  BY <1>2 DEF Taken, OnRecord, Sides
<1>7. Steady'
  <2> SUFFICES ASSUME stage \in AfterPass, NEW b \in OnRecord, NEW r \in Sides,
                      r = "backup" \/ gen = expected, tree'[r][b] = entry[b]
               PROVE  mid[r][b] = entry[b]
    BY DEF Steady, OnRecord
  <2>1. entry[b] \in held[r][b]
    BY DEF Taken
  <2>2. tree[r][b] = entry[b]
    BY <1>2, <2>1 DEF OnRecord
  <2> QED BY <2>2 DEF Steady
<1>8. Rechecked'
  BY DEF Rechecked, OnRecord
<1> QED BY <1>2, <1>3, <1>4, <1>5, <1>6, <1>7, <1>8

\* What keeps the files that stayed keeps the coverage.
LEMMA CoverageKept ==
  ASSUME IInv, UNCHANGED <<stage, callVars, scanVars>>, stayed' \subseteq stayed,
         \A r \in Sides, f \in Files :
           <<r, f>> \in stayed' /\ f \in Present(r) => f \in Present(r)'
  PROVE  Covered'
BY ScanStages DEF IInv, Covered, callVars, scanVars, Last

LEMMA BlockOverwritten ==
  ASSUME IInv, NEW s \in Sides, NEW b \in Blocks, Overwrite(s, b)
  PROVE  IInv'
<1> USE DEF IInv
<1>1. PICK c \in Contents \ held[s][b] : Becomes(s, [tree[s] EXCEPT ![b] = c])
  BY DEF Overwrite
<1> DEFINE t == [tree[s] EXCEPT ![b] = c]
<1>2. t \in [Blocks -> Contents \cup {Absent}]
  BY DEF TypeOK, Trees
<1>3. \A d \in Blocks : t[d] = tree[s][d] \/ t[d] \notin held[s][d]
  BY DEF TypeOK, Trees
<1>4. UNCHANGED <<stayed, stage, callVars, scanVars>>
  BY <1>1 DEF Overwrite, Becomes
<1>5. \A r \in Sides, f \in Files : f \in Present(r) => f \in Present(r)'
  <2>1. \A d \in Blocks : tree[s][d] # Absent => t[d] # Absent
    BY TreeAssumption DEF TypeOK, Trees
  <2> HIDE DEF t
  <2>2. tree'[s] = t /\ \A r \in Sides : r # s => tree'[r] = tree[r]
    BY <1>1, <1>2, <1>3, <1>4, TreeChanged DEF t
  <2> QED BY <2>1, <2>2 DEF Present, BlocksOf
<1>6. Covered'
  BY <1>4, <1>5, CoverageKept
<1> HIDE DEF t
<1> QED BY <1>1, <1>2, <1>3, <1>4, <1>6, TreeChanged DEF t

LEMMA FileCreated ==
  ASSUME IInv, NEW s \in Sides, NEW f \in Files, Create(s, f)
  PROVE  IInv'
<1> USE DEF IInv
<1>1. PICK c \in Contents :
        /\ \A b \in BlocksOf(f) : c \notin held[s][b]
        /\ Becomes(s, [b \in Blocks |-> IF FileOf[b] = f THEN c ELSE tree[s][b]])
  BY DEF Create
<1> DEFINE t == [b \in Blocks |-> IF FileOf[b] = f THEN c ELSE tree[s][b]]
<1>2. t \in [Blocks -> Contents \cup {Absent}]
  BY DEF TypeOK, Trees
<1>3. \A d \in Blocks : t[d] = tree[s][d] \/ t[d] \notin held[s][d]
  BY <1>1 DEF BlocksOf
<1>4. UNCHANGED <<stayed, stage, callVars, scanVars>>
  BY <1>1 DEF Create, Becomes
<1>5. \A r \in Sides, g \in Files : g \in Present(r) => g \in Present(r)'
  <2>1. \A d \in Blocks : tree[s][d] # Absent => t[d] # Absent
    BY TreeAssumption
  <2> HIDE DEF t
  <2>2. tree'[s] = t /\ \A r \in Sides : r # s => tree'[r] = tree[r]
    BY <1>1, <1>2, <1>3, <1>4, TreeChanged DEF t
  <2> QED BY <2>1, <2>2 DEF Present, BlocksOf
<1>6. Covered'
  BY <1>4, <1>5, CoverageKept
<1> HIDE DEF t
<1> QED BY <1>1, <1>2, <1>3, <1>4, <1>6, TreeChanged DEF t

LEMMA FileRemoved ==
  ASSUME IInv, NEW s \in Sides, NEW f \in Files, Remove(s, f)
  PROVE  IInv'
<1> USE DEF IInv
<1> DEFINE t == [b \in Blocks |-> IF FileOf[b] = f THEN Absent ELSE tree[s][b]]
<1>1. Becomes(s, t) /\ stayed' = stayed \ {<<s, f>>}
  BY DEF Remove
<1>2. t \in [Blocks -> Contents \cup {Absent}]
  BY DEF TypeOK, Trees
<1>3. \A d \in Blocks : t[d] = tree[s][d] \/ t[d] \notin held[s][d]
  BY TreeAssumption DEF TypeOK
<1>4. UNCHANGED <<stage, callVars, scanVars>> /\ stayed' \subseteq stayed
  BY <1>1 DEF Becomes
<1>5. \A r \in Sides, g \in Files :
        <<r, g>> \in stayed' /\ g \in Present(r) => g \in Present(r)'
  <2>1. \A d \in Blocks : FileOf[d] # f => t[d] = tree[s][d]
    OBVIOUS
  <2> HIDE DEF t
  <2>2. tree'[s] = t /\ \A r \in Sides : r # s => tree'[r] = tree[r]
    BY <1>1, <1>2, <1>3, <1>4, TreeChanged
  <2> QED BY <1>1, <2>1, <2>2 DEF Present, BlocksOf
<1>6. Covered'
  BY <1>4, <1>5, CoverageKept
<1> HIDE DEF t
<1> QED BY <1>1, <1>2, <1>3, <1>4, <1>6, TreeChanged

\* Another mount is not the one the caller expects.
LEMMA Remounted ==
  ASSUME IInv, NEW t \in Start, Remount(t["source"])
  PROVE  IInv'
<1> USE DEF IInv, Remount, callVars, scanVars, passVars
<1>1. t["source"] \in [Blocks -> Contents \cup {Absent}]
  BY TreeAssumption DEF Trees, Sides
<1>2. tree'["backup"] = tree["backup"] /\ tree' \in Trees
  BY <1>1 DEF TypeOK, Trees, Sides
<1>3. TypeOK'
  BY <1>2 DEF TypeOK
<1>4. stage # "idle" => gen' # expected
  BY DEF Mounts, TypeOK
<1>5. Unread' /\ Mounts'
  BY DEF Unread, Mounts, TypeOK
<1>6. Tracked'
  BY <1>2, <1>4 DEF Tracked
<1>7. Taken' /\ Rechecked'
  BY DEF Taken, Rechecked, OnRecord
<1>8. Steady'
  BY <1>2, <1>4 DEF Steady, OnRecord, AfterPass, Middle, Last
<1>9. Covered'
  <2>1. \A r \in Sides, f \in Files : <<r, f>> \in stayed' => r = "backup"
    OBVIOUS
  <2>2. Present("backup")' = Present("backup")
    BY <1>2 DEF Present, BlocksOf
  <2> QED BY <2>1, <2>2, CoverageKept
<1> QED BY <1>3, <1>5, <1>6, <1>7, <1>8, <1>9

-----------------------------------------------------------------------------
LEMMA InitInv == Init => IInv
<1> SUFFICES ASSUME Init PROVE IInv
  OBVIOUS
<1> USE DEF Init
<1>1. TypeOK
  BY TreeAssumption, ScanStages DEF TypeOK, Trees, Stages, Sides
<1>2. Unread /\ Mounts /\ Tracked /\ Taken /\ Steady /\ Rechecked
  BY DEF Unread, Mounts, Tracked, Taken, Steady, Rechecked, AfterPass, Middle, Last
<1>3. Covered
  BY ScanStages DEF Covered, Last
<1> QED BY <1>1, <1>2, <1>3 DEF IInv

LEMMA StepInv == IInv /\ [Next]_vars => IInv'
<1> SUFFICES ASSUME IInv, [Next]_vars PROVE IInv'
  OBVIOUS
<1>1. CASE Compare
  BY <1>1, DirectoryListed, BlockRead, BlockReread, ScanEnds, PassEnds, RecheckEnds,
     Concluded, Forgotten DEF Compare, Throw, Discard
<1>2. CASE Others
  BY <1>2, BlockOverwritten, FileCreated, FileRemoved, Remounted DEF Others
<1>3. CASE \E k \in {"proof", "audit"}, e \in 0 .. gen : Begin(k, e)
  BY <1>3, Begun
<1>4. CASE UNCHANGED vars
  BY <1>4 DEF IInv, TypeOK, Unread, Mounts, Tracked, Taken, Steady, Rechecked, Covered,
     Present, BlocksOf, OnRecord, vars, worldVars, callVars, scanVars, passVars, midVars
<1> QED BY <1>1, <1>2, <1>3, <1>4 DEF Next

THEOREM Inductive == Spec => []IInv
BY InitInv, StepInv, PTL DEF Spec

(***************************************************************************)
(* Theorem: a proof is about one instant, and about the mount it names     *)
(* (verify_baseline_tree, with its second reading of both sides).          *)
(***************************************************************************)
THEOREM ProofsAreInstants == Spec => []ProofHeldAtOnce
<1>1. IInv => ProofHeldAtOnce
  BY DEF IInv, Mounts, Rechecked, ProofHeldAtOnce, Last
<1> QED BY <1>1, Inductive, PTL

(***************************************************************************)
(* Theorem: what is recorded was on both sides while the call ran, for a   *)
(* proof and for an audit.                                                 *)
(***************************************************************************)
THEOREM EntriesWereRead == Spec => []EntriesWereOnBoth
<1>1. IInv => EntriesWereOnBoth
  BY DEF IInv, Taken, EntriesWereOnBoth, AfterPass, Last
<1> QED BY <1>1, Inductive, PTL

(***************************************************************************)
(* Theorem: a file that was there when the reading was done and has stayed *)
(* is on record.                                                           *)
(***************************************************************************)
THEOREM ListsAreComplete == Spec => []NothingLeftOut
<1>1. IInv => NothingLeftOut
  BY DEF IInv, Covered, NothingLeftOut
<1> QED BY <1>1, Inductive, PTL

-----------------------------------------------------------------------------
(* Progress.  A comparison goes down the stages; an enumeration shortens   *)
(* the list of directories, a pass the readings still to be made.          *)
Level == [first_source |-> 11, first_backup |-> 10, pass |-> 9, middle_source |-> 8,
          middle_backup |-> 7, recheck |-> 6, last_source |-> 5, last_backup |-> 4,
          conclude |-> 3, accepted |-> 2, idle |-> 0]

Readable == Blocks \X (0 .. 2)
Unreadings == {p \in Readable : reads[p[1]] <= p[2]}
Width == Cardinality(Dirs) + Cardinality(Readable) + 1

Rank == Level[stage] * Width + Cardinality(unlisted) + Cardinality(Unreadings)

LEMMA Levels ==
  /\ Level["first_source"] = 11 /\ Level["first_backup"] = 10 /\ Level["pass"] = 9
  /\ Level["middle_source"] = 8 /\ Level["middle_backup"] = 7 /\ Level["recheck"] = 6
  /\ Level["last_source"] = 5 /\ Level["last_backup"] = 4 /\ Level["conclude"] = 3
  /\ Level["accepted"] = 2 /\ Level["idle"] = 0
  BY DEF Level

\* The finite sets a comparison goes through.
Finite == IsFiniteSet(Dirs) /\ IsFiniteSet(Blocks)

LEMMA RankFacts ==
  ASSUME TypeOK, Finite
  PROVE  /\ Level[stage] \in 0 .. 11 /\ (stage # "idle" => Level[stage] > 0) /\ Width \in Nat
         /\ IsFiniteSet(unlisted) /\ IsFiniteSet(Unreadings)
         /\ Cardinality(unlisted) \in Nat /\ Cardinality(Unreadings) \in Nat
         /\ Cardinality(unlisted) + Cardinality(Unreadings) < Width
<1>1. Level[stage] \in 0 .. 11 /\ (stage # "idle" => Level[stage] > 0)
  BY Levels, ScanStages DEF TypeOK, Stages
<1>2. IsFiniteSet(Readable)
  <2>1. IsFiniteSet(0 .. 2)
    <3>1. IsFiniteSet(({0} \cup {1}) \cup {2})
      BY FS_Singleton, FS_AddElement
    <3>2. ({0} \cup {1}) \cup {2} = 0 .. 2
      OBVIOUS
    <3> QED
      BY <3>1, <3>2
  <2> DEFINE turns == 0 .. 2
  <2>2. IsFiniteSet(turns) /\ IsFiniteSet(Blocks) /\ Readable = Blocks \X turns
    BY <2>1 DEF Readable, Finite
  <2> HIDE DEF turns
  <2> QED
    BY <2>2, FS_Product
<1>3. unlisted \in SUBSET Dirs /\ Unreadings \in SUBSET Readable
  BY DEF TypeOK, Unreadings
<1>4. /\ IsFiniteSet(unlisted) /\ Cardinality(unlisted) <= Cardinality(Dirs)
      /\ IsFiniteSet(Unreadings) /\ Cardinality(Unreadings) <= Cardinality(Readable)
  BY <1>2, <1>3, FS_Subset DEF Finite
<1>5. /\ Cardinality(unlisted) \in Nat /\ Cardinality(Unreadings) \in Nat
      /\ Cardinality(Dirs) \in Nat /\ Cardinality(Readable) \in Nat
  BY <1>2, <1>4, FS_CardinalityType DEF Finite
<1> QED
  BY <1>1, <1>4, <1>5 DEF Width

LEMMA Descends ==
  ASSUME TypeOK, TypeOK', Finite,
         \/ Level[stage'] < Level[stage]
         \/ /\ stage' = stage
            /\ Cardinality(unlisted') + Cardinality(Unreadings') < Cardinality(unlisted) + Cardinality(Unreadings)
  PROVE  Rank' < Rank
<1> DEFINE left == Cardinality(unlisted) + Cardinality(Unreadings)
           leftNext == Cardinality(unlisted') + Cardinality(Unreadings')
           a == Level[stage]
           b == Level[stage']
<1>1. a \in Nat /\ Width \in Nat /\ left \in Nat /\ Rank = a * Width + left
  BY RankFacts DEF Rank
<1>2. b \in Nat /\ leftNext \in Nat /\ leftNext < Width /\ Rank' = b * Width + leftNext
  <2>1. (/\ Level[stage] \in 0 .. 11 /\ Cardinality(unlisted) \in Nat /\ Cardinality(Unreadings) \in Nat
         /\ Cardinality(unlisted) + Cardinality(Unreadings) < Width)'
    BY RankFacts, PTL
  <2> QED
    BY <2>1, RankFacts DEF Rank, Width, Readable, Level
<1>3. b < a \/ (b = a /\ leftNext < left)
  OBVIOUS
<1> HIDE DEF left, leftNext, a, b
<1>4. CASE b < a
  <2>1. PICK k \in Nat : a = b + 1 + k
    <3>1. a - b - 1 \in Nat /\ a = b + 1 + (a - b - 1)
      BY <1>1, <1>2, <1>4
    <3> QED
      BY <3>1
  <2>2. a * Width = b * Width + Width + k * Width /\ k * Width \in Nat /\ b * Width \in Nat
    BY <1>1, <1>2, <2>1
  <2> QED
    BY <1>1, <1>2, <2>2
<1> QED
  BY <1>1, <1>2, <1>3, <1>4

\* A reading of a block is one less to be made.
LEMMA OneReading ==
  ASSUME TypeOK, Finite, NEW b \in Blocks, reads[b] < 3, reads' = [reads EXCEPT ![b] = @ + 1]
  PROVE  Cardinality(Unreadings') = Cardinality(Unreadings) - 1
<1>1. reads[b] \in 0 .. 2 /\ <<b, reads[b]>> \in Unreadings
  BY DEF TypeOK, Unreadings, Readable
<1>2. Unreadings' = Unreadings \ {<<b, reads[b]>>}
  <2>1. \A c \in Blocks : reads'[c] = IF c = b THEN reads[b] + 1 ELSE reads[c]
    BY DEF TypeOK
  <2>2. ASSUME NEW p \in Readable
        PROVE  p \in Unreadings' <=> p \in Unreadings /\ p # <<b, reads[b]>>
    <3>1. p[1] \in Blocks /\ p[2] \in 0 .. 2 /\ p = <<p[1], p[2]>> /\ reads[p[1]] \in 0 .. 3
      BY DEF Readable, TypeOK
    <3>2. p \in Unreadings' <=> reads'[p[1]] <= p[2]
      BY DEF Unreadings, Readable
    <3>3. p \in Unreadings <=> reads[p[1]] <= p[2]
      BY DEF Unreadings
    <3>4. CASE p[1] # b
      BY <2>1, <3>1, <3>2, <3>3, <3>4
    <3>5. CASE p[1] = b
      <4>1. p = <<b, reads[b]>> <=> p[2] = reads[b]
        BY <3>1, <3>5
      <4>2. reads'[p[1]] = reads[b] + 1
        BY <2>1, <3>5
      <4> QED
        BY <3>1, <3>2, <3>3, <3>5, <4>1, <4>2
    <3> QED
      BY <3>4, <3>5
  <2>3. Unreadings \subseteq Readable /\ Unreadings' \subseteq Readable
    BY DEF Unreadings, Readable
  <2> HIDE DEF Unreadings
  <2> QED
    BY <2>2, <2>3
<1>3. IsFiniteSet(Unreadings)
  BY RankFacts
<1> HIDE DEF Unreadings
<1>4. Cardinality(Unreadings \ {<<b, reads[b]>>}) = Cardinality(Unreadings) - 1
  BY <1>1, <1>3, FS_RemoveElement
<1> QED
  BY <1>2, <1>4

LEMMA CompareDescends ==
  ASSUME TypeOK, TypeOK', Finite, Compare
  PROVE  Rank' < Rank
<1> USE DEF worldVars, callVars, scanVars, passVars, midVars
<1>a. ASSUME Level[stage'] < Level[stage] PROVE Rank' < Rank
  BY <1>a, Descends
<1>1. ASSUME NEW d \in Dirs, List(d) PROVE Rank' < Rank
  <2>1. Cardinality(unlisted') = Cardinality(unlisted) - 1
    BY <1>1, RankFacts, FS_RemoveElement DEF List
  <2>2. Unreadings' = Unreadings /\ stage' = stage
    BY <1>1 DEF List, Unreadings
  <2> QED
    BY <2>1, <2>2, RankFacts, Descends
<1>2. ASSUME NEW b \in Blocks, Read(b) \/ Reread(b) PROVE Rank' < Rank
  <2>1. /\ UNCHANGED <<stage, unlisted>> /\ reads[b] < 3
        /\ reads' = [reads EXCEPT ![b] = @ + 1]
    BY <1>2 DEF Read, Reread, Readings, TypeOK
  <2>2. Cardinality(Unreadings') = Cardinality(Unreadings) - 1
    BY <2>1, OneReading
  <2> QED
    BY <2>1, <2>2, RankFacts, Descends
<1>3. CASE Listed
  <2>1. stage \in DOMAIN ScanOf /\ stage' = Following[stage]
    BY <1>3 DEF Listed
  <2>2. Level[stage'] < Level[stage]
    BY <2>1, Levels, ScanStages, Order
  <2> QED
    BY <1>a, <2>2
<1>4. CASE PassDone \/ RecheckDone \/ Conclude
  <2>1. \/ stage = "pass" /\ stage' \in {"last_source", "middle_source"}
        \/ stage = "recheck" /\ stage' = "last_source"
        \/ stage = "conclude" /\ stage' = "accepted"
    BY <1>4 DEF PassDone, RecheckDone, Conclude
  <2> QED
    BY <1>a, <2>1, Levels
<1>5. CASE Throw \/ Discard
  <2>1. stage # "idle" /\ stage' = "idle"
    BY <1>5 DEF Throw, Discard, Forget
  <2> QED
    BY <1>a, <2>1, Levels, RankFacts
<1> QED
  BY <1>1, <1>2, <1>3, <1>4, <1>5 DEF Compare

(***************************************************************************)
(* Every comparison comes to an end: it makes at most 12 * Width calls,    *)
(* and no change on either side and no remount lets it start over.  What   *)
(* is enumerated or read again is so once, by the stage that says it.      *)
(***************************************************************************)
THEOREM ComparisonsAreBounded ==
  ASSUME Finite
  PROVE  /\ Spec => [](Rank \in 0 .. 12 * Width)
         /\ Spec => [][stage # "idle" => Rank' <= Rank /\ (Compare => Rank' < Rank)]_vars
<1>1. TypeOK => Rank \in 0 .. 12 * Width
  <2> SUFFICES ASSUME TypeOK PROVE Rank \in 0 .. 12 * Width
    OBVIOUS
  <2> DEFINE lw == Level[stage] * Width
  <2>1. lw \in Nat /\ lw <= 11 * Width /\ Width \in Nat
    BY RankFacts
  <2> DEFINE u == Cardinality(unlisted)
             r == Cardinality(Unreadings)
  <2>3. u \in Nat /\ r \in Nat /\ u + r < Width
    BY RankFacts
  <2> HIDE DEF lw, u, r
  <2>2. lw + u + r \in 0 .. 12 * Width
    BY <2>1, <2>3
  <2> QED
    BY <2>2 DEF Rank, lw, u, r
<1>2. TypeOK /\ TypeOK' /\ [Next]_vars =>
        [stage # "idle" => Rank' <= Rank /\ (Compare => Rank' < Rank)]_vars
  <2> SUFFICES ASSUME TypeOK, TypeOK', Next, stage # "idle"
               PROVE  Rank' <= Rank /\ (Compare => Rank' < Rank)
    OBVIOUS
  <2>1. Rank \in Int /\ Rank' \in Int
    <3>1. Rank \in 0 .. 12 * Width /\ Width \in Nat
      BY <1>1, RankFacts
    <3>2. (Rank \in 0 .. 12 * Width)'
      BY <1>1, PTL
    <3> QED
      BY <3>1, <3>2 DEF Width, Readable
  <2>2. CASE Compare
    BY <2>1, <2>2, CompareDescends
  <2>3. CASE Others
    <3>1. UNCHANGED <<stage, unlisted, reads>>
      BY <2>3 DEF Others, Overwrite, Create, Remove, Becomes, Remount, callVars, scanVars, passVars
    <3>2. Rank' = Rank
      BY <3>1 DEF Rank, Unreadings
    <3>3. ~Compare \/ Rank' < Rank
      BY CompareDescends
    <3> QED
      BY <2>1, <3>2, <3>3
  <2>4. ~(\E k \in {"proof", "audit"}, e \in 0 .. gen : Begin(k, e))
    BY DEF Begin
  <2> QED
    BY <2>2, <2>3, <2>4 DEF Next
<1>3. IInv => TypeOK
  BY DEF IInv
<1> QED
  BY <1>1, <1>2, <1>3, Inductive, PTL DEF Spec

=============================================================================
