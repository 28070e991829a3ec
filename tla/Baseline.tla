------------------------------ MODULE Baseline ------------------------------
(***************************************************************************)
(* The comparison of the player with an external backup: the verification  *)
(* that gives a proof (verify_baseline_tree under verify_directory_        *)
(* baseline) and the audit that gives only counts.  Both read two live     *)
(* trees call by call; other programs change either tree in between, and   *)
(* the player may be unplugged and come back.                              *)
(*                                                                         *)
(* A fingerprint is read block by block.  A block is a member of Contents; *)
(* what lies beyond the end of a file is one of them, so a file that grows *)
(* or shrinks is one whose blocks change.  Digests do not collide.  While  *)
(* a comparison runs, a block never comes back to a content it had before  *)
(* on that side (no digest could tell that from a file left alone).        *)
(***************************************************************************)
EXTENDS Naturals

CONSTANTS
  Dirs,        \* the directories below iPod_Control
  Files,       \* paths
  DirOf,       \* DirOf[f]: the directory of a file
  Blocks,      \* places in the files
  FileOf,      \* FileOf[b]: the file of a block
  Contents,    \* what a block may hold
  Absent,      \* the block's file is not there
  Start,       \* the trees first found
  MaxChanges,  \* bound on the changes other programs make
  MaxGen       \* bound on mount generations

Sides == {"source", "backup"}
Trees == [Sides -> [Blocks -> Contents \cup {Absent}]]

ASSUME TreeAssumption ==
  /\ DirOf \in [Files -> Dirs] /\ FileOf \in [Blocks -> Files]
  /\ \A f \in Files : \E b \in Blocks : FileOf[b] = f
  /\ Absent \notin Contents
  /\ Start \subseteq Trees
  /\ MaxChanges \in Nat /\ MaxGen \in Nat

VARIABLES
  tree,      \* tree[s][b]: what side s holds in block b
  gen,       \* the mount generation the player has now
  kind,      \* "proof" or "audit"
  expected,  \* the identity the caller expects
  stage,     \* how far the comparison is
  unlisted,  \* directories this enumeration has still to list
  listed,    \* files it has found
  paths,     \* the files of the first enumeration
  reads,     \* reads[b]: comparisons made of block b in this pass
  entry,     \* entry[b]: the content on record
  \* history
  held,      \* held[s][b]: contents block b has had since the call began
  changes,
  mid,       \* the trees at the end of the first pass
  midGen,    \* and the mount generation
  stayed     \* <<s, f>>: files present without interruption since then

worldVars == <<tree, gen, held, changes>>
passVars == <<reads, entry>>
scanVars == <<unlisted, listed>>
midVars == <<mid, midGen, stayed>>
callVars == <<kind, expected, paths>>
vars == <<worldVars, stage, callVars, scanVars, passVars, midVars>>

(* The stages in order; an audit goes from its only pass to the last       *)
(* enumerations.                                                           *)
ScanOf == [first_source |-> "source", first_backup |-> "backup",
           middle_source |-> "source", middle_backup |-> "backup",
           last_source |-> "source", last_backup |-> "backup"]
Stages == DOMAIN ScanOf \cup {"idle", "pass", "recheck", "conclude", "accepted"}

Following == [first_source |-> "first_backup", first_backup |-> "pass",
              middle_source |-> "middle_backup", middle_backup |-> "recheck",
              last_source |-> "last_backup", last_backup |-> "conclude"]

TypeOK ==
  /\ tree \in Trees /\ mid \in Trees
  /\ {gen, expected, changes, midGen} \subseteq Nat
  /\ kind \in {"proof", "audit"} /\ stage \in Stages
  /\ unlisted \subseteq Dirs /\ listed \subseteq Files /\ paths \subseteq Files
  /\ reads \in [Blocks -> 0 .. 3]
  /\ entry \in [Blocks -> Contents \cup {Absent}]
  /\ held \in [Sides -> [Blocks -> SUBSET Contents]]
  /\ stayed \subseteq Sides \X Files

BlocksOf(f) == {b \in Blocks : FileOf[b] = f}
Present(s) == {f \in Files : \A b \in BlocksOf(f) : tree[s][b] # Absent}
OnRecord == {b \in Blocks : FileOf[b] \in paths}

-----------------------------------------------------------------------------
(* The comparison.  baseline_reader compares the identity before each call *)
(* on either tree.                                                         *)

SameIdentity == gen = expected

\* The preconditions on the two roots and the binding hold.
Begin(k, e) ==
  /\ stage = "idle"
  /\ stage' = "first_source" /\ kind' = k /\ expected' = e
  /\ unlisted' = Dirs
  /\ held' = [s \in Sides |-> [b \in Blocks |-> {tree[s][b]} \ {Absent}]]
  /\ UNCHANGED <<tree, gen, changes, listed, paths, passVars, midVars>>

\* enumerate_files: the names of one directory; each must still be a file
\* when its size is asked for, or the call fails.
List(d) ==
  /\ stage \in DOMAIN ScanOf /\ d \in unlisted /\ SameIdentity
  /\ unlisted' = unlisted \ {d}
  /\ listed' = listed \cup {f \in Present(ScanOf[stage]) : DirOf[f] = d}
  /\ UNCHANGED <<worldVars, stage, callVars, passVars, midVars>>

AnyTree == TRUE                   \* mutant: later enumerations are not compared
SameTree == listed = paths

\* The first enumeration is the record, the others must repeat it; a proof
\* of nothing is refused.
Listed ==
  /\ stage \in DOMAIN ScanOf /\ unlisted = {}
  /\ IF stage = "first_source" THEN paths' = listed ELSE SameTree /\ paths' = paths
  /\ stage = "first_backup" /\ kind = "proof" => paths # {}
  /\ stage' = Following[stage]
  /\ unlisted' = Dirs /\ listed' = {}
  /\ UNCHANGED <<worldVars, kind, expected, passVars, midVars>>

\* One block of a fingerprint; the k-th comparison of a block is with side
\* Turn(k), and for a proof the source is read again behind the backup.
TurnNever(k) == "source"  \* mutant: a copy is compared with itself
Turn(k) == IF k = 1 THEN "backup" ELSE "source"
Readings == IF kind = "audit" THEN 2 ELSE 3

Read(b) ==
  /\ stage = "pass" /\ b \in OnRecord /\ reads[b] < Readings /\ SameIdentity
  /\ LET now == tree[Turn(reads[b])][b] IN
       /\ now # Absent
       /\ reads[b] # 0 => now = entry[b]
       /\ entry' = [entry EXCEPT ![b] = now]
  /\ reads' = [reads EXCEPT ![b] = @ + 1]
  /\ UNCHANGED <<worldVars, stage, callVars, scanVars, midVars>>

PassDone ==
  /\ stage = "pass" /\ \A b \in OnRecord : reads[b] = Readings
  /\ stage' = IF kind = "audit" THEN "last_source" ELSE "middle_source"
  /\ reads' = [b \in Blocks |-> 0]
  /\ mid' = tree /\ midGen' = gen
  /\ stayed' = {p \in Sides \X Files : p[2] \in Present(p[1])}
  /\ UNCHANGED <<worldVars, callVars, scanVars, entry>>

\* Mutant: only the source is read again.
RereadSource(b) ==
  /\ stage = "recheck" /\ b \in OnRecord /\ reads[b] < 2 /\ SameIdentity
  /\ reads[b] = 0 => tree["source"][b] = entry[b]
  /\ reads' = [reads EXCEPT ![b] = @ + 1]
  /\ UNCHANGED <<worldVars, stage, callVars, scanVars, entry, midVars>>

\* Every entry again, on both sides, behind the last reading of the first
\* pass.
Reread(b) ==
  /\ stage = "recheck" /\ b \in OnRecord /\ reads[b] < 2 /\ SameIdentity
  /\ tree[Turn(reads[b])][b] = entry[b]
  /\ reads' = [reads EXCEPT ![b] = @ + 1]
  /\ UNCHANGED <<worldVars, stage, callVars, scanVars, entry, midVars>>

RecheckDone ==
  /\ stage = "recheck" /\ \A b \in OnRecord : reads[b] = 2
  /\ stage' = "last_source"
  /\ UNCHANGED <<worldVars, callVars, scanVars, passVars, midVars>>

\* The identity once more, and the result is given out.
Conclude ==
  /\ stage = "conclude" /\ SameIdentity
  /\ stage' = "accepted"
  /\ UNCHANGED <<worldVars, callVars, scanVars, passVars, midVars>>

Forget ==
  /\ stage' = "idle" /\ kind' = "proof" /\ expected' = 0
  /\ unlisted' = {} /\ listed' = {} /\ paths' = {}
  /\ reads' = [b \in Blocks |-> 0]
  /\ entry' = [b \in Blocks |-> Absent]
  /\ mid' = tree /\ midGen' = 0 /\ stayed' = {}
  /\ held' = [s \in Sides |-> [b \in Blocks |-> {}]]
  /\ UNCHANGED <<tree, gen, changes>>

\* A comparison above that does not hold, or a call that fails; and a result
\* its caller no longer needs.
Throw == stage \notin {"idle", "accepted"} /\ Forget
Discard == stage = "accepted" /\ Forget

-----------------------------------------------------------------------------
(* Other programs and the user.                                            *)

Becomes(s, t) ==
  /\ changes < MaxChanges /\ changes' = changes + 1
  /\ tree' = [tree EXCEPT ![s] = t]
  /\ held' = [held EXCEPT ![s] = [b \in Blocks |-> @[b] \cup ({t[b]} \ {Absent})]]
  /\ UNCHANGED <<gen, stage, callVars, scanVars, passVars, mid, midGen>>

\* A block of a file is overwritten.
Overwrite(s, b) ==
  /\ tree[s][b] # Absent
  /\ \E c \in Contents \ held[s][b] : Becomes(s, [tree[s] EXCEPT ![b] = c])
  /\ UNCHANGED stayed

Create(s, f) ==
  /\ \A b \in BlocksOf(f) : tree[s][b] = Absent
  /\ \E c \in Contents :
       /\ \A b \in BlocksOf(f) : c \notin held[s][b]
       /\ Becomes(s, [b \in Blocks |-> IF FileOf[b] = f THEN c ELSE tree[s][b]])
  /\ UNCHANGED stayed

Remove(s, f) ==
  /\ f \in Present(s)
  /\ Becomes(s, [b \in Blocks |-> IF FileOf[b] = f THEN Absent ELSE tree[s][b]])
  /\ stayed' = stayed \ {<<s, f>>}

\* The player comes back as a new mount; whatever it holds now.
Remount(t) ==
  /\ gen < MaxGen /\ gen' = gen + 1
  /\ tree' = [tree EXCEPT !["source"] = t]
  /\ stayed' = {p \in stayed : p[1] = "backup"}
  /\ UNCHANGED <<held, changes, stage, callVars, scanVars, passVars, mid, midGen>>

-----------------------------------------------------------------------------
Init ==
  /\ tree \in Start /\ mid = tree /\ midGen = 0
  /\ gen = 0 /\ expected = 0 /\ changes = 0
  /\ kind = "proof" /\ stage = "idle"
  /\ unlisted = {} /\ listed = {} /\ paths = {}
  /\ reads = [b \in Blocks |-> 0]
  /\ entry = [b \in Blocks |-> Absent]
  /\ held = [s \in Sides |-> [b \in Blocks |-> {}]]
  /\ stayed = {}

Compare ==
  \/ \E d \in Dirs : List(d)
  \/ \E b \in Blocks : Read(b) \/ Reread(b)
  \/ Listed \/ PassDone \/ RecheckDone \/ Conclude \/ Throw \/ Discard

Others ==
  \/ \E s \in Sides, b \in Blocks : Overwrite(s, b)
  \/ \E s \in Sides, f \in Files : Create(s, f) \/ Remove(s, f)
  \/ \E t \in Start : Remount(t["source"])

Next == Compare \/ Others \/ \E k \in {"proof", "audit"}, e \in 0 .. gen : Begin(k, e)

Spec == Init /\ [][Next]_vars

-----------------------------------------------------------------------------
(***************************************************************************)
(* A proof is about one instant: when verify_directory_baseline returns,   *)
(* there was a moment, the player being the one the proof is bound to, at  *)
(* which the player and the backup held every recorded file with the       *)
(* recorded content, though no two files were read at the same time.       *)
(***************************************************************************)
ProofHeldAtOnce ==
  stage = "accepted" /\ kind = "proof" =>
    /\ midGen = expected
    /\ \A b \in OnRecord : mid["source"][b] = entry[b] /\ mid["backup"][b] = entry[b]

(***************************************************************************)
(* A comparison compares: each block on record had the recorded content on *)
(* both sides while the call ran.  An audit, which does not read anything  *)
(* twice, promises no more; a file nobody touched meanwhile is equal.      *)
(***************************************************************************)
EntriesWereOnBoth ==
  stage = "accepted" => \A b \in OnRecord, s \in Sides : entry[b] \in held[s][b]

(***************************************************************************)
(* Nothing is left out: a file that was on either side when the reading    *)
(* was done and has been there ever since is on record when a proof or an  *)
(* audit is given out.                                                     *)
(***************************************************************************)
NothingLeftOut ==
  stage = "accepted" => \A s \in Sides, f \in Files : <<s, f>> \in stayed => f \in paths

=============================================================================
