----------------------- MODULE TransactionProperties -----------------------
(***************************************************************************)
(* What the transaction engine promises.                                   *)
(***************************************************************************)
EXTENDS Transaction

Finished(o) == dev[o]["done"] \in {"old", "new"}

\* o has changed something on the player.
Touched(o) ==
  \/ \E f \in DeviceFiles \ {"journal"} : dev[o][f] # "none"
  \/ \E m \in Media : tmp[o][m] # "none" \/ copiedBy[m] = o
  \/ retired[o] # NoDatabase

(***************************************************************************)
(* The last library that was formal stays playable: at every instant, also *)
(* while the formal name is vacant between the two renames, all the audio  *)
(* it references is on the player.  So audio is in place before the        *)
(* database that names it, and leaves only after the one that does not.    *)
(***************************************************************************)
LastGoodPlayable == RefsOf(lastGood) \subseteq Present

(***************************************************************************)
(* A database under its formal name is playable, whichever step of         *)
(* execute, cancel or recovery put it there, and stays so through cleanup. *)
(***************************************************************************)
FormalPlayable == RefsOf(formal) \subseteq Present

(***************************************************************************)
(* A vacant formal name is always a commit window of one recorded          *)
(* operation, planned against the last good library, whose bytes the       *)
(* computer holds: execute and recover can be interrupted at any call.     *)
(***************************************************************************)
WindowRecoverable ==
  formal = NoDatabase /\ lastGood # NoDatabase =>
    \E o \in Ops : /\ base[o] = lastGood
                   /\ host[o]["manifest"] = "full" /\ host[o]["old"] = "full"
                   /\ dev[o]["journal"] = "full" /\ dev[o]["done"] = "none"

(***************************************************************************)
(* Evidence first: before an operation leaves anything but its journal on  *)
(* the player, the computer holds its whole manifest, both databases and,  *)
(* for an update, a snapshot, and keeps them; the snapshot until it is     *)
(* released, since from then on prune may take it (module Snapshots).      *)
(***************************************************************************)
EvidenceFirst ==
  \A o \in Ops : Touched(o) =>
    /\ host[o]["manifest"] = "full" /\ host[o]["new"] = "full"
    /\ IsUpdate(o) => host[o]["old"] = "full" /\ "full" \in {host[o]["before"], host[o]["released"]}

(***************************************************************************)
(* The player never carries two open journals: prepare refuses to start    *)
(* over an unfinished operation, whatever order callers and faults take.   *)
(***************************************************************************)
OneOpenJournal ==
  \A o, p \in Ops : dev[o]["journal"] # "none" /\ dev[p]["journal"] # "none"
                    /\ ~Finished(o) /\ ~Finished(p) => o = p

(***************************************************************************)
(* The recovery point of an update stays pinned until the player holds the *)
(* completion record that says which database was chosen.                  *)
(***************************************************************************)
RecoveryPointPinned ==
  \A o \in Ops : host[o]["released"] # "none" \/ host[o]["finalized"] # "none"
                   => Finished(o)

(***************************************************************************)
(* The completion record is written only over a settled player: the chosen *)
(* database is formal, no temporary or staged file of the operation is     *)
(* left, and the audio of the other choice that it owned is gone.          *)
(***************************************************************************)
DoneMeansSettled ==
  [][\A o \in Ops : dev[o]["done"] = "none" /\ dev'[o]["done"] # "none" =>
       /\ formal = IF committed THEN New[o] ELSE base[o]
       /\ dev[o]["staged"] = "none" /\ \A m \in Media : tmp[o][m] = "none"
       /\ IF committed THEN \A m \in Dels(o) : media[m] # Del[o][m]
                       ELSE \A m \in Adds(o) : copiedBy[m] # o]_vars

(***************************************************************************)
(* No lost update: an execution that replaces the library replaces the     *)
(* version its plan was made against.  Of two plans made against the same  *)
(* library at most one is carried out.                                     *)
(***************************************************************************)
NoLostUpdate ==
  [][mode = "execute" /\ lastGood' # lastGood /\ pc # "idle"
       => lastGood = base[op] /\ lastGood' = New[op]]_vars

\* How far the records of o have got.
StageOf(o) ==
  IF Finished(o) THEN dev[o]["done"]
  ELSE IF dev[o]["journal"] = "full" THEN "open"
  ELSE IF OnRecord(o) THEN "recorded" ELSE "free"

Register == INSTANCE LibraryRegister WITH
  library <- lastGood, asked <- base, stage <- [o \in Ops |-> StageOf(o)],
  Initial <- Library

(***************************************************************************)
(* To its callers the engine is a compare-and-swap register: each of its   *)
(* calls, and whatever a fault makes of them, is a step of that register   *)
(* or none.  So no update is lost, an operation is decided once and for    *)
(* all, by the database that is there, and only one is open at a time.     *)
(* Another program's library comes between two calls (ForeignEdit): what   *)
(* it changes after the last comparison of a call is not examined.         *)
(***************************************************************************)
ImplementsRegister == Register!RegisterSpec

(***************************************************************************)
(* An execution changes the player only under the mount its plan was made  *)
(* for, however often the player is unplugged and comes back meanwhile.    *)
(***************************************************************************)
PlannedMountOnly ==
  [][mode # "recover" /\ pc # "idle" /\ deviceVars' # deviceVars
       => mode # "again" /\ gen = planGen[op]]_vars

(***************************************************************************)
(* A result is the truth: cancelled after work began means the old library *)
(* and none of the operation's audio; completed after a commit means the   *)
(* new library, with the new snapshot kept and the recovery point released. *)
(***************************************************************************)
ResultsTruthful ==
  [][\A o \in Ops :
       /\ outcome[o] = "none" /\ outcome'[o] = "cancelled" /\ mode = "undo" =>
            /\ base[o] = formal /\ Finished(o)
            /\ \A m \in Media : copiedBy[m] # o /\ tmp[o][m] = "none"
       /\ outcome[o] = "none" /\ outcome'[o] = "completed" /\ committed =>
            /\ formal = New[o] /\ Finished(o) /\ host[o]["after"] = "full"
            /\ IsUpdate(o) => host[o]["released"] = "full"]_vars

(***************************************************************************)
(* A database the record of the running operation does not know is left    *)
(* where it is, if it was there when the call began (ForeignEdit).         *)
(***************************************************************************)
UnknownKept ==
  [][pc # "idle" /\ formal \notin {NoDatabase, base[op], New[op]} => formal' = formal]_vars

-----------------------------------------------------------------------------
(* Progress, under FairSpec.                                               *)

\* A file of o is there but not whole, and will be found so.
TornFile(o) == \/ \E f \in HostFiles : host[o][f] = "torn"
               \/ \E f \in DeviceFiles : dev[o][f] = "torn"
               \/ \E m \in Media : tmp[o][m] = "torn"

Finalized(o) == host[o]["finalized"] \in {"old", "new"}

(***************************************************************************)
(* Recovery converges: with failures over and recovery requested again and *)
(* again, a recorded operation ends in a finalized record, unless a file   *)
(* it left incomplete stays in the way.  With one operation and nothing    *)
(* that prunes: where a released recovery point is pruned before the       *)
(* finalized record is written, the code does not converge, and            *)
(* SettlingRepeatable of Snapshots is what it breaks.                      *)
(***************************************************************************)
RecoveryConverges ==
  \A o \in Ops : []<>~TornFile(o) => (OnRecord(o) ~> Finalized(o))

-----------------------------------------------------------------------------
(* Statements of the documents, as the documents make them.                *)

(***************************************************************************)
(* docs/SAFETY_MODEL.md, section 8: after an interruption in the commit    *)
(* window recovery selects the last complete and verified version.         *)
(***************************************************************************)
SelectsLastVersion ==
  [][mode = "recover" /\ lastGood' # lastGood => lastGood' = New[op] /\ lastGood = base[op]]_vars

(***************************************************************************)
(* docs/SAFETY_MODEL.md, section 13: automatic cleanup is confined to      *)
(* files no database references any more.                                  *)
(***************************************************************************)
CleansUnreferencedOnly ==
  [][\A m \in Media : media[m] # Absent /\ media'[m] = Absent => m \notin RefsOf(lastGood)]_vars

=============================================================================
