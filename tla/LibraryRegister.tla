-------------------------- MODULE LibraryRegister --------------------------
(***************************************************************************)
(* What the transaction engine is to its callers: the library of a player  *)
(* is a register that is replaced by compare-and-swap, one open operation  *)
(* at a time, and every operation is decided once, for the database it     *)
(* found or for its own, whatever fails on the way.                        *)
(***************************************************************************)
CONSTANTS
  Ops, Databases, Unplanned,
  New,      \* New[o]: the database operation o installs
  Foreign,  \* databases other programs may leave there
  Initial   \* the first library

VARIABLES
  library,
  asked,    \* asked[o]: the library o was planned against
  stage     \* stage[o]: how far o has got

registerVars == <<library, asked, stage>>

Stages == {"free", "recorded", "open", "old", "new"}

RegisterInit ==
  /\ library = Initial
  /\ asked = [o \in Ops |-> Unplanned]
  /\ stage = [o \in Ops |-> "free"]

Plan(o) ==
  /\ stage[o] = "free"
  /\ asked' = [asked EXCEPT ![o] = library]
  /\ UNCHANGED <<library, stage>>

\* Plans that were not on record end with the process.
Forget ==
  /\ asked' = [o \in Ops |-> IF stage[o] = "free" THEN Unplanned ELSE asked[o]]
  /\ UNCHANGED <<library, stage>>

\* The computer holds the record, then the player the journal.
Record(o) ==
  /\ stage[o] = "free" /\ asked[o] = library
  /\ stage' = [stage EXCEPT ![o] = "recorded"]
  /\ UNCHANGED <<library, asked>>

Open(o) ==
  /\ stage[o] = "recorded" /\ asked[o] = library
  /\ \A p \in Ops : stage[p] # "open"
  /\ stage' = [stage EXCEPT ![o] = "open"]
  /\ UNCHANGED <<library, asked>>

Replace(o) ==
  /\ stage[o] = "open" /\ asked[o] = library
  /\ library' = New[o]
  /\ UNCHANGED <<asked, stage>>

Decide(o) ==
  /\ stage[o] \in {"recorded", "open"}
  /\ \E d \in {"old", "new"} :
       /\ library = IF d = "new" THEN New[o] ELSE asked[o]
       /\ stage' = [stage EXCEPT ![o] = d]
  /\ UNCHANGED <<library, asked>>

\* The one exception: an operation that never got as far as its journal, if
\* recovered while another is open, puts back the library it found.
Revert(o) ==
  /\ stage[o] = "recorded" /\ \E p \in Ops : stage[p] = "open"
  /\ library' = asked[o]
  /\ UNCHANGED <<asked, stage>>

Edit ==
  /\ library' \in Foreign
  /\ UNCHANGED <<asked, stage>>

RegisterNext ==
  \/ \E o \in Ops : Plan(o) \/ Record(o) \/ Open(o) \/ Replace(o) \/ Decide(o) \/ Revert(o)
  \/ Forget \/ Edit

RegisterSpec == RegisterInit /\ [][RegisterNext]_registerVars

=============================================================================
