---------------------------- MODULE MCSnapshots ----------------------------
(***************************************************************************)
(* Small instances of the snapshot store: o1 initializes an empty player   *)
(* where it is in Fresh, the others update its library.                    *)
(***************************************************************************)
EXTENDS Snapshots, TLC

CONSTANTS o1, o2, o3

\* Updates that are alike.
Symmetry == Permutations(Ops \ Fresh)
=============================================================================
