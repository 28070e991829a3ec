---------------------------- MODULE MCDiscovery ----------------------------
(***************************************************************************)
(* Small instances of the discovery: k1 and k2 are players, u1 a thread    *)
(* that asks for a refresh.                                                *)
(***************************************************************************)
EXTENDS Discovery

CONSTANTS k1, k2, u1, watcher, main
=============================================================================
