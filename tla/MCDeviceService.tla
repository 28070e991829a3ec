-------------------------- MODULE MCDeviceService --------------------------
(***************************************************************************)
(* Small instances of the device service: one player, subscribers l1, l2.  *)
(***************************************************************************)
EXTENDS DeviceService

CONSTANTS k1, u1, l1, l2, watcher, main
=============================================================================
