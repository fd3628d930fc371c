----------------------------- MODULE MCSyncServer -----------------------------
(* Small instances of SyncServer for TLC. *)
EXTENDS SyncServer

CONSTANTS c1, c2, c3
===============================================================================
