----------------------------- MODULE MCThreadPool -----------------------------
(* Small instances of ThreadPool for TLC. *)
EXTENDS ThreadPool

CONSTANTS j1, j2, j3, j4
===============================================================================
