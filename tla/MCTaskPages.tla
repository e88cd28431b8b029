---------------------------- MODULE MCTaskPages ----------------------------
(* Small instances of TaskPages for TLC. *)
EXTENDS TaskPages
=============================================================================
