--------------------------- MODULE MCEmailBreaker ---------------------------
(* Small instances of EmailBreaker for TLC. *)
EXTENDS EmailBreaker

CONSTANTS r1, r2, r3
=============================================================================
