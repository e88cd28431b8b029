---------------------------- MODULE MCTaskCache ----------------------------
(* Small instances of TaskCache for TLC. *)
EXTENDS TaskCache, TLC

CONSTANTS r1, r2, r3

Symmetry == Permutations(Requests)

\* A state without the ghosts, on which no other variable depends; for invariants
\* that do not speak of them.
WithoutGhosts == <<rev, version, cache, pc, team, filter, seen, got, mine>>
=============================================================================
