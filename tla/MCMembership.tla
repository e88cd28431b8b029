---------------------------- MODULE MCMembership ----------------------------
(* Small instances of Membership for TLC. *)
EXTENDS Membership, TLC

CONSTANTS r1, r2, r3, u1, u2, u3, e1, e2, e3, t1, t2

Symmetry == Permutations(Requests) \cup Permutations(Users)
              \cup Permutations(Emails) \cup Permutations(Teams)
=============================================================================
