----------------------------- MODULE MCReports -----------------------------
(* Small instances of Reports for TLC. *)
EXTENDS Reports, TLC

CONSTANTS k1, k2, k3

\* The last day of a month and two of the next.
MCMonthOf == <<1, 2, 2>>

\* A task of team 1 for user 2, who need not be a member.
MCStrays ==
    [k \in Tasks |->
        IF k = k1 THEN [team |-> 1, creator |-> 1, assignee |-> 2,
                        created |-> 1, completed |-> Never]
                  ELSE NoTask]

Symmetry == Permutations(Tasks \ {k1})
=============================================================================
