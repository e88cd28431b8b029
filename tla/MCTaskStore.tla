---------------------------- MODULE MCTaskStore ----------------------------
(* Small instances of TaskStore for TLC. *)
EXTENDS TaskStore, TLC

CONSTANTS r1, r2, r3, ann, bob, team1, titleA, titleB, text,
          todo, in_progress, done, bogus

Body(title, status, assignee) ==
    [title |-> title, description |-> Absent, status |-> status,
     assignee_id |-> assignee]

Draft(assignee) == [title |-> titleA, description |-> text, status |-> todo,
                    assignee_id |-> assignee]

OneDraft == {Draft(NoOne)}
SomeDrafts == {Draft(NoOne), Draft(bob)}

\* Bodies that race on one column and on different ones, one of an assignee
\* who is a member or not, one that is refused.
RacingInputs == {Body(Absent, done, Absent), Body(Absent, in_progress, Absent),
                 Body(titleB, done, Absent), Body(titleB, Absent, bob),
                 Body(Absent, bogus, Absent)}

\* Bodies that keep two columns changing.
FewInputs == {Body(titleB, Absent, Absent), Body(Absent, done, Absent)}

AnnOnly == {<<team1, ann>>}

Symmetry == Permutations(Requests)
=============================================================================
