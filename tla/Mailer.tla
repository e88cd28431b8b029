------------------------------- MODULE Mailer -------------------------------
(***************************************************************************)
(* What SendInvitation promises Invite of internal/usecase/team/team.go,   *)
(* whatever breaker and network lie in between: each call is answered      *)
(* once; at most one mail is sent for it, and when the answer is success   *)
(* that mail has been sent.  An error says nothing: the mail of a call     *)
(* that was given up may have been sent, or be sent yet.                   *)
(***************************************************************************)
CONSTANT Requests   \* slots in which invitations are served

VARIABLES
    call,       \* [Requests -> {"none", "open", "sent", "failed"}]
    mailed      \* the calls whose mail has been sent

vars == <<call, mailed>>

Init ==
    /\ call = [r \in Requests |-> "none"]
    /\ mailed = {}

Ask(r) ==
    /\ call[r] = "none"
    /\ call' = [call EXCEPT ![r] = "open"]
    /\ UNCHANGED mailed

Mail(r) ==
    /\ call[r] \in {"open", "failed"}
    /\ r \notin mailed
    /\ mailed' = mailed \cup {r}
    /\ UNCHANGED call

Answer(r) ==
    /\ call[r] = "open"
    /\ \/ r \in mailed /\ call' = [call EXCEPT ![r] = "sent"]
       \/ call' = [call EXCEPT ![r] = "failed"]
    /\ UNCHANGED mailed

Close(r) ==
    /\ call[r] \in {"sent", "failed"}
    /\ call' = [call EXCEPT ![r] = "none"]
    /\ mailed' = mailed \ {r}

\* The process dies with every call it was making.
CloseAll ==
    /\ call' = [r \in Requests |-> "none"]
    /\ mailed' = {}

Next ==
    \/ \E r \in Requests : Ask(r) \/ Mail(r) \/ Answer(r) \/ Close(r)
    \/ CloseAll

Spec == Init /\ [][Next]_vars
=============================================================================
