---------------------------- MODULE TaskListing ----------------------------
(***************************************************************************)
(* What GET /tasks promises its clients, whatever caches lie in between.   *)
(*                                                                         *)
(* The tasks of a team go through revisions: every committed insertion or  *)
(* update of one of them is a revision of its own.  A change settles, some *)
(* time after it was made, and a list request is answered from SOME        *)
(* revision between the last one settled when the request arrived (its     *)
(* floor) and the newest one.                                              *)
(*                                                                         *)
(* The request that made a change returns success only when the change is  *)
(* settled: its client finds it in every list it asks for afterwards.  A   *)
(* request that found its change already made also returns success, and    *)
(* says nothing about lists: that client finds the change in them once it  *)
(* is settled, which the request that made it, or a later one, sees to.    *)
(***************************************************************************)
EXTENDS Naturals

CONSTANTS
    Requests,   \* slots in which HTTP requests are served
    Teams,
    Filters,    \* what a list can be restricted to: status, assignee, page
    MaxRev      \* bound: revisions of one team's tasks

VARIABLES
    rev,        \* [Teams -> Nat], committed changes of the team's tasks
    settled,    \* [Teams -> Nat], the changes no later list may lack
    acked,      \* [Teams -> Nat], the newest change its maker's client was told of
    told,       \* [Teams -> Nat], the newest change another client was told of
    call        \* the list request served in each slot

vars == <<rev, settled, acked, told, call>>

\* A list as the database or the cache returns it: the question it answers
\* and the revision of the team's tasks it was computed from.
Lists == [team : Teams, filter : Filters, rev : Nat]

\* A slot that serves no list request, one that serves one, one that has the
\* answer to it.
NoCall == [stage |-> "none"]
Open(t, f, n) == [stage |-> "open", team |-> t, filter |-> f, floor |-> n]
Answered(l) == [stage |-> "answered", list |-> l]

Init ==
    /\ rev = [t \in Teams |-> 0]
    /\ settled = [t \in Teams |-> 0]
    /\ acked = [t \in Teams |-> 0]
    /\ told = [t \in Teams |-> 0]
    /\ call = [r \in Requests |-> NoCall]

Ask(r) ==
    /\ call[r].stage = "none"
    /\ \E t \in Teams, f \in Filters :
         call' = [call EXCEPT ![r] = Open(t, f, settled[t])]
    /\ UNCHANGED <<rev, settled, acked, told>>

Answer(r) ==
    /\ call[r].stage = "open"
    /\ \E n \in call[r].floor .. rev[call[r].team] :
         call' = [call EXCEPT ![r] =
                    Answered([team |-> call[r].team,
                              filter |-> call[r].filter, rev |-> n])]
    /\ UNCHANGED <<rev, settled, acked, told>>

\* The answer has been written to the client, or the request failed.
Close(r) ==
    /\ call' = [call EXCEPT ![r] = NoCall]
    /\ UNCHANGED <<rev, settled, acked, told>>

\* The process dies with every request it was serving.
CloseAll ==
    /\ call' = [r \in Requests |-> NoCall]
    /\ UNCHANGED <<rev, settled, acked, told>>

Change(t) ==
    /\ rev[t] < MaxRev
    /\ rev' = [rev EXCEPT ![t] = rev[t] + 1]
    /\ UNCHANGED <<settled, acked, told, call>>

\* Changes settle, and the clients that made some of them may be told.
Settle(t) ==
    /\ \E n \in settled[t] .. rev[t], m \in acked[t] .. rev[t] :
         /\ m <= n
         /\ settled' = [settled EXCEPT ![t] = n]
         /\ acked' = [acked EXCEPT ![t] = m]
    /\ UNCHANGED <<rev, told, call>>

\* A client is told that its change is there, which somebody else made.
Confirm(t) ==
    /\ \E n \in told[t] .. rev[t] : told' = [told EXCEPT ![t] = n]
    /\ UNCHANGED <<rev, settled, acked, call>>

Next ==
    \/ \E r \in Requests : Ask(r) \/ Answer(r) \/ Close(r)
    \/ CloseAll
    \/ \E t \in Teams : Change(t) \/ Settle(t) \/ Confirm(t)

Spec == Init /\ [][Next]_vars
=============================================================================
