------------------------------ MODULE Process ------------------------------
(***************************************************************************)
(* One process of the service: its lifecycle (Lifecycle) with the requests *)
(* of its connections on their way through the middleware (Pipeline).  The *)
(* handler of a connection is its request in the pipeline: it begins and   *)
(* ends with it, and ends where it is when the process exits.              *)
(***************************************************************************)
EXTENDS Lifecycle, FiniteSets, FiniteSetsExt

CONSTANTS Routes, NoRoute, Statuses, MaxServed  \* as in Pipeline

ASSUME StatusAssumption ==
    Statuses \subseteq 200 .. 599 /\ {200, 404, 500} \subseteq Statuses
ASSUME RouteAssumption == NoRoute \notin Routes
ASSUME BoundAssumption == MaxServed \in Nat /\ IsFiniteSet(Connections)

VARIABLES stage, pattern, status, sent, requests, errors, target, started, admitted

P == INSTANCE Pipeline WITH Requests <- Connections

pipelineVars == <<stage, pattern, status, sent, requests, errors, target,
                  started, admitted>>
processVars == <<vars, pipelineVars>>

ProcessInit == Init /\ P!PipelineInit

Serve(c) ==
    \/ /\ Begin(c)
       /\ \E route \in Routes \cup {NoRoute} : P!Enter(c, route)
    \/ /\ Alive
       /\ c \in Running
       /\ P!PipelineStep(c)
       /\ UNCHANGED vars
    \/ /\ stage[c] = "handling"
       /\ Use(c)
       /\ UNCHANGED pipelineVars
    \/ /\ Answer(c)
       /\ P!Leave(c)

\* Run, the goroutine, the operator and clients touch no request.
Elsewhere ==
    /\ \/ MainStep \/ ServerStep \/ AcceptFails \/ Signal
       \/ \E c \in Connections : Accept(c) \/ Disconnect(c)
    /\ UNCHANGED pipelineVars

ProcessNext == Elsewhere \/ \E c \in Connections : Serve(c)

ProcessSpec ==
    /\ ProcessInit /\ [][ProcessNext]_processVars
    /\ WF_vars(MainStep) /\ WF_vars(ServerStep)
-----------------------------------------------------------------------------
PipelineTypeOK == P!PipelineTypeOK
CountedAsReceived == P!CountedAsReceived
ErrorsAreRequests == P!ErrorsAreRequests
PanicsAreAnswered == P!PanicsAreAnswered

(***************************************************************************)
(* A process that is going to exit with 0 has answered and counted every   *)
(* request it began to serve, those that began during the shutdown, those  *)
(* whose handlers panicked and those that matched no route included.       *)
(***************************************************************************)
ServedAndCounted ==
    outcome = "ok" => SumFunction(requests) = admitted
=============================================================================
