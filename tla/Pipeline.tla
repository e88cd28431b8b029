------------------------------ MODULE Pipeline ------------------------------
(***************************************************************************)
(* What every HTTP request goes through: Metrics around Recovery around    *)
(* the router of internal/controller (app.go wires them), and the counters *)
(* of internal/adapter/prometheus it ends up in.                           *)
(*                                                                         *)
(* A response is abstracted to its status: the one the handler asks for    *)
(* first is sent.  Metrics keeps its own copy, which is what it reports.   *)
(***************************************************************************)
EXTENDS Naturals

CONSTANTS
    Requests,   \* slots in which requests are served
    Routes,     \* the patterns RegisterRoutes has registered
    NoRoute,    \* what routeFromPattern makes of a request that matched none
    Statuses,   \* the statuses handlers and the mux answer with
    MaxServed   \* bound: requests that are let in

VARIABLES
    stage,      \* where each request is
    pattern,    \* r.Pattern, as the label made of it
    status,     \* metricsResponseWriter.statusCode, 0 when nothing is written
    sent,       \* the status net/http has sent, 0 when none
    requests,   \* requests_total: [labels counted so far -> Nat]
    errors,     \* errors_total, likewise
    target,     \* ghost: the route the client asked for
    started,    \* ghost: the response had begun when the handler panicked
    admitted      \* how many requests have been let in

pipelineVars == <<stage, pattern, status, sent, requests, errors, target,
                  started, admitted>>

PipelineStages == {"idle", "routing", "handling", "panicking", "returned",
                   "counted", "done"}

Labels == [route : Routes \cup {NoRoute}, status : Statuses]

\* Mutant: the client's errors are not counted.
RequestFails_ServerOnly(s) == s >= 500

RequestFails(s) == s >= 400

PipelineInit ==
    /\ stage = [r \in Requests |-> "idle"]
    /\ pattern = [r \in Requests |-> NoRoute]
    /\ status = [r \in Requests |-> 0]
    /\ sent = [r \in Requests |-> 0]
    /\ requests = <<>>
    /\ errors = <<>>
    /\ target = [r \in Requests |-> NoRoute]
    /\ started = [r \in Requests |-> FALSE]
    /\ admitted = 0

\* WithLabelValues(l).Inc(), which makes the counter of a new label.
ValueOf(counter, l) == IF l \in DOMAIN counter THEN counter[l] ELSE 0
Inc(counter, l) ==
    [m \in DOMAIN counter \cup {l} |->
        IF m = l THEN ValueOf(counter, l) + 1 ELSE counter[m]]

To(r, s) == stage' = [stage EXCEPT ![r] = s]
-----------------------------------------------------------------------------
\* Metrics, then Recovery, then the router are called.
Enter(r, route) ==
    /\ stage[r] = "idle"
    /\ admitted < MaxServed
    /\ admitted' = admitted + 1
    /\ To(r, "routing")
    /\ target' = [target EXCEPT ![r] = route]
    /\ UNCHANGED <<pattern, status, sent, requests, errors, started>>

\* Mutant: the status written last is kept.
WriteHeader_Last(r, s) ==
    /\ status' = [status EXCEPT ![r] = s]
    /\ sent' = [sent EXCEPT ![r] = IF @ = 0 THEN s ELSE @]

\* metricsResponseWriter.WriteHeader: the first call counts.
WriteHeader(r, s) ==
    IF status[r] # 0 THEN UNCHANGED <<status, sent>>
    ELSE /\ status' = [status EXCEPT ![r] = s]
         /\ sent' = [sent EXCEPT ![r] = IF @ = 0 THEN s ELSE @]

\* The mux notes the pattern of the path, cleaned, in the request and calls its
\* handler; or it answers itself: it redirects to the cleaned path, if that is
\* another one, and has no handler for a path or a method that is not served.
Redirect == 301
Refusals(route) == IF route \in Routes THEN {Redirect} ELSE {Redirect, 404, 405}

Route(r) ==
    /\ stage[r] = "routing"
    /\ pattern' = [pattern EXCEPT ![r] = target[r]]
    /\ \/ /\ target[r] \in Routes
          /\ To(r, "handling")
          /\ UNCHANGED <<status, sent>>
       \/ /\ \E s \in Statuses \cap Refusals(target[r]) : WriteHeader(r, s)
          /\ To(r, "returned")
    /\ UNCHANGED <<requests, errors, target, started, admitted>>

\* WriteJSON or WriteError, by the handler or a middleware before it.
Write(r, s) ==
    /\ stage[r] = "handling"
    /\ WriteHeader(r, s)
    /\ UNCHANGED <<stage, pattern, requests, errors, target, started, admitted>>

\* The handler returns, be it without having written anything.
HandlerReturns(r) ==
    /\ stage[r] = "handling"
    /\ To(r, "returned")
    /\ UNCHANGED <<pattern, status, sent, requests, errors, target, started, admitted>>

Panic(r) ==
    /\ stage[r] = "handling"
    /\ To(r, "panicking")
    /\ started' = [started EXCEPT ![r] = status[r] # 0]
    /\ UNCHANGED <<pattern, status, sent, requests, errors, target, admitted>>

\* Recovery: WriteError with 500, and the handler has returned after all.
Recover(r) ==
    /\ stage[r] = "panicking"
    /\ WriteHeader(r, 500)
    /\ To(r, "returned")
    /\ UNCHANGED <<pattern, requests, errors, target, started, admitted>>

Shown(r) == IF status[r] = 0 THEN 200 ELSE status[r]
Label(r) == [route |-> pattern[r], status |-> Shown(r)]

\* Metrics calls Observe: requests_total, and errors_total in a second step.
CountRequest(r) ==
    /\ stage[r] = "returned"
    /\ requests' = Inc(requests, Label(r))
    /\ To(r, "counted")
    /\ UNCHANGED <<pattern, status, sent, errors, target, started, admitted>>

CountError(r) ==
    /\ stage[r] = "counted"
    /\ errors' = IF RequestFails(Shown(r))
                 THEN Inc(errors, Label(r)) ELSE errors
    /\ To(r, "done")
    /\ UNCHANGED <<pattern, status, sent, requests, target, started, admitted>>

\* net/http ends the response, with 200 when no status was written.
Leave(r) ==
    /\ stage[r] = "done"
    /\ To(r, "idle")
    /\ pattern' = [pattern EXCEPT ![r] = NoRoute]
    /\ status' = [status EXCEPT ![r] = 0]
    /\ sent' = [sent EXCEPT ![r] = 0]
    /\ target' = [target EXCEPT ![r] = NoRoute]
    /\ started' = [started EXCEPT ![r] = FALSE]
    /\ UNCHANGED <<requests, errors, admitted>>

PipelineStep(r) ==
    \/ Route(r)
    \/ \E s \in Statuses \ {Redirect} : Write(r, s)
    \/ HandlerReturns(r) \/ Panic(r) \/ Recover(r)
    \/ CountRequest(r) \/ CountError(r)

PipelineNext ==
    \E r \in Requests :
        \/ \E route \in Routes \cup {NoRoute} : Enter(r, route)
        \/ PipelineStep(r)
        \/ Leave(r)

PipelineSpec == PipelineInit /\ [][PipelineNext]_pipelineVars
-----------------------------------------------------------------------------
PipelineTypeOK ==
    /\ stage \in [Requests -> PipelineStages]
    /\ pattern \in [Requests -> Routes \cup {NoRoute}]
    /\ status \in [Requests -> Statuses \cup {0}]
    /\ sent \in [Requests -> Statuses \cup {0}]
    /\ DOMAIN requests \subseteq Labels /\ requests \in [DOMAIN requests -> Nat]
    /\ DOMAIN errors \subseteq Labels /\ errors \in [DOMAIN errors -> Nat]
    /\ target \in [Requests -> Routes \cup {NoRoute}]
    /\ started \in [Requests -> BOOLEAN]
    /\ admitted \in 0 .. MaxServed

\* The status the client of r receives.
Received(r) == IF sent[r] = 0 THEN 200 ELSE sent[r]

(***************************************************************************)
(* requests_total tells what clients received: a count grows by one, for   *)
(* one request that ends, under the route it asked for and the status it   *)
(* is sent, whether its handler wrote a status, none, two, or panicked.    *)
(***************************************************************************)
CountedAsReceived ==
    [][requests' # requests =>
         \E r \in Requests :
            /\ stage[r] = "returned" /\ stage'[r] = "counted"
            /\ requests' = Inc(requests,
                                  [route |-> target[r], status |-> Received(r)])
      ]_pipelineVars

(***************************************************************************)
(* errors_total is requests_total of the statuses from 400 on, as its help *)
(* text says, but for requests between the two counters: at no moment do   *)
(* they hold more errors than requests under a label.                      *)
(***************************************************************************)
ErrorsAreRequests ==
    \A l \in Labels :
        /\ ValueOf(errors, l) <= ValueOf(requests, l)
        /\ l.status < 400 => l \notin DOMAIN errors
        /\ l.status >= 400 /\ (\A r \in Requests : stage[r] # "counted")
              => ValueOf(errors, l) = ValueOf(requests, l)

(***************************************************************************)
(* A handler that panics before it has begun to answer is answered for     *)
(* with 500; one that panics later leaves the status it sent.              *)
(***************************************************************************)
PanicsAreAnswered ==
    [][\A r \in Requests :
          stage[r] = "panicking" /\ stage'[r] = "returned" =>
              IF started[r] THEN Received(r)' = Received(r)
                            ELSE Received(r)' = 500]_pipelineVars
=============================================================================
