---------------------------- MODULE EmailBreaker ----------------------------
(***************************************************************************)
(* SendInvitation of internal/adapter/email/client.go: the circuit breaker *)
(* of one process between the invitations it serves and the mail service.  *)
(*                                                                         *)
(* The breaker is github.com/sony/gobreaker, an external machine the       *)
(* client configures.  It decides before a call whether to make it, and    *)
(* hears of its result after it; in between it is unlocked, and other      *)
(* calls begin and end.  Every change of its state starts a generation, a  *)
(* number each call carries, and results of older generations are ignored. *)
(* Only equality with the present generation is ever read, so the model    *)
(* keeps, for the numbers, the set of calls in flight that carry it.       *)
(*                                                                         *)
(* Time passes in Ticks.  Ghosts: streak, ago and probes remember what     *)
(* happened, and not what the breaker made of it.                          *)
(***************************************************************************)
EXTENDS Naturals

CONSTANTS
    Requests,           \* slots in which the process serves invitations
    MaxRequests,        \* breakerMaxRequests
    FailureThreshold,   \* breakerFailureThreshold
    OpenTimeout,        \* breakerOpenTimeout, in ticks
    Faults              \* subset of FaultKinds

(***************************************************************************)
(*  "outage"    the service goes down, or silent, and comes back           *)
(*  "abandon"   the inviting client disconnects: its context is cancelled  *)
(*  "restart"   the process dies and starts again                          *)
(***************************************************************************)
FaultKinds == {"outage", "abandon", "restart"}

ASSUME LimitsAssumption ==
    /\ MaxRequests \in Nat \ {0}
    /\ FailureThreshold \in Nat \ {0}
    /\ OpenTimeout \in Nat \ {0}
ASSUME FaultAssumption == Faults \subseteq FaultKinds

VARIABLES
    breaker,    \* the state, the counts and what is left of the open timeout
    current,    \* the calls in flight that carry the present generation
    pc,         \* where each invitation is
    result,     \* how its call ended
    mailed,     \* the invitations whose mail the service has sent
    service,    \* "up", "down" (answers with errors, or refuses), "silent"
    streak,     \* ghost: failed calls in a row, of those begun since closing
    ago,        \* ghost: ticks since the breaker opened, at most OpenTimeout
    probes      \* ghost: calls begun since then and before it closed

vars == <<breaker, current, pc, result, mailed, service, streak, ago, probes>>

States == {"closed", "open", "half_open"}
Stages == {"idle", "asking", "sending", "reporting", "answered"}
Results == {"none", "success", "error", "gave_up", "refused"}
Breakers == [state : States, requests : 0 .. MaxRequests,
             successes : 0 .. MaxRequests, failures : 0 .. FailureThreshold - 1,
             wait : 0 .. OpenTimeout]

Goto(r, stage) == pc' = [pc EXCEPT ![r] = stage]
-----------------------------------------------------------------------------
(* gobreaker, as a function of the breaker. *)

NewGeneration(s) ==
    [state |-> s, requests |-> 0, successes |-> 0, failures |-> 0,
     wait |-> IF s = "open" THEN OpenTimeout ELSE 0]

CurrentState(b) ==
    IF b.state = "open" /\ b.wait = 0 THEN NewGeneration("half_open") ELSE b

\* Mutant: the limit of a half open breaker is not looked at.
Ready_Unlimited(b) == b.state # "open"

Ready(b) ==
    \/ b.state = "closed"
    \/ b.state = "half_open" /\ b.requests < MaxRequests

\* Bound: requests and successes above MaxRequests are not told apart.
Counted(n) == IF n < MaxRequests THEN n + 1 ELSE n

OnRequest(b) == [b EXCEPT !.requests = Counted(@)]

\* Mutant: the failures since the last success are not forgotten.
OnSuccess_Total(b) ==
    IF b.state = "half_open" /\ Counted(b.successes) = MaxRequests
    THEN NewGeneration("closed")
    ELSE [b EXCEPT !.successes = Counted(@)]

OnSuccess(b) ==
    IF b.state = "half_open" /\ Counted(b.successes) = MaxRequests
    THEN NewGeneration("closed")
    ELSE [b EXCEPT !.successes = Counted(@), !.failures = 0]

ReadyToTrip(failures) == failures >= FailureThreshold

OnFailure(b) ==
    IF b.state = "half_open" \/ ReadyToTrip(b.failures + 1)
    THEN NewGeneration("open")
    ELSE [b EXCEPT !.failures = @ + 1, !.successes = 0]

\* Mutant: results of older generations count.
Counts_Always(r) == TRUE

Counts(r) == r \in current

\* afterRequest: what the breaker becomes when the call of r ended.
Told(r, success) ==
    LET b == CurrentState(breaker)
    IN  IF b.state # breaker.state \/ ~Counts(r) THEN b
        ELSE IF success THEN OnSuccess(b)
        ELSE OnFailure(b)
-----------------------------------------------------------------------------
Init ==
    /\ breaker = NewGeneration("closed")
    /\ current = {}
    /\ pc = [r \in Requests |-> "idle"]
    /\ result = [r \in Requests |-> "none"]
    /\ mailed = {}
    /\ service = "up"
    /\ streak = 0
    /\ ago = OpenTimeout
    /\ probes = 0

\* Invite has inserted the membership and calls SendInvitation.
Ask(r) ==
    /\ pc[r] = "idle"
    /\ Goto(r, "asking")
    /\ UNCHANGED <<breaker, current, result, mailed, service, streak, ago, probes>>

\* beforeRequest lets the call through.
Admit(r) ==
    LET b == CurrentState(breaker)
    IN  /\ pc[r] = "asking"
        /\ Ready(b)
        /\ breaker' = OnRequest(b)
        /\ current' = {r} \cup (IF b.state = breaker.state THEN current ELSE {})
        /\ probes' = IF b.state = "closed" THEN probes ELSE probes + 1
        /\ Goto(r, "sending")
        /\ UNCHANGED <<result, mailed, service, streak, ago>>

\* beforeRequest returns ErrOpenState or ErrTooManyRequests.
Refuse(r) ==
    /\ pc[r] = "asking"
    /\ ~Ready(CurrentState(breaker))
    /\ result' = [result EXCEPT ![r] = "refused"]
    /\ Goto(r, "answered")
    /\ UNCHANGED <<breaker, current, mailed, service, streak, ago, probes>>

\* The service sends the mail, maybe when nobody waits for its answer.
Deliver(r) ==
    /\ service # "down"
    /\ pc[r] \in {"sending", "reporting", "answered"}
    /\ result[r] \in {"none", "gave_up"}
    /\ r \notin mailed
    /\ mailed' = mailed \cup {r}
    /\ UNCHANGED <<breaker, current, pc, result, service, streak, ago, probes>>

\* httpClient.Do returns, and the status is looked at.
Ended(r, how) ==
    /\ pc[r] = "sending"
    /\ result' = [result EXCEPT ![r] = how]
    /\ Goto(r, "reporting")
    /\ UNCHANGED <<breaker, current, mailed, service, streak, ago, probes>>

Succeed(r) == service = "up" /\ r \in mailed /\ Ended(r, "success")

\* Mutant: the status of the answer is not looked at.
Err_AnyStatus(r) == service = "down" /\ Ended(r, "success")

Err(r) == service = "down" /\ Ended(r, "error")

\* Mutant: the HTTP client has no timeout.
TimeOut_Never(r) == FALSE /\ Ended(r, "gave_up")

\* The timeout of the HTTP client.  A slow service is a silent one.
TimeOut(r) == service = "silent" /\ Ended(r, "gave_up")

\* Mutant: the call goes on elsewhere, and the breaker never hears of it.
Abandon_Untold(r) ==
    /\ "abandon" \in Faults
    /\ pc[r] = "sending"
    /\ result' = [result EXCEPT ![r] = "gave_up"]
    /\ Goto(r, "answered")
    /\ UNCHANGED <<breaker, current, mailed, service, streak, ago, probes>>

Abandon(r) == "abandon" \in Faults /\ Ended(r, "gave_up")

\* afterRequest.
Report(r) ==
    LET b == Told(r, result[r] = "success")
    IN  /\ pc[r] = "reporting"
        /\ breaker' = b
        /\ current' = IF b.state = breaker.state THEN current \ {r} ELSE {}
        /\ streak' = IF b.state = "closed" /\ breaker.state # "closed" THEN 0
                     ELSE IF r \notin current THEN streak
                     ELSE IF result[r] = "success" THEN 0
                     ELSE IF streak < FailureThreshold THEN streak + 1
                     ELSE streak
        /\ ago' = IF b.state = "open" /\ breaker.state # "open" THEN 0 ELSE ago
        /\ probes' = IF b.state # breaker.state /\ b.state # "half_open"
                     THEN 0 ELSE probes
        /\ Goto(r, "answered")
        /\ UNCHANGED <<result, mailed, service>>

\* Invite logs the error, if there is one, and succeeds.
Return(r) ==
    /\ pc[r] = "answered"
    /\ Goto(r, "idle")
    /\ result' = [result EXCEPT ![r] = "none"]
    /\ mailed' = mailed \ {r}
    /\ UNCHANGED <<breaker, current, service, streak, ago, probes>>
-----------------------------------------------------------------------------
Tick ==
    /\ breaker.wait > 0 \/ ago < OpenTimeout
    /\ breaker' = [breaker EXCEPT !.wait = IF @ > 0 THEN @ - 1 ELSE 0]
    /\ ago' = IF ago < OpenTimeout THEN ago + 1 ELSE ago
    /\ UNCHANGED <<current, pc, result, mailed, service, streak, probes>>

Turn(s) ==
    /\ "outage" \in Faults
    /\ service' = s
    /\ UNCHANGED <<breaker, current, pc, result, mailed, streak, ago, probes>>

Restart ==
    /\ "restart" \in Faults
    /\ breaker' = NewGeneration("closed")
    /\ current' = {}
    /\ pc' = [r \in Requests |-> "idle"]
    /\ result' = [r \in Requests |-> "none"]
    /\ mailed' = {}
    /\ streak' = 0
    /\ ago' = OpenTimeout
    /\ probes' = 0
    /\ UNCHANGED service

Step(r) ==
    \/ Admit(r) \/ Refuse(r)
    \/ Deliver(r) \/ Succeed(r) \/ Err(r) \/ TimeOut(r)
    \/ Report(r) \/ Return(r)

Next ==
    \/ \E r \in Requests : Ask(r) \/ Step(r) \/ Abandon(r)
    \/ Tick
    \/ \E s \in {"up", "down", "silent"} : Turn(s)
    \/ Restart

Spec == Init /\ [][Next]_vars

\* Calls end: the service answers or the client's timeout does.  Time passes.
FairSpec ==
    /\ Spec
    /\ WF_vars(Tick)
    /\ \A r \in Requests : WF_vars(Step(r))
-----------------------------------------------------------------------------
TypeOK ==
    /\ breaker \in Breakers
    /\ current \subseteq Requests
    /\ pc \in [Requests -> Stages]
    /\ result \in [Requests -> Results]
    /\ mailed \subseteq Requests
    /\ service \in {"up", "down", "silent"}
    /\ streak \in 0 .. FailureThreshold
    /\ ago \in 0 .. OpenTimeout
    /\ probes \in 0 .. MaxRequests

(***************************************************************************)
(* A failing service is spared: once the breaker has opened, and until it  *)
(* closes, a call is made only after a full open timeout, and at most      *)
(* MaxRequests of them, however many invitations wait, whichever late      *)
(* results come in and however often it opens again.                       *)
(***************************************************************************)
TrialsAreSpaced ==
    [][\A r \in Requests :
          pc[r] = "asking" /\ pc'[r] = "sending" /\ breaker'.state # "closed"
              => ago = OpenTimeout /\ probes < MaxRequests]_vars

(***************************************************************************)
(* A closed breaker opens when, and only when, FailureThreshold calls in a *)
(* row have failed, all made since it closed, with no success reported     *)
(* between them: calls that were under way before an earlier opening do    *)
(* not count, and no number of successes long ago puts it off.             *)
(***************************************************************************)
OpensWhenEarned ==
    [][breaker.state = "closed" =>
          (breaker'.state = "open" <=> streak' = FailureThreshold)]_vars

(***************************************************************************)
(* A breaker that has opened closes only on the success of a call made on  *)
(* trial after the timeout, never on the late success of a call made       *)
(* before.  (Or by a restart.)                                             *)
(***************************************************************************)
ClosingIsEarned ==
    [][breaker.state # "closed" /\ breaker'.state = "closed" =>
          \/ \E r \in current : /\ breaker.state = "half_open"
                                /\ pc[r] = "reporting"
                                /\ result[r] = "success"
          \/ pc' = [r \in Requests |-> "idle"]]_vars

(***************************************************************************)
(* The client implements what SendInvitation promises.                     *)
(***************************************************************************)
Call(r) ==
    CASE pc[r] = "idle" -> "none"
      [] pc[r] = "answered" ->
           IF result[r] = "success" THEN "sent" ELSE "failed"
      [] OTHER -> "open"

Promise == INSTANCE Mailer WITH call <- [r \in Requests |-> Call(r)]

MailerSpec == Promise!Spec

(***************************************************************************)
(* An invitation does not hang on the mail service, whatever that does.    *)
(***************************************************************************)
InvitationsAnswered ==
    \A r \in Requests : pc[r] = "asking" ~> pc[r] = "idle"

(***************************************************************************)
(* The breaker heals: when the service stays up, nobody gives up waiting   *)
(* for it and invitations keep coming, it is closed for good from some     *)
(* moment on.  A half open breaker admits calls again only because every   *)
(* trial call reports its end.                                             *)
(***************************************************************************)
BreakerHeals ==
    /\ <>[](service = "up")
    /\ <>[][\A r \in Requests : ~Abandon(r)]_vars
    /\ []<>(\E r \in Requests : pc[r] = "asking")
    => <>[](breaker.state = "closed")
=============================================================================
