------------------------- MODULE EmailBreakerProofs -------------------------
(***************************************************************************)
(* What the circuit breaker guarantees for every number of invitations,    *)
(* every threshold and timeout, under every fault.                         *)
(***************************************************************************)
EXTENDS EmailBreaker, TLAPS

(***************************************************************************)
(* What an invitation has in hand where it is; only calls under way carry  *)
(* the present generation.                                                 *)
(***************************************************************************)
InHand ==
    /\ \A r \in Requests :
         /\ pc[r] \in {"idle", "asking", "sending"} => result[r] = "none"
         /\ pc[r] = "reporting" => result[r] \in {"success", "error", "gave_up"}
         /\ pc[r] = "answered" => result[r] # "none"
         /\ pc[r] \in {"idle", "asking"} => r \notin mailed
         /\ result[r] = "success" => r \in mailed
    /\ current \subseteq {r \in Requests : pc[r] \in {"sending", "reporting"}}

(***************************************************************************)
(* The counts and the timer of the breaker agree with what happened.       *)
(***************************************************************************)
Accurate ==
    /\ breaker.state = "closed" => probes = 0 /\ streak = breaker.failures
    /\ breaker.state = "open" =>
         current = {} /\ probes = 0 /\ breaker.wait + ago = OpenTimeout
    /\ breaker.state = "half_open" =>
         probes = breaker.requests /\ ago = OpenTimeout

Inv == TypeOK /\ InHand /\ Accurate

\* Opening starts the timer, and every new generation starts with no counts.
LEMMA Fresh ==
    ASSUME NEW s \in States
    PROVE  /\ NewGeneration(s) \in Breakers
           /\ NewGeneration(s).state = s
           /\ NewGeneration(s).requests = 0
           /\ NewGeneration(s).failures = 0
           /\ s = "open" => NewGeneration(s).wait = OpenTimeout
BY LimitsAssumption DEF NewGeneration, Breakers, States

\* The present state: an open breaker whose timeout has ended is half open.
LEMMA Present ==
    ASSUME breaker \in Breakers
    PROVE  \/ CurrentState(breaker) = breaker
           \/ /\ CurrentState(breaker) = NewGeneration("half_open")
              /\ breaker.state = "open" /\ breaker.wait = 0
BY DEF CurrentState

LEMMA Count ==
    ASSUME NEW n \in 0 .. MaxRequests
    PROVE  Counted(n) \in 0 .. MaxRequests /\ (n < MaxRequests => Counted(n) = n + 1)
BY LimitsAssumption DEF Counted

\* What afterRequest makes of the breaker, case by case.
LEMMA Telling ==
    ASSUME TypeOK, NEW r \in Requests, NEW success \in BOOLEAN
    PROVE  LET b == Told(r, success)
           IN  \/ b = breaker /\ r \notin current
               \/ b = NewGeneration("half_open") /\ breaker.state = "open"
                                                 /\ breaker.wait = 0
               \/ /\ r \in current /\ breaker.state # "open" /\ success
                  /\ b = NewGeneration("closed") /\ breaker.state = "half_open"
               \/ /\ r \in current /\ success
                  /\ b = [breaker EXCEPT !.successes = Counted(@), !.failures = 0]
               \/ /\ r \in current /\ ~success
                  /\ b = NewGeneration("open")
                  /\ \/ breaker.state = "half_open"
                     \/ breaker.failures + 1 = FailureThreshold
                     \/ breaker.state = "open"
               \/ /\ r \in current /\ ~success /\ breaker.state # "half_open"
                  /\ breaker.failures + 1 < FailureThreshold
                  /\ b = [breaker EXCEPT !.failures = @ + 1, !.successes = 0]
<1> DEFINE c == CurrentState(breaker)
<1>1. breaker \in Breakers  BY DEF TypeOK
<1>2. breaker.failures \in 0 .. FailureThreshold - 1 /\ FailureThreshold \in Nat
  BY <1>1, LimitsAssumption DEF Breakers
<1>3. CASE c # breaker
  <2>1. c = NewGeneration("half_open") /\ breaker.state = "open" /\ breaker.wait = 0
    BY <1>1, <1>3, Present
  <2>2. c.state # breaker.state  BY <2>1, Fresh DEF States
  <2> QED BY <2>1, <2>2 DEF Told
<1>4. CASE c = breaker /\ r \notin current
  BY <1>4 DEF Told, Counts
<1>5. CASE c = breaker /\ r \in current /\ success
  BY <1>1, <1>5 DEF Told, Counts, OnSuccess
<1>6. CASE c = breaker /\ r \in current /\ ~success
  <2>1. Told(r, success) = OnFailure(breaker)  BY <1>6 DEF Told, Counts
  <2>2. ReadyToTrip(breaker.failures + 1) <=> breaker.failures + 1 = FailureThreshold
    BY <1>2 DEF ReadyToTrip
  <2>3. CASE breaker.state = "half_open" \/ ReadyToTrip(breaker.failures + 1)
    BY <1>6, <2>1, <2>2, <2>3 DEF OnFailure
  <2>4. CASE ~(breaker.state = "half_open" \/ ReadyToTrip(breaker.failures + 1))
    <3>1. breaker.failures + 1 < FailureThreshold  BY <1>2, <2>2, <2>4
    <3> QED BY <1>6, <2>1, <2>4, <3>1 DEF OnFailure
  <2> QED BY <2>3, <2>4
<1> QED BY <1>3, <1>4, <1>5, <1>6

(***************************************************************************)
(* The two steps in which the breaker decides or learns.                   *)
(***************************************************************************)
LEMMA AdmitStep ==
    ASSUME Inv, NEW r \in Requests, Admit(r)
    PROVE  Inv' /\ (breaker'.state # "closed" => ago = OpenTimeout /\ probes < MaxRequests)
<1> DEFINE b == CurrentState(breaker)
<1> USE LimitsAssumption
<1>1. breaker \in Breakers /\ b \in Breakers
  BY Present, Fresh DEF Inv, TypeOK, States
<1>2. b.state # "closed" =>
        probes = b.requests /\ b.requests < MaxRequests /\ ago = OpenTimeout
  <2>1. CASE b = breaker
    BY <2>1, <1>1 DEF Admit, Ready, Inv, Accurate, Breakers, States
  <2>2. CASE b # breaker
    <3>1. b = NewGeneration("half_open") /\ breaker.state = "open" /\ breaker.wait = 0
      BY <1>1, <2>2, Present
    <3> QED BY <3>1, Fresh DEF Inv, Accurate, TypeOK, States
  <2> QED BY <2>1, <2>2
<1>3. b.state = "closed" => b = breaker
  BY <1>1, Present, Fresh DEF States
<1>4. /\ breaker' = [b EXCEPT !.requests = Counted(@)]
      /\ breaker' \in Breakers /\ breaker'.state = b.state
      /\ breaker'.failures = b.failures
      /\ b.requests < MaxRequests => breaker'.requests = b.requests + 1
  BY <1>1, Count DEF Admit, OnRequest, Breakers
<1>5. b.state # "open"  BY DEF Admit, Ready
<1>6. TypeOK'
  <2>1. probes' \in 0 .. MaxRequests
    BY <1>1, <1>2 DEF Admit, Inv, TypeOK, Breakers
  <2> QED BY <1>4, <2>1 DEF Admit, Inv, TypeOK, Goto, Stages
<1>7. InHand'
  BY DEF Admit, Inv, InHand, TypeOK, Goto
<1>8. Accurate'
  BY <1>1, <1>2, <1>3, <1>4, <1>5 DEF Admit, Inv, Accurate, Breakers
<1> QED BY <1>2, <1>4, <1>6, <1>7, <1>8 DEF Inv

LEMMA ReportStep ==
    ASSUME Inv, NEW r \in Requests, Report(r)
    PROVE  /\ Inv'
           /\ breaker.state = "closed" =>
                (breaker'.state = "open" <=> streak' = FailureThreshold)
           /\ breaker.state # "closed" /\ breaker'.state = "closed" =>
                r \in current /\ breaker.state = "half_open" /\ result[r] = "success"
<1> DEFINE success == result[r] = "success"
<1> USE LimitsAssumption
<1>1. breaker \in Breakers  BY DEF Inv, TypeOK
<1>2. breaker' = Told(r, success)  BY DEF Report
<1>3. \/ breaker' = breaker /\ r \notin current
      \/ breaker' = NewGeneration("half_open") /\ breaker.state = "open"
                                               /\ breaker.wait = 0
      \/ /\ r \in current /\ success
         /\ breaker' = NewGeneration("closed") /\ breaker.state = "half_open"
      \/ /\ r \in current /\ success
         /\ breaker' = [breaker EXCEPT !.successes = Counted(@), !.failures = 0]
      \/ /\ r \in current /\ ~success
         /\ breaker' = NewGeneration("open")
         /\ \/ breaker.state = "half_open"
            \/ breaker.failures + 1 = FailureThreshold
            \/ breaker.state = "open"
      \/ /\ r \in current /\ ~success /\ breaker.state # "half_open"
         /\ breaker.failures + 1 < FailureThreshold
         /\ breaker' = [breaker EXCEPT !.failures = @ + 1, !.successes = 0]
  <2>1. success \in BOOLEAN  OBVIOUS
  <2>2. TypeOK  BY DEF Inv
  <2> HIDE DEF success
  <2> QED BY <1>2, <2>1, <2>2, Telling
<1>4. breaker.state = "open" => r \notin current  BY DEF Inv, Accurate
<1>5. breaker' \in Breakers
  <2>1. Counted(breaker.successes) \in 0 .. MaxRequests
    BY <1>1, Count DEF Breakers
  <2>2. \A n \in 0 .. MaxRequests, f \in 0 .. FailureThreshold - 1 :
          [breaker EXCEPT !.successes = n, !.failures = f] \in Breakers
    BY <1>1 DEF Breakers
  <2>3. 0 \in 0 .. MaxRequests /\ 0 \in 0 .. FailureThreshold - 1
    OBVIOUS
  <2>4. [breaker EXCEPT !.successes = Counted(@), !.failures = 0] \in Breakers
    BY <2>1, <2>2, <2>3
  <2>5. ASSUME breaker.failures + 1 < FailureThreshold
        PROVE  [breaker EXCEPT !.failures = @ + 1, !.successes = 0] \in Breakers
    <3>1. breaker.failures + 1 \in 0 .. FailureThreshold - 1
      BY <1>1, <2>5 DEF Breakers
    <3>2. [breaker EXCEPT !.failures = @ + 1, !.successes = 0]
            = [breaker EXCEPT !.successes = 0, !.failures = breaker.failures + 1]
      BY <1>1 DEF Breakers
    <3> QED BY <2>2, <2>3, <3>1, <3>2
  <2> QED BY <1>1, <1>3, <2>4, <2>5, Fresh DEF States
<1>6. TypeOK'
  <2>1. streak' \in 0 .. FailureThreshold /\ ago' \in 0 .. OpenTimeout
        /\ probes' \in 0 .. MaxRequests
    BY DEF Report, Inv, TypeOK
  <2>2. current' \subseteq Requests  BY DEF Report, Inv, TypeOK
  <2> QED BY <1>5, <2>1, <2>2 DEF Report, Inv, TypeOK, Goto, Stages
<1>7. InHand'
  BY DEF Report, Inv, InHand, TypeOK, Goto
<1>8. Accurate' /\ (breaker.state = "closed" =>
                      (breaker'.state = "open" <=> streak' = FailureThreshold))
  <2> USE <1>1, <1>4, Fresh DEF Report, Inv, Accurate, TypeOK, Breakers, States
  <2>1. CASE breaker' = breaker /\ r \notin current  BY <1>2, <2>1
  <2>2. CASE breaker' = NewGeneration("half_open") /\ breaker.state = "open"
             /\ breaker.wait = 0
    BY <1>2, <2>2
  <2>3. CASE /\ r \in current /\ success
             /\ breaker' = NewGeneration("closed") /\ breaker.state = "half_open"
    BY <1>2, <2>3
  <2>4. CASE /\ r \in current /\ success
             /\ breaker' = [breaker EXCEPT !.successes = Counted(@), !.failures = 0]
    BY <1>2, <2>4
  <2>5. CASE /\ r \in current /\ ~success
             /\ breaker' = NewGeneration("open")
             /\ \/ breaker.state = "half_open"
                \/ breaker.failures + 1 = FailureThreshold
                \/ breaker.state = "open"
    BY <1>2, <2>5
  <2>6. CASE /\ r \in current /\ ~success /\ breaker.state # "half_open"
             /\ breaker.failures + 1 < FailureThreshold
             /\ breaker' = [breaker EXCEPT !.failures = @ + 1, !.successes = 0]
    <3>1. /\ breaker'.state = breaker.state /\ breaker'.wait = breaker.wait
          /\ breaker'.requests = breaker.requests
          /\ breaker'.failures = breaker.failures + 1
          /\ breaker.state = "closed"
      BY <2>6
    <3>2. streak = breaker.failures /\ streak' = streak + 1
          /\ ago' = ago /\ probes' = probes /\ current' = current \ {r}
      BY <2>6, <3>1
    <3> QED BY <2>6, <3>1, <3>2
  <2> QED BY <1>3, <2>1, <2>2, <2>3, <2>4, <2>5, <2>6
<1>9. breaker.state # "closed" /\ breaker'.state = "closed" =>
        r \in current /\ breaker.state = "half_open" /\ result[r] = "success"
  BY <1>1, <1>3, <1>4, Fresh DEF Breakers, States
<1> QED BY <1>6, <1>7, <1>8, <1>9 DEF Inv

LEMMA Initially == Init => Inv
BY LimitsAssumption, Fresh
   DEF Init, Inv, TypeOK, InHand, Accurate, Stages, Results, States, NewGeneration

LEMMA Invariance == Inv /\ [Next]_vars => Inv'
<1> SUFFICES ASSUME Inv, [Next]_vars PROVE Inv'  OBVIOUS
<1> USE LimitsAssumption
<1>1. ASSUME NEW r \in Requests, Ask(r) PROVE Inv'
  BY <1>1 DEF Ask, Inv, TypeOK, InHand, Accurate, Goto, Stages
<1>2. ASSUME NEW r \in Requests, Admit(r) PROVE Inv'  BY <1>2, AdmitStep
<1>3. ASSUME NEW r \in Requests, Refuse(r) PROVE Inv'
  BY <1>3 DEF Refuse, Inv, TypeOK, InHand, Accurate, Goto, Stages, Results
<1>4. ASSUME NEW r \in Requests, Deliver(r) PROVE Inv'
  BY <1>4 DEF Deliver, Inv, TypeOK, InHand, Accurate
<1>5. ASSUME NEW r \in Requests, NEW how \in {"success", "error", "gave_up"},
             Ended(r, how), how = "success" => r \in mailed
      PROVE  Inv'
  BY <1>5 DEF Ended, Inv, TypeOK, InHand, Accurate, Goto, Stages, Results
<1>6. ASSUME NEW r \in Requests, Report(r) PROVE Inv'  BY <1>6, ReportStep
<1>7. ASSUME NEW r \in Requests, Return(r) PROVE Inv'
  BY <1>7 DEF Return, Inv, TypeOK, InHand, Accurate, Goto, Stages, Results
<1>8. CASE Tick
  <2>1. breaker \in Breakers  BY DEF Inv, TypeOK
  <2>2. /\ breaker' \in Breakers /\ breaker'.state = breaker.state
        /\ breaker'.requests = breaker.requests
        /\ breaker'.failures = breaker.failures
        /\ breaker'.wait = IF breaker.wait > 0 THEN breaker.wait - 1 ELSE 0
    BY <1>8, <2>1 DEF Tick, Breakers
  <2>3. TypeOK' /\ InHand'
    BY <1>8, <2>2 DEF Tick, Inv, TypeOK, InHand
  <2>4. Accurate'
    BY <1>8, <2>1, <2>2 DEF Tick, Inv, TypeOK, Accurate, Breakers
  <2> QED BY <2>3, <2>4 DEF Inv
<1>9. ASSUME NEW s \in {"up", "down", "silent"}, Turn(s) PROVE Inv'
  BY <1>9 DEF Turn, Inv, TypeOK, InHand, Accurate
<1>10. CASE Restart
  BY <1>10, Fresh
     DEF Restart, Inv, TypeOK, InHand, Accurate, Stages, Results, States
<1>11. CASE UNCHANGED vars
  BY <1>11 DEF vars, Inv, TypeOK, InHand, Accurate
<1> QED
  BY <1>1, <1>2, <1>3, <1>4, <1>5, <1>6, <1>7, <1>8, <1>9, <1>10, <1>11
     DEF Next, Step, Succeed, Err, TimeOut, Abandon

LEMMA Always == Spec => []Inv
BY Initially, Invariance, PTL DEF Spec

\* Every variable of the mail client keeps its type.
THEOREM TypeCorrect == Spec => []TypeOK
<1>1. Inv => TypeOK  BY DEF Inv
<1> QED BY <1>1, Always, PTL

\* A step other than Admit and Report neither admits a call nor changes the
\* state of the breaker, except Restart.
LEMMA Elsewhere ==
    ASSUME Inv, [Next]_vars,
           \A r \in Requests : ~Admit(r) /\ ~Report(r), ~Restart
    PROVE  /\ \A r \in Requests : pc[r] = "asking" => pc'[r] # "sending"
           /\ breaker'.state = breaker.state
           /\ streak' = streak
<1> USE DEF Inv, TypeOK
<1>1. ASSUME NEW q \in Requests, Ask(q) \/ Refuse(q) \/ Deliver(q)
                                 \/ Return(q) \/ (\E how \in Results : Ended(q, how))
      PROVE  /\ \A r \in Requests : pc[r] = "asking" => pc'[r] # "sending"
             /\ breaker' = breaker /\ streak' = streak
  BY <1>1 DEF Ask, Refuse, Deliver, Return, Ended, Goto
<1>2. CASE Tick  BY <1>2 DEF Tick, Breakers
<1>3. ASSUME NEW s, Turn(s)
      PROVE  /\ \A r \in Requests : pc[r] = "asking" => pc'[r] # "sending"
             /\ breaker' = breaker /\ streak' = streak
  BY <1>3 DEF Turn
<1>4. CASE UNCHANGED vars  BY <1>4 DEF vars
<1> QED
  BY <1>1, <1>2, <1>3, <1>4
     DEF Next, Step, Succeed, Err, TimeOut, Abandon, Results

\* After an opening, and before the next closing, the service is called only
\* after a full timeout and at most MaxRequests times.
THEOREM Spared == Spec => TrialsAreSpaced
<1> DEFINE Spaced == \A r \in Requests :
             pc[r] = "asking" /\ pc'[r] = "sending" /\ breaker'.state # "closed"
                 => ago = OpenTimeout /\ probes < MaxRequests
<1>1. ASSUME Inv, [Next]_vars PROVE [Spaced]_vars
  <2>1. ASSUME NEW q \in Requests, Admit(q) PROVE Spaced
    BY <1>1, <2>1, AdmitStep
  <2>2. ASSUME NEW q \in Requests, Report(q) PROVE Spaced
    BY <1>1, <2>2 DEF Report, Goto, Inv, TypeOK
  <2>3. CASE Restart  BY <2>3 DEF Restart
  <2> QED BY <1>1, <2>1, <2>2, <2>3, Elsewhere
<1> QED BY <1>1, Always, PTL DEF Spec, TrialsAreSpaced

\* A closed breaker opens when, and only when, the threshold is reached by
\* failures in a row of calls made since it closed.
THEOREM OpenedForCause == Spec => OpensWhenEarned
<1> DEFINE Earned == breaker.state = "closed" =>
             (breaker'.state = "open" <=> streak' = FailureThreshold)
<1>1. ASSUME Inv, [Next]_vars PROVE [Earned]_vars
  <2> USE <1>1, LimitsAssumption
  <2>1. breaker.state = "closed" => streak < FailureThreshold
    BY DEF Inv, TypeOK, Accurate, Breakers
  <2>2. ASSUME NEW q \in Requests, Admit(q) PROVE Earned
    <3>1. breaker.state = "closed" => breaker'.state = "closed"
      BY <2>2 DEF Admit, CurrentState, OnRequest, Inv, TypeOK, Breakers
    <3>2. streak' = streak  BY <2>2 DEF Admit
    <3> QED BY <2>1, <3>1, <3>2
  <2>3. ASSUME NEW q \in Requests, Report(q) PROVE Earned  BY <2>3, ReportStep
  <2>4. CASE Restart
    BY <2>4, Fresh DEF Restart, States
  <2> QED BY <2>1, <2>2, <2>3, <2>4, Elsewhere
<1> QED BY <1>1, Always, PTL DEF Spec, OpensWhenEarned

\* It closes again only on the success of a call made on trial.
THEOREM ClosedForCause == Spec => ClosingIsEarned
<1> DEFINE Earned == breaker.state # "closed" /\ breaker'.state = "closed" =>
             \/ \E r \in current : /\ breaker.state = "half_open"
                                   /\ pc[r] = "reporting"
                                   /\ result[r] = "success"
             \/ pc' = [r \in Requests |-> "idle"]
<1>1. ASSUME Inv, [Next]_vars PROVE [Earned]_vars
  <2> USE <1>1
  <2>1. ASSUME NEW q \in Requests, Admit(q) PROVE Earned
    <3>1. breaker \in Breakers  BY DEF Inv, TypeOK
    <3>2. CASE CurrentState(breaker) = breaker
      BY <2>1, <3>1, <3>2 DEF Admit, OnRequest, Breakers
    <3>3. CASE CurrentState(breaker) # breaker
      <4>1. CurrentState(breaker) = NewGeneration("half_open")  BY <3>1, <3>3, Present
      <4>2. breaker'.state = "half_open"
        BY <2>1, <4>1, Fresh DEF Admit, OnRequest, Breakers, States
      <4> QED BY <4>2
    <3> QED BY <3>2, <3>3
  <2>2. ASSUME NEW q \in Requests, Report(q) PROVE Earned
    BY <2>2, ReportStep DEF Report
  <2>3. CASE Restart  BY <2>3 DEF Restart
  <2> QED BY <2>1, <2>2, <2>3, Elsewhere
<1> QED BY <1>1, Always, PTL DEF Spec, ClosingIsEarned
-----------------------------------------------------------------------------
(***************************************************************************)
(* The client implements Mailer.  Asking, delivering, the end of a call    *)
(* and its return map to the actions of the promise; what the breaker and  *)
(* the network do in between is not seen by it.                            *)
(***************************************************************************)
CallMap == [r \in Requests |-> Call(r)]

LEMMA Unseen ==
    ASSUME pc' = pc, result' = result
    PROVE  CallMap' = CallMap
BY DEF CallMap, Call

LEMMA Moved ==
    ASSUME TypeOK, NEW r \in Requests, NEW stage,
           pc' = [pc EXCEPT ![r] = stage],
           \A q \in Requests \ {r} : result'[q] = result[q]
    PROVE  CallMap' = [CallMap EXCEPT ![r] = Call(r)']
<1>1. \A q \in Requests \ {r} : pc'[q] = pc[q]  BY DEF TypeOK
<1>2. \A q \in Requests \ {r} : Call(q)' = Call(q)  BY <1>1 DEF Call
<1> QED BY <1>2 DEF CallMap

LEMMA StepImplements ==
    ASSUME Inv, [Next]_vars
    PROVE  [Promise!Next]_(Promise!vars)
<1> USE DEF Inv
<1>0. CallMap' = CallMap /\ mailed' = mailed => UNCHANGED Promise!vars
  BY DEF Promise!vars, CallMap
<1>1. ASSUME NEW r \in Requests, Ask(r) PROVE Promise!Ask(r)
  <2>1. Call(r) = "none" /\ Call(r)' = "open" /\ mailed' = mailed
    BY <1>1 DEF Ask, Goto, Call, TypeOK
  <2>2. CallMap' = [CallMap EXCEPT ![r] = "open"]
    BY <1>1, <2>1, Moved DEF Ask, Goto
  <2> QED BY <2>1, <2>2 DEF Promise!Ask, CallMap
<1>2. ASSUME NEW r \in Requests, Admit(r) PROVE UNCHANGED Promise!vars
  <2>1. Call(r)' = Call(r) /\ mailed' = mailed
    BY <1>2 DEF Admit, Goto, Call, TypeOK
  <2>2. CallMap' = CallMap
    BY <1>2, <2>1, Moved DEF Admit, Goto, CallMap
  <2> QED BY <1>0, <2>1, <2>2
<1>3. ASSUME NEW r \in Requests, Refuse(r) \/ Report(r) PROVE Promise!Answer(r)
  <2>1. /\ Call(r) = "open" /\ mailed' = mailed
        /\ Call(r)' \in {"sent", "failed"}
        /\ Call(r)' = "sent" => r \in mailed
        /\ pc' = [pc EXCEPT ![r] = "answered"]
        /\ \A q \in Requests \ {r} : result'[q] = result[q]
    BY <1>3 DEF Refuse, Report, Goto, Call, TypeOK, InHand
  <2>2. CallMap' = [CallMap EXCEPT ![r] = Call(r)']
    BY <2>1, Moved
  <2> QED BY <2>1, <2>2 DEF Promise!Answer, CallMap
<1>4. ASSUME NEW r \in Requests, Deliver(r) PROVE Promise!Mail(r)
  <2>1. Call(r) \in {"open", "failed"} /\ r \notin mailed
    BY <1>4 DEF Deliver, Call, TypeOK
  <2>2. CallMap' = CallMap /\ mailed' = mailed \cup {r}
    BY <1>4, Unseen DEF Deliver
  <2> QED BY <2>1, <2>2 DEF Promise!Mail, CallMap
<1>5. ASSUME NEW r \in Requests, NEW how, Ended(r, how) PROVE UNCHANGED Promise!vars
  <2>1. Call(r)' = Call(r) /\ mailed' = mailed
    BY <1>5 DEF Ended, Goto, Call, TypeOK
  <2>2. CallMap' = CallMap
    BY <1>5, <2>1, Moved DEF Ended, Goto, TypeOK, CallMap
  <2> QED BY <1>0, <2>1, <2>2
<1>6. ASSUME NEW r \in Requests, Return(r) PROVE Promise!Close(r)
  <2>1. Call(r) \in {"sent", "failed"} /\ Call(r)' = "none" /\ mailed' = mailed \ {r}
    BY <1>6 DEF Return, Goto, Call, TypeOK
  <2>2. CallMap' = [CallMap EXCEPT ![r] = "none"]
    BY <1>6, <2>1, Moved DEF Return, Goto, TypeOK
  <2> QED BY <2>1, <2>2 DEF Promise!Close, CallMap
<1>7. ASSUME Tick \/ (\E s \in {"up", "down", "silent"} : Turn(s)) \/ UNCHANGED vars
      PROVE  UNCHANGED Promise!vars
  BY <1>0, <1>7, Unseen DEF Tick, Turn, vars
<1>8. ASSUME Restart PROVE Promise!CloseAll
  <2>1. CallMap' = [r \in Requests |-> "none"]
    BY <1>8 DEF Restart, CallMap, Call
  <2> QED BY <1>8, <2>1 DEF Restart, Promise!CloseAll, CallMap
<1> QED
  BY <1>1, <1>2, <1>3, <1>4, <1>5, <1>6, <1>7, <1>8
     DEF Next, Step, Succeed, Err, TimeOut, Abandon, Promise!Next

\* The client keeps the promise SendInvitation makes: one answer, one mail at
\* most, and success only when it was sent.
THEOREM KeepsPromise == Spec => MailerSpec
<1>1. Init => Promise!Init
  BY DEF Init, Promise!Init, Call
<1> QED BY <1>1, StepImplements, Always, PTL DEF Spec, MailerSpec, Promise!Spec
=============================================================================
