--------------------------- MODULE ProcessProofs ---------------------------
(***************************************************************************)
(* What the exit code of the process says, for every number of             *)
(* connections and every order of signal, failures and handlers; that the  *)
(* process as a whole is a Lifecycle and a Pipeline at once; and what the  *)
(* middleware promises for every number of connections, routes and         *)
(* statuses.                                                               *)
(***************************************************************************)
EXTENDS Process, FiniteSetTheorems, WellFoundedInduction, TLAPS

Starting == {"config", "mysql", "redis", "wiring"}
Ending == {"returning", "exited"}

\* How far the parties are, with respect to each other.
Progress ==
    /\ (outcome = "none") <=> (main \notin Ending)
    /\ main \in Starting => server = "none" /\ conn = [c \in Connections |-> "none"]
    /\ main \notin Starting \cup Ending => opened = 3
    /\ main = "config" => opened = 0
    /\ main = "mysql" => opened = 0
    /\ main = "redis" => opened = 1
    /\ main = "wiring" => opened = 2
    /\ main \in {"stopping", "draining", "forcing", "joining"} => signalled
    /\ main \in {"draining", "forcing", "joining"} => stopping
    /\ stopping => signalled /\ main \notin Starting \cup {"selecting", "stopping"}

\* What is in serverErrors is what ListenAndServe returned, and that is nil
\* only when the server was shut down.
Handover ==
    /\ channel # "empty" => channel = served /\ server = "gone"
    /\ (served # "none") <=> (server \in {"returned", "gone"})
    /\ served = "ok" => stopping
    /\ outcome = "ok" => served = "ok"

\* Handlers lose their connection or the clients only on the way to exit code 1.
Unharmed ==
    /\ cut \/ hurt => outcome = "error"
    /\ \A c \in Connections : conn[c] = "orphan" => outcome = "error"
    /\ main = "joining" \/ outcome = "ok" =>
         conn = [c \in Connections |-> "none"]

Inv == TypeOK /\ Progress /\ Handover /\ Unharmed

LEMMA Initially == Init => Inv
<1> SUFFICES ASSUME Init PROVE Inv  OBVIOUS
<1>1. TypeOK
  <2>1. signalled \in BOOLEAN /\ stopping \in BOOLEAN /\ cut \in BOOLEAN /\ hurt \in BOOLEAN
    BY DEF Init
  <2>2. opened \in 0 .. 3  BY DEF Init
  <2> QED BY <2>1, <2>2 DEF Init, TypeOK, MainStages, ServerStages, ConnStates
<1>2. Progress  BY DEF Init, Progress, Starting, Ending
<1>3. Handover  BY DEF Init, Handover
<1>4. Unharmed  BY DEF Init, Unharmed
<1> QED BY <1>1, <1>2, <1>3, <1>4 DEF Inv

LEMMA Invariance == Inv /\ [Next]_vars => Inv'
<1> SUFFICES ASSUME Inv, [Next]_vars PROVE Inv'  OBVIOUS
<1> USE DEF Inv, TypeOK, Progress, Handover, Unharmed, MainStages, ServerStages,
            ConnStates, Starting, Ending, mainVars, serverVars, connVars, Alive,
            Returns, ServeReturns, SetConn
<1>1. CASE LoadConfig  BY <1>1 DEF LoadConfig
<1>2. CASE OpenMySQL  BY <1>2 DEF OpenMySQL, OpenClient
<1>3. CASE OpenRedis  BY <1>3 DEF OpenRedis, OpenClient
<1>4. CASE Wire  BY <1>4 DEF Wire
<1>5. CASE TakeOutcome  BY <1>5 DEF TakeOutcome
<1>6. CASE TakeSignal  BY <1>6 DEF TakeSignal
<1>7. CASE Shutdown  BY <1>7 DEF Shutdown
<1>8. CASE Drained  BY <1>8 DEF Drained
<1>9. CASE DrainTimesOut  BY <1>9 DEF DrainTimesOut
<1>10. CASE ForceClose  BY <1>10 DEF ForceClose
<1>11. CASE Join  BY <1>11 DEF Join
<1>12. CASE CloseClient  BY <1>12 DEF CloseClient
<1>13. CASE Exit  BY <1>13 DEF Exit
<1>14. CASE Listen  BY <1>14 DEF Listen
<1>15. CASE Bind  BY <1>15 DEF Bind
<1>16. CASE ServerClosed  BY <1>16 DEF ServerClosed
<1>17. CASE AcceptFails  BY <1>17 DEF AcceptFails
<1>18. CASE Send  BY <1>18 DEF Send
<1>19. ASSUME NEW c \in Connections, Accept(c) PROVE Inv'  BY <1>19 DEF Accept
<1>20. ASSUME NEW c \in Connections, Begin(c) PROVE Inv'  BY <1>20 DEF Begin
<1>21. ASSUME NEW c \in Connections, Use(c) PROVE Inv'  BY <1>21 DEF Use, Running
<1>22. ASSUME NEW c \in Connections, Answer(c) PROVE Inv'
  BY <1>22 DEF Answer, Running
<1>23. ASSUME NEW c \in Connections, Disconnect(c) PROVE Inv'
  BY <1>23 DEF Disconnect
<1>24. CASE Signal  BY <1>24 DEF Signal
<1>25. CASE UNCHANGED vars  BY <1>25 DEF vars
<1> QED
  BY <1>1, <1>2, <1>3, <1>4, <1>5, <1>6, <1>7, <1>8, <1>9, <1>10, <1>11, <1>12,
     <1>13, <1>14, <1>15, <1>16, <1>17, <1>18, <1>19, <1>20, <1>21, <1>22,
     <1>23, <1>24, <1>25
     DEF Next, MainStep, ServerStep

LEMMA Always == Spec => []Inv
BY Initially, Invariance, PTL DEF Spec

\* Every variable keeps its type; no client is closed twice.
THEOREM TypeCorrect == Spec => []TypeOK
<1>1. Inv => TypeOK  BY DEF Inv
<1> QED BY <1>1, Always, PTL

\* Exit code 0 means that no handler was cut off and none found its clients
\* closed.
THEOREM CleanlyStopped == Spec => []CleanExit
<1>1. Inv => CleanExit
  BY DEF Inv, Unharmed, CleanExit, Running
<1> QED BY <1>1, Always, PTL

\* Exit code 0 means that a signal asked for the end and serving had not failed.
THEOREM FailuresAreReported == Spec => []FailureIsReported
<1>1. Inv => FailureIsReported
  BY DEF Inv, Handover, Progress, FailureIsReported
<1> QED BY <1>1, Always, PTL
-----------------------------------------------------------------------------
Labels == P!Labels

LEMMA StepsOfBoth ==
    [ProcessNext]_processVars => [Next]_vars /\ [P!PipelineNext]_pipelineVars
<1> SUFFICES ASSUME [ProcessNext]_processVars
             PROVE  [Next]_vars /\ [P!PipelineNext]_pipelineVars
  OBVIOUS
<1>1. CASE Elsewhere  BY <1>1 DEF Elsewhere, Next
<1>2. ASSUME NEW c \in Connections, Serve(c)
      PROVE  [Next]_vars /\ [P!PipelineNext]_pipelineVars
  <2>1. CASE Begin(c) /\ \E route \in Routes \cup {NoRoute} : P!Enter(c, route)
    BY <2>1 DEF Next, P!PipelineNext
  <2>2. CASE P!PipelineStep(c) /\ UNCHANGED vars
    BY <2>2 DEF P!PipelineNext
  <2>3. CASE Use(c) /\ UNCHANGED pipelineVars  BY <2>3 DEF Next
  <2>4. CASE Answer(c) /\ P!Leave(c)  BY <2>4 DEF Next, P!PipelineNext
  <2> QED BY <1>2, <2>1, <2>2, <2>3, <2>4 DEF Serve
<1>3. CASE UNCHANGED processVars  BY <1>3 DEF processVars
<1> QED BY <1>1, <1>2, <1>3 DEF ProcessNext

\* Serving requests adds nothing to the lifecycle of the process: what its
\* exit code says without them, it says with them.
THEOREM StillALifecycle == ProcessSpec => Spec
<1>1. ProcessInit => Init  BY DEF ProcessInit
<1> QED BY <1>1, StepsOfBoth, PTL DEF ProcessSpec, Spec

\* With requests in the middleware, too, exit code 0 means that no handler was
\* cut off and that serving had not failed.
THEOREM ServedToTheEnd == ProcessSpec => [](CleanExit /\ FailureIsReported)
BY StillALifecycle, CleanlyStopped, FailuresAreReported, PTL
-----------------------------------------------------------------------------
\* Metrics and net/http have the same status; the pattern is the route that
\* was asked for from when the mux has looked it up.
Faithful ==
    \A r \in Connections :
        /\ sent[r] = status[r]
        /\ stage[r] \notin {"idle", "routing"} => pattern[r] = target[r]
        /\ stage[r] \in {"idle", "routing"} =>
             pattern[r] = NoRoute /\ status[r] = 0
        /\ stage[r] = "panicking" => started[r] = (status[r] # 0)

PipelineInv == PipelineTypeOK /\ Faithful

LEMMA LabelType ==
    ASSUME PipelineTypeOK, NEW r \in Connections
    PROVE  P!Label(r) \in Labels
BY StatusAssumption
   DEF PipelineTypeOK, P!PipelineTypeOK, P!Label, P!Shown, Labels, P!Labels

IsCounter(f) == DOMAIN f \subseteq Labels /\ f \in [DOMAIN f -> Nat]

\* Counting keeps a counter a counter.
LEMMA CountType ==
    ASSUME NEW f, IsCounter(f), NEW l \in Labels
    PROVE  IsCounter(P!Inc(f, l))
<1>1. P!ValueOf(f, l) \in Nat  BY DEF IsCounter, P!ValueOf
<1> QED BY <1>1 DEF IsCounter, P!Inc

LEMMA PipelineInitially == ProcessInit => PipelineInv
<1> SUFFICES ASSUME P!PipelineInit PROVE PipelineInv  BY DEF ProcessInit
<1>1. IsCounter(<<>>)  BY DEF IsCounter
<1> QED BY <1>1, BoundAssumption DEF PipelineInv, Faithful, PipelineTypeOK, P!PipelineTypeOK,
                    IsCounter, Labels, P!PipelineInit, P!PipelineStages

LEMMA PipelineInvariance == PipelineInv /\ [P!PipelineNext]_pipelineVars => PipelineInv'
<1> SUFFICES ASSUME PipelineInv, [P!PipelineNext]_pipelineVars PROVE PipelineInv'
  OBVIOUS
<1> USE StatusAssumption DEF PipelineInv, Faithful, PipelineTypeOK,
        P!PipelineTypeOK, P!PipelineStages, P!To
<1>1. ASSUME NEW r \in Connections, NEW route \in Routes \cup {NoRoute},
             P!Enter(r, route)
      PROVE  PipelineInv'
  BY <1>1, BoundAssumption DEF P!Enter
<1>2. ASSUME NEW r \in Connections, P!Route(r) PROVE PipelineInv'
  <2>1. CASE P!To(r, "handling") /\ UNCHANGED <<status, sent>>
    BY <1>2, <2>1 DEF P!Route
  <2>2. CASE P!To(r, "returned") /\ \E s \in Statuses : P!WriteHeader(r, s)
    <3>1. PICK s \in Statuses : P!WriteHeader(r, s)  BY <2>2
    <3> QED BY <1>2, <2>2, <3>1 DEF P!Route, P!WriteHeader
  <2> QED BY <1>2, <2>1, <2>2 DEF P!Route
<1>3. ASSUME NEW r \in Connections, NEW s \in Statuses, P!Write(r, s)
      PROVE  PipelineInv'
  BY <1>3 DEF P!Write, P!WriteHeader
<1>4. ASSUME NEW r \in Connections, P!HandlerReturns(r) PROVE PipelineInv'
  BY <1>4 DEF P!HandlerReturns
<1>5. ASSUME NEW r \in Connections, P!Panic(r) PROVE PipelineInv'
  BY <1>5 DEF P!Panic
<1>6. ASSUME NEW r \in Connections, P!Recover(r) PROVE PipelineInv'
  BY <1>6 DEF P!Recover, P!WriteHeader
<1>7. ASSUME NEW r \in Connections, P!CountRequest(r) PROVE PipelineInv'
  <2>1. IsCounter(requests')
    BY <1>7, LabelType, CountType DEF P!CountRequest, IsCounter, Labels
  <2> QED BY <1>7, <2>1 DEF P!CountRequest, IsCounter, Labels
<1>8. ASSUME NEW r \in Connections, P!CountError(r) PROVE PipelineInv'
  <2>1. IsCounter(errors')
    BY <1>8, LabelType, CountType DEF P!CountError, IsCounter, Labels
  <2> QED BY <1>8, <2>1 DEF P!CountError, IsCounter, Labels
<1>9. ASSUME NEW r \in Connections, P!Leave(r) PROVE PipelineInv'
  BY <1>9 DEF P!Leave
<1>10. CASE UNCHANGED pipelineVars  BY <1>10 DEF pipelineVars
<1> QED
  BY <1>1, <1>2, <1>3, <1>4, <1>5, <1>6, <1>7, <1>8, <1>9, <1>10
     DEF P!PipelineNext, P!PipelineStep

LEMMA PipelineAlways == ProcessSpec => []PipelineInv
BY PipelineInitially, StepsOfBoth, PipelineInvariance, PTL DEF ProcessSpec

\* Every variable of the middleware keeps its type; in particular, the labels
\* of the counters are registered routes and statuses of answers.
THEOREM PipelineTypeCorrect == ProcessSpec => []PipelineTypeOK
<1>1. PipelineInv => PipelineTypeOK  BY DEF PipelineInv
<1> QED BY <1>1, PipelineAlways, PTL
-----------------------------------------------------------------------------
\* The counter grows in CountRequest only.
LEMMA CountingStep ==
    ASSUME PipelineInv, [P!PipelineNext]_pipelineVars, requests' # requests
    PROVE  \E r \in Connections : P!CountRequest(r)
BY DEF P!PipelineNext, P!PipelineStep, P!Enter, P!Route, P!Write,
       P!HandlerReturns, P!Panic, P!Recover, P!CountError, P!Leave, pipelineVars

\* requests_total counts, for each request that ends, the route it asked for
\* and the status its client receives.
THEOREM CountsWhatIsReceived == ProcessSpec => CountedAsReceived
<1> DEFINE Counts ==
      requests' # requests =>
        \E r \in Connections :
          /\ stage[r] = "returned" /\ stage'[r] = "counted"
          /\ requests' = P!Inc(requests,
                            [route |-> target[r], status |-> P!Received(r)])
<1>1. PipelineInv /\ [P!PipelineNext]_pipelineVars => Counts
  <2> SUFFICES ASSUME PipelineInv, [P!PipelineNext]_pipelineVars,
                      requests' # requests
               PROVE  \E r \in Connections :
                        /\ stage[r] = "returned" /\ stage'[r] = "counted"
                        /\ requests' = P!Inc(requests,
                              [route |-> target[r], status |-> P!Received(r)])
    OBVIOUS
  <2>1. PICK r \in Connections : P!CountRequest(r)  BY CountingStep
  <2>2. P!Label(r) = [route |-> target[r], status |-> P!Received(r)]
    BY <2>1 DEF P!CountRequest, P!Label, P!Shown, P!Received, PipelineInv, Faithful
  <2>3. stage[r] = "returned" /\ stage'[r] = "counted"
    BY <2>1 DEF P!CountRequest, P!To, PipelineInv, PipelineTypeOK, P!PipelineTypeOK
  <2>4. requests' = P!Inc(requests, P!Label(r))  BY <2>1 DEF P!CountRequest
  <2> QED BY <2>2, <2>3, <2>4
<1>2. PipelineInv /\ [P!PipelineNext]_pipelineVars => [Counts]_pipelineVars
  BY <1>1
<1> QED BY <1>2, PipelineAlways, StepsOfBoth, PTL
        DEF ProcessSpec, CountedAsReceived, P!CountedAsReceived, pipelineVars,
            P!pipelineVars
-----------------------------------------------------------------------------
\* A panic that is over has been recovered from.
LEMMA RecoveryStep ==
    ASSUME PipelineInv, [P!PipelineNext]_pipelineVars, NEW r \in Connections,
           stage[r] = "panicking", stage'[r] = "returned"
    PROVE  P!Recover(r)
<1> USE DEF P!To, PipelineInv, PipelineTypeOK, P!PipelineTypeOK
<1>1. ~UNCHANGED pipelineVars  BY DEF pipelineVars
<1>2. ASSUME NEW q \in Connections, NEW route \in Routes \cup {NoRoute},
             P!Enter(q, route)
      PROVE  FALSE
  BY <1>2 DEF P!Enter
<1>3. ASSUME NEW q \in Connections, P!Route(q) PROVE FALSE
  BY <1>3 DEF P!Route
<1>4. ASSUME NEW q \in Connections, NEW s \in Statuses, P!Write(q, s) PROVE FALSE
  BY <1>4 DEF P!Write
<1>5. ASSUME NEW q \in Connections, P!HandlerReturns(q) PROVE FALSE
  BY <1>5 DEF P!HandlerReturns
<1>6. ASSUME NEW q \in Connections, P!Panic(q) PROVE FALSE
  BY <1>6 DEF P!Panic
<1>7. ASSUME NEW q \in Connections, P!Recover(q) PROVE P!Recover(r)
  BY <1>7 DEF P!Recover
<1>8. ASSUME NEW q \in Connections, P!CountRequest(q) PROVE FALSE
  BY <1>8 DEF P!CountRequest
<1>9. ASSUME NEW q \in Connections, P!CountError(q) PROVE FALSE
  BY <1>9 DEF P!CountError
<1>10. ASSUME NEW q \in Connections, P!Leave(q) PROVE FALSE
  BY <1>10 DEF P!Leave
<1> QED
  BY <1>1, <1>2, <1>3, <1>4, <1>5, <1>6, <1>7, <1>8, <1>9, <1>10
     DEF P!PipelineNext, P!PipelineStep

\* A handler that panics before it answers is answered for with 500; after
\* that, the client keeps the status it was sent.
THEOREM PanicsEndInAnswers == ProcessSpec => PanicsAreAnswered
<1> DEFINE AllAnswered ==
      \A r \in Connections :
        stage[r] = "panicking" /\ stage'[r] = "returned" =>
          IF started[r] THEN P!Received(r)' = P!Received(r)
                        ELSE P!Received(r)' = 500
<1>1. PipelineInv /\ [P!PipelineNext]_pipelineVars => AllAnswered
  <2> SUFFICES ASSUME PipelineInv, [P!PipelineNext]_pipelineVars,
                      NEW r \in Connections,
                      stage[r] = "panicking", stage'[r] = "returned"
               PROVE  IF started[r] THEN P!Received(r)' = P!Received(r)
                                    ELSE P!Received(r)' = 500
    OBVIOUS
  <2>1. P!Recover(r)  BY RecoveryStep
  <2>2. started[r] = (status[r] # 0) /\ sent[r] = status[r]
    BY DEF PipelineInv, Faithful
  <2>3. CASE status[r] # 0
    <3>1. UNCHANGED sent  BY <2>1, <2>3 DEF P!Recover, P!WriteHeader
    <3> QED BY <2>2, <2>3, <3>1 DEF P!Received
  <2>4. CASE status[r] = 0
    <3>1. sent' = [sent EXCEPT ![r] = 500]
      BY <2>1, <2>2, <2>4 DEF P!Recover, P!WriteHeader
    <3>2. sent'[r] = 500
      BY <3>1 DEF PipelineInv, PipelineTypeOK, P!PipelineTypeOK
    <3>3. P!Received(r)' = 500  BY <3>2 DEF P!Received
    <3>4. ~started[r]  BY <2>2, <2>4
    <3> QED BY <3>3, <3>4
  <2> QED BY <2>3, <2>4
<1>2. PipelineInv /\ [P!PipelineNext]_pipelineVars => [AllAnswered]_pipelineVars
  BY <1>1
<1> QED BY <1>2, PipelineAlways, StepsOfBoth, PTL
        DEF ProcessSpec, PanicsAreAnswered, P!PanicsAreAnswered, pipelineVars,
            P!pipelineVars
-----------------------------------------------------------------------------
Failed(l) == l.status >= 400

\* The requests on their way from one counter to the other.
Pending(l) == {r \in Connections : stage[r] = "counted" /\ P!Label(r) = l}

\* They are what the counters differ by.
Balanced ==
    \A l \in Labels :
        /\ Failed(l) => P!ValueOf(requests, l)
                          = P!ValueOf(errors, l) + Cardinality(Pending(l))
        /\ ~Failed(l) => l \notin DOMAIN errors

LEMMA PendingIsFinite ==
    ASSUME NEW l
    PROVE  IsFiniteSet(Pending(l)) /\ Cardinality(Pending(l)) \in Nat
<1>1. IsFiniteSet(Pending(l))  BY BoundAssumption, FS_Subset DEF Pending
<1> QED BY <1>1, FS_CardinalityType

\* What a counter shows after it was incremented.
LEMMA Incremented ==
    ASSUME NEW f, IsCounter(f), NEW l \in Labels, NEW m \in Labels
    PROVE  /\ P!ValueOf(f, m) \in Nat
           /\ P!ValueOf(P!Inc(f, l), m)
                = IF m = l THEN P!ValueOf(f, l) + 1 ELSE P!ValueOf(f, m)
BY DEF IsCounter, P!ValueOf, P!Inc

\* A step that neither begins nor ends in "counted" leaves Pending alone.
LEMMA PendingStays ==
    ASSUME Balanced, UNCHANGED <<requests, errors>>,
           \A r \in Connections :
             /\ (stage'[r] = "counted") <=> (stage[r] = "counted")
             /\ stage[r] = "counted" => P!Label(r)' = P!Label(r)
    PROVE  Balanced'
<1>1. \A l : Pending(l)' = Pending(l)  BY DEF Pending
<1> QED BY <1>1 DEF Balanced, P!ValueOf, Failed

\* Writing a status for r changes the label of no other request.
LEMMA LabelsStay ==
    ASSUME PipelineInv, NEW r \in Connections, stage[r] # "counted",
           NEW s, stage' = [stage EXCEPT ![r] = s], s # "counted",
           \A q \in Connections \ {r} : status'[q] = status[q] /\ pattern'[q] = pattern[q],
           UNCHANGED <<requests, errors>>, Balanced
    PROVE  Balanced'
<1>1. \A q \in Connections : (stage'[q] = "counted") <=> (stage[q] = "counted")
  BY DEF PipelineInv, PipelineTypeOK, P!PipelineTypeOK
<1>2. \A q \in Connections : stage[q] = "counted" => P!Label(q)' = P!Label(q)
  BY DEF P!Label, P!Shown
<1> QED BY <1>1, <1>2, PendingStays

LEMMA BalanceInitially == ProcessInit => Balanced
<1> SUFFICES ASSUME P!PipelineInit PROVE Balanced  BY DEF ProcessInit
<1>1. \A l : Pending(l) = {}  BY DEF Pending, P!PipelineInit
<1>2. \A l \in Labels : /\ P!ValueOf(requests, l) = 0 /\ P!ValueOf(errors, l) = 0
                        /\ l \notin DOMAIN errors
  BY DEF P!PipelineInit, P!ValueOf
<1> QED BY <1>1, <1>2, FS_EmptySet DEF Balanced

LEMMA RequestCounted ==
    ASSUME PipelineInv, Balanced, NEW r \in Connections, P!CountRequest(r)
    PROVE  Balanced'
<1> DEFINE k == P!Label(r)
<1>1. k \in Labels  BY LabelType DEF PipelineInv
<1>2. IsCounter(requests) /\ IsCounter(errors)
  BY DEF PipelineInv, PipelineTypeOK, P!PipelineTypeOK, IsCounter, Labels
<1>3. /\ stage[r] = "returned" /\ stage' = [stage EXCEPT ![r] = "counted"]
      /\ requests' = P!Inc(requests, k)
      /\ errors' = errors
  BY DEF P!CountRequest, P!To
<1>4. \A q : P!Label(q)' = P!Label(q)
  BY DEF P!CountRequest, P!Label, P!Shown
<1>5. \A l : Pending(l)' = IF l = k THEN Pending(l) \cup {r} ELSE Pending(l)
  BY <1>3, <1>4 DEF Pending, PipelineInv, PipelineTypeOK, P!PipelineTypeOK
<1>6. r \notin Pending(k)  BY <1>3 DEF Pending
<1>7. Cardinality(Pending(k) \cup {r}) = Cardinality(Pending(k)) + 1
  BY <1>6, PendingIsFinite, FS_AddElement
<1>8. ASSUME NEW l \in Labels
      PROVE  /\ Failed(l) => P!ValueOf(requests', l)
                               = P!ValueOf(errors', l) + Cardinality(Pending(l)')
             /\ ~Failed(l) => l \notin DOMAIN errors'
  <2>1. /\ P!ValueOf(requests, l) \in Nat /\ P!ValueOf(errors, l) \in Nat
        /\ P!ValueOf(requests', l)
             = IF l = k THEN P!ValueOf(requests, k) + 1 ELSE P!ValueOf(requests, l)
    BY <1>1, <1>2, <1>3, Incremented
  <2>2. Cardinality(Pending(l)) \in Nat  BY PendingIsFinite
  <2>3. CASE l = k  BY <1>3, <1>5, <1>7, <2>1, <2>2, <2>3 DEF Balanced
  <2>4. CASE l # k  BY <1>3, <1>5, <2>1, <2>2, <2>4 DEF Balanced
  <2> QED BY <2>3, <2>4
<1> QED BY <1>8 DEF Balanced, Failed, P!ValueOf

LEMMA ErrorCounted ==
    ASSUME PipelineInv, Balanced, NEW r \in Connections, P!CountError(r)
    PROVE  Balanced'
<1> DEFINE k == P!Label(r)
<1>1. k \in Labels  BY LabelType DEF PipelineInv
<1>2. IsCounter(requests) /\ IsCounter(errors)
  BY DEF PipelineInv, PipelineTypeOK, P!PipelineTypeOK, IsCounter, Labels
<1>3. /\ stage[r] = "counted" /\ stage' = [stage EXCEPT ![r] = "done"]
      /\ requests' = requests
      /\ errors' = IF Failed(k) THEN P!Inc(errors, k) ELSE errors
  BY DEF P!CountError, P!To, P!RequestFails, Failed, P!Label
<1>4. \A q : P!Label(q)' = P!Label(q)
  BY DEF P!CountError, P!Label, P!Shown
<1>5. \A l : Pending(l)' = IF l = k THEN Pending(l) \ {r} ELSE Pending(l)
  BY <1>3, <1>4 DEF Pending, PipelineInv, PipelineTypeOK, P!PipelineTypeOK
<1>6. r \in Pending(k)  BY <1>3 DEF Pending
<1>7. Cardinality(Pending(k) \ {r}) = Cardinality(Pending(k)) - 1
  BY <1>6, PendingIsFinite, FS_RemoveElement
<1>8. ASSUME NEW l \in Labels
      PROVE  /\ Failed(l) => P!ValueOf(requests', l)
                               = P!ValueOf(errors', l) + Cardinality(Pending(l)')
             /\ ~Failed(l) => l \notin DOMAIN errors'
  <2>1. P!ValueOf(requests, l) \in Nat /\ P!ValueOf(errors, l) \in Nat
    BY <1>1, <1>2, Incremented
  <2>2. Cardinality(Pending(l)) \in Nat  BY PendingIsFinite
  <2>3. CASE ~Failed(k)
    <3>1. CASE l = k  BY <1>3, <2>3, <3>1 DEF Balanced
    <3>2. CASE l # k  BY <1>3, <1>5, <2>3, <3>2 DEF Balanced
    <3> QED BY <3>1, <3>2
  <2>4. CASE Failed(k)
    <3>1. P!ValueOf(errors', l)
            = IF l = k THEN P!ValueOf(errors, k) + 1 ELSE P!ValueOf(errors, l)
      BY <1>1, <1>2, <1>3, <2>4, Incremented
    <3>2. CASE l = k
      <4>1. P!ValueOf(requests, k) = P!ValueOf(errors, k) + Cardinality(Pending(k))
        BY <1>1, <2>4 DEF Balanced
      <4>2. Cardinality(Pending(l)') = Cardinality(Pending(k)) - 1
        BY <1>5, <1>7, <3>2
      <4>3. P!ValueOf(requests', l)
              = P!ValueOf(errors', l) + Cardinality(Pending(l)')
        BY <1>3, <2>1, <2>2, <3>1, <3>2, <4>1, <4>2
      <4> QED BY <2>4, <3>2, <4>3
    <3>3. CASE l # k
      <4>1. DOMAIN errors' = DOMAIN errors \cup {k}
        BY <1>3, <2>4 DEF P!Inc
      <4> QED BY <1>3, <1>5, <2>1, <2>2, <3>1, <3>3, <4>1 DEF Balanced
    <3> QED BY <3>2, <3>3
  <2> QED BY <2>3, <2>4
<1> QED BY <1>8 DEF Balanced, Failed, P!ValueOf

LEMMA BalanceInvariance ==
    PipelineInv /\ Balanced /\ [P!PipelineNext]_pipelineVars => Balanced'
<1> SUFFICES ASSUME PipelineInv, Balanced, [P!PipelineNext]_pipelineVars
             PROVE  Balanced'
  OBVIOUS
<1> USE DEF P!To
<1>1. ASSUME NEW r \in Connections, NEW route \in Routes \cup {NoRoute},
             P!Enter(r, route)
      PROVE  Balanced'
  BY <1>1, LabelsStay DEF P!Enter
<1>2. ASSUME NEW r \in Connections, P!Route(r) PROVE Balanced'
  <2>1. PICK s \in {"handling", "returned"} : stage' = [stage EXCEPT ![r] = s]
    BY <1>2 DEF P!Route
  <2>2. \A q \in Connections \ {r} :
          status'[q] = status[q] /\ pattern'[q] = pattern[q]
    BY <1>2 DEF P!Route, P!WriteHeader, PipelineInv, PipelineTypeOK,
                P!PipelineTypeOK
  <2> QED BY <1>2, <2>1, <2>2, LabelsStay DEF P!Route
<1>3. ASSUME NEW r \in Connections, NEW s \in Statuses, P!Write(r, s)
      PROVE  Balanced'
  <2>1. stage[r] = "handling" /\ UNCHANGED <<stage, requests, errors>>
    BY <1>3 DEF P!Write
  <2>2. \A q \in Connections : stage[q] = "counted" => P!Label(q)' = P!Label(q)
    <3> SUFFICES ASSUME NEW q \in Connections, stage[q] = "counted"
                 PROVE  P!Label(q)' = P!Label(q)
      OBVIOUS
    <3>1. q # r  BY <2>1
    <3>2. status'[q] = status[q] /\ pattern' = pattern
      BY <1>3, <3>1 DEF P!Write, P!WriteHeader, PipelineInv, PipelineTypeOK,
                        P!PipelineTypeOK
    <3> QED BY <3>2 DEF P!Label, P!Shown
  <2> QED BY <2>1, <2>2, PendingStays
<1>4. ASSUME NEW r \in Connections, P!HandlerReturns(r) PROVE Balanced'
  BY <1>4, LabelsStay DEF P!HandlerReturns
<1>5. ASSUME NEW r \in Connections, P!Panic(r) PROVE Balanced'
  BY <1>5, LabelsStay DEF P!Panic
<1>6. ASSUME NEW r \in Connections, P!Recover(r) PROVE Balanced'
  <2>1. \A q \in Connections \ {r} : status'[q] = status[q] /\ pattern'[q] = pattern[q]
    BY <1>6 DEF P!Recover, P!WriteHeader, PipelineInv, PipelineTypeOK,
                P!PipelineTypeOK
  <2> QED BY <1>6, <2>1, LabelsStay DEF P!Recover
<1>7. ASSUME NEW r \in Connections, P!CountRequest(r) PROVE Balanced'
  BY <1>7, RequestCounted
<1>8. ASSUME NEW r \in Connections, P!CountError(r) PROVE Balanced'
  BY <1>8, ErrorCounted
<1>9. ASSUME NEW r \in Connections, P!Leave(r) PROVE Balanced'
  <2>1. \A q \in Connections \ {r} : status'[q] = status[q] /\ pattern'[q] = pattern[q]
    BY <1>9 DEF P!Leave, PipelineInv, PipelineTypeOK, P!PipelineTypeOK
  <2> QED BY <1>9, <2>1, LabelsStay DEF P!Leave
<1>10. CASE UNCHANGED pipelineVars
  BY <1>10, PendingStays DEF pipelineVars, P!Label, P!Shown
<1> QED
  BY <1>1, <1>2, <1>3, <1>4, <1>5, <1>6, <1>7, <1>8, <1>9, <1>10
     DEF P!PipelineNext, P!PipelineStep

\* Under a label of an error, errors_total falls short of requests_total by the
\* requests that are between the two; under any other it has nothing.
THEOREM ErrorsAreCounted == ProcessSpec => []ErrorsAreRequests
<1>1. ASSUME PipelineInv, Balanced PROVE ErrorsAreRequests
  <2> SUFFICES ASSUME NEW l \in Labels
               PROVE  /\ P!ValueOf(errors, l) <= P!ValueOf(requests, l)
                      /\ l.status < 400 => l \notin DOMAIN errors
                      /\ l.status >= 400 /\ (\A r \in Connections : stage[r] # "counted")
                           => P!ValueOf(errors, l) = P!ValueOf(requests, l)
    BY DEF ErrorsAreRequests, P!ErrorsAreRequests, Labels
  <2>1. IsCounter(requests) /\ IsCounter(errors)
    BY <1>1 DEF PipelineInv, PipelineTypeOK, P!PipelineTypeOK, IsCounter, Labels
  <2>2. P!ValueOf(errors, l) \in Nat /\ P!ValueOf(requests, l) \in Nat
    BY <2>1, Incremented
  <2>3. l.status \in Nat
    <3>1. l.status \in Statuses  BY DEF Labels, P!Labels
    <3>2. Statuses \subseteq 200 .. 599  BY StatusAssumption
    <3>3. l.status \in 200 .. 599  BY <3>1, <3>2
    <3> QED BY <3>3
  <2>4. Cardinality(Pending(l)) \in Nat  BY PendingIsFinite
  <2>5. CASE Failed(l)
    <3>1. P!ValueOf(requests, l) = P!ValueOf(errors, l) + Cardinality(Pending(l))
      BY <1>1, <2>5 DEF Balanced
    <3>2. ASSUME \A r \in Connections : stage[r] # "counted"
          PROVE  Cardinality(Pending(l)) = 0
      <4>1. Pending(l) = {}  BY <3>2 DEF Pending
      <4> QED BY <4>1, FS_EmptySet
    <3> QED BY <2>2, <2>3, <2>4, <2>5, <3>1, <3>2 DEF Failed
  <2>6. CASE ~Failed(l)
    <3>1. l \notin DOMAIN errors  BY <1>1, <2>6 DEF Balanced
    <3>2. P!ValueOf(errors, l) = 0  BY <3>1 DEF P!ValueOf
    <3> QED BY <2>2, <2>3, <2>6, <3>1, <3>2 DEF Failed
  <2> QED BY <2>5, <2>6
<1>2. ProcessSpec => []Balanced
  BY BalanceInitially, BalanceInvariance, StepsOfBoth, PipelineAlways, PTL
     DEF ProcessSpec
<1> QED BY <1>1, <1>2, PipelineAlways, PTL
-----------------------------------------------------------------------------
(* Sums.  SumFunction picks one index after the other; its value is the    *)
(* number of units it adds up, whatever the order.                         *)

\* One element for each unit of the values of f at the indices in S.
Units(f, S) == UNION {{i} \X (1 .. f[i]) : i \in S}

LEMMA UnitsAreFinite ==
    ASSUME NEW S, IsFiniteSet(S), NEW f, \A i \in S : f[i] \in Nat
    PROVE  IsFiniteSet(Units(f, S)) /\ Cardinality(Units(f, S)) \in Nat
<1> DEFINE at == [i \in S |-> {i} \X (1 .. f[i])]
           all == {at[i] : i \in S}
<1>1. ASSUME NEW i \in S PROVE IsFiniteSet(at[i])
  <2>1. IsFiniteSet({i})  BY FS_Singleton
  <2>2. IsFiniteSet(1 .. f[i])  BY FS_Interval
  <2> QED BY <2>1, <2>2, FS_Product
<1>2. at \in Surjection(S, all)  BY DEF Surjection
<1>3. IsFiniteSet(all)  BY <1>2, FS_Surjection
<1>4. IsFiniteSet(UNION all)  BY <1>1, <1>3, FS_UNION
<1>5. Units(f, S) = UNION all  BY DEF Units
<1>6. IsFiniteSet(Units(f, S))  BY <1>4, <1>5
<1> QED BY <1>6, FS_CardinalityType

\* One index contributes its value.
LEMMA UnitsOfOne ==
    ASSUME NEW S, IsFiniteSet(S), NEW f, \A i \in S : f[i] \in Nat, NEW x \in S
    PROVE  Cardinality(Units(f, S)) = f[x] + Cardinality(Units(f, S \ {x}))
<1> DEFINE here == {x} \X (1 .. f[x])
           rest == Units(f, S \ {x})
<1>1. Units(f, S) = here \cup rest  BY DEF Units
<1>2. here \cap rest = {}  BY DEF Units
<1>3. IsFiniteSet(rest) /\ Cardinality(rest) \in Nat
  BY UnitsAreFinite, FS_RemoveElement
<1>4. IsFiniteSet(here) /\ Cardinality(here) = f[x]
  <2>1. IsFiniteSet({x}) /\ Cardinality({x}) = 1  BY FS_Singleton
  <2>2. IsFiniteSet(1 .. f[x]) /\ Cardinality(1 .. f[x]) = f[x]  BY FS_Interval
  <2>3. 1 * f[x] = f[x]  OBVIOUS
  <2> QED BY <2>1, <2>2, <2>3, FS_Product
<1>5. Cardinality(here \cup rest)
        = Cardinality(here) + Cardinality(rest) - Cardinality(here \cap rest)
  <2> HIDE DEF here, rest
  <2> QED BY <1>3, <1>4, FS_Union
<1>6. Cardinality(here \cap rest) = 0  BY <1>2, FS_EmptySet
<1>7. f[x] \in Nat  OBVIOUS
<1> HIDE DEF here, rest
<1>8. Cardinality(here \cup rest) = f[x] + Cardinality(rest)
  BY <1>3, <1>4, <1>5, <1>6, <1>7
<1> QED BY <1>1, <1>8 DEF rest

\* The recursion SumFunction is defined by, over the subsets of the domain.
SumsUp(f, g) ==
    g = [s \in SUBSET DOMAIN f |->
           IF s = {} THEN 0
           ELSE LET x == CHOOSE x \in s : TRUE IN f[x] + g[s \ {x}]]

LEMMA SumIsChosen ==
    ASSUME NEW f
    PROVE  SumFunction(f) = (CHOOSE g : SumsUp(f, g))[DOMAIN f]
BY DEF SumFunction, SumFunctionOnSet, FoldFunctionOnSet, MapThenFoldSet, SumsUp

\* The number of units obeys that recursion, and no function that does can
\* differ from it: there would be a smallest set to differ at.
LEMMA SumIsCardinality ==
    ASSUME NEW S, IsFiniteSet(S), NEW f \in [S -> Nat]
    PROVE  SumFunction(f) = Cardinality(Units(f, S))
<1> DEFINE g == [s \in SUBSET S |-> Cardinality(Units(f, s))]
           chosen(s) == CHOOSE x \in s : TRUE
           h == CHOOSE h : SumsUp(f, h)
<1>1. SumsUp(f, g)
  <2>1. ASSUME NEW s \in SUBSET S, s # {}
        PROVE  Cardinality(Units(f, s)) = f[chosen(s)] + g[s \ {chosen(s)}]
    <3>1. chosen(s) \in s  BY <2>1
    <3>2. IsFiniteSet(s)  BY FS_Subset
    <3>3. \A i \in s : f[i] \in Nat  OBVIOUS
    <3>4. s \ {chosen(s)} \in SUBSET S  OBVIOUS
    <3> HIDE DEF chosen
    <3> QED BY <3>1, <3>2, <3>3, <3>4, UnitsOfOne
  <2>2. Cardinality(Units(f, {})) = 0  BY FS_EmptySet DEF Units
  <2> QED BY <2>1, <2>2 DEF SumsUp
<1>2. SumsUp(f, h)  BY <1>1
<1> HIDE DEF h
<1>3. ASSUME NEW s \in SUBSET S, h[s] # g[s] PROVE FALSE
  <2> DEFINE D == {t \in SUBSET S : h[t] # g[t]}
             R == StrictSubsetOrdering(S)
  <2>1. IsWellFoundedOn(R, SUBSET S)
    BY FS_StrictSubsetOrderingWellFounded, FS_FiniteSubsetsOfFinite
  <2>2. D \subseteq SUBSET S /\ D # {}  BY <1>3
  <2>3. PICK t \in D : \A u \in D : <<u, t>> \notin R
    <3> HIDE DEF D, R
    <3> QED BY <2>1, <2>2, WFMin
  <2>4. t # {}  BY <1>1, <1>2, <2>3 DEF SumsUp
  <2> DEFINE x == CHOOSE x \in t : TRUE
  <2>5. x \in t  BY <2>4
  <2>6. h[t \ {x}] = g[t \ {x}]
    <3>1. <<t \ {x}, t>> \in R  BY <2>3, <2>5 DEF StrictSubsetOrdering
    <3> QED BY <2>3, <3>1
  <2>7. h[t] = f[x] + h[t \ {x}]  BY <1>2, <2>3, <2>4 DEF SumsUp
  <2>8. g[t] = f[x] + g[t \ {x}]  BY <1>1, <2>3, <2>4 DEF SumsUp
  <2> QED BY <2>3, <2>6, <2>7, <2>8
<1>4. h[S] = g[S]  BY <1>3
<1> QED BY <1>4, SumIsChosen DEF h
-----------------------------------------------------------------------------
\* While the process lives, the requests in the middleware are those of the
\* handlers that run; when it returns success there are none.
Paired ==
    /\ main # "exited" => \A c \in Connections : stage[c] # "idle" <=> c \in Running
    /\ outcome = "ok" => \A c \in Connections : stage[c] = "idle"

Uncounted ==
    {c \in Connections : stage[c] \in {"routing", "handling", "panicking", "returned"}}

\* Each request that was let in has been counted, or is about to be.
Accounted ==
    /\ IsFiniteSet(DOMAIN requests)
    /\ admitted = Cardinality(Units(requests, DOMAIN requests)) + Cardinality(Uncounted)

\* Counting a request adds one unit to the counters.
LEMMA OneMoreUnit ==
    ASSUME NEW f, IsCounter(f), IsFiniteSet(DOMAIN f), NEW l \in Labels
    PROVE  /\ IsFiniteSet(DOMAIN P!Inc(f, l))
           /\ Cardinality(Units(P!Inc(f, l), DOMAIN P!Inc(f, l)))
                = Cardinality(Units(f, DOMAIN f)) + 1
<1> DEFINE n == P!ValueOf(f, l)
           g == P!Inc(f, l)
<1>1. n \in Nat  BY DEF IsCounter, P!ValueOf
<1>2. DOMAIN g = DOMAIN f \cup {l}  BY DEF P!Inc
<1>3. IsFiniteSet(DOMAIN g)  BY <1>2, FS_AddElement
<1>4. \A m \in DOMAIN g : g[m] = IF m = l THEN n + 1 ELSE f[m]  BY DEF P!Inc
<1>5. Units(g, DOMAIN g) = Units(f, DOMAIN f) \cup {<<l, n + 1>>}
  <2>1. 1 .. (n + 1) = (1 .. n) \cup {n + 1}  BY <1>1
  <2>2. l \notin DOMAIN f => 1 .. n = {}  BY DEF P!ValueOf
  <2>3. l \in DOMAIN f => n = f[l]  BY DEF P!ValueOf
  <2> HIDE DEF n, g
  <2>4. \A m \in DOMAIN f \ {l} : g[m] = f[m]  BY <1>2, <1>4
  <2>5. g[l] = n + 1  BY <1>2, <1>4
  <2>6. Units(g, DOMAIN g)
          = Units(f, DOMAIN f \ {l}) \cup ({l} \X (1 .. (n + 1)))
    BY <1>2, <2>4, <2>5 DEF Units
  <2>7. Units(f, DOMAIN f) = Units(f, DOMAIN f \ {l}) \cup ({l} \X (1 .. n))
    BY <2>2, <2>3 DEF Units
  <2>8. {l} \X (1 .. (n + 1)) = ({l} \X (1 .. n)) \cup {<<l, n + 1>>}
    BY <2>1
  <2> QED BY <2>6, <2>7, <2>8
<1>6. <<l, n + 1>> \notin Units(f, DOMAIN f)
  <2>1. ASSUME NEW i \in DOMAIN f, <<l, n + 1>> \in {i} \X (1 .. f[i])
        PROVE  FALSE
    <3>1. i = l /\ n = f[l]  BY <2>1 DEF P!ValueOf
    <3> QED BY <1>1, <2>1, <3>1
  <2> QED BY <2>1 DEF Units
<1>7. IsFiniteSet(Units(f, DOMAIN f))  BY UnitsAreFinite DEF IsCounter
<1> HIDE DEF n, g
<1>8. Cardinality(Units(g, DOMAIN g)) = Cardinality(Units(f, DOMAIN f)) + 1
  BY <1>5, <1>6, <1>7, FS_AddElement
<1> QED BY <1>3, <1>8 DEF g

LEMMA AccountedInitially == ProcessInit => Paired /\ Accounted
<1> SUFFICES ASSUME Init, P!PipelineInit PROVE Paired /\ Accounted
  BY DEF ProcessInit
<1>1. Paired  BY DEF Init, P!PipelineInit, Paired, Running
<1>2. Units(requests, DOMAIN requests) = {} /\ Uncounted = {} /\ DOMAIN requests = {}
  BY DEF P!PipelineInit, Units, Uncounted
<1>3. Accounted  BY <1>2, FS_EmptySet DEF P!PipelineInit, Accounted
<1> QED BY <1>1, <1>3

\* Handlers and requests begin and end together.
LEMMA PairedInvariance ==
    Inv /\ Inv' /\ PipelineInv /\ Paired /\ [ProcessNext]_processVars => Paired'
<1> SUFFICES ASSUME Inv, Inv', PipelineInv, Paired, [ProcessNext]_processVars
             PROVE  Paired'
  OBVIOUS
<1> USE DEF TypeOK, ConnStates, Running
<1>0. /\ conn \in [Connections -> ConnStates]
      /\ stage \in [Connections -> P!PipelineStages]
  BY DEF Inv, PipelineInv, PipelineTypeOK, P!PipelineTypeOK
<1>1. ASSUME NEW c \in Connections, Begin(c),
             NEW route \in Routes \cup {NoRoute}, P!Enter(c, route)
      PROVE  Paired'
  <2>1. /\ conn' = [conn EXCEPT ![c] = "active"] /\ conn[c] \in {"new", "idle"}
        /\ UNCHANGED <<main, outcome>>
    BY <1>1 DEF Begin, SetConn, mainVars
  <2>2. stage' = [stage EXCEPT ![c] = "routing"]  BY <1>1 DEF P!Enter, P!To
  <2>3. outcome # "ok"  BY <2>1 DEF Inv, Unharmed
  <2> QED BY <1>0, <2>1, <2>2, <2>3 DEF Paired
<1>2. ASSUME NEW c \in Connections, c \in Running, P!PipelineStep(c), UNCHANGED vars
      PROVE  Paired'
  <2>1. UNCHANGED <<main, outcome, conn>>  BY <1>2 DEF vars
  <2>2. PICK s \in P!PipelineStages \ {"idle"} : stage' = [stage EXCEPT ![c] = s]
    BY <1>0, <1>2 DEF P!PipelineStep, P!Route, P!Write, P!HandlerReturns, P!Panic,
       P!Recover, P!CountRequest, P!CountError, P!To, P!PipelineStages
  <2>3. outcome # "ok"  BY <1>2 DEF Inv, Unharmed
  <2> QED BY <1>0, <1>2, <2>1, <2>2, <2>3 DEF Paired
<1>3. ASSUME NEW c \in Connections, Use(c), UNCHANGED pipelineVars
      PROVE  Paired'
  BY <1>3 DEF Use, mainVars, pipelineVars, Paired
<1>4. ASSUME NEW c \in Connections, Answer(c), P!Leave(c)
      PROVE  Paired'
  <2>1. PICK s \in {"idle", "none"} : conn' = [conn EXCEPT ![c] = s]
    BY <1>4 DEF Answer, SetConn
  <2>2. stage' = [stage EXCEPT ![c] = "idle"] /\ UNCHANGED <<main, outcome>>
    BY <1>4 DEF P!Leave, P!To, Answer, mainVars
  <2> QED BY <1>0, <2>1, <2>2 DEF Paired
<1>5. CASE Elsewhere
  <2>1. stage' = stage  BY <1>5 DEF Elsewhere, pipelineVars
  <2>2. CASE Join \/ TakeOutcome
    <3>1. outcome' = "ok" => main = "joining"
      BY <2>2 DEF Join, TakeOutcome, Returns, Inv, Handover, Progress, Starting,
                  Ending
    <3>2. main = "joining" => \A c \in Connections : conn[c] = "none"
      BY DEF Inv, Unharmed
    <3>3. main # "exited" /\ main' # "exited" /\ conn' = conn
      BY <2>2 DEF Join, TakeOutcome, Returns, connVars
    <3> QED BY <2>1, <3>1, <3>2, <3>3 DEF Paired
  <2>3. CASE LoadConfig \/ OpenMySQL \/ OpenRedis
    BY <2>1, <2>3 DEF LoadConfig, OpenMySQL, OpenRedis, OpenClient, Returns,
                      connVars, Paired
  <2>4. CASE Wire \/ TakeSignal \/ Shutdown \/ DrainTimesOut \/ CloseClient
    BY <2>1, <2>4 DEF Wire, TakeSignal, Shutdown, DrainTimesOut, CloseClient,
                      connVars, Paired
  <2>5. CASE Drained \/ ForceClose
    BY <1>0, <2>1, <2>5 DEF Drained, ForceClose, Returns, Paired
  <2>6. CASE Exit  BY <2>1, <2>6 DEF Exit, Paired
  <2>7. CASE ServerStep \/ AcceptFails \/ Signal
    BY <2>1, <2>7 DEF ServerStep, Listen, Bind, ServerClosed, Send, AcceptFails,
                      Signal, mainVars, connVars, Paired
  <2>8. CASE \E c \in Connections : Accept(c) \/ Disconnect(c)
    BY <1>0, <2>1, <2>8 DEF Accept, Disconnect, SetConn, mainVars, Paired
  <2> QED
    BY <1>5, <2>2, <2>3, <2>4, <2>5, <2>6, <2>7, <2>8 DEF Elsewhere, MainStep
<1>6. CASE UNCHANGED processVars
  BY <1>6 DEF processVars, vars, pipelineVars, Paired
<1> QED BY <1>1, <1>2, <1>3, <1>4, <1>5, <1>6 DEF ProcessNext, Serve

LEMMA UncountedIsFinite ==
    IsFiniteSet(Uncounted) /\ Cardinality(Uncounted) \in Nat
<1>1. IsFiniteSet(Uncounted)  BY BoundAssumption, FS_Subset DEF Uncounted
<1> QED BY <1>1, FS_CardinalityType

\* A request becomes uncounted when it is let in, and stops being so when it
\* is counted.
LEMMA AccountedInvariance ==
    PipelineInv /\ Accounted /\ [P!PipelineNext]_pipelineVars => Accounted'
<1> SUFFICES ASSUME PipelineInv, Accounted, [P!PipelineNext]_pipelineVars
             PROVE  Accounted'
  OBVIOUS
<1> USE DEF P!To
<1>0. /\ stage \in [Connections -> P!PipelineStages]
      /\ IsCounter(requests) /\ admitted \in Nat
  BY BoundAssumption
     DEF PipelineInv, PipelineTypeOK, P!PipelineTypeOK, IsCounter, Labels
<1>1. ASSUME NEW r \in Connections, NEW route \in Routes \cup {NoRoute},
             P!Enter(r, route)
      PROVE  Accounted'
  <2>1. Uncounted' = Uncounted \cup {r} /\ r \notin Uncounted
    BY <1>0, <1>1 DEF P!Enter, Uncounted
  <2>2. Cardinality(Uncounted') = Cardinality(Uncounted) + 1
    BY <2>1, UncountedIsFinite, FS_AddElement
  <2>3. requests' = requests /\ admitted' = admitted + 1  BY <1>1 DEF P!Enter
  <2>4. Cardinality(Units(requests, DOMAIN requests)) \in Nat
    BY <1>0, UnitsAreFinite DEF Accounted, IsCounter
  <2> QED BY <2>2, <2>3, <2>4, UncountedIsFinite DEF Accounted
<1>2. ASSUME NEW r \in Connections, P!CountRequest(r) PROVE Accounted'
  <2>1. Uncounted' = Uncounted \ {r} /\ r \in Uncounted
    BY <1>0, <1>2 DEF P!CountRequest, Uncounted
  <2>2. Cardinality(Uncounted') = Cardinality(Uncounted) - 1
    BY <2>1, UncountedIsFinite, FS_RemoveElement
  <2>3. requests' = P!Inc(requests, P!Label(r)) /\ admitted' = admitted
    BY <1>2 DEF P!CountRequest
  <2>4. P!Label(r) \in Labels  BY LabelType DEF PipelineInv
  <2>5. /\ IsFiniteSet(DOMAIN requests')
        /\ Cardinality(Units(requests', DOMAIN requests'))
             = Cardinality(Units(requests, DOMAIN requests)) + 1
    BY <1>0, <2>3, <2>4, OneMoreUnit DEF Accounted
  <2>6. Cardinality(Units(requests, DOMAIN requests)) \in Nat
    BY <1>0, UnitsAreFinite DEF Accounted, IsCounter
  <2> QED BY <2>2, <2>3, <2>5, <2>6, UncountedIsFinite DEF Accounted
<1>3. ASSUME UNCHANGED <<requests, admitted>>, Uncounted' = Uncounted
      PROVE  Accounted'
  BY <1>3 DEF Accounted
<1>4. ASSUME NEW r \in Connections, P!Route(r) \/ P!HandlerReturns(r) \/
             P!Panic(r) \/ P!Recover(r)
      PROVE  Accounted'
  BY <1>0, <1>3, <1>4 DEF P!Route, P!HandlerReturns, P!Panic, P!Recover, Uncounted
<1>5. ASSUME NEW r \in Connections, NEW s \in Statuses, P!Write(r, s)
      PROVE  Accounted'
  BY <1>3, <1>5 DEF P!Write, Uncounted
<1>6. ASSUME NEW r \in Connections, P!CountError(r) \/ P!Leave(r)
      PROVE  Accounted'
  BY <1>0, <1>3, <1>6 DEF P!CountError, P!Leave, Uncounted
<1>7. CASE UNCHANGED pipelineVars  BY <1>3, <1>7 DEF pipelineVars, Uncounted
<1> QED
  BY <1>1, <1>2, <1>4, <1>5, <1>6, <1>7 DEF P!PipelineNext, P!PipelineStep

\* When the process is going to exit with 0, no request is in the middleware,
\* and the counters add up to the requests that were let in.
THEOREM EveryRequestIsCounted == ProcessSpec => []ServedAndCounted
<1>1. ASSUME PipelineInv, Paired, Accounted PROVE ServedAndCounted
  <2> SUFFICES ASSUME outcome = "ok" PROVE SumFunction(requests) = admitted
    BY DEF ServedAndCounted
  <2>1. Uncounted = {}  BY <1>1 DEF Paired, Uncounted
  <2>2. IsFiniteSet(DOMAIN requests) /\ requests \in [DOMAIN requests -> Nat]
    BY <1>1 DEF Accounted, PipelineInv, PipelineTypeOK, P!PipelineTypeOK
  <2>3. SumFunction(requests) = Cardinality(Units(requests, DOMAIN requests))
    BY <2>2, SumIsCardinality
  <2>4. Cardinality(Units(requests, DOMAIN requests)) \in Nat
    BY <2>2, UnitsAreFinite
  <2> QED BY <1>1, <2>1, <2>3, <2>4, FS_EmptySet DEF Accounted
<1>2. ProcessSpec => []Inv  BY StillALifecycle, Always, PTL
<1>3. ProcessSpec => [](Paired /\ Accounted)
  BY <1>2, AccountedInitially, PairedInvariance, AccountedInvariance, StepsOfBoth,
     PipelineAlways, PTL DEF ProcessSpec
<1> QED BY <1>1, <1>3, PipelineAlways, PTL
=============================================================================
