---------------------------- MODULE RateLimiter ----------------------------
(***************************************************************************)
(* The door of every protected route: Authenticate of                      *)
(* internal/controller/middleware/auth.go, then Limit of rate_limit.go     *)
(* over the script of internal/adapter/redis/rate_limiter.go.              *)
(*                                                                         *)
(* Redis keeps a counter per user which the script increments, and gives a *)
(* lifetime of one window when it creates it.  The script is one step of   *)
(* Redis; its verdict travels back and the request goes on, or is refused, *)
(* later.  When the verdict does not arrive the request is let through.    *)
(*                                                                         *)
(* Time passes in Ticks; a window has Window of them.  The ghost variable  *)
(* granted counts, for each user and each age in ticks below Window, the   *)
(* executions of the script that found the user within the limit.          *)
(***************************************************************************)
EXTENDS Naturals, FiniteSets

CONSTANTS
    Requests,   \* slots in which HTTP requests are served, of any replica
    Users,
    Nobody,     \* who a request without a valid token comes from
    Limit,      \* RateLimit.Requests
    Window,     \* RateLimit.Window, in ticks
    Faults      \* subset of FaultKinds

(***************************************************************************)
(*  "down"   the script is not executed                                    *)
(*  "lost"   it is executed and its answer is lost                         *)
(*  "retry"  it is executed twice: the first answer was lost and the       *)
(*           client library sent it again                                  *)
(***************************************************************************)
FaultKinds == {"down", "lost", "retry"}

\* config.Validate.  (A window below a millisecond is cut to 0 by Allow.)
ASSUME LimitAssumption == Limit \in Nat \ {0} /\ Window \in Nat \ {0}
ASSUME FaultAssumption == Faults \subseteq FaultKinds
ASSUME NobodyAssumption == Nobody \notin Users

VARIABLES
    count,      \* [Users -> Nat], the counters in Redis, 0 when absent
    ttl,        \* [Users -> Nat], what is left of their lifetime, 0 for none
    pc,         \* where each request is
    user,       \* whose it is
    within,     \* the verdict on its way to the request
    granted     \* [Users -> [0 .. Window - 1 -> Nat]], ghost

vars == <<count, ttl, pc, user, within, granted>>

Stages == {"idle", "arrived", "limiter", "verdict", "served", "unauthorized",
           "refused"}

Init ==
    /\ count = [u \in Users |-> 0]
    /\ ttl = [u \in Users |-> 0]
    /\ pc = [r \in Requests |-> "idle"]
    /\ user = [r \in Requests |-> Nobody]
    /\ within = [r \in Requests |-> FALSE]
    /\ granted = [u \in Users |-> [age \in 0 .. Window - 1 |-> 0]]

Goto(r, stage) == pc' = [pc EXCEPT ![r] = stage]
-----------------------------------------------------------------------------
Arrive(r, u) ==
    /\ pc[r] = "idle"
    /\ Goto(r, "arrived")
    /\ user' = [user EXCEPT ![r] = u]
    /\ UNCHANGED <<count, ttl, within, granted>>

\* Authenticate: without a user the limiter is not asked.
Authenticate(r) ==
    /\ pc[r] = "arrived"
    /\ Goto(r, IF user[r] \in Users THEN "limiter" ELSE "unauthorized")
    /\ UNCHANGED <<count, ttl, user, within, granted>>

\* Mutant: one request too many.
Allowed_BeforeIncrement(n) == n - 1 <= Limit

\* Mutant: one request too few.
Allowed_Below(n) == n < Limit

Allowed(n) == n <= Limit

\* Bound: a count above Limit + 1 is no different from Limit + 1.
Counted(n) == IF n > Limit + 1 THEN Limit + 1 ELSE n

\* Mutant: PEXPIRE is sent for every request.
Increment_Extends(u, n) ==
    /\ count' = [count EXCEPT ![u] = Counted(@ + n)]
    /\ ttl' = [ttl EXCEPT ![u] = Window]

\* n executions of incrementRateLimitScript in a row.
Increment(u, n) ==
    /\ count' = [count EXCEPT ![u] = Counted(@ + n)]
    /\ ttl' = [ttl EXCEPT ![u] = IF count[u] = 0 THEN Window ELSE @]

\* How many of these executions found the user within the limit.
Grants(u, n) == Cardinality({k \in 1 .. n : Allowed(count[u] + k)})

\* Allow, as far as Redis is concerned.
RunScript(r) ==
    /\ pc[r] = "limiter"
    /\ LET u == user[r]
       IN  \E n \in {1} \cup (IF "retry" \in Faults THEN {2} ELSE {}) :
             /\ Increment(u, n)
             /\ granted' = [granted EXCEPT ![u][0] = @ + Grants(u, n)]
             /\ within' = [within EXCEPT ![r] = Allowed(count[u] + n)]
    /\ Goto(r, "verdict")
    /\ UNCHANGED user

\* The verdict arrives, or is lost: then the request is let through.
Decide(r) ==
    /\ pc[r] = "verdict"
    /\ \/ Goto(r, IF within[r] THEN "served" ELSE "refused")
       \/ "lost" \in Faults /\ Goto(r, "served")
    /\ UNCHANGED <<count, ttl, user, within, granted>>

Unavailable(r) ==
    /\ "down" \in Faults
    /\ pc[r] = "limiter"
    /\ Goto(r, "served")
    /\ UNCHANGED <<count, ttl, user, within, granted>>

\* The handler or the refusal is done; the slot is free again.
Return(r) ==
    /\ pc[r] \in {"served", "unauthorized", "refused"}
    /\ Goto(r, "idle")
    /\ user' = [user EXCEPT ![r] = Nobody]
    /\ within' = [within EXCEPT ![r] = FALSE]
    /\ UNCHANGED <<count, ttl, granted>>
-----------------------------------------------------------------------------
\* Time passes; Redis removes the counters whose lifetime is over.
Tick ==
    /\ count' = [u \in Users |-> IF ttl[u] = 1 THEN 0 ELSE count[u]]
    /\ ttl' = [u \in Users |-> IF ttl[u] = 0 THEN 0 ELSE ttl[u] - 1]
    /\ granted' = [u \in Users |-> [age \in 0 .. Window - 1 |->
                     IF age = 0 THEN 0 ELSE granted[u][age - 1]]]
    /\ UNCHANGED <<pc, user, within>>

Step(r) ==
    \/ Authenticate(r) \/ RunScript(r) \/ Decide(r) \/ Unavailable(r) \/ Return(r)

Next ==
    \/ \E r \in Requests :
         \/ \E u \in Users \cup {Nobody} : Arrive(r, u)
         \/ Step(r)
    \/ Tick

Spec == Init /\ [][Next]_vars

\* Requests run on, time passes, and every user keeps asking whenever a slot
\* is free.
FairSpec ==
    /\ Spec
    /\ WF_vars(Tick)
    /\ \A r \in Requests : WF_vars(Step(r))
    /\ \A u \in Users : SF_vars(\E r \in Requests : Arrive(r, u))
-----------------------------------------------------------------------------
\* A counter has a lifetime from the step that creates it.
TypeOK ==
    /\ count \in [Users -> 0 .. Limit + 1]
    /\ ttl \in [Users -> 0 .. Window]
    /\ pc \in [Requests -> Stages]
    /\ user \in [Requests -> Users \cup {Nobody}]
    /\ within \in [Requests -> BOOLEAN]
    /\ granted \in [Users -> [0 .. Window - 1 -> Nat]]
    /\ \A r \in Requests : pc[r] \in {"limiter", "verdict"} => user[r] \in Users
    /\ \A u \in Users : ttl[u] = 0 <=> count[u] = 0

\* One token for each grant of these ages.
Tokens(grants, ages) == UNION {{age} \X (1 .. grants[age]) : age \in ages}

GrantedLately(u) == Cardinality(Tokens(granted[u], 0 .. Window - 1))

(***************************************************************************)
(* Fixed windows let more than the limit into an interval as long as one   *)
(* window that overlaps two of them, but never twice the limit: a window   *)
(* starts with a request, which is outside every interval that reaches     *)
(* into the next window.                                                   *)
(***************************************************************************)
BurstBound == \A u \in Users : GrantedLately(u) < 2 * Limit

(***************************************************************************)
(* When the script refuses a user, the limit has been used up by that same *)
(* user within the last window: nobody is refused for what others did, or  *)
(* for requests of a window that is over.                                  *)
(***************************************************************************)
RefusalIsEarned ==
    [][\A r \in Requests :
          pc[r] = "limiter" /\ pc'[r] = "verdict" /\ ~within'[r] =>
              GrantedLately(user[r])' >= Limit]_vars

(***************************************************************************)
(* A user who keeps asking is let in again after a refusal: refused        *)
(* requests count, but do not prolong the window.                          *)
(***************************************************************************)
RefusalIsNotForever ==
    \A u \in Users :
        (\E r \in Requests : pc[r] = "refused" /\ user[r] = u)
            ~> (\E r \in Requests : pc[r] = "served" /\ user[r] = u)
=============================================================================
