------------------------- MODULE RateLimiterProofs -------------------------
(***************************************************************************)
(* What fixed windows let through and what they refuse, for every number   *)
(* of users and requests, every limit and window, and all faults.          *)
(***************************************************************************)
EXTENDS RateLimiter, FiniteSetTheorems, TLAPS

\* Executions in a row grant a natural number of requests.
LEMMA GrantsType ==
    ASSUME NEW u, NEW n \in Nat
    PROVE  Grants(u, n) \in Nat
<1>1. IsFiniteSet(1 .. n)  BY FS_Interval
<1> DEFINE granting == {k \in 1 .. n : Allowed(count[u] + k)}
<1>2. IsFiniteSet(granting)  BY <1>1, FS_Subset
<1>3. Cardinality(granting) \in Nat  BY <1>2, FS_CardinalityType
<1> QED BY <1>3 DEF Grants

\* A script that runs leaves a counter, and leaves it a lifetime.
LEMMA IncrementType ==
    ASSUME TypeOK, NEW u \in Users, NEW n \in {1, 2}, Increment(u, n)
    PROVE  /\ count' \in [Users -> 0 .. Limit + 1]
           /\ ttl' \in [Users -> 0 .. Window]
           /\ \A v \in Users : ttl'[v] = 0 <=> count'[v] = 0
<1>1. Counted(count[u] + n) \in 1 .. Limit + 1
  BY LimitAssumption DEF Counted, TypeOK
<1>2. count' \in [Users -> 0 .. Limit + 1]
  BY <1>1, LimitAssumption DEF Increment, TypeOK
<1>3. ttl' \in [Users -> 0 .. Window]
  BY LimitAssumption DEF Increment, TypeOK
<1>4. ttl'[u] # 0 /\ count'[u] # 0
  BY <1>1, LimitAssumption DEF Increment, TypeOK
<1>5. ASSUME NEW v \in Users \ {u} PROVE ttl'[v] = 0 <=> count'[v] = 0
  BY <1>5 DEF Increment, TypeOK
<1> QED BY <1>2, <1>3, <1>4, <1>5

LEMMA TickType == TypeOK /\ Tick => TypeOK'
<1> SUFFICES ASSUME TypeOK, Tick PROVE TypeOK'  OBVIOUS
<1>1. count' \in [Users -> 0 .. Limit + 1]
  BY LimitAssumption DEF Tick, TypeOK
<1>2. ttl' \in [Users -> 0 .. Window]
  BY LimitAssumption DEF Tick, TypeOK
<1>3. \A u \in Users : ttl'[u] = 0 <=> count'[u] = 0
  BY LimitAssumption DEF Tick, TypeOK
<1>4. granted' \in [Users -> [0 .. Window - 1 -> Nat]]
  <2>1. ASSUME NEW u \in Users, NEW age \in 0 .. Window - 1
        PROVE  (IF age = 0 THEN 0 ELSE granted[u][age - 1]) \in Nat
    BY LimitAssumption DEF TypeOK
  <2> QED BY <2>1 DEF Tick
<1> QED BY <1>1, <1>2, <1>3, <1>4 DEF Tick, TypeOK

LEMMA RunScriptType ==
    ASSUME TypeOK, NEW r \in Requests, RunScript(r)
    PROVE  TypeOK'
<1>1. user[r] \in Users  BY DEF RunScript, TypeOK
<1>2. PICK n \in {1, 2} :
        /\ Increment(user[r], n)
        /\ granted' = [granted EXCEPT ![user[r]][0] = @ + Grants(user[r], n)]
        /\ within' = [within EXCEPT ![r] = Allowed(count[user[r]] + n)]
  BY DEF RunScript
<1>3. /\ count' \in [Users -> 0 .. Limit + 1]
      /\ ttl' \in [Users -> 0 .. Window]
      /\ \A v \in Users : ttl'[v] = 0 <=> count'[v] = 0
  BY <1>1, <1>2, IncrementType
<1>4. Grants(user[r], n) \in Nat  BY GrantsType
<1>5. granted' \in [Users -> [0 .. Window - 1 -> Nat]]
  <2>1. granted[user[r]] \in [0 .. Window - 1 -> Nat]  BY <1>1 DEF TypeOK
  <2>2. 0 \in 0 .. Window - 1  BY LimitAssumption
  <2>3. granted[user[r]][0] + Grants(user[r], n) \in Nat
    <3>1. granted[user[r]][0] \in Nat  BY <2>1, <2>2
    <3> QED BY <3>1, <1>4
  <2>4. [granted[user[r]] EXCEPT ![0] = @ + Grants(user[r], n)]
          \in [0 .. Window - 1 -> Nat]
    BY <2>1, <2>2, <2>3
  <2> QED BY <1>1, <1>2, <2>4 DEF TypeOK
<1>6. within' \in [Requests -> BOOLEAN]
  <2>1. Allowed(count[user[r]] + n) \in BOOLEAN  BY DEF Allowed
  <2> QED BY <1>2, <2>1 DEF TypeOK
<1>7. /\ pc' \in [Requests -> Stages] /\ user' = user
      /\ \A q \in Requests : pc'[q] \in {"limiter", "verdict"} => user'[q] \in Users
  BY <1>1 DEF RunScript, Goto, TypeOK, Stages
<1> QED BY <1>3, <1>5, <1>6, <1>7 DEF TypeOK

LEMMA Initially == Init => TypeOK
BY LimitAssumption DEF Init, TypeOK, Stages

LEMMA Invariance == TypeOK /\ [Next]_vars => TypeOK'
<1> SUFFICES ASSUME TypeOK, [Next]_vars PROVE TypeOK'  OBVIOUS
<1>1. ASSUME NEW r \in Requests, NEW u \in Users \cup {Nobody}, Arrive(r, u)
      PROVE  TypeOK'
  BY <1>1 DEF Arrive, Goto, TypeOK, Stages
<1>2. ASSUME NEW r \in Requests, Authenticate(r) PROVE TypeOK'
  BY <1>2 DEF Authenticate, Goto, TypeOK, Stages
<1>3. ASSUME NEW r \in Requests, RunScript(r) PROVE TypeOK'
  BY <1>3, RunScriptType
<1>4. ASSUME NEW r \in Requests, Decide(r) PROVE TypeOK'
  BY <1>4 DEF Decide, Goto, TypeOK, Stages
<1>5. ASSUME NEW r \in Requests, Unavailable(r) PROVE TypeOK'
  BY <1>5 DEF Unavailable, Goto, TypeOK, Stages
<1>6. ASSUME NEW r \in Requests, Return(r) PROVE TypeOK'
  BY <1>6 DEF Return, Goto, TypeOK, Stages
<1>7. CASE Tick  BY <1>7, TickType
<1>8. CASE UNCHANGED vars  BY <1>8 DEF vars, TypeOK
<1> QED
  BY <1>1, <1>2, <1>3, <1>4, <1>5, <1>6, <1>7, <1>8 DEF Next, Step

\* Every variable keeps its type; in particular no counter is without a
\* lifetime, which would refuse its user for ever, and none is at 0 with one.
THEOREM TypeCorrect == Spec => []TypeOK
BY Initially, Invariance, PTL DEF Spec
-----------------------------------------------------------------------------
(* Tokens: how many grants there are of which ages. *)

Number(grants, ages) == Cardinality(Tokens(grants, ages))

LEMMA TokensAreFinite ==
    ASSUME NEW ages, IsFiniteSet(ages), NEW grants, \A a \in ages : grants[a] \in Nat
    PROVE  IsFiniteSet(Tokens(grants, ages)) /\ Number(grants, ages) \in Nat
<1> DEFINE at == [a \in ages |-> {a} \X (1 .. grants[a])]
           all == {at[a] : a \in ages}
<1>1. ASSUME NEW a \in ages PROVE IsFiniteSet(at[a])
  <2>1. IsFiniteSet({a})  BY FS_Singleton
  <2>2. IsFiniteSet(1 .. grants[a])  BY FS_Interval
  <2> QED BY <2>1, <2>2, FS_Product
<1>2. at \in Surjection(ages, all)  BY DEF Surjection
<1>3. IsFiniteSet(all)  BY <1>2, FS_Surjection
<1>4. IsFiniteSet(UNION all)  BY <1>1, <1>3, FS_UNION
<1>5. Tokens(grants, ages) = UNION all  BY DEF Tokens
<1>6. IsFiniteSet(Tokens(grants, ages))  BY <1>4, <1>5
<1> QED BY <1>6, FS_CardinalityType DEF Number

\* Ages apart from each other have no token in common.
LEMMA NumberOfBoth ==
    ASSUME NEW S, IsFiniteSet(S), NEW T, IsFiniteSet(T), S \cap T = {},
           NEW grants, \A a \in S \cup T : grants[a] \in Nat
    PROVE  Number(grants, S \cup T) = Number(grants, S) + Number(grants, T)
<1>1. Tokens(grants, S \cup T) = Tokens(grants, S) \cup Tokens(grants, T)
  BY DEF Tokens
<1>2. Tokens(grants, S) \cap Tokens(grants, T) = {}  BY DEF Tokens
<1>3. /\ IsFiniteSet(Tokens(grants, S)) /\ Number(grants, S) \in Nat
      /\ IsFiniteSet(Tokens(grants, T)) /\ Number(grants, T) \in Nat
  BY TokensAreFinite
<1>4. Cardinality(Tokens(grants, S) \cup Tokens(grants, T))
        = Number(grants, S) + Number(grants, T) - Cardinality({})
  BY <1>2, <1>3, FS_Union DEF Number
<1>5. Number(grants, S \cup T) = Cardinality(Tokens(grants, S) \cup Tokens(grants, T))
  BY <1>1 DEF Number
<1>6. Cardinality({}) = 0  BY FS_EmptySet
<1> QED BY <1>3, <1>4, <1>5, <1>6

LEMMA NumberAtOne ==
    ASSUME NEW a, NEW grants, grants[a] \in Nat
    PROVE  Number(grants, {a}) = grants[a]
<1> DEFINE S == {a}
           T == 1 .. grants[a]
<1>1. Tokens(grants, {a}) = S \X T  BY DEF Tokens
<1>2. IsFiniteSet(S) /\ Cardinality(S) = 1  BY FS_Singleton
<1>3. IsFiniteSet(T) /\ Cardinality(T) = grants[a]  BY FS_Interval
<1>4. Cardinality(S \X T) = Cardinality(S) * Cardinality(T)
  <2> HIDE DEF S, T
  <2>1. IsFiniteSet(S) /\ IsFiniteSet(T)  BY <1>2, <1>3
  <2> QED BY ONLY <2>1, FS_Product
<1>5. Cardinality(S) * Cardinality(T) = grants[a]
  <2> HIDE DEF S, T
  <2>1. 1 * grants[a] = grants[a]  OBVIOUS
  <2> QED BY <1>2, <1>3, <2>1
<1> QED BY <1>1, <1>4, <1>5 DEF Number

\* Two histories that agree on the ages have as many grants of them.
LEMMA NumberAgrees ==
    ASSUME NEW ages, NEW f, NEW g, \A a \in ages : f[a] = g[a]
    PROVE  Number(f, ages) = Number(g, ages)
<1>1. Tokens(f, ages) = Tokens(g, ages)  BY DEF Tokens
<1> QED BY <1>1 DEF Number

\* Time changes the age of a grant and not the number of grants.
LEMMA NumberAges ==
    ASSUME NEW low \in Nat, NEW high \in Int,
           NEW f, \A a \in low .. high : f[a] \in Nat,
           NEW g, \A a \in low .. high : g[a + 1] = f[a]
    PROVE  Number(g, low + 1 .. high + 1) = Number(f, low .. high)
<1> DEFINE S == Tokens(f, low .. high)
           T == Tokens(g, low + 1 .. high + 1)
           older == [t \in S |-> <<t[1] + 1, t[2]>>]
<1>1. \A t \in S : /\ t[1] \in low .. high /\ t[2] \in 1 .. f[t[1]]
                   /\ t = <<t[1], t[2]>>
  BY DEF Tokens
<1>2. \A a \in low .. high : \A n \in 1 .. f[a] : <<a, n>> \in S
  BY DEF Tokens
<1>3. \A t \in T : /\ t[1] \in low + 1 .. high + 1 /\ t[2] \in 1 .. g[t[1]]
                   /\ t = <<t[1], t[2]>>
  BY DEF Tokens
<1>4. \A a \in low + 1 .. high + 1 : \A n \in 1 .. g[a] : <<a, n>> \in T
  BY DEF Tokens
<1> HIDE DEF S, T
<1>5. \A t \in S : older[t] \in T
  <2> SUFFICES ASSUME NEW t \in S PROVE older[t] \in T  OBVIOUS
  <2>1. /\ t[1] \in low .. high /\ t[1] + 1 \in low + 1 .. high + 1
        /\ t[2] \in 1 .. g[t[1] + 1]
    BY <1>1
  <2> QED BY <1>4, <2>1
<1>6. \A s, t \in S : older[s] = older[t] => s = t
  <2> SUFFICES ASSUME NEW s \in S, NEW t \in S, older[s] = older[t] PROVE s = t
    OBVIOUS
  <2>1. s[1] + 1 = t[1] + 1 /\ s[2] = t[2]  OBVIOUS
  <2>2. s[1] \in Int /\ t[1] \in Int  BY <1>1
  <2>3. s[1] = t[1]  BY <2>1, <2>2
  <2> QED BY <1>1, <2>1, <2>3
<1>7. \A t \in T : \E s \in S : older[s] = t
  <2> SUFFICES ASSUME NEW t \in T PROVE \E s \in S : older[s] = t  OBVIOUS
  <2>1. t[1] - 1 \in low .. high /\ (t[1] - 1) + 1 = t[1]  BY <1>3
  <2>2. t[2] \in 1 .. f[t[1] - 1]  BY <1>3, <2>1
  <2>3. <<t[1] - 1, t[2]>> \in S  BY <1>2, <2>1, <2>2
  <2> QED BY <1>3, <2>1, <2>3
<1>8. older \in Bijection(S, T)
  <2> HIDE DEF older
  <2>1. older \in [S -> T]  BY <1>5 DEF older
  <2> QED BY <1>6, <1>7, <2>1 DEF Bijection, Injection, IsInjective, Surjection
<1>9. IsFiniteSet(S)
  <2>1. IsFiniteSet(low .. high)  BY FS_Interval
  <2> QED BY <2>1, TokensAreFinite DEF S
<1>10. Cardinality(T) = Cardinality(S)
  <2> HIDE DEF older
  <2> QED BY <1>8, <1>9, FS_Bijection DEF ExistsBijection
<1> QED BY <1>10 DEF S, T, Number
-----------------------------------------------------------------------------
(* The budget of a user: what the counter knows of the grants. *)

Cap(n) == IF n < Limit THEN n ELSE Limit

\* While a counter lives, the grants since it was created are as many as it
\* shows, up to the limit, and one of them is as old as the counter; those
\* before it, like all of a user without a counter, do not reach the limit.
BudgetOf(u) ==
    /\ ttl[u] = 0 => /\ granted[u][0] = 0
                     /\ Number(granted[u], 0 .. Window - 1) < Limit
    /\ ttl[u] > 0 =>
         LET born == Window - ttl[u]
         IN  /\ granted[u][born] > 0
             /\ Number(granted[u], 0 .. born) = Cap(count[u])
             /\ Number(granted[u], born + 1 .. Window - 1) < Limit

Budget == \A u \in Users : BudgetOf(u)

LEMMA GrantedType ==
    ASSUME TypeOK, NEW u \in Users
    PROVE  /\ \A age \in 0 .. Window - 1 : granted[u][age] \in Nat
           /\ \A low, high \in Int :
                low .. high \subseteq 0 .. Window - 1 =>
                  Number(granted[u], low .. high) \in Nat
           /\ ttl[u] \in 0 .. Window /\ count[u] \in 0 .. Limit + 1
           /\ ttl[u] = 0 <=> count[u] = 0
<1>1. granted[u] \in [0 .. Window - 1 -> Nat]  BY DEF TypeOK
<1>2. ASSUME NEW low \in Int, NEW high \in Int, low .. high \subseteq 0 .. Window - 1
      PROVE  Number(granted[u], low .. high) \in Nat
  <2>1. IsFiniteSet(low .. high)  BY FS_Interval
  <2>2. \A a \in low .. high : granted[u][a] \in Nat  BY <1>1, <1>2
  <2> QED BY <2>1, <2>2, TokensAreFinite
<1> QED BY <1>1, <1>2 DEF TypeOK

\* All grants of a user are those since a moment and those before it.
LEMMA NumberSplits ==
    ASSUME NEW low \in Nat, NEW high \in Nat, NEW mid \in low - 1 .. high,
           NEW f, \A a \in low .. high : f[a] \in Nat
    PROVE  Number(f, low .. high) = Number(f, low .. mid) + Number(f, mid + 1 .. high)
<1>1. IsFiniteSet(low .. mid) /\ IsFiniteSet(mid + 1 .. high)  BY FS_Interval
<1>2. low .. high = (low .. mid) \cup (mid + 1 .. high)  OBVIOUS
<1>3. (low .. mid) \cap (mid + 1 .. high) = {}  OBVIOUS
<1>4. \A a \in (low .. mid) \cup (mid + 1 .. high) : f[a] \in Nat  BY <1>2
<1>5. Number(f, (low .. mid) \cup (mid + 1 .. high))
        = Number(f, low .. mid) + Number(f, mid + 1 .. high)
  BY <1>1, <1>3, <1>4, NumberOfBoth
<1> QED BY <1>2, <1>5

LEMMA NumberWithNow ==
    ASSUME NEW high \in Nat, NEW f, \A a \in 0 .. high : f[a] \in Nat
    PROVE  Number(f, 0 .. high) = f[0] + Number(f, 1 .. high)
<1>1. 0 \in Nat /\ 0 \in 0 - 1 .. high /\ 0 + 1 = 1 /\ 0 \in 0 .. high  OBVIOUS
<1>2. Number(f, 0 .. high) = Number(f, 0 .. 0) + Number(f, 0 + 1 .. high)
  BY <1>1, NumberSplits
<1>3. 0 .. 0 = {0}  OBVIOUS
<1>4. f[0] \in Nat  BY <1>1
<1>5. Number(f, {0}) = f[0]  BY <1>4, NumberAtOne
<1> QED BY <1>1, <1>2, <1>3, <1>5

\* The script grants as long as the counter is within the limit.
LEMMA GrantsAreCapped ==
    ASSUME TypeOK, NEW u \in Users, NEW n \in {1, 2}
    PROVE  /\ Grants(u, n) \in Nat
           /\ Cap(count[u] + n) = Cap(count[u]) + Grants(u, n)
           /\ count[u] = 0 => Grants(u, n) > 0
           /\ Cap(Counted(count[u] + n)) = Cap(count[u] + n)
           /\ Cap(count[u]) \in Nat
<1> DEFINE c == count[u]
           m == Cap(c + n) - Cap(c)
<1>0. c \in Nat /\ Limit \in Nat \ {0} /\ n \in Nat
  BY LimitAssumption DEF TypeOK
<1>1. m \in 0 .. n  BY <1>0 DEF Cap
<1>2. {k \in 1 .. n : Allowed(c + k)} = 1 .. m
  BY <1>0 DEF Cap, Allowed
<1>3. Cardinality(1 .. m) = m
  <2> HIDE DEF m
  <2> QED BY <1>0, <1>1, FS_Interval
<1>4. Grants(u, n) = m  BY <1>2, <1>3 DEF Grants
<1>5. Cap(c) \in Nat /\ Cap(c + n) \in Nat  BY <1>0 DEF Cap
<1>6. c = 0 => m > 0  BY <1>0 DEF Cap
<1>7. Cap(Counted(c + n)) = Cap(c + n)  BY <1>0 DEF Cap, Counted
<1> QED BY <1>1, <1>4, <1>5, <1>6, <1>7

Histories == [0 .. Window - 1 -> Nat]

\* A grant of now is one more of age 0, and none of any other age.
LEMMA GrantNow ==
    ASSUME NEW f \in Histories, NEW n \in Nat, NEW high \in 0 .. Window - 1
    PROVE  LET g == [f EXCEPT ![0] = @ + n]
           IN  /\ g \in Histories
               /\ Number(g, 0 .. high) = Number(f, 0 .. high) + n
               /\ Number(g, high + 1 .. Window - 1) = Number(f, high + 1 .. Window - 1)
<1> DEFINE g == [f EXCEPT ![0] = @ + n]
<1>1. 0 \in 0 .. Window - 1 /\ f[0] \in Nat /\ Window \in Nat
  BY LimitAssumption DEF Histories
<1>2. g \in Histories  BY <1>1 DEF Histories
<1>3. g[0] = f[0] + n /\ \A a \in 1 .. Window - 1 : g[a] = f[a]
  BY <1>1 DEF Histories
<1> HIDE DEF g
<1>4. ASSUME NEW h \in Histories
      PROVE  Number(h, 0 .. high) = h[0] + Number(h, 1 .. high)
  <2>1. high \in Nat /\ \A a \in 0 .. high : h[a] \in Nat
    BY <1>1 DEF Histories
  <2> QED BY <2>1, NumberWithNow
<1>5. Number(g, 1 .. high) = Number(f, 1 .. high)
  <2>1. \A a \in 1 .. high : g[a] = f[a]  BY <1>1, <1>3
  <2> QED BY <2>1, NumberAgrees
<1>6. Number(g, high + 1 .. Window - 1) = Number(f, high + 1 .. Window - 1)
  <2>1. \A a \in high + 1 .. Window - 1 : g[a] = f[a]  BY <1>1, <1>3
  <2> QED BY <2>1, NumberAgrees
<1>7. Number(f, 1 .. high) \in Nat
  <2>1. IsFiniteSet(1 .. high)  BY FS_Interval
  <2>2. \A a \in 1 .. high : f[a] \in Nat  BY <1>1 DEF Histories
  <2> QED BY <2>1, <2>2, TokensAreFinite
<1>8. Number(g, 0 .. high) = Number(f, 0 .. high) + n
  BY <1>1, <1>2, <1>3, <1>4, <1>5, <1>7
<1> QED BY <1>2, <1>6, <1>8 DEF g

\* After a tick nothing is of age 0, and the rest is one tick older.
LEMMA GrantsAge ==
    ASSUME NEW f \in Histories, NEW g \in Histories,
           \A a \in 0 .. Window - 1 : g[a] = IF a = 0 THEN 0 ELSE f[a - 1]
    PROVE  /\ g[0] = 0
           /\ \A high \in 0 .. Window - 1 :
                Number(g, 0 .. high) = Number(f, 0 .. high - 1)
           /\ \A low \in 0 .. Window - 1 :
                Number(g, low + 1 .. Window - 1) = Number(f, low .. Window - 2)
<1>1. 0 \in 0 .. Window - 1 /\ Window \in Nat  BY LimitAssumption
<1>2. g[0] = 0  BY <1>1
<1>3. \A low \in 0 .. Window - 1 :
        Number(g, low + 1 .. Window - 1) = Number(f, low .. Window - 2)
  <2> SUFFICES ASSUME NEW low \in 0 .. Window - 1
               PROVE  Number(g, low + 1 .. Window - 1) = Number(f, low .. Window - 2)
    OBVIOUS
  <2>1. \A a \in low .. Window - 2 : f[a] \in Nat /\ g[a + 1] = f[a]
    BY <1>1 DEF Histories
  <2>2. (Window - 2) + 1 = Window - 1 /\ Window - 2 \in Int  BY <1>1
  <2>3. Number(g, low + 1 .. (Window - 2) + 1) = Number(f, low .. Window - 2)
    BY <2>1, <2>2, NumberAges
  <2> QED BY <2>2, <2>3
<1>4. \A high \in 0 .. Window - 1 :
        Number(g, 0 .. high) = Number(f, 0 .. high - 1)
  <2> SUFFICES ASSUME NEW high \in 0 .. Window - 1
               PROVE  Number(g, 0 .. high) = Number(f, 0 .. high - 1)
    OBVIOUS
  <2>1. high \in Nat /\ \A a \in 0 .. high : g[a] \in Nat
    BY <1>1 DEF Histories
  <2>2. Number(g, 0 .. high) = g[0] + Number(g, 0 + 1 .. high)
    BY <2>1, NumberWithNow
  <2>4. \A a \in 0 .. high - 1 : f[a] \in Nat /\ g[a + 1] = f[a]
    BY <1>1 DEF Histories
  <2>5. (high - 1) + 1 = high /\ high - 1 \in Int  OBVIOUS
  <2>6. Number(g, 0 + 1 .. (high - 1) + 1) = Number(f, 0 .. high - 1)
    BY <2>4, <2>5, NumberAges
  <2>7. Number(f, 0 .. high - 1) \in Nat
    <3>1. IsFiniteSet(0 .. high - 1)  BY <2>5, FS_Interval
    <3> QED BY <2>4, <3>1, TokensAreFinite
  <2> QED BY <1>2, <2>2, <2>5, <2>6, <2>7
<1> QED BY <1>2, <1>3, <1>4

\* The grants that are about to leave the window, and the others.
LEMMA NumberWithOldest ==
    ASSUME NEW f \in Histories, NEW low \in 0 .. Window - 1
    PROVE  /\ Number(f, low .. Window - 2) \in Nat
           /\ Number(f, low .. Window - 1)
                = Number(f, low .. Window - 2) + f[Window - 1]
<1>1. Window \in Nat \ {0} /\ \A a \in 0 .. Window - 1 : f[a] \in Nat
  BY LimitAssumption DEF Histories
<1>2. Window - 2 \in low - 1 .. Window - 1 /\ (Window - 2) + 1 = Window - 1
      /\ Window - 1 \in Nat
  BY <1>1
<1>3. Number(f, low .. Window - 1)
        = Number(f, low .. Window - 2) + Number(f, (Window - 2) + 1 .. Window - 1)
  <2>1. low \in Nat /\ \A a \in low .. Window - 1 : f[a] \in Nat  BY <1>1
  <2> QED BY <1>2, <2>1, NumberSplits
<1>4. Window - 1 .. Window - 1 = {Window - 1}  BY <1>1
<1>5. Number(f, {Window - 1}) = f[Window - 1]
  <2>1. f[Window - 1] \in Nat  BY <1>1
  <2> QED BY <2>1, NumberAtOne
<1>6. Number(f, low .. Window - 2) \in Nat
  <2>1. IsFiniteSet(low .. Window - 2)  BY <1>2, FS_Interval
  <2> QED BY <1>1, <2>1, TokensAreFinite
<1> QED BY <1>2, <1>3, <1>4, <1>5, <1>6
-----------------------------------------------------------------------------
LEMMA BudgetInitially == Init => Budget
<1> SUFFICES ASSUME Init, NEW u \in Users PROVE BudgetOf(u)  BY DEF Budget
<1>1. ttl[u] = 0 /\ \A age \in 0 .. Window - 1 : granted[u][age] = 0  BY DEF Init
<1>2. 0 \in 0 .. Window - 1  BY LimitAssumption
<1>3. Tokens(granted[u], 0 .. Window - 1) = {}  BY <1>1 DEF Tokens
<1>4. Number(granted[u], 0 .. Window - 1) = 0  BY <1>3, FS_EmptySet DEF Number
<1> QED BY <1>1, <1>2, <1>4, LimitAssumption DEF BudgetOf

\* Time ends a window together with the grant that began it.
LEMMA TickKeepsBudget == TypeOK /\ Budget /\ Tick => Budget'
<1> SUFFICES ASSUME TypeOK, Budget, Tick, NEW u \in Users PROVE BudgetOf(u)'
  BY DEF Budget
<1> DEFINE f == granted[u]
           g == granted'[u]
           now == 0 .. Window - 1
<1>1. /\ f \in Histories /\ g \in Histories
      /\ \A a \in 0 .. Window - 1 : g[a] = IF a = 0 THEN 0 ELSE f[a - 1]
  BY TickType DEF Tick, TypeOK, Histories
<1>2. /\ g[0] = 0
      /\ \A high \in 0 .. Window - 1 :
           Number(g, 0 .. high) = Number(f, 0 .. high - 1)
      /\ \A low \in 0 .. Window - 1 :
           Number(g, low + 1 .. Window - 1) = Number(f, low .. Window - 2)
  BY <1>1, GrantsAge
<1>3. /\ Window \in Nat \ {0} /\ Limit \in Nat \ {0}
      /\ ttl[u] \in 0 .. Window /\ count[u] \in 0 .. Limit + 1
      /\ count'[u] = (IF ttl[u] = 1 THEN 0 ELSE count[u])
      /\ ttl'[u] = IF ttl[u] = 0 THEN 0 ELSE ttl[u] - 1
  BY LimitAssumption DEF Tick, TypeOK
<1>4. \A a \in 0 .. Window - 1 : f[a] \in Nat  BY <1>1 DEF Histories
<1>5. \A low \in 0 .. Window - 1 :
        /\ Number(f, low .. Window - 2) \in Nat
        /\ Number(f, low .. Window - 1)
             = Number(f, low .. Window - 2) + f[Window - 1]
  BY <1>1, NumberWithOldest
<1>6. BudgetOf(u)  BY DEF Budget
<1> HIDE DEF f, g
<1>7. CASE ttl[u] = 0
  <2>1. Number(f, 0 .. Window - 1) < Limit  BY <1>6, <1>7 DEF BudgetOf, f
  <2>2. 0 \in now /\ Window - 1 \in now /\ (Window - 1) - 1 = Window - 2  BY <1>3
  <2>3. Number(g, 0 .. Window - 1) = Number(f, 0 .. Window - 2)  BY <1>2, <2>2
  <2>4. Number(g, 0 .. Window - 1) < Limit  BY <1>3, <1>4, <1>5, <2>1, <2>2, <2>3
  <2> QED BY <1>2, <1>3, <1>7, <2>4 DEF BudgetOf, g
<1>8. CASE ttl[u] = 1
  <2>1. /\ f[Window - 1] > 0
        /\ Number(f, 0 .. Window - 1) = Cap(count[u])
    BY <1>6, <1>8, <1>3 DEF BudgetOf, f
  <2>2. 0 \in now /\ Window - 1 \in now /\ (Window - 1) - 1 = Window - 2  BY <1>3
  <2>3. Number(g, 0 .. Window - 1) = Number(f, 0 .. Window - 2)  BY <1>2, <2>2
  <2>4. Cap(count[u]) <= Limit  BY <1>3 DEF Cap
  <2>5. Number(g, 0 .. Window - 1) < Limit
    BY <1>3, <1>4, <1>5, <2>1, <2>2, <2>3, <2>4 DEF Cap
  <2> QED BY <1>2, <1>3, <1>8, <2>5 DEF BudgetOf, g
<1>9. CASE ttl[u] > 1
  <2> DEFINE born == Window - ttl[u]
  <2>1. /\ f[born] > 0
        /\ Number(f, 0 .. born) = Cap(count[u])
        /\ Number(f, born + 1 .. Window - 1) < Limit
    BY <1>3, <1>6, <1>9 DEF BudgetOf, f
  <2>2. /\ born \in 0 .. Window - 2 /\ born + 1 \in now /\ (born + 1) - 1 = born
        /\ Window - ttl'[u] = born + 1 /\ ttl'[u] > 0 /\ count'[u] = count[u]
    BY <1>3, <1>9
  <2>3. g[born + 1] > 0  BY <1>1, <2>1, <2>2 DEF f, g
  <2>4. Number(g, 0 .. born + 1) = Cap(count[u])  BY <1>2, <2>1, <2>2
  <2>5. Number(g, (born + 1) + 1 .. Window - 1) = Number(f, born + 1 .. Window - 2)
    BY <1>2, <2>2
  <2>6. Number(g, (born + 1) + 1 .. Window - 1) < Limit
    <3>1. f[Window - 1] \in Nat  BY <1>3, <1>4
    <3>2. /\ Number(f, born + 1 .. Window - 2) \in Nat
          /\ Number(f, born + 1 .. Window - 1)
               = Number(f, born + 1 .. Window - 2) + f[Window - 1]
      BY <1>5, <2>2
    <3> QED BY <1>3, <2>1, <2>5, <3>1, <3>2
  <2> HIDE DEF born
  <2> QED BY <2>2, <2>3, <2>4, <2>6 DEF BudgetOf, g
<1> QED BY <1>3, <1>7, <1>8, <1>9

\* The script adds to the counter and to the grants alike.
LEMMA RunScriptKeepsBudget ==
    ASSUME TypeOK, Budget, NEW r \in Requests, RunScript(r)
    PROVE  Budget'
<1>1. PICK u \in Users : u = user[r]  BY DEF RunScript, TypeOK
<1>2. PICK n \in {1, 2} :
        /\ Increment(u, n)
        /\ granted' = [granted EXCEPT ![u][0] = @ + Grants(u, n)]
  BY <1>1 DEF RunScript
<1>3. ASSUME NEW v \in Users \ {u} PROVE BudgetOf(v)'
  <2>1. count'[v] = count[v] /\ ttl'[v] = ttl[v] /\ granted'[v] = granted[v]
    BY <1>2, <1>3 DEF Increment, TypeOK
  <2> QED BY <2>1 DEF Budget, BudgetOf
<1>4. /\ Grants(u, n) \in Nat
      /\ Cap(count[u] + n) = Cap(count[u]) + Grants(u, n)
      /\ count[u] = 0 => Grants(u, n) > 0
      /\ Cap(Counted(count[u] + n)) = Cap(count[u] + n)
      /\ Cap(count[u]) \in Nat
  BY <1>1, GrantsAreCapped
<1>5. /\ count'[u] = Counted(count[u] + n)
      /\ ttl'[u] = IF count[u] = 0 THEN Window ELSE ttl[u]
      /\ granted'[u] = [granted[u] EXCEPT ![0] = @ + Grants(u, n)]
  BY <1>1, <1>2 DEF Increment, TypeOK
<1>6. granted[u] \in Histories  BY <1>1 DEF TypeOK, Histories
<1>7. /\ Window \in Nat \ {0} /\ 0 \in 0 .. Window - 1
      /\ granted[u][0] \in Nat /\ ttl[u] \in 0 .. Window
      /\ count[u] = 0 <=> ttl[u] = 0
      /\ \A a \in 0 .. Window - 1 : granted[u][a] \in Nat
  <2>1. Window \in Nat \ {0} /\ 0 \in 0 .. Window - 1  BY LimitAssumption
  <2> QED BY <2>1, GrantedType
<1>8. /\ granted'[u][0] = granted[u][0] + Grants(u, n)
      /\ \A a \in 1 .. Window - 1 : granted'[u][a] = granted[u][a]
  BY <1>5, <1>7, <1>6 DEF Histories
<1>9. \A high \in 0 .. Window - 1 :
        /\ Number(granted'[u], 0 .. high) = Number(granted[u], 0 .. high) + Grants(u, n)
        /\ Number(granted'[u], high + 1 .. Window - 1)
             = Number(granted[u], high + 1 .. Window - 1)
  BY <1>4, <1>5, <1>6, GrantNow
<1>10. BudgetOf(u)  BY <1>1 DEF Budget
<1>11. ASSUME ttl[u] = 0 PROVE BudgetOf(u)'
  <2>1. ttl'[u] = Window /\ count[u] = 0  BY <1>5, <1>7, <1>11
  <2>2. granted[u][0] = 0 /\ Number(granted[u], 0 .. Window - 1) < Limit
    BY <1>10, <1>11 DEF BudgetOf
  <2>3. granted'[u][0] > 0  BY <1>4, <1>8, <2>1, <2>2
  <2>4. Number(granted[u], 0 .. 0) = 0 /\ Number(granted[u], 1 .. Window - 1) < Limit
    <3>1. 0 .. 0 = {0}  OBVIOUS
    <3>2. Number(granted[u], 0 .. 0) = 0  BY <1>7, <2>2, <3>1, NumberAtOne
    <3>3. Window - 1 \in Nat  BY <1>7
    <3>4. Number(granted[u], 0 .. Window - 1)
            = granted[u][0] + Number(granted[u], 1 .. Window - 1)
      BY <1>7, <3>3, NumberWithNow
    <3>5. Number(granted[u], 1 .. Window - 1) \in Nat
      <4>1. IsFiniteSet(1 .. Window - 1)  BY <3>3, FS_Interval
      <4>2. \A a \in 1 .. Window - 1 : granted[u][a] \in Nat  BY <1>7
      <4> QED BY <4>1, <4>2, TokensAreFinite
    <3> QED BY <2>2, <3>2, <3>4, <3>5
  <2>5. Number(granted'[u], 0 .. 0) = Cap(count'[u])
    <3>1. Cap(0) = 0  BY LimitAssumption DEF Cap
    <3>2. Number(granted'[u], 0 .. 0) = Number(granted[u], 0 .. 0) + Grants(u, n)
      BY <1>7, <1>9
    <3> QED BY <1>4, <1>5, <2>1, <2>4, <3>1, <3>2
  <2>6. Number(granted'[u], 0 + 1 .. Window - 1) < Limit
    <3>1. Number(granted'[u], 0 + 1 .. Window - 1) = Number(granted[u], 0 + 1 .. Window - 1)
      BY <1>7, <1>9
    <3> QED BY <2>4, <3>1
  <2> DEFINE born == Window - ttl'[u]
  <2>7. born = 0 /\ ttl'[u] > 0  BY <1>7, <2>1
  <2>8. /\ granted'[u][born] > 0
        /\ Number(granted'[u], 0 .. born) = Cap(count'[u])
        /\ Number(granted'[u], born + 1 .. Window - 1) < Limit
    BY <2>3, <2>5, <2>6, <2>7
  <2> QED BY <2>7, <2>8 DEF BudgetOf
<1>12. ASSUME ttl[u] > 0 PROVE BudgetOf(u)'
  <2> DEFINE born == Window - ttl[u]
  <2>1. ttl'[u] = ttl[u]  BY <1>5, <1>7, <1>12
  <2>2. born \in 0 .. Window - 1  BY <1>7, <1>12
  <2>3. /\ granted[u][born] > 0
        /\ Number(granted[u], 0 .. born) = Cap(count[u])
        /\ Number(granted[u], born + 1 .. Window - 1) < Limit
    BY <1>10, <1>12 DEF BudgetOf
  <2>4. granted'[u][born] > 0
    <3>1. granted[u][born] \in Nat  BY <1>7, <2>2
    <3>2. CASE born = 0  BY <1>4, <1>8, <2>3, <3>1, <3>2
    <3>3. CASE born # 0
      <4>1. born \in 1 .. Window - 1  BY <2>2, <3>3
      <4>2. granted'[u][born] = granted[u][born]  BY <1>8, <4>1
      <4> QED BY <2>3, <4>2
    <3> QED BY <3>2, <3>3
  <2>5. Number(granted'[u], 0 .. born) = Cap(count'[u])
    BY <1>4, <1>5, <1>9, <2>2, <2>3
  <2>6. Number(granted'[u], born + 1 .. Window - 1) < Limit
    BY <1>9, <2>2, <2>3
  <2>7. Window - ttl'[u] = born /\ ttl'[u] > 0  BY <1>12, <2>1
  <2> HIDE DEF born
  <2> QED BY <2>4, <2>5, <2>6, <2>7 DEF BudgetOf
<1>13. BudgetOf(u)'  BY <1>7, <1>11, <1>12
<1> QED BY <1>3, <1>13 DEF Budget

LEMMA BudgetInvariance ==
    TypeOK /\ Budget /\ [Next]_vars => Budget'
<1> SUFFICES ASSUME TypeOK, Budget, [Next]_vars PROVE Budget'  OBVIOUS
<1>1. ASSUME NEW r \in Requests, RunScript(r) PROVE Budget'
  BY <1>1, RunScriptKeepsBudget
<1>2. CASE Tick  BY <1>2, TickKeepsBudget
<1>3. ASSUME UNCHANGED <<count, ttl, granted>> PROVE Budget'
  BY <1>3 DEF Budget, BudgetOf
<1>4. ASSUME NEW r \in Requests, NEW u \in Users \cup {Nobody}, Arrive(r, u)
      PROVE  Budget'
  BY <1>3, <1>4 DEF Arrive
<1>5. ASSUME NEW r \in Requests,
             Authenticate(r) \/ Decide(r) \/ Unavailable(r) \/ Return(r)
      PROVE  Budget'
  BY <1>3, <1>5 DEF Authenticate, Decide, Unavailable, Return
<1>6. CASE UNCHANGED vars  BY <1>3, <1>6 DEF vars
<1> QED BY <1>1, <1>2, <1>4, <1>5, <1>6 DEF Next, Step

LEMMA BudgetAlways == Spec => []Budget
BY BudgetInitially, BudgetInvariance, TypeCorrect, PTL DEF Spec

\* All grants a user has are those of the living counter and those before it.
TwoParts ==
    \A u \in Users : ttl[u] > 0 =>
        LET born == Window - ttl[u]
        IN  /\ GrantedLately(u) = Number(granted[u], 0 .. born)
                                 + Number(granted[u], born + 1 .. Window - 1)
            /\ Number(granted[u], 0 .. born) \in Nat
            /\ Number(granted[u], born + 1 .. Window - 1) \in Nat

LEMMA GrantsOfAWindow == TypeOK => TwoParts
<1> SUFFICES ASSUME TypeOK, NEW u \in Users, ttl[u] > 0
             PROVE  LET born == Window - ttl[u]
                    IN  /\ GrantedLately(u) = Number(granted[u], 0 .. born)
                                             + Number(granted[u], born + 1 .. Window - 1)
                        /\ Number(granted[u], 0 .. born) \in Nat
                        /\ Number(granted[u], born + 1 .. Window - 1) \in Nat
  BY DEF TwoParts
<1> DEFINE born == Window - ttl[u]
<1>1. \A a \in 0 .. Window - 1 : granted[u][a] \in Nat  BY GrantedType
<1>2. /\ Window - 1 \in Nat /\ 0 - 1 \in Int /\ born \in 0 .. Window - 1
      /\ born \in 0 - 1 .. Window - 1
  BY GrantedType, LimitAssumption
<1>3. Number(granted[u], 0 .. Window - 1)
        = Number(granted[u], 0 .. born) + Number(granted[u], born + 1 .. Window - 1)
  <2> HIDE DEF born
  <2> QED BY <1>1, <1>2, NumberSplits
<1>4. \A low, high \in Int :
        low .. high \subseteq 0 .. Window - 1 => Number(granted[u], low .. high) \in Nat
  BY GrantedType
<1>5. Number(granted[u], 0 .. born) \in Nat
  <2>1. 0 .. born \subseteq 0 .. Window - 1  BY <1>2
  <2> QED BY <1>2, <1>4, <2>1
<1>6. Number(granted[u], born + 1 .. Window - 1) \in Nat
  <2>1. born + 1 .. Window - 1 \subseteq 0 .. Window - 1 /\ born + 1 \in Int
    BY <1>2
  <2> QED BY <1>2, <1>4, <2>1
<1> QED BY <1>3, <1>5, <1>6 DEF GrantedLately, Number

\* In no interval as long as a window does a user get twice the limit.
THEOREM BurstsAreBounded == Spec => []BurstBound
<1>1. ASSUME TypeOK, Budget, NEW u \in Users PROVE GrantedLately(u) < 2 * Limit
  <2>1. Limit \in Nat \ {0} /\ ttl[u] \in 0 .. Window /\ count[u] \in 0 .. Limit + 1
    BY <1>1, GrantedType, LimitAssumption
  <2>2. BudgetOf(u)  BY <1>1 DEF Budget
  <2>3. CASE ttl[u] = 0
    <3>1. GrantedLately(u) < Limit  BY <2>2, <2>3 DEF BudgetOf, GrantedLately, Number
    <3>2. GrantedLately(u) \in Nat
      <4>1. Window - 1 \in Int /\ 0 \in Int  BY LimitAssumption
      <4> QED BY <1>1, <4>1, GrantedType DEF GrantedLately, Number
    <3> QED BY <2>1, <3>1, <3>2
  <2>4. CASE ttl[u] > 0
    <3> DEFINE born == Window - ttl[u]
    <3>1. /\ Number(granted[u], 0 .. born) = Cap(count[u])
          /\ Number(granted[u], born + 1 .. Window - 1) < Limit
      BY <2>2, <2>4 DEF BudgetOf
    <3>2. /\ GrantedLately(u) = Number(granted[u], 0 .. born)
                                + Number(granted[u], born + 1 .. Window - 1)
          /\ Number(granted[u], 0 .. born) \in Nat
          /\ Number(granted[u], born + 1 .. Window - 1) \in Nat
      BY <1>1, <2>4, GrantsOfAWindow DEF TwoParts
    <3>3. Cap(count[u]) <= Limit  BY <2>1 DEF Cap
    <3> QED BY <2>1, <3>1, <3>2, <3>3
  <2> QED BY <2>1, <2>3, <2>4
<1>2. TypeOK /\ Budget => BurstBound  BY <1>1 DEF BurstBound
<1> QED BY <1>2, TypeCorrect, BudgetAlways, PTL

\* A verdict comes from the script.
LEMMA VerdictStep ==
    ASSUME TypeOK, [Next]_vars, NEW r \in Requests,
           pc[r] = "limiter", pc'[r] = "verdict"
    PROVE  RunScript(r)
<1> USE DEF Goto, TypeOK
<1>1. ASSUME NEW q \in Requests, NEW u \in Users \cup {Nobody}, Arrive(q, u)
      PROVE  FALSE
  BY <1>1 DEF Arrive
<1>2. ASSUME NEW q \in Requests,
             Authenticate(q) \/ Decide(q) \/ Unavailable(q) \/ Return(q)
      PROVE  FALSE
  BY <1>2 DEF Authenticate, Decide, Unavailable, Return
<1>3. ASSUME NEW q \in Requests, RunScript(q) PROVE RunScript(r)
  BY <1>3 DEF RunScript
<1>4. CASE Tick  BY <1>4 DEF Tick
<1>5. CASE UNCHANGED vars  BY <1>5 DEF vars
<1> QED BY <1>1, <1>2, <1>3, <1>4, <1>5 DEF Next, Step

\* Whoever is refused has used up the limit within the last window.
THEOREM RefusalsAreEarned == Spec => RefusalIsEarned
<1> DEFINE Earned ==
      \A r \in Requests :
        pc[r] = "limiter" /\ pc'[r] = "verdict" /\ ~within'[r] =>
          GrantedLately(user[r])' >= Limit
<1>1. TypeOK /\ TypeOK' /\ Budget' /\ [Next]_vars => Earned
  <2> SUFFICES ASSUME TypeOK, TypeOK', Budget', [Next]_vars, NEW r \in Requests,
                      pc[r] = "limiter", pc'[r] = "verdict", ~within'[r]
               PROVE  GrantedLately(user[r])' >= Limit
    OBVIOUS
  <2>1. RunScript(r)  BY VerdictStep
  <2>2. PICK u \in Users : u = user[r] /\ u = user'[r]
    BY <2>1 DEF RunScript, TypeOK
  <2>3. PICK n \in {1, 2} :
          /\ Increment(u, n)
          /\ within' = [within EXCEPT ![r] = Allowed(count[u] + n)]
    BY <2>1, <2>2 DEF RunScript
  <2>4. ~Allowed(count[u] + n)  BY <2>3 DEF TypeOK
  <2>5. count'[u] = Counted(count[u] + n) /\ count[u] \in Nat /\ Limit \in Nat
    BY <2>3, LimitAssumption DEF Increment, TypeOK
  <2>6. Cap(count'[u]) = Limit /\ count'[u] # 0
    BY <2>4, <2>5 DEF Allowed, Counted, Cap
  <2>7. ttl'[u] > 0 /\ ttl'[u] \in Nat  BY <2>6 DEF TypeOK
  <2>8. BudgetOf(u)'  BY DEF Budget
  <2> DEFINE born == Window - ttl'[u]
  <2>9. Number(granted'[u], 0 .. born) = Limit
    BY <2>6, <2>7, <2>8 DEF BudgetOf
  <2>10. /\ GrantedLately(u)' = Number(granted'[u], 0 .. born)
                               + Number(granted'[u], born + 1 .. Window - 1)
         /\ Number(granted'[u], born + 1 .. Window - 1) \in Nat
    <3>1. TwoParts'  BY GrantsOfAWindow, PTL
    <3> QED BY <2>7, <3>1 DEF TwoParts
  <2> QED BY <2>2, <2>5, <2>9, <2>10
<1>2. TypeOK /\ TypeOK' /\ Budget' /\ [Next]_vars => [Earned]_vars  BY <1>1
<1> QED BY <1>2, TypeCorrect, BudgetAlways, PTL DEF Spec, RefusalIsEarned
=============================================================================
