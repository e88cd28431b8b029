--------------------------- MODULE TaskCacheProofs ---------------------------
(***************************************************************************)
(* What TaskCache guarantees for every number of requests, teams, filters  *)
(* and revisions.                                                          *)
(*                                                                         *)
(* The argument: versions only grow, and one that becomes current is new   *)
(* to the cache.  So whoever read the version that is still current also   *)
(* queried after the last change that an increment settled, and whoever    *)
(* looks up under the version v finds only lists whose readers had read v  *)
(* before they queried, hence lists at least as new as the changes settled *)
(* when v was read.                                                        *)
(***************************************************************************)
EXTENDS TaskCache, TLAPS

\* The counters in Redis never go back.
NoReset == "reset" \notin Faults

\* Nor is an increment that a success follows left out.
NoLoss == Faults \cap {"lost", "reset"} = {}

\* Nor is any other: every change that is committed is followed by one.
NoDrop == Faults \cap {"skip", "crash", "lost", "reset"} = {}

(***************************************************************************)
(* Types.                                                                  *)
(***************************************************************************)
LEMMA KeyType ==
    ASSUME NEW t \in Teams, NEW f \in Filters, NEW v \in Nat
    PROVE  TaskListKey(t, f, v) \in Keys
BY DEF TaskListKey, Keys, Filters, Text

LEMMA AnyType == AnyTeam \in Teams /\ AnyFilter \in Filters
<1>1. \E t \in Teams : TRUE
  BY SizeAssumption
<1>2. \E f \in Filters : TRUE
  <2>1. PICK l \in Limits, o \in Offsets : TRUE
    BY SizeAssumption
  <2>2. [status |-> Unset, assignee |-> Unset, limit |-> l, offset |-> o] \in Filters
    BY DEF Filters
  <2> QED
    BY <2>2
<1> QED
  BY <1>1, <1>2 DEF AnyTeam, AnyFilter

\* Two questions have the same key only if they are the same question.
LEMMA KeyInjective ==
    ASSUME NEW t \in Teams, NEW f \in Filters, NEW v \in Nat,
           NEW u \in Teams, NEW g \in Filters, NEW w \in Nat,
           TaskListKey(t, f, v) = TaskListKey(u, g, w)
    PROVE  t = u /\ f = g /\ v = w
<1>1. t = u /\ v = w /\ Text(f.status) = Text(g.status)
      /\ Text(f.assignee) = Text(g.assignee) /\ f.limit = g.limit
      /\ f.offset = g.offset
  BY DEF TaskListKey
<1>2. f.status = g.status /\ f.assignee = g.assignee
  BY <1>1, TextAssumption DEF Text, Filters
<1> QED
  BY <1>1, <1>2 DEF Filters

\* Initially and after every step each variable has its type.
LEMMA TypeInit == Init => TypeOK
BY AnyType DEF Init, TypeOK

LEMMA TypeStep == TypeOK /\ [Next]_vars => TypeOK'
<1> SUFFICES ASSUME TypeOK, [Next]_vars PROVE TypeOK'
  OBVIOUS
<1> USE DEF TypeOK
<1>1. ASSUME NEW r \in Requests, NEW t \in Teams, NEW f \in Filters, StartList(r, t, f)
      PROVE  TypeOK'
  BY <1>1 DEF StartList, history, redis, ListStages
<1>2. ASSUME NEW r \in Requests, NEW t \in Teams, StartCreate(r, t) \/ StartUpdate(r, t)
      PROVE  TypeOK'
  BY <1>2 DEF StartCreate, StartUpdate, history, redis, WriteStages
<1>3. ASSUME NEW r \in Requests, Step(r)
      PROVE  TypeOK'
  <2>1. CASE ReadVersion(r)
    BY <2>1 DEF ReadVersion, history, redis, ListStages
  <2>2. CASE Hit(r)
    BY <2>2 DEF Hit, history, redis, ListStages
  <2>3. CASE Miss(r)
    BY <2>3 DEF Miss, history, redis, locals, ListStages
  <2>4. CASE GetFails(r)
    BY <2>4 DEF GetFails, history, redis, locals, ListStages
  <2>5. CASE Query(r)
    BY <2>5 DEF Query, history, redis, ListStages, Lists
  <2>6. CASE Fill(r)
    <3>1. got[r] \in Lists
      BY <2>6 DEF Fill
    <3> QED
    BY <2>6, KeyType DEF Fill, history, locals, ListStages
  <2>7. CASE SetFails(r)
    BY <2>7 DEF SetFails, history, redis, locals, ListStages
  <2>8. CASE Respond(r) \/ QueryFails(r) \/ Refuse(r) \/ FailAfterCommit(r)
    BY <2>8, AnyType DEF Respond, QueryFails, Refuse, FailAfterCommit, Close, history, redis
  <2>9. CASE Commit(r)
    BY <2>9 DEF Commit, history, redis, WriteStages
  <2>10. CASE Invalidate(r)
    BY <2>10, AnyType DEF Invalidate, Settle, Acknowledge, Later, Close
  <2>11. CASE InvalidateFails(r)
    BY <2>11, AnyType DEF InvalidateFails, Acknowledge, Later, Close, redis
  <2>12. CASE Unchanged(r)
    BY <2>12, AnyType DEF Unchanged, Later, Close, redis
  <2> QED
    BY <1>3, <2>1, <2>2, <2>3, <2>4, <2>5, <2>6, <2>7, <2>8, <2>9, <2>10, <2>11, <2>12
      DEF Step
<1>4. ASSUME NEW e \in cache, Expire(e.key)
      PROVE  TypeOK'
  BY <1>4 DEF Expire, history, locals
<1>5. CASE RedisReset
  BY <1>5 DEF RedisReset, history, locals
<1>6. CASE Crash
  BY <1>6, AnyType DEF Crash, history, redis
<1>7. CASE UNCHANGED vars
  BY <1>7 DEF vars
<1> QED
  BY <1>1, <1>2, <1>3, <1>4, <1>5, <1>6, <1>7 DEF Next

\* Every variable keeps its type, under every fault.
THEOREM TypeCorrect == Spec => []TypeOK
BY TypeInit, TypeStep, PTL DEF Spec

(***************************************************************************)
(* Answers match questions, under every fault.                             *)
(***************************************************************************)
\* Every list is stored under a key of the question it answers, and a request
\* that has read a list has read one for its own question.
EntriesAreHonest ==
    \A e \in cache : \E v \in Nat : e.key = TaskListKey(e.list.team, e.list.filter, v)

ReadersAreHonest ==
    \A r \in Requests :
        pc[r] \in {"fill", "answered"} => /\ got[r].team = team[r]
                                          /\ got[r].filter = filter[r]

Honest == EntriesAreHonest /\ ReadersAreHonest

LEMMA HonestInit == Init => Honest
BY DEF Init, Honest, EntriesAreHonest, ReadersAreHonest

LEMMA HonestStep == TypeOK /\ Honest /\ [Next]_vars => Honest'
<1> SUFFICES ASSUME TypeOK, Honest, [Next]_vars PROVE Honest'
  OBVIOUS
<1> USE DEF Honest, ReadersAreHonest, TypeOK
<1>1. ASSUME NEW r \in Requests, Hit(r)
      PROVE  Honest'
  <2>1. PICK e \in cache : /\ e.key = TaskListKey(team[r], filter[r], seen[r])
                           /\ got' = [got EXCEPT ![r] = e.list]
    BY <1>1 DEF Hit
  <2>2. e.list.team = team[r] /\ e.list.filter = filter[r]
    <3>1. PICK v \in Nat : e.key = TaskListKey(e.list.team, e.list.filter, v)
      BY DEF EntriesAreHonest
    <3>2. e.list.team \in Teams /\ e.list.filter \in Filters
      BY DEF Lists
    <3>3. team[r] \in Teams /\ filter[r] \in Filters /\ seen[r] \in Nat
      OBVIOUS
    <3>4. TaskListKey(e.list.team, e.list.filter, v) = TaskListKey(team[r], filter[r], seen[r])
      BY <2>1, <3>1
    <3> HIDE DEF TypeOK, Honest, ReadersAreHonest
    <3> QED
      BY <3>2, <3>3, <3>4, KeyInjective
  <2>3. ReadersAreHonest'
    BY <1>1, <2>1, <2>2 DEF Hit, ListStages
  <2>4. EntriesAreHonest'
    BY <1>1 DEF Hit, EntriesAreHonest, redis
  <2> QED
    BY <2>3, <2>4
<1>2. ASSUME NEW r \in Requests, Fill(r)
      PROVE  Honest'
  <2>1. EntriesAreHonest'
    BY <1>2 DEF Fill, EntriesAreHonest, locals
  <2>2. ReadersAreHonest'
    BY <1>2 DEF Fill, locals
  <2> QED
    BY <2>1, <2>2
<1>3. ASSUME NEW r \in Requests, Step(r), ~Hit(r), ~Fill(r)
      PROVE  Honest'
  <2>1. EntriesAreHonest'
    BY <1>3 DEF EntriesAreHonest, Step, ReadVersion, Miss, GetFails, Query, SetFails,
                Respond, QueryFails, Commit, Unchanged, Refuse, Invalidate, InvalidateFails,
                FailAfterCommit, redis
  <2>2. ReadersAreHonest'
    BY <1>3 DEF Step, ReadVersion, Miss, GetFails, Query, SetFails,
                Respond, QueryFails, Commit, Unchanged, Refuse, Invalidate, InvalidateFails,
                FailAfterCommit, Close, locals
  <2> QED
    BY <2>1, <2>2
<1>4. ASSUME NEW r \in Requests, NEW t \in Teams, NEW f \in Filters, StartList(r, t, f)
      PROVE  Honest'
  BY <1>4 DEF StartList, EntriesAreHonest, redis
<1>5. ASSUME NEW r \in Requests, NEW t \in Teams, StartCreate(r, t) \/ StartUpdate(r, t)
      PROVE  Honest'
  BY <1>5 DEF StartCreate, StartUpdate, EntriesAreHonest, redis
<1>6. ASSUME NEW e \in cache, Expire(e.key)
      PROVE  Honest'
  BY <1>6 DEF Expire, EntriesAreHonest, locals
<1>7. CASE RedisReset
  BY <1>7 DEF RedisReset, EntriesAreHonest, locals
<1>8. CASE Crash
  BY <1>8 DEF Crash, EntriesAreHonest, redis
<1>9. CASE UNCHANGED vars
  BY <1>9 DEF vars, EntriesAreHonest
<1> QED
  BY <1>1, <1>2, <1>3, <1>4, <1>5, <1>6, <1>7, <1>8, <1>9 DEF Next

\* A list request is answered with the list it asked for.
THEOREM AnswersMatch == Spec => []AnswersMatchQuestion
<1>1. Init => TypeOK /\ Honest
  BY TypeInit, HonestInit
<1>2. TypeOK /\ Honest /\ [Next]_vars => (TypeOK /\ Honest)'
  BY TypeStep, HonestStep
<1>3. Honest => AnswersMatchQuestion
  BY DEF Honest, ReadersAreHonest, AnswersMatchQuestion
<1> QED
  BY <1>1, <1>2, <1>3, PTL DEF Spec

(***************************************************************************)
(* What is settled is seen, as long as Redis keeps its counters.           *)
(***************************************************************************)
\* The counters are ordered, and nothing is ahead of what it was copied from.
CountersOrdered ==
    /\ \A t \in Teams : settled[t] <= rev[t] /\ told[t] <= rev[t]
    /\ \A r \in Requests :
         /\ pc[r] \in WriteStages => mine[r] <= rev[team[r]]
         /\ pc[r] \in ListStages => floor[r] <= settled[team[r]]
         /\ pc[r] \in {"lookup", "query", "fill"} => seen[r] <= version[team[r]]
         /\ pc[r] \in {"fill", "answered"} => got[r].rev <= rev[got[r].team]

CachedOrdered ==
    \A e \in cache : /\ e.key.version <= version[e.key.team]
                     /\ e.key.team = e.list.team
                     /\ e.list.rev <= rev[e.list.team]

\* What is about to be stored under the current version is fresh.
CurrentFillIsFresh ==
    \A r \in Requests :
        pc[r] = "fill" /\ seen[r] = version[team[r]] => settled[team[r]] <= got[r].rev

\* What a reader can find under the version it has seen is no older than its
\* floor, in the cache now or after a pending fill.
LookupIsFresh ==
    \A r \in Requests : pc[r] = "lookup" =>
        /\ \A e \in cache :
             e.key.team = team[r] /\ e.key.version = seen[r] => floor[r] <= e.list.rev
        /\ \A q \in Requests :
             pc[q] = "fill" /\ team[q] = team[r] /\ seen[q] = seen[r]
                => floor[r] <= got[q].rev

ReadIsFresh ==
    \A r \in Requests : pc[r] \in {"fill", "answered"} => floor[r] <= got[r].rev

FreshInv ==
    /\ CountersOrdered /\ CachedOrdered
    /\ CurrentVersionIsFresh /\ CurrentFillIsFresh
    /\ LookupIsFresh /\ ReadIsFresh

LEMMA KeyFields ==
    ASSUME NEW t, NEW f, NEW v
    PROVE  TaskListKey(t, f, v).team = t /\ TaskListKey(t, f, v).version = v
BY DEF TaskListKey

LEMMA FreshInit == Init => FreshInv
BY DEF Init, FreshInv, CountersOrdered, CachedOrdered, CurrentVersionIsFresh,
       CurrentFillIsFresh, LookupIsFresh, ReadIsFresh, ListStages, WriteStages

\* While no counter goes back, every step preserves the invariant.
LEMMA FreshStep ==
    ASSUME NoReset, TypeOK, Honest, FreshInv, [Next]_vars
    PROVE  FreshInv'
<1> USE DEF TypeOK, Honest, ReadersAreHonest, FreshInv
<1>1. ASSUME NEW r \in Requests, NEW t \in Teams, NEW f \in Filters,
             StartList(r, t, f)
      PROVE  FreshInv'
  BY <1>1 DEF StartList, history, redis, ListStages, WriteStages,
         CountersOrdered, CachedOrdered, CurrentVersionIsFresh,
         CurrentFillIsFresh, LookupIsFresh, ReadIsFresh
<1>2. ASSUME NEW r \in Requests, NEW t \in Teams, StartCreate(r, t) \/ StartUpdate(r, t)
      PROVE  FreshInv'
  <2>1. /\ pc[r] = "idle" /\ pc' = [pc EXCEPT ![r] = "write"]
        /\ team' = [team EXCEPT ![r] = t]
        /\ mine'[r] <= rev[t] /\ \A q \in Requests : q # r => mine'[q] = mine[q]
        /\ UNCHANGED <<rev, settled, told, version, cache, floor, seen, got>>
    <3>1. CASE StartCreate(r, t)
      BY <3>1 DEF StartCreate, history, redis
    <3>2. CASE StartUpdate(r, t)
      BY <3>2 DEF StartUpdate, history, redis
    <3> QED
      BY <1>2, <3>1, <3>2
  <2>2. CountersOrdered'
    BY <2>1 DEF CountersOrdered, ListStages, WriteStages
  <2>3. CachedOrdered' /\ CurrentVersionIsFresh' /\ ReadIsFresh'
    BY <2>1 DEF CachedOrdered, CurrentVersionIsFresh, ReadIsFresh
  <2>4. CurrentFillIsFresh' /\ LookupIsFresh'
    BY <2>1 DEF CurrentFillIsFresh, LookupIsFresh
  <2> QED
    BY <2>2, <2>3, <2>4
<1>3. ASSUME NEW r \in Requests, ReadVersion(r)
      PROVE  FreshInv'
  <2>1. CountersOrdered'
    BY <1>3 DEF ReadVersion, history, redis,
           CountersOrdered, ListStages, WriteStages
  \* Everything under the version read now is as new as settled, hence as the floor.
  <2>2. LookupIsFresh'
    BY <1>3 DEF ReadVersion, history, redis,
           LookupIsFresh, CountersOrdered, CurrentVersionIsFresh, CurrentFillIsFresh,
           ListStages, WriteStages, Keys, Lists
  <2>3. CachedOrdered' /\ CurrentVersionIsFresh' /\ CurrentFillIsFresh' /\ ReadIsFresh'
    BY <1>3 DEF ReadVersion, history, redis,
           CachedOrdered, CurrentVersionIsFresh, CurrentFillIsFresh, ReadIsFresh
  <2> QED
    BY <2>1, <2>2, <2>3
<1>4. ASSUME NEW r \in Requests, Hit(r)
      PROVE  FreshInv'
  <2>1. CountersOrdered'
    BY <1>4 DEF Hit, history, redis,
           CountersOrdered, CachedOrdered, ListStages, WriteStages, Lists
  \* The entry found is under the version seen.
  <2>2. ReadIsFresh'
    BY <1>4, KeyFields DEF Hit, history, redis,
           ReadIsFresh, LookupIsFresh
  <2>3. CachedOrdered' /\ CurrentVersionIsFresh' /\ CurrentFillIsFresh' /\ LookupIsFresh'
    BY <1>4 DEF Hit, history, redis,
           CachedOrdered, CurrentVersionIsFresh, CurrentFillIsFresh, LookupIsFresh
  <2> QED
    BY <2>1, <2>2, <2>3
<1>5. ASSUME NEW r \in Requests, Miss(r) \/ GetFails(r) \/ SetFails(r)
      PROVE  FreshInv'
  BY <1>5 DEF Miss, GetFails, SetFails, history, redis, locals, ListStages, WriteStages,
         CountersOrdered, CachedOrdered, CurrentVersionIsFresh,
         CurrentFillIsFresh, LookupIsFresh, ReadIsFresh
<1>6. ASSUME NEW r \in Requests, Query(r)
      PROVE  FreshInv'
  <2>1. CountersOrdered'
    BY <1>6 DEF Query, history, redis,
           CountersOrdered, ListStages, WriteStages, Lists
  \* The row set is at least as new as settled, and so as any floor.
  <2>2. LookupIsFresh'
    BY <1>6 DEF Query, history, redis,
           LookupIsFresh, CountersOrdered, ListStages, WriteStages
  <2>3. CachedOrdered' /\ CurrentVersionIsFresh' /\ CurrentFillIsFresh' /\ ReadIsFresh'
    BY <1>6 DEF Query, history, redis,
           CountersOrdered, CachedOrdered, CurrentVersionIsFresh, CurrentFillIsFresh,
              ReadIsFresh, ListStages, WriteStages
  <2> QED
    BY <2>1, <2>2, <2>3
<1>7. ASSUME NEW r \in Requests, Fill(r)
      PROVE  FreshInv'
  <2>1. CountersOrdered'
    BY <1>7 DEF Fill, history, locals,
           CountersOrdered, ListStages, WriteStages
  <2>2. CachedOrdered'
    BY <1>7, KeyFields DEF Fill, history, locals,
           CountersOrdered, CachedOrdered
  <2>3. CurrentVersionIsFresh'
    BY <1>7, KeyFields DEF Fill, history, locals,
           CurrentVersionIsFresh, CurrentFillIsFresh
  \* The entry stored was a pending fill before.
  <2>4. LookupIsFresh'
    BY <1>7, KeyFields DEF Fill, history, locals,
           LookupIsFresh
  <2>5. CurrentFillIsFresh' /\ ReadIsFresh'
    BY <1>7 DEF Fill, history, locals,
           CurrentFillIsFresh, ReadIsFresh
  <2> QED
    BY <2>1, <2>2, <2>3, <2>4, <2>5
<1>8. ASSUME NEW r \in Requests,
             \/ Respond(r) \/ QueryFails(r) \/ Unchanged(r) \/ Refuse(r)
             \/ FailAfterCommit(r) \/ InvalidateFails(r)
      PROVE  FreshInv'
  <2>1. CountersOrdered'
    BY <1>8 DEF Respond, QueryFails, Unchanged, Refuse, FailAfterCommit,
           InvalidateFails, Close, Later,
           history, redis,
           CountersOrdered, ListStages, WriteStages
  <2>2. CachedOrdered' /\ CurrentVersionIsFresh'
    BY <1>8 DEF Respond, QueryFails, Unchanged, Refuse, FailAfterCommit,
           InvalidateFails, Close, Later,
           history, redis,
           CachedOrdered, CurrentVersionIsFresh
  <2>3. CurrentFillIsFresh' /\ LookupIsFresh' /\ ReadIsFresh'
    BY <1>8 DEF Respond, QueryFails, Unchanged, Refuse, FailAfterCommit,
           InvalidateFails, Close, Later,
           history, redis,
           CurrentFillIsFresh, LookupIsFresh, ReadIsFresh
  <2> QED
    BY <2>1, <2>2, <2>3
<1>9. ASSUME NEW r \in Requests, Commit(r)
      PROVE  FreshInv'
  <2>1. CountersOrdered'
    BY <1>9 DEF Commit, history, redis,
           CountersOrdered, ListStages, WriteStages, Lists
  <2>2. CachedOrdered' /\ CurrentVersionIsFresh'
    BY <1>9 DEF Commit, history, redis,
           CachedOrdered, CurrentVersionIsFresh, Keys, Lists
  <2>3. CurrentFillIsFresh' /\ LookupIsFresh' /\ ReadIsFresh'
    BY <1>9 DEF Commit, history, redis,
           CurrentFillIsFresh, LookupIsFresh, ReadIsFresh
  <2> QED
    BY <2>1, <2>2, <2>3
<1>10. ASSUME NEW r \in Requests, Invalidate(r)
      PROVE  FreshInv'
  <2>1. CountersOrdered'
    BY <1>10 DEF Invalidate, Settle, Close,
           CountersOrdered, ListStages, WriteStages
  <2>2. CachedOrdered'
    BY <1>10 DEF Invalidate, Settle, Close,
           CachedOrdered, Keys, Lists
  \* The new version is above that of every entry and of every pending fill.
  <2>3. CurrentVersionIsFresh' /\ CurrentFillIsFresh'
    BY <1>10 DEF Invalidate, Settle, Close,
           CurrentVersionIsFresh, CurrentFillIsFresh, CachedOrdered, CountersOrdered,
              Keys, Lists
  <2>4. LookupIsFresh' /\ ReadIsFresh'
    BY <1>10 DEF Invalidate, Settle, Close,
           LookupIsFresh, ReadIsFresh
  <2> QED
    BY <2>1, <2>2, <2>3, <2>4
<1>11. ASSUME NEW e \in cache, Expire(e.key)
      PROVE  FreshInv'
  BY <1>11 DEF Expire, history, locals,
         CountersOrdered, CachedOrdered, CurrentVersionIsFresh,
         CurrentFillIsFresh, LookupIsFresh, ReadIsFresh
<1>12. ASSUME Crash
      PROVE  FreshInv'
  BY <1>12 DEF Crash, history, redis, ListStages, WriteStages,
         CountersOrdered, CachedOrdered, CurrentVersionIsFresh,
         CurrentFillIsFresh, LookupIsFresh, ReadIsFresh
<1>13. ASSUME UNCHANGED vars
      PROVE  FreshInv'
  BY <1>13 DEF vars,
         CountersOrdered, CachedOrdered, CurrentVersionIsFresh,
         CurrentFillIsFresh, LookupIsFresh, ReadIsFresh
<1>14. ASSUME RedisReset
      PROVE  FALSE
  BY <1>14 DEF RedisReset, NoReset
<1> QED
  BY <1>1, <1>2, <1>3, <1>4, <1>5, <1>6, <1>7, <1>8, <1>9, <1>10, <1>11, <1>12, <1>13, <1>14
    DEF Next, Step

\* What the three lemma pairs make inductive together.
Inv == TypeOK /\ Honest /\ FreshInv

LEMMA InvHolds == ASSUME NoReset PROVE Spec => []Inv
<1>1. Init => Inv
  BY TypeInit, HonestInit, FreshInit DEF Inv
<1>2. Inv /\ [Next]_vars => Inv'
  BY TypeStep, HonestStep, FreshStep DEF Inv
<1> QED
  BY <1>1, <1>2, PTL DEF Spec

\* A list request that arrives once a change is settled sees the change.
THEOREM ReadYourWrites == ASSUME NoReset PROVE Spec => []FreshAnswers
<1>1. Inv => FreshAnswers
  BY DEF Inv, FreshInv, ReadIsFresh, FreshAnswers
<1> QED
  BY <1>1, InvHolds, PTL

\* No list older than a settled change is under the current version.
THEOREM CurrentIsFresh == ASSUME NoReset PROVE Spec => []CurrentVersionIsFresh
<1>1. Inv => CurrentVersionIsFresh
  BY DEF Inv, FreshInv
<1> QED
  BY <1>1, InvHolds, PTL

(***************************************************************************)
(* What is not settled has a maker that has not answered yet, as long as   *)
(* every commit is followed by an increment.                               *)
(***************************************************************************)
Pending(t, n) ==
    \E r \in Requests : pc[r] = "committed" /\ team[r] = t /\ mine[r] = n

SettledOrPending ==
    \A t \in Teams : \A n \in settled[t] + 1 .. rev[t] : Pending(t, n)

LEMMA PendingStep ==
    ASSUME NoDrop, Inv, SettledOrPending, [Next]_vars
    PROVE  SettledOrPending'
<1> USE DEF Inv, TypeOK, SettledOrPending, Pending
<1>1. ASSUME NEW r \in Requests, Commit(r)
      PROVE  SettledOrPending'
  <2> SUFFICES ASSUME NEW t \in Teams, NEW n \in settled'[t] + 1 .. rev'[t]
               PROVE  Pending(t, n)'
    OBVIOUS
  <2>1. /\ settled' = settled /\ team' = team
        /\ pc[r] = "write" /\ pc' = [pc EXCEPT ![r] = "committed"]
        /\ rev' = [rev EXCEPT ![team[r]] = rev[team[r]] + 1]
        /\ mine' = [mine EXCEPT ![r] = rev[team[r]] + 1]
    BY <1>1 DEF Commit, history
  <2>2. CASE t = team[r] /\ n = rev[t] + 1
    BY <2>1, <2>2
  <2>3. CASE ~(t = team[r] /\ n = rev[t] + 1)
    <3>1. n \in settled[t] + 1 .. rev[t]
      BY <2>1, <2>3
    <3>2. PICK q \in Requests : pc[q] = "committed" /\ team[q] = t /\ mine[q] = n
      BY <3>1
    <3> QED
      BY <2>1, <3>2
  <2> QED
    BY <2>2, <2>3
<1>2. ASSUME NEW r \in Requests, Invalidate(r)
      PROVE  SettledOrPending'
  <2> SUFFICES ASSUME NEW t \in Teams, NEW n \in settled'[t] + 1 .. rev'[t]
               PROVE  Pending(t, n)'
    OBVIOUS
  <2>1. /\ rev' = rev /\ settled' = [settled EXCEPT ![team[r]] = rev[team[r]]]
        /\ \A q \in Requests : q # r => /\ pc'[q] = pc[q] /\ team'[q] = team[q]
                                       /\ mine'[q] = mine[q]
    BY <1>2 DEF Invalidate, Settle, Close
  <2>2. t # team[r] /\ n \in settled[t] + 1 .. rev[t]
    BY <2>1
  <2>3. PICK q \in Requests : pc[q] = "committed" /\ team[q] = t /\ mine[q] = n
    BY <2>2
  <2> QED
    BY <2>1, <2>2, <2>3
<1>3. ASSUME NEW r \in Requests, pc[r] # "committed", UNCHANGED <<rev, settled>>,
             \A q \in Requests : q # r => /\ pc'[q] = pc[q] /\ team'[q] = team[q]
                                          /\ mine'[q] = mine[q]
      PROVE  SettledOrPending'
  <2> SUFFICES ASSUME NEW t \in Teams, NEW n \in settled'[t] + 1 .. rev'[t]
               PROVE  Pending(t, n)'
    OBVIOUS
  <2>1. PICK q \in Requests : pc[q] = "committed" /\ team[q] = t /\ mine[q] = n
    BY <1>3
  <2> QED
    BY <1>3, <2>1
<1>4. ASSUME NEW r \in Requests, Step(r), ~Commit(r), ~Invalidate(r)
      PROVE  SettledOrPending'
  <2>1. pc[r] # "committed"
    BY <1>4 DEF Step, NoDrop, ReadVersion, Hit, Miss, GetFails, Query, QueryFails, Fill,
                SetFails, Respond, Unchanged, Refuse, InvalidateFails, FailAfterCommit
  <2>2. UNCHANGED <<rev, settled>>
    BY <1>4 DEF Step, NoDrop, ReadVersion, Hit, Miss, GetFails, Query, QueryFails, Fill,
                SetFails, Respond, Unchanged, Refuse, InvalidateFails, FailAfterCommit,
                history
  <2>3. \A q \in Requests : q # r => /\ pc'[q] = pc[q] /\ team'[q] = team[q]
                                     /\ mine'[q] = mine[q]
    BY <1>4 DEF Step, NoDrop, ReadVersion, Hit, Miss, GetFails, Query, QueryFails, Fill,
                SetFails, Respond, Unchanged, Refuse, InvalidateFails, FailAfterCommit,
                Close, locals
  <2> QED
    BY <1>3, <2>1, <2>2, <2>3
<1>5. ASSUME NEW r \in Requests, NEW t \in Teams, NEW f \in Filters,
             StartList(r, t, f) \/ StartCreate(r, t) \/ StartUpdate(r, t)
      PROVE  SettledOrPending'
  <2>1. pc[r] # "committed"
    BY <1>5 DEF StartList, StartCreate, StartUpdate
  <2>2. UNCHANGED <<rev, settled>>
    BY <1>5 DEF StartList, StartCreate, StartUpdate, history
  <2>3. \A q \in Requests : q # r => /\ pc'[q] = pc[q] /\ team'[q] = team[q]
                                     /\ mine'[q] = mine[q]
    <3>1. CASE StartList(r, t, f)
      BY <3>1 DEF StartList
    <3>2. CASE StartCreate(r, t)
      BY <3>2 DEF StartCreate
    <3>3. CASE StartUpdate(r, t)
      BY <3>3 DEF StartUpdate
    <3> QED
      BY <1>5, <3>1, <3>2, <3>3
  <2> QED
    BY <1>3, <2>1, <2>2, <2>3
<1>6. ASSUME NEW e \in cache, Expire(e.key)
      PROVE  SettledOrPending'
  BY <1>6 DEF Expire, history, locals
<1>7. ASSUME RedisReset \/ Crash
      PROVE  FALSE
  BY <1>7 DEF RedisReset, Crash, NoDrop
<1>8. CASE UNCHANGED vars
  BY <1>8 DEF vars
<1>9. \E f : f \in Filters
  BY AnyType
<1> QED
  BY <1>1, <1>2, <1>4, <1>5, <1>6, <1>7, <1>8, <1>9 DEF Next

\* A list under the current version lacks only changes whose makers have not
\* answered: so long, and no longer, a client may miss one that Update told
\* it was already made.
THEOREM OnlyPendingIsMissed == ASSUME NoDrop PROVE Spec => []StaleOnlyWhilePending
<1>1. NoReset
  BY DEF NoDrop, NoReset
<1>2. Init => SettledOrPending
  BY DEF Init, SettledOrPending
<1>3. Inv /\ SettledOrPending /\ [Next]_vars => SettledOrPending'
  BY PendingStep
<1>4. Inv /\ SettledOrPending => StaleOnlyWhilePending
  <2> SUFFICES ASSUME Inv, SettledOrPending, NEW e \in cache,
                      e.key.version = version[e.key.team],
                      NEW n \in e.list.rev + 1 .. rev[e.list.team]
               PROVE  Pending(e.list.team, n)
    BY DEF StaleOnlyWhilePending, Pending
  <2>1. /\ e.list.team \in Teams /\ e.list.rev \in Nat /\ e.key.team = e.list.team
        /\ settled[e.list.team] \in Nat /\ rev[e.list.team] \in Nat
    BY DEF Inv, TypeOK, Lists, FreshInv, CachedOrdered
  <2>2. settled[e.list.team] <= e.list.rev
    BY <2>1 DEF Inv, FreshInv, CurrentVersionIsFresh
  <2> QED
    BY <2>1, <2>2 DEF SettledOrPending
<1> QED
  BY <1>1, <1>2, <1>3, <1>4, InvHolds, PTL DEF Spec

(***************************************************************************)
(* Refinement: the protocol implements TaskListing.                        *)
(***************************************************************************)
\* A maker's success comes with the increment that settles its change.
AckedIsSettled == \A t \in Teams : acked[t] <= settled[t]

LEMMA AckedStep ==
    ASSUME NoLoss, Inv, AckedIsSettled, [Next]_vars
    PROVE  AckedIsSettled'
<1> USE DEF AckedIsSettled
<1>1. ASSUME NEW r \in Requests, Invalidate(r)
      PROVE  AckedIsSettled'
  BY <1>1 DEF Invalidate, Settle, Acknowledge, Later, Inv, TypeOK, FreshInv,
              CountersOrdered, WriteStages
<1>2. ASSUME NEW r \in Requests, Step(r), ~Invalidate(r)
      PROVE  UNCHANGED <<acked, settled>>
  BY <1>2 DEF Step, NoLoss, ReadVersion, Hit, Miss, GetFails, Query, QueryFails, Fill,
              SetFails, Respond, Commit, Unchanged, Refuse, InvalidateFails,
              FailAfterCommit, history
<1>3. ASSUME NEW r \in Requests, NEW t \in Teams, NEW f \in Filters,
             StartList(r, t, f) \/ StartCreate(r, t) \/ StartUpdate(r, t)
      PROVE  UNCHANGED <<acked, settled>>
  BY <1>3 DEF StartList, StartCreate, StartUpdate, history
<1>4. ASSUME NEW e \in cache, Expire(e.key)
      PROVE  UNCHANGED <<acked, settled>>
  BY <1>4 DEF Expire, history
<1>5. CASE RedisReset \/ Crash
  BY <1>5 DEF RedisReset, Crash, history
<1>6. CASE UNCHANGED vars
  BY <1>6 DEF vars
<1>7. \E f : f \in Filters
  BY AnyType
<1> QED
  BY <1>1, <1>2, <1>3, <1>4, <1>5, <1>6, <1>7 DEF Next

LEMMA ListingInit == Init => Listing!Init
BY DEF Init, Listing!Init, CallBar, ListStages, Listing!NoCall

\* The steps that clients do not see.
LEMMA Hidden ==
    ASSUME TypeOK, NEW r \in Requests,
           \/ ReadVersion(r) \/ Miss(r) \/ GetFails(r) \/ Refuse(r)
           \/ FailAfterCommit(r) \/ (Query(r) /\ pc[r] = "query")
    PROVE  UNCHANGED <<rev, settled, acked, told, CallBar>>
BY DEF TypeOK, ReadVersion, Miss, GetFails, Refuse, FailAfterCommit, Query, Close,
       history, redis, locals, CallBar, ListStages

\* The steps that answer a list request.
LEMMA Answers ==
    ASSUME Inv, NEW r \in Requests,
           Hit(r) \/ Fill(r) \/ SetFails(r) \/ (Query(r) /\ pc[r] = "bypass"),
           Inv'
    PROVE  Listing!Answer(r)
<1>1. pc[r] \in ListStages /\ pc[r] # "answered" /\ pc'[r] = "answered"
  BY DEF Hit, Fill, SetFails, Query, Inv, TypeOK, ListStages
<1>2. UNCHANGED <<rev, settled, acked, told, team, filter, floor>>
  BY DEF Hit, Fill, SetFails, Query, history, redis, locals
<1>3. \A q \in Requests : q # r => pc'[q] = pc[q] /\ got'[q] = got[q]
  BY DEF Hit, Fill, SetFails, Query, locals, Inv, TypeOK
<1>4. /\ got'[r] \in Lists
      /\ got'[r] = [team |-> team[r], filter |-> filter[r], rev |-> got'[r].rev]
  BY <1>1, <1>2 DEF Inv, TypeOK, Honest, ReadersAreHonest, Lists
<1>5. got'[r].rev \in floor[r] .. rev[team[r]]
  BY <1>1, <1>2, <1>4 DEF Inv, TypeOK, FreshInv, ReadIsFresh, CountersOrdered, Lists
<1>6. /\ CallBar[r].stage = "open" /\ CallBar[r].floor = floor[r]
      /\ CallBar[r].team = team[r] /\ CallBar[r].filter = filter[r]
  BY <1>1 DEF CallBar
<1>7. CallBar' = [CallBar EXCEPT ![r] = Listing!Answered(got'[r])]
  <2>1. CallBar'[r] = Listing!Answered(got'[r])
    BY <1>1 DEF CallBar, Listing!Answered, ListStages
  <2>2. \A q \in Requests : q # r => CallBar'[q] = CallBar[q]
    BY <1>2, <1>3 DEF CallBar
  <2> QED
    BY <2>1, <2>2 DEF CallBar
<1>8. CallBar' = [CallBar EXCEPT ![r] = Listing!Answered(
                    [team |-> CallBar[r].team, filter |-> CallBar[r].filter,
                     rev |-> got'[r].rev])]
  BY <1>4, <1>6, <1>7
<1>9. got'[r].rev \in CallBar[r].floor .. rev[CallBar[r].team]
  BY <1>5, <1>6
<1> QED
  BY <1>2, <1>6, <1>8, <1>9 DEF Listing!Answer

\* The steps that take a list request in and that end it.
LEMMA Asks ==
    ASSUME TypeOK, NEW r \in Requests, NEW t \in Teams, NEW f \in Filters,
           StartList(r, t, f)
    PROVE  Listing!Ask(r)
<1>1. CallBar[r].stage = "none"
  BY DEF StartList, CallBar, ListStages
<1>2. CallBar' = [CallBar EXCEPT ![r] = Listing!Open(t, f, settled[t])]
  BY DEF StartList, CallBar, ListStages, TypeOK, Listing!Open
<1> QED
  BY <1>1, <1>2 DEF StartList, history, Listing!Ask

LEMMA Closes ==
    ASSUME TypeOK, NEW r \in Requests, Respond(r) \/ QueryFails(r)
    PROVE  Listing!Close(r)
<1>1. CallBar' = [CallBar EXCEPT ![r] = Listing!NoCall]
  BY DEF Respond, QueryFails, Close, CallBar, ListStages, TypeOK, Listing!NoCall
<1> QED
  BY <1>1 DEF Respond, QueryFails, history, Listing!Close

\* The steps of writes.
LEMMA Changes ==
    ASSUME TypeOK, NEW r \in Requests, Commit(r)
    PROVE  Listing!Change(team[r])
<1>1. CallBar' = CallBar
  BY DEF Commit, CallBar, ListStages, TypeOK
<1> QED
  BY <1>1 DEF Commit, history, Listing!Change

LEMMA Settles ==
    ASSUME Inv, AckedIsSettled, NEW r \in Requests, Invalidate(r)
    PROVE  Listing!Settle(team[r])
<1>1. CallBar' = CallBar
  BY DEF Invalidate, Close, CallBar, ListStages, Inv, TypeOK
<1> DEFINE n == rev[team[r]]
           m == Later(mine[r], acked[team[r]])
<1>2. settled' = [settled EXCEPT ![team[r]] = n] /\ acked' = [acked EXCEPT ![team[r]] = m]
  BY DEF Invalidate, Settle, Acknowledge
<1>3. n \in settled[team[r]] .. rev[team[r]] /\ m \in acked[team[r]] .. rev[team[r]] /\ m <= n
  BY DEF Invalidate, AckedIsSettled, Later, Inv, TypeOK, FreshInv, CountersOrdered,
         WriteStages
<1> HIDE DEF n, m
<1> QED
  BY <1>1, <1>2, <1>3 DEF Invalidate, Listing!Settle

LEMMA Confirms ==
    ASSUME Inv, NEW r \in Requests, Unchanged(r)
    PROVE  Listing!Confirm(team[r])
<1>1. CallBar' = CallBar
  BY DEF Unchanged, Close, CallBar, ListStages, Inv, TypeOK
<1> DEFINE n == Later(mine[r], told[team[r]])
<1>2. told' = [told EXCEPT ![team[r]] = n]
  BY DEF Unchanged
<1>3. n \in told[team[r]] .. rev[team[r]]
  BY DEF Unchanged, Later, Inv, TypeOK, FreshInv, CountersOrdered, WriteStages
<1> HIDE DEF n
<1> QED
  BY <1>1, <1>2, <1>3 DEF Unchanged, Listing!Confirm

LEMMA ListingStep ==
    ASSUME NoLoss, AckedIsSettled, Inv, Inv', [Next]_vars
    PROVE  [Listing!Next]_(Listing!vars)
<1> USE DEF Listing!vars
<1>1. ASSUME NEW r \in Requests, NEW t \in Teams, NEW f \in Filters, StartList(r, t, f)
      PROVE  Listing!Next
  BY <1>1, Asks DEF Inv, Listing!Next
<1>2. ASSUME NEW r \in Requests, NEW t \in Teams, StartCreate(r, t) \/ StartUpdate(r, t)
      PROVE  UNCHANGED <<rev, settled, acked, told, CallBar>>
  BY <1>2 DEF StartCreate, StartUpdate, history, redis, CallBar, ListStages, Inv, TypeOK
<1>3. ASSUME NEW r \in Requests, Step(r)
      PROVE  [Listing!Next]_(Listing!vars)
  <2>1. CASE \/ ReadVersion(r) \/ Miss(r) \/ GetFails(r) \/ Refuse(r)
             \/ FailAfterCommit(r) \/ (Query(r) /\ pc[r] = "query")
    BY <2>1, Hidden DEF Inv
  <2>2. CASE Hit(r) \/ Fill(r) \/ SetFails(r) \/ (Query(r) /\ pc[r] = "bypass")
    BY <2>2, Answers DEF Listing!Next
  <2>3. CASE Respond(r) \/ QueryFails(r)
    BY <2>3, Closes DEF Inv, Listing!Next
  <2>4. CASE Commit(r)
    BY <2>4, Changes DEF Inv, TypeOK, Listing!Next
  <2>5. CASE Invalidate(r)
    BY <2>5, Settles DEF Inv, TypeOK, Listing!Next
  <2>6. ~InvalidateFails(r)
    BY DEF InvalidateFails, NoLoss
  <2>7. Query(r) => pc[r] \in {"query", "bypass"}
    BY DEF Query
  <2>8. CASE Unchanged(r)
    BY <2>8, Confirms DEF Inv, TypeOK, Listing!Next
  <2> QED
    BY <1>3, <2>1, <2>2, <2>3, <2>4, <2>5, <2>6, <2>7, <2>8 DEF Step
<1>4. ASSUME NEW e \in cache, Expire(e.key)
      PROVE  UNCHANGED <<rev, settled, acked, told, CallBar>>
  BY <1>4 DEF Expire, history, locals, CallBar
<1>5. CASE RedisReset
  BY <1>5 DEF RedisReset, NoLoss
<1>6. ASSUME Crash
      PROVE  Listing!CloseAll
  BY <1>6 DEF Crash, history, Listing!CloseAll, Listing!NoCall, CallBar, ListStages
<1>7. CASE UNCHANGED vars
  BY <1>7 DEF vars, CallBar
<1> QED
  BY <1>1, <1>2, <1>3, <1>4, <1>5, <1>6, <1>7 DEF Next, Listing!Next

\* The handlers, Redis and MySQL keep the promise of TaskListing.
THEOREM ImplementsListing == ASSUME NoLoss PROVE Spec => ListingSpec
<1>1. NoReset
  BY DEF NoLoss, NoReset
<1>2. Init => AckedIsSettled
  BY DEF Init, AckedIsSettled
<1>3. Inv /\ AckedIsSettled /\ [Next]_vars => AckedIsSettled'
  BY AckedStep
<1>4. Inv /\ Inv' /\ AckedIsSettled /\ [Next]_vars => [Listing!Next]_(Listing!vars)
  BY ListingStep
<1> QED
  BY <1>1, <1>2, <1>3, <1>4, ListingInit, InvHolds, PTL DEF Spec, ListingSpec, Listing!Spec
=============================================================================
