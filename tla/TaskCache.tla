----------------------------- MODULE TaskCache -----------------------------
(***************************************************************************)
(* The cache-aside protocol around the task lists.                         *)
(*                                                                         *)
(* internal/usecase/task/task.go (Create, List, Update, invalidateCache)   *)
(* drives internal/adapter/redis/task_cache.go: every team has a version   *)
(* counter in Redis, the key of a cached list contains the version its     *)
(* reader saw BEFORE it queried MySQL, and a write increments the counter  *)
(* after its transaction committed.  Nothing makes the stores agree        *)
(* atomically, so each call to Redis or MySQL is an action of its own and  *)
(* any number of requests interleave between them.                         *)
(*                                                                         *)
(* Abstracted: the rows.  rev[t] counts the committed changes of team t's  *)
(* tasks, and a list is the question it answers together with the revision *)
(* it was read from.  Requests rejected before their first call to the     *)
(* cache (validation, membership) touch no state and do not appear.        *)
(***************************************************************************)
EXTENDS Integers

CONSTANTS
    Requests,   \* slots in which HTTP requests are served, of any replica
    Teams,
    Statuses, Assignees, Limits, Offsets,   \* what a TaskFilter may hold
    Unset,      \* a nil Status or AssigneeID of a TaskFilter
    AllText,    \* what a key says for a nil one: "all"
    Faults,     \* the faults that may happen, see FaultKinds
    MaxRev,     \* bound: committed changes of one team's tasks
    NoList      \* no list read yet

(***************************************************************************)
(*  "get"    the version or the cached list cannot be read or decoded      *)
(*  "set"    the list cannot be stored                                     *)
(*  "retry"  INCR is executed twice: its first answer was lost and the     *)
(*           client library sent the command again                         *)
(*  "db"     the query of List or the transaction of a write fails         *)
(*  "skip"   the change is committed but the handler sees an error: the    *)
(*           load after Create's INSERT fails, or COMMIT's answer is lost  *)
(*  "crash"  the process stops with the requests it serves                 *)
(*  "lost"   INCR is not executed, which invalidateCache only logs         *)
(*  "reset"  Redis restarts empty                                          *)
(***************************************************************************)
FaultKinds == {"get", "set", "retry", "db", "skip", "crash", "lost", "reset"}

ASSUME SizeAssumption == Teams # {} /\ Limits # {} /\ Offsets # {}
ASSUME BoundAssumption == MaxRev \in Nat
ASSUME FaultAssumption == Faults \subseteq FaultKinds
\* domain.TaskStatus.Valid admits no status "all", and an assignee is a number.
ASSUME TextAssumption == AllText \notin Statuses \cup Assignees

VARIABLES
    rev,        \* [Teams -> Nat], committed changes: the contents of MySQL
    settled,    \* [Teams -> Nat], changes committed when an INCR of the team came back
    acked,      \* [Teams -> Nat], newest change whose own request returned success
    told,       \* [Teams -> Nat], newest change that another request, which
                \* found nothing left to change, reported as success
    version,    \* [Teams -> Nat], the Redis counters, 0 when absent
    cache,      \* the cached lists in Redis: records with a key and a list
    pc,         \* where each request is in its handler
    team, filter,           \* what the request is about
    floor,      \* settled[team] when the list request arrived
    seen,       \* the version Get returned
    got,        \* the list the request read
    mine        \* the change a write request reports: the last one of the row it
                \* read, then the one it committed

history == <<settled, acked, told>>
redis == <<version, cache>>
locals == <<team, filter, floor, seen, got, mine>>
vars == <<rev, settled, acked, told, version, cache, pc, team, filter, floor, seen, got, mine>>

Filters == [status : Statuses \cup {Unset}, assignee : Assignees \cup {Unset},
            limit : Limits, offset : Offsets]

\* What the fields of a slot hold while it serves nobody.
AnyTeam == CHOOSE t \in Teams : TRUE
AnyFilter == CHOOSE f \in Filters : TRUE

Lists == [team : Teams, filter : Filters, rev : Nat]

\* taskListKey.  Two questions share an entry exactly when this is equal.
Text(value) == IF value = Unset THEN AllText ELSE value

\* Mutant: the status is left out of the key.
TaskListKey_NoStatus(t, f, v) ==
    [team |-> t, version |-> v, status |-> AllText,
     assignee |-> Text(f.assignee), limit |-> f.limit, offset |-> f.offset]

TaskListKey(t, f, v) ==
    [team |-> t, version |-> v, status |-> Text(f.status),
     assignee |-> Text(f.assignee), limit |-> f.limit, offset |-> f.offset]

Keys == [team : Teams, version : Nat, status : Statuses \cup {Unset, AllText},
         assignee : Assignees \cup {Unset, AllText}, limit : Limits, offset : Offsets]

ListStages == {"version", "lookup", "query", "bypass", "fill", "answered"}
WriteStages == {"write", "committed"}

Init ==
    /\ rev = [t \in Teams |-> 0]
    /\ settled = [t \in Teams |-> 0]
    /\ acked = [t \in Teams |-> 0]
    /\ told = [t \in Teams |-> 0]
    /\ version = [t \in Teams |-> 0]
    /\ cache = {}
    /\ pc = [r \in Requests |-> "idle"]
    /\ team = [r \in Requests |-> AnyTeam]
    /\ filter = [r \in Requests |-> AnyFilter]
    /\ floor = [r \in Requests |-> 0]
    /\ seen = [r \in Requests |-> 0]
    /\ got = [r \in Requests |-> NoList]
    /\ mine = [r \in Requests |-> 0]
-----------------------------------------------------------------------------
\* List, past its validation and membership check.
StartList(r, t, f) ==
    /\ pc[r] = "idle"
    /\ pc' = [pc EXCEPT ![r] = "version"]
    /\ team' = [team EXCEPT ![r] = t]
    /\ filter' = [filter EXCEPT ![r] = f]
    /\ floor' = [floor EXCEPT ![r] = settled[t]]
    /\ UNCHANGED <<rev, history, redis, seen, got, mine>>

\* currentVersion.
ReadVersion(r) ==
    /\ pc[r] = "version"
    /\ pc' = [pc EXCEPT ![r] = "lookup"]
    /\ seen' = [seen EXCEPT ![r] = version[team[r]]]
    /\ UNCHANGED <<rev, history, redis, team, filter, floor, got, mine>>

\* The lookup under the version just read: a hit is the answer.
Hit(r) ==
    /\ pc[r] = "lookup"
    /\ \E e \in cache :
         /\ e.key = TaskListKey(team[r], filter[r], seen[r])
         /\ got' = [got EXCEPT ![r] = e.list]
    /\ pc' = [pc EXCEPT ![r] = "answered"]
    /\ UNCHANGED <<rev, history, redis, team, filter, floor, seen, mine>>

Miss(r) ==
    /\ pc[r] = "lookup"
    /\ \A e \in cache : e.key # TaskListKey(team[r], filter[r], seen[r])
    /\ pc' = [pc EXCEPT ![r] = "query"]
    /\ UNCHANGED <<rev, history, redis, locals>>

\* Mutant: the error of Get fails the request.
GetFails_Returned(r) ==
    /\ "get" \in Faults
    /\ pc[r] \in {"version", "lookup"}
    /\ pc' = [pc EXCEPT ![r] = "idle"]
    /\ UNCHANGED <<rev, history, redis, locals>>

\* Get returns an error: the list is read from MySQL and not stored.
GetFails(r) ==
    /\ "get" \in Faults
    /\ pc[r] \in {"version", "lookup"}
    /\ pc' = [pc EXCEPT ![r] = "bypass"]
    /\ UNCHANGED <<rev, history, redis, locals>>

\* TaskRepository.List, one SELECT.
Query(r) ==
    /\ pc[r] \in {"query", "bypass"}
    /\ got' = [got EXCEPT ![r] = [team |-> team[r], filter |-> filter[r],
                                  rev |-> rev[team[r]]]]
    /\ pc' = [pc EXCEPT ![r] = IF pc[r] = "query" THEN "fill" ELSE "answered"]
    /\ UNCHANGED <<rev, history, redis, team, filter, floor, seen, mine>>

\* Mutant: the entry is stored under the version current by now.
Fill_CurrentVersion(r) ==
    /\ pc[r] = "fill"
    /\ LET k == TaskListKey(team[r], filter[r], version[team[r]])
       IN  cache' = {e \in cache : e.key # k} \cup {[key |-> k, list |-> got[r]]}
    /\ pc' = [pc EXCEPT ![r] = "answered"]
    /\ UNCHANGED <<rev, history, version, locals>>

\* Set: the entry of that key, if there is one, is replaced.
Fill(r) ==
    /\ pc[r] = "fill"
    /\ LET k == TaskListKey(team[r], filter[r], seen[r])
       IN  cache' = {e \in cache : e.key # k} \cup {[key |-> k, list |-> got[r]]}
    /\ pc' = [pc EXCEPT ![r] = "answered"]
    /\ UNCHANGED <<rev, history, version, locals>>

SetFails(r) ==
    /\ "set" \in Faults
    /\ pc[r] = "fill"
    /\ pc' = [pc EXCEPT ![r] = "answered"]
    /\ UNCHANGED <<rev, history, redis, locals>>

\* The slot is free again.
Close(r) ==
    /\ pc' = [pc EXCEPT ![r] = "idle"]
    /\ team' = [team EXCEPT ![r] = AnyTeam]
    /\ filter' = [filter EXCEPT ![r] = AnyFilter]
    /\ floor' = [floor EXCEPT ![r] = 0]
    /\ seen' = [seen EXCEPT ![r] = 0]
    /\ got' = [got EXCEPT ![r] = NoList]
    /\ mine' = [mine EXCEPT ![r] = 0]

\* The list reaches the client.
Respond(r) ==
    /\ pc[r] = "answered"
    /\ Close(r)
    /\ UNCHANGED <<rev, history, redis>>

QueryFails(r) ==
    /\ "db" \in Faults
    /\ pc[r] \in {"query", "bypass"}
    /\ Close(r)
    /\ UNCHANGED <<rev, history, redis>>
-----------------------------------------------------------------------------
\* Create, past its checks.
StartCreate(r, t) ==
    /\ pc[r] = "idle"
    /\ rev[t] < MaxRev
    /\ pc' = [pc EXCEPT ![r] = "write"]
    /\ team' = [team EXCEPT ![r] = t]
    /\ mine' = [mine EXCEPT ![r] = 0]
    /\ UNCHANGED <<rev, history, redis, filter, floor, seen, got>>

\* Update reads the row, which some committed change left as it is.
StartUpdate(r, t) ==
    /\ pc[r] = "idle"
    /\ \E n \in 1 .. rev[t] : mine' = [mine EXCEPT ![r] = n]
    /\ pc' = [pc EXCEPT ![r] = "write"]
    /\ team' = [team EXCEPT ![r] = t]
    /\ UNCHANGED <<rev, history, redis, filter, floor, seen, got>>

Later(n, m) == IF n > m THEN n ELSE m

\* Mutant: the client is answered before the cache is invalidated.
Commit_AnswersFirst(r) ==
    /\ pc[r] = "write"
    /\ rev[team[r]] < MaxRev
    /\ rev' = [rev EXCEPT ![team[r]] = @ + 1]
    /\ mine' = [mine EXCEPT ![r] = rev[team[r]] + 1]
    /\ acked' = [acked EXCEPT ![team[r]] = rev[team[r]] + 1]
    /\ pc' = [pc EXCEPT ![r] = "committed"]
    /\ UNCHANGED <<settled, told, redis, team, filter, floor, seen, got>>

\* Mutant: the write returns without a call to invalidateCache.
Commit_NotInvalidated(r) ==
    /\ pc[r] = "write"
    /\ rev[team[r]] < MaxRev
    /\ rev' = [rev EXCEPT ![team[r]] = @ + 1]
    /\ acked' = [acked EXCEPT ![team[r]] = rev[team[r]] + 1]
    /\ Close(r)
    /\ UNCHANGED <<settled, told, redis>>

\* The INSERT of Create, or the transaction of Update, commits.
Commit(r) ==
    /\ pc[r] = "write"
    /\ rev[team[r]] < MaxRev
    /\ rev' = [rev EXCEPT ![team[r]] = @ + 1]
    /\ mine' = [mine EXCEPT ![r] = rev[team[r]] + 1]
    /\ pc' = [pc EXCEPT ![r] = "committed"]
    /\ UNCHANGED <<history, redis, team, filter, floor, seen, got>>

\* Update finds every field as it is asked to be, and returns the row: the
\* client is told of success, and the cache is not invalidated.
Unchanged(r) ==
    /\ pc[r] = "write"
    /\ mine[r] # 0
    /\ told' = [told EXCEPT ![team[r]] = Later(mine[r], @)]
    /\ Close(r)
    /\ UNCHANGED <<rev, settled, acked, redis>>

\* An error, with nothing committed: a field is invalid, or MySQL refuses.
Refuse(r) ==
    /\ pc[r] = "write"
    /\ Close(r)
    /\ UNCHANGED <<rev, history, redis>>

\* The request that made the change returns success.
Acknowledge(r) == acked' = [acked EXCEPT ![team[r]] = Later(mine[r], @)]

\* invalidateCache came back: what was committed by then is settled.
Settle(t) == settled' = [settled EXCEPT ![t] = rev[t]]

\* Mutant: the team's entries are deleted, and the version left alone.
Invalidate_Deletes(r) ==
    /\ pc[r] = "committed"
    /\ cache' = {e \in cache : e.key.team # team[r]}
    /\ Settle(team[r])
    /\ Acknowledge(r)
    /\ Close(r)
    /\ UNCHANGED <<rev, told, version>>

\* invalidateCache, and the answer to the client.
Invalidate(r) ==
    /\ pc[r] = "committed"
    /\ \E n \in {1} \cup (IF "retry" \in Faults THEN {2} ELSE {}) :
         version' = [version EXCEPT ![team[r]] = @ + n]
    /\ Settle(team[r])
    /\ Acknowledge(r)
    /\ Close(r)
    /\ UNCHANGED <<rev, told, cache>>

\* invalidateCache swallows the error: the client is told of success.
InvalidateFails(r) ==
    /\ "lost" \in Faults
    /\ pc[r] = "committed"
    /\ Acknowledge(r)
    /\ Close(r)
    /\ UNCHANGED <<rev, settled, told, redis>>

\* The error path after a commit: no invalidation, and no acknowledgement.
FailAfterCommit(r) ==
    /\ "skip" \in Faults
    /\ pc[r] = "committed"
    /\ Close(r)
    /\ UNCHANGED <<rev, history, redis>>
-----------------------------------------------------------------------------
\* Mutant: only entries of superseded versions are ever removed.
Expire_SupersededOnly(k) ==
    /\ k.version < version[k.team]
    /\ \E e \in cache : e.key = k
    /\ cache' = {e \in cache : e.key # k}
    /\ UNCHANGED <<rev, history, version, pc, locals>>

\* The TTL that Set gave an entry has passed.
Expire(k) ==
    /\ \E e \in cache : e.key = k
    /\ cache' = {e \in cache : e.key # k}
    /\ UNCHANGED <<rev, history, version, pc, locals>>

RedisReset ==
    /\ "reset" \in Faults
    /\ version' = [t \in Teams |-> 0]
    /\ cache' = {}
    /\ UNCHANGED <<rev, history, pc, locals>>

Crash ==
    /\ "crash" \in Faults
    /\ pc' = [r \in Requests |-> "idle"]
    /\ team' = [r \in Requests |-> AnyTeam]
    /\ filter' = [r \in Requests |-> AnyFilter]
    /\ floor' = [r \in Requests |-> 0]
    /\ seen' = [r \in Requests |-> 0]
    /\ got' = [r \in Requests |-> NoList]
    /\ mine' = [r \in Requests |-> 0]
    /\ UNCHANGED <<rev, history, redis>>

\* What the goroutine of request r does once it has started.
Step(r) ==
    \/ ReadVersion(r) \/ Hit(r) \/ Miss(r) \/ GetFails(r)
    \/ Query(r) \/ QueryFails(r) \/ Fill(r) \/ SetFails(r) \/ Respond(r)
    \/ Commit(r) \/ Unchanged(r) \/ Refuse(r)
    \/ Invalidate(r) \/ InvalidateFails(r) \/ FailAfterCommit(r)

Next ==
    \/ \E r \in Requests, t \in Teams, f \in Filters : StartList(r, t, f)
    \/ \E r \in Requests, t \in Teams : StartCreate(r, t) \/ StartUpdate(r, t)
    \/ \E r \in Requests : Step(r)
    \/ \E e \in cache : Expire(e.key)
    \/ RedisReset
    \/ Crash

Spec == Init /\ [][Next]_vars

\* Every goroutine keeps running, since each call it waits for returns or
\* fails, and Redis removes every entry whose TTL has passed.
FairKeys == {TaskListKey(t, f, v) : t \in Teams, f \in Filters, v \in 0 .. 2 * MaxRev}

FairSpec ==
    /\ Spec
    /\ \A r \in Requests : WF_vars(Step(r))
    /\ \A k \in FairKeys : WF_vars(Expire(k))
-----------------------------------------------------------------------------
TypeOK ==
    /\ rev \in [Teams -> Nat]
    /\ settled \in [Teams -> Nat]
    /\ acked \in [Teams -> Nat]
    /\ told \in [Teams -> Nat]
    /\ version \in [Teams -> Nat]
    /\ cache \subseteq [key : Keys, list : Lists]
    /\ pc \in [Requests -> {"idle"} \cup ListStages \cup WriteStages]
    /\ team \in [Requests -> Teams]
    /\ filter \in [Requests -> Filters]
    /\ floor \in [Requests -> Nat]
    /\ seen \in [Requests -> Nat]
    /\ got \in [Requests -> Lists \cup {NoList}]
    /\ mine \in [Requests -> Nat]
    /\ \A r \in Requests : pc[r] \in {"fill", "answered"} => got[r] \in Lists

(***************************************************************************)
(* A list request is answered with the tasks of the team, status, assignee *)
(* and page it asked for, though lists of all questions share one key      *)
(* space: taskListKey separates any two questions.                         *)
(***************************************************************************)
AnswersMatchQuestion ==
    \A r \in Requests :
        pc[r] = "answered" => /\ got[r].team = team[r]
                              /\ got[r].filter = filter[r]

(***************************************************************************)
(* Once invalidateCache has come back, every list asked for from then on   *)
(* contains what was committed before it, whichever of the version read,   *)
(* lookup, query and fill of which reader the increment fell between.      *)
(***************************************************************************)
FreshAnswers ==
    \A r \in Requests : pc[r] = "answered" => floor[r] <= got[r].rev

(***************************************************************************)
(* No list older than a settled change is reachable under the current      *)
(* version of its team: a slow reader that queried before a change and     *)
(* stores its list after the invalidation stores it out of reach.          *)
(***************************************************************************)
CurrentVersionIsFresh ==
    \A e \in cache :
        e.key.version = version[e.key.team] => settled[e.key.team] <= e.list.rev

(***************************************************************************)
(* While every increment is executed, a list under the current version     *)
(* lacks no change but those whose own request has not come back from      *)
(* invalidateCache.  So this is how long a client may miss a change that   *)
(* Update reported to it as "nothing to change": until the maker of the    *)
(* change answers.                                                         *)
(***************************************************************************)
StaleOnlyWhilePending ==
    \A e \in cache :
        e.key.version = version[e.key.team] =>
            \A n \in e.list.rev + 1 .. rev[e.list.team] :
                \E r \in Requests : /\ pc[r] = "committed"
                                    /\ team[r] = e.list.team
                                    /\ mine[r] = n

(***************************************************************************)
(* The handlers, Redis and MySQL together implement the promise of         *)
(* TaskListing: each step changes what clients see as one step of it does. *)
(* A request that made a change returns success only when the change is    *)
(* settled; one that found it made promises nothing about lists.           *)
(***************************************************************************)
CallBar ==
    [r \in Requests |->
        IF pc[r] \notin ListStages THEN [stage |-> "none"]
        ELSE IF pc[r] = "answered" THEN [stage |-> "answered", list |-> got[r]]
        ELSE [stage |-> "open", team |-> team[r], filter |-> filter[r],
              floor |-> floor[r]]]

Listing == INSTANCE TaskListing WITH call <- CallBar

ListingSpec == Listing!Spec

(***************************************************************************)
(* Whatever goes wrong between MySQL and Redis (an increment that was not  *)
(* executed, a commit without invalidation, a Redis that restarted and     *)
(* reuses versions), once the writes stop every list becomes and stays     *)
(* current: each stale entry has a TTL and nobody can store another.       *)
(***************************************************************************)
EventuallyFresh ==
    <>[](\A r \in Requests : pc[r] = "answered" => got[r].rev = rev[team[r]])

(***************************************************************************)
(* A cache that fails, in any of its calls, fails no list request: from    *)
(* the moment on at which MySQL answers and the process stays up, so does  *)
(* List, however often Redis fails.                                        *)
(***************************************************************************)
ListsAnswered ==
    /\ <>[][\A r \in Requests : ~QueryFails(r)]_vars
    /\ <>[][~Crash]_vars
    => <>[](\A r \in Requests : pc[r] = "version" => <>(pc[r] = "answered"))
=============================================================================
