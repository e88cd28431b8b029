# A verification of the task service

TLA+ models of this repository's backend (teams, tasks, a Redis cache and a rate limiter over MySQL), TLC runs that check them on small instances, and TLAPS proofs of the main results for instances of every size.

    tlc -workers 2 -config TaskCache_fresh.cfg MCTaskCache.tla     # one run; the others likewise
    tlapm TaskStoreProofs.tla                                      # one proof module; the others likewise

`PROJECT.json` lists the runs with what each shows, the source lines of every definition, the hazards, the theorems, and for every checked property a *mutant*: a plausible bug, written beside the definition it changes, under which TLC finds the property violated.

## 1. The system

| component | state | operations | interacts with |
|---|---|---|---|
| task list cache (`usecase/task`, `adapter/redis/task_cache.go`) | a version counter per team and the cached lists, in Redis | `Get`, `Set`, `InvalidateTeam`, driven by `List`, `Create`, `Update` | MySQL, whose contents it must follow |
| queries of task lists (`adapter/mysql/task_repository.go`) | none: it reads `tasks` | filter, order, limit, offset of `GET /tasks` | the cache in front of it; changes between two pages |
| task creation and update (`usecase/task`, `adapter/mysql/task_repository.go`) | `tasks`, `task_history` | `Create`, `Update`; `History` reads | `team_members`; the connection pool; the cache |
| accounts, teams, invitations (`usecase/auth`, `usecase/team`, their repositories) | `users`, `teams`, `team_members` | `Register`, `Login`, team `Create`, `List`, `Invite` | the mail client |
| door of the protected routes (`controller/middleware/auth.go`, `rate_limit.go`, `adapter/redis/rate_limiter.go`) | a counter with a lifetime per user, in Redis | `Authenticate`, `Limit`/`Allow` | every protected handler |
| mail client (`adapter/email`) | a circuit breaker, per process: state, counts, generation, end of the open timeout | `SendInvitation` | called by `Invite`, its errors are only logged; the mail service |
| application lifecycle (`app`, `cmd/api`) | server, clients, `serverErrors`, the signal context | start, shutdown with a timeout | closes the clients the handlers use |
| router, Recovery, Metrics (`controller/http`, `controller/middleware`, `adapter/prometheus`) | the status of each response; `requests_total`, `errors_total` | one pass per request | every handler; the connections of `net/http` |
| reports (`adapter/mysql/report_repository.go`) | none | three queries | no route reaches them |
| mock mail service (`cmd/mock-email`) | none | accepts an invitation | the mail client |
| tokens, password hashes, configuration, DTOs | none of their own | wrappers, wiring | |

Every request runs in a goroutine of its own, of any replica; handlers share nothing in memory but the breaker, the counters and the pools. All other interaction is through MySQL and Redis, one statement or command at a time, so this is where the models put their steps. What is hard:

* **MySQL and Redis agree only by protocol.** A change is committed, then the version is incremented, then the client is answered; readers run in between with a version they read earlier. Any of the three may fail, be repeated, or be cut off by a crash or by the client that disconnects (the request's context is used everywhere).
* **Update decides before its transaction.** It reads the row, checks, computes the changed fields, and only then writes; other updates of the row commit in between.
* **Invite is four statements without a transaction**; unique keys decide between concurrent requests.
* **The breaker is unlocked during a call.** Results come back late, of calls made in another state, or never within the client's patience.
* **Shutdown runs beside the handlers, the listener and the signal**; what it closes is in use.
* **A response is looked at by three parties**: the handler writes it, Recovery may write again, Metrics reports its own copy after all of them.
* **Pages are separate requests** over a table that changes.
* **Time**: entries with a TTL, windows of the limiter, the open timeout, the shutdown timeout, months and weeks of the reports.

What makes each component correct:

* cache: a list never misses a change whose invalidation had come back before it was asked for, so a client that made a change finds it; no list is served to another question; stale lists disappear; a failing cache fails no request.
* lists: an undisturbed walk through the pages shows every task once; a disturbed one hides none.
* tasks: row, completion time and history agree; no change is lost or unrecorded; old values in the history were real; only members of the team appear in a task; requests never wait on each other for ever.
* teams: exactly one owner; roles never change; one success and one mail per invited user; answers are true.
* limiter: nearly the limit per window, refusals earned, nobody locked out.
* mail client: it opens and closes for cause, spares a failing service, heals, never hangs, and never claims a mail that was not sent.
* lifecycle: exit code 0 means that nothing was cut off and nothing failed; the process always exits.
* middleware: the counters tell what clients received.
* reports: joins count nothing twice and lose nothing; days and months start where they should.

## 2. Modules

| module | what it is |
|---|---|
| `TaskListing` | the abstract promise of `GET /tasks`: a list shows the tasks at some moment between the last change settled before the request and now; what each kind of success tells its client |
| `TaskCache` | the cache-aside protocol; implements `TaskListing` |
| `TaskPages` | walks through the pages of a list, over the promise of `TaskListing` |
| `TaskStore` | `Create` and `Update` of tasks over MySQL |
| `Membership` | `Register`, team `Create`, `Invite` |
| `RateLimiter` | `Authenticate`, `Limit`, the Lua script |
| `Mailer` | the abstract promise of `SendInvitation` |
| `EmailBreaker` | the mail client and its circuit breaker; implements `Mailer` |
| `Lifecycle` | `Run` and `main`, the serving goroutine, connections |
| `Pipeline` | Metrics, Recovery, the router, the counters |
| `Process` | `Lifecycle` composed with `Pipeline` |
| `Reports` | the three queries of the reports |
| `MC...` | the instances for TLC: model values, sets of request bodies, symmetry |
| `...Proofs` | theorems and proofs of the module named before; `ProcessProofs` has those of `Lifecycle` and `Pipeline` too |

Where the modules meet: `TaskCache` sees a commit of `TaskStore` as one step that increases `rev` (`TaskStore.Commit`, `CommitUnknown`, `Insert`), and its fault "skip" is what `TaskStore` shows can follow (`CommitUnknown`, a `Fail` in stage "load"). `TaskPages` reads lists through the promise that `TaskCache` is proved to keep. `TaskStore` lets members join at any time and never leave; `MembershipProofs!RolesStay` shows this of the code that writes `team_members`, and `Reports` relies on it too. `Membership.SendInvitation` takes from the mail client no more than `Mailer` promises. `Process` implements `Lifecycle` (`ProcessProofs!StillALifecycle`), so what is proved of the lifecycle holds with the middleware in it.

### TaskCache

A request is a slot with a program counter.

| code | action |
|---|---|
| `List`, past validation | `StartList` (notes in `floor` what was settled) |
| `currentVersion` | `ReadVersion` |
| `GET` of the list | `Hit`, `Miss` |
| error of `Get`: the list comes from MySQL and is not stored | `GetFails` |
| `TaskRepository.List` | `Query`, `QueryFails` |
| `Set` under the version read before | `Fill`, `SetFails` (only logged) |
| answer | `Respond` |
| `Create`; `Update`, which reads a row that some change left as it is (`mine`) | `StartCreate`; `StartUpdate` |
| the `INSERT`, or the transaction, commits | `Commit` |
| "nothing to change": success, and no call to `invalidateCache` | `Unchanged` |
| an error with nothing committed | `Refuse` |
| `invalidateCache`, then the answer | `Invalidate`, `InvalidateFails` (only logged: the client is told of success) |
| error after the commit | `FailAfterCommit` |
| TTL, Redis restart, process crash | `Expire`, `RedisReset`, `Crash` |

Rows are abstracted to `rev[t]`, the number of committed changes of the team's tasks; a list is the question it answers and the revision it was read from. Keys are the records of what `taskListKey` prints, with "all" for a nil filter.

A change is *settled* once an `invalidateCache` that began after its commit has come back, its own or a later one of the team. `settled`, `acked` and `told` are ghosts that nothing in the code keeps: the changes that are settled, the newest one whose own request has returned success, and the newest one that another request has returned success for because it found it made. `Update` has these two kinds of success and only the first follows an increment, so they promise different things. `TaskListing` states both: a maker is answered when its change is settled (`acked` never passes `settled`), and lists asked for from then on contain it. A client that is told "nothing to change" may miss the change in its lists until it is settled, and `StaleOnlyWhilePending` says for how long that is: until the request that made it comes back from `invalidateCache`.

What the code promises is regular, not atomic: while an update is running, a list may show it and a later one may not, if the first was read from MySQL and the second from the cache. `TaskListing` says so.

### TaskStore

| code | action |
|---|---|
| handler `Update`, arguments | `StartUpdate` |
| `FindByID` | `Find` |
| `IsTeamMember` of the user, comparison of the fields, time of completion | `CheckMember`, then `Proceed` ("nothing to change" is a success) |
| `IsTeamMember` of the assignee | `CheckAssignee` |
| `BeginTx` / `UPDATE` / one `INSERT INTO task_history` each / read back / `COMMIT` | `BeginTx`, `UpdateRow`, `LogChange`, `Reload`, `Commit` |
| `COMMIT` executed, answer lost | `CommitUnknown` |
| `Create`: membership, `INSERT`, `FindByID` | `StartCreate`, `CheckCreator`, `CheckAssignee`, `Insert`, `Load` |
| any error; the deferred `Rollback` | `Fail` |

From MySQL the model takes: the row lock of `UPDATE` until the end of the transaction, rollback of everything it wrote, the newest committed row as what `UPDATE` changes, and `RowsAffected` counting changed rows (`updated_at` changes only with another column, and the DSN does not set `clientFoundRows`). From `database/sql`: a transaction keeps a connection (`Free`), a single statement needs one for its duration. `created` is a history variable, every row as it was inserted: `OldValueWasReal` compares the old value of a history entry with it and with what earlier entries of the field have set, so that also the first entry of a field has something to answer to.

### Membership

One action per statement: `InsertUser`; `InsertTeam`, `InsertOwner`, `CommitTeam`; `FindForMember` with the role check, `FindByEmail`, `AddMember`, `SendInvitation`. `Executed` and `ExecutedLast` add the lost answer of a statement that was executed. Unique keys are the guards of `InsertUser` and `AddMember`. `inviter` (who asked for a membership) is in no table; it is kept to state `OnlyTheCreatorInvites`. Texts that `TrimSpace` and `ToLower` make equal are one address.

### RateLimiter

`Authenticate`, then `RunScript` (one step: Redis runs a script without interleaving), then `Decide` when the verdict arrives or is lost; `Unavailable` when the script is not executed. Both failures let the request through, as `Limit` does. `Tick` lets time pass for every key. Counts above limit + 1 are not told apart. `granted` remembers, by age, the executions that found the user within the limit; the two safety properties are about it and not about the counter. `GrantedLately` counts them as elements of a set, one for each, which is how the proofs add and split them.

### EmailBreaker and Mailer

`gobreaker` decides before a call, is unlocked during it and hears of its result after it. Each of these is a step of its own.

| code | action |
|---|---|
| `Invite` calls `SendInvitation` | `Ask` |
| `beforeRequest` | `Admit`, `Refuse` (open, or half open with its trial under way) |
| the mail service's handler | `Deliver`, also when nobody waits for its answer any more |
| `httpClient.Do` and the look at the status | `Succeed`, `Err`, `TimeOut`, `Abandon` (the inviter disconnects: its context is the request's) |
| `afterRequest` | `Report`, by `Told`: `OnSuccess`, `OnFailure`, or nothing for a result of an older generation |
| `Invite` logs the error and succeeds | `Return` |
| outage, time, restart of the process | `Turn`, `Tick`, `Restart` |

A generation number is only compared with the present one, so the model keeps `current`, the calls in flight that carry it. `streak`, `ago` and `probes` are ghosts: they count failures, ticks and trials by themselves, and the properties compare the breaker with them. `Mailer` is what `Membership.SendInvitation` relies on: one answer per call, at most one mail, success only after a mail.

### Lifecycle, Pipeline, Process

| code | action |
|---|---|
| `Run` up to the goroutine, and its early returns | `LoadConfig`, `OpenMySQL`, `OpenRedis`, `Wire` |
| the `select` | `TakeOutcome`, `TakeSignal` (both ready: either) |
| `Shutdown` with its timeout | `Shutdown`, `Drained`, `DrainTimesOut`; then `ForceClose`, or `Join` of `serverErrors` |
| deferred `Close`s, `main` | `CloseClient`, `Exit` |
| the goroutine | `Listen`, `Bind`, `ServerClosed`, `AcceptFails`, `Send` |
| `net/http` and handlers, the operator | `Accept`, `Begin`, `Use` (a handler calls MySQL or Redis), `Answer`, `Disconnect`, `Signal` |

`cut` and `hurt` are ghosts: a handler lost its connection, a handler found a client closed.

In `Pipeline` a response is its status. `Enter` calls Metrics, Recovery and the router; `Route` notes the pattern and calls the handler, or answers by itself: 301 to the cleaned path, 404 or 405; the handler does `Write` any number of times, `HandlerReturns` or `Panic`, after which `Recover` writes 500; `WriteHeader` keeps the first status; `CountRequest` and `CountError` are the two counters of `Observe`; `Leave` ends the response. `target` (the route asked for) and `started` are ghosts.

`Process` composes the two. The handler of a connection is its request in the pipeline: `Begin` is a step together with `Enter`, `Answer` with `Leave`, and a handler uses the databases between. Requests of `Pipeline` are the connections of `Lifecycle`.

### TaskPages

A client reads a list page by page (`AskPage`, `AnswerPage`, `TakePage`), with the offset of what it has got so far, while others `Create` and `Update` tasks (any status is set, the one the task has included: an update of another field leaves the table here as it was) and changes `Settle`. Every page is a list request of `TaskListing`, INSTANCEd here with a table for each revision: a page may be computed from the newest table or from an older one that the cache still holds, exactly as far as `TaskListing` allows. `Orderings` and `Page` are ORDER BY and LIMIT/OFFSET: the place of a row is one more than the number of rows before it (`Position`). Ids and `created_at` come in the order of the insertions, not of the commits.

### Reports

`TeamStatistics` (two LEFT JOINs and distinct counts), `TopTaskCreators` (a month, a rank, which is `ROW_NUMBER`, and a limit) and `InvalidTaskAssignees`, translated as the queries are written, over tables that `Join`, `Create`, `Assign`, `Complete`, `Reopen` and `Tick` fill. `Strays` is a task that was there before the service checked assignees, so that the third report has something to find.

## 3. Runs

| run | instance | shows |
|---|---|---|
| `fresh` | 3 requests, 1 team, 2 changes; updates that find nothing to change, failing reads, fills and queries, commits without invalidation, crashes | `FreshAnswers`, `CurrentVersionIsFresh`, and that `TaskCache` implements `TaskListing` (`ListingSpec`) |
| `questions` | 2 requests, 2 teams, filters with and without status, 1 change of each team; doubled `INCR`, nothing lost | `AnswersMatchQuestion`, `StaleOnlyWhilePending` |
| `converges` | 2 requests, every fault but the doubled `INCR`, fairness | `EventuallyFresh`, `ListsAnswered` |
| `races` | 2 requests of members and strangers, bodies that race on one field, on two and on different ones, an assignee who joins meanwhile | `DoneIffCompleted`, `HistoryMatchesRow`, `ChangesAreRecorded`, `OldValueWasReal`, `ReplyShowsChanges`, `PeopleAreMembers` |
| `waiting` | 3 requests, 2 connections, 1 row, 2 columns that change; fairness | `EveryRequestAnswered` |
| `notfound` | 2 requests that change two columns | a violation, see Findings |
| `membership` | 3 requests, 3 accounts, 1 team, every fault | `SoleOwner`, `RolesNeverChange`, `InvitedOnce`, `OnlyTheCreatorInvites`, `RepliesAreTrue` |
| `limits` | 2 requests, 2 users, limit 2, window of 3 ticks, every fault, fairness | `BurstBound`, `RefusalIsEarned`, `RefusalIsNotForever` |
| `breaker` | 3 invitations at a time, 1 trial, threshold 3, open timeout of 2 ticks; outages, abandoned calls, restarts; fairness | `TrialsAreSpaced`, `OpensWhenEarned`, `ClosingIsEarned`, `InvitationsAnswered`, `BreakerHeals`, and that `EmailBreaker` implements `Mailer` (`MailerSpec`) |
| `process` | 2 connections, 2 requests let in, one route and none, statuses 200, 301, 404, 500; fairness | `CleanExit`, `FailureIsReported`, `ServedAndCounted`, `ErrorsAreRequests`, `CountedAsReceived`, `Terminates` |
| `pages` | 1 walk, 3 old tasks, 2 changes, pages of 1 and 2, 2 statuses, 2 seconds, 5 ids | `QuietWalkIsComplete`, `NothingHidden` |
| `reports` | 3 tasks (one a stray), 2 teams, 2 users, 3 days in 2 months, a week of 1 day, the first creator | `StatisticsAreExact`, `TopIsTop`, `DoneCountIsExplained`, `NoNewInvalidTask` |

Type invariants that are proved for every instance are not run again.

Why the bounds are enough to be worth something: a stale fill takes one reader, one writer and one later reader, which is three requests and one change; a second change covers versions that were reused or skipped. A list that lacks a change whose maker has not answered takes the maker and a reader, so two requests and one change do for `StaleOnlyWhilePending`; what a second writer at the same time adds is left to the proof of `OnlyPendingIsMissed`. A lost update, a false "not found" and a wrong history entry take two requests on one row. Waiting on each other takes as many requests in transactions as there are connections, and a request that waits for a connection while the others hold them takes one more: three requests on two connections, of which one waits for the row and one for a connection at the same time. A second mail takes two invitations and a registration before them. Two overlapping windows of the limiter take limit 2 and three ticks. Opening the breaker with a result of an older generation still out takes one call more than one failure, and the three invitations of the run may begin again and again, so the threshold of the code is reached in every order; the fall from half open back to open takes two open timeouts, which are not bounded. A handler that is cut off while another one is drained takes two connections; two requests of one label, and the moment between their two counters, take two requests. A tie of `created_at` takes three tasks in two seconds, a task that moves over a page border one change, and two changes can come on both sides of a page. A row counted twice by a join takes two members and two tasks; a month's border takes two days, and a task that leaves the week while the month goes on a third. In each case the mutants show that the run reaches the interesting states.

Bounds: `MaxRev` (changes), `MaxHistory` (history rows before updates stop starting), `MaxTime`, `MaxServed` (requests let in), `Seconds`, the days of `MonthOf`, the task, account and team ids there is room for. `MaxHistory`, `MaxServed` and the ids keep requests from starting, not from going on. At `MaxRev` a writer that has started can only be refused or find nothing to change, and without a free team id a creation can only fail, as both may in the code. The breaker's counters stop at the largest value that is told apart.

Requests, and where their roles are alike users, addresses, teams and tasks, are interchangeable; symmetry is used in runs without liveness properties. The run `questions` also takes states that differ only in ghosts for one (`WithoutGhosts`), which is sound because nothing else depends on the ghosts and its two invariants do not mention them. Deadlock is checked except where a run ends: a process that has exited, a walk that is done, the last day.

**Fairness.** Goroutines run on, since every call they wait for returns or fails: weak fairness of a request's next step, strong where it waits for a connection or a row lock (`database/sql` and InnoDB serve waiters in order; the run `waiting` has both kinds of waiting). Entries expire: this needs a positive `task_ttl`, which the configuration does not check. `EventuallyFresh` needs no more: the number of changes is bounded, which is the premise "once writes stop". `RefusalIsNotForever` also assumes what its name says, that the user keeps asking, and that time passes. A mail call ends because the HTTP client has a timeout (`email.timeout` must be positive, which is not checked either), and time passes. Nobody is assumed to invite, and the service is not assumed to come back: `BreakerHeals` has these as premises, with a third, that no client gives up, because a call its client cancels counts as a failure of the service. `Run` and the serving goroutine go on: pings end, the shutdown timer fires. Nothing is assumed of handlers, clients and the operator, so `Terminates` holds with a handler that never returns.

Freshness is not claimed of changes whose increment was lost or not reached, nor when Redis loses its data: then lists may lack the change until the next increment of the team, or until the TTL ends. This is the reason for the groups of faults: `fresh` has those under which lists lack nothing that is settled and no maker is answered early, `questions` has the one under which nothing but a running request keeps a change from lists, `converges` has those under which all that is left is that stale lists go.

## 4. Proofs

All theorems hold for every value of the constants that satisfies the named assumptions (bounds are naturals, "all" is no status or assignee, the row and account placeholders are no values, and the like), with every fault unless said otherwise.

**TaskCacheProofs.** `TypeCorrect`; `AnswersMatch` (from `KeyInjective`: equal keys come from equal questions, and every entry sits under the key of the question it answers); `ReadYourWrites` and `CurrentIsFresh` under `NoReset`, that Redis does not lose its data; `ImplementsListing` under `NoLoss`, that no increment is lost either; `OnlyPendingIsMissed` under `NoDrop`, that every commit is followed by its increment (no lost increment, no skipped invalidation, no crash, no reset). The invariant relates each version a reader holds to the changes settled: whatever was read from MySQL under a version that is still current contains every change that is settled, because a change settles only after the version moved past every version read before its commit. `CurrentVersionIsFresh` alone is not inductive: it says nothing about the reader that has read the version and not yet queried, or has queried and not yet stored. `OnlyPendingIsMissed` adds that a change which is not settled has a maker that has committed and not answered (`SettledOrPending`). `ImplementsListing` needs that no maker is answered before its change is settled (`AckedIsSettled`), and has one lemma per action of `TaskListing`, and a lemma for the steps it does not see.

**TaskStoreProofs.** `TypeCorrect`, `Completion`, `HistoryTellsTheRow`, `ChangesRecorded`, `RepliesShowChanges`, `PeopleStayMembers`, `OldValuesAreReal`: every safety property of the passing runs. `HistoryMatchesRow` needs: one holder of a row at a time (`OneHolder`), entry ids below the next id (`EntriesNumbered`), the entries a transaction has inserted are those of the fields it changes, with ids above every committed entry of the task (`LogsAreAccurate`), and its image of the row is the committed row with exactly these fields changed (`ImagesAreAccurate`). `Completion` needs that the time in hand fits the status in hand. `PeopleStayMembers` (by `PeopleInv`) needs that the team of the row a request has read is the team of the row it writes, that the user and the assignee it has checked are members of that team, and that members only grow. `OldValuesAreReal` (by `OldValuesInv`) needs that the values of every row, and of every row a request has read however long ago, were real: those the task was created with, or set by an entry. `NothingIsLostByAMiss` bounds the damage of the finding below: a client that is told "task not found" of a task it has read wanted changes that others had made meanwhile, each of them in the history. It needs that a field which is no longer as a request read it has an entry with its present value (`ReadOrSet`), which follows from `ChangesAreRecorded`.

**MembershipProofs.** One inductive invariant of four parts (`Typed`, `Ownership`, `Mailing`, `Answering`; `Invariance` puts them together), and from it `OneOwner`, `RolesStay`, `OneMail`, `CreatorInvites`, `TrueReplies`. `InvitedOnce` is not inductive: it needs that at most one request is about to write to a member, which holds because only the one that inserted the membership gets there.

**RateLimiterProofs.** `TypeCorrect`, with the part a type alone would not have: no counter without a lifetime, and no lifetime without a counter. `BurstsAreBounded` and `RefusalsAreEarned`, for every limit and window, need more than the counter: two windows of the limiter overlap with every window of the property, so the invariant (`Budget`) splits what was granted lately at the age of the running window. The younger part is what the counter says, capped at the limit; the older part is what one earlier window granted.

**EmailBreakerProofs.** `TypeCorrect`, `Spared`, `OpenedForCause`, `ClosedForCause` and the refinement `KeepsPromise`, for any threshold, number of trials and timeout. The invariant ties the breaker to the ghosts: in the closed state its count of failures is `streak`; in the open state what is left of the timeout and `ago` add up to `OpenTimeout`; in the half open state `ago` is the whole timeout and its requests are the `probes`; and only calls of the present generation are in `current`. `KeepsPromise` needs in addition that a call with result "success" has its mail.

**TaskPagesProofs.** `TypeCorrect`, `QuietWalksAreComplete` and `NothingIsHidden`, for any number of clients, tasks, changes and any page lengths, and `WalksAreListings`: the walks are clients of `TaskListing`, so they may be given the lists of `TaskCache`. The lemmas are about positions: in a table with unique keys they number its rows (`PositionIsUnique`, `PositionIsTaken`), and a row's position only grows while rows are added and updated (`PositionOnlyGrows`). The properties speak of a walk that is done; the invariant speaks of one under way. A task that was there at the start is among the ids got, or the next page begins at or before it (`AtOrBehind`), in the newest table and, while an answer is on its way, in the older table it was read from: a page is taken from the one and leaves something to be said of the other. `InOrder` says that the ids got are those at the first positions.

**ProcessProofs.** Of the lifecycle: `TypeCorrect`, `CleanlyStopped` and `FailuresAreReported`. A process on its way to 0 has drained: no handler was running when it was, none can begin afterwards since no connection is left and the listener takes no new one, and the clients were all open until then. `StillALifecycle` shows that `ProcessSpec` implies the specification of `Lifecycle`, so that the two carry over (`ServedToTheEnd`). Of the middleware, `CountsWhatIsReceived` needs that Metrics' copy and what was sent are equal at every moment and that the pattern of a request past the router is its route (`Faithful`), and `ErrorsAreCounted` that under each label the two counters differ by the requests between them (`Pending`). `EveryRequestIsCounted` adds the counters up over all labels: the sum is the number of requests served less those that are not yet counted (`Accounted`). It is reasoned about as the cardinality of a set with one element for each count (`Units`). That the fold of the model gives this number (`SumIsCardinality`) is shown by a least counterexample: among the sets of labels for which the two differ there would be a smallest, and taking a label out of it gives a smaller one.

**ReportsProofs.** `TypeCorrect`, `CountsAreExact`, `TopIsTheTop`, `DoneCountFollows`, `NothingTurnsInvalid`, for tables of every size and every calendar. The lemmas say what a join and a distinct count return, that the window of the second query is the calendar month (`MonthBegins`: the days between the first of the month and today are as many as `DAYOFMONTH` says less one; `Largest`: there is a last one), and that the positions of the ranking number the creators.

**Model-checked only.** The liveness properties (`EventuallyFresh`, `ListsAnswered`, `EveryRequestAnswered`, `RefusalIsNotForever`, `InvitationsAnswered`, `BreakerHeals`, `Terminates`): the prover has no rule for fairness and ENABLED. Every other property of the passing runs is proved. Induction over data is out of the prover's reach, for its theorems take an operator as a parameter; where a sum, a largest element or an order calls for it, the proofs use a least element of a well-founded order (`WFMin`) or count: a bijection in place of an induction. For the same reason the orders of `TaskPages` and `Reports` are defined by positions and not by a sort, which the prover cannot look into. No module that is proved about uses a RECURSIVE operator.

## 5. Findings

* **A task that exists is reported as not found** (run `notfound`, `task_repository.go:306`). Two requests set the same value; both read the old row; the second `UPDATE` changes nothing, `RowsAffected` is 0, and `Update` returns `ErrTaskNotFound`, "task not found" (`domain/task.go:27`): its client gets 404 for a task it has just read. What it asked for has been done by the other (`NothingIsLostByAMiss`); only the answer is wrong.

Seen while modelling, with no statement of the repository against it:

* two updates from todo to done keep the later completion time; a field asked for that equals the stale row read is skipped though another update has changed it;
* an invitation whose mail was lost cannot be repeated (409);
* a `PUT` that finds its change already made is answered 200 without an invalidation (`task.go:451`), while the request that made the change may not have come back from its own, or has crashed before it: the client's next list may still lack the change, until the maker's increment or a later one of the team, and failing these until the TTL ends. `task_test.go:194-205` expects an unchanged update not to invalidate, and no document promises more;
* inviters who disconnect count as failures of the mail service, so three in a row open the breaker for everybody;
* with a status filter, an update between two pages can hide a task that matches: it shortens the list and moves the others over the border. `NothingHidden` is about walks through all statuses;
* when `Accept` fails, `Run` returns without a shutdown, and the running handlers lose their clients; the exit code is 1, as `CleanExit` allows;
* team names of 151 to 255 runes pass the check and not the column; the list cache never heals with `task_ttl` 0, and nothing checks `email.timeout` or `shutdown_timeout` either.

## 6. Not modelled

* `Login`, tokens and password hashes: reads and wrappers of cryptographic libraries, which have no state.
* `History` and the list of teams: single queries that only read, without paging or a cache.
* Input checks of texts, and the widths of columns against them: one text against one column is a matter for a unit test.
* Loading the configuration: it happens once. The durations it leaves unchecked are assumed to be positive, see Fairness.
* DTOs, response formats, log lines, the histogram of durations: nothing tells their values apart.
* Redis losing the limiter's counters, which lets more requests through; windows below a millisecond, which `PEXPIRE` takes for 0.
* MySQL sessions in another time zone: the models have one clock. `completed_at` is written in UTC and compared with MySQL's `NOW()`.

What could follow: a module with the rows of `TaskStore` under the cache of `TaskCache`, where a commit of the one drives the revisions of the other (the two meet in one counter today, and the product is large); History as a reader of its own beside running updates.
