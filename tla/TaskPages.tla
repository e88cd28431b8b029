----------------------------- MODULE TaskPages -----------------------------
(***************************************************************************)
(* A client that walks through the tasks of a team with GET /tasks: one    *)
(* request per page, limit and offset of its choice, while others create   *)
(* and update tasks.                                                       *)
(*                                                                         *)
(* Each page is a list request of TaskListing, answered from a revision of *)
(* its own, by the query of TaskRepository.List in                         *)
(* internal/adapter/mysql/task_repository.go.  TaskListing has no rows;    *)
(* here every revision is a table.                                         *)
(***************************************************************************)
EXTENDS Naturals, SequencesExt

CONSTANTS
    Walkers,    \* clients
    Team,       \* the team whose tasks they list
    Statuses,   \* domain.TaskStatus
    Unset,      \* a nil Status of a TaskFilter
    Limits,     \* the page lengths clients ask for, of 1 .. 100
    Ids,        \* bound: what AUTO_INCREMENT hands out
    Seconds,    \* bound: the values of created_at, which has no fractions
    OldIds,     \* the tasks there are when the walks begin
    MaxRev      \* bound: changes while the walks last

ASSUME PageAssumption == Limits \subseteq 1 .. 100
ASSUME IdAssumption ==
    OldIds \subseteq Ids /\ Ids \subseteq Nat \ {0} /\ IsFiniteSet(Ids)
ASSUME RowAssumption == Seconds \subseteq Nat /\ "todo" \in Statuses
ASSUME BoundAssumption == MaxRev \in Nat

VARIABLES
    tables,     \* the tasks after 0, 1, ... changes
    rev, settled, call,   \* those of TaskListing
    walk        \* what each client asks for and has got

vars == <<tables, rev, settled, call, walk>>

Offsets == 0 .. Cardinality(Ids)
Filters == [status : Statuses \cup {Unset}, limit : Limits, offset : Offsets]

\* What other clients are told of is left out: a walk does not depend on it.
Listing == INSTANCE TaskListing WITH
    Requests <- Walkers, Teams <- {Team},
    acked <- settled, told <- [t \in {Team} |-> 0]

Rows == [id : Ids, created : Seconds, status : Statuses]
Table(n) == tables[n + 1]
IdsOf(rows) == {row.id : row \in rows}

\* Mutant: tasks are grouped by their status.
Before_ByStatus(a, b) ==
    \/ a.status = "todo" /\ b.status # "todo"
    \/ (a.status = "todo" <=> b.status = "todo") /\ a.id > b.id

\* ORDER BY created_at DESC, id DESC.
Before(a, b) ==
    \/ a.created > b.created
    \/ a.created = b.created /\ a.id > b.id

\* Mutant: ORDER BY created_at DESC alone: ties come in any order.
Orderings_ByTime(rows) ==
    {s \in SetToSeqs(rows) :
        \A i, j \in DOMAIN s : i < j => s[i].created >= s[j].created}

Position(rows, row) == 1 + Cardinality({other \in rows : Before(other, row)})

\* The orders in which MySQL may return the rows: one, in which the number of
\* rows before a row gives its place.
Orderings(rows) ==
    {[p \in 1 .. Cardinality(rows) |-> CHOOSE row \in rows : Position(rows, row) = p]}

Matching(rows, status) ==
    {row \in rows : status = Unset \/ row.status = status}

\* LIMIT and OFFSET.
Page(s, f) == SubSeq(s, f.offset + 1, Min({Len(s), f.offset + f.limit}))

\* start is the revision the walk began at, quiet whether no page has
\* overlapped a change, got the ids of the tasks on the pages so far.
Walks == [status : Statuses \cup {Unset}, limit : Limits, start : Nat,
          quiet : BOOLEAN, got : Seq(Ids), done : BOOLEAN]

Init ==
    /\ Listing!Init
    /\ \E created \in [OldIds -> Seconds], status \in [OldIds -> Statuses] :
         tables = <<{[id |-> i, created |-> created[i], status |-> status[i]]
                       : i \in OldIds}>>
    /\ walk \in [Walkers -> [status : Statuses \cup {Unset}, limit : Limits,
                             start : {0}, quiet : {TRUE}, got : {<<>>},
                             done : {FALSE}]]
-----------------------------------------------------------------------------
(* Other clients. *)

Becomes(rows) == tables' = Append(tables, rows)

\* Create.  Ids are handed out, and created_at is taken, before the insertion
\* commits: a task may come to light after one that is younger.
Create ==
    /\ Listing!Change(Team)
    /\ \E i \in Ids \ IdsOf(Last(tables)), c \in Seconds :
         Becomes(Last(tables) \cup {[id |-> i, created |-> c, status |-> "todo"]})
    /\ UNCHANGED walk

\* Update, of the status or of other fields.  It leaves created_at alone.
Update ==
    /\ Listing!Change(Team)
    /\ \E row \in Last(tables), s \in Statuses :
         Becomes((Last(tables) \ {row}) \cup {[row EXCEPT !.status = s]})
    /\ UNCHANGED walk

\* invalidateCache.
Settle ==
    /\ Listing!Settle(Team)
    /\ UNCHANGED <<tables, walk>>
-----------------------------------------------------------------------------
(* The walk of w. *)

AskFor(w) == [status |-> walk[w].status, limit |-> walk[w].limit,
              offset |-> Len(walk[w].got)]

AskPage(w) ==
    /\ ~walk[w].done
    /\ call[w] = Listing!NoCall
    /\ call' = [call EXCEPT ![w] = Listing!Open(Team, AskFor(w), settled[Team])]
    /\ walk' = [walk EXCEPT ![w].start = IF walk[w].got = <<>>
                                         THEN settled[Team] ELSE @]
    /\ UNCHANGED <<tables, rev, settled>>

\* The list is computed from one revision, by MySQL now or into the cache
\* before.
AnswerPage(w) ==
    /\ Listing!Answer(w)
    /\ walk' = [walk EXCEPT ![w].quiet = @ /\ call[w].floor = rev[Team]]
    /\ UNCHANGED tables

\* A page that is not full is the last one.
TakePage(w) ==
    /\ call[w].stage = "answered"
    /\ LET f == call[w].list.filter
       IN \E s \in Orderings(Matching(Table(call[w].list.rev), f.status)) :
            LET page == Page(s, f)
            IN walk' = [walk EXCEPT
                 ![w].got = @ \o [i \in DOMAIN page |-> page[i].id],
                 ![w].done = Len(page) < f.limit]
    /\ Listing!Close(w)
    /\ UNCHANGED tables

Next ==
    \/ Create \/ Update \/ Settle
    \/ \E w \in Walkers : AskPage(w) \/ AnswerPage(w) \/ TakePage(w)

Spec == Init /\ [][Next]_vars
-----------------------------------------------------------------------------
TypeOK ==
    /\ rev[Team] \in 0 .. MaxRev /\ settled[Team] \in 0 .. rev[Team]
    /\ Len(tables) = rev[Team] + 1
    /\ \A n \in 0 .. rev[Team] : /\ Table(n) \subseteq Rows
                                 /\ Cardinality(Table(n)) = Cardinality(IdsOf(Table(n)))
    /\ walk \in [Walkers -> Walks]

(***************************************************************************)
(* While nobody changes the tasks, a walk shows every task that matches    *)
(* exactly once, newest first: neighbours of the same second do not swap   *)
(* places between two queries, and no page leaves a gap.                   *)
(***************************************************************************)
QuietWalkIsComplete ==
    \A w \in Walkers :
        walk[w].done /\ walk[w].start = rev[Team] =>
            LET all == Matching(Table(rev[Team]), walk[w].status)
            IN /\ Len(walk[w].got) = Cardinality(all)
               /\ ToSet(walk[w].got) = IdsOf(all)
               /\ \A a, b \in all :
                    a.created > b.created =>
                        \E i, j \in DOMAIN walk[w].got :
                            i < j /\ walk[w].got[i] = a.id /\ walk[w].got[j] = b.id

(***************************************************************************)
(* A walk through all statuses during which tasks are created and updated  *)
(* between two pages may show a task twice and misses none that was there  *)
(* when it began: tasks only ever move towards later pages.                *)
(***************************************************************************)
NothingHidden ==
    \A w \in Walkers :
        walk[w].done /\ walk[w].quiet /\ walk[w].status = Unset =>
            IdsOf(Table(walk[w].start)) \subseteq ToSet(walk[w].got)
=============================================================================
