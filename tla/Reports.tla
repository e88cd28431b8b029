------------------------------ MODULE Reports ------------------------------
(***************************************************************************)
(* The three reports of internal/adapter/mysql/report_repository.go, over  *)
(* tables that the rest of the service fills: each report is one query, so *)
(* it sees one state of the tables.                                        *)
(*                                                                         *)
(* Time is counted in days.  The names and titles the queries also select  *)
(* are left out, and so is the order of the teams and tasks in a report.   *)
(***************************************************************************)
EXTENDS Integers, FiniteSets, SequencesExt

CONSTANTS
    Users,      \* numbers: ties are broken by user id
    Founder,    \* the user who has created the teams
    Teams,
    Tasks,      \* the ids tasks may have
    Null,       \* NULL of an assignee_id and of a row that LEFT JOIN makes up
    MonthOf,    \* MonthOf[d]: the month of day d, counted through the years
    Week,       \* 7 in the code
    Top,        \* 3 in the code
    Strays      \* tasks that were there before the service checked assignees

Days == DOMAIN MonthOf

ASSUME UserAssumption ==
    Users \subseteq Nat /\ Founder \in Users /\ IsFiniteSet(Users) /\ IsFiniteSet(Tasks)
ASSUME MonthAssumption ==
    /\ MonthOf \in Seq(Nat) /\ MonthOf # <<>>
    /\ \A d, e \in Days : d <= e => MonthOf[d] <= MonthOf[e]
ASSUME SizeAssumption == Week \in Nat /\ Top \in Nat /\ Top > 0

NoTask == [team |-> 0]
Never == 0      \* a NULL completed_at
ASSUME AbsentAssumption == Null \notin Users \cup Tasks /\ 0 \notin Teams

Rows == [team : Teams, creator : Users, assignee : Users \cup {Null},
         created : Days, completed : Days \cup {Never}]

ASSUME StrayAssumption ==
    /\ Strays \in [Tasks -> Rows \cup {NoTask}]
    /\ \A k \in Tasks : Strays[k] # NoTask =>
         Strays[k].created = 1 /\ Strays[k].completed = Never

VARIABLES
    members,    \* the pairs <<team, user>> of team_members
    tasks,      \* [Tasks -> Rows], or NoTask; done when completed is a day
    today

vars == <<members, tasks, today>>

TasksOf(t) == {k \in Tasks : tasks[k] # NoTask /\ tasks[k].team = t}
MembersOf(t) == {u \in Users : <<t, u>> \in members}
-----------------------------------------------------------------------------
(* GetTeamStatistics *)

\* Mutant: INNER JOIN.
Joined_Inner(rows) == rows

\* What a LEFT JOIN pairs a row with.
Joined(rows) == IF rows = {} THEN {Null} ELSE rows

\* The joins pair every member of a team with every task of it.
Pairs(t) == Joined(MembersOf(t)) \X Joined(TasksOf(t))

\* Mutant: COUNT without DISTINCT.
CountOf_All(rows, i) == Cardinality({row \in rows : row[i] # Null})

\* COUNT(DISTINCT column).
CountOf(rows, i) == Cardinality({row[i] : row \in rows} \ {Null})

DoneLately(k) ==
    /\ tasks[k].completed # Never
    /\ tasks[k].completed >= today - Week

TeamStatistics(t) ==
    [members |-> CountOf(Pairs(t), 1),
     done |-> CountOf({row \in Pairs(t) : row[2] # Null /\ DoneLately(row[2])}, 2)]
-----------------------------------------------------------------------------
(* GetTopTaskCreators *)

\* Of MySQL.
DayOfMonth(d) == 1 + Cardinality({e \in Days : e < d /\ MonthOf[e] = MonthOf[d]})
LastDay(d) == Max({e \in Days : MonthOf[e] = MonthOf[d]})

\* Mutant: the days of the month are subtracted, not those before today.
ThisMonth_FromZero(k) ==
    /\ tasks[k].created >= today - DayOfMonth(today)
    /\ tasks[k].created < LastDay(today) + 1

ThisMonth(k) ==
    /\ tasks[k].created >= today - (DayOfMonth(today) - 1)
    /\ tasks[k].created < LastDay(today) + 1

\* creator_counts.
Created(t, u) ==
    Cardinality({k \in TasksOf(t) : tasks[k].creator = u /\ ThisMonth(k)})
CreatorCounts(t) ==
    {[user |-> u, count |-> Created(t, u)] : u \in {v \in Users : Created(t, v) > 0}}

Outranks(a, b) ==
    \/ a.count > b.count
    \/ a.count = b.count /\ a.user < b.user

\* ROW_NUMBER: one more than the creators of the team that come before.
Position(t, c) == 1 + Cardinality({d \in CreatorCounts(t) : Outranks(d, c)})

\* ranked_creators, whose position is their place in the sequence.
RankedCreators(t) ==
    [p \in 1 .. Cardinality(CreatorCounts(t)) |->
        CHOOSE c \in CreatorCounts(t) : Position(t, c) = p]

TopTaskCreators(t) ==
    LET ranked == RankedCreators(t)
    IN SubSeq(ranked, 1, Min({Len(ranked), Top}))
-----------------------------------------------------------------------------
(* FindTasksWithInvalidAssignees *)

InvalidTaskAssignees ==
    {k \in Tasks :
        /\ tasks[k] # NoTask
        /\ tasks[k].assignee # Null
        /\ <<tasks[k].team, tasks[k].assignee>> \notin members}
-----------------------------------------------------------------------------
(* What fills the tables: TaskStore and Membership show how. *)

Init ==
    /\ members = Teams \X {Founder}
    /\ tasks = Strays
    /\ today = 1

Join(t, u) ==
    /\ <<t, u>> \notin members
    /\ members' = members \cup {<<t, u>>}
    /\ UNCHANGED <<tasks, today>>

\* Mutant: the assignee may be a member of any team.
MayBeAssigned_AnyTeam(t, u) == u = Null \/ \E s \in Teams : <<s, u>> \in members

\* Checked before the task is written: members do not leave in between.
MayBeAssigned(t, u) == u = Null \/ <<t, u>> \in members

Create(k, t, u, v) ==
    /\ tasks[k] = NoTask
    /\ <<t, u>> \in members
    /\ MayBeAssigned(t, v)
    /\ tasks' = [tasks EXCEPT ![k] = [team |-> t, creator |-> u, assignee |-> v,
                                      created |-> today, completed |-> Never]]
    /\ UNCHANGED <<members, today>>

Assign(k, v) ==
    /\ tasks[k] # NoTask
    /\ MayBeAssigned(tasks[k].team, v)
    /\ tasks' = [tasks EXCEPT ![k].assignee = v]
    /\ UNCHANGED <<members, today>>

Complete(k) ==
    /\ tasks[k] # NoTask /\ tasks[k].completed = Never
    /\ tasks' = [tasks EXCEPT ![k].completed = today]
    /\ UNCHANGED <<members, today>>

Reopen(k) ==
    /\ tasks[k] # NoTask /\ tasks[k].completed # Never
    /\ tasks' = [tasks EXCEPT ![k].completed = Never]
    /\ UNCHANGED <<members, today>>

Tick ==
    /\ today + 1 \in Days
    /\ today' = today + 1
    /\ UNCHANGED <<members, tasks>>

Next ==
    \/ \E t \in Teams, u \in Users : Join(t, u)
    \/ \E k \in Tasks :
         \/ \E t \in Teams, u \in Users, v \in Users \cup {Null} : Create(k, t, u, v)
         \/ \E v \in Users \cup {Null} : Assign(k, v)
         \/ Complete(k) \/ Reopen(k)
    \/ Tick

Spec == Init /\ [][Next]_vars
-----------------------------------------------------------------------------
TypeOK ==
    /\ members \subseteq Teams \X Users
    /\ tasks \in [Tasks -> Rows \cup {NoTask}]
    /\ today \in Days
    /\ \A k \in Tasks : tasks[k] # NoTask =>
         tasks[k].created <= today /\ tasks[k].completed <= today

(***************************************************************************)
(* A team with m members and n tasks is m * n rows after the joins, and    *)
(* each member and each task of them counts once; a team without tasks     *)
(* counts none.                                                            *)
(***************************************************************************)
StatisticsAreExact ==
    \A t \in Teams :
        TeamStatistics(t) =
            [members |-> Cardinality(MembersOf(t)),
             done |-> Cardinality({k \in TasksOf(t) : DoneLately(k)})]

(***************************************************************************)
(* The number of tasks a team has done lately grows by a completion only,  *)
(* and only time or a reopening takes from it; a task that is reopened     *)
(* and completed again still counts once.                                  *)
(***************************************************************************)
DoneCountIsExplained ==
    [][\A t \in Teams :
          LET before == TeamStatistics(t).done
              after == TeamStatistics(t)'.done
              finished(k) == tasks[k].completed # Never
          IN /\ after > before =>
                  \E k \in TasksOf(t) : ~finished(k) /\ finished(k)'
             /\ after < before =>
                  \/ today' > today
                  \/ \E k \in TasksOf(t) : finished(k) /\ ~finished(k)'
             /\ \A k \in TasksOf(t) :
                  today' = today /\ finished(k) /\ ~finished(k)' /\ DoneLately(k)
                      => after = before - 1]_vars

(***************************************************************************)
(* Nobody of a team has created more tasks this calendar month than one of *)
(* those the report names, who are as many as there can be, each once and  *)
(* in order, and who all have created some.                                *)
(***************************************************************************)
TopIsTop ==
    \A t \in Teams :
        LET top == TopTaskCreators(t)
            monthly(u) == Cardinality({k \in TasksOf(t) :
                              /\ tasks[k].creator = u
                              /\ MonthOf[tasks[k].created] = MonthOf[today]})
            active == {u \in Users : monthly(u) > 0}
            ahead(u) == {v \in active : \/ monthly(v) > monthly(u)
                                        \/ monthly(v) = monthly(u) /\ v < u}
        IN /\ Len(top) = Min({Top, Cardinality(active)})
           /\ \A i \in DOMAIN top :
                /\ top[i].user \in active
                /\ top[i].count = monthly(top[i].user)
                /\ Cardinality(ahead(top[i].user)) = i - 1

(***************************************************************************)
(* No operation of the service makes a task invalid, and a task that is    *)
(* stays in the report until it is assigned anew or its assignee joins.    *)
(***************************************************************************)
NoNewInvalidTask ==
    [][/\ InvalidTaskAssignees' \subseteq InvalidTaskAssignees
       /\ \A k \in InvalidTaskAssignees \ InvalidTaskAssignees' :
            \/ tasks'[k].assignee # tasks[k].assignee
            \/ <<tasks[k].team, tasks[k].assignee>> \in members']_vars
=============================================================================
