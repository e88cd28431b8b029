--------------------------- MODULE ReportsProofs ---------------------------
(***************************************************************************)
(* What the three reports say, for every number of users, teams and tasks  *)
(* and every calendar.                                                     *)
(***************************************************************************)
EXTENDS Reports, FiniteSetTheorems, SequenceTheorems, WellFoundedInduction, TLAPS

LEMMA DayType == Days \subseteq Nat \ {0} /\ 1 \in Days
BY MonthAssumption DEF Days

LEMMA Initially == Init => TypeOK
<1> SUFFICES ASSUME Init PROVE TypeOK  OBVIOUS
<1>1. members \subseteq Teams \X Users  BY UserAssumption DEF Init
<1>2. tasks \in [Tasks -> Rows \cup {NoTask}]  BY StrayAssumption DEF Init
<1>3. \A k \in Tasks : tasks[k] # NoTask =>
         tasks[k].created <= today /\ tasks[k].completed <= today
  BY StrayAssumption DEF Init, Never
<1> QED BY <1>1, <1>2, <1>3, DayType DEF Init, TypeOK

\* A task that is there has the fields of a row.
LEMMA RowType ==
    ASSUME TypeOK, NEW k \in Tasks, tasks[k] # NoTask
    PROVE  /\ tasks[k] \in Rows
           /\ tasks[k].team \in Teams
           /\ tasks[k].created \in Nat /\ tasks[k].completed \in Nat
<1>1. tasks[k] \in Rows  BY DEF TypeOK
<1>2. /\ tasks[k].team \in Teams
      /\ tasks[k].created \in Days /\ tasks[k].completed \in Days \cup {Never}
  BY <1>1 DEF Rows
<1>3. Days \subseteq Nat /\ Never \in Nat  BY DayType DEF Never
<1> QED BY <1>1, <1>2, <1>3

LEMMA Invariance == TypeOK /\ [Next]_vars => TypeOK'
<1> SUFFICES ASSUME TypeOK, [Next]_vars PROVE TypeOK'  OBVIOUS
<1>0. today \in Days /\ today \in Nat  BY DayType DEF TypeOK
<1>1. ASSUME NEW t \in Teams, NEW u \in Users, Join(t, u) PROVE TypeOK'
  BY <1>1 DEF Join, TypeOK
<1>2. ASSUME NEW k \in Tasks, NEW t \in Teams, NEW u \in Users,
             NEW v \in Users \cup {Null}, Create(k, t, u, v)
      PROVE  TypeOK'
  <2> DEFINE row == [team |-> t, creator |-> u, assignee |-> v,
                     created |-> today, completed |-> Never]
  <2>1. row \in Rows  BY <1>0 DEF Rows
  <2>2. tasks' = [tasks EXCEPT ![k] = row] /\ UNCHANGED <<members, today>>
    BY <1>2 DEF Create
  <2>3. tasks' \in [Tasks -> Rows \cup {NoTask}]  BY <2>1, <2>2 DEF TypeOK
  <2>4. \A j \in Tasks : tasks'[j] # NoTask =>
          tasks'[j].created <= today' /\ tasks'[j].completed <= today'
    BY <1>0, <2>2 DEF TypeOK, Never
  <2> QED BY <2>2, <2>3, <2>4 DEF TypeOK
<1>3. ASSUME NEW k \in Tasks, NEW v \in Users \cup {Null}, Assign(k, v)
      PROVE  TypeOK'
  <2>1. [tasks[k] EXCEPT !.assignee = v] \in Rows
    BY <1>3, RowType DEF Assign, Rows
  <2> QED BY <1>3, <2>1, RowType DEF Assign, TypeOK, Rows
<1>4. ASSUME NEW k \in Tasks, Complete(k) PROVE TypeOK'
  <2>1. [tasks[k] EXCEPT !.completed = today] \in Rows
    BY <1>0, <1>4, RowType DEF Complete, Rows
  <2> QED BY <1>0, <1>4, <2>1, RowType DEF Complete, TypeOK, Rows
<1>5. ASSUME NEW k \in Tasks, Reopen(k) PROVE TypeOK'
  <2>1. [tasks[k] EXCEPT !.completed = Never] \in Rows
    BY <1>5, RowType DEF Reopen, Rows
  <2> QED BY <1>0, <1>5, <2>1, RowType DEF Reopen, TypeOK, Rows, Never
<1>6. CASE Tick
  <2>1. today' \in Days /\ today' = today + 1 /\ UNCHANGED <<members, tasks>>
    BY <1>6 DEF Tick
  <2>2. \A k \in Tasks : tasks[k] # NoTask =>
          tasks[k].created <= today + 1 /\ tasks[k].completed <= today + 1
    BY <1>0, RowType DEF TypeOK
  <2> QED BY <2>1, <2>2 DEF TypeOK
<1>7. CASE UNCHANGED vars  BY <1>7 DEF vars, TypeOK
<1> QED BY <1>1, <1>2, <1>3, <1>4, <1>5, <1>6, <1>7 DEF Next

\* Every variable keeps its type, and nothing is dated later than today.
THEOREM TypeCorrect == Spec => []TypeOK
BY Initially, Invariance, PTL DEF Spec
-----------------------------------------------------------------------------
\* The columns of a join are the two tables, or NULL.
LEMMA Columns ==
    ASSUME NEW t
    PROVE  /\ {row[1] : row \in Pairs(t)} = Joined(MembersOf(t))
           /\ {row[2] : row \in Pairs(t)} = Joined(TasksOf(t))
<1>1. PICK u : u \in Joined(MembersOf(t))
  BY DEF Joined
<1>2. PICK k : k \in Joined(TasksOf(t))
  BY DEF Joined
<1>3. \A m \in Joined(MembersOf(t)) : <<m, k>> \in Pairs(t)
  BY <1>2 DEF Pairs
<1>4. \A j \in Joined(TasksOf(t)) : <<u, j>> \in Pairs(t)
  BY <1>1 DEF Pairs
<1>5. \A row \in Pairs(t) : /\ row[1] \in Joined(MembersOf(t))
                            /\ row[2] \in Joined(TasksOf(t))
  BY DEF Pairs
<1>6. {row[1] : row \in Pairs(t)} = Joined(MembersOf(t))
  <2>1. \A m \in Joined(MembersOf(t)) : <<m, k>>[1] = m  OBVIOUS
  <2>2. \A m \in Joined(MembersOf(t)) : \E row \in Pairs(t) : row[1] = m
    BY <1>3, <2>1
  <2> QED BY <1>5, <2>2
<1>7. {row[2] : row \in Pairs(t)} = Joined(TasksOf(t))
  <2>1. \A j \in Joined(TasksOf(t)) : <<u, j>>[2] = j  OBVIOUS
  <2>2. \A j \in Joined(TasksOf(t)) : \E row \in Pairs(t) : row[2] = j
    BY <1>4, <2>1
  <2> QED BY <1>5, <2>2
<1> QED BY <1>6, <1>7

\* A row of the join counts as often as there are different values in it.
LEMMA CountsOnce ==
    ASSUME NEW t \in Teams
    PROVE  TeamStatistics(t) =
             [members |-> Cardinality(MembersOf(t)),
              done |-> Cardinality({k \in TasksOf(t) : DoneLately(k)})]
<1>1. Null \notin MembersOf(t) /\ Null \notin TasksOf(t)
  BY AbsentAssumption DEF MembersOf, TasksOf
<1>2. Joined(MembersOf(t)) \ {Null} = MembersOf(t)
  BY <1>1 DEF Joined
<1>3. CountOf(Pairs(t), 1) = Cardinality(MembersOf(t))
  BY <1>2, Columns DEF CountOf
<1> DEFINE lately == {row \in Pairs(t) : row[2] # Null /\ DoneLately(row[2])}
<1>4. {row[2] : row \in lately} \ {Null} = {k \in TasksOf(t) : DoneLately(k)}
  <2>1. ASSUME NEW k \in TasksOf(t), DoneLately(k)
        PROVE  \E row \in lately : row[2] = k
    <3>1. k \in Joined(TasksOf(t)) /\ k # Null  BY <1>1, <2>1 DEF Joined
    <3>2. PICK row \in Pairs(t) : row[2] = k  BY <3>1, Columns
    <3> QED BY <2>1, <3>1, <3>2
  <2>2. ASSUME NEW row \in lately
        PROVE  row[2] \in TasksOf(t) /\ DoneLately(row[2]) /\ row[2] # Null
    <3>1. row[2] \in Joined(TasksOf(t))  BY Columns
    <3> QED BY <2>2, <3>1 DEF Joined
  <2> QED BY <1>1, <2>1, <2>2
<1>5. CountOf(lately, 2) = Cardinality({k \in TasksOf(t) : DoneLately(k)})
  BY <1>4 DEF CountOf
<1> QED BY <1>3, <1>5 DEF TeamStatistics

\* The statistics of a team count its members and its finished tasks, each
\* once, however many rows the joins make of them.
THEOREM CountsAreExact == Spec => []StatisticsAreExact
<1>1. StatisticsAreExact  BY CountsOnce DEF StatisticsAreExact
<1> QED BY <1>1, PTL
-----------------------------------------------------------------------------
\* What keeps an assignee a member: nobody leaves, and a task keeps its team
\* and its assignee unless it is assigned to a member.
LEMMA ValidStays ==
    ASSUME TypeOK, [Next]_vars, NEW k \in InvalidTaskAssignees'
    PROVE  k \in InvalidTaskAssignees
<1> USE DEF InvalidTaskAssignees
<1>1. ASSUME NEW t \in Teams, NEW u \in Users, Join(t, u)
      PROVE  k \in InvalidTaskAssignees
  BY <1>1 DEF Join
<1>2. ASSUME NEW j \in Tasks, NEW t \in Teams, NEW u \in Users,
             NEW v \in Users \cup {Null}, Create(j, t, u, v)
      PROVE  k \in InvalidTaskAssignees
  <2>1. CASE k = j  BY <1>2, <2>1 DEF Create, MayBeAssigned, TypeOK
  <2>2. CASE k # j  BY <1>2, <2>2 DEF Create, TypeOK
  <2> QED BY <2>1, <2>2
<1>3. ASSUME NEW j \in Tasks, NEW v \in Users \cup {Null}, Assign(j, v)
      PROVE  k \in InvalidTaskAssignees
  <2>1. CASE k = j
    <3>1. tasks'[j] = [tasks[j] EXCEPT !.assignee = v] /\ members' = members
      BY <1>3 DEF Assign, TypeOK
    <3>2. tasks'[j].team = tasks[j].team /\ tasks'[j].assignee = v
      BY <1>3, <3>1, RowType DEF Assign, Rows
    <3> QED BY <1>3, <2>1, <3>1, <3>2 DEF Assign, MayBeAssigned
  <2>2. CASE k # j  BY <1>3, <2>2 DEF Assign, TypeOK
  <2> QED BY <2>1, <2>2
<1>4. ASSUME NEW j \in Tasks, Complete(j) \/ Reopen(j)
      PROVE  k \in InvalidTaskAssignees
  <2>1. tasks[j] # NoTask /\ members' = members
        /\ \E d \in Days \cup {Never} :
             tasks' = [tasks EXCEPT ![j].completed = d]
    BY <1>4 DEF Complete, Reopen, TypeOK
  <2>2. CASE k = j
    <3>1. tasks[j] \in Rows  BY <2>1, RowType
    <3>2. PICK d \in Days \cup {Never} :
            tasks'[j] = [tasks[j] EXCEPT !.completed = d]
      BY <2>1 DEF TypeOK
    <3>3. tasks'[j].team = tasks[j].team /\ tasks'[j].assignee = tasks[j].assignee
      BY <3>1, <3>2 DEF Rows
    <3> QED BY <2>1, <2>2, <3>3
  <2>3. CASE k # j  BY <2>1, <2>3 DEF TypeOK
  <2> QED BY <2>2, <2>3
<1>5. CASE Tick  BY <1>5 DEF Tick
<1>6. CASE UNCHANGED vars  BY <1>6 DEF vars
<1> QED BY <1>1, <1>2, <1>3, <1>4, <1>5, <1>6 DEF Next

\* A task that stops being invalid was assigned anew, or its assignee joined.
LEMMA ValidForCause ==
    ASSUME TypeOK, [Next]_vars, NEW k \in InvalidTaskAssignees,
           k \notin InvalidTaskAssignees'
    PROVE  \/ tasks'[k].assignee # tasks[k].assignee
           \/ <<tasks[k].team, tasks[k].assignee>> \in members'
<1>1. tasks[k] # NoTask /\ k \in Tasks  BY DEF InvalidTaskAssignees
<1>2. tasks'[k] # NoTask /\ tasks'[k].team = tasks[k].team
  <2>1. ASSUME NEW j \in Tasks, NEW t \in Teams, NEW u \in Users,
               NEW v \in Users \cup {Null}, Create(j, t, u, v)
        PROVE  tasks'[k] = tasks[k]
    BY <1>1, <2>1 DEF Create, TypeOK
  <2>2. ASSUME NEW row \in Rows, tasks'[k] = row, row.team = tasks[k].team
        PROVE  tasks'[k] # NoTask /\ tasks'[k].team = tasks[k].team
    BY <2>2 DEF Rows, NoTask
  <2>3. tasks[k] \in Rows  BY <1>1, RowType
  <2>4. ASSUME NEW j \in Tasks, NEW v \in Users \cup {Null}, Assign(j, v)
        PROVE  tasks'[k] \in Rows /\ tasks'[k].team = tasks[k].team
    BY <1>1, <2>3, <2>4 DEF Assign, TypeOK, Rows
  <2>5. ASSUME NEW j \in Tasks, Complete(j)
        PROVE  tasks'[k] \in Rows /\ tasks'[k].team = tasks[k].team
    BY <1>1, <2>3, <2>5 DEF Complete, TypeOK, Rows
  <2>6. ASSUME NEW j \in Tasks, Reopen(j)
        PROVE  tasks'[k] \in Rows /\ tasks'[k].team = tasks[k].team
    BY <1>1, <2>3, <2>6 DEF Reopen, TypeOK, Rows
  <2>7. CASE UNCHANGED tasks  BY <1>1, <2>7
  <2> QED
    BY <2>1, <2>2, <2>3, <2>4, <2>5, <2>6, <2>7 DEF Next, vars, Join, Tick
<1> QED BY <1>1, <1>2 DEF InvalidTaskAssignees

\* No step of the service makes a task invalid, and none takes an invalid one
\* from the report without cause.
THEOREM NothingTurnsInvalid == Spec => NoNewInvalidTask
<1> DEFINE Explained ==
      /\ InvalidTaskAssignees' \subseteq InvalidTaskAssignees
      /\ \A k \in InvalidTaskAssignees \ InvalidTaskAssignees' :
            \/ tasks'[k].assignee # tasks[k].assignee
            \/ <<tasks[k].team, tasks[k].assignee>> \in members'
<1>1. TypeOK /\ [Next]_vars => [Explained]_vars
  BY ValidStays, ValidForCause
<1> QED BY <1>1, TypeCorrect, PTL DEF Spec, NoNewInvalidTask
-----------------------------------------------------------------------------
Lately(t) == {k \in TasksOf(t) : DoneLately(k)}
Reopens(k) ==
    /\ tasks[k].completed # Never /\ tasks'[k].completed = Never
    /\ today' = today
    /\ \A j \in Tasks \ {k} : tasks'[j] = tasks[j]

LEMMA LatelyIsFinite ==
    ASSUME NEW t
    PROVE  IsFiniteSet(Lately(t)) /\ Cardinality(Lately(t)) \in Nat
<1>1. Lately(t) \subseteq Tasks  BY DEF Lately, TasksOf
<1>2. IsFiniteSet(Lately(t))  BY <1>1, UserAssumption, FS_Subset
<1> QED BY <1>2, FS_CardinalityType

\* What a step may do to one task.
LEMMA TaskStep ==
    ASSUME TypeOK, [Next]_vars, NEW k \in Tasks
    PROVE  \/ tasks'[k] = tasks[k]
           \/ tasks[k] = NoTask /\ tasks'[k].completed = Never
           \/ /\ tasks[k] # NoTask /\ tasks'[k] # NoTask
              /\ tasks'[k].team = tasks[k].team
              /\ \/ tasks'[k].completed = tasks[k].completed
                 \/ tasks[k].completed = Never
                 \/ Reopens(k)
<1>1. ASSUME NEW j \in Tasks, NEW t \in Teams, NEW u \in Users,
             NEW v \in Users \cup {Null}, Create(j, t, u, v)
      PROVE  tasks'[k] = tasks[k] \/ (tasks[k] = NoTask /\ tasks'[k].completed = Never)
  <2>1. CASE k = j  BY <1>1, <2>1 DEF Create, TypeOK
  <2>2. CASE k # j  BY <1>1, <2>2 DEF Create, TypeOK
  <2> QED BY <2>1, <2>2
<1> DEFINE Kept == /\ tasks[k] # NoTask /\ tasks'[k] # NoTask
                   /\ tasks'[k].team = tasks[k].team
<1>2. ASSUME NEW row \in Rows, tasks'[k] = row, tasks[k] # NoTask,
             row.team = tasks[k].team
      PROVE  Kept
  BY <1>2 DEF Rows, NoTask
<1>3. ASSUME NEW j \in Tasks, NEW v \in Users \cup {Null}, Assign(j, v)
      PROVE  \/ tasks'[k] = tasks[k]
             \/ Kept /\ tasks'[k].completed = tasks[k].completed
  <2>1. CASE k = j
    <3>1. tasks[k] \in Rows  BY <1>3, <2>1, RowType DEF Assign
    <3>2. tasks'[k] = [tasks[k] EXCEPT !.assignee = v]
      BY <1>3, <2>1 DEF Assign, TypeOK
    <3>3. /\ tasks'[k] \in Rows /\ tasks'[k].team = tasks[k].team
          /\ tasks'[k].completed = tasks[k].completed
      BY <3>1, <3>2 DEF Rows
    <3> QED BY <1>2, <1>3, <2>1, <3>3 DEF Assign
  <2>2. CASE k # j  BY <1>3, <2>2 DEF Assign, TypeOK
  <2> QED BY <2>1, <2>2
<1>4. ASSUME NEW j \in Tasks, Complete(j)
      PROVE  tasks'[k] = tasks[k] \/ (Kept /\ tasks[k].completed = Never)
  <2>1. CASE k = j
    <3>1. tasks[k] \in Rows  BY <1>4, <2>1, RowType DEF Complete
    <3>2. tasks'[k] = [tasks[k] EXCEPT !.completed = today] /\ today \in Days
      BY <1>4, <2>1 DEF Complete, TypeOK
    <3>3. tasks'[k] \in Rows /\ tasks'[k].team = tasks[k].team
      BY <3>1, <3>2 DEF Rows
    <3> QED BY <1>2, <1>4, <2>1, <3>3 DEF Complete
  <2>2. CASE k # j  BY <1>4, <2>2 DEF Complete, TypeOK
  <2> QED BY <2>1, <2>2
<1>5. ASSUME NEW j \in Tasks, Reopen(j)
      PROVE  tasks'[k] = tasks[k] \/ (Kept /\ Reopens(k))
  <2>1. CASE k = j
    <3>1. tasks[k] \in Rows  BY <1>5, <2>1, RowType DEF Reopen
    <3>2. tasks'[k] = [tasks[k] EXCEPT !.completed = Never]
      BY <1>5, <2>1 DEF Reopen, TypeOK
    <3>3. /\ tasks'[k] \in Rows /\ tasks'[k].team = tasks[k].team
          /\ tasks'[k].completed = Never
      BY <3>1, <3>2 DEF Rows
    <3>4. Reopens(k)  BY <1>5, <2>1, <3>3 DEF Reopen, Reopens, TypeOK
    <3> QED BY <1>2, <1>5, <2>1, <3>3, <3>4 DEF Reopen
  <2>2. CASE k # j  BY <1>5, <2>2 DEF Reopen, TypeOK
  <2> QED BY <2>1, <2>2
<1>6. CASE UNCHANGED tasks  BY <1>6
<1> QED BY <1>1, <1>3, <1>4, <1>5, <1>6 DEF Next, vars, Join, Tick

LEMMA TimeStep ==
    ASSUME TypeOK, [Next]_vars
    PROVE  /\ today \in Nat /\ today' \in Nat
           /\ today' = today \/ today' = today + 1
<1>1. today \in Nat  BY DayType DEF TypeOK
<1>2. today' = today \/ today' = today + 1
  BY DEF Next, vars, Join, Create, Assign, Complete, Reopen, Tick
<1> QED BY <1>1, <1>2

Finishes(t) == \E k \in TasksOf(t) : tasks[k].completed = Never /\ tasks'[k].completed # Never
SomeReopens(t) == \E k \in TasksOf(t) : Reopens(k)

\* Without a completion nothing comes into the count.
LEMMA NothingComes ==
    ASSUME TypeOK, [Next]_vars, NEW t, ~Finishes(t)
    PROVE  Lately(t)' \subseteq Lately(t)
<1> SUFFICES ASSUME NEW k \in Lately(t)' PROVE k \in Lately(t)  OBVIOUS
<1>1. /\ k \in Tasks /\ tasks'[k] # NoTask /\ tasks'[k].team = t
      /\ tasks'[k].completed # Never /\ tasks'[k].completed >= today' - Week
  BY DEF Lately, TasksOf, DoneLately
<1>2. /\ tasks[k] # NoTask /\ tasks[k].team = t
      /\ tasks'[k].completed = tasks[k].completed
  BY <1>1, TaskStep DEF Finishes, TasksOf, Reopens
<1>3. tasks[k].completed \in Nat  BY <1>1, <1>2, RowType
<1>4. tasks[k].completed >= today - Week
  BY <1>1, <1>2, <1>3, TimeStep, SizeAssumption
<1> QED BY <1>1, <1>2, <1>4 DEF Lately, TasksOf, DoneLately

\* Without a reopening nothing leaves it on the same day.
LEMMA OnlyReopenedLeave ==
    ASSUME TypeOK, [Next]_vars, NEW t, today' = today,
           NEW k \in Lately(t), ~Reopens(k)
    PROVE  k \in Lately(t)'
<1>1. /\ k \in Tasks /\ tasks[k] # NoTask /\ tasks[k].team = t
      /\ tasks[k].completed # Never /\ tasks[k].completed >= today - Week
  BY DEF Lately, TasksOf, DoneLately
<1>2. /\ tasks'[k] # NoTask /\ tasks'[k].team = t
      /\ tasks'[k].completed = tasks[k].completed
  BY <1>1, TaskStep
<1> QED BY <1>1, <1>2 DEF Lately, TasksOf, DoneLately

\* A reopening takes its task from the count and no other.
LEMMA ReopeningTakesOne ==
    ASSUME TypeOK, [Next]_vars, NEW t, NEW k \in Lately(t), Reopens(k)
    PROVE  Cardinality(Lately(t)') = Cardinality(Lately(t)) - 1
<1>1. k \notin Lately(t)'  BY DEF Reopens, Lately, DoneLately
<1>2. \A j \in Tasks \ {k} : tasks'[j] = tasks[j]  BY DEF Reopens
<1>3. today' = today  BY DEF Reopens
<1>4. \A j \in Tasks \ {k} : j \in Lately(t)' <=> j \in Lately(t)
  BY <1>2, <1>3 DEF Lately, TasksOf, DoneLately
<1>5. Lately(t)' = Lately(t) \ {k}
  BY <1>1, <1>4 DEF Lately, TasksOf
<1> QED BY <1>5, LatelyIsFinite, FS_RemoveElement

\* The number of tasks done lately grows by a completion, and shrinks by time
\* or by a reopening, which takes one.
THEOREM DoneCountFollows == Spec => DoneCountIsExplained
<1> DEFINE finished(k) == tasks[k].completed # Never
           Explained ==
             \A t \in Teams :
                LET before == TeamStatistics(t).done
                    after == TeamStatistics(t)'.done
                IN /\ after > before =>
                        \E k \in TasksOf(t) : ~finished(k) /\ finished(k)'
                   /\ after < before =>
                        \/ today' > today
                        \/ \E k \in TasksOf(t) : finished(k) /\ ~finished(k)'
                   /\ \A k \in TasksOf(t) :
                        today' = today /\ finished(k) /\ ~finished(k)' /\ DoneLately(k)
                            => after = before - 1
<1>1. ASSUME TypeOK, [Next]_vars, StatisticsAreExact, StatisticsAreExact'
      PROVE  Explained
  <2> SUFFICES ASSUME NEW t \in Teams
               PROVE
                 /\ TeamStatistics(t)'.done > TeamStatistics(t).done => Finishes(t)
                 /\ TeamStatistics(t)'.done < TeamStatistics(t).done =>
                      today' > today \/ SomeReopens(t)
                 /\ \A k \in TasksOf(t) :
                      today' = today /\ finished(k) /\ ~finished(k)' /\ DoneLately(k)
                        => TeamStatistics(t)'.done = TeamStatistics(t).done - 1
    BY DEF Finishes, SomeReopens, Reopens
  <2>1. TeamStatistics(t).done = Cardinality(Lately(t))
    BY <1>1 DEF StatisticsAreExact, Lately
  <2>2. TeamStatistics(t)'.done = Cardinality(Lately(t)')
    BY <1>1 DEF StatisticsAreExact, Lately
  <2>3. /\ IsFiniteSet(Lately(t)) /\ Cardinality(Lately(t)) \in Nat
        /\ IsFiniteSet(Lately(t)') /\ Cardinality(Lately(t)') \in Nat
    <3>1. Lately(t)' \subseteq Tasks  BY DEF Lately, TasksOf
    <3>2. IsFiniteSet(Lately(t)')  BY <3>1, UserAssumption, FS_Subset
    <3> QED BY <3>2, FS_CardinalityType, LatelyIsFinite
  <2>4. ASSUME ~Finishes(t)
        PROVE  Cardinality(Lately(t)') <= Cardinality(Lately(t))
    BY <1>1, <2>3, <2>4, NothingComes, FS_Subset
  <2>5. ASSUME today' = today, ~SomeReopens(t)
        PROVE  Cardinality(Lately(t)) <= Cardinality(Lately(t)')
    <3>1. Lately(t) \subseteq TasksOf(t)  BY DEF Lately
    <3>2. Lately(t) \subseteq Lately(t)'
      BY <1>1, <2>5, <3>1, OnlyReopenedLeave DEF SomeReopens
    <3> QED BY <2>3, <3>2, FS_Subset
  <2>6. today' = today \/ today' > today  BY <1>1, TimeStep
  <2>7. ASSUME NEW k \in TasksOf(t), today' = today,
               finished(k), ~finished(k)', DoneLately(k)
        PROVE  Cardinality(Lately(t)') = Cardinality(Lately(t)) - 1
    <3>1. k \in Tasks /\ tasks[k] # NoTask  BY DEF TasksOf
    <3>2. Reopens(k)  BY <1>1, <2>7, <3>1, TaskStep
    <3> QED BY <1>1, <2>7, <3>2, ReopeningTakesOne DEF Lately
  <2>8. Cardinality(Lately(t)') > Cardinality(Lately(t)) => Finishes(t)
    BY <2>3, <2>4
  <2>9. Cardinality(Lately(t)') < Cardinality(Lately(t)) =>
          today' > today \/ SomeReopens(t)
    BY <2>3, <2>5, <2>6
  <2> QED BY <2>1, <2>2, <2>7, <2>8, <2>9
<1>2. TypeOK /\ StatisticsAreExact /\ StatisticsAreExact' /\ [Next]_vars
        => [Explained]_vars
  BY <1>1
<1> QED BY <1>2, TypeCorrect, CountsAreExact, PTL DEF Spec, DoneCountIsExplained
-----------------------------------------------------------------------------
(* The days of a month. *)

\* The largest of finitely many numbers: the one with the fewest above it.
LEMMA Largest ==
    ASSUME NEW S \in SUBSET Nat, IsFiniteSet(S), S # {}
    PROVE  Max(S) \in S /\ \A y \in S : Max(S) >= y
<1> DEFINE Above(n) == {y \in S : y > n}
           D == {Above(n) : n \in S}
           R == StrictSubsetOrdering(S)
<1>1. IsWellFoundedOn(R, SUBSET S)
  BY FS_StrictSubsetOrderingWellFounded, FS_FiniteSubsetsOfFinite
<1>2. D \subseteq SUBSET S /\ D # {}  OBVIOUS
<1>3. PICK A \in D : \A B \in D : <<B, A>> \notin R
  <2> HIDE DEF D, R
  <2> QED BY <1>1, <1>2, WFMin
<1>4. PICK n \in S : A = Above(n)  BY <1>3
<1>5. ASSUME NEW y \in S, y > n PROVE FALSE
  <2>0. n \in Nat /\ y \in Nat /\ \A z \in S : z \in Nat  OBVIOUS
  <2>1. Above(y) \subseteq Above(n) /\ y \in Above(n) /\ y \notin Above(y)
    <3>1. y \in Above(n) /\ y \notin Above(y)  BY <1>5, <2>0
    <3>2. \A z \in S : z > y => z > n  BY <1>5, <2>0
    <3> QED BY <3>1, <3>2
  <2>2. <<Above(y), Above(n)>> \in R  BY <2>1 DEF StrictSubsetOrdering
  <2> QED BY <1>3, <1>4, <2>2
<1>6. \A y \in S : n >= y  BY <1>5
<1> QED BY <1>6 DEF Max

\* Today is as many days into its month as days of it came before.
LEMMA MonthBegins ==
    ASSUME NEW d \in Days, NEW c \in Days, c <= d
    PROVE  c >= d - (DayOfMonth(d) - 1) <=> MonthOf[c] = MonthOf[d]
<1> DEFINE E == {e \in Days : e < d /\ MonthOf[e] = MonthOf[d]}
<1>1. /\ Days \subseteq Nat /\ c \in Nat /\ d \in Nat
      /\ Days = 1 .. Len(MonthOf)
      /\ \A e \in Days : MonthOf[e] \in Nat
      /\ \A e, f \in Days : e <= f => MonthOf[e] <= MonthOf[f]
  BY MonthAssumption DEF Days
<1>2. E \subseteq 1 .. d  BY <1>1
<1>3. IsFiniteSet(E) /\ Cardinality(E) \in Nat
  <2>1. IsFiniteSet(1 .. d)  BY <1>1, FS_Interval
  <2> HIDE DEF E
  <2> QED BY <1>2, <2>1, FS_Subset, FS_CardinalityType
<1>4. DayOfMonth(d) - 1 = Cardinality(E)
  <2>1. DayOfMonth(d) = 1 + Cardinality(E)  BY DEF DayOfMonth
  <2> HIDE DEF E
  <2> QED BY <1>3, <2>1
<1>5. ASSUME MonthOf[c] = MonthOf[d] PROVE c >= d - Cardinality(E)
  <2>1. c .. (d - 1) \subseteq E
    <3> SUFFICES ASSUME NEW e \in c .. (d - 1) PROVE e \in E  OBVIOUS
    <3>1. e \in Days /\ c <= e /\ e <= d /\ e < d  BY <1>1
    <3>2. MonthOf[c] <= MonthOf[e] /\ MonthOf[e] <= MonthOf[d]  BY <1>1, <3>1
    <3> QED BY <1>1, <1>5, <3>1, <3>2
  <2>2. c \in Int /\ d - 1 \in Int  BY <1>1
  <2>3. Cardinality(c .. (d - 1)) = IF c > d - 1 THEN 0 ELSE (d - 1) - c + 1
    BY <2>2, FS_Interval
  <2> HIDE DEF E
  <2>4. Cardinality(c .. (d - 1)) <= Cardinality(E)  BY <1>3, <2>1, FS_Subset
  <2> QED BY <1>1, <1>3, <2>3, <2>4
<1>6. ASSUME MonthOf[c] # MonthOf[d] PROVE c < d - Cardinality(E)
  <2>1. c < d /\ MonthOf[c] < MonthOf[d]  BY <1>1, <1>6
  <2>2. E \subseteq (c + 1) .. (d - 1)
    <3> SUFFICES ASSUME NEW e \in E PROVE e \in (c + 1) .. (d - 1)  OBVIOUS
    <3>1. e <= c => MonthOf[e] <= MonthOf[c]  BY <1>1
    <3>2. ~(e <= c)  BY <1>1, <2>1, <3>1
    <3> QED BY <1>1, <3>2
  <2>3. c + 1 \in Int /\ d - 1 \in Int  BY <1>1
  <2>4. /\ IsFiniteSet((c + 1) .. (d - 1))
        /\ Cardinality((c + 1) .. (d - 1)) = IF c + 1 > d - 1 THEN 0 ELSE (d - 1) - (c + 1) + 1
    BY <2>3, FS_Interval
  <2> HIDE DEF E
  <2>5. Cardinality(E) <= Cardinality((c + 1) .. (d - 1))  BY <2>2, <2>4, FS_Subset
  <2> QED BY <1>1, <1>3, <2>1, <2>4, <2>5
<1> HIDE DEF E
<1> QED BY <1>1, <1>3, <1>4, <1>5, <1>6

\* The window of the query is the calendar month.
LEMMA ThisMonthIs ==
    ASSUME TypeOK, NEW k \in Tasks, tasks[k] # NoTask
    PROVE  ThisMonth(k) <=> MonthOf[tasks[k].created] = MonthOf[today]
<1> DEFINE month == {e \in Days : MonthOf[e] = MonthOf[today]}
<1>1. /\ today \in Days /\ tasks[k].created \in Days /\ tasks[k].created <= today
  <2>1. tasks[k] \in Rows  BY RowType
  <2> QED BY <2>1 DEF TypeOK, Rows
<1>2. Days \subseteq Nat /\ Days = 1 .. Len(MonthOf) /\ Len(MonthOf) \in Nat
  BY MonthAssumption DEF Days
<1>3. month \in SUBSET Nat /\ today \in month /\ IsFiniteSet(month)
  <2>1. IsFiniteSet(Days)  BY <1>2, FS_Interval
  <2> QED BY <1>1, <1>2, <2>1, FS_Subset
<1>4. LastDay(today) = Max(month)  BY DEF LastDay
<1> HIDE DEF month
<1>5. LastDay(today) \in Nat /\ LastDay(today) >= today
  <2>1. Max(month) \in month /\ \A y \in month : Max(month) >= y  BY <1>3, Largest
  <2> QED BY <1>3, <1>4, <2>1
<1>6. tasks[k].created < LastDay(today) + 1  BY <1>1, <1>2, <1>5
<1> QED BY <1>1, <1>6, MonthBegins DEF ThisMonth
-----------------------------------------------------------------------------
(* The ranking. *)

\* The tasks of team t that user u has created this month, and their number.
OfTheMonth(t, u) ==
    {k \in TasksOf(t) : /\ tasks[k].creator = u
                        /\ MonthOf[tasks[k].created] = MonthOf[today]}
Monthly(t, u) == Cardinality(OfTheMonth(t, u))
Active(t) == {u \in Users : Monthly(t, u) > 0}

LEMMA CountsTheMonth ==
    ASSUME TypeOK, NEW t, NEW u
    PROVE  Created(t, u) = Monthly(t, u) /\ Monthly(t, u) \in Nat
<1>1. OfTheMonth(t, u) \subseteq Tasks  BY DEF OfTheMonth, TasksOf
<1>2. Monthly(t, u) \in Nat
  BY <1>1, UserAssumption, FS_Subset, FS_CardinalityType DEF Monthly
<1>3. {k \in TasksOf(t) : tasks[k].creator = u /\ ThisMonth(k)} = OfTheMonth(t, u)
  BY ThisMonthIs DEF OfTheMonth, TasksOf
<1> QED BY <1>2, <1>3 DEF Created, Monthly

\* One row for each active user.
LEMMA CreatorCountsType ==
    ASSUME TypeOK, NEW t
    PROVE  /\ \A c \in CreatorCounts(t) :
                /\ c.user \in Active(t) /\ c.user \in Nat
                /\ c.count = Monthly(t, c.user) /\ c.count \in Nat
           /\ \A u \in Active(t) : \E c \in CreatorCounts(t) : c.user = u
           /\ \A c, d \in CreatorCounts(t) : c.user = d.user => c = d
           /\ IsFiniteSet(CreatorCounts(t)) /\ IsFiniteSet(Active(t))
           /\ Cardinality(CreatorCounts(t)) = Cardinality(Active(t))
           /\ Cardinality(CreatorCounts(t)) \in Nat
<1> DEFINE row == [u \in Active(t) |-> [user |-> u, count |-> Monthly(t, u)]]
<1>1. CreatorCounts(t) = {row[u] : u \in Active(t)}
  BY CountsTheMonth DEF CreatorCounts, Active
<1>2. \A u \in Active(t) : /\ row[u].user = u /\ row[u].count = Monthly(t, u)
                           /\ Monthly(t, u) \in Nat /\ u \in Nat
  BY CountsTheMonth, UserAssumption DEF Active
<1>3. IsFiniteSet(Active(t))
  <2>1. Active(t) \subseteq Users  BY DEF Active
  <2> QED BY <2>1, UserAssumption, FS_Subset
<1> HIDE DEF row
<1>4. row \in Surjection(Active(t), CreatorCounts(t)) /\ row \in Injection(Active(t), CreatorCounts(t))
  <2>1. row \in [Active(t) -> CreatorCounts(t)]  BY <1>1 DEF row
  <2> QED BY <1>1, <1>2, <2>1 DEF Surjection, Injection, IsInjective
<1>5. IsFiniteSet(CreatorCounts(t)) /\ Cardinality(CreatorCounts(t)) = Cardinality(Active(t))
  BY <1>3, <1>4, FS_Surjection
<1> QED BY <1>1, <1>2, <1>3, <1>5, FS_CardinalityType

\* The creators who come before a creator.
Above(t, c) == {d \in CreatorCounts(t) : Outranks(d, c)}

\* ORDER BY created_task_count DESC, user_id ASC leaves no ties.
LEMMA OutranksIsTotal ==
    ASSUME TypeOK, NEW t, NEW a \in CreatorCounts(t), NEW b \in CreatorCounts(t)
    PROVE  /\ ~Outranks(a, a)
           /\ a # b => Outranks(a, b) \/ Outranks(b, a)
           /\ \A c \in CreatorCounts(t) : Outranks(c, a) /\ Outranks(a, b) => Outranks(c, b)
<1>1. \A c \in CreatorCounts(t) : c.user \in Nat /\ c.count \in Nat
  BY CreatorCountsType
<1>2. a.user = b.user => a = b  BY CreatorCountsType
<1> QED BY <1>1, <1>2 DEF Outranks

LEMMA PositionType ==
    ASSUME TypeOK, NEW t, NEW c \in CreatorCounts(t)
    PROVE  /\ IsFiniteSet(Above(t, c)) /\ Cardinality(Above(t, c)) \in Nat
           /\ Position(t, c) = 1 + Cardinality(Above(t, c))
           /\ Position(t, c) \in 1 .. Cardinality(CreatorCounts(t))
<1>1. IsFiniteSet(CreatorCounts(t)) /\ Cardinality(CreatorCounts(t)) \in Nat
  BY CreatorCountsType
<1>2. Above(t, c) \subseteq CreatorCounts(t)  BY DEF Above
<1>3. c \notin Above(t, c)  BY OutranksIsTotal DEF Above
<1>4. /\ IsFiniteSet(Above(t, c)) /\ Cardinality(Above(t, c)) \in Nat
      /\ Cardinality(Above(t, c)) <= Cardinality(CreatorCounts(t))
      /\ Cardinality(Above(t, c)) # Cardinality(CreatorCounts(t))
  BY <1>1, <1>2, <1>3, FS_Subset, FS_CardinalityType
<1>5. Position(t, c) = 1 + Cardinality(Above(t, c))  BY DEF Position, Above
<1> QED BY <1>1, <1>4, <1>5

LEMMA PositionIsUnique ==
    ASSUME TypeOK, NEW t, NEW a \in CreatorCounts(t), NEW b \in CreatorCounts(t),
           Position(t, a) = Position(t, b)
    PROVE  a = b
<1>1. ASSUME NEW x \in CreatorCounts(t), NEW y \in CreatorCounts(t), Outranks(x, y)
      PROVE  Position(t, x) < Position(t, y)
  <2>1. Above(t, x) \subseteq Above(t, y)  BY <1>1, OutranksIsTotal DEF Above
  <2>2. x \in Above(t, y) /\ x \notin Above(t, x)  BY <1>1, OutranksIsTotal DEF Above
  <2>3. /\ IsFiniteSet(Above(t, x)) /\ Cardinality(Above(t, x)) \in Nat
        /\ IsFiniteSet(Above(t, y)) /\ Cardinality(Above(t, y)) \in Nat
        /\ Position(t, x) = 1 + Cardinality(Above(t, x))
        /\ Position(t, y) = 1 + Cardinality(Above(t, y))
    BY PositionType
  <2>4. /\ Cardinality(Above(t, x)) <= Cardinality(Above(t, y))
        /\ Cardinality(Above(t, x)) # Cardinality(Above(t, y))
    BY <2>1, <2>2, <2>3, FS_Subset
  <2> QED BY <2>3, <2>4
<1>2. Position(t, a) \in Nat /\ Position(t, b) \in Nat
  <2>1. Cardinality(CreatorCounts(t)) \in Nat  BY CreatorCountsType
  <2> QED BY <2>1, PositionType
<1> QED BY <1>1, <1>2, OutranksIsTotal

\* As many positions as creators: each is taken.
LEMMA PositionIsTaken ==
    ASSUME TypeOK, NEW t, NEW p \in 1 .. Cardinality(CreatorCounts(t))
    PROVE  \E c \in CreatorCounts(t) : Position(t, c) = p
<1> DEFINE S == CreatorCounts(t)
           place == [c \in S |-> Position(t, c)]
           places == 1 .. Cardinality(S)
<1>1. IsFiniteSet(S) /\ Cardinality(S) \in Nat  BY CreatorCountsType
<1>2. IsFiniteSet(places) /\ Cardinality(places) = Cardinality(S)
  BY <1>1, FS_Interval
<1>3. place \in Injection(S, places)
  <2>1. place \in [S -> places]  BY PositionType
  <2>2. \A a, b \in S : place[a] = place[b] => a = b  BY PositionIsUnique
  <2> HIDE DEF S
  <2> QED BY <2>1, <2>2 DEF Injection, IsInjective
<1>4. place \in Surjection(S, places)
  <2> HIDE DEF place, places, S
  <2> QED BY <1>1, <1>2, <1>3, FS_Injection
<1>5. \E c \in S : place[c] = p
  <2> HIDE DEF place
  <2> QED BY <1>4 DEF Surjection
<1> QED BY <1>5

\* The top of the ranking.
LEMMA TopType ==
    ASSUME TypeOK, NEW t
    PROVE  LET top == TopTaskCreators(t)
           IN /\ Len(top) = Min({Top, Cardinality(CreatorCounts(t))})
              /\ DOMAIN top = 1 .. Len(top)
              /\ \A p \in DOMAIN top :
                   top[p] \in CreatorCounts(t) /\ Position(t, top[p]) = p
<1> DEFINE n == Cardinality(CreatorCounts(t))
           at(p) == CHOOSE c \in CreatorCounts(t) : Position(t, c) = p
           ranked == RankedCreators(t)
           m == Min({n, Top})
<1>1. n \in Nat /\ Top \in Nat  BY CreatorCountsType, SizeAssumption
<1>2. \A p \in 1 .. n : at(p) \in CreatorCounts(t) /\ Position(t, at(p)) = p
  BY PositionIsTaken
<1>3. ranked = [p \in 1 .. n |-> at(p)]  BY DEF RankedCreators
<1>4. m \in Nat /\ m <= n /\ m = Min({Top, n})
  <2>1. \E x \in {n, Top} : \A y \in {n, Top} : x <= y  BY <1>1
  <2>2. m \in {n, Top} /\ \A y \in {n, Top} : m <= y
    <3> HIDE DEF n
    <3> QED BY <2>1 DEF Min
  <2>3. {n, Top} = {Top, n}  OBVIOUS
  <2> HIDE DEF n
  <2> QED BY <1>1, <2>2, <2>3
<1> HIDE DEF n, at, ranked, m
<1>5. /\ ranked \in Seq(CreatorCounts(t)) /\ Len(ranked) = n
      /\ \A p \in 1 .. n : ranked[p] \in CreatorCounts(t) /\ Position(t, ranked[p]) = p
  <2>1. ranked \in [1 .. n -> CreatorCounts(t)]  BY <1>2, <1>3
  <2> QED BY <1>1, <1>2, <1>3, <2>1
<1>6. TopTaskCreators(t) = SubSeq(ranked, 1, m)
  BY <1>5 DEF TopTaskCreators, ranked, m
<1>7. /\ Len(SubSeq(ranked, 1, m)) = m
      /\ DOMAIN SubSeq(ranked, 1, m) = 1 .. m
      /\ \A p \in 1 .. m : SubSeq(ranked, 1, m)[p] = ranked[p]
  <2>1. \A i \in 1 .. m : ranked[i] \in CreatorCounts(t)  BY <1>1, <1>4, <1>5
  <2>2. m \in Int /\ 1 \in Int  BY <1>4
  <2>3. /\ SubSeq(ranked, 1, m) \in Seq(CreatorCounts(t))
        /\ Len(SubSeq(ranked, 1, m)) = IF 1 <= m THEN m - 1 + 1 ELSE 0
        /\ \A i \in 1 .. m - 1 + 1 : SubSeq(ranked, 1, m)[i] = ranked[1 + i - 1]
    BY <2>1, <2>2, SubSeqProperties
  <2>4. Len(SubSeq(ranked, 1, m)) = m  BY <1>4, <2>3
  <2>5. DOMAIN SubSeq(ranked, 1, m) = 1 .. m  BY <2>3, <2>4, LenProperties
  <2>6. \A p \in 1 .. m : p \in 1 .. m - 1 + 1 /\ 1 + p - 1 = p  BY <1>4
  <2> QED BY <2>3, <2>4, <2>5, <2>6
<1>8. \A p \in 1 .. m : p \in 1 .. n  BY <1>1, <1>4
<1> QED BY <1>4, <1>5, <1>6, <1>7, <1>8 DEF n

\* Those above a creator in the ranking are the users ahead of him.
LEMMA AheadIsAbove ==
    ASSUME TypeOK, NEW t, NEW c \in CreatorCounts(t)
    PROVE  LET ahead == {v \in Active(t) :
                           \/ Monthly(t, v) > Monthly(t, c.user)
                           \/ Monthly(t, v) = Monthly(t, c.user) /\ v < c.user}
           IN Cardinality(ahead) = Cardinality(Above(t, c))
<1> DEFINE ahead == {v \in Active(t) :
                       \/ Monthly(t, v) > Monthly(t, c.user)
                       \/ Monthly(t, v) = Monthly(t, c.user) /\ v < c.user}
           user == [d \in Above(t, c) |-> d.user]
<1>1. \A d \in CreatorCounts(t) :
        d.user \in Active(t) /\ d.count = Monthly(t, d.user)
  BY CreatorCountsType
<1>2. \A d \in Above(t, c) : d \in CreatorCounts(t) /\ d.user \in ahead
  BY <1>1 DEF Above, Outranks
<1>3. \A v \in ahead : \E d \in Above(t, c) : d.user = v
  <2> SUFFICES ASSUME NEW v \in ahead PROVE \E d \in Above(t, c) : d.user = v
    OBVIOUS
  <2>1. PICK d \in CreatorCounts(t) : d.user = v  BY CreatorCountsType
  <2> QED BY <1>1, <2>1 DEF Above, Outranks
<1>4. \A d, e \in Above(t, c) : d.user = e.user => d = e
  BY <1>2, CreatorCountsType
<1> HIDE DEF ahead
<1>5. user \in Surjection(Above(t, c), ahead) /\ user \in Injection(Above(t, c), ahead)
  BY <1>2, <1>3, <1>4 DEF Surjection, Injection, IsInjective
<1> HIDE DEF user
<1>6. Cardinality(ahead) = Cardinality(Above(t, c))
  BY <1>5, PositionType, FS_Surjection
<1> QED BY <1>6 DEF ahead

LEMMA TypeOKImpliesTopIsTop == TypeOK => TopIsTop
<1> SUFFICES ASSUME TypeOK, NEW t \in Teams
    PROVE  LET top == TopTaskCreators(t)
               ahead(u) == {v \in Active(t) : \/ Monthly(t, v) > Monthly(t, u)
                                              \/ Monthly(t, v) = Monthly(t, u) /\ v < u}
           IN /\ Len(top) = Min({Top, Cardinality(Active(t))})
              /\ \A i \in DOMAIN top :
                   /\ top[i].user \in Active(t)
                   /\ top[i].count = Monthly(t, top[i].user)
                   /\ Cardinality(ahead(top[i].user)) = i - 1
  BY DEF TopIsTop, Active, Monthly, OfTheMonth
<1> DEFINE top == TopTaskCreators(t)
           ahead(u) == {v \in Active(t) : \/ Monthly(t, v) > Monthly(t, u)
                                          \/ Monthly(t, v) = Monthly(t, u) /\ v < u}
<1>1. /\ Len(top) = Min({Top, Cardinality(CreatorCounts(t))})
      /\ DOMAIN top = 1 .. Len(top)
      /\ \A p \in DOMAIN top :
           top[p] \in CreatorCounts(t) /\ Position(t, top[p]) = p
  BY TopType
<1>2. Cardinality(CreatorCounts(t)) = Cardinality(Active(t))  BY CreatorCountsType
<1> HIDE DEF top
<1>3. ASSUME NEW i \in DOMAIN top
      PROVE  /\ top[i].user \in Active(t)
             /\ top[i].count = Monthly(t, top[i].user)
             /\ Cardinality(ahead(top[i].user)) = i - 1
  <2>1. top[i] \in CreatorCounts(t) /\ Position(t, top[i]) = i  BY <1>1
  <2>2. top[i].user \in Active(t) /\ top[i].count = Monthly(t, top[i].user)
    BY <2>1, CreatorCountsType
  <2>3. Cardinality(ahead(top[i].user)) = Cardinality(Above(t, top[i]))
    BY <2>1, AheadIsAbove
  <2>4. /\ Cardinality(Above(t, top[i])) \in Nat
        /\ i = 1 + Cardinality(Above(t, top[i]))
    BY <2>1, PositionType
  <2> QED BY <2>2, <2>3, <2>4
<1> QED BY <1>1, <1>2, <1>3 DEF top

\* GetTopTaskCreators names those ahead of whom fewest users of the team have
\* created tasks this calendar month, on every day of every calendar.
THEOREM TopIsTheTop == Spec => []TopIsTop
BY TypeCorrect, TypeOKImpliesTopIsTop, PTL
=============================================================================
