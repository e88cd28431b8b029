----------------------------- MODULE TaskStore -----------------------------
(***************************************************************************)
(* Creating and updating tasks: the use case of                            *)
(* internal/usecase/task/task.go over the repository of                    *)
(* internal/adapter/mysql/task_repository.go, for any number of concurrent *)
(* requests.                                                               *)
(*                                                                         *)
(* Update reads the task, checks it, computes the changed fields against   *)
(* the row it read, and only then opens the transaction that writes those  *)
(* columns and their history.  Each statement is an action; between two of *)
(* them every other request may run.  MySQL is modelled by what the code   *)
(* relies on: a row lock from UPDATE to the end of the transaction,        *)
(* rollback of everything a transaction wrote, AUTO_INCREMENT ids that are *)
(* never reused, and a count of CHANGED rows as RowsAffected (the DSN does *)
(* not ask for found rows).  database/sql is modelled by its pool: a       *)
(* transaction keeps a connection, a single statement needs a free one.    *)
(*                                                                         *)
(* Abstracted: texts are members of small sets, validation other than that *)
(* of the status is passed, and the time is a counter of seconds.          *)
(***************************************************************************)
EXTENDS Integers, FiniteSets

CONSTANTS
    Requests,   \* slots in which HTTP requests are served, of any replica
    Teams, Users,
    Tasks,      \* the task ids there is room for
    Titles, Descriptions,
    StatusTexts,    \* what a client may send as a status
    ValidStatuses,  \* todo, in_progress, done
    Todo, Done,
    NoOne,      \* a nil assignee
    Absent,     \* a field the PUT request does not mention
    Inputs,     \* the PUT bodies under study
    Drafts,     \* the POST bodies under study, with the status Create gives
    NoRow,      \* an id without a row
    Founders,   \* the team memberships there are to begin with
    MaxOpen,    \* MaxOpenConnections
    Faults,     \* subset of {"db", "commit"}
    MaxHistory, \* bound: history rows before no more updates start
    MaxTime     \* bound: seconds

Fields == {"title", "description", "status", "assignee_id"}

Values == Titles \cup Descriptions \cup StatusTexts \cup Users \cup {NoOne}

ASSUME StatusAssumption ==
    /\ ValidStatuses \subseteq StatusTexts
    /\ {Todo, Done} \subseteq ValidStatuses
    /\ Todo # Done
ASSUME InputAssumption ==
    /\ Inputs \subseteq [Fields -> Values \cup {Absent}]
    /\ \A i \in Inputs : /\ i["status"] \in StatusTexts \cup {Absent}
                         /\ i["assignee_id"] \in Users \cup {NoOne, Absent}
ASSUME DraftAssumption ==
    /\ Drafts \subseteq [Fields -> Values]
    /\ \A d \in Drafts : /\ d["status"] = Todo
                         /\ d["assignee_id"] \in Users \cup {NoOne}
ASSUME AbsentAssumption == Absent \notin Values
ASSUME PoolAssumption == MaxOpen \in Nat \ {0}
ASSUME BoundAssumption == MaxHistory \in Nat /\ MaxTime \in Nat
ASSUME FounderAssumption == Founders \subseteq Teams \X Users

VARIABLES
    tasks,      \* [Tasks -> Rows \cup {NoRow}], the committed rows
    history,    \* the committed rows of task_history
    created,    \* [Tasks -> Rows \cup {NoRow}], each row as it was inserted; the
                \* store forgets this, the properties do not
    members,    \* team_members
    nextId,     \* AUTO_INCREMENT of task_history
    now,        \* the clock
    pc,         \* where each request is
    op,         \* "create" or "update"
    task, user, input,
    snap,       \* currentTask, or the task about to be created
    stamp,      \* updatedTask.CompletedAt
    image,      \* the row as the transaction sees it, later the answer
    logged,     \* the history rows the transaction inserted
    reply       \* the outcome sent to the client

db == <<tasks, history, created, members, nextId>>
args == <<op, task, user, input>>
vars == <<tasks, history, created, members, nextId, now, pc, op, task, user,
          input, snap, stamp, image, logged, reply>>

Never == -1     \* a nil CompletedAt

Rows == [team : Teams, created_by : Users, completed_at : {Never} \cup Nat,
         value : [Fields -> Values]]

ASSUME NoRowAssumption == NoRow \notin Rows

Entries == [id : Nat, task : Tasks, changed_by : Users, field_name : Fields,
            old_value : Values, new_value : Values]

Stages == {"idle", "find", "member", "assignee", "begin", "update", "log",
           "reload", "commit", "creator", "insert", "load", "answered"}

Replies == {"none", "ok", "task_not_found", "forbidden", "invalid",
            "assignee_not_member", "error"}

\* A transaction holds a connection from BeginTx to Commit or Rollback, and
\* the lock of its row from its UPDATE on.
InTransaction(r) == pc[r] \in {"update", "log", "reload", "commit"}
HoldsRow(r) == pc[r] \in {"log", "reload", "commit"}

Free == Cardinality({r \in Requests : InTransaction(r)}) < MaxOpen

IsMember(t, u) == <<t, u>> \in members

\* The fields Update has to write: those asked for that differ from the row
\* the request READ.
Changed(r) ==
    {f \in Fields : input[r][f] # Absent /\ input[r][f] # snap[r].value[f]}

\* The change not logged yet that comes next; their order is of no account.
Unlogged(r) == {f \in Changed(r) : \A h \in logged[r] : h.field_name # f}

Init ==
    /\ tasks = [t \in Tasks |-> NoRow]
    /\ history = {}
    /\ created = [t \in Tasks |-> NoRow]
    /\ members = Founders
    /\ nextId = 1
    /\ now = 0
    /\ pc = [r \in Requests |-> "idle"]
    /\ op = [r \in Requests |-> "update"]
    /\ task \in [Requests -> Tasks]
    /\ user \in [Requests -> Users]
    /\ input = [r \in Requests |-> [f \in Fields |-> Absent]]
    /\ snap = [r \in Requests |-> NoRow]
    /\ stamp = [r \in Requests |-> Never]
    /\ image = [r \in Requests |-> NoRow]
    /\ logged = [r \in Requests |-> {}]
    /\ reply = [r \in Requests |-> "none"]

\* The handler has the outcome.  The deferred Rollback of a transaction still
\* open discards image and logged and gives up the row and the connection.
Finish(r, outcome) ==
    /\ pc' = [pc EXCEPT ![r] = "answered"]
    /\ reply' = [reply EXCEPT ![r] = outcome]

Goto(r, stage) ==
    /\ pc' = [pc EXCEPT ![r] = stage]
    /\ UNCHANGED reply
-----------------------------------------------------------------------------
\* Update, past the checks of its arguments.
StartUpdate(r, t, u, i) ==
    /\ pc[r] = "idle"
    /\ nextId <= MaxHistory
    /\ op' = [op EXCEPT ![r] = "update"]
    /\ task' = [task EXCEPT ![r] = t]
    /\ user' = [user EXCEPT ![r] = u]
    /\ input' = [input EXCEPT ![r] = i]
    /\ Goto(r, "find")
    /\ UNCHANGED <<db, now, snap, stamp, image, logged>>

\* FindByID.
Find(r) ==
    /\ pc[r] = "find"
    /\ Free
    /\ snap' = [snap EXCEPT ![r] = tasks[task[r]]]
    /\ IF tasks[task[r]] = NoRow THEN Finish(r, "task_not_found")
                                 ELSE Goto(r, "member")
    /\ UNCHANGED <<db, now, args, stamp, image, logged>>

\* What follows the last check: nothing to write is a success.
Proceed(r) ==
    IF Changed(r) = {}
    THEN /\ Finish(r, "ok")
         /\ image' = [image EXCEPT ![r] = snap[r]]
    ELSE /\ Goto(r, "begin")
         /\ UNCHANGED image

\* Mutant: only the requesting user is looked up.
CheckMember_NotAssignee(r) ==
    /\ pc[r] = "member"
    /\ Free
    /\ IF ~IsMember(snap[r].team, user[r])
       THEN Finish(r, "forbidden") /\ UNCHANGED image
       ELSE Proceed(r)
    /\ UNCHANGED <<db, now, args, snap, stamp, logged>>

\* IsTeamMember of the requesting user, then the comparison with the row
\* read, which also stamps the time of completion.
CheckMember(r) ==
    /\ pc[r] = "member"
    /\ Free
    /\ LET status == input[r]["status"]
       IN  IF ~IsMember(snap[r].team, user[r])
           THEN Finish(r, "forbidden") /\ UNCHANGED <<stamp, image>>
           ELSE IF status \notin ValidStatuses \cup {Absent}
           THEN Finish(r, "invalid") /\ UNCHANGED <<stamp, image>>
           ELSE /\ stamp' = [stamp EXCEPT ![r] = 
                     IF "status" \in Changed(r) /\ status = Done THEN now ELSE Never]
                /\ IF input[r]["assignee_id"] \in Users
                   THEN Goto(r, "assignee") /\ UNCHANGED image
                   ELSE Proceed(r)
    /\ UNCHANGED <<db, now, args, snap, logged>>

\* IsTeamMember of the new assignee, for Update and for Create.
CheckAssignee(r) ==
    /\ pc[r] = "assignee"
    /\ Free
    /\ IF ~IsMember(snap[r].team, input[r]["assignee_id"])
       THEN Finish(r, "assignee_not_member") /\ UNCHANGED image
       ELSE IF op[r] = "create"
       THEN Goto(r, "insert") /\ UNCHANGED image
       ELSE Proceed(r)
    /\ UNCHANGED <<db, now, args, snap, stamp, logged>>

BeginTx(r) ==
    /\ pc[r] = "begin"
    /\ Free
    /\ Goto(r, "update")
    /\ UNCHANGED <<db, now, args, snap, stamp, image, logged>>

\* Mutant: completed_at is not among the assignments of a status change.
Patched_KeepsTime(row, r) ==
    [team |-> row.team, created_by |-> row.created_by,
     completed_at |-> row.completed_at,
     value |-> [f \in Fields |-> IF f \in Changed(r) THEN input[r][f]
                                                     ELSE row.value[f]]]

\* Mutant: every column of updatedTask is written.
Patched_WholeRow(row, r) ==
    [team |-> row.team, created_by |-> row.created_by,
     completed_at |-> IF "status" \in Changed(r) THEN stamp[r] ELSE snap[r].completed_at,
     value |-> [f \in Fields |-> IF f \in Changed(r) THEN input[r][f]
                                                     ELSE snap[r].value[f]]]

\* The row with the changed columns written; status and completed_at together.
Patched(row, r) ==
    [team |-> row.team,
     created_by |-> row.created_by,
     completed_at |-> IF "status" \in Changed(r) THEN stamp[r] ELSE row.completed_at,
     value |-> [f \in Fields |-> IF f \in Changed(r) THEN input[r][f]
                                                     ELSE row.value[f]]]

\* UPDATE tasks waits for the row.  It changes the NEWEST committed row, and
\* when that makes no difference RowsAffected is 0.
UpdateRow(r) ==
    /\ pc[r] = "update"
    /\ \A q \in Requests : HoldsRow(q) => task[q] # task[r]
    /\ image' = [image EXCEPT ![r] = Patched(tasks[task[r]], r)]
    /\ IF Patched(tasks[task[r]], r) = tasks[task[r]]
       THEN Finish(r, "task_not_found")
       ELSE Goto(r, "log")
    /\ UNCHANGED <<db, now, args, snap, stamp, logged>>

\* Mutant: the entry is inserted through r.db, outside the transaction.
LogChange_OutsideTx(r) ==
    /\ pc[r] = "log"
    /\ \E f \in Unlogged(r) :
         LET entry == [id |-> nextId, task |-> task[r], changed_by |-> user[r],
                       field_name |-> f, old_value |-> snap[r].value[f],
                       new_value |-> input[r][f]]
         IN  /\ history' = history \cup {entry}
             /\ logged' = [logged EXCEPT ![r] = @ \cup {entry}]
             /\ Goto(r, IF Unlogged(r) = {f} THEN "reload" ELSE "log")
    /\ nextId' = nextId + 1
    /\ UNCHANGED <<tasks, created, members, now, args, snap, stamp, image>>

\* Mutant: the old value is taken from the task already updated.
LogChange_OldFromImage(r) ==
    /\ pc[r] = "log"
    /\ \E f \in Unlogged(r) :
         /\ logged' = [logged EXCEPT ![r] = @ \cup
              {[id |-> nextId, task |-> task[r], changed_by |-> user[r],
                field_name |-> f, old_value |-> image[r].value[f],
                new_value |-> input[r][f]]}]
         /\ Goto(r, IF Unlogged(r) = {f} THEN "reload" ELSE "log")
    /\ nextId' = nextId + 1
    /\ UNCHANGED <<tasks, history, created, members, now, args, snap, stamp, image>>

\* One INSERT INTO task_history per change.
LogChange(r) ==
    /\ pc[r] = "log"
    /\ \E f \in Unlogged(r) :
         /\ logged' = [logged EXCEPT ![r] = @ \cup
              {[id |-> nextId, task |-> task[r], changed_by |-> user[r],
                field_name |-> f, old_value |-> snap[r].value[f],
                new_value |-> input[r][f]]}]
         /\ Goto(r, IF Unlogged(r) = {f} THEN "reload" ELSE "log")
    /\ nextId' = nextId + 1
    /\ UNCHANGED <<tasks, history, created, members, now, args, snap, stamp, image>>

\* Mutant: the row is read back through r.db, on a second connection.
Reload_ThroughPool(r) ==
    /\ pc[r] = "reload"
    /\ Free
    /\ Goto(r, "commit")
    /\ UNCHANGED <<db, now, args, snap, stamp, image, logged>>

\* findTaskByID on the transaction: its own connection, its own row.
Reload(r) ==
    /\ pc[r] = "reload"
    /\ Goto(r, "commit")
    /\ UNCHANGED <<db, now, args, snap, stamp, image, logged>>

WriteBack(r) ==
    /\ tasks' = [tasks EXCEPT ![task[r]] = image[r]]
    /\ history' = history \cup logged[r]

\* Mutant: the row is read back after the transaction.
Commit_ThenLoad(r) ==
    /\ pc[r] = "commit"
    /\ WriteBack(r)
    /\ Goto(r, "load")
    /\ UNCHANGED <<created, members, nextId, now, args, snap, stamp, image, logged>>

Commit(r) ==
    /\ pc[r] = "commit"
    /\ WriteBack(r)
    /\ Finish(r, "ok")
    /\ UNCHANGED <<created, members, nextId, now, args, snap, stamp, image, logged>>

\* COMMIT is done but its answer does not arrive.
CommitUnknown(r) ==
    /\ "commit" \in Faults
    /\ pc[r] = "commit"
    /\ WriteBack(r)
    /\ Finish(r, "error")
    /\ UNCHANGED <<created, members, nextId, now, args, snap, stamp, image, logged>>
-----------------------------------------------------------------------------
\* Bound: no more creations start than there are ids left.
Creating(r) == op[r] = "create" /\ pc[r] \in {"creator", "assignee", "insert"}
RoomForOne ==
    Cardinality({r \in Requests : Creating(r)})
        < Cardinality({t \in Tasks : tasks[t] = NoRow})

\* Create, past the checks of its arguments.
StartCreate(r, t, u, d) ==
    /\ pc[r] = "idle"
    /\ RoomForOne
    /\ op' = [op EXCEPT ![r] = "create"]
    /\ user' = [user EXCEPT ![r] = u]
    /\ input' = [input EXCEPT ![r] = d]
    /\ snap' = [snap EXCEPT ![r] = [team |-> t, created_by |-> u,
                                    completed_at |-> Never, value |-> d]]
    /\ Goto(r, "creator")
    /\ UNCHANGED <<db, now, task, stamp, image, logged>>

CheckCreator(r) ==
    /\ pc[r] = "creator"
    /\ Free
    /\ IF ~IsMember(snap[r].team, user[r]) THEN Finish(r, "forbidden")
       ELSE Goto(r, IF input[r]["assignee_id"] \in Users THEN "assignee" ELSE "insert")
    /\ UNCHANGED <<db, now, args, snap, stamp, image, logged>>

Insert(r) ==
    /\ pc[r] = "insert"
    /\ Free
    /\ \E t \in Tasks :
         /\ tasks[t] = NoRow
         /\ tasks' = [tasks EXCEPT ![t] = snap[r]]
         /\ created' = [created EXCEPT ![t] = snap[r]]
         /\ task' = [task EXCEPT ![r] = t]
    /\ Goto(r, "load")
    /\ UNCHANGED <<history, members, nextId, now, op, user, input, snap, stamp,
                   image, logged>>

\* The row as it is by now is the answer.
Load(r) ==
    /\ pc[r] = "load"
    /\ Free
    /\ image' = [image EXCEPT ![r] = tasks[task[r]]]
    /\ Finish(r, "ok")
    /\ UNCHANGED <<db, now, args, snap, stamp, logged>>
-----------------------------------------------------------------------------
\* A statement fails, a lock wait times out, or the client is gone.
Fail(r) ==
    /\ "db" \in Faults
    /\ pc[r] \notin {"idle", "answered"}
    /\ Finish(r, "error")
    /\ UNCHANGED <<db, now, args, snap, stamp, image, logged>>

\* The slot is free again.
Return(r) ==
    /\ pc[r] = "answered"
    /\ pc' = [pc EXCEPT ![r] = "idle"]
    /\ op' = [op EXCEPT ![r] = "update"]
    /\ input' = [input EXCEPT ![r] = [f \in Fields |-> Absent]]
    /\ snap' = [snap EXCEPT ![r] = NoRow]
    /\ stamp' = [stamp EXCEPT ![r] = Never]
    /\ image' = [image EXCEPT ![r] = NoRow]
    /\ logged' = [logged EXCEPT ![r] = {}]
    /\ reply' = [reply EXCEPT ![r] = "none"]
    /\ UNCHANGED <<db, now, task, user>>

\* TeamRepository.AddMember; nothing removes a member.
Join(t, u) ==
    /\ members' = members \cup {<<t, u>>}
    /\ UNCHANGED <<tasks, history, created, nextId, now, pc, args, snap, stamp, image,
                   logged, reply>>

Tick ==
    /\ now < MaxTime
    /\ now' = now + 1
    /\ UNCHANGED <<db, pc, args, snap, stamp, image, logged, reply>>

Step(r) ==
    \/ Find(r) \/ CheckMember(r) \/ CheckAssignee(r)
    \/ BeginTx(r) \/ UpdateRow(r) \/ LogChange(r) \/ Reload(r)
    \/ Commit(r) \/ CommitUnknown(r)
    \/ CheckCreator(r) \/ Insert(r) \/ Load(r)
    \/ Fail(r) \/ Return(r)

Next ==
    \/ \E r \in Requests :
         \/ \E t \in Tasks, u \in Users, i \in Inputs : StartUpdate(r, t, u, i)
         \/ \E t \in Teams, u \in Users, d \in Drafts : StartCreate(r, t, u, d)
         \/ Step(r)
    \/ \E t \in Teams, u \in Users : Join(t, u)
    \/ Tick

Spec == Init /\ [][Next]_vars

\* Goroutines run on; whoever waits for a connection or for a row lock is
\* served in turn, for database/sql and InnoDB both keep their waiters in order.
FairSpec == Spec /\ \A r \in Requests : SF_vars(Step(r))
-----------------------------------------------------------------------------
TypeOK ==
    /\ tasks \in [Tasks -> Rows \cup {NoRow}]
    /\ history \subseteq Entries
    /\ created \in [Tasks -> Rows \cup {NoRow}]
    /\ members \subseteq Teams \X Users
    /\ nextId \in Nat
    /\ now \in Nat
    /\ pc \in [Requests -> Stages]
    /\ op \in [Requests -> {"create", "update"}]
    /\ task \in [Requests -> Tasks]
    /\ user \in [Requests -> Users]
    /\ input \in [Requests -> [Fields -> Values \cup {Absent}]]
    /\ snap \in [Requests -> Rows \cup {NoRow}]
    /\ stamp \in [Requests -> {Never} \cup Nat]
    /\ image \in [Requests -> Rows \cup {NoRow}]
    /\ logged \in [Requests -> SUBSET Entries]
    /\ reply \in [Requests -> Replies]

(***************************************************************************)
(* A task has a completion time exactly when its status is done, although  *)
(* racing updates compute both from rows they read before.                 *)
(***************************************************************************)
DoneIffCompleted ==
    \A t \in Tasks :
        tasks[t] # NoRow =>
            (tasks[t].value["status"] = Done <=> tasks[t].completed_at # Never)

(***************************************************************************)
(* The history tells where each task is: the newest entry of a field holds *)
(* the value the row has.  It takes the row lock around the numbering of   *)
(* the entries, their commit together with the row, and updates that write *)
(* no column they did not record.                                          *)
(***************************************************************************)
Newest(h) ==
    \A g \in history :
        g.task = h.task /\ g.field_name = h.field_name => g.id <= h.id

HistoryMatchesRow ==
    \A h \in history : Newest(h) => h.new_value = tasks[h.task].value[h.field_name]

(***************************************************************************)
(* A column of a task never changes without an entry for that change, and  *)
(* an update never undoes a concurrent one of another field.               *)
(***************************************************************************)
ChangeRecorded(t, f) ==
    tasks[t] # NoRow /\ tasks'[t].value[f] # tasks[t].value[f] =>
        \E h \in history' \ history :
            h.task = t /\ h.field_name = f /\ h.new_value = tasks'[t].value[f]

ChangesAreRecorded == [][\A t \in Tasks, f \in Fields : ChangeRecorded(t, f)]_vars

(***************************************************************************)
(* The old value of an entry is one the field really had: the one the task *)
(* was created with, or one that an earlier entry set.  (It need not be    *)
(* the one before: a request may have read the row before another one      *)
(* changed it.)                                                            *)
(***************************************************************************)
OldValueWasReal ==
    \A h \in history :
        \/ h.old_value = created[h.task].value[h.field_name]
        \/ \E g \in history : /\ g.task = h.task /\ g.field_name = h.field_name
                              /\ g.id < h.id /\ g.new_value = h.old_value

(***************************************************************************)
(* The assignee of a task, and everyone who changed it, are members of its *)
(* team, though each was looked up some statements before the write.       *)
(***************************************************************************)
PeopleAreMembers ==
    /\ \A t \in Tasks :
         tasks[t] # NoRow =>
            /\ IsMember(tasks[t].team, tasks[t].created_by)
            /\ \/ tasks[t].value["assignee_id"] = NoOne
               \/ IsMember(tasks[t].team, tasks[t].value["assignee_id"])
    /\ \A h \in history : IsMember(tasks[h.task].team, h.changed_by)

(***************************************************************************)
(* A client whose update succeeds is shown the values it asked to change,  *)
(* not those of an update that came right after its own.                   *)
(***************************************************************************)
ReplyShowsChanges ==
    \A r \in Requests :
        reply[r] = "ok" /\ op[r] = "update" =>
            \A f \in Changed(r) : image[r].value[f] = input[r][f]

(***************************************************************************)
(* Every request is answered: no order of taking connections and row locks *)
(* leaves requests waiting on each other, though more of them wait for a   *)
(* connection than there are.                                              *)
(***************************************************************************)
EveryRequestAnswered ==
    \A r \in Requests : (pc[r] # "idle") ~> (pc[r] = "answered")

(***************************************************************************)
(* What "task not found" (domain.ErrTaskNotFound) says: a request gets that *)
(* answer when there is no such task, never for a task it found and had     *)
(* permission to change.                                                    *)
(***************************************************************************)
NotFoundMeansAbsent ==
    \A r \in Requests : reply[r] = "task_not_found" => snap[r] = NoRow
=============================================================================
