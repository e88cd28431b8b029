--------------------------- MODULE TaskStoreProofs ---------------------------
(***************************************************************************)
(* What TaskStore guarantees for every number of requests, tasks, users,   *)
(* values and connections, under every fault.                              *)
(***************************************************************************)
EXTENDS TaskStore, TLAPS

(***************************************************************************)
(* Types.  A request past FindByID has a row in hand, and its task exists. *)
(***************************************************************************)
ReadStages == {"member", "assignee", "begin", "update", "log", "reload", "commit"}

Found(r) == (op[r] = "update" /\ pc[r] \in ReadStages) \/ pc[r] = "load"

RowsInHand ==
    \A r \in Requests :
        /\ pc[r] \in ReadStages \cup {"creator", "insert"} => snap[r] \in Rows
        /\ Found(r) => tasks[task[r]] \in Rows
        /\ HoldsRow(r) => image[r] \in Rows
        /\ pc[r] \in ({"find"} \cup ReadStages) \ {"assignee"} => op[r] = "update"
        /\ pc[r] \in {"creator", "insert", "load"} => op[r] = "create"

Typed == TypeOK /\ RowsInHand

LEMMA TypeInit == Init => Typed
<1> SUFFICES ASSUME Init PROVE Typed
  OBVIOUS
<1>1. TypeOK
  BY FounderAssumption DEF Init, TypeOK, Stages, Replies, Never
<1>2. RowsInHand
  BY DEF Init, RowsInHand, Found, HoldsRow, ReadStages
<1> QED
  BY <1>1, <1>2 DEF Typed

\* What a PUT changes it takes from its body.
LEMMA ChangedValues ==
    ASSUME TypeOK, NEW r \in Requests, NEW f \in Changed(r)
    PROVE  f \in Fields /\ input[r][f] \in Values /\ input[r][f] # snap[r].value[f]
BY DEF TypeOK, Changed

LEMMA PatchedRow ==
    ASSUME TypeOK, NEW r \in Requests, NEW row \in Rows
    PROVE  /\ Patched(row, r) \in Rows
           /\ Patched(row, r).team = row.team
           /\ Patched(row, r).created_by = row.created_by
           /\ \A f \in Fields : Patched(row, r).value[f] =
                IF f \in Changed(r) THEN input[r][f] ELSE row.value[f]
           /\ Patched(row, r).completed_at =
                IF "status" \in Changed(r) THEN stamp[r] ELSE row.completed_at
<1>1. [f \in Fields |-> IF f \in Changed(r) THEN input[r][f] ELSE row.value[f]]
        \in [Fields -> Values]
  BY ChangedValues DEF Rows
<1>2. stamp[r] \in {Never} \cup Nat
  BY DEF TypeOK
<1> QED
  BY <1>1, <1>2 DEF Patched, Rows

LEMMA TypeStep == Typed /\ [Next]_vars => Typed'
<1> SUFFICES ASSUME Typed, [Next]_vars PROVE Typed'
  OBVIOUS
<1> USE DEF Typed, TypeOK, RowsInHand, Found, HoldsRow, ReadStages
<1>1. ASSUME NEW r \in Requests, NEW t \in Tasks, NEW u \in Users, NEW i \in Inputs,
             StartUpdate(r, t, u, i)
      PROVE  Typed'
  <2>1. TypeOK'
    BY <1>1, InputAssumption DEF StartUpdate, Goto, db, Stages
  <2>2. RowsInHand'
    BY <1>1, InputAssumption DEF StartUpdate, Goto, db, Stages
  <2> QED
    BY <2>1, <2>2
<1>2. ASSUME NEW r \in Requests, NEW t \in Teams, NEW u \in Users, NEW d \in Drafts,
             StartCreate(r, t, u, d)
      PROVE  Typed'
  <2>1. TypeOK'
    BY <1>2, DraftAssumption DEF StartCreate, Goto, db, Stages, Rows
  <2>2. RowsInHand'
    BY <1>2, DraftAssumption DEF StartCreate, Goto, db, Stages, Rows
  <2> QED
    BY <2>1, <2>2
<1>3. ASSUME NEW r \in Requests, Find(r)
      PROVE  Typed'
  <2>1. TypeOK'
    BY <1>3 DEF Find, Finish, Goto, db, args, Stages, Replies
  <2>2. RowsInHand'
    BY <1>3 DEF Find, Finish, Goto, db, args, Stages, Replies
  <2> QED
    BY <2>1, <2>2
<1>4. ASSUME NEW r \in Requests, CheckMember(r)
      PROVE  Typed'
  <2>1. TypeOK'
    <3>1. pc' \in [Requests -> Stages] /\ reply' \in [Requests -> Replies]
      BY <1>4 DEF CheckMember, Proceed, Finish, Goto, Stages, Replies
    <3>2. image' \in [Requests -> Rows \cup {NoRow}]
      BY <1>4 DEF CheckMember, Proceed
    <3>3. stamp' \in [Requests -> {Never} \cup Nat]
      BY <1>4 DEF CheckMember
    <3> QED
      BY <1>4, <3>1, <3>2, <3>3 DEF CheckMember, db, args
  <2>2. RowsInHand'
    BY <1>4 DEF CheckMember, Proceed, Finish, Goto, db, args, Stages, Replies
  <2> QED
    BY <2>1, <2>2
<1>5. ASSUME NEW r \in Requests, CheckAssignee(r)
      PROVE  Typed'
  <2>1. TypeOK'
    BY <1>5 DEF CheckAssignee, Proceed, Finish, Goto, db, args, Stages, Replies
  <2>2. RowsInHand'
    BY <1>5 DEF CheckAssignee, Proceed, Finish, Goto, db, args, Stages, Replies
  <2> QED
    BY <2>1, <2>2
<1>6. ASSUME NEW r \in Requests, BeginTx(r)
      PROVE  Typed'
  <2>1. TypeOK'
    BY <1>6 DEF BeginTx, Goto, db, args, Stages
  <2>2. RowsInHand'
    BY <1>6 DEF BeginTx, Goto, db, args, Stages
  <2> QED
    BY <2>1, <2>2
<1>7. ASSUME NEW r \in Requests, UpdateRow(r)
      PROVE  Typed'
  <2>1. TypeOK'
    <3>1. image' \in [Requests -> Rows \cup {NoRow}]
      BY <1>7, PatchedRow DEF UpdateRow
    <3>2. pc' \in [Requests -> Stages] /\ reply' \in [Requests -> Replies]
      BY <1>7 DEF UpdateRow, Finish, Goto, Stages, Replies
    <3> QED
      BY <1>7, <3>1, <3>2 DEF UpdateRow, db, args
  <2>2. RowsInHand'
    BY <1>7, PatchedRow DEF UpdateRow, Finish, Goto, db, args, Stages, Replies
  <2> QED
    BY <2>1, <2>2
<1>8. ASSUME NEW r \in Requests, LogChange(r)
      PROVE  Typed'
  <2>1. TypeOK'
    <3>1. PICK f \in Unlogged(r) :
            logged' = [logged EXCEPT ![r] = @ \cup
              {[id |-> nextId, task |-> task[r], changed_by |-> user[r],
                field_name |-> f, old_value |-> snap[r].value[f],
                new_value |-> input[r][f]]}]
      BY <1>8 DEF LogChange
    <3>2. f \in Fields /\ input[r][f] \in Values
      BY ChangedValues DEF Unlogged
    <3>3. snap[r].value[f] \in Values
      BY <1>8, <3>2 DEF LogChange, Rows
    <3>4. logged' \in [Requests -> SUBSET Entries]
      BY <3>1, <3>2, <3>3 DEF Entries
    <3> QED
      BY <1>8, <3>4 DEF LogChange, Goto, args, Stages
  <2>2. RowsInHand'
    BY <1>8, ChangedValues DEF LogChange, Goto, args, Stages
  <2> QED
    BY <2>1, <2>2
<1>9. ASSUME NEW r \in Requests, Reload(r)
      PROVE  Typed'
  <2>1. TypeOK'
    BY <1>9 DEF Reload, Goto, db, args, Stages
  <2>2. RowsInHand'
    BY <1>9 DEF Reload, Goto, db, args, Stages
  <2> QED
    BY <2>1, <2>2
<1>10. ASSUME NEW r \in Requests, Commit(r) \/ CommitUnknown(r)
      PROVE  Typed'
  <2>1. TypeOK'
    BY <1>10 DEF Commit, CommitUnknown, WriteBack, Finish, args, Stages, Replies
  <2>2. RowsInHand'
    BY <1>10 DEF Commit, CommitUnknown, WriteBack, Finish, args, Stages, Replies
  <2> QED
    BY <2>1, <2>2
<1>11. ASSUME NEW r \in Requests, CheckCreator(r)
      PROVE  Typed'
  <2>1. TypeOK'
    BY <1>11 DEF CheckCreator, Finish, Goto, db, args, Stages, Replies
  <2>2. RowsInHand'
    BY <1>11 DEF CheckCreator, Finish, Goto, db, args, Stages, Replies
  <2> QED
    BY <2>1, <2>2
<1>12. ASSUME NEW r \in Requests, Insert(r)
      PROVE  Typed'
  <2>1. TypeOK'
    BY <1>12 DEF Insert, Goto, Stages
  <2>2. RowsInHand'
    BY <1>12 DEF Insert, Goto, Stages
  <2> QED
    BY <2>1, <2>2
<1>13. ASSUME NEW r \in Requests, Load(r)
      PROVE  Typed'
  <2>1. TypeOK'
    BY <1>13 DEF Load, Finish, db, args, Stages, Replies
  <2>2. RowsInHand'
    BY <1>13 DEF Load, Finish, db, args, Stages, Replies
  <2> QED
    BY <2>1, <2>2
<1>14. ASSUME NEW r \in Requests, Fail(r)
      PROVE  Typed'
  <2>1. TypeOK'
    BY <1>14 DEF Fail, Finish, db, args, Stages, Replies
  <2>2. RowsInHand'
    BY <1>14 DEF Fail, Finish, db, args, Stages, Replies
  <2> QED
    BY <2>1, <2>2
<1>15. ASSUME NEW r \in Requests, Return(r)
      PROVE  Typed'
  <2>1. TypeOK'
    BY <1>15 DEF Return, db, Stages, Replies
  <2>2. RowsInHand'
    BY <1>15 DEF Return, db, Stages, Replies
  <2> QED
    BY <2>1, <2>2
<1>16. ASSUME NEW t \in Teams, NEW u \in Users, Join(t, u)
      PROVE  Typed'
  <2>1. TypeOK'
    BY <1>16 DEF Join, args
  <2>2. RowsInHand'
    BY <1>16 DEF Join, args
  <2> QED
    BY <2>1, <2>2
<1>17. ASSUME Tick
      PROVE  Typed'
  <2>1. TypeOK'
    BY <1>17 DEF Tick, db, args
  <2>2. RowsInHand'
    BY <1>17 DEF Tick, db, args
  <2> QED
    BY <2>1, <2>2
<1>18. ASSUME UNCHANGED vars
      PROVE  Typed'
  <2>1. TypeOK'
    BY <1>18 DEF vars
  <2>2. RowsInHand'
    BY <1>18 DEF vars
  <2> QED
    BY <2>1, <2>2
<1> HIDE DEF Typed, TypeOK, RowsInHand, Found, HoldsRow, ReadStages
<1> QED
  BY <1>1, <1>2, <1>3, <1>4, <1>5, <1>6, <1>7, <1>8, <1>9, <1>10, <1>11, <1>12, <1>13, <1>14, <1>15, <1>16, <1>17, <1>18
    DEF Next, Step

\* Every variable keeps its type.
THEOREM TypeCorrect == Spec => []TypeOK
<1>1. Typed => TypeOK
  BY DEF Typed
<1> QED
  BY <1>1, TypeInit, TypeStep, PTL DEF Spec

(***************************************************************************)
(* Completion.  The row a transaction prepares, the stamp it was prepared  *)
(* from and the row Create inserts all agree on whether the task is done.  *)
(***************************************************************************)
Agrees(row) == row.value["status"] = Done <=> row.completed_at # Never

CompletionInv ==
    /\ DoneIffCompleted
    /\ \A r \in Requests :
         /\ HoldsRow(r) => Agrees(image[r])
         /\ op[r] = "update" /\ pc[r] \in {"assignee", "begin", "update"}
              /\ "status" \in Changed(r)
                => (stamp[r] # Never <=> input[r]["status"] = Done)
         /\ op[r] = "create" /\ pc[r] \in {"creator", "assignee", "insert"}
                => Agrees(snap[r])

LEMMA CompletionInit == Init => CompletionInv
BY DEF Init, CompletionInv, DoneIffCompleted, HoldsRow

LEMMA CompletionStep == Typed /\ CompletionInv /\ [Next]_vars => CompletionInv'
<1> SUFFICES ASSUME Typed, CompletionInv, [Next]_vars PROVE CompletionInv'
  OBVIOUS
<1> USE DEF Typed, TypeOK, CompletionInv, HoldsRow
<1>1. ASSUME NEW r \in Requests, NEW t \in Tasks, NEW u \in Users, NEW i \in Inputs,
             StartUpdate(r, t, u, i)
      PROVE  CompletionInv'
  BY <1>1 DEF StartUpdate, Goto, db, DoneIffCompleted, Agrees, Changed
<1>2. ASSUME NEW r \in Requests, NEW t \in Teams, NEW u \in Users, NEW d \in Drafts,
             StartCreate(r, t, u, d)
      PROVE  CompletionInv'
  BY <1>2, DraftAssumption, StatusAssumption
     DEF StartCreate, Goto, db, DoneIffCompleted, Agrees, Changed
<1>3. ASSUME NEW r \in Requests,
             Find(r) \/ BeginTx(r) \/ Reload(r) \/ CheckCreator(r) \/ Load(r) \/ Fail(r)
      PROVE  CompletionInv'
  BY <1>3 DEF Find, BeginTx, Reload, CheckCreator, Load, Fail, Finish, Goto, db, args,
       DoneIffCompleted, Agrees, Changed, RowsInHand
<1>4. ASSUME NEW r \in Requests, CheckMember(r)
      PROVE  CompletionInv'
  BY <1>4 DEF CheckMember, Proceed, Finish, Goto, db, args, DoneIffCompleted, Agrees,
       Changed, RowsInHand, ReadStages, Never
<1>5. ASSUME NEW r \in Requests, CheckAssignee(r)
      PROVE  CompletionInv'
  BY <1>5 DEF CheckAssignee, Proceed, Finish, Goto, db, args, DoneIffCompleted, Agrees,
       Changed
<1>6. ASSUME NEW r \in Requests, UpdateRow(r)
      PROVE  CompletionInv'
  <2> DEFINE row == tasks[task[r]]
  <2>1. row \in Rows /\ Agrees(row)
    BY <1>6, NoRowAssumption DEF UpdateRow, RowsInHand, Found, ReadStages,
         DoneIffCompleted, Agrees
  <2>2. "status" \in Changed(r) => (stamp[r] # Never <=> input[r]["status"] = Done)
    BY <1>6 DEF UpdateRow, RowsInHand, ReadStages
  <2>3. Agrees(Patched(row, r))
    BY <2>1, <2>2, PatchedRow DEF Agrees, Fields
  <2>4. image' = [image EXCEPT ![r] = Patched(row, r)]
    BY <1>6 DEF UpdateRow
  <2> HIDE DEF row
  <2> QED
    BY <1>6, <2>3, <2>4 DEF UpdateRow, Finish, Goto, db, args, DoneIffCompleted,
         Agrees, Changed
<1>7. ASSUME NEW r \in Requests, LogChange(r)
      PROVE  CompletionInv'
  BY <1>7 DEF LogChange, Goto, args, DoneIffCompleted, Agrees, Changed
<1>8. ASSUME NEW r \in Requests, Commit(r) \/ CommitUnknown(r)
      PROVE  CompletionInv'
  BY <1>8 DEF Commit, CommitUnknown, WriteBack, Finish, args, DoneIffCompleted, Agrees,
       Changed
<1>9. ASSUME NEW r \in Requests, Insert(r)
      PROVE  CompletionInv'
  BY <1>9 DEF Insert, Goto, DoneIffCompleted, Agrees, Changed, RowsInHand
<1>10. ASSUME NEW r \in Requests, Return(r)
      PROVE  CompletionInv'
  BY <1>10 DEF Return, db, DoneIffCompleted, Agrees, Changed
<1>11. ASSUME NEW t \in Teams, NEW u \in Users, Join(t, u)
      PROVE  CompletionInv'
  BY <1>11 DEF Join, args, DoneIffCompleted, Agrees, Changed
<1>12. CASE Tick
  BY <1>12 DEF Tick, db, args, DoneIffCompleted, Agrees, Changed
<1>13. CASE UNCHANGED vars
  BY <1>13 DEF vars, DoneIffCompleted, Agrees, Changed
<1> HIDE DEF Typed, TypeOK, CompletionInv, HoldsRow
<1> QED
  BY <1>1, <1>2, <1>3, <1>4, <1>5, <1>6, <1>7, <1>8, <1>9, <1>10, <1>11, <1>12, <1>13
     DEF Next, Step

\* A task has a completion time exactly when it is done.
THEOREM Completion == Spec => []DoneIffCompleted
<1>1. CompletionInv => DoneIffCompleted
  BY DEF CompletionInv
<1>2. Init => Typed /\ CompletionInv
  BY TypeInit, CompletionInit
<1>3. Typed /\ CompletionInv /\ [Next]_vars => (Typed /\ CompletionInv)'
  BY TypeStep, CompletionStep
<1> QED
  BY <1>1, <1>2, <1>3, PTL DEF Spec

(***************************************************************************)
(* History.  Whoever holds a row numbers its entries above all those of    *)
(* the task, because the others that could number one wait for the row;    *)
(* and when it commits it has logged every column it wrote.                *)
(***************************************************************************)
OneHolder ==
    \A q, r \in Requests : HoldsRow(q) /\ HoldsRow(r) /\ task[q] = task[r] => q = r

EntriesNumbered ==
    /\ \A h \in history : h.id < nextId /\ tasks[h.task] # NoRow
    /\ \A r \in Requests : \A h \in logged[r] : h.id < nextId

LogsAreAccurate ==
    \A r \in Requests :
        /\ pc[r] \notin {"log", "reload", "commit", "answered"} => logged[r] = {}
        /\ HoldsRow(r) => \A h \in logged[r] :
             /\ h.task = task[r] /\ h.changed_by = user[r]
             /\ h.field_name \in Changed(r)
             /\ h.new_value = input[r][h.field_name]
             /\ \A g \in history : g.task = task[r] => g.id < h.id
        /\ pc[r] \in {"reload", "commit"} =>
             \A f \in Changed(r) : \E h \in logged[r] : h.field_name = f

ImagesAreAccurate ==
    \A r \in Requests : HoldsRow(r) =>
        \A f \in Fields :
            image[r].value[f] = IF f \in Changed(r) THEN input[r][f]
                                ELSE tasks[task[r]].value[f]

HistoryInv ==
    HistoryMatchesRow /\ OneHolder /\ EntriesNumbered /\ LogsAreAccurate
    /\ ImagesAreAccurate

LEMMA HistoryInit == Init => HistoryInv
BY DEF Init, HistoryInv, HistoryMatchesRow, OneHolder, EntriesNumbered, LogsAreAccurate,
       ImagesAreAccurate, HoldsRow

\* A commit turns the log of the holder into the newest entries of its row.
LEMMA CommitMatches ==
    ASSUME Typed, HistoryInv, NEW r \in Requests, pc[r] = "commit", WriteBack(r)
    PROVE  HistoryMatchesRow'
<1> SUFFICES ASSUME NEW h \in history', Newest(h)'
             PROVE  h.new_value = tasks'[h.task].value[h.field_name]
  BY DEF HistoryMatchesRow
<1>1. /\ tasks' = [tasks EXCEPT ![task[r]] = image[r]]
      /\ history' = history \cup logged[r]
  BY DEF WriteBack
<1>2. /\ task[r] \in Tasks /\ h \in Entries
      /\ history \subseteq Entries /\ logged[r] \subseteq Entries
  BY <1>1 DEF Typed, TypeOK
<1>3. HoldsRow(r)
  BY DEF HoldsRow
<1>4. CASE h \in logged[r]
  <2>1. /\ h.task = task[r] /\ h.field_name \in Changed(r)
        /\ h.new_value = input[r][h.field_name]
    BY <1>3, <1>4 DEF HistoryInv, LogsAreAccurate
  <2>2. image[r].value[h.field_name] = input[r][h.field_name]
    BY <1>3, <2>1 DEF HistoryInv, ImagesAreAccurate, Changed
  <2> QED
    BY <1>1, <1>2, <2>1, <2>2 DEF Typed, TypeOK
<1>5. CASE h \in history
  <2>1. Newest(h)
    BY <1>1 DEF Newest
  <2>2. h.new_value = tasks[h.task].value[h.field_name]
    BY <1>5, <2>1 DEF HistoryInv, HistoryMatchesRow
  <2>3. CASE h.task # task[r]
    BY <1>1, <1>2, <2>2, <2>3 DEF Typed, TypeOK, Entries
  <2>4. CASE h.task = task[r]
    <3>1. h.field_name \notin Changed(r)
      <4> SUFFICES ASSUME h.field_name \in Changed(r) PROVE FALSE
        OBVIOUS
      <4>1. PICK e \in logged[r] : e.field_name = h.field_name
        BY DEF HistoryInv, LogsAreAccurate
      <4>2. e.task = h.task /\ h.id < e.id
        BY <1>3, <1>5, <2>4 DEF HistoryInv, LogsAreAccurate
      <4>3. e.id <= h.id
        BY <1>1, <4>1, <4>2 DEF Newest
      <4> QED
        BY <1>2, <4>2, <4>3 DEF Entries
    <3>2. image[r].value[h.field_name] = tasks[task[r]].value[h.field_name]
      BY <1>2, <1>3, <3>1 DEF HistoryInv, ImagesAreAccurate, Entries
    <3> QED
      BY <1>1, <1>2, <2>2, <2>4, <3>2 DEF Typed, TypeOK
  <2> QED
    BY <2>3, <2>4
<1> QED
  BY <1>1, <1>4, <1>5

\* What a step of request r leaves alone in the other ones.
OthersKeep(r) ==
    \A q \in Requests : q # r =>
        /\ pc'[q] = pc[q] /\ task'[q] = task[q] /\ user'[q] = user[q]
        /\ input'[q] = input[q] /\ snap'[q] = snap[q] /\ image'[q] = image[q]
        /\ logged'[q] = logged[q] /\ Changed(q)' = Changed(q)

LEMMA StepKeepsOthers ==
    ASSUME Typed, NEW r \in Requests,
           \/ \E t \in Tasks, u \in Users, i \in Inputs : StartUpdate(r, t, u, i)
           \/ \E t \in Teams, u \in Users, d \in Drafts : StartCreate(r, t, u, d)
           \/ Step(r)
    PROVE  OthersKeep(r)
<1>1. \A q \in Requests : q # r =>
        /\ pc'[q] = pc[q] /\ task'[q] = task[q] /\ user'[q] = user[q]
        /\ input'[q] = input[q] /\ snap'[q] = snap[q]
  BY DEF StartUpdate, StartCreate, Step, Find, CheckMember, CheckAssignee, Proceed, BeginTx,
       UpdateRow, LogChange, Reload, Commit, CommitUnknown, CheckCreator, Insert, Load, Fail,
       Return, Finish, Goto, args, Typed, TypeOK
<1>2. \A q \in Requests : q # r => image'[q] = image[q] /\ logged'[q] = logged[q]
  BY DEF StartUpdate, StartCreate, Step, Find, CheckMember, CheckAssignee, Proceed, BeginTx,
       UpdateRow, LogChange, Reload, Commit, CommitUnknown, CheckCreator, Insert, Load, Fail,
       Return, args, Typed, TypeOK
<1> QED
  BY <1>1, <1>2 DEF OthersKeep, Changed

\* A step after which r holds no row, and which commits nothing.
LEMMA HistoryQuiet ==
    ASSUME Typed, HistoryInv, NEW r \in Requests, OthersKeep(r),
           UNCHANGED <<tasks, history, nextId>>, ~HoldsRow(r)',
           logged'[r] = {} \/ (logged'[r] = logged[r] /\ pc'[r] = "answered")
    PROVE  HistoryInv'
<1> USE DEF OthersKeep, HistoryInv, HoldsRow
<1>1. HistoryMatchesRow'
  BY DEF HistoryMatchesRow, Newest
<1>2. OneHolder'
  BY DEF OneHolder
<1>3. EntriesNumbered'
  BY DEF EntriesNumbered
<1>4. LogsAreAccurate'
  BY DEF LogsAreAccurate
<1>5. ImagesAreAccurate'
  BY DEF ImagesAreAccurate
<1> QED
  BY <1>1, <1>2, <1>3, <1>4, <1>5

LEMMA HistoryStep == Typed /\ HistoryInv /\ [Next]_vars => HistoryInv'
<1> SUFFICES ASSUME Typed, HistoryInv, [Next]_vars PROVE HistoryInv'
  OBVIOUS
<1>1. ASSUME NEW r \in Requests,
             \/ \E t \in Tasks, u \in Users, i \in Inputs : StartUpdate(r, t, u, i)
             \/ \E t \in Teams, u \in Users, d \in Drafts : StartCreate(r, t, u, d)
             \/ Find(r) \/ CheckMember(r) \/ CheckAssignee(r) \/ BeginTx(r)
             \/ CheckCreator(r)
      PROVE  HistoryInv'
  <2>1. OthersKeep(r)
    BY <1>1, StepKeepsOthers DEF Step
  <2>2. UNCHANGED <<tasks, history, nextId, logged>> /\ ~HoldsRow(r)'
    BY <1>1 DEF StartUpdate, StartCreate, Find, CheckMember, CheckAssignee, Proceed, BeginTx,
         CheckCreator, Finish, Goto, db, HoldsRow, Typed, TypeOK
  <2>3. logged[r] = {}
    BY <1>1 DEF StartUpdate, StartCreate, Find, CheckMember, CheckAssignee, BeginTx,
         CheckCreator, HistoryInv, LogsAreAccurate
  <2> QED
    BY <2>1, <2>2, <2>3, HistoryQuiet
<1>2. ASSUME NEW r \in Requests, Load(r) \/ Fail(r) \/ Return(r)
      PROVE  HistoryInv'
  <2>1. OthersKeep(r)
    BY <1>2, StepKeepsOthers DEF Step
  <2>2. UNCHANGED <<tasks, history, nextId>> /\ ~HoldsRow(r)'
    BY <1>2 DEF Load, Fail, Return, Finish, db, HoldsRow, Typed, TypeOK
  <2>3. logged'[r] = {} \/ (logged'[r] = logged[r] /\ pc'[r] = "answered")
    BY <1>2 DEF Load, Fail, Return, Finish, Typed, TypeOK
  <2> QED
    BY <2>1, <2>2, <2>3, HistoryQuiet
<1>3. ASSUME NEW r \in Requests, UpdateRow(r)
      PROVE  HistoryInv'
  <2>1. OthersKeep(r)
    BY <1>3, StepKeepsOthers DEF Step
  <2>2. /\ UNCHANGED <<tasks, history, members, nextId, task, user, input, snap, logged>>
        /\ Changed(r)' = Changed(r)
        /\ logged[r] = {}
    BY <1>3 DEF UpdateRow, db, args, Changed, HistoryInv, LogsAreAccurate
  <2>3. CASE pc'[r] = "answered"
    BY <2>1, <2>2, <2>3, HistoryQuiet DEF HoldsRow
  <2>4. CASE pc'[r] = "log"
    <3> USE DEF HistoryInv, HoldsRow, OthersKeep
    <3>1. OneHolder'
      BY <1>3, <2>1, <2>2, <2>4 DEF OneHolder, UpdateRow
    <3>2. HistoryMatchesRow' /\ EntriesNumbered'
      BY <2>2 DEF HistoryMatchesRow, Newest, EntriesNumbered
    <3>3. LogsAreAccurate'
      BY <2>1, <2>2, <2>4 DEF LogsAreAccurate
    <3>4. tasks[task[r]] \in Rows /\ image'[r] = Patched(tasks[task[r]], r)
      BY <1>3 DEF UpdateRow, Typed, TypeOK, RowsInHand, Found, ReadStages
    <3>5. \A f \in Fields : image'[r].value[f] =
            IF f \in Changed(r) THEN input[r][f] ELSE tasks[task[r]].value[f]
      BY <3>4, PatchedRow DEF Typed
    <3>6. ImagesAreAccurate'
      BY <2>1, <2>2, <2>4, <3>5 DEF ImagesAreAccurate
    <3> QED
      BY <3>1, <3>2, <3>3, <3>6
  <2> QED
    BY <1>3, <2>3, <2>4 DEF UpdateRow, Finish, Goto, Typed, TypeOK
<1>4. ASSUME NEW r \in Requests, LogChange(r)
      PROVE  HistoryInv'
  <2>1. OthersKeep(r)
    BY <1>4, StepKeepsOthers DEF Step
  <2>2. /\ UNCHANGED <<tasks, history, task, user, input, snap, image>>
        /\ Changed(r)' = Changed(r) /\ pc[r] = "log"
        /\ nextId' = nextId + 1 /\ nextId \in Nat
    BY <1>4 DEF LogChange, args, Changed, Typed, TypeOK
  <2>3. PICK f \in Unlogged(r) :
          /\ logged'[r] = logged[r] \cup
               {[id |-> nextId, task |-> task[r], changed_by |-> user[r],
                 field_name |-> f, old_value |-> snap[r].value[f],
                 new_value |-> input[r][f]]}
          /\ pc'[r] = IF Unlogged(r) = {f} THEN "reload" ELSE "log"
    BY <1>4 DEF LogChange, Goto, Typed, TypeOK
  <2>4. f \in Changed(r)
    BY DEF Unlogged
  <2>5. /\ \A h \in history : h.id \in Nat
        /\ \A q \in Requests : \A h \in logged[q] : h.id \in Nat
    BY DEF Typed, TypeOK, Entries
  <2> USE DEF HistoryInv, HoldsRow, OthersKeep
  <2>6. OneHolder'
    BY <2>1, <2>2, <2>3 DEF OneHolder
  <2>7. HistoryMatchesRow'
    BY <2>2 DEF HistoryMatchesRow, Newest
  <2>8. EntriesNumbered'
    BY <2>1, <2>2, <2>3, <2>5 DEF EntriesNumbered
  <2>9. LogsAreAccurate'
    <3>1. \A h \in logged'[r] :
            /\ h.task = task[r] /\ h.changed_by = user[r]
            /\ h.field_name \in Changed(r)
            /\ h.new_value = input[r][h.field_name]
            /\ \A g \in history : g.task = task[r] => g.id < h.id
      BY <2>2, <2>3, <2>4 DEF LogsAreAccurate, EntriesNumbered
    <3>2. pc'[r] = "reload" => \A g \in Changed(r) : \E h \in logged'[r] : h.field_name = g
      <4> SUFFICES ASSUME Unlogged(r) = {f}, NEW g \in Changed(r)
                   PROVE  \E h \in logged'[r] : h.field_name = g
        BY <2>3
      <4>1. CASE g = f
        <5> DEFINE e == [id |-> nextId, task |-> task[r], changed_by |-> user[r],
                         field_name |-> f, old_value |-> snap[r].value[f],
                         new_value |-> input[r][f]]
        <5>1. e \in logged'[r] /\ e.field_name = g
          BY <2>3, <4>1
        <5> QED
          BY <5>1
      <4>2. CASE g # f
        <5>1. PICK h \in logged[r] : h.field_name = g
          BY <4>2 DEF Unlogged
        <5> QED
          BY <2>3, <5>1
      <4> QED
        BY <4>1, <4>2
    <3> QED
      BY <2>1, <2>2, <2>3, <3>1, <3>2 DEF LogsAreAccurate
  <2>10. ImagesAreAccurate'
    BY <2>1, <2>2, <2>3 DEF ImagesAreAccurate
  <2> QED
    BY <2>6, <2>7, <2>8, <2>9, <2>10
<1>5. ASSUME NEW r \in Requests, Reload(r)
      PROVE  HistoryInv'
  <2>1. OthersKeep(r)
    BY <1>5, StepKeepsOthers DEF Step
  <2>2. /\ UNCHANGED <<tasks, history, nextId, task, user, input, snap, image, logged>>
        /\ Changed(r)' = Changed(r) /\ pc[r] = "reload" /\ pc'[r] = "commit"
    BY <1>5 DEF Reload, Goto, db, args, Changed, Typed, TypeOK
  <2> USE DEF HistoryInv, HoldsRow, OthersKeep
  <2>3. OneHolder'
    BY <2>1, <2>2 DEF OneHolder
  <2>4. HistoryMatchesRow' /\ EntriesNumbered'
    BY <2>2 DEF HistoryMatchesRow, Newest, EntriesNumbered
  <2>5. LogsAreAccurate'
    BY <2>1, <2>2 DEF LogsAreAccurate
  <2>6. ImagesAreAccurate'
    BY <2>1, <2>2 DEF ImagesAreAccurate
  <2> QED
    BY <2>3, <2>4, <2>5, <2>6
<1>6. ASSUME NEW r \in Requests, Commit(r) \/ CommitUnknown(r)
      PROVE  HistoryInv'
  <2>1. OthersKeep(r)
    BY <1>6, StepKeepsOthers DEF Step
  <2>2. /\ WriteBack(r) /\ pc[r] = "commit" /\ pc'[r] = "answered"
        /\ UNCHANGED <<nextId, logged>>
    BY <1>6 DEF Commit, CommitUnknown, Finish, Typed, TypeOK
  <2>3. HistoryMatchesRow'
    BY <2>2, CommitMatches
  <2>4. /\ HoldsRow(r)
        /\ \A q \in Requests : q # r /\ HoldsRow(q) => task[q] # task[r]
    BY <2>2 DEF HoldsRow, HistoryInv, OneHolder
  <2>5. /\ tasks' = [tasks EXCEPT ![task[r]] = image[r]]
        /\ history' = history \cup logged[r]
        /\ image[r] # NoRow
        /\ \A h \in logged[r] : h.task = task[r]
    BY <2>2, <2>4, NoRowAssumption
       DEF WriteBack, Typed, RowsInHand, HistoryInv, LogsAreAccurate
  <2> USE DEF HistoryInv, HoldsRow, OthersKeep
  <2>6. OneHolder'
    BY <2>1, <2>2 DEF OneHolder
  <2>7. EntriesNumbered'
    BY <2>2, <2>5 DEF EntriesNumbered, Typed, TypeOK, Entries, OthersKeep
  <2>8. LogsAreAccurate'
    BY <2>1, <2>2, <2>4, <2>5 DEF LogsAreAccurate
  <2>9. ImagesAreAccurate'
    BY <2>1, <2>2, <2>4, <2>5 DEF ImagesAreAccurate, Typed, TypeOK
  <2> QED
    BY <2>3, <2>6, <2>7, <2>8, <2>9
<1>7. ASSUME NEW r \in Requests, Insert(r)
      PROVE  HistoryInv'
  <2>1. OthersKeep(r)
    BY <1>7, StepKeepsOthers DEF Step
  <2>2. /\ pc[r] = "insert" /\ pc'[r] = "load" /\ logged[r] = {}
        /\ UNCHANGED <<history, nextId, logged>>
    BY <1>7 DEF Insert, Goto, Typed, TypeOK, HistoryInv, LogsAreAccurate
  <2>3. PICK t \in Tasks : tasks[t] = NoRow /\ tasks' = [tasks EXCEPT ![t] = snap[r]]
    BY <1>7 DEF Insert
  <2>4. \A u \in Tasks : tasks[u] # NoRow => tasks'[u] = tasks[u]
    BY <2>3 DEF Typed, TypeOK
  <2>5. \A h \in history : h.task \in Tasks
    BY DEF Typed, TypeOK, Entries
  <2>6. \A q \in Requests : HoldsRow(q) => task[q] \in Tasks /\ tasks[task[q]] # NoRow
    BY NoRowAssumption DEF Typed, TypeOK, RowsInHand, Found, ReadStages, HoldsRow
  <2> USE DEF HistoryInv, HoldsRow, OthersKeep
  <2>7. HistoryMatchesRow'
    BY <2>2, <2>4, <2>5 DEF HistoryMatchesRow, Newest, EntriesNumbered
  <2>8. OneHolder'
    BY <2>1, <2>2 DEF OneHolder
  <2>9. EntriesNumbered'
    BY <2>2, <2>4, <2>5 DEF EntriesNumbered
  <2>10. LogsAreAccurate'
    BY <2>1, <2>2 DEF LogsAreAccurate
  <2>11. ImagesAreAccurate'
    BY <2>1, <2>2, <2>4, <2>6 DEF ImagesAreAccurate
  <2> QED
    BY <2>7, <2>8, <2>9, <2>10, <2>11
<1>8. CASE \/ \E t \in Teams, u \in Users : Join(t, u)
           \/ Tick
           \/ UNCHANGED vars
  <2>1. UNCHANGED <<tasks, history, nextId, pc, task, user, input, snap, image, logged>>
    BY <1>8 DEF Join, Tick, vars, db, args
  <2> QED
    BY <2>1 DEF HistoryInv, HistoryMatchesRow, Newest, OneHolder, EntriesNumbered,
         LogsAreAccurate, ImagesAreAccurate, HoldsRow, Changed
<1> QED
  BY <1>1, <1>2, <1>3, <1>4, <1>5, <1>6, <1>7, <1>8 DEF Next, Step

\* The newest entry of a field always holds the value the task has.
THEOREM HistoryTellsTheRow == Spec => []HistoryMatchesRow
<1>1. HistoryInv => HistoryMatchesRow
  BY DEF HistoryInv
<1>2. Init => Typed /\ HistoryInv
  BY TypeInit, HistoryInit
<1>3. Typed /\ HistoryInv /\ [Next]_vars => (Typed /\ HistoryInv)'
  BY TypeStep, HistoryStep
<1> QED
  BY <1>1, <1>2, <1>3, PTL DEF Spec

LEMMA RecordedStep ==
    ASSUME Typed, HistoryInv, [Next]_vars, NEW t \in Tasks, NEW f \in Fields
    PROVE  ChangeRecorded(t, f)
<1>1. ASSUME NEW r \in Requests, Commit(r) \/ CommitUnknown(r)
      PROVE  ChangeRecorded(t, f)
  <2> SUFFICES ASSUME tasks'[t].value[f] # tasks[t].value[f]
               PROVE  \E h \in history' \ history :
                        /\ h.task = t /\ h.field_name = f
                        /\ h.new_value = tasks'[t].value[f]
    BY DEF ChangeRecorded
  <2>1. /\ pc[r] = "commit" /\ HoldsRow(r)
        /\ tasks' = [tasks EXCEPT ![task[r]] = image[r]]
        /\ history' = history \cup logged[r]
    BY <1>1 DEF Commit, CommitUnknown, WriteBack, HoldsRow
  <2>2. t = task[r] /\ tasks'[t] = image[r]
    BY <2>1 DEF Typed, TypeOK
  <2>3. f \in Changed(r) /\ image[r].value[f] = input[r][f]
    BY <2>1, <2>2 DEF HistoryInv, ImagesAreAccurate
  <2>4. PICK e \in logged[r] : e.field_name = f
    BY <2>1, <2>3 DEF HistoryInv, LogsAreAccurate
  <2>5. /\ e.task = t /\ e.new_value = input[r][f]
        /\ \A g \in history : g.task = t => g.id < e.id
    BY <2>1, <2>2, <2>4 DEF HistoryInv, LogsAreAccurate
  <2>6. e \in history' \ history
    BY <2>1, <2>5 DEF Typed, TypeOK, Entries
  <2> QED
    BY <2>2, <2>3, <2>4, <2>5, <2>6
<1>2. ASSUME NEW r \in Requests, Insert(r)
      PROVE  ChangeRecorded(t, f)
  BY <1>2 DEF Insert, ChangeRecorded, Typed, TypeOK
<1>3. CASE UNCHANGED tasks
  BY <1>3 DEF ChangeRecorded
<1>4. \/ \E r \in Requests : Commit(r) \/ CommitUnknown(r) \/ Insert(r)
      \/ UNCHANGED tasks
  BY DEF Next, Step, StartUpdate, StartCreate, Find, CheckMember, CheckAssignee, BeginTx,
       UpdateRow, LogChange, Reload, CheckCreator, Load, Fail, Return, Join, Tick, db, vars
<1> QED
  BY <1>1, <1>2, <1>3, <1>4

\* No column of a task changes without its entry in the history.
THEOREM ChangesRecorded == Spec => ChangesAreRecorded
<1>1. Typed /\ HistoryInv /\ [Next]_vars
        => [\A t \in Tasks, f \in Fields : ChangeRecorded(t, f)]_vars
  BY RecordedStep
<1>2. Init => Typed /\ HistoryInv
  BY TypeInit, HistoryInit
<1>3. Typed /\ HistoryInv /\ [Next]_vars => (Typed /\ HistoryInv)'
  BY TypeStep, HistoryStep
<1> QED
  BY <1>1, <1>2, <1>3, PTL DEF Spec, ChangesAreRecorded

(***************************************************************************)
(* Answers.  The image of a finished update is the row it committed.       *)
(***************************************************************************)
AnswersInv ==
    \A r \in Requests :
        /\ pc[r] # "answered" => reply[r] = "none"
        /\ reply[r] = "ok" /\ op[r] = "update" =>
             \A f \in Changed(r) : image[r].value[f] = input[r][f]

LEMMA AnswersStep ==
    Typed /\ HistoryInv /\ AnswersInv /\ [Next]_vars => AnswersInv'
<1> SUFFICES ASSUME Typed, HistoryInv, AnswersInv, [Next]_vars PROVE AnswersInv'
  OBVIOUS
<1>1. ASSUME NEW r \in Requests,
             \/ \E t \in Tasks, u \in Users, i \in Inputs : StartUpdate(r, t, u, i)
             \/ \E t \in Teams, u \in Users, d \in Drafts : StartCreate(r, t, u, d)
             \/ Step(r)
      PROVE  AnswersInv'
  <2>1. OthersKeep(r)
    BY <1>1, StepKeepsOthers
  <2>2. \A q \in Requests : q # r => reply'[q] = reply[q] /\ op'[q] = op[q]
    BY <1>1 DEF StartUpdate, StartCreate, Step, Find, CheckMember, CheckAssignee, Proceed,
         BeginTx, UpdateRow, LogChange, Reload, Commit, CommitUnknown, CheckCreator, Insert,
         Load, Fail, Return, Finish, Goto, args, Typed, TypeOK
  <2>3. pc'[r] # "answered" => reply'[r] = "none"
    BY <1>1 DEF StartUpdate, StartCreate, Step, Find, CheckMember, CheckAssignee, Proceed,
         BeginTx, UpdateRow, LogChange, Reload, Commit, CommitUnknown, CheckCreator, Insert,
         Load, Fail, Return, Finish, Goto, args, Typed, TypeOK, AnswersInv
  <2>4. CASE Proceed(r) /\ UNCHANGED <<args, snap>>
    <3>1. reply'[r] = "ok" => Changed(r)' = {}
      BY <2>4, <2>3 DEF Proceed, Finish, Goto, args, Changed, Typed, TypeOK
    <3> QED
      BY <2>1, <2>2, <2>3, <3>1 DEF AnswersInv, OthersKeep
  <2>5. CASE Commit(r)
    <3>1. \A f \in Changed(r)' : image'[r].value[f] = input'[r][f]
      BY <2>5 DEF Commit, args, Changed, HistoryInv, ImagesAreAccurate, HoldsRow
    <3> QED
      BY <2>1, <2>2, <2>3, <3>1 DEF AnswersInv, OthersKeep
  <2>6. CASE reply'[r] = "ok" => op'[r] = "create"
    BY <2>1, <2>2, <2>3, <2>6 DEF AnswersInv, OthersKeep, Typed, TypeOK
  <2>7. \/ Proceed(r) /\ UNCHANGED <<args, snap>>
        \/ Commit(r)
        \/ reply'[r] = "ok" => op'[r] = "create"
    <3>1. CASE CheckMember(r) \/ CheckAssignee(r)
      BY <3>1 DEF CheckMember, CheckAssignee, Finish, Goto, args, Typed, TypeOK, AnswersInv
    <3>2. CASE Load(r)
      BY <3>2 DEF Load, args, Typed, RowsInHand
    <3>3. CASE \/ \E t \in Tasks, u \in Users, i \in Inputs : StartUpdate(r, t, u, i)
               \/ \E t \in Teams, u \in Users, d \in Drafts : StartCreate(r, t, u, d)
               \/ Find(r) \/ BeginTx(r) \/ UpdateRow(r) \/ LogChange(r) \/ Reload(r)
      BY <3>3 DEF StartUpdate, StartCreate, Find, BeginTx, UpdateRow, LogChange, Reload,
           Finish, Goto, Typed, TypeOK, AnswersInv
    <3>4. CASE CommitUnknown(r) \/ CheckCreator(r) \/ Insert(r) \/ Fail(r) \/ Return(r)
      BY <3>4 DEF CommitUnknown, CheckCreator, Insert, Fail, Return, Finish, Goto, Typed,
           TypeOK, AnswersInv
    <3> QED
      BY <1>1, <3>1, <3>2, <3>3, <3>4 DEF Step
  <2> QED
    BY <2>4, <2>5, <2>6, <2>7
<1>2. CASE \/ \E t \in Teams, u \in Users : Join(t, u)
           \/ Tick
           \/ UNCHANGED vars
  BY <1>2 DEF Join, Tick, vars, db, args, AnswersInv, Changed
<1> QED
  BY <1>1, <1>2 DEF Next

\* The client of a successful update is shown what it changed.
THEOREM RepliesShowChanges == Spec => []ReplyShowsChanges
<1>1. AnswersInv => ReplyShowsChanges
  BY DEF AnswersInv, ReplyShowsChanges
<1>2. Init => Typed /\ HistoryInv /\ AnswersInv
  <2>1. Init => AnswersInv
    BY DEF Init, AnswersInv
  <2> QED
    BY <2>1, TypeInit, HistoryInit
<1>3. Typed /\ HistoryInv /\ AnswersInv /\ [Next]_vars
        => (Typed /\ HistoryInv /\ AnswersInv)'
  BY TypeStep, HistoryStep, AnswersStep
<1> QED
  BY <1>1, <1>2, <1>3, PTL DEF Spec

(***************************************************************************)
(* People.  Nothing removes a member and no update moves a task to another *)
(* team, so who was looked up in the row read is still a member when the   *)
(* write comes.                                                            *)
(***************************************************************************)
Writing == {"begin", "update", "log", "reload", "commit"}

Updating(r) == op[r] = "update" /\ pc[r] \in ReadStages

RowInv(t) ==
    tasks[t] # NoRow =>
        /\ IsMember(tasks[t].team, tasks[t].created_by)
        /\ \/ tasks[t].value["assignee_id"] = NoOne
           \/ IsMember(tasks[t].team, tasks[t].value["assignee_id"])

AssigneeChecked(r) ==
    input[r]["assignee_id"] \in Users => IsMember(snap[r].team, input[r]["assignee_id"])

RequestInv(r) ==
    /\ input[r]["assignee_id"] \in Users \cup {NoOne, Absent}
    /\ Updating(r) => snap[r].team = tasks[task[r]].team
    /\ Updating(r) /\ pc[r] # "member" => IsMember(snap[r].team, user[r])
    /\ pc[r] \in Writing \cup {"insert"} => AssigneeChecked(r)
    /\ HoldsRow(r) => /\ image[r].team = tasks[task[r]].team
                      /\ image[r].created_by = tasks[task[r]].created_by
    /\ Creating(r) => /\ snap[r].created_by = user[r]
                      /\ snap[r].value = input[r]
    /\ Creating(r) /\ pc[r] # "creator" => IsMember(snap[r].team, user[r])

PeopleInv ==
    /\ \A t \in Tasks : RowInv(t)
    /\ \A h \in history : IsMember(tasks[h.task].team, h.changed_by)
    /\ \A r \in Requests : RequestInv(r)

LEMMA PeopleInit == Init => PeopleInv
BY FounderAssumption
   DEF Init, PeopleInv, RowInv, RequestInv, Updating, ReadStages, Writing, AssigneeChecked,
       HoldsRow, Creating, Fields

\* What every step does to the rows there are.
RowsStay ==
    \A t \in Tasks : tasks[t] # NoRow =>
        /\ tasks'[t] # NoRow
        /\ tasks'[t].team = tasks[t].team
        /\ tasks'[t].created_by = tasks[t].created_by

LEMMA RequestInvKept ==
    ASSUME Typed, NEW r \in Requests, RequestInv(r), RowsStay, members \subseteq members',
           UNCHANGED <<pc[r], op[r], task[r], user[r], input[r], snap[r], image[r]>>
    PROVE  RequestInv(r)'
<1>1. Updating(r) \/ HoldsRow(r) => task[r] \in Tasks /\ tasks[task[r]] # NoRow
  BY NoRowAssumption
     DEF Typed, TypeOK, RowsInHand, Found, Updating, HoldsRow, ReadStages
<1>2. Updating(r) \/ HoldsRow(r) =>
        /\ tasks'[task[r]].team = tasks[task[r]].team
        /\ tasks'[task[r]].created_by = tasks[task[r]].created_by
  BY <1>1 DEF RowsStay
<1> QED
  BY <1>2 DEF RequestInv, Updating, HoldsRow, Creating, AssigneeChecked, IsMember

\* A step that writes no row and no entry.
LEMMA PeopleQuiet ==
    ASSUME Typed, PeopleInv, NEW r \in Requests, OthersKeep(r), RequestInv(r)',
           UNCHANGED <<tasks, history, members>>,
           \A q \in Requests : q # r => op'[q] = op[q]
    PROVE  PeopleInv'
<1>1. \A q \in Requests : q # r => RequestInv(q)'
  BY RequestInvKept DEF OthersKeep, PeopleInv, RowsStay
<1>2. \A t \in Tasks : RowInv(t)'
  BY DEF PeopleInv, RowInv, IsMember
<1>3. \A h \in history' : IsMember(tasks[h.task].team, h.changed_by)'
  BY DEF PeopleInv, IsMember
<1> QED
  BY <1>1, <1>2, <1>3 DEF PeopleInv

\* The row a transaction is about to commit.
LEMMA CommitKeepsPeople ==
    ASSUME Typed, HistoryInv, PeopleInv, NEW r \in Requests, pc[r] = "commit", WriteBack(r),
           UNCHANGED members, OthersKeep(r), pc'[r] = "answered",
           UNCHANGED <<op, input>>
    PROVE  PeopleInv'
<1>1. /\ HoldsRow(r) /\ Updating(r) /\ RequestInv(r)
      /\ task[r] \in Tasks /\ tasks[task[r]] \in Rows /\ image[r] \in Rows
      /\ tasks \in [Tasks -> Rows \cup {NoRow}] /\ history \subseteq Entries
  BY DEF HoldsRow, Updating, ReadStages, Typed, TypeOK, RowsInHand, Found, PeopleInv
<1>2. /\ tasks' = [tasks EXCEPT ![task[r]] = image[r]]
      /\ history' = history \cup logged[r]
  BY DEF WriteBack
<1>3. RowsStay
  BY <1>1, <1>2, NoRowAssumption DEF RowsStay, RequestInv
<1>4. ASSUME NEW t \in Tasks, t = task[r] PROVE RowInv(t)'
  <2>1. tasks'[t] = image[r]
    BY <1>1, <1>2, <1>4
  <2>2. IsMember(image[r].team, image[r].created_by)
    BY <1>1, NoRowAssumption DEF RequestInv, PeopleInv, RowInv
  <2>3. \/ image[r].value["assignee_id"] = NoOne
        \/ IsMember(image[r].team, image[r].value["assignee_id"])
    <3>1. CASE "assignee_id" \in Changed(r)
      <4>1. /\ image[r].value["assignee_id"] = input[r]["assignee_id"]
            /\ input[r]["assignee_id"] \in Users \cup {NoOne}
        BY <1>1, <3>1 DEF HistoryInv, ImagesAreAccurate, Changed, RequestInv
      <4>2. input[r]["assignee_id"] \in Users => IsMember(image[r].team, input[r]["assignee_id"])
        BY <1>1 DEF RequestInv, AssigneeChecked, Writing, HoldsRow
      <4> QED
        BY <4>1, <4>2
    <3>2. CASE "assignee_id" \notin Changed(r)
      <4>1. image[r].value["assignee_id"] = tasks[task[r]].value["assignee_id"]
        BY <1>1, <3>2 DEF HistoryInv, ImagesAreAccurate, Fields
      <4> QED
        BY <1>1, <4>1, NoRowAssumption DEF RequestInv, PeopleInv, RowInv
    <3> QED
      BY <3>1, <3>2
  <2> QED
    BY <2>1, <2>2, <2>3 DEF RowInv, IsMember
<1>5. \A t \in Tasks : RowInv(t)'
  <2>1. \A t \in Tasks : t # task[r] => tasks'[t] = tasks[t]
    BY <1>1, <1>2
  <2> QED
    BY <1>4, <2>1 DEF PeopleInv, RowInv, IsMember
<1>6. \A h \in history' : IsMember(tasks[h.task].team, h.changed_by)'
  <2> SUFFICES ASSUME NEW h \in history'
               PROVE  <<tasks'[h.task].team, h.changed_by>> \in members
    BY DEF IsMember
  <2>1. CASE h \in history
    <3>1. h.task \in Tasks /\ tasks[h.task] # NoRow
      BY <1>1, <2>1 DEF HistoryInv, EntriesNumbered, Entries
    <3> QED
      BY <1>3, <2>1, <3>1 DEF RowsStay, PeopleInv, IsMember
  <2>2. CASE h \in logged[r]
    <3>1. h.task = task[r] /\ h.changed_by = user[r]
      BY <1>1, <2>2 DEF HistoryInv, LogsAreAccurate
    <3>2. tasks'[task[r]].team = snap[r].team
      BY <1>1, <1>3, NoRowAssumption DEF RowsStay, RequestInv
    <3> QED
      BY <1>1, <3>1, <3>2 DEF RequestInv, IsMember
  <2> QED
    BY <1>2, <2>1, <2>2
<1>7. \A q \in Requests : q # r => RequestInv(q)'
  BY <1>3, RequestInvKept DEF OthersKeep, PeopleInv
<1>8. RequestInv(r)'
  BY <1>1 DEF RequestInv, Updating, HoldsRow, Creating, Writing, ReadStages
<1> QED
  BY <1>5, <1>6, <1>7, <1>8 DEF PeopleInv

LEMMA OpsKept ==
    ASSUME Typed, NEW r \in Requests,
           \/ \E t \in Tasks, u \in Users, i \in Inputs : StartUpdate(r, t, u, i)
           \/ \E t \in Teams, u \in Users, d \in Drafts : StartCreate(r, t, u, d)
           \/ Step(r)
    PROVE  \A q \in Requests : q # r => op'[q] = op[q]
BY DEF StartUpdate, StartCreate, Step, Find, CheckMember, CheckAssignee, BeginTx, UpdateRow,
     LogChange, Reload, Commit, CommitUnknown, CheckCreator, Insert, Load, Fail, Return,
     args, Typed, TypeOK

LEMMA PeopleStep == Typed /\ HistoryInv /\ PeopleInv /\ [Next]_vars => PeopleInv'
<1> SUFFICES ASSUME Typed, HistoryInv, PeopleInv, [Next]_vars PROVE PeopleInv'
  OBVIOUS
<1>1. ASSUME NEW r \in Requests,
             \/ \E t \in Tasks, u \in Users, i \in Inputs : StartUpdate(r, t, u, i)
             \/ \E t \in Teams, u \in Users, d \in Drafts : StartCreate(r, t, u, d)
             \/ Step(r)
      PROVE  OthersKeep(r) /\ \A q \in Requests : q # r => op'[q] = op[q]
  BY <1>1, StepKeepsOthers, OpsKept
<1>2. ASSUME NEW r \in Requests PROVE RequestInv(r)
  BY DEF PeopleInv
<1>3. ASSUME NEW r \in Requests, NEW t \in Tasks, NEW u \in Users, NEW i \in Inputs,
             StartUpdate(r, t, u, i)
      PROVE  PeopleInv'
  <2>1. RequestInv(r)'
    BY <1>3, InputAssumption
       DEF StartUpdate, Goto, Typed, TypeOK, RequestInv, Updating, Creating, HoldsRow,
           ReadStages, Writing, Fields
  <2> QED
    BY <1>1, <1>3, <2>1, PeopleQuiet DEF StartUpdate, db
<1>4. ASSUME NEW r \in Requests, NEW t \in Teams, NEW u \in Users, NEW d \in Drafts,
             StartCreate(r, t, u, d)
      PROVE  PeopleInv'
  <2>1. RequestInv(r)'
    BY <1>4, DraftAssumption
       DEF StartCreate, Goto, Typed, TypeOK, RequestInv, Updating, Creating, HoldsRow,
           ReadStages, Writing, Fields
  <2> QED
    BY <1>1, <1>4, <2>1, PeopleQuiet DEF StartCreate, db
<1>5. ASSUME NEW r \in Requests, Find(r)
      PROVE  PeopleInv'
  <2>1. op[r] = "update" /\ pc'[r] \in {"answered", "member"}
    BY <1>5 DEF Find, Finish, Goto, Typed, TypeOK, RowsInHand
  <2>2. snap'[r] = tasks[task[r]]
    BY <1>5 DEF Find, Typed, TypeOK
  <2>3. UNCHANGED <<tasks, history, members, op, task, user, input>>
    BY <1>5 DEF Find, db, args
  <2>4. RequestInv(r)'
    BY <1>2, <2>1, <2>2, <2>3
       DEF RequestInv, Updating, Creating, HoldsRow, Writing, ReadStages
  <2> QED
    BY <1>1, <1>5, <2>3, <2>4, PeopleQuiet DEF Step
<1>6. ASSUME NEW r \in Requests, CheckMember(r)
      PROVE  PeopleInv'
  <2>1. op[r] = "update" /\ Updating(r) /\ pc[r] = "member"
    BY <1>6 DEF CheckMember, Typed, RowsInHand, Updating, ReadStages
  <2>2. pc'[r] \in {"answered", "assignee", "begin"}
    BY <1>6 DEF CheckMember, Proceed, Finish, Goto, Typed, TypeOK
  <2>3. pc'[r] # "answered" => IsMember(snap[r].team, user[r])
    BY <1>6 DEF CheckMember, Finish, Typed, TypeOK
  <2>4. pc'[r] = "begin" => input[r]["assignee_id"] \notin Users
    BY <1>6 DEF CheckMember, Finish, Goto, Typed, TypeOK
  <2>5. UNCHANGED <<tasks, history, members, op, task, user, input, snap>>
    BY <1>6 DEF CheckMember, db, args
  <2>6. RequestInv(r)'
    BY <1>2, <2>1, <2>2, <2>3, <2>4, <2>5
       DEF RequestInv, Updating, Creating, HoldsRow, Writing, AssigneeChecked, IsMember,
           ReadStages
  <2> QED
    BY <1>1, <1>6, <2>5, <2>6, PeopleQuiet DEF Step
<1>7. ASSUME NEW r \in Requests, CheckAssignee(r)
      PROVE  PeopleInv'
  <2>1. pc[r] = "assignee" /\ pc'[r] \in {"answered", "begin", "insert"}
    BY <1>7 DEF CheckAssignee, Proceed, Finish, Goto, Typed, TypeOK
  <2>2. pc'[r] # "answered" => IsMember(snap[r].team, input[r]["assignee_id"])
    BY <1>7 DEF CheckAssignee, Finish, Typed, TypeOK
  <2>3. /\ pc'[r] = "begin" => op[r] = "update"
        /\ pc'[r] = "insert" => op[r] = "create"
    BY <1>7 DEF CheckAssignee, Proceed, Finish, Goto, Typed, TypeOK
  <2>4. UNCHANGED <<tasks, history, members, op, task, user, input, snap>>
    BY <1>7 DEF CheckAssignee, db, args
  <2>5. RequestInv(r)'
    BY <1>2, <2>1, <2>2, <2>3, <2>4
       DEF RequestInv, Updating, Creating, HoldsRow, Writing, AssigneeChecked, IsMember,
           ReadStages
  <2> QED
    BY <1>1, <1>7, <2>4, <2>5, PeopleQuiet DEF Step
<1>8. ASSUME NEW r \in Requests,
             BeginTx(r) \/ LogChange(r) \/ Reload(r) \/ Fail(r) \/ Return(r) \/ Load(r)
      PROVE  PeopleInv'
  <2>1. RequestInv(r)'
    BY <1>2, <1>8
       DEF BeginTx, LogChange, Reload, Fail, Return, Load, Finish, Goto, args, db, Typed,
           TypeOK, RequestInv, Updating, Creating, HoldsRow, Writing, ReadStages,
           AssigneeChecked, IsMember, Fields
  <2> QED
    BY <1>1, <1>8, <2>1, PeopleQuiet
       DEF BeginTx, LogChange, Reload, Fail, Return, Load, db, Step
<1>9. ASSUME NEW r \in Requests, UpdateRow(r)
      PROVE  PeopleInv'
  <2>1. pc[r] = "update" /\ pc'[r] \in {"answered", "log"} /\ op[r] = "update"
    BY <1>9 DEF UpdateRow, Finish, Goto, Typed, TypeOK, RowsInHand, ReadStages
  <2>2. tasks[task[r]] \in Rows
    BY <2>1 DEF Typed, RowsInHand, Found, ReadStages
  <2>3. /\ image'[r].team = tasks[task[r]].team
        /\ image'[r].created_by = tasks[task[r]].created_by
    BY <1>9, <2>2, PatchedRow DEF UpdateRow, Typed, TypeOK
  <2>4. UNCHANGED <<tasks, history, members, op, task, user, input, snap>>
    BY <1>9 DEF UpdateRow, db, args
  <2>5. RequestInv(r)'
    BY <1>2, <2>1, <2>3, <2>4
       DEF RequestInv, Updating, Creating, HoldsRow, Writing, AssigneeChecked, IsMember,
           ReadStages
  <2> QED
    BY <1>1, <1>9, <2>4, <2>5, PeopleQuiet DEF Step
<1>10. ASSUME NEW r \in Requests, Commit(r) \/ CommitUnknown(r)
      PROVE  PeopleInv'
  <2>1. /\ pc[r] = "commit" /\ WriteBack(r) /\ pc'[r] = "answered"
        /\ UNCHANGED <<members, op, input>>
    BY <1>10 DEF Commit, CommitUnknown, Finish, args, Typed, TypeOK
  <2> QED
    BY <1>1, <1>10, <2>1, CommitKeepsPeople DEF Step
<1>11. ASSUME NEW r \in Requests, CheckCreator(r)
      PROVE  PeopleInv'
  <2>1. /\ pc[r] = "creator" /\ pc'[r] \in {"answered", "assignee", "insert"}
        /\ op[r] = "create"
    BY <1>11 DEF CheckCreator, Finish, Goto, Typed, TypeOK, RowsInHand
  <2>2. pc'[r] # "answered" => IsMember(snap[r].team, user[r])
    BY <1>11 DEF CheckCreator, Finish, Typed, TypeOK
  <2>3. pc'[r] = "insert" => input[r]["assignee_id"] \notin Users
    BY <1>11 DEF CheckCreator, Finish, Goto, Typed, TypeOK
  <2>4. UNCHANGED <<tasks, history, members, op, task, user, input, snap>>
    BY <1>11 DEF CheckCreator, db, args
  <2>5. RequestInv(r)'
    BY <1>2, <2>1, <2>2, <2>3, <2>4
       DEF RequestInv, Updating, Creating, HoldsRow, Writing, AssigneeChecked, IsMember
  <2> QED
    BY <1>1, <1>11, <2>4, <2>5, PeopleQuiet DEF Step
<1>12. ASSUME NEW r \in Requests, Insert(r)
      PROVE  PeopleInv'
  <2>1. /\ pc[r] = "insert" /\ op[r] = "create" /\ Creating(r) /\ pc'[r] = "load"
        /\ snap[r] \in Rows /\ tasks \in [Tasks -> Rows \cup {NoRow}]
    BY <1>12 DEF Insert, Goto, Typed, TypeOK, RowsInHand, Creating
  <2>2. PICK t \in Tasks : tasks[t] = NoRow /\ tasks' = [tasks EXCEPT ![t] = snap[r]]
    BY <1>12 DEF Insert
  <2>3. UNCHANGED <<history, members, op, user, input, snap>>
    BY <1>12 DEF Insert
  <2>4. /\ \A x \in Tasks : x # t => tasks'[x] = tasks[x]
        /\ tasks'[t] = snap[r]
    BY <2>1, <2>2
  <2>5. RowsStay
    BY <2>2, <2>4 DEF RowsStay
  <2>6. RowInv(t)'
    <3>1. IsMember(snap[r].team, snap[r].created_by)
      BY <1>2, <2>1 DEF RequestInv
    <3>2. /\ snap[r].value["assignee_id"] = input[r]["assignee_id"]
          /\ snap[r].value["assignee_id"] \in Values
      BY <1>2, <2>1 DEF RequestInv, Rows, Fields
    <3>3. snap[r].value["assignee_id"] \in Users \cup {NoOne}
      BY <1>2, <3>2, AbsentAssumption DEF RequestInv
    <3>4. snap[r].value["assignee_id"] \in Users =>
            IsMember(snap[r].team, snap[r].value["assignee_id"])
      BY <1>2, <2>1, <3>2 DEF RequestInv, AssigneeChecked
    <3> QED
      BY <2>3, <2>4, <3>1, <3>3, <3>4 DEF RowInv, IsMember
  <2>7. \A x \in Tasks : RowInv(x)'
    <3>1. ASSUME NEW x \in Tasks, x # t PROVE RowInv(x)'
      BY <2>3, <2>4, <3>1 DEF PeopleInv, RowInv, IsMember
    <3> QED
      BY <2>6, <3>1
  <2>8. \A h \in history' : IsMember(tasks[h.task].team, h.changed_by)'
    <3> SUFFICES ASSUME NEW h \in history
                 PROVE  <<tasks'[h.task].team, h.changed_by>> \in members
      BY <2>3 DEF IsMember
    <3>1. h.task \in Tasks /\ tasks[h.task] # NoRow
      BY DEF HistoryInv, EntriesNumbered, Typed, TypeOK, Entries
    <3> QED
      BY <2>5, <3>1 DEF RowsStay, PeopleInv, IsMember
  <2>9. \A q \in Requests : q # r => RequestInv(q)'
    BY <1>1, <1>2, <1>12, <2>3, <2>5, RequestInvKept DEF OthersKeep, Step
  <2>10. RequestInv(r)'
    BY <1>2, <2>1, <2>3 DEF RequestInv, Updating, HoldsRow, Creating, Writing, ReadStages
  <2> QED
    BY <2>7, <2>8, <2>9, <2>10 DEF PeopleInv
<1>13. CASE \/ \E t \in Teams, u \in Users : Join(t, u)
            \/ Tick
            \/ UNCHANGED vars
  <2>1. /\ UNCHANGED <<tasks, history, pc, op, task, user, input, snap, image>>
        /\ members \subseteq members'
    BY <1>13 DEF Join, Tick, vars, db, args
  <2>2. \A q \in Requests : RequestInv(q)'
    BY <1>2, <2>1, RequestInvKept DEF RowsStay
  <2>3. \A t \in Tasks : RowInv(t)'
    BY <2>1 DEF PeopleInv, RowInv, IsMember
  <2>4. \A h \in history' : IsMember(tasks[h.task].team, h.changed_by)'
    BY <2>1 DEF PeopleInv, IsMember
  <2> QED
    BY <2>2, <2>3, <2>4 DEF PeopleInv
<1> QED
  BY <1>3, <1>4, <1>5, <1>6, <1>7, <1>8, <1>9, <1>10, <1>11, <1>12, <1>13 DEF Next, Step

\* Assignees and authors of changes are members when the write is done.
THEOREM PeopleStayMembers == Spec => []PeopleAreMembers
<1>1. PeopleInv => PeopleAreMembers
  BY DEF PeopleInv, RowInv, PeopleAreMembers
<1>2. Init => Typed /\ HistoryInv /\ PeopleInv
  BY TypeInit, HistoryInit, PeopleInit
<1>3. Typed /\ HistoryInv /\ PeopleInv /\ [Next]_vars
        => (Typed /\ HistoryInv /\ PeopleInv)'
  BY TypeStep, HistoryStep, PeopleStep
<1> QED
  BY <1>1, <1>2, <1>3, PTL DEF Spec

(***************************************************************************)
(* Old values.  What a request has read, however long ago, is a value the  *)
(* field really had.  That this also holds of the row itself spares the    *)
(* argument a newest entry.                                                *)
(***************************************************************************)
OfField(h, t, f) == h.task = t /\ h.field_name = f

WasSet(t, f, v) == \E g \in history : OfField(g, t, f) /\ g.new_value = v

WasReal(t, f, v) == created[t].value[f] = v \/ WasSet(t, f, v)

LogOf(r) ==
    /\ \A h \in logged[r] : h.old_value = snap[r].value[h.field_name]
    /\ \A g, h \in logged[r] : g.field_name = h.field_name => g = h

OldValuesInv ==
    /\ OldValueWasReal
    /\ \A t \in Tasks : tasks[t] # NoRow =>
         \A f \in Fields : WasReal(t, f, tasks[t].value[f])
    /\ \A r \in Requests : Updating(r) =>
         \A f \in Fields : WasReal(task[r], f, snap[r].value[f])
    /\ \A r \in Requests : HoldsRow(r) => LogOf(r)

LEMMA OldValuesInit == Init => OldValuesInv
BY DEF Init, OldValuesInv, OldValueWasReal, Updating, ReadStages, HoldsRow

LEMMA OldValuesQuiet ==
    ASSUME OldValuesInv, Typed, NEW r \in Requests, OthersKeep(r),
           UNCHANGED <<tasks, history, created>>,
           \A q \in Requests : q # r => op'[q] = op[q],
           Updating(r)' => \A f \in Fields : WasReal(task[r], f, snap[r].value[f])',
           HoldsRow(r)' => LogOf(r)'
    PROVE  OldValuesInv'
<1>1. OldValueWasReal'
  BY DEF OldValuesInv, OldValueWasReal
<1>2. \A t \in Tasks : tasks'[t] # NoRow => \A f \in Fields : WasReal(t, f, tasks[t].value[f])'
  BY DEF OldValuesInv, WasReal, WasSet
<1>3. \A q \in Requests : Updating(q)' => \A f \in Fields : WasReal(task[q], f, snap[q].value[f])'
  BY DEF OldValuesInv, OthersKeep, Updating, WasReal, WasSet
<1>4. \A q \in Requests : HoldsRow(q)' => LogOf(q)'
  BY DEF OldValuesInv, OthersKeep, HoldsRow, LogOf
<1> QED
  BY <1>1, <1>2, <1>3, <1>4 DEF OldValuesInv

\* A commit takes no entry out of the history.
LEMMA CommitKeepsReal ==
    ASSUME NEW r \in Requests, WriteBack(r), UNCHANGED created,
           NEW t \in Tasks, NEW f \in Fields, NEW v, WasReal(t, f, v)
    PROVE  WasReal(t, f, v)'
BY DEF WriteBack, WasReal, WasSet, OfField

LEMMA CommitKeepsOldValues ==
    ASSUME Typed, HistoryInv, OldValuesInv, NEW r \in Requests, pc[r] = "commit",
           WriteBack(r), UNCHANGED created, OthersKeep(r), pc'[r] = "answered",
           \A q \in Requests : q # r => op'[q] = op[q]
    PROVE  OldValuesInv'
<1>1. /\ tasks' = [tasks EXCEPT ![task[r]] = image[r]]
      /\ history' = history \cup logged[r] /\ HoldsRow(r) /\ Updating(r)
      /\ task[r] \in Tasks /\ tasks[task[r]] \in Rows
      /\ tasks \in [Tasks -> Rows \cup {NoRow}]
      /\ \A h \in history \cup logged[r] : h \in Entries /\ h.id \in Nat
  BY DEF WriteBack, HoldsRow, Updating, ReadStages, Found, Typed, TypeOK, RowsInHand, Entries
<1>2. /\ \A f \in Fields : WasReal(task[r], f, snap[r].value[f])
      /\ LogOf(r)
  BY <1>1 DEF OldValuesInv
<1>3. \A h \in logged[r] :
        /\ h.task = task[r] /\ h.field_name \in Changed(r)
        /\ h.new_value = input[r][h.field_name]
        /\ \A g \in history : g.task = task[r] => g.id < h.id
  BY <1>1 DEF HistoryInv, LogsAreAccurate
<1>4. ASSUME NEW h \in history'
      PROVE  \/ h.old_value = created'[h.task].value[h.field_name]
             \/ \E g \in history' : /\ g.task = h.task /\ g.field_name = h.field_name
                                    /\ g.id < h.id /\ g.new_value = h.old_value
  <2>1. CASE h \in history
    BY <1>1, <2>1 DEF OldValuesInv, OldValueWasReal
  <2>2. CASE h \in logged[r]
    <3>1. /\ h.field_name \in Fields /\ h.task = task[r]
          /\ h.old_value = snap[r].value[h.field_name]
      BY <1>1, <1>2, <1>3, <2>2 DEF Entries, LogOf
    <3>2. WasReal(task[r], h.field_name, h.old_value)
      BY <1>2, <3>1
    <3> QED
      BY <1>1, <1>3, <2>2, <3>1, <3>2 DEF WasReal, WasSet, OfField
  <2> QED
    BY <1>1, <2>1, <2>2
<1>5. ASSUME NEW t \in Tasks, NEW f \in Fields, tasks'[t] # NoRow, NEW v, v = tasks'[t].value[f]
      PROVE  WasReal(t, f, v)'
  <2>1. CASE t # task[r]
    <3>1. tasks'[t] = tasks[t]
      BY <1>1, <2>1
    <3>2. WasReal(t, f, v)
      BY <1>5, <3>1 DEF OldValuesInv
    <3> QED
      BY <1>2, <3>2, CommitKeepsReal
  <2>2. CASE t = task[r] /\ f \notin Changed(r)
    <3>1. v = tasks[t].value[f]
      BY <1>1, <1>5, <2>2 DEF HistoryInv, ImagesAreAccurate
    <3>2. WasReal(t, f, v)
      BY <1>1, <2>2, <3>1, NoRowAssumption DEF OldValuesInv
    <3> QED
      BY <1>2, <3>2, CommitKeepsReal
  <2>3. CASE t = task[r] /\ f \in Changed(r)
    <3>1. v = input[r][f]
      BY <1>1, <1>5, <2>3 DEF HistoryInv, ImagesAreAccurate
    <3>2. PICK e \in logged[r] : e.field_name = f
      BY <2>3 DEF HistoryInv, LogsAreAccurate
    <3> QED
      BY <1>1, <1>3, <2>3, <3>1, <3>2 DEF WasReal, WasSet, OfField
  <2> QED
    BY <2>1, <2>2, <2>3
<1>6. ASSUME NEW q \in Requests, q # r, Updating(q)', NEW f \in Fields,
             NEW t, t = task'[q], NEW v, v = snap'[q].value[f]
      PROVE  WasReal(t, f, v)'
  <2>1. Updating(q) /\ t = task[q] /\ v = snap[q].value[f] /\ t \in Tasks
    BY <1>6 DEF Updating, OthersKeep, Typed, TypeOK
  <2>2. WasReal(t, f, v)
    BY <2>1 DEF OldValuesInv
  <2> QED
    BY <1>2, <2>1, <2>2, CommitKeepsReal
<1>7. OldValueWasReal'
  BY <1>4 DEF OldValueWasReal
<1>8. \A t \in Tasks : tasks'[t] # NoRow => \A f \in Fields : WasReal(t, f, tasks[t].value[f])'
  BY <1>5 DEF WasReal, WasSet
<1>9. \A q \in Requests : Updating(q)' => \A f \in Fields : WasReal(task[q], f, snap[q].value[f])'
  <2> SUFFICES ASSUME NEW q \in Requests, Updating(q)', NEW f \in Fields
               PROVE  WasReal(task[q], f, snap[q].value[f])'
    OBVIOUS
  <2>1. q # r
    BY DEF Updating, ReadStages
  <2> QED
    BY <1>6, <2>1 DEF WasReal, WasSet
<1>10. \A q \in Requests : HoldsRow(q)' => LogOf(q)'
  BY DEF OldValuesInv, OthersKeep, HoldsRow, LogOf
<1> QED
  BY <1>7, <1>8, <1>9, <1>10 DEF OldValuesInv

LEMMA OldValuesStep == Typed /\ HistoryInv /\ OldValuesInv /\ [Next]_vars => OldValuesInv'
<1> SUFFICES ASSUME Typed, HistoryInv, OldValuesInv, [Next]_vars PROVE OldValuesInv'
  OBVIOUS
<1>1. ASSUME NEW r \in Requests,
             \/ \E t \in Tasks, u \in Users, i \in Inputs : StartUpdate(r, t, u, i)
             \/ \E t \in Teams, u \in Users, d \in Drafts : StartCreate(r, t, u, d)
             \/ Step(r)
      PROVE  OthersKeep(r) /\ \A q \in Requests : q # r => op'[q] = op[q]
  BY <1>1, StepKeepsOthers, OpsKept
<1>2. ASSUME NEW r \in Requests, Find(r)
      PROVE  OldValuesInv'
  <2>1. /\ UNCHANGED <<tasks, history, created, task>> /\ snap'[r] = tasks[task[r]]
        /\ task[r] \in Tasks /\ ~HoldsRow(r)'
        /\ Updating(r)' => tasks[task[r]] # NoRow
    BY <1>2 DEF Find, Finish, Goto, db, args, Typed, TypeOK, HoldsRow, Updating, ReadStages
  <2>2. Updating(r)' => \A f \in Fields : WasReal(task[r], f, snap[r].value[f])'
    BY <2>1 DEF OldValuesInv, WasReal, WasSet
  <2> QED
    BY <1>1, <1>2, <2>1, <2>2, OldValuesQuiet DEF Step
<1>3. ASSUME NEW r \in Requests, CheckMember(r) \/ CheckAssignee(r) \/ BeginTx(r)
      PROVE  OldValuesInv'
  <2>1. /\ UNCHANGED <<tasks, history, created, task, snap, op>> /\ ~HoldsRow(r)'
        /\ Updating(r)' => Updating(r)
    BY <1>3 DEF CheckMember, CheckAssignee, BeginTx, Proceed, Finish, Goto, db, args, Typed,
         TypeOK, HoldsRow, Updating, ReadStages
  <2>2. Updating(r)' => \A f \in Fields : WasReal(task[r], f, snap[r].value[f])'
    BY <2>1 DEF OldValuesInv, WasReal, WasSet
  <2> QED
    BY <1>1, <1>3, <2>1, <2>2, OldValuesQuiet DEF Step
<1>4. ASSUME NEW r \in Requests, UpdateRow(r) \/ Reload(r)
      PROVE  OldValuesInv'
  <2>1. /\ UNCHANGED <<tasks, history, created, task, snap, op, logged>> /\ Updating(r)
        /\ HoldsRow(r)' => HoldsRow(r) \/ logged[r] = {}
    BY <1>4 DEF UpdateRow, Reload, Finish, Goto, db, args, Typed, TypeOK, RowsInHand,
         HoldsRow, Updating, ReadStages, HistoryInv, LogsAreAccurate
  <2>2. \A f \in Fields : WasReal(task[r], f, snap[r].value[f])'
    BY <2>1 DEF OldValuesInv, WasReal, WasSet
  <2>3. HoldsRow(r)' => LogOf(r)'
    BY <2>1 DEF OldValuesInv, LogOf
  <2> QED
    BY <1>1, <1>4, <2>1, <2>2, <2>3, OldValuesQuiet DEF Step
<1>5. ASSUME NEW r \in Requests, LogChange(r)
      PROVE  OldValuesInv'
  <2>1. /\ UNCHANGED <<tasks, history, created, task, snap>> /\ Updating(r) /\ HoldsRow(r)
    BY <1>5 DEF LogChange, args, Typed, RowsInHand, HoldsRow, Updating, ReadStages
  <2>2. \A f \in Fields : WasReal(task[r], f, snap[r].value[f])'
    BY <2>1 DEF OldValuesInv, WasReal, WasSet
  <2>3. PICK f \in Unlogged(r) :
          logged'[r] = logged[r] \cup
               {[id |-> nextId, task |-> task[r], changed_by |-> user[r],
                 field_name |-> f, old_value |-> snap[r].value[f],
                 new_value |-> input[r][f]]}
    BY <1>5 DEF LogChange, Typed, TypeOK
  <2>4. LogOf(r)'
    BY <2>1, <2>3 DEF OldValuesInv, LogOf, Unlogged
  <2> QED
    BY <1>1, <1>5, <2>1, <2>2, <2>4, OldValuesQuiet DEF Step
<1>6. ASSUME NEW r \in Requests, Commit(r) \/ CommitUnknown(r)
      PROVE  OldValuesInv'
  <2>1. pc[r] = "commit" /\ WriteBack(r) /\ UNCHANGED created /\ pc'[r] = "answered"
    BY <1>6 DEF Commit, CommitUnknown, Finish, Typed, TypeOK
  <2> QED
    BY <1>1, <1>6, <2>1, CommitKeepsOldValues DEF Step
<1>7. ASSUME NEW r \in Requests, Insert(r)
      PROVE  OldValuesInv'
  <2>1. PICK t \in Tasks : /\ tasks[t] = NoRow /\ tasks' = [tasks EXCEPT ![t] = snap[r]]
                           /\ created' = [created EXCEPT ![t] = snap[r]]
    BY <1>7 DEF Insert
  <2>2. /\ UNCHANGED <<history, logged, snap, op>> /\ op[r] = "create"
        /\ ~HoldsRow(r)' /\ ~Updating(r)'
    BY <1>7 DEF Insert, Goto, Typed, TypeOK, RowsInHand, HoldsRow, Updating
  <2>3. /\ tasks'[t] = snap[r] /\ created'[t] = snap[r]
        /\ \A x \in Tasks : x # t => tasks'[x] = tasks[x] /\ created'[x] = created[x]
    BY <2>1 DEF Typed, TypeOK
  <2>4. \A h \in history : h.task \in Tasks /\ h.task # t
    BY <2>1 DEF HistoryInv, EntriesNumbered, Typed, TypeOK, Entries
  <2>5. \A x \in Tasks : tasks'[x] # NoRow => \A f \in Fields : WasReal(x, f, tasks[x].value[f])'
    BY <2>2, <2>3 DEF OldValuesInv, WasReal, WasSet
  <2>6. ASSUME NEW q \in Requests, Updating(q)'
        PROVE  \A f \in Fields : WasReal(task[q], f, snap[q].value[f])'
    <3>1. /\ q # r /\ Updating(q) /\ task'[q] = task[q] /\ snap'[q] = snap[q]
      BY <1>1, <1>7, <2>2, <2>6 DEF Updating, OthersKeep, Step
    <3>2. created'[task[q]] = created[task[q]]
      BY <2>1, <2>3, <3>1, NoRowAssumption DEF Updating, Found, Typed, TypeOK, RowsInHand
    <3> QED
      BY <2>2, <3>1, <3>2 DEF OldValuesInv, WasReal, WasSet
  <2>7. OldValueWasReal'
    BY <2>2, <2>3, <2>4 DEF OldValuesInv, OldValueWasReal
  <2>8. \A q \in Requests : HoldsRow(q)' => LogOf(q)'
    BY <1>1, <1>7, <2>2 DEF OldValuesInv, OthersKeep, HoldsRow, LogOf, Step
  <2> QED
    BY <2>5, <2>6, <2>7, <2>8 DEF OldValuesInv
<1>8. ASSUME NEW r \in Requests,
             \/ \E t \in Tasks, u \in Users, i \in Inputs : StartUpdate(r, t, u, i)
             \/ \E t \in Teams, u \in Users, d \in Drafts : StartCreate(r, t, u, d)
             \/ CheckCreator(r) \/ Load(r) \/ Fail(r) \/ Return(r)
      PROVE  OldValuesInv'
  <2>1. UNCHANGED <<tasks, history, created>> /\ ~HoldsRow(r)' /\ ~Updating(r)'
    BY <1>8 DEF StartUpdate, StartCreate, CheckCreator, Load, Fail, Return, Finish, Goto, db,
         args, Typed, TypeOK, RowsInHand, HoldsRow, Updating, ReadStages
  <2> QED
    BY <1>1, <1>8, <2>1, OldValuesQuiet DEF Step
<1>9. CASE \/ \E t \in Teams, u \in Users : Join(t, u)
           \/ Tick
           \/ UNCHANGED vars
  <2>1. UNCHANGED <<tasks, history, created, pc, op, task, snap, logged>>
    BY <1>9 DEF Join, Tick, vars, db, args
  <2> QED
    BY <2>1 DEF OldValuesInv, OldValueWasReal, Updating, HoldsRow, LogOf, WasReal, WasSet
<1> QED
  BY <1>2, <1>3, <1>4, <1>5, <1>6, <1>7, <1>8, <1>9 DEF Next, Step

\* The history never shows an old value that the field did not have: one the
\* task was neither created with nor given by an earlier entry.
THEOREM OldValuesAreReal == Spec => []OldValueWasReal
<1>1. OldValuesInv => OldValueWasReal
  BY DEF OldValuesInv
<1>2. Init => Typed /\ HistoryInv /\ OldValuesInv
  BY TypeInit, HistoryInit, OldValuesInit
<1>3. Typed /\ HistoryInv /\ OldValuesInv /\ [Next]_vars
        => (Typed /\ HistoryInv /\ OldValuesInv)'
  BY TypeStep, HistoryStep, OldValuesStep
<1> QED
  BY <1>1, <1>2, <1>3, PTL DEF Spec
-----------------------------------------------------------------------------
(***************************************************************************)
(* Misses.  Update answers "task not found" too when its UPDATE changes no *)
(* row of a task it has found.  Then nothing was left to do: every field   *)
(* it had to change has an entry in the history with the value asked for.  *)
(***************************************************************************)
MissesAreMade ==
    \A r \in Requests :
        reply[r] = "task_not_found" /\ snap[r] # NoRow =>
            \A f \in Changed(r) : WasSet(task[r], f, input[r][f])

\* A field that is not as the request read it has been set since.
ReadOrSet(r) ==
    \A f \in Fields :
        LET v == tasks[task[r]].value[f]
        IN v = snap[r].value[f] \/ WasSet(task[r], f, v)

MissInv ==
    /\ MissesAreMade
    /\ \A r \in Requests : Updating(r) => ReadOrSet(r)

LEMMA MissInit == Init => MissInv
BY DEF Init, MissInv, MissesAreMade, Updating, ReadStages

LEMMA HistoryGrows == [Next]_vars => history \subseteq history'
BY DEF Next, Step, StartUpdate, StartCreate, Find, CheckMember, CheckAssignee, BeginTx,
       UpdateRow, LogChange, Reload, Commit, CommitUnknown, WriteBack, CheckCreator,
       Insert, Load, Fail, Return, Join, Tick, db, vars

\* What a step does to an update that has read its row.
LEMMA UpdatingStep ==
    ASSUME Typed, [Next]_vars, NEW q \in Requests, Updating(q)'
    PROVE  \/ Updating(q) /\ task'[q] = task[q] /\ snap'[q] = snap[q]
           \/ UNCHANGED <<tasks, history>> /\ snap'[q] = tasks'[task'[q]]
<1>1. ASSUME NEW r \in Requests,
             \/ \E t \in Tasks, u \in Users, i \in Inputs : StartUpdate(r, t, u, i)
             \/ \E t \in Teams, u \in Users, d \in Drafts : StartCreate(r, t, u, d)
             \/ Step(r)
      PROVE  \/ Updating(q) /\ task'[q] = task[q] /\ snap'[q] = snap[q]
             \/ UNCHANGED <<tasks, history>> /\ snap'[q] = tasks'[task'[q]]
  <2>1. CASE q # r
    BY <1>1, <2>1, StepKeepsOthers, OpsKept DEF Updating, OthersKeep
  <2>2. CASE q = r /\ Find(r)
    BY <2>2 DEF Find, db, args, Typed, TypeOK
  <2>3. CASE q = r /\ (CheckMember(r) \/ CheckAssignee(r) \/ BeginTx(r) \/ UpdateRow(r)
                         \/ LogChange(r) \/ Reload(r))
    BY <2>3 DEF CheckMember, CheckAssignee, BeginTx, UpdateRow, LogChange, Reload, Updating,
         ReadStages, args, Typed, RowsInHand
  <2>4. ASSUME \/ \E t \in Tasks, u \in Users, i \in Inputs : StartUpdate(r, t, u, i)
               \/ \E t \in Teams, u \in Users, d \in Drafts : StartCreate(r, t, u, d)
               \/ Commit(r) \/ CommitUnknown(r) \/ CheckCreator(r) \/ Insert(r)
               \/ Load(r) \/ Fail(r) \/ Return(r)
        PROVE  ~Updating(r)'
    BY <2>4 DEF StartUpdate, StartCreate, Commit, CommitUnknown, CheckCreator, Insert, Load,
         Fail, Return, Finish, Goto, args, Updating, ReadStages, Typed, TypeOK, RowsInHand
  <2> QED BY <1>1, <2>1, <2>2, <2>3, <2>4 DEF Step
<1>2. CASE \/ \E t \in Teams, u \in Users : Join(t, u)
           \/ Tick
           \/ UNCHANGED vars
  BY <1>2 DEF Join, Tick, vars, args, Updating
<1> QED BY <1>1, <1>2 DEF Next

\* How a request comes to be answered "task not found".
LEMMA MissStep ==
    ASSUME Typed, AnswersInv, [Next]_vars, NEW q \in Requests,
           reply'[q] = "task_not_found"
    PROVE  \/ /\ reply[q] = "task_not_found"
              /\ task'[q] = task[q] /\ snap'[q] = snap[q] /\ input'[q] = input[q]
           \/ snap'[q] = NoRow
           \/ UpdateRow(q) /\ Patched(tasks[task[q]], q) = tasks[task[q]]
<1>1. ASSUME NEW r \in Requests,
             \/ \E t \in Tasks, u \in Users, i \in Inputs : StartUpdate(r, t, u, i)
             \/ \E t \in Teams, u \in Users, d \in Drafts : StartCreate(r, t, u, d)
             \/ Step(r)
      PROVE  \/ /\ reply[q] = "task_not_found"
                /\ task'[q] = task[q] /\ snap'[q] = snap[q] /\ input'[q] = input[q]
             \/ snap'[q] = NoRow
             \/ UpdateRow(q) /\ Patched(tasks[task[q]], q) = tasks[task[q]]
  <2>1. CASE q # r
    <3>1. reply'[q] = reply[q]
      BY <1>1, <2>1 DEF StartUpdate, StartCreate, Step, Find, CheckMember, CheckAssignee,
           Proceed, BeginTx, UpdateRow, LogChange, Reload, Commit, CommitUnknown,
           CheckCreator, Insert, Load, Fail, Return, Finish, Goto, args, Typed, TypeOK
    <3> QED BY <1>1, <2>1, <3>1, StepKeepsOthers DEF OthersKeep
  <2>2. CASE q = r
    <3>1. CASE Find(r)
      <4>1. reply[r] = "none" /\ snap'[r] = tasks[task[r]]
        BY <3>1 DEF Find, AnswersInv, Typed, TypeOK
      <4>2. tasks[task[r]] # NoRow => reply' = reply
        BY <3>1 DEF Find, Goto
      <4> QED BY <2>2, <4>1, <4>2
    <3>2. CASE UpdateRow(r)
      BY <2>2, <3>2 DEF UpdateRow, Finish, Goto, args, Typed, TypeOK
    <3>3. ASSUME ~Find(r), ~UpdateRow(r) PROVE reply'[r] # "task_not_found"
      BY <1>1, <3>3 DEF StartUpdate, StartCreate, Step, CheckMember, CheckAssignee,
           Proceed, BeginTx, LogChange, Reload, Commit, CommitUnknown, CheckCreator,
           Insert, Load, Fail, Return, Finish, Goto, args, Typed, TypeOK, AnswersInv
    <3> QED BY <2>2, <3>1, <3>2, <3>3
  <2> QED BY <2>1, <2>2
<1>2. CASE \/ \E t \in Teams, u \in Users : Join(t, u)
           \/ Tick
           \/ UNCHANGED vars
  BY <1>2 DEF Join, Tick, vars, args
<1> QED BY <1>1, <1>2 DEF Next

LEMMA MissesStay ==
    Typed /\ HistoryInv /\ AnswersInv /\ MissInv /\ [Next]_vars => MissInv'
<1> SUFFICES ASSUME Typed, HistoryInv, AnswersInv, MissInv, [Next]_vars PROVE MissInv'
  OBVIOUS
<1>1. history \subseteq history'  BY HistoryGrows
<1>2. \A t, f, v : WasSet(t, f, v) => \E g \in history' : OfField(g, t, f) /\ g.new_value = v
  BY <1>1 DEF WasSet
<1>3. ASSUME NEW q \in Requests, Updating(q)'
      PROVE  ReadOrSet(q)'
  <2>1. CASE UNCHANGED <<tasks, history>> /\ snap'[q] = tasks'[task'[q]]
    BY <2>1 DEF ReadOrSet
  <2>2. CASE Updating(q) /\ task'[q] = task[q] /\ snap'[q] = snap[q]
    <3> DEFINE t == task[q]
    <3>1. t \in Tasks /\ tasks[t] # NoRow
      BY <2>2, NoRowAssumption DEF Typed, TypeOK, RowsInHand, Found, Updating
    <3> SUFFICES ASSUME NEW f \in Fields
                 PROVE  \/ tasks'[t].value[f] = snap[q].value[f]
                        \/ \E g \in history' :
                             OfField(g, t, f) /\ g.new_value = tasks'[t].value[f]
      BY <2>2 DEF ReadOrSet, WasSet
    <3>2. CASE tasks'[t].value[f] = tasks[t].value[f]
      BY <1>2, <2>2, <3>2 DEF MissInv, ReadOrSet
    <3>3. CASE tasks'[t].value[f] # tasks[t].value[f]
      <4>1. ChangeRecorded(t, f)  BY <3>1, RecordedStep
      <4> QED BY <3>1, <3>3, <4>1 DEF ChangeRecorded, OfField
    <3> QED BY <3>2, <3>3
  <2> QED BY <1>3, <2>1, <2>2, UpdatingStep
<1>4. ASSUME NEW q \in Requests, reply'[q] = "task_not_found", snap'[q] # NoRow,
             NEW f \in Changed(q)'
      PROVE  \E g \in history' : OfField(g, task'[q], f) /\ g.new_value = input'[q][f]
  <2>1. CASE /\ reply[q] = "task_not_found"
             /\ task'[q] = task[q] /\ snap'[q] = snap[q] /\ input'[q] = input[q]
    <3>1. f \in Changed(q)  BY <2>1 DEF Changed
    <3>2. WasSet(task[q], f, input[q][f])  BY <1>4, <2>1, <3>1 DEF MissInv, MissesAreMade
    <3> QED BY <1>2, <2>1, <3>2
  <2>2. CASE UpdateRow(q) /\ Patched(tasks[task[q]], q) = tasks[task[q]]
    <3> DEFINE row == tasks[task[q]]
    <3>1. UNCHANGED <<task, snap, input>> /\ Updating(q)
      BY <2>2 DEF UpdateRow, args, Updating, ReadStages, Typed, RowsInHand
    <3>2. f \in Changed(q) /\ f \in Fields /\ input[q][f] # snap[q].value[f]
      BY <3>1 DEF Changed
    <3>3. row \in Rows
      BY <3>1 DEF Typed, RowsInHand, Found, Updating
    <3>4. row.value[f] = input[q][f]
      BY <2>2, <3>2, <3>3, PatchedRow DEF Typed
    <3>5. WasSet(task[q], f, row.value[f])
      BY <3>1, <3>2, <3>4 DEF MissInv, ReadOrSet
    <3> QED BY <1>2, <3>1, <3>4, <3>5
  <2> QED BY <1>4, <2>1, <2>2, MissStep
<1> QED BY <1>3, <1>4 DEF MissInv, MissesAreMade, WasSet

\* Who is told "task not found" of a task that it has read finds every change
\* it asked for in the history, made by other requests.
THEOREM NothingIsLostByAMiss == Spec => []MissesAreMade
<1>1. MissInv => MissesAreMade
  BY DEF MissInv
<1>2. Init => Typed /\ HistoryInv /\ AnswersInv /\ MissInv
  <2>1. Init => AnswersInv
    BY DEF Init, AnswersInv
  <2> QED
    BY <2>1, TypeInit, HistoryInit, MissInit
<1>3. Typed /\ HistoryInv /\ AnswersInv /\ MissInv /\ [Next]_vars
        => (Typed /\ HistoryInv /\ AnswersInv /\ MissInv)'
  BY TypeStep, HistoryStep, AnswersStep, MissesStay
<1> QED
  BY <1>1, <1>2, <1>3, PTL DEF Spec
=============================================================================
