-------------------------- MODULE MasterStepProofs --------------------------
(***************************************************************************)
(* Machine-checked proofs of what a step of Master may do to a task, of the *)
(* passes inside it and of the end of its loop, for the constants of        *)
(* MasterProofs.                                                            *)
(*                                                                         *)
(* What a step writes depends on what its session holds, and on who creates *)
(* which task.  A row is inserted once, by the only request that creates    *)
(* it; a session holds rows that have existed; a pass only deducts from the *)
(* rows it has read; and neither a pass nor a heartbeat takes a host        *)
(* offline, so that a health check still finds ONLINE what it has read so.  *)
(***************************************************************************)
EXTENDS MasterProofs

USE DEF Session

CreatesAlone ==
    \A r, s \in Session :
        (req[r].op = "create" /\ req[s].op = "create" /\ req[r].task = req[s].task)
            => r = s

Unborn(t) == tasks[t].status = "NONE"

CreatesOnce ==
    \A s \in Session : pc[s] = "put" /\ req[s].op = "create" => Unborn(req[s].task)

LoadedExisted ==
    \A s \in Session, t \in Task : Exists(orm[s].tasks[t]) => ~Unborn(t)

(* A pass starts with the rows as it has read them and only takes from      *)
(* them; the hosts it has chosen were ready when it read them.              *)
LeftOf(now, read) == /\ now.status = read.status /\ now.fresh = read.fresh
                     /\ now.cpu <= read.cpu /\ now.mem <= read.mem

PassCorrect(s) ==
    /\ pc[s] = "pending" => orm[s].view = orm[s].hosts
    /\ pc[s] = "place" =>
          /\ \A h \in Host : LeftOf(orm[s].view[h], orm[s].hosts[h])
          /\ \A t \in Task : orm[s].placed[t] # NoHost =>
                ReadReady(s, t, orm[s].placed[t])

PassesCorrect == \A s \in Session : PassCorrect(s)

Abandoned(memory, h) == /\ memory.hosts[h].status = "ONLINE"
                        /\ memory.view[h].status = "OFFLINE"

HealthSound ==
    pc[Loop] = "requeue" =>
        /\ \A h \in Host :
              /\ orm[Loop].hosts[h].status = "ONLINE" => hosts[h].status = "ONLINE"
              /\ orm[Loop].view[h].status = "ONLINE" /\ ~orm[Loop].view[h].fresh
                    => orm[Loop].hosts[h].status = "ONLINE"
        /\ \A t \in Task : Exists(orm[Loop].tasks[t]) =>
              \E h \in Host : h = orm[Loop].tasks[t].host /\ Abandoned(orm[Loop], h)

HInv == /\ IInv
        /\ CreatesAlone /\ CreatesOnce /\ LoadedExisted
        /\ PassesCorrect /\ HealthSound

-----------------------------------------------------------------------------
(* Sessions move one at a time. *)

LEMMA StatementMoves ==
    ASSUME TypeOK, NEW s \in Session,
           Serve(s) \/ (s \in Thread /\ Respond(s)) \/ (s = Loop /\ LoopStep)
    PROVE  Untouched(s)
<1>1. CASE Pass(s)
  <2>1. \E l \in PC : Step(s, l)
    BY <1>1, AfterTyped
    DEF Pass, ReadHosts, ReadPending, PlaceNext, CommitPass, RaisePass, PC
  <2>2. orm' = orm \/ \E memory : Hold(s, memory)
    BY <1>1 DEF Pass, ReadHosts, ReadPending, PlaceNext, CommitPass, RaisePass,
                EndPass, Forget
  <2> QED
    BY <2>1, <2>2, StepMoves, HoldMoves DEF Untouched
<1>2. CASE Handle(s)
  <2>1. /\ \E l : Goto(s, l)
        /\ orm' = orm \/ \E memory : Hold(s, memory)
        /\ req' = req \/ \E t : req' = [req EXCEPT ![s].task = t]
    BY <1>2 DEF Handle, GetHost, PutHost, RefreshHost, Pick, InsertTask, ReadBack,
                GetTask, PutTask, DeleteTask, RefreshTask, Step, Answer, HoldHost,
                HoldTask, Forget
  <2> QED
    BY <2>1, HoldMoves DEF TypeOK, Goto, Untouched
<1>3. CASE s = Loop /\ LoopStep
  <2>1. /\ \E l : Step(s, l)
        /\ \E memory : Hold(s, memory)
    BY <1>3 DEF LoopStep, Reconcile, CommitHealth, RaiseHealth, SelectLost, Forget
  <2> QED
    BY <2>1, StepMoves, HoldMoves DEF Untouched
<1>4. CASE Respond(s)
  BY <1>4 DEF Respond, Goto, TypeOK, Untouched
<1> QED
  BY <1>1, <1>2, <1>3, <1>4 DEF Serve

-----------------------------------------------------------------------------
(* Births: who creates a task. *)

LEMMA CreatesPreserved ==
    ASSUME HInv, [Next]_vars
    PROVE  CreatesAlone'
<1> USE DEF HInv, IInv
<1>1. ASSUME \A s \in Session : req'[s].op = "create" =>
                req[s].op = "create" /\ req'[s].task = req[s].task
      PROVE  CreatesAlone'
  BY <1>1 DEF CreatesAlone
<1>2. ASSUME NEW s \in Thread, Requests(s)
      PROVE  CreatesAlone'
  <2>1. ASSUME NEW r, NEW l, Begin(s, r, l), r.op # "create"
        PROVE  CreatesAlone'
    <3>1. req' = [req EXCEPT ![s] = r]
      BY <2>1 DEF Begin
    <3> QED
      BY <1>1, <2>1, <3>1 DEF TypeOK
  <2>2. ASSUME NEW t \in Task, BeginCreate(s, t)
        PROVE  CreatesAlone'
    <3> DEFINE r == [NoRequest EXCEPT !.op = "create", !.task = t]
    <3>1. r.op = "create" /\ r.task = t
      BY DEF NoRequest
    <3>2. req' = [req EXCEPT ![s] = r]
      BY <2>2 DEF BeginCreate, Begin
    <3>3. \A u \in Thread : req[u].op = "create" => req[u].task # t
      BY <2>2 DEF BeginCreate
    <3>4. req[Loop].op # "create"
      BY DEF SnapshotsSound, RequestSound
    <3> HIDE DEF r
    <3> QED
      BY <3>1, <3>2, <3>3, <3>4 DEF CreatesAlone, TypeOK
  <2> QED
    BY <1>2, <2>1, <2>2
    DEF Requests, BeginHeartbeat, BeginRegister, BeginDelete, BeginStatus,
        BeginResult, NoRequest, Measured
<1>3. ASSUME NEW s \in Session, Handle(s)
      PROVE  CreatesAlone'
  <2>1. CASE req' = req
    BY <1>1, <2>1
  <2>2. CASE Pick(s)
    <3>1. req[s].op # "create" /\ \E t : req' = [req EXCEPT ![s].task = t]
      BY <2>2 DEF Pick, SnapshotsSound, RequestSound, Heartbeats
    <3>2. PICK t : req' = [req EXCEPT ![s] = [req[s] EXCEPT !.task = t]]
      BY <3>1
    <3>3. req'[s].op # "create" /\ \A r \in Session \ {s} : req'[r] = req[r]
      BY <3>1, <3>2 DEF TypeOK, Request
    <3> QED
      BY <1>1, <3>3
  <2> QED
    BY <1>3, <2>1, <2>2
    DEF Handle, GetHost, PutHost, RefreshHost, InsertTask, ReadBack, GetTask,
        PutTask, DeleteTask, RefreshTask, Step
<1>4. ASSUME NEW s \in Thread, Respond(s)
      PROVE  CreatesAlone'
  <2>1. req' = [req EXCEPT ![s] = NoRequest] /\ NoRequest.op # "create"
    BY <1>4 DEF Respond, NoRequest
  <2> QED
    BY <1>1, <2>1 DEF TypeOK
<1>5. CASE Restart
  BY <1>5 DEF Restart, CreatesAlone, NoRequest
<1>6. CASE req' = req
  BY <1>1, <1>6
<1> QED
  BY <1>2, <1>3, <1>4, <1>5, <1>6
  DEF Next, Work, Serve, Pass, ReadHosts, ReadPending, PlaceNext, CommitPass, RaisePass,
      LoopStep, Reconcile, CommitHealth, RaiseHealth, SelectLost, Step, Expire, vars

-----------------------------------------------------------------------------
(* Who writes a status.  A step that changes the status of a row is one of  *)
(* five statements; every other one leaves all statuses alone.              *)

Writes(s, t) ==
    \/ /\ InsertTask(s)
       /\ req[s].op = "create" /\ req[s].task = t
       /\ tasks'[t].status = "PENDING"
    \/ /\ CommitPass(s)
       /\ t \in Chosen(s) /\ Exists(tasks[t])
       /\ tasks'[t].status = "SCHEDULED"
    \/ /\ PutTask(s)
       /\ req[s].task = t /\ Exists(tasks[t])
       /\ \/ req[s].op = "status" /\ tasks'[t].status \in Progress
          \/ tasks'[t].status \in Finished
    \/ /\ DeleteTask(s)
       /\ req[s].task = t
       /\ tasks'[t].status = "DELETED"
    \/ /\ s = Loop /\ CommitHealth
       /\ t \in Lost /\ Exists(tasks[t])
       /\ tasks'[t].status = "PENDING"

LEMMA UpdatedStatus ==
    ASSUME NEW stored, NEW loaded, NEW new
    PROVE  UpdateTask(stored, loaded, new).status \in {stored.status, new.status}
BY DEF UpdateTask, Column

LEMMA PutWrites ==
    ASSUME TypeOK, NEW s \in Session, RequestSound(s), PutTask(s), NEW t \in Task
    PROVE  tasks'[t].status = tasks[t].status \/ Writes(s, t)
<1> DEFINE u == req[s].task
           new == Changed(s, orm[s].tasks[u])
<1>1. CASE tasks' = tasks
  BY <1>1
<1>2. CASE /\ Exists(tasks[u])
           /\ tasks' = [tasks EXCEPT ![u] = UpdateTask(tasks[u], orm[s].tasks[u], new)]
  <2>1. u \in Task
    BY DEF PutTask, RequestSound
  <2>2. tasks'[u] = UpdateTask(tasks[u], orm[s].tasks[u], new)
    BY <1>2, <2>1 DEF TypeOK
  <2>3. tasks'[u].status \in {tasks[u].status, new.status}
    BY <2>2, UpdatedStatus
  <2>4. orm[s].tasks[u] \in TaskRow
    BY <2>1, MemoryTyped
  <2>5. \/ req[s].op = "status" /\ new.status = req[s].status
        \/ req[s].op = "result" /\ new.status = req[s].status
        \/ req[s].op = "delete" /\ new.status = "CANCELLED"
    BY <2>4 DEF PutTask, TaskWrites, Changed, WithStatus, WithResult, Cancelled, TaskRow
  <2>6. (req[s].op = "status" /\ new.status \in Progress) \/ new.status \in Finished
    BY <2>5 DEF RequestSound, Finished
  <2> HIDE DEF new
  <2>7. CASE t = u
    BY <1>2, <2>3, <2>6, <2>7 DEF Writes
  <2>8. CASE t # u
    BY <1>2, <2>8 DEF TypeOK
  <2> QED
    BY <2>7, <2>8
<1> QED
  BY <1>1, <1>2 DEF PutTask

LEMMA StatusWritten ==
    ASSUME IInv, [Next]_vars, NEW t \in Task, tasks'[t].status # tasks[t].status
    PROVE  \E s \in Session : Writes(s, t)
<1> USE DEF IInv
<1>0. \A s \in Session : RequestSound(s)
  BY DEF SnapshotsSound
<1>1. tasks' # tasks
  OBVIOUS
<1>2. ASSUME NEW s \in Session, Pass(s)
      PROVE  Writes(s, t)
  <2>1. CommitPass(s)
    BY <1>1, <1>2 DEF Pass, ReadHosts, ReadPending, PlaceNext, RaisePass
  <2>2. tasks'[t] = IF t \in Chosen(s) THEN PlacedRow(s, t) ELSE tasks[t]
    BY <2>1 DEF CommitPass
  <2>3. /\ t \in Chosen(s) /\ Exists(tasks[t])
        /\ tasks'[t] = PlacedRow(s, t)
    BY <2>1, <2>2 DEF CommitPass
  <2> DEFINE loaded == orm[s].tasks[t]
             new == Scheduled(loaded, orm[s].placed[t])
             row == UpdateTask(tasks[t], loaded, new)
  <2>4. new.status = "SCHEDULED"
    BY MemoryTyped DEF Scheduled, TaskRow
  <2>5. row.status \in {tasks[t].status, new.status}
    BY UpdatedStatus
  <2>6. tasks'[t].status = row.status
    BY <2>3 DEF PlacedRow, UpdateTask
  <2> HIDE DEF row, new
  <2> QED
    BY <2>1, <2>3, <2>4, <2>5, <2>6 DEF Writes
<1>3. ASSUME NEW s \in Session, Handle(s)
      PROVE  Writes(s, t)
  <2>1. InsertTask(s) \/ PutTask(s) \/ DeleteTask(s)
    BY <1>1, <1>3 DEF Handle, GetHost, PutHost, RefreshHost, Pick, ReadBack,
                      GetTask, RefreshTask
  <2>2. CASE PutTask(s)
    BY <1>0, <2>2, PutWrites
  <2>3. CASE InsertTask(s)
    <3>1. req[s].task \in Task /\ req[s].op = "create"
      BY <1>0, <2>3 DEF InsertTask, RequestSound
    <3>2. tasks' = [tasks EXCEPT ![req[s].task] = NewTask]
      BY <2>3 DEF InsertTask
    <3> QED
      BY <2>3, <3>1, <3>2 DEF TypeOK, NewTask, NoTaskRow, Writes
  <2>4. CASE DeleteTask(s)
    <3>1. req[s].task \in Task
      BY <1>0, <2>4 DEF DeleteTask, Deletes, RequestSound, TaskWrites
    <3>2. tasks' = [tasks EXCEPT ![req[s].task] = [NoTaskRow EXCEPT !.status = "DELETED"]]
      BY <2>4 DEF DeleteTask
    <3> QED
      BY <2>4, <3>1, <3>2 DEF TypeOK, NoTaskRow, Writes
  <2> QED
    BY <2>1, <2>2, <2>3, <2>4
<1>4. CASE LoopStep
  <2>1. CommitHealth
    BY <1>1, <1>4 DEF LoopStep, Reconcile, RaiseHealth, SelectLost
  <2> DEFINE loaded == orm[Loop].tasks[t]
  <2>2. /\ t \in Lost /\ Exists(tasks[t])
        /\ tasks'[t] = UpdateTask(tasks[t], loaded, Requeued(loaded))
    BY <2>1 DEF CommitHealth
  <2>3. Requeued(loaded).status = "PENDING"
    BY MemoryTyped DEF Requeued, TaskRow
  <2> QED
    BY <2>1, <2>2, <2>3, UpdatedStatus DEF Writes
<1> QED
  BY <1>1, <1>2, <1>3, <1>4
  DEF Next, Work, Serve, Requests, BeginHeartbeat, BeginRegister, BeginCreate,
      BeginDelete, BeginStatus, BeginResult, Begin, Respond, Expire, Restart, vars

-----------------------------------------------------------------------------
(* Rows come into being once, by the request that creates them, and stay    *)
(* known.                                                                  *)

LEMMA BirthByInsert ==
    ASSUME IInv, LoadedExisted, [Next]_vars, NEW t \in Task
    PROVE  /\ ~Unborn(t) => ~Unborn(t)'
           /\ Unborn(t) /\ ~Unborn(t)' =>
                 \E s \in Session : InsertTask(s) /\ req[s].task = t
<1>1. CASE tasks'[t].status = tasks[t].status
  BY <1>1 DEF Unborn
<1>2. CASE tasks'[t].status # tasks[t].status
  <2>1. PICK s \in Session : Writes(s, t)
    BY <1>2, StatusWritten
  <2>2. ~Unborn(t)'
    BY <2>1 DEF Writes, Unborn, Progress, Finished
  <2>3. CASE DeleteTask(s) /\ req[s].task = t
    <3>1. Exists(orm[s].tasks[t])
      BY <2>3 DEF DeleteTask, Deletes, Exists, Finished
    <3> QED
      BY <2>2, <3>1 DEF LoadedExisted
  <2>4. CASE Exists(tasks[t])
    BY <2>2, <2>4 DEF Unborn, Exists
  <2>5. CASE InsertTask(s) /\ req[s].task = t
    BY <2>2, <2>5
  <2> QED
    BY <2>1, <2>3, <2>4, <2>5 DEF Writes
<1> QED
  BY <1>1, <1>2

LEMMA PutReached ==
    ASSUME TypeOK, [Next]_vars, NEW s \in Session, pc'[s] = "put", req'[s].op = "create"
    PROVE  \/ /\ pc[s] = "put" /\ req[s].op = "create"
              /\ req'[s].task = req[s].task
           \/ Unborn(req'[s].task) /\ tasks' = tasks
<1>1. ASSUME NEW r \in Session, Untouched(r), r # s
      PROVE  pc'[s] = pc[s] /\ req'[s] = req[s]
  BY <1>1 DEF Untouched
<1>2. ASSUME NEW r \in Thread, Requests(r)
      PROVE  \/ pc'[s] = pc[s] /\ req'[s] = req[s]
             \/ Unborn(req'[s].task) /\ tasks' = tasks
  <2>1. ASSUME NEW q, NEW l, Begin(r, q, l), q.op # "create"
        PROVE  pc'[s] = pc[s] /\ req'[s] = req[s]
    <3>1. req' = [req EXCEPT ![r] = q] /\ pc' = [pc EXCEPT ![r] = l]
      BY <2>1 DEF Begin, Goto
    <3> QED
      BY <2>1, <3>1 DEF TypeOK
  <2>2. ASSUME NEW t \in Task, BeginCreate(r, t)
        PROVE  \/ pc'[s] = pc[s] /\ req'[s] = req[s]
               \/ Unborn(req'[s].task) /\ tasks' = tasks
    <3> DEFINE q == [NoRequest EXCEPT !.op = "create", !.task = t]
    <3>1. /\ req' = [req EXCEPT ![r] = q] /\ pc' = [pc EXCEPT ![r] = "put"]
          /\ tasks' = tasks /\ Unborn(t) /\ q.task = t
      BY <2>2 DEF BeginCreate, Begin, Goto, Unborn, NoRequest
    <3> HIDE DEF q
    <3> QED
      BY <3>1 DEF TypeOK
  <2> QED
    BY <1>2, <2>1, <2>2
    DEF Requests, BeginHeartbeat, BeginRegister, BeginDelete, BeginStatus,
        BeginResult, NoRequest, Measured
<1>3. ASSUME NEW r \in Session, Serve(r) \/ (r \in Thread /\ Respond(r))
                                         \/ (r = Loop /\ LoopStep)
      PROVE  pc[s] = "put" /\ req'[s] = req[s]
  <2>1. CASE r # s
    BY <1>1, <1>3, <2>1, StatementMoves
  <2>2. CASE r = s
    <3>1. GetHost(s) \/ GetTask(s)
      BY <1>3, <2>2
      DEF Serve, Pass, ReadHosts, ReadPending, PlaceNext, CommitPass, RaisePass,
          Handle, PutHost, RefreshHost, Pick, InsertTask, ReadBack, PutTask,
          DeleteTask, RefreshTask, Respond, LoopStep, Reconcile, CommitHealth,
          RaiseHealth, SelectLost, AfterPass, AfterRaise, Step, Answer, Goto, TypeOK
    <3> QED
      BY <3>1 DEF GetHost, GetTask, Step, TaskWrites
  <2> QED
    BY <2>1, <2>2
<1>4. CASE Restart
  BY <1>4 DEF Restart
<1>5. CASE pc' = pc /\ req' = req
  BY <1>5
<1> QED
  BY <1>2, <1>3, <1>4, <1>5 DEF Next, Work, Serve, Expire, vars

LEMMA CreatesOncePreserved ==
    ASSUME HInv, [Next]_vars
    PROVE  CreatesOnce'
<1> USE DEF HInv, IInv
<1> SUFFICES ASSUME NEW s \in Session, pc'[s] = "put", req'[s].op = "create"
             PROVE  tasks'[req'[s].task].status = "NONE"
  BY DEF CreatesOnce, Unborn
<1> DEFINE t == req'[s].task
<1>1. CASE Unborn(t) /\ tasks' = tasks
  BY <1>1 DEF Unborn
<1>2. CASE pc[s] = "put" /\ req[s].op = "create" /\ t = req[s].task
  <2>1. t \in Task /\ Unborn(t)
    BY <1>2 DEF SnapshotsSound, RequestSound, CreatesOnce
  <2>2. ASSUME NEW r \in Session, InsertTask(r), req[r].task = t
        PROVE  FALSE
    <3>1. r = s
      BY <1>2, <2>2 DEF InsertTask, CreatesAlone
    <3> QED
      BY <2>2, <3>1 DEF InsertTask, Step, Goto, TypeOK
  <2> QED
    BY <2>1, <2>2, BirthByInsert DEF Unborn
<1> QED
  BY <1>1, <1>2, PutReached

LEMMA RowsLoaded ==
    ASSUME IInv, [Next]_vars, NEW s \in Session, NEW t \in Task,
           Exists(orm'[s].tasks[t])
    PROVE  Exists(orm[s].tasks[t]) \/ Exists(tasks[t])
<1> USE DEF IInv
<1>1. ASSUME NEW r \in Session, NEW memory, Hold(r, memory),
             \/ memory.tasks = orm[r].tasks
             \/ \E u \in Task : memory.tasks = [orm[r].tasks EXCEPT ![u] = tasks[u]]
             \/ Exists(memory.tasks[t]) => Exists(orm[r].tasks[t]) \/ Exists(tasks[t])
      PROVE  Exists(orm[s].tasks[t]) \/ Exists(tasks[t])
  <2>1. CASE r = s
    <3>1. orm'[s] = memory
      BY <1>1, <2>1, HoldMoves
    <3>2. orm[s].tasks \in [Task -> TaskRow]
      BY MemoryTyped
    <3> QED
      BY <1>1, <2>1, <3>1, <3>2
  <2>2. CASE r # s
    BY <1>1, <2>2, HoldMoves
  <2> QED
    BY <2>1, <2>2
<1>2. ASSUME NEW r \in Session, Forget(r)
      PROVE  Exists(orm[s].tasks[t]) \/ Exists(tasks[t])
  <2>1. ~Exists(EmptyMemory.tasks[t])
    BY EmptyHoldsNothing
  <2>2. Hold(r, EmptyMemory)
    BY <1>2 DEF Forget
  <2> QED
    BY <1>1, <2>1, <2>2
<1>3. ASSUME NEW r \in Session, NEW u \in Task, HoldTask(r, u)
      PROVE  Exists(orm[s].tasks[t]) \/ Exists(tasks[t])
  <2> DEFINE memory == [orm[r] EXCEPT !.tasks = [orm[r].tasks EXCEPT ![u] = tasks[u]]]
  <2>1. memory.tasks = [orm[r].tasks EXCEPT ![u] = tasks[u]]
    BY MemoryTyped DEF Memory
  <2>2. Hold(r, memory)
    BY <1>3 DEF HoldTask
  <2> HIDE DEF memory
  <2> QED
    BY <1>1, <2>1, <2>2
<1>4. ASSUME NEW r \in Session, Pass(r)
      PROVE  Exists(orm[s].tasks[t]) \/ Exists(tasks[t])
  <2>1. CASE ReadHosts(r)
    <3>1. PICK rows : Hold(r, [orm[r] EXCEPT !.hosts = rows, !.view = rows])
      BY <2>1 DEF ReadHosts
    <3>2. [orm[r] EXCEPT !.hosts = rows, !.view = rows].tasks = orm[r].tasks
      BY MemoryTyped DEF Memory
    <3> QED
      BY <1>1, <3>1, <3>2
  <2>2. CASE ReadPending(r)
    <3> DEFINE queue == {u \in Task : tasks[u].status = "PENDING"}
               loaded == [u \in Task |-> IF u \notin queue THEN NoTaskRow
                                         ELSE IF Exists(orm[r].tasks[u])
                                         THEN orm[r].tasks[u] ELSE tasks[u]]
               memory == [orm[r] EXCEPT !.todo = queue, !.tasks = loaded]
    <3>1. Forget(r) \/ Hold(r, memory)
      BY <2>2 DEF ReadPending
    <3>2. memory.tasks = loaded
      BY MemoryTyped DEF Memory
    <3>3. Exists(loaded[t]) => Exists(orm[r].tasks[t]) \/ Exists(tasks[t])
      BY DEF Exists, NoTaskRow
    <3> HIDE DEF memory, loaded
    <3> QED
      BY <1>1, <1>2, <3>1, <3>2, <3>3
  <2>3. CASE PlaceNext(r)
    <3>1. \/ \E todo, placed, view :
                Hold(r, [orm[r] EXCEPT !.todo = todo, !.placed = placed, !.view = view])
          \/ \E todo : Hold(r, [orm[r] EXCEPT !.todo = todo])
      BY <2>3 DEF PlaceNext
    <3>2. ASSUME NEW todo, NEW placed, NEW view,
                 Hold(r, [orm[r] EXCEPT !.todo = todo, !.placed = placed, !.view = view])
          PROVE  Exists(orm[s].tasks[t]) \/ Exists(tasks[t])
      <4>1. [orm[r] EXCEPT !.todo = todo, !.placed = placed,
                           !.view = view].tasks = orm[r].tasks
        BY MemoryTyped DEF Memory
      <4> QED
        BY <1>1, <3>2, <4>1
    <3>3. ASSUME NEW todo, Hold(r, [orm[r] EXCEPT !.todo = todo])
          PROVE  Exists(orm[s].tasks[t]) \/ Exists(tasks[t])
      <4>1. [orm[r] EXCEPT !.todo = todo].tasks = orm[r].tasks
        BY MemoryTyped DEF Memory
      <4> QED
        BY <1>1, <3>3, <4>1
    <3> QED
      BY <3>1, <3>2, <3>3
  <2> QED
    BY <1>2, <1>4, <2>1, <2>2, <2>3 DEF Pass, CommitPass, RaisePass, EndPass
<1>5. ASSUME NEW r \in Session, Handle(r)
      PROVE  Exists(orm[s].tasks[t]) \/ Exists(tasks[t])
  <2>1. ASSUME NEW h, HoldHost(r, h)
        PROVE  Exists(orm[s].tasks[t]) \/ Exists(tasks[t])
    <3>1. PICK rows : Hold(r, [orm[r] EXCEPT !.hosts = rows])
      BY <2>1 DEF HoldHost
    <3>2. [orm[r] EXCEPT !.hosts = rows].tasks = orm[r].tasks
      BY MemoryTyped DEF Memory
    <3> QED
      BY <1>1, <3>1, <3>2
  <2>2. CASE ReadBack(r) \/ GetTask(r)
    <3>1. req[r].task \in Task
      BY <2>2 DEF ReadBack, GetTask, SnapshotsSound, RequestSound
    <3> QED
      BY <1>2, <1>3, <2>2, <3>1 DEF ReadBack, GetTask, Answer
  <2> QED
    BY <1>2, <1>5, <2>1, <2>2
    DEF Handle, GetHost, PutHost, RefreshHost, Pick, InsertTask, PutTask,
        DeleteTask, RefreshTask, Answer
<1>6. CASE LoopStep
  <2>1. CASE Reconcile
    <3>1. PICK rows, view : Hold(Loop, [orm[Loop] EXCEPT !.hosts = rows, !.view = view])
      BY <2>1 DEF Reconcile
    <3>2. [orm[Loop] EXCEPT !.hosts = rows, !.view = view].tasks = orm[Loop].tasks
      BY MemoryTyped DEF Memory
    <3> QED
      BY <1>1, <3>1, <3>2
  <2>2. ASSUME NEW h \in Host, SelectLost(h)
        PROVE  Exists(orm[s].tasks[t]) \/ Exists(tasks[t])
    <3> DEFINE lost == {u \in Task : tasks[u].host = h /\ tasks[u].status \in Active}
               found == [u \in Task |-> IF u \in lost /\ ~Exists(orm[Loop].tasks[u])
                                        THEN tasks[u] ELSE orm[Loop].tasks[u]]
    <3>1. PICK view : Hold(Loop, [orm[Loop] EXCEPT !.view = view, !.tasks = found])
      BY <2>2 DEF SelectLost
    <3> DEFINE memory == [orm[Loop] EXCEPT !.view = view, !.tasks = found]
    <3>2. memory.tasks = found
      BY MemoryTyped DEF Memory
    <3>3. Exists(found[t]) => Exists(orm[Loop].tasks[t]) \/ Exists(tasks[t])
      OBVIOUS
    <3> HIDE DEF memory, found
    <3> QED
      BY <1>1, <3>1, <3>2, <3>3 DEF memory
  <2> QED
    BY <1>2, <1>6, <2>1, <2>2 DEF LoopStep, CommitHealth, RaiseHealth
<1>7. CASE Restart
  BY <1>7, EmptyHoldsNothing DEF Restart
<1>8. CASE orm' = orm
  BY <1>8
<1> QED
  BY <1>4, <1>5, <1>6, <1>7, <1>8
  DEF Next, Work, Serve, Requests, BeginHeartbeat, BeginRegister, BeginCreate,
      BeginDelete, BeginStatus, BeginResult, Begin, Respond, Expire, vars

LEMMA LoadedExistedPreserved ==
    ASSUME HInv, [Next]_vars
    PROVE  LoadedExisted'
<1> USE DEF HInv
<1> SUFFICES ASSUME NEW s \in Session, NEW t \in Task, Exists(orm'[s].tasks[t])
             PROVE  ~Unborn(t)'
  BY DEF LoadedExisted, Exists
<1>1. Exists(orm[s].tasks[t]) \/ Exists(tasks[t])
  BY RowsLoaded
<1>2. ~Unborn(t)
  BY <1>1 DEF LoadedExisted, Unborn, Exists
<1> QED
  BY <1>2, BirthByInsert

-----------------------------------------------------------------------------
(* Host statuses: only a health check takes a host offline. *)

LEMMA PassReached ==
    ASSUME TypeOK, [Next]_vars, NEW s \in Session, pc'[s] \in {"pending", "place"}
    PROVE  \/ pc'[s] = pc[s] /\ orm'[s] = orm[s]
           \/ ReadHosts(s) \/ ReadPending(s) \/ PlaceNext(s)
<1>1. ASSUME NEW r \in Thread, Requests(r)
      PROVE  pc'[s] = pc[s] /\ orm'[s] = orm[s]
  <2>1. orm' = orm /\ pc' \in {[pc EXCEPT ![r] = l] : l \in {"get", "put"}}
    BY <1>1 DEF Requests, BeginHeartbeat, BeginRegister, BeginCreate,
                BeginDelete, BeginStatus, BeginResult, Begin, Goto
  <2> QED
    BY <2>1 DEF TypeOK
<1>2. ASSUME NEW r \in Session, Serve(r) \/ (r \in Thread /\ Respond(r))
                                         \/ (r = Loop /\ LoopStep)
      PROVE  \/ pc'[s] = pc[s] /\ orm'[s] = orm[s]
             \/ ReadHosts(s) \/ ReadPending(s) \/ PlaceNext(s)
  <2>1. CASE r # s
    BY <1>2, <2>1, StatementMoves DEF Untouched
  <2>2. CASE r = s
    BY <1>2, <2>2
    DEF Serve, Pass, CommitPass, RaisePass, Handle, GetHost, PutHost, RefreshHost,
        Pick, InsertTask, ReadBack, GetTask, PutTask, DeleteTask, RefreshTask,
        Respond, LoopStep, Reconcile, CommitHealth, RaiseHealth, SelectLost,
        AfterPass, AfterRaise, Step, Answer, Goto, TypeOK
  <2> QED
    BY <2>1, <2>2
<1>3. CASE Restart
  BY <1>3 DEF Restart
<1>4. CASE pc' = pc /\ orm' = orm
  BY <1>4
<1> QED
  BY <1>1, <1>2, <1>3, <1>4 DEF Next, Work, Serve, Expire, vars

(* What the steps of a pass leave in memory. *)

LEMMA HostsRead ==
    ASSUME TypeOK, NEW s \in Session, ReadHosts(s)
    PROVE  pc'[s] = "pending" /\ orm'[s].view = orm'[s].hosts
<1>1. PICK rows : Hold(s, [orm[s] EXCEPT !.hosts = rows, !.view = rows])
  BY DEF ReadHosts
<1>2. /\ [orm[s] EXCEPT !.hosts = rows, !.view = rows].hosts = rows
      /\ [orm[s] EXCEPT !.hosts = rows, !.view = rows].view = rows
  BY MemoryTyped DEF Memory
<1> QED
  BY <1>1, <1>2, HoldMoves, StepMoves DEF ReadHosts

LEMMA PendingRead ==
    ASSUME TypeOK, NEW s \in Session, ReadPending(s)
    PROVE  \/ Forget(s) /\ pc'[s] = AfterPass(s)
           \/ /\ pc'[s] = "place"
              /\ orm'[s].hosts = orm[s].hosts
              /\ orm'[s].view = orm[s].view
              /\ orm'[s].placed = orm[s].placed
              /\ orm'[s].todo = {t \in Task : Exists(orm'[s].tasks[t])}
<1> DEFINE queue == {t \in Task : tasks[t].status = "PENDING"}
           loaded == [t \in Task |-> IF t \notin queue THEN NoTaskRow
                                     ELSE IF Exists(orm[s].tasks[t])
                                     THEN orm[s].tasks[t] ELSE tasks[t]]
           memory == [orm[s] EXCEPT !.todo = queue, !.tasks = loaded]
<1>1. \/ Forget(s) /\ Step(s, AfterPass(s))
      \/ Hold(s, memory) /\ Step(s, "place")
  BY DEF ReadPending
<1>2. /\ memory.hosts = orm[s].hosts /\ memory.view = orm[s].view
      /\ memory.placed = orm[s].placed
      /\ memory.todo = queue /\ memory.tasks = loaded
  BY MemoryTyped DEF Memory
<1>3. queue = {t \in Task : Exists(loaded[t])}
  BY DEF Exists, NoTaskRow
<1> HIDE DEF memory, loaded, queue
<1> QED
  BY <1>1, <1>2, <1>3, HoldMoves, StepMoves

Placing(s, t, h) == /\ orm'[s].placed = [orm[s].placed EXCEPT ![t] = h]
                    /\ orm'[s].view = ChargeHost(orm[s].view, h, t)

Skipping(s, t) == /\ Candidates(orm[s].view, t) = {}
                  /\ orm'[s].placed = orm[s].placed
                  /\ orm'[s].view = orm[s].view

LEMMA NextPlaced ==
    ASSUME TypeOK, NEW s \in Session, PlaceNext(s)
    PROVE  /\ pc[s] = "place" /\ pc'[s] = "place"
           /\ orm'[s].hosts = orm[s].hosts
           /\ orm'[s].tasks = orm[s].tasks
           /\ \E t \in Task :
                 /\ IsNext(t, orm[s].todo)
                 /\ orm'[s].todo = orm[s].todo \ {t}
                 /\ \/ \E h \in BestHosts(orm[s].view, t) : Placing(s, t, h)
                    \/ Skipping(s, t)
<1>1. pc[s] = "place" /\ pc'[s] = "place"
  BY StepMoves DEF PlaceNext
<1>2. PICK t \in Task :
         /\ IsNext(t, orm[s].todo)
         /\ \/ \E h \in BestHosts(orm[s].view, t) :
                  Hold(s, [orm[s] EXCEPT
                      !.todo = orm[s].todo \ {t},
                      !.placed = [orm[s].placed EXCEPT ![t] = h],
                      !.view = ChargeHost(orm[s].view, h, t)])
            \/ /\ Candidates(orm[s].view, t) = {}
               /\ Hold(s, [orm[s] EXCEPT !.todo = orm[s].todo \ {t}])
  BY DEF PlaceNext
<1> DEFINE left == orm[s].todo \ {t}
<1>3. ASSUME NEW placed, NEW view,
             Hold(s, [orm[s] EXCEPT !.todo = left, !.placed = placed, !.view = view])
      PROVE  /\ orm'[s].hosts = orm[s].hosts /\ orm'[s].tasks = orm[s].tasks
             /\ orm'[s].todo = left /\ orm'[s].placed = placed /\ orm'[s].view = view
  <2> DEFINE memory == [orm[s] EXCEPT !.todo = left, !.placed = placed, !.view = view]
  <2>1. /\ memory.hosts = orm[s].hosts /\ memory.tasks = orm[s].tasks
        /\ memory.todo = left /\ memory.placed = placed /\ memory.view = view
    BY MemoryTyped DEF Memory
  <2>2. orm'[s] = memory
    BY <1>3, HoldMoves
  <2> HIDE DEF memory
  <2> QED
    BY <2>1, <2>2
<1>4. ASSUME Hold(s, [orm[s] EXCEPT !.todo = left])
      PROVE  /\ orm'[s].hosts = orm[s].hosts /\ orm'[s].tasks = orm[s].tasks
             /\ orm'[s].todo = left
             /\ orm'[s].placed = orm[s].placed /\ orm'[s].view = orm[s].view
  <2> DEFINE memory == [orm[s] EXCEPT !.todo = left]
  <2>1. /\ memory.hosts = orm[s].hosts /\ memory.tasks = orm[s].tasks
        /\ memory.todo = left
        /\ memory.placed = orm[s].placed /\ memory.view = orm[s].view
    BY MemoryTyped DEF Memory
  <2>2. orm'[s] = memory
    BY <1>4, HoldMoves
  <2> HIDE DEF memory
  <2> QED
    BY <2>1, <2>2
<1> HIDE DEF left
<1>5. CASE \E h \in BestHosts(orm[s].view, t) :
              Hold(s, [orm[s] EXCEPT !.todo = left,
                                     !.placed = [orm[s].placed EXCEPT ![t] = h],
                                     !.view = ChargeHost(orm[s].view, h, t)])
  BY <1>1, <1>2, <1>3, <1>5 DEF left, Placing
<1>6. CASE Candidates(orm[s].view, t) = {} /\ Hold(s, [orm[s] EXCEPT !.todo = left])
  BY <1>1, <1>2, <1>4, <1>6 DEF left, Skipping
<1> QED
  BY <1>2, <1>5, <1>6 DEF left

LEMMA ChargeTakes ==
    ASSUME NEW row \in HostRow, NEW t \in Task
    PROVE  LeftOf(Charged(row, t), row)
<1>1. Demand(CpuLimit[t]) \in Nat /\ Demand(MemLimit[t]) \in Nat
  BY DemandTyped
<1> QED
  BY <1>1 DEF Charged, LeftOf, HostRow

LEMMA LeftIsEligible ==
    ASSUME NEW now \in HostRow, NEW read \in HostRow, LeftOf(now, read),
           NEW t \in Task, Eligible(now, t)
    PROVE  Eligible(read, t)
<1>1. /\ CpuLimit[t] \in Nat \cup {NoLimit} /\ MemLimit[t] \in Nat \cup {NoLimit}
      /\ now.cpu \in Int /\ now.mem \in Int /\ read.cpu \in Int /\ read.mem \in Int
  BY LimitAssumption DEF HostRow
<1> QED
  BY <1>1 DEF LeftOf, Eligible, Enough

LEMMA PassesCorrectPreserved ==
    ASSUME HInv, [Next]_vars
    PROVE  PassesCorrect'
<1> USE DEF HInv, IInv
<1> SUFFICES ASSUME NEW s \in Session, pc'[s] \in {"pending", "place"}
             PROVE  PassCorrect(s)'
  BY DEF PassesCorrect, PassCorrect
<1>0. PassCorrect(s)
  BY DEF PassesCorrect
<1>1. CASE pc'[s] = pc[s] /\ orm'[s] = orm[s]
  BY <1>0, <1>1 DEF PassCorrect, ReadReady
<1>2. CASE ReadHosts(s)
  BY <1>2, HostsRead DEF PassCorrect
<1>3. CASE ReadPending(s)
  <2>1. CASE pc'[s] = AfterPass(s)
    BY <2>1 DEF AfterPass
  <2>2. CASE /\ pc'[s] = "place"
             /\ orm'[s].hosts = orm[s].hosts /\ orm'[s].view = orm[s].view
             /\ orm'[s].placed = orm[s].placed
    <3>1. orm[s].view = orm[s].hosts
      BY <1>0, <1>3 DEF ReadPending, PassCorrect
    <3>2. \A t \in Task : orm[s].placed[t] = NoHost
      BY <1>3 DEF ReadPending, SnapshotsSound, PlacedObject
    <3>3. \A h \in Host : orm[s].hosts[h] \in HostRow
      BY MemoryTyped
    <3> QED
      BY <2>2, <3>1, <3>2, <3>3 DEF PassCorrect, LeftOf, HostRow
  <2> QED
    BY <1>3, <2>1, <2>2, PendingRead
<1>4. CASE PlaceNext(s)
  <2>1. PICK t \in Task : \/ \E h \in BestHosts(orm[s].view, t) : Placing(s, t, h)
                          \/ Skipping(s, t)
    BY <1>4, NextPlaced
  <2>2. /\ pc[s] = "place" /\ pc'[s] = "place"
        /\ orm'[s].hosts = orm[s].hosts
    BY <1>4, NextPlaced
  <2>3. CASE Skipping(s, t)
    BY <1>0, <2>2, <2>3 DEF PassCorrect, Skipping, ReadReady
  <2>4. ASSUME NEW h \in BestHosts(orm[s].view, t), Placing(s, t, h)
        PROVE  PassCorrect(s)'
    <3>1. h \in Host /\ Eligible(orm[s].view[h], t)
      BY DEF BestHosts, Candidates
    <3>2. \A g \in Host : /\ orm[s].view[g] \in HostRow
                          /\ orm[s].hosts[g] \in HostRow
                          /\ LeftOf(orm[s].view[g], orm[s].hosts[g])
      BY <1>0, <2>2, MemoryTyped DEF PassCorrect
    <3>3. orm'[s].view = [orm[s].view EXCEPT ![h] = Charged(orm[s].view[h], t)]
      BY <2>4 DEF Placing, ChargeHost
    <3>4. ASSUME NEW g \in Host
          PROVE  LeftOf(orm'[s].view[g], orm'[s].hosts[g])
      <4>1. CASE g = h
        <5>1. orm'[s].view[g] = Charged(orm[s].view[h], t)
          BY <3>3, <4>1, MemoryTyped
        <5>2. LeftOf(Charged(orm[s].view[h], t), orm[s].view[h])
          BY <3>1, <3>2, ChargeTakes
        <5>3. Charged(orm[s].view[h], t) \in HostRow
          BY <3>1, <3>2, ChargedTyped
        <5> QED
          BY <2>2, <3>1, <3>2, <4>1, <5>1, <5>2, <5>3 DEF LeftOf, HostRow
      <4>2. CASE g # h
        BY <2>2, <3>2, <3>3, <4>2, MemoryTyped
      <4> QED
        BY <4>1, <4>2
    <3>5. ASSUME NEW u \in Task, orm'[s].placed[u] # NoHost
          PROVE  ReadReady(s, u, orm[s].placed[u])'
      <4>1. CASE u = t
        <5>1. orm'[s].placed[u] = h
          BY <2>4, <4>1, MemoryTyped DEF Placing
        <5>2. Eligible(orm[s].hosts[h], t)
          BY <3>1, <3>2, LeftIsEligible
        <5> QED
          BY <2>2, <4>1, <5>1, <5>2 DEF Eligible, ReadReady
      <4>2. CASE u # t
        <5>1. orm'[s].placed[u] = orm[s].placed[u]
          BY <2>4, <4>2, MemoryTyped DEF Placing
        <5> QED
          BY <1>0, <2>2, <3>5, <5>1 DEF PassCorrect, ReadReady
      <4> QED
        BY <4>1, <4>2
    <3> QED
      BY <2>2, <3>4, <3>5 DEF PassCorrect
  <2> QED
    BY <2>1, <2>3, <2>4
<1> QED
  BY <1>1, <1>2, <1>3, <1>4, PassReached

(* Host statuses: only a health check takes a host offline.                 *)

LEMMA OnlyHealthChecksTakeOffline ==
    ASSUME HInv, [Next]_vars, NEW h \in Host,
           hosts[h].status = "ONLINE", hosts'[h].status # "ONLINE"
    PROVE  CommitHealth
<1> USE DEF HInv, IInv
<1>0. hosts' # hosts
  OBVIOUS
<1>1. ASSUME NEW s \in Session, Pass(s)
      PROVE  FALSE
  <2>1. CommitPass(s)
    BY <1>0, <1>1 DEF Pass, ReadHosts, ReadPending, PlaceNext, RaisePass
  <2>2. orm[s].view[h].status = orm[s].hosts[h].status
    BY <2>1 DEF CommitPass, EndPass, PassesCorrect, PassCorrect, LeftOf
  <2> QED
    BY <2>1, <2>2 DEF CommitPass, UpdateHost, Column
<1>2. ASSUME NEW s \in Session, Handle(s)
      PROVE  FALSE
  <2>1. PutHost(s)
    BY <1>0, <1>2 DEF Handle, GetHost, RefreshHost, Pick, InsertTask, ReadBack,
                      GetTask, PutTask, DeleteTask, RefreshTask
  <2> DEFINE g == req[s].host
             new == [status |-> "ONLINE", fresh |-> TRUE,
                     cpu |-> req[s].cpu, mem |-> req[s].mem]
             row == UpdateHost(hosts[g], orm[s].hosts[g], new)
  <2>2. hosts' = [hosts EXCEPT ![g] = [row EXCEPT !.fresh = TRUE]]
    BY <2>1 DEF PutHost
  <2>3. hosts'[h] = hosts[h] \/ (h = g /\ hosts'[h].status = row.status)
    BY <2>2 DEF TypeOK, UpdateHost
  <2>4. row.status \in {hosts[g].status, "ONLINE"}
    BY DEF UpdateHost, Column
  <2> HIDE DEF row
  <2> QED
    BY <2>3, <2>4
<1>3. ASSUME NEW g \in Host, Expire(g)
      PROVE  FALSE
  BY <1>3 DEF Expire, TypeOK, HostRow
<1> QED
  BY <1>0, <1>1, <1>2, <1>3
  DEF Next, Work, Serve, Requests, BeginHeartbeat, BeginRegister, BeginCreate,
      BeginDelete, BeginStatus, BeginResult, Begin, Respond, Restart, LoopStep,
      Reconcile, RaiseHealth, SelectLost, vars

LEMMA HealthSoundPreserved ==
    ASSUME HInv, [Next]_vars
    PROVE  HealthSound'
<1> USE DEF HInv, IInv
<1>0. Loop \in Session
  OBVIOUS
<1> SUFFICES ASSUME pc'[Loop] = "requeue"
             PROVE  HealthSound'
  BY DEF HealthSound
<1>1. ASSUME NEW h \in Host, hosts[h].status = "ONLINE"
      PROVE  hosts'[h].status = "ONLINE"
  <2>1. ~CommitHealth
    BY <1>0 DEF CommitHealth, Step, Goto, TypeOK
  <2> QED
    BY <1>1, <2>1, OnlyHealthChecksTakeOffline
<1>2. CASE pc'[Loop] = pc[Loop] /\ orm'[Loop] = orm[Loop]
  BY <1>1, <1>2 DEF HealthSound, Abandoned
<1>3. CASE Reconcile
  <2> DEFINE view == [h \in Host |->
                 IF hosts[h].fresh THEN [hosts[h] EXCEPT !.status = "ONLINE"]
                                   ELSE hosts[h]]
             memory == [orm[Loop] EXCEPT !.hosts = hosts, !.view = view]
  <2>1. /\ memory.hosts = hosts /\ memory.view = view
        /\ memory.tasks = orm[Loop].tasks
    BY <1>0, MemoryTyped DEF Memory
  <2>2. orm'[Loop] = memory /\ hosts' = hosts
    BY <1>0, <1>3, HoldMoves DEF Reconcile
  <2>3. \A t \in Task : ~Exists(orm[Loop].tasks[t])
    BY <1>0, <1>3 DEF Reconcile, SnapshotsSound, LoadedRow, Resting
  <2>4. ASSUME NEW h \in Host, view[h].status = "ONLINE", ~view[h].fresh
        PROVE  hosts[h].status = "ONLINE"
    BY <2>4 DEF TypeOK, HostRow
  <2> HIDE DEF memory, view
  <2> QED
    BY <2>1, <2>2, <2>3, <2>4 DEF HealthSound, Exists
<1>4. ASSUME NEW h \in Host, SelectLost(h)
      PROVE  HealthSound'
  <2> DEFINE lost == {t \in Task : tasks[t].host = h /\ tasks[t].status \in Active}
             old == orm[Loop].view
             view == [old EXCEPT ![h] = [old[h] EXCEPT !.status = "OFFLINE"]]
             loaded == orm[Loop].tasks
             found == [t \in Task |-> IF t \in lost /\ ~Exists(loaded[t])
                                      THEN tasks[t] ELSE loaded[t]]
             memory == [orm[Loop] EXCEPT !.view = view, !.tasks = found]
  <2>1. /\ memory.hosts = orm[Loop].hosts /\ memory.view = view
        /\ memory.tasks = found
    BY <1>0, MemoryTyped DEF Memory
  <2>2. orm'[Loop] = memory /\ pc[Loop] = "requeue"
    BY <1>0, <1>4, HoldMoves DEF SelectLost
  <2>3. /\ view[h].status = "OFFLINE"
        /\ \A g \in Host \ {h} : view[g] = old[g]
    BY <1>0, MemoryTyped DEF HostRow
  <2>4. orm[Loop].hosts[h].status = "ONLINE"
    BY <1>4, <2>2 DEF SelectLost, Lapsed, HealthSound
  <2>5. ASSUME NEW t \in Task, Exists(found[t])
        PROVE  \E g \in Host : g = found[t].host /\ Abandoned(memory, g)
    <3>1. CASE t \in lost /\ ~Exists(loaded[t])
      BY <2>1, <2>3, <2>4, <3>1 DEF Abandoned
    <3>2. CASE found[t] = loaded[t]
      <4>1. PICK g \in Host : g = loaded[t].host /\ Abandoned(orm[Loop], g)
        BY <2>2, <2>5, <3>2 DEF HealthSound
      <4> QED
        BY <2>1, <2>3, <2>4, <3>2, <4>1 DEF Abandoned
    <3> QED
      BY <3>1, <3>2
  <2>6. ASSUME NEW g \in Host, view[g].status = "ONLINE", ~view[g].fresh
        PROVE  orm[Loop].hosts[g].status = "ONLINE"
    BY <2>2, <2>3, <2>6 DEF HealthSound
  <2> HIDE DEF memory, found, view, old
  <2> QED
    BY <1>1, <2>1, <2>2, <2>5, <2>6 DEF HealthSound
<1>5. ASSUME NEW s \in Thread, Requests(s)
      PROVE  pc'[Loop] = pc[Loop] /\ orm'[Loop] = orm[Loop]
  <2>1. orm' = orm /\ pc' \in {[pc EXCEPT ![s] = l] : l \in {"get", "put"}}
    BY <1>5 DEF Requests, BeginHeartbeat, BeginRegister, BeginCreate,
                BeginDelete, BeginStatus, BeginResult, Begin, Goto
  <2> QED
    BY <2>1, SessionAssumption DEF TypeOK
<1>6. ASSUME NEW s \in Thread, Serve(s) \/ Respond(s)
      PROVE  pc'[Loop] = pc[Loop] /\ orm'[Loop] = orm[Loop]
  BY <1>6, SessionAssumption, StatementMoves DEF Untouched
<1>7. CASE Pass(Loop) \/ CommitHealth \/ RaiseHealth
  BY <1>0, <1>7
  DEF Pass, ReadHosts, ReadPending, PlaceNext, CommitPass, RaisePass, CommitHealth,
      RaiseHealth, AfterPass, AfterRaise, Step, Goto, TypeOK
<1>8. CASE Restart
  BY <1>0, <1>8 DEF Restart
<1>9. CASE pc' = pc /\ orm' = orm
  BY <1>2, <1>9
<1> QED
  BY <1>2, <1>3, <1>4, <1>5, <1>6, <1>7, <1>8, <1>9
  DEF Next, Work, LoopStep, Expire, vars

-----------------------------------------------------------------------------
(* The invariant. *)

LEMMA HInitial == Init => HInv
<1> SUFFICES ASSUME Init
             PROVE  HInv
  OBVIOUS
<1>1. CreatesAlone /\ CreatesOnce
  BY DEF Init, CreatesAlone, CreatesOnce, NoRequest
<1>2. LoadedExisted
  BY EmptyHoldsNothing DEF Init, LoadedExisted
<1>3. PassesCorrect /\ HealthSound
  BY DEF Init, PassesCorrect, PassCorrect, HealthSound
<1> QED
  BY <1>1, <1>2, <1>3, InitEstablishes DEF HInv

LEMMA HPreserved == HInv /\ [Next]_vars => HInv'
<1> SUFFICES ASSUME HInv, [Next]_vars
             PROVE  HInv'
  OBVIOUS
<1>1. IInv'
  BY StepPreserves DEF HInv
<1> QED
  BY <1>1, CreatesPreserved, CreatesOncePreserved, LoadedExistedPreserved,
     PassesCorrectPreserved, HealthSoundPreserved DEF HInv

(* A task goes back to PENDING only in the commit of a health check that    *)
(* turns the host it was on from ONLINE to OFFLINE (reconcile_host_health   *)
(* in src/master/monitor.py), whatever passes, reports and cancellations    *)
(* are under way.                                                           *)
THEOREM RequeuesWithTheHost == Spec => RequeuedWithItsHost
<1> DEFINE Requeues == \A t \in Task : BackToPending(t) =>
                          \E h \in Host : /\ h = orm[Loop].tasks[t].host
                                          /\ hosts[h].status = "ONLINE"
                                          /\ hosts'[h].status = "OFFLINE"
<1>1. HInv /\ [Next]_vars => [Requeues]_vars
  <2> SUFFICES ASSUME HInv, [Next]_vars, NEW t \in Task, BackToPending(t)
               PROVE  \E h \in Host : /\ h = orm[Loop].tasks[t].host
                                      /\ hosts[h].status = "ONLINE"
                                      /\ hosts'[h].status = "OFFLINE"
    OBVIOUS
  <2> USE DEF HInv, IInv
  <2>1. Exists(tasks[t]) /\ tasks'[t].status = "PENDING" /\ tasks'[t].status # tasks[t].status
    BY DEF BackToPending
  <2>2. PICK s \in Session : Writes(s, t)
    BY <2>1, StatusWritten
  <2>3. ~(InsertTask(s) /\ req[s].op = "create" /\ req[s].task = t)
    BY <2>1 DEF InsertTask, CreatesOnce, Unborn, Exists
  <2>4. CommitHealth /\ t \in Lost
    BY <2>1, <2>2, <2>3 DEF Writes, Progress, Finished
  <2>5. PICK h \in Host : h = orm[Loop].tasks[t].host /\ Abandoned(orm[Loop], h)
    BY <2>4 DEF CommitHealth, Lost, HealthSound
  <2>6. hosts[h].status = "ONLINE"
    BY <2>4, <2>5 DEF CommitHealth, HealthSound, Abandoned
  <2>7. hosts'[h].status = "OFFLINE"
    BY <2>4, <2>5 DEF CommitHealth, UpdateHost, Column, Abandoned
  <2> QED
    BY <2>5, <2>6, <2>7
<1> QED
  BY <1>1, HInitial, HPreserved, PTL DEF Spec, RequeuedWithItsHost

(* A finished task is taken up again only by old news: the status report of *)
(* an agent that still works on it (update_task_status in src/master/api/   *)
(* agent.py asks for no status), or a pass or a health check that had       *)
(* loaded it before it finished.                                            *)
THEOREM RevivesByOldNews == Spec => RevivedByOldNews
<1> DEFINE Revives == \A t \in Task \ raced : Revived(t) =>
                         \E s \in Session : pc'[s] # pc[s] /\ HasOldNews(s, t)
<1>1. HInv /\ [Next]_vars => [Revives]_vars
  <2> SUFFICES ASSUME HInv, [Next]_vars, NEW t \in Task \ raced, Revived(t)
               PROVE  \E s \in Session : pc'[s] # pc[s] /\ HasOldNews(s, t)
    OBVIOUS
  <2> USE DEF HInv, IInv
  <2>1. /\ tasks[t].status \in Finished
        /\ tasks'[t].status \in {"PENDING"} \cup Active
        /\ tasks'[t].status # tasks[t].status
    BY DEF Revived, Active, Finished
  <2>2. PICK s \in Session : Writes(s, t)
    BY <2>1, StatusWritten
  <2>3. LoadedRow(s, t) /\ PlacedObject(s, t)
    BY DEF SnapshotsSound
  <2>4. CASE InsertTask(s) /\ req[s].op = "create" /\ req[s].task = t
    BY <2>1, <2>4 DEF InsertTask, CreatesOnce, Unborn, Finished
  <2>5. CASE CommitPass(s) /\ t \in Chosen(s)
    <3>1. pc[s] = "place" /\ orm[s].tasks[t].status = "PENDING"
      BY <2>3, <2>5 DEF Chosen, PlacedObject, LoadedRow, Passing, Unassigned
    <3>2. pc'[s] # "place"
      BY <2>5 DEF CommitPass, Step, Goto, TypeOK, AfterPass
    <3> QED
      BY <3>1, <3>2 DEF HasOldNews
  <2>6. CASE PutTask(s) /\ req[s].task = t /\ req[s].op = "status"
    <3>1. pc[s] = "put" /\ pc'[s] # "put"
      BY <2>6 DEF PutTask, Answer, Goto, TypeOK
    <3> QED
      BY <2>6, <3>1 DEF HasOldNews
  <2>7. CASE s = Loop /\ CommitHealth /\ t \in Lost
    <3>1. pc[s] = "requeue" /\ orm[s].tasks[t].status \in Active
      BY <2>3, <2>7 DEF CommitHealth, Lost, LoadedRow, Assigned
    <3>2. pc'[s] # "requeue"
      BY <2>7 DEF CommitHealth, Step, Goto, TypeOK
    <3> QED
      BY <3>1, <3>2 DEF HasOldNews
  <2>8. CASE tasks'[t].status \in Finished \cup {"DELETED"}
    BY <2>1, <2>8 DEF Active, Finished
  <2> QED
    BY <2>2, <2>4, <2>5, <2>6, <2>7, <2>8 DEF Writes
<1> QED
  BY <1>1, HInitial, HPreserved, PTL DEF Spec, RevivedByOldNews

-----------------------------------------------------------------------------
(* The pass of a session. *)

(* A pass of schedule_pending_tasks (src/master/scheduler.py), from its two *)
(* queries to its commit, is a run of SchedulerPass on the rows and tasks   *)
(* the session holds: what SchedulerPassProofs shows of a pass alone holds  *)
(* of every pass of the server, whatever the other sessions write meanwhile.*)
THEOREM PassesRunAlone == Spec => PassesAsAlone
<1> DEFINE Alone == \A s \in Session : pc'[s] = "place" =>
                       IF pc[s] = "place"
                       THEN PassOf(s)!Next \/ UNCHANGED PassOf(s)!vars
                       ELSE PassOf(s)!Init'
<1>1. HInv /\ RInv /\ [Next]_vars => [Alone]_vars
  <2> SUFFICES ASSUME HInv, RInv, [Next]_vars, NEW s \in Session, pc'[s] = "place"
               PROVE  IF pc[s] = "place"
                      THEN PassOf(s)!Next \/ UNCHANGED PassOf(s)!vars
                      ELSE PassOf(s)!Init'
    OBVIOUS
  <2> USE DEF HInv, IInv
  <2>1. CASE pc'[s] = pc[s] /\ orm'[s] = orm[s]
    BY <2>1 DEF PassOf!vars
  <2>2. CASE ReadHosts(s)
    BY <2>2, HostsRead
  <2>3. CASE ReadPending(s)
    <3>1. /\ orm'[s].hosts = orm[s].hosts /\ orm'[s].view = orm[s].view
          /\ orm'[s].placed = orm[s].placed
          /\ orm'[s].todo = {t \in Task : Exists(orm'[s].tasks[t])}
      BY <2>3, PendingRead DEF AfterPass
    <3>2. pc[s] = "pending" /\ orm[s].view = orm[s].hosts
      BY <2>3 DEF ReadPending, PassesCorrect, PassCorrect
    <3>3. orm[s].hosts \in [Host -> {row \in HostRow : row.cpu >= 0 /\ row.mem >= 0}]
      BY MemoryTyped DEF RInv, NoDebtInMemory, NoDebtIn
    <3>4. orm[s].placed = [t \in Task |-> NoHost]
      <4>1. \A t \in Task : orm[s].placed[t] = NoHost
        BY <3>2 DEF SnapshotsSound, PlacedObject
      <4> QED
        BY <4>1, MemoryTyped
    <3> QED
      BY <3>1, <3>2, <3>3, <3>4 DEF PassOf!Init
  <2>4. CASE PlaceNext(s)
    <3>1. /\ pc[s] = "place"
          /\ orm'[s].hosts = orm[s].hosts
          /\ orm'[s].tasks = orm[s].tasks
      BY <2>4, NextPlaced
    <3>2. PICK t \in Task :
             /\ IsNext(t, orm[s].todo)
             /\ orm'[s].todo = orm[s].todo \ {t}
             /\ \/ \E h \in BestHosts(orm[s].view, t) : Placing(s, t, h)
                \/ Skipping(s, t)
      BY <2>4, NextPlaced
    <3>3. PassOf(s)!IsNext(t, orm[s].todo)
      BY <3>2 DEF IsNext, Before, PassOf!IsNext, PassOf!Before
    <3>4. CASE Skipping(s, t)
      <4>1. PassOf(s)!Candidates(orm[s].view, t) = {}
        BY <3>4 DEF Skipping, Candidates, Eligible, Enough, PassOf!Candidates,
                    PassOf!Eligible, PassOf!Enough
      <4>2. PassOf(s)!Skip(t)
        BY <3>1, <3>2, <3>3, <3>4, <4>1 DEF Skipping, PassOf!Skip
      <4> QED
        BY <3>1, <4>2 DEF PassOf!Next
    <3>5. ASSUME NEW h \in BestHosts(orm[s].view, t), Placing(s, t, h)
          PROVE  PassOf(s)!Next
      <4>1. h \in PassOf(s)!BestHosts(orm[s].view, t)
        BY DEF BestHosts, Candidates, Eligible, Enough, NoHigher, Score, Demand,
               PassOf!BestHosts, PassOf!Candidates, PassOf!Eligible, PassOf!Enough,
               PassOf!NoHigher, PassOf!Score, PassOf!Demand
      <4>2. orm'[s].view = PassOf(s)!ChargeHost(orm[s].view, h, t)
        BY <3>5 DEF Placing, ChargeHost, Charged, Demand, PassOf!ChargeHost,
                    PassOf!Charged, PassOf!Demand
      <4>3. PassOf(s)!Place(t)
        BY <3>1, <3>2, <3>3, <3>5, <4>1, <4>2 DEF Placing, PassOf!Place
      <4> QED
        BY <4>3 DEF PassOf!Next
    <3> QED
      BY <3>1, <3>2, <3>4, <3>5
  <2> QED
    BY <2>1, <2>2, <2>3, <2>4, PassReached
<1> QED
  BY <1>1, HInitial, HPreserved, RInitial, RPreserved, PTL DEF Spec, PassesAsAlone

(* Who writes the host of a task: the commit of a pass that has chosen it.  *)
LEMMA HostWritten ==
    ASSUME IInv, [Next]_vars, NEW t \in Task,
           tasks'[t].host \notin {tasks[t].host, NoHost}
    PROVE  \E s \in Session : CommitPass(s) /\ tasks'[t].host = orm[s].placed[t]
<1> USE DEF IInv
<1>0. \A s \in Session : RequestSound(s)
  BY DEF SnapshotsSound
<1>1. tasks' # tasks
  OBVIOUS
<1>2. ASSUME NEW loaded, NEW new, new.host = loaded.host
      PROVE  UpdateTask(tasks[t], loaded, new).host = tasks[t].host
  BY <1>2 DEF UpdateTask, Column
<1>3. ASSUME NEW s \in Session, Pass(s)
      PROVE  CommitPass(s) /\ tasks'[t].host = orm[s].placed[t]
  <2>1. CommitPass(s)
    BY <1>1, <1>3 DEF Pass, ReadHosts, ReadPending, PlaceNext, RaisePass
  <2>2. tasks'[t] = PlacedRow(s, t)
    BY <2>1 DEF CommitPass
  <2>3. Scheduled(orm[s].tasks[t], orm[s].placed[t]).host = orm[s].placed[t]
    BY MemoryTyped DEF Scheduled, TaskRow
  <2>4. tasks'[t].host \in {tasks[t].host, orm[s].placed[t]}
    BY <2>2, <2>3 DEF PlacedRow, UpdateTask, Column
  <2> QED
    BY <2>1, <2>4
<1>4. ASSUME NEW s \in Session, Handle(s)
      PROVE  FALSE
  <2>1. InsertTask(s) \/ PutTask(s) \/ DeleteTask(s)
    BY <1>1, <1>4 DEF Handle, GetHost, PutHost, RefreshHost, Pick, ReadBack,
                      GetTask, RefreshTask
  <2> DEFINE u == req[s].task
             loaded == orm[s].tasks[u]
  <2>2. u \in Task
    BY <1>0, <2>1 DEF RequestSound, InsertTask, PutTask, DeleteTask, Deletes, TaskWrites
  <2>3. tasks'[u].host \in {tasks[u].host, NoHost}
    <3>1. CASE PutTask(s)
      <4>1. loaded \in TaskRow
        BY <2>2, MemoryTyped
      <4>2. Changed(s, loaded).host = loaded.host
        BY <3>1, <4>1 DEF PutTask, TaskWrites, Changed, WithStatus, WithResult,
                          Cancelled, TaskRow
      <4>3. UpdateTask(tasks[u], loaded, Changed(s, loaded)).host = tasks[u].host
        BY <4>2 DEF UpdateTask, Column
      <4> QED
        BY <2>2, <3>1, <4>3 DEF PutTask, TypeOK
    <3>2. CASE InsertTask(s) \/ DeleteTask(s)
      BY <2>2, <3>2 DEF InsertTask, DeleteTask, NewTask, NoTaskRow, TypeOK
    <3> QED
      BY <2>1, <3>1, <3>2
  <2>4. \A v \in Task \ {u} : tasks'[v] = tasks[v]
    BY <2>1 DEF InsertTask, PutTask, DeleteTask, TypeOK
  <2> QED
    BY <2>3, <2>4
<1>5. CASE LoopStep
  <2>1. CommitHealth
    BY <1>1, <1>5 DEF LoopStep, Reconcile, RaiseHealth, SelectLost
  <2> DEFINE loaded == orm[Loop].tasks[t]
  <2>2. tasks'[t] = UpdateTask(tasks[t], loaded, Requeued(loaded))
    BY <2>1 DEF CommitHealth
  <2>3. Requeued(loaded).host = NoHost
    BY MemoryTyped DEF Requeued, TaskRow
  <2> QED
    BY <2>2, <2>3 DEF UpdateTask, Column
<1> QED
  BY <1>1, <1>3, <1>4, <1>5
  DEF Next, Work, Serve, Requests, BeginHeartbeat, BeginRegister, BeginCreate,
      BeginDelete, BeginStatus, BeginResult, Begin, Respond, Expire, Restart, vars

(* A task is assigned only to a host that the pass has read ONLINE, with a  *)
(* fresh heartbeat and room for the task (_is_host_eligible in              *)
(* src/master/scheduler.py), however many tasks the pass has put there      *)
(* before and whatever the other sessions write.                            *)
THEOREM AssignsWhenReady == Spec => AssignedWhenReady
<1> DEFINE Ready == \A t \in Task :
                       LET h == tasks'[t].host
                       IN  h \notin {tasks[t].host, NoHost} =>
                              \E s \in Session : pc[s] = "place" /\ ReadReady(s, t, h)
<1>1. HInv /\ [Next]_vars => [Ready]_vars
  <2> SUFFICES ASSUME HInv, [Next]_vars, NEW t \in Task,
                      tasks'[t].host \notin {tasks[t].host, NoHost}
               PROVE  \E s \in Session : pc[s] = "place" /\ ReadReady(s, t, tasks'[t].host)
    OBVIOUS
  <2>1. PICK s \in Session : CommitPass(s) /\ tasks'[t].host = orm[s].placed[t]
    BY HostWritten DEF HInv
  <2>2. pc[s] = "place" /\ PassCorrect(s)
    BY <2>1 DEF CommitPass, EndPass, HInv, PassesCorrect
  <2>3. ReadReady(s, t, orm[s].placed[t])
    BY <2>1, <2>2 DEF PassCorrect
  <2> QED
    BY <2>1, <2>2, <2>3
<1> QED
  BY <1>1, HInitial, HPreserved, PTL DEF Spec, AssignedWhenReady

-----------------------------------------------------------------------------
(* Deletions. *)

(* A deleted row stays deleted.                                             *)
LEMMA GoneStays ==
    ASSUME HInv, [Next]_vars, NEW t \in Task, tasks[t].status = "DELETED"
    PROVE  tasks'[t].status = "DELETED"
<1> USE DEF HInv
<1>1. CASE tasks'[t].status # tasks[t].status
  <2>1. PICK s \in Session : Writes(s, t)
    BY <1>1, StatusWritten
  <2>2. ~(InsertTask(s) /\ req[s].op = "create" /\ req[s].task = t)
    BY DEF InsertTask, CreatesOnce, Unborn
  <2> QED
    BY <2>1, <2>2 DEF Writes, Exists
<1> QED
  BY <1>1
=============================================================================
