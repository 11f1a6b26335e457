---------------------------- MODULE MasterProofs ----------------------------
(***************************************************************************)
(* Machine-checked proofs about Master, for any hosts, tasks, priorities,   *)
(* limits and any number of worker threads.                                 *)
(***************************************************************************)
EXTENDS Master, TLAPS

USE DEF Session

-----------------------------------------------------------------------------
(* The operators the handlers apply to rows. *)

LEMMA NullsTyped ==
    /\ NoHostRow \in HostRow
    /\ NoTaskRow \in TaskRow
    /\ NewTask \in TaskRow
    /\ [NoTaskRow EXCEPT !.status = "DELETED"] \in TaskRow
    /\ NoRequest \in Request
    /\ EmptyMemory \in Memory
<1>1. NoHostRow \in HostRow
  BY DEF NoHostRow, HostRow
<1>2. NoTaskRow \in TaskRow
  BY DEF NoTaskRow, TaskRow, Exit
<1>3. /\ NewTask \in TaskRow
      /\ [NoTaskRow EXCEPT !.status = "DELETED"] \in TaskRow
  BY <1>2 DEF NewTask, TaskRow, Status
<1>4. NoRequest \in Request
  BY DEF NoRequest, Request, Exit
<1>5. EmptyMemory \in Memory
  BY <1>1, <1>2 DEF EmptyMemory, Memory
<1> QED
  BY <1>1, <1>2, <1>3, <1>4, <1>5

LEMMA UpdateTaskTyped ==
    ASSUME NEW stored \in TaskRow, NEW loaded \in TaskRow, NEW new \in TaskRow
    PROVE  UpdateTask(stored, loaded, new) \in TaskRow
BY DEF UpdateTask, TaskRow, Column

LEMMA UpdateHostTyped ==
    ASSUME NEW stored \in HostRow, NEW loaded \in HostRow, NEW new \in HostRow
    PROVE  UpdateHost(stored, loaded, new) \in HostRow
BY DEF UpdateHost, HostRow, Column

LEMMA TaskChangesTyped ==
    ASSUME NEW row \in TaskRow
    PROVE  /\ \A h \in Host : Scheduled(row, h) \in TaskRow
           /\ Requeued(row) \in TaskRow
           /\ Cancelled(row) \in TaskRow
           /\ \A status \in Status : WithStatus(row, status) \in TaskRow
           /\ \A status \in Status, exit \in Exit :
                 WithResult(row, status, exit) \in TaskRow
<1>1. \A h \in Host : Scheduled(row, h) \in TaskRow
  BY DEF Scheduled, TaskRow, Status, Active
<1>2. Requeued(row) \in TaskRow
  BY DEF Requeued, TaskRow, Status
<1>3. Cancelled(row) \in TaskRow
  BY DEF Cancelled, TaskRow, Status, Finished
<1>4. ASSUME NEW status \in Status
      PROVE  WithStatus(row, status) \in TaskRow
  <2> DEFINE start == row.start \/ status \in {"BUILDING", "RUNNING"}
             done == row.done \/ status \in Finished
  <2>1. start \in BOOLEAN /\ done \in BOOLEAN
    OBVIOUS
  <2>2. WithStatus(row, status) =
          [row EXCEPT !.status = status, !.start = start, !.done = done]
    BY DEF WithStatus
  <2> HIDE DEF start, done
  <2> QED
    BY <2>1, <2>2 DEF TaskRow
<1>5. \A status \in Status, exit \in Exit :
         WithResult(row, status, exit) \in TaskRow
  BY DEF WithResult, TaskRow
<1> QED
  BY <1>1, <1>2, <1>3, <1>4, <1>5

LEMMA DemandTyped ==
    ASSUME NEW t \in Task
    PROVE  Demand(CpuLimit[t]) \in Nat /\ Demand(MemLimit[t]) \in Nat
BY LimitAssumption DEF Demand

LEMMA ChargedTyped ==
    ASSUME NEW row \in HostRow, NEW t \in Task
    PROVE  Charged(row, t) \in HostRow
<1> DEFINE cpu == row.cpu - Demand(CpuLimit[t])
           memory == row.mem - Demand(MemLimit[t])
<1>1. cpu \in Int /\ memory \in Int
  BY DemandTyped DEF HostRow
<1>2. Charged(row, t) = [row EXCEPT !.cpu = cpu, !.mem = memory]
  BY DEF Charged
<1> HIDE DEF cpu, memory
<1> QED
  BY <1>1, <1>2 DEF HostRow

LEMMA ChargeTyped ==
    ASSUME NEW view \in [Host -> HostRow], NEW h \in Host, NEW t \in Task
    PROVE  ChargeHost(view, h, t) \in [Host -> HostRow]
BY ChargedTyped DEF ChargeHost

-----------------------------------------------------------------------------
(* The moves every action is made of. *)

LEMMA GotoTyped ==
    ASSUME TypeOK, NEW s \in Session, NEW l \in PC, Goto(s, l)
    PROVE  pc' \in [Session -> PC]
BY DEF TypeOK, Goto

LEMMA HoldTyped ==
    ASSUME TypeOK, NEW s \in Session, NEW memory \in Memory, Hold(s, memory)
    PROVE  orm' \in [Session -> Memory]
BY DEF TypeOK, Hold

LEMMA ForgetTyped ==
    ASSUME TypeOK, NEW s \in Session, Forget(s)
    PROVE  orm' \in [Session -> Memory]
BY NullsTyped, HoldTyped DEF Forget

LEMMA MemoryUpdates ==
    ASSUME NEW m \in Memory,
           NEW rows \in [Host -> HostRow], NEW view \in [Host -> HostRow],
           NEW loaded \in [Task -> TaskRow], NEW todo \in SUBSET Task,
           NEW placed \in [Task -> Host \cup {NoHost}]
    PROVE  /\ [m EXCEPT !.hosts = rows] \in Memory
           /\ [m EXCEPT !.tasks = loaded] \in Memory
           /\ [m EXCEPT !.todo = todo] \in Memory
           /\ [m EXCEPT !.hosts = rows, !.view = view] \in Memory
           /\ [m EXCEPT !.view = view, !.tasks = loaded] \in Memory
           /\ [m EXCEPT !.todo = todo, !.tasks = loaded] \in Memory
           /\ [m EXCEPT !.todo = todo, !.placed = placed, !.view = view] \in Memory
BY DEF Memory

LEMMA MemoryTyped ==
    ASSUME TypeOK, NEW s \in Session
    PROVE  /\ orm[s] \in Memory
           /\ orm[s].hosts \in [Host -> HostRow]
           /\ orm[s].view \in [Host -> HostRow]
           /\ orm[s].tasks \in [Task -> TaskRow]
           /\ orm[s].todo \subseteq Task
           /\ orm[s].placed \in [Task -> Host \cup {NoHost}]
BY DEF TypeOK, Memory

LEMMA RequestTyped ==
    ASSUME TypeOK, NEW s \in Session
    PROVE  /\ req[s].host \in Host \cup {NoHost}
           /\ req[s].task \in Task \cup {NoTask}
           /\ req[s].status \in Status \cup {"NONE"}
           /\ req[s].exit \in Exit
           /\ req[s].cpu \in Nat /\ req[s].mem \in Nat
BY DEF TypeOK, Request

LEMMA BeginTyped ==
    ASSUME TypeOK, NEW s \in Session, NEW r \in Request, NEW l \in PC, Begin(s, r, l)
    PROVE  TypeOK'
<1>1. pc' \in [Session -> PC]
  BY GotoTyped DEF Begin
<1>2. req' \in [Session -> Request]
  BY DEF TypeOK, Begin
<1> QED
  BY <1>1, <1>2 DEF TypeOK, Begin

(* A step that leaves req and raced alone. *)
LEMMA StepTyped ==
    ASSUME TypeOK, NEW s \in Session, NEW l \in PC, Step(s, l),
           hosts' \in [Host -> HostRow], tasks' \in [Task -> TaskRow],
           orm' \in [Session -> Memory]
    PROVE  TypeOK'
BY GotoTyped DEF TypeOK, Step

LEMMA AnswerTyped ==
    ASSUME TypeOK, NEW s \in Session, NEW l \in PC, Answer(s, l)
    PROVE  pc' \in [Session -> PC] /\ orm' \in [Session -> Memory]
BY GotoTyped, ForgetTyped DEF Answer

LEMMA AfterTyped ==
    ASSUME NEW s \in Session
    PROVE  AfterPass(s) \in PC /\ AfterRaise(s) \in PC
BY DEF AfterPass, AfterRaise, PC

-----------------------------------------------------------------------------
(* Type correctness, one lemma per group of actions. *)

LEMMA RequestsTyped ==
    ASSUME TypeOK, NEW s \in Thread, Requests(s)
    PROVE  TypeOK'
<1>0. s \in Session /\ "get" \in PC /\ "put" \in PC
  BY DEF PC
<1>1. ASSUME NEW h \in Host, NEW cpu \in CpuReport, NEW m \in MemReport,
             BeginHeartbeat(s, h, cpu, m) \/ BeginRegister(s, h, cpu, m)
      PROVE  TypeOK'
  <2>1. Measured(cpu, m) \in Request
    BY NullsTyped, ReportAssumption DEF Measured, Request
  <2>2. /\ [Measured(cpu, m) EXCEPT !.op = "heartbeat", !.host = h] \in Request
        /\ [Measured(cpu, m) EXCEPT !.op = "register", !.host = h] \in Request
    BY <2>1 DEF Request
  <2> QED
    BY <1>0, <1>1, <2>2, BeginTyped DEF BeginHeartbeat, BeginRegister
<1>2. ASSUME NEW t \in Task, BeginCreate(s, t) \/ BeginDelete(s, t)
      PROVE  TypeOK'
  <2>1. /\ [NoRequest EXCEPT !.op = "create", !.task = t] \in Request
        /\ [NoRequest EXCEPT !.op = "delete", !.task = t] \in Request
    BY NullsTyped DEF Request
  <2> QED
    BY <1>0, <1>2, <2>1, BeginTyped DEF BeginCreate, BeginDelete
<1>3. ASSUME NEW t \in Task, NEW status \in Progress, BeginStatus(s, t, status)
      PROVE  TypeOK'
  <2>1. [NoRequest EXCEPT !.op = "status", !.task = t, !.status = status] \in Request
    BY NullsTyped DEF Request, Progress, Status, Active
  <2> QED
    BY <1>0, <1>3, <2>1, BeginTyped DEF BeginStatus
<1>4. ASSUME NEW t \in Task, NEW outcome \in Reported, BeginResult(s, t, outcome)
      PROVE  TypeOK'
  <2>1. outcome[1] \in Status /\ outcome[2] \in Exit
    <3>1. outcome \in Outcome
      BY ReportedAssumption
    <3>2. \/ outcome = <<"SUCCESS", "zero">>
          \/ outcome = <<"FAILED", "nonzero">>
          \/ outcome = <<"FAILED", "zero">>
          \/ outcome = <<"FAILED", "null">>
      BY <3>1 DEF Outcome
    <3> QED
      BY <3>2 DEF Status, Finished, Exit
  <2>2. [NoRequest EXCEPT !.op = "result", !.task = t, !.status = outcome[1],
                          !.exit = outcome[2]] \in Request
    BY <2>1, NullsTyped DEF Request
  <2> QED
    BY <1>0, <1>4, <2>2, BeginTyped DEF BeginResult
<1> QED
  BY <1>1, <1>2, <1>3, <1>4 DEF Requests

LEMMA HostHandlersTyped ==
    ASSUME TypeOK, NEW s \in Session,
           GetHost(s) \/ PutHost(s) \/ RefreshHost(s) \/ Pick(s),
           req[s].host \in Host
    PROVE  TypeOK'
<1>0. {"put", "refresh", "pass", "reply"} \subseteq PC
  BY DEF PC
<1> DEFINE h == req[s].host
<1>1. ASSUME HoldHost(s, h)
      PROVE  orm' \in [Session -> Memory]
  <2>1. [orm[s].hosts EXCEPT ![h] = hosts[h]] \in [Host -> HostRow]
    BY MemoryTyped DEF TypeOK
  <2>2. [orm[s] EXCEPT !.hosts = [orm[s].hosts EXCEPT ![h] = hosts[h]]] \in Memory
    BY <2>1, MemoryTyped, MemoryUpdates
  <2> QED
    BY <1>1, <2>2, HoldTyped DEF HoldHost
<1>2. CASE GetHost(s)
  BY <1>0, <1>1, <1>2, StepTyped DEF GetHost, TypeOK
<1>3. CASE RefreshHost(s)
  BY <1>0, <1>1, <1>3, StepTyped DEF RefreshHost, TypeOK
<1>4. CASE PutHost(s)
  <2> DEFINE new == [status |-> "ONLINE", fresh |-> TRUE,
                     cpu |-> req[s].cpu, mem |-> req[s].mem]
             row == UpdateHost(hosts[h], orm[s].hosts[h], new)
  <2>1. new \in HostRow
    BY RequestTyped DEF HostRow, HostStatus
  <2>2. row \in HostRow
    BY <2>1, UpdateHostTyped, MemoryTyped DEF TypeOK
  <2>3. hosts' = [hosts EXCEPT ![h] = [row EXCEPT !.fresh = TRUE]]
    BY <1>4 DEF PutHost
  <2> HIDE DEF row
  <2>4. [row EXCEPT !.fresh = TRUE] \in HostRow
    BY <2>2 DEF HostRow
  <2>5. hosts' \in [Host -> HostRow]
    BY <2>3, <2>4 DEF TypeOK
  <2> QED
    BY <1>0, <1>4, <2>5, StepTyped DEF PutHost, TypeOK
<1>5. CASE Pick(s)
  <2>1. pc' \in [Session -> PC] /\ orm' \in [Session -> Memory]
    BY <1>0, <1>5, AnswerTyped DEF Pick
  <2>2. PICK t \in Task \cup {NoTask} : req' = [req EXCEPT ![s].task = t]
    BY <1>5 DEF Pick, Waiting
  <2>3. req' \in [Session -> Request]
    BY <2>2 DEF TypeOK, Request
  <2> QED
    BY <1>5, <2>1, <2>3 DEF Pick, TypeOK
<1> QED
  BY <1>2, <1>3, <1>4, <1>5

LEMMA PassTyped ==
    ASSUME TypeOK, NEW s \in Session, Pass(s)
    PROVE  TypeOK'
<1>0. {"pending", "place"} \subseteq PC
  BY DEF PC
<1> USE MemoryTyped
<1>1. CASE ReadHosts(s)
  <2> DEFINE rows == [h \in Host |-> IF orm[s].hosts[h].status # "NONE"
                                     THEN orm[s].hosts[h] ELSE hosts[h]]
  <2>1. rows \in [Host -> HostRow]
    BY DEF TypeOK
  <2>2. Hold(s, [orm[s] EXCEPT !.hosts = rows, !.view = rows])
    BY <1>1 DEF ReadHosts
  <2> HIDE DEF rows
  <2>3. [orm[s] EXCEPT !.hosts = rows, !.view = rows] \in Memory
    BY <2>1, MemoryUpdates
  <2> QED
    BY <1>0, <1>1, <2>2, <2>3, HoldTyped, StepTyped DEF ReadHosts, TypeOK
<1>2. CASE ReadPending(s)
  <2> DEFINE queue == {t \in Task : tasks[t].status = "PENDING"}
             loaded == [t \in Task |-> IF t \notin queue THEN NoTaskRow
                                       ELSE IF Exists(orm[s].tasks[t])
                                       THEN orm[s].tasks[t] ELSE tasks[t]]
  <2>1. CASE Forget(s) /\ Step(s, AfterPass(s))
    BY <1>2, <2>1, AfterTyped, ForgetTyped, StepTyped DEF ReadPending, TypeOK
  <2>2. CASE /\ Hold(s, [orm[s] EXCEPT !.todo = queue, !.tasks = loaded])
             /\ Step(s, "place")
    <3>1. loaded \in [Task -> TaskRow] /\ queue \subseteq Task
      BY NullsTyped DEF TypeOK
    <3> HIDE DEF loaded, queue
    <3>2. [orm[s] EXCEPT !.todo = queue, !.tasks = loaded] \in Memory
      BY <3>1, MemoryUpdates
    <3> QED
      BY <1>0, <1>2, <2>2, <3>2, HoldTyped, StepTyped DEF ReadPending, TypeOK
  <2> QED
    BY <1>2, <2>1, <2>2 DEF ReadPending
<1>3. CASE PlaceNext(s)
  <2>1. PICK t \in Task :
          \/ \E h \in BestHosts(orm[s].view, t) :
                Hold(s, [orm[s] EXCEPT
                    !.todo = orm[s].todo \ {t},
                    !.placed = [orm[s].placed EXCEPT ![t] = h],
                    !.view = ChargeHost(orm[s].view, h, t)])
          \/ Hold(s, [orm[s] EXCEPT !.todo = orm[s].todo \ {t}])
    BY <1>3 DEF PlaceNext
  <2>2. ASSUME NEW h \in BestHosts(orm[s].view, t)
        PROVE  [orm[s] EXCEPT
                    !.todo = orm[s].todo \ {t},
                    !.placed = [orm[s].placed EXCEPT ![t] = h],
                    !.view = ChargeHost(orm[s].view, h, t)] \in Memory
    <3>1. h \in Host
      BY DEF BestHosts, Candidates
    <3>2. [orm[s].placed EXCEPT ![t] = h] \in [Task -> Host \cup {NoHost}]
      BY <3>1
    <3>3. ChargeHost(orm[s].view, h, t) \in [Host -> HostRow]
      BY <3>1, ChargeTyped
    <3> QED
      BY <3>2, <3>3, MemoryUpdates
  <2>3. [orm[s] EXCEPT !.todo = orm[s].todo \ {t}] \in Memory
    BY DEF TypeOK, Memory
  <2>4. orm' \in [Session -> Memory]
    BY <2>1, <2>2, <2>3, HoldTyped
  <2> QED
    BY <1>0, <1>3, <2>4, StepTyped DEF PlaceNext, TypeOK
<1>4. CASE CommitPass(s)
  <2>1. ASSUME NEW t \in Chosen(s)
        PROVE  PlacedRow(s, t) \in TaskRow
    <3>1. t \in Task /\ orm[s].placed[t] \in Host
      BY DEF Chosen
    <3> DEFINE new == Scheduled(orm[s].tasks[t], orm[s].placed[t])
               row == UpdateTask(tasks[t], orm[s].tasks[t], new)
    <3>2. new \in TaskRow
      BY <3>1, TaskChangesTyped
    <3>3. row \in TaskRow
      BY <3>1, <3>2, UpdateTaskTyped DEF TypeOK
    <3>4. PlacedRow(s, t) = [row EXCEPT !.sched = TRUE]
      BY DEF PlacedRow
    <3> HIDE DEF row
    <3> QED
      BY <3>3, <3>4 DEF TaskRow
  <2>2. tasks' \in [Task -> TaskRow]
    BY <1>4, <2>1 DEF CommitPass, TypeOK
  <2>3. \A h \in Host : UpdateHost(hosts[h], orm[s].hosts[h], orm[s].view[h]) \in HostRow
    BY UpdateHostTyped DEF TypeOK
  <2>4. hosts' \in [Host -> HostRow]
    BY <1>4, <2>3 DEF CommitPass
  <2> QED
    BY <1>4, <2>2, <2>4, AfterTyped, ForgetTyped, StepTyped DEF CommitPass, EndPass
<1>5. CASE RaisePass(s)
  BY <1>5, AfterTyped, ForgetTyped, StepTyped DEF RaisePass, EndPass, TypeOK
<1> QED
  BY <1>1, <1>2, <1>3, <1>4, <1>5 DEF Pass

LEMMA TaskHandlersTyped ==
    ASSUME TypeOK, NEW s \in Session, req[s].task \in Task,
           req[s].status \in Status \/ req[s].op \in {"create", "delete"},
           \/ InsertTask(s) \/ ReadBack(s) \/ GetTask(s)
           \/ PutTask(s) \/ DeleteTask(s) \/ RefreshTask(s)
    PROVE  TypeOK'
<1>0. {"refresh", "pass", "put", "reply", "error"} \subseteq PC
  BY DEF PC
<1> DEFINE t == req[s].task
<1> USE MemoryTyped
<1>1. ASSUME HoldTask(s, t)
      PROVE  orm' \in [Session -> Memory]
  <2>1. [orm[s].tasks EXCEPT ![t] = tasks[t]] \in [Task -> TaskRow]
    BY DEF TypeOK
  <2>2. [orm[s] EXCEPT !.tasks = [orm[s].tasks EXCEPT ![t] = tasks[t]]] \in Memory
    BY <2>1, MemoryUpdates
  <2> QED
    BY <1>1, <2>2, HoldTyped DEF HoldTask
<1>2. CASE InsertTask(s)
  <2>1. tasks' \in [Task -> TaskRow]
    BY <1>2, NullsTyped DEF InsertTask, TypeOK
  <2> QED
    BY <1>0, <1>2, <2>1, StepTyped DEF InsertTask, TypeOK
<1>3. CASE ReadBack(s)
  <2>1. orm' \in [Session -> Memory] /\ pc' \in [Session -> PC]
    BY <1>0, <1>1, <1>3, AnswerTyped, GotoTyped DEF ReadBack
  <2>2. raced' \subseteq Task
    BY <1>3 DEF ReadBack, TypeOK
  <2> QED
    BY <1>3, <2>1, <2>2 DEF ReadBack, TypeOK
<1>4. CASE GetTask(s)
  <2>1. orm' \in [Session -> Memory] /\ pc' \in [Session -> PC]
    BY <1>0, <1>1, <1>4, AnswerTyped, GotoTyped DEF GetTask
  <2> QED
    BY <1>4, <2>1 DEF GetTask, TypeOK
<1>5. CASE PutTask(s)
  <2> DEFINE loaded == orm[s].tasks[t]
  <2>1. loaded \in TaskRow
    OBVIOUS
  <2>2. Changed(s, loaded) \in TaskRow
    BY <2>1, <1>5, TaskChangesTyped, RequestTyped
    DEF Changed, PutTask, TaskWrites
  <2>3. UpdateTask(tasks[t], loaded, Changed(s, loaded)) \in TaskRow
    BY <2>1, <2>2, UpdateTaskTyped DEF TypeOK
  <2>4. tasks' \in [Task -> TaskRow]
    BY <1>5, <2>3 DEF PutTask, TypeOK
  <2>5. orm' \in [Session -> Memory] /\ pc' \in [Session -> PC]
    BY <1>0, <1>5, AnswerTyped, GotoTyped DEF PutTask, TypeOK
  <2> QED
    BY <1>5, <2>4, <2>5 DEF PutTask, TypeOK
<1>6. CASE DeleteTask(s)
  <2>1. tasks' \in [Task -> TaskRow]
    BY <1>6, NullsTyped DEF DeleteTask, TypeOK
  <2>2. orm' \in [Session -> Memory] /\ pc' \in [Session -> PC]
    BY <1>0, <1>6, AnswerTyped DEF DeleteTask
  <2> QED
    BY <1>6, <2>1, <2>2 DEF DeleteTask, TypeOK
<1>7. CASE RefreshTask(s)
  <2>1. orm' \in [Session -> Memory] /\ pc' \in [Session -> PC]
    BY <1>0, <1>7, AnswerTyped DEF RefreshTask
  <2> QED
    BY <1>7, <2>1 DEF RefreshTask, TypeOK
<1> QED
  BY <1>2, <1>3, <1>4, <1>5, <1>6, <1>7

LEMMA LoopTyped ==
    ASSUME TypeOK, LoopStep
    PROVE  TypeOK'
<1>0. Loop \in Session /\ {"requeue", "pass", "dead"} \subseteq PC
  BY DEF PC
<1> USE <1>0, MemoryTyped
<1> DEFINE loaded == orm[Loop].tasks
           view == orm[Loop].view
<1>1. CASE Reconcile
  <2> DEFINE changed == [h \in Host |->
                 IF hosts[h].fresh THEN [hosts[h] EXCEPT !.status = "ONLINE"]
                                   ELSE hosts[h]]
  <2>1. \A h \in Host : [hosts[h] EXCEPT !.status = "ONLINE"] \in HostRow
    BY DEF TypeOK, HostRow, HostStatus
  <2>2. changed \in [Host -> HostRow]
    BY <2>1 DEF TypeOK
  <2>3. Hold(Loop, [orm[Loop] EXCEPT !.hosts = hosts, !.view = changed])
    BY <1>1 DEF Reconcile
  <2> HIDE DEF changed
  <2>4. [orm[Loop] EXCEPT !.hosts = hosts, !.view = changed] \in Memory
    BY <2>2, MemoryUpdates DEF TypeOK
  <2> QED
    BY <1>1, <2>3, <2>4, HoldTyped, StepTyped DEF Reconcile, TypeOK
<1>2. ASSUME NEW h \in Host, SelectLost(h)
      PROVE  TypeOK'
  <2> DEFINE lost == {t \in Task : tasks[t].host = h /\ tasks[t].status \in Active}
             changed == [view EXCEPT ![h] = [view[h] EXCEPT !.status = "OFFLINE"]]
             found == [t \in Task |-> IF t \in lost /\ ~Exists(loaded[t])
                                      THEN tasks[t] ELSE loaded[t]]
  <2>1. [view[h] EXCEPT !.status = "OFFLINE"] \in HostRow
    BY DEF HostRow, HostStatus
  <2>2. changed \in [Host -> HostRow]
    BY <2>1
  <2>3. found \in [Task -> TaskRow]
    BY DEF TypeOK
  <2>4. Hold(Loop, [orm[Loop] EXCEPT !.view = changed, !.tasks = found])
    BY <1>2 DEF SelectLost
  <2> HIDE DEF changed, found
  <2>5. [orm[Loop] EXCEPT !.view = changed, !.tasks = found] \in Memory
    BY <2>2, <2>3, MemoryUpdates
  <2> QED
    BY <1>2, <2>4, <2>5, HoldTyped, StepTyped DEF SelectLost, TypeOK
<1>3. CASE CommitHealth
  <2>1. \A t \in Task : UpdateTask(tasks[t], loaded[t], Requeued(loaded[t])) \in TaskRow
    BY TaskChangesTyped, UpdateTaskTyped DEF TypeOK
  <2>2. tasks' \in [Task -> TaskRow]
    BY <1>3, <2>1 DEF CommitHealth, TypeOK
  <2>3. \A h \in Host : UpdateHost(hosts[h], orm[Loop].hosts[h], view[h]) \in HostRow
    BY UpdateHostTyped DEF TypeOK
  <2>4. hosts' \in [Host -> HostRow]
    BY <1>3, <2>3 DEF CommitHealth
  <2> QED
    BY <1>3, <2>2, <2>4, ForgetTyped, StepTyped DEF CommitHealth
<1>4. CASE RaiseHealth
  BY <1>4, ForgetTyped, StepTyped DEF RaiseHealth, TypeOK
<1> QED
  BY <1>1, <1>2, <1>3, <1>4 DEF LoopStep

LEMMA ExpireTyped ==
    ASSUME TypeOK, NEW h \in Host, Expire(h)
    PROVE  TypeOK'
<1>1. hosts' = [hosts EXCEPT ![h] = [hosts[h] EXCEPT !.fresh = FALSE]]
  BY DEF Expire
<1>2. [hosts[h] EXCEPT !.fresh = FALSE] \in HostRow
  BY DEF TypeOK, HostRow
<1> QED
  BY <1>1, <1>2 DEF TypeOK, Expire

-----------------------------------------------------------------------------
(* What the sessions hold. *)

(* A session's part of SnapshotsSound, to be shown of the one that moves.   *)
SessionSound(s) == /\ RequestSound(s)
                   /\ \A t \in Task : LoadedRow(s, t) /\ PlacedObject(s, t)

Untouched(s) == \A r \in Session \ {s} : /\ pc'[r] = pc[r]
                                         /\ req'[r] = req[r]
                                         /\ orm'[r] = orm[r]

LEMMA OneSessionMoves ==
    ASSUME SnapshotsSound, NEW s \in Session, Untouched(s),
           raced \subseteq raced', SessionSound(s)'
    PROVE  SnapshotsSound'
<1>1. ASSUME NEW r \in Session \ {s}
      PROVE  SessionSound(r)'
  <2>1. pc'[r] = pc[r] /\ req'[r] = req[r] /\ orm'[r] = orm[r]
    BY DEF Untouched
  <2>2. RequestSound(r)'
    BY <2>1 DEF SnapshotsSound, RequestSound
  <2>3. ASSUME NEW t \in Task
        PROVE  LoadedRow(r, t)' /\ PlacedObject(r, t)'
    <3>1. LoadedRow(r, t) /\ PlacedObject(r, t)
      BY DEF SnapshotsSound
    <3>2. LoadedRow(r, t)'
      BY <2>1, <3>1 DEF LoadedRow
    <3>3. PlacedObject(r, t)'
      BY <2>1, <3>1 DEF PlacedObject
    <3> QED
      BY <3>2, <3>3
  <2> QED
    BY <2>2, <2>3 DEF SessionSound
<1> QED
  BY <1>1 DEF SnapshotsSound, SessionSound

LEMMA EmptyHoldsNothing ==
    ASSUME NEW t \in Task
    PROVE  /\ ~Exists(EmptyMemory.tasks[t])
           /\ t \notin EmptyMemory.todo
           /\ EmptyMemory.placed[t] = NoHost
BY DEF EmptyMemory, Exists, NoTaskRow

LEMMA ForgottenSound ==
    ASSUME TypeOK, NEW s \in Session, Forget(s), RequestSound(s)'
    PROVE  SessionSound(s)'
<1>1. orm'[s] = EmptyMemory
  BY DEF TypeOK, Forget, Hold
<1> QED
  BY <1>1, EmptyHoldsNothing DEF SessionSound, LoadedRow, PlacedObject

LEMMA StepMoves ==
    ASSUME TypeOK, NEW s \in Session, NEW l, Step(s, l)
    PROVE  /\ pc'[s] = l
           /\ req' = req /\ raced' = raced
           /\ \A r \in Session \ {s} : pc'[r] = pc[r]
BY DEF TypeOK, Step, Goto

LEMMA HoldMoves ==
    ASSUME TypeOK, NEW s \in Session, NEW memory, Hold(s, memory)
    PROVE  /\ orm'[s] = memory
           /\ \A r \in Session \ {s} : orm'[r] = orm[r]
BY DEF TypeOK, Hold

LEMMA BeginSound ==
    ASSUME TypeOK, SnapshotsSound, NEW s \in Session, NEW r \in Request,
           NEW l \in {"get", "put"}, Begin(s, r, l),
           r.op \in Heartbeats => r.host \in Host,
           r.op \in TaskWrites \cup {"create"} => r.task \in Task,
           r.op = "status" => r.status \in Progress,
           r.op = "result" => r.status \in {"SUCCESS", "FAILED"},
           r.op \notin {"loop", "none"}
    PROVE  SnapshotsSound'
<1>1. /\ s \in Thread /\ pc[s] = "idle" /\ pc'[s] = l /\ req'[s] = r
      /\ orm' = orm /\ raced' = raced
  BY DEF Begin, TypeOK, Goto
<1>2. Untouched(s)
  BY DEF Begin, TypeOK, Goto, Untouched
<1>3. RequestSound(s)'
  BY <1>1, SessionAssumption DEF RequestSound, Passing
<1>4. ASSUME NEW t \in Task
      PROVE  LoadedRow(s, t)' /\ PlacedObject(s, t)'
  <2>1. LoadedRow(s, t) /\ PlacedObject(s, t)
    BY DEF SnapshotsSound
  <2>2. ~Exists(orm[s].tasks[t])
    BY <1>1, <2>1 DEF LoadedRow, Resting
  <2>3. LoadedRow(s, t)'
    BY <1>1, <2>2 DEF LoadedRow, Exists
  <2>4. PlacedObject(s, t)'
    BY <1>1, <2>1 DEF PlacedObject
  <2> QED
    BY <2>3, <2>4
<1> QED
  BY <1>1, <1>2, <1>3, <1>4, OneSessionMoves DEF SessionSound

LEMMA RequestsSound ==
    ASSUME TypeOK, SnapshotsSound, NEW s \in Thread, Requests(s)
    PROVE  SnapshotsSound'
<1>0. s \in Session
  OBVIOUS
<1>1. ASSUME NEW h \in Host, NEW cpu \in CpuReport, NEW m \in MemReport,
             BeginHeartbeat(s, h, cpu, m) \/ BeginRegister(s, h, cpu, m)
      PROVE  SnapshotsSound'
  <2> DEFINE beat == [Measured(cpu, m) EXCEPT !.op = "heartbeat", !.host = h]
             register == [Measured(cpu, m) EXCEPT !.op = "register", !.host = h]
  <2>1. /\ beat \in Request /\ beat.op = "heartbeat" /\ beat.host = h
        /\ register \in Request /\ register.op = "register" /\ register.host = h
    BY NullsTyped, ReportAssumption DEF Measured, Request
  <2>2. Begin(s, beat, "get") \/ Begin(s, register, "put")
    BY <1>1 DEF BeginHeartbeat, BeginRegister
  <2> HIDE DEF beat, register
  <2> QED
    BY <1>0, <2>1, <2>2, BeginSound DEF TaskWrites
<1>2. ASSUME NEW t \in Task, BeginCreate(s, t) \/ BeginDelete(s, t)
      PROVE  SnapshotsSound'
  <2> DEFINE create == [NoRequest EXCEPT !.op = "create", !.task = t]
             delete == [NoRequest EXCEPT !.op = "delete", !.task = t]
  <2>1. /\ create \in Request /\ create.op = "create" /\ create.task = t
        /\ delete \in Request /\ delete.op = "delete" /\ delete.task = t
    BY NullsTyped DEF Request
  <2>2. Begin(s, create, "put") \/ Begin(s, delete, "get")
    BY <1>2 DEF BeginCreate, BeginDelete
  <2> HIDE DEF create, delete
  <2> QED
    BY <1>0, <2>1, <2>2, BeginSound DEF Heartbeats
<1>3. ASSUME NEW t \in Task, NEW status \in Progress, BeginStatus(s, t, status)
      PROVE  SnapshotsSound'
  <2> DEFINE r == [NoRequest EXCEPT !.op = "status", !.task = t, !.status = status]
  <2>1. r \in Request /\ r.op = "status" /\ r.task = t /\ r.status = status
    BY NullsTyped DEF Request, Progress, Status, Active
  <2>2. Begin(s, r, "get")
    BY <1>3 DEF BeginStatus
  <2> HIDE DEF r
  <2> QED
    BY <1>0, <2>1, <2>2, BeginSound DEF Heartbeats
<1>4. ASSUME NEW t \in Task, NEW outcome \in Reported, BeginResult(s, t, outcome)
      PROVE  SnapshotsSound'
  <2> DEFINE r == [NoRequest EXCEPT !.op = "result", !.task = t,
                                    !.status = outcome[1], !.exit = outcome[2]]
  <2>1. \/ outcome = <<"SUCCESS", "zero">>
        \/ outcome = <<"FAILED", "nonzero">>
        \/ outcome = <<"FAILED", "zero">>
        \/ outcome = <<"FAILED", "null">>
    BY ReportedAssumption DEF Outcome
  <2>2. /\ outcome[1] \in {"SUCCESS", "FAILED"} /\ outcome[1] \in Status
        /\ outcome[2] \in Exit
    BY <2>1 DEF Status, Finished, Exit
  <2>3. /\ r \in Request /\ r.op = "result" /\ r.task = t
        /\ r.status \in {"SUCCESS", "FAILED"}
    BY <2>2, NullsTyped DEF Request
  <2>4. Begin(s, r, "get")
    BY <1>4 DEF BeginResult
  <2> HIDE DEF r
  <2> QED
    BY <1>0, <2>3, <2>4, BeginSound DEF Heartbeats
<1> QED
  BY <1>1, <1>2, <1>3, <1>4 DEF Requests

LEMMA HostHandlersSound ==
    ASSUME TypeOK, SnapshotsSound, NEW s \in Session,
           GetHost(s) \/ PutHost(s) \/ RefreshHost(s) \/ Pick(s)
    PROVE  SnapshotsSound'
<1>0. /\ RequestSound(s)
      /\ \A t \in Task : LoadedRow(s, t) /\ PlacedObject(s, t)
  BY DEF SnapshotsSound
<1>1. ASSUME NEW l \in {"put", "refresh", "pass"}, Step(s, l),
             orm' = orm \/ HoldHost(s, req[s].host),
             pc[s] \in {"get", "put", "refresh"}, req[s].op \in Heartbeats
      PROVE  SnapshotsSound'
  <2>1. pc'[s] = l /\ req' = req /\ raced' = raced
    BY <1>1, StepMoves
  <2>2. /\ orm'[s].tasks = orm[s].tasks
        /\ orm'[s].todo = orm[s].todo
        /\ orm'[s].placed = orm[s].placed
    <3>1. CASE orm' = orm
      BY <3>1
    <3>2. CASE HoldHost(s, req[s].host)
      BY <3>2, HoldMoves, MemoryTyped DEF HoldHost, Memory
    <3> QED
      BY <1>1, <3>1, <3>2
  <2>3. Untouched(s)
    BY <1>1, StepMoves, HoldMoves DEF Untouched, HoldHost
  <2>4. RequestSound(s)'
    BY <1>0, <1>1, <2>1 DEF RequestSound, Passing, Heartbeats, TaskWrites
  <2>5. ASSUME NEW t \in Task
        PROVE  LoadedRow(s, t)' /\ PlacedObject(s, t)'
    <3>1. ~Exists(orm[s].tasks[t])
      BY <1>0, <1>1 DEF LoadedRow, Resting, Heartbeats, TaskWrites
    <3>2. t \notin orm[s].todo /\ orm[s].placed[t] = NoHost
      BY <1>0, <1>1 DEF PlacedObject
    <3> QED
      BY <2>2, <3>1, <3>2 DEF LoadedRow, PlacedObject, Exists
  <2> QED
    BY <2>1, <2>3, <2>4, <2>5, OneSessionMoves DEF SessionSound
<1>2. CASE GetHost(s) \/ PutHost(s) \/ RefreshHost(s)
  BY <1>1, <1>2 DEF GetHost, PutHost, RefreshHost, Heartbeats
<1>3. CASE Pick(s)
  <2>1. /\ pc'[s] = "reply" /\ raced' = raced
        /\ req'[s].op = req[s].op /\ req'[s].host = req[s].host
        /\ Forget(s)
    BY <1>3 DEF Pick, Answer, Goto, TypeOK, Request
  <2>2. Untouched(s)
    BY <1>3 DEF Pick, Answer, Goto, Forget, Hold, TypeOK, Untouched
  <2>3. RequestSound(s)'
    BY <1>0, <1>3, <2>1
    DEF RequestSound, Passing, Heartbeats, TaskWrites, Pick
  <2> QED
    BY <2>1, <2>2, <2>3, ForgottenSound, OneSessionMoves
<1> QED
  BY <1>2, <1>3

LEMMA PassSound ==
    ASSUME TypeOK, SnapshotsSound, AssignmentMatchesStatus, NEW s \in Session, Pass(s)
    PROVE  SnapshotsSound'
<1>0. /\ RequestSound(s)
      /\ \A t \in Task : LoadedRow(s, t) /\ PlacedObject(s, t)
  BY DEF SnapshotsSound
<1>1. ASSUME Forget(s), NEW l, Step(s, l),
             l \in {AfterPass(s), AfterRaise(s)},
             pc[s] \in Passing
      PROVE  SnapshotsSound'
  <2>1. pc'[s] = l /\ req' = req /\ raced' = raced
    BY <1>1, StepMoves
  <2>2. Untouched(s)
    BY <1>1, StepMoves, HoldMoves DEF Forget, Untouched
  <2>3. RequestSound(s)'
    BY <1>0, <1>1, <2>1
    DEF RequestSound, AfterPass, AfterRaise, Passing, Heartbeats, TaskWrites
  <2> QED
    BY <1>1, <2>1, <2>2, <2>3, ForgottenSound, OneSessionMoves
<1>2. ASSUME NEW l \in Passing, Step(s, l), NEW memory, Hold(s, memory),
             pc[s] \in Passing,
             \A t \in Task :
                /\ Exists(memory.tasks[t]) /\ t \notin raced => Unassigned(memory.tasks[t])
                /\ t \in memory.todo \/ memory.placed[t] # NoHost =>
                      l = "place" /\ Exists(memory.tasks[t])
      PROVE  SnapshotsSound'
  <2>1. pc'[s] = l /\ req' = req /\ raced' = raced /\ orm'[s] = memory
    BY <1>2, StepMoves, HoldMoves
  <2>2. Untouched(s)
    BY <1>2, StepMoves, HoldMoves DEF Untouched
  <2>3. RequestSound(s)'
    BY <1>0, <1>2, <2>1 DEF RequestSound, Passing
  <2>4. ASSUME NEW t \in Task
        PROVE  LoadedRow(s, t)' /\ PlacedObject(s, t)'
    BY <1>2, <2>1 DEF LoadedRow, PlacedObject, Passing, Resting, Exists, Unassigned
  <2> QED
    BY <2>1, <2>2, <2>3, <2>4, OneSessionMoves DEF SessionSound
<1>3. CASE ReadHosts(s)
  <2>1. PICK rows :
          Hold(s, [orm[s] EXCEPT !.hosts = rows, !.view = rows])
    BY <1>3 DEF ReadHosts
  <2> DEFINE memory == [orm[s] EXCEPT !.hosts = rows, !.view = rows]
  <2>2. /\ memory.tasks = orm[s].tasks
        /\ memory.todo = orm[s].todo
        /\ memory.placed = orm[s].placed
    BY MemoryTyped DEF Memory
  <2>3. ASSUME NEW t \in Task
        PROVE  /\ Exists(orm[s].tasks[t]) /\ t \notin raced => Unassigned(orm[s].tasks[t])
               /\ t \notin orm[s].todo /\ orm[s].placed[t] = NoHost
    BY <1>0, <1>3 DEF ReadHosts, LoadedRow, PlacedObject, Passing
  <2>4. /\ Hold(s, memory) /\ Step(s, "pending")
        /\ "pending" \in Passing /\ pc[s] \in Passing
    BY <1>3, <2>1 DEF ReadHosts, Passing
  <2> HIDE DEF memory
  <2> QED
    BY <1>2, <2>2, <2>3, <2>4
<1>4. CASE ReadPending(s)
  <2> DEFINE queue == {t \in Task : tasks[t].status = "PENDING"}
             loaded == [t \in Task |-> IF t \notin queue THEN NoTaskRow
                                       ELSE IF Exists(orm[s].tasks[t])
                                       THEN orm[s].tasks[t] ELSE tasks[t]]
             memory == [orm[s] EXCEPT !.todo = queue, !.tasks = loaded]
  <2>0. pc[s] \in Passing /\ "place" \in Passing
    BY <1>4 DEF ReadPending, Passing
  <2>1. CASE Forget(s) /\ Step(s, AfterPass(s))
    BY <1>1, <2>0, <2>1
  <2>2. CASE Hold(s, memory) /\ Step(s, "place")
    <3>1. /\ memory.tasks = loaded
          /\ memory.todo = queue
          /\ memory.placed = orm[s].placed
      BY MemoryTyped DEF Memory
    <3>2. ASSUME NEW t \in Task
          PROVE  /\ Exists(loaded[t]) /\ t \notin raced => Unassigned(loaded[t])
                 /\ t \in queue => Exists(loaded[t])
                 /\ orm[s].placed[t] = NoHost
      <4>1. orm[s].placed[t] = NoHost
        BY <1>0, <1>4 DEF ReadPending, PlacedObject
      <4>2. Exists(orm[s].tasks[t]) /\ t \notin raced => Unassigned(orm[s].tasks[t])
        BY <1>0, <2>0 DEF LoadedRow
      <4>3. t \in queue => Exists(tasks[t])
        BY DEF Exists
      <4>4. t \in queue /\ t \notin raced => Unassigned(tasks[t])
        BY DEF AssignmentMatchesStatus, Unassigned
      <4>5. ~Exists(NoTaskRow)
        BY DEF Exists, NoTaskRow
      <4> QED
        BY <4>1, <4>2, <4>3, <4>4, <4>5
    <3> HIDE DEF memory, loaded, queue
    <3> QED
      BY <1>2, <2>0, <2>2, <3>1, <3>2
  <2> QED
    BY <1>4, <2>1, <2>2 DEF ReadPending
<1>5. CASE PlaceNext(s)
  <2>0. pc[s] = "place" /\ "place" \in Passing /\ Step(s, "place")
    BY <1>5 DEF PlaceNext, Passing
  <2>1. PICK t \in Task :
          /\ t \in orm[s].todo
          /\ \/ \E h \in BestHosts(orm[s].view, t) :
                   Hold(s, [orm[s] EXCEPT
                       !.todo = orm[s].todo \ {t},
                       !.placed = [orm[s].placed EXCEPT ![t] = h],
                       !.view = ChargeHost(orm[s].view, h, t)])
             \/ Hold(s, [orm[s] EXCEPT !.todo = orm[s].todo \ {t}])
    BY <1>5 DEF PlaceNext, IsNext
  <2>2. PICK memory :
          /\ Hold(s, memory)
          /\ memory.tasks = orm[s].tasks
          /\ memory.todo = orm[s].todo \ {t}
          /\ \A u \in Task : u # t => memory.placed[u] = orm[s].placed[u]
    <3>1. ASSUME NEW m, m = [orm[s] EXCEPT !.todo = orm[s].todo \ {t}]
          PROVE  /\ m.tasks = orm[s].tasks
                 /\ m.todo = orm[s].todo \ {t}
                 /\ \A u \in Task : u # t => m.placed[u] = orm[s].placed[u]
      BY <3>1, MemoryTyped DEF Memory
    <3>2. CASE Hold(s, [orm[s] EXCEPT !.todo = orm[s].todo \ {t}])
      BY <3>1, <3>2
    <3>3. ASSUME NEW h, Hold(s, [orm[s] EXCEPT
                       !.todo = orm[s].todo \ {t},
                       !.placed = [orm[s].placed EXCEPT ![t] = h],
                       !.view = ChargeHost(orm[s].view, h, t)])
          PROVE  \E m : /\ Hold(s, m)
                        /\ m.tasks = orm[s].tasks
                        /\ m.todo = orm[s].todo \ {t}
                        /\ \A u \in Task : u # t => m.placed[u] = orm[s].placed[u]
      <4> DEFINE m == [orm[s] EXCEPT
                          !.todo = orm[s].todo \ {t},
                          !.placed = [orm[s].placed EXCEPT ![t] = h],
                          !.view = ChargeHost(orm[s].view, h, t)]
      <4>1. /\ m.tasks = orm[s].tasks
            /\ m.todo = orm[s].todo \ {t}
            /\ \A u \in Task : u # t => m.placed[u] = orm[s].placed[u]
        BY MemoryTyped DEF Memory
      <4>2. Hold(s, m)
        BY <3>3
      <4> HIDE DEF m
      <4> QED
        BY <4>1, <4>2
    <3> QED
      BY <2>1, <3>2, <3>3
  <2>3. ASSUME NEW u \in Task
        PROVE  /\ Exists(memory.tasks[u]) /\ u \notin raced => Unassigned(memory.tasks[u])
               /\ u \in memory.todo \/ memory.placed[u] # NoHost => Exists(memory.tasks[u])
    BY <1>0, <2>0, <2>1, <2>2 DEF LoadedRow, PlacedObject
  <2> QED
    BY <1>2, <2>0, <2>2, <2>3
<1>6. CASE CommitPass(s)
  BY <1>1, <1>6 DEF CommitPass, EndPass, Passing
<1>7. CASE RaisePass(s)
  BY <1>1, <1>7 DEF RaisePass, EndPass, Passing
<1> QED
  BY <1>3, <1>4, <1>5, <1>6, <1>7 DEF Pass

LEMMA AnswerSound ==
    ASSUME TypeOK, SnapshotsSound, NEW s \in Session,
           NEW l \in {"reply", "error"}, Answer(s, l), req' = req, raced' = raced
    PROVE  SnapshotsSound'
<1>1. pc'[s] = l /\ Untouched(s) /\ Forget(s)
  BY DEF Answer, Goto, Forget, Hold, TypeOK, Untouched
<1>2. RequestSound(s)'
  BY <1>1 DEF SnapshotsSound, RequestSound, Passing
<1> QED
  BY <1>1, <1>2, ForgottenSound, OneSessionMoves

(* A handler loads the row of its task and goes on to l. *)
LEMMA TaskLoadedSound ==
    ASSUME TypeOK, SnapshotsSound, NEW s \in Session, NEW t \in Task,
           HoldTask(s, t), NEW l \in {"put", "pass"}, Goto(s, l), req' = req,
           raced \subseteq raced',
           \A u \in Task \ {t} : ~Exists(orm[s].tasks[u]),
           pc[s] \in {"get", "refresh"},
           l = "put" => req[s].op \in TaskWrites,
           l = "pass" => /\ req[s].op = "create"
                         /\ t \notin raced' => Unassigned(tasks[t])
    PROVE  SnapshotsSound'
<1>0. /\ RequestSound(s)
      /\ \A u \in Task : LoadedRow(s, u) /\ PlacedObject(s, u)
  BY DEF SnapshotsSound
<1> DEFINE memory == [orm[s] EXCEPT !.tasks = [orm[s].tasks EXCEPT ![t] = tasks[t]]]
<1>1. /\ memory.tasks = [orm[s].tasks EXCEPT ![t] = tasks[t]]
      /\ memory.todo = orm[s].todo
      /\ memory.placed = orm[s].placed
  BY MemoryTyped DEF Memory
<1>2. orm'[s] = memory /\ pc'[s] = l /\ Untouched(s)
  BY HoldMoves DEF HoldTask, Goto, TypeOK, Untouched
<1> HIDE DEF memory
<1>3. RequestSound(s)'
  BY <1>0, <1>2 DEF RequestSound, Passing
<1>4. ASSUME NEW u \in Task
      PROVE  LoadedRow(s, u)' /\ PlacedObject(s, u)'
  <2>1. u \notin orm'[s].todo /\ orm'[s].placed[u] = NoHost
    BY <1>0, <1>1, <1>2 DEF PlacedObject
  <2>2. orm'[s].tasks[u] = IF u = t THEN tasks[t] ELSE orm[s].tasks[u]
    BY <1>1, <1>2, MemoryTyped
  <2>3. CASE u = t
    BY <1>2, <2>1, <2>2, <2>3 DEF LoadedRow, PlacedObject, Resting, Passing
  <2>4. CASE u # t
    BY <1>2, <2>1, <2>2, <2>4 DEF LoadedRow, PlacedObject, Exists
  <2> QED
    BY <2>3, <2>4
<1> QED
  BY <1>2, <1>3, <1>4, OneSessionMoves DEF SessionSound

LEMMA TaskHandlersSound ==
    ASSUME TypeOK, SnapshotsSound, AssignmentMatchesStatus, NEW s \in Session,
           \/ InsertTask(s) \/ ReadBack(s) \/ GetTask(s)
           \/ PutTask(s) \/ DeleteTask(s) \/ RefreshTask(s)
    PROVE  SnapshotsSound'
<1>0. /\ RequestSound(s)
      /\ \A t \in Task : LoadedRow(s, t) /\ PlacedObject(s, t)
  BY DEF SnapshotsSound
<1> DEFINE t == req[s].task
<1>1. ASSUME Goto(s, "refresh"), req' = req, raced' = raced, orm' = orm,
             pc[s] = "put"
      PROVE  SnapshotsSound'
  <2>1. pc'[s] = "refresh" /\ Untouched(s)
    BY <1>1 DEF Goto, TypeOK, Untouched
  <2>2. RequestSound(s)'
    BY <1>0, <1>1, <2>1 DEF RequestSound, Passing
  <2>3. ASSUME NEW u \in Task
        PROVE  LoadedRow(s, u)' /\ PlacedObject(s, u)'
    BY <1>0, <1>1, <2>1 DEF LoadedRow, PlacedObject, Resting, Passing, Exists
  <2> QED
    BY <1>1, <2>1, <2>2, <2>3, OneSessionMoves DEF SessionSound
<1>2. CASE InsertTask(s)
  BY <1>1, <1>2 DEF InsertTask, Step
<1>3. CASE ReadBack(s)
  <2>1. CASE ~Exists(tasks[t])
    BY <1>3, <2>1, AnswerSound DEF ReadBack
  <2>2. CASE Exists(tasks[t])
    <3>1. t \in Task /\ req[s].op = "create" /\ pc[s] = "refresh"
      BY <1>0, <1>3 DEF RequestSound, ReadBack
    <3>2. /\ HoldTask(s, t) /\ Goto(s, "pass") /\ req' = req
          /\ raced' = raced \cup {u \in {t} : tasks[u].status # "PENDING"}
      BY <1>3, <2>2 DEF ReadBack
    <3>3. t \notin raced' => Unassigned(tasks[t])
      BY <3>1, <3>2 DEF AssignmentMatchesStatus, Unassigned
    <3>4. \A u \in Task : ~Exists(orm[s].tasks[u])
      BY <1>0, <3>1 DEF LoadedRow, TaskWrites
    <3> QED
      BY <3>1, <3>2, <3>3, <3>4, TaskLoadedSound
  <2> QED
    BY <2>1, <2>2
<1>4. CASE GetTask(s)
  <2>1. CASE Refused(s, tasks[t])
    BY <1>4, <2>1, AnswerSound DEF GetTask
  <2>2. CASE ~Refused(s, tasks[t])
    <3>1. t \in Task /\ req[s].op \in TaskWrites /\ pc[s] = "get"
      BY <1>0, <1>4 DEF RequestSound, GetTask
    <3>2. HoldTask(s, t) /\ Goto(s, "put") /\ req' = req /\ raced' = raced
      BY <1>4, <2>2 DEF GetTask
    <3>3. \A u \in Task : ~Exists(orm[s].tasks[u])
      BY <1>0, <3>1 DEF LoadedRow, Resting
    <3> QED
      BY <3>1, <3>2, <3>3, TaskLoadedSound
  <2> QED
    BY <2>1, <2>2
<1>5. CASE PutTask(s)
  <2>1. /\ req' = req /\ raced' = raced /\ pc[s] = "put"
        /\ \/ Answer(s, "reply") \/ Answer(s, "error")
           \/ Goto(s, "refresh") /\ orm' = orm
    BY <1>5 DEF PutTask
  <2> QED
    BY <1>1, <2>1, AnswerSound
<1>6. CASE DeleteTask(s)
  BY <1>6, AnswerSound DEF DeleteTask
<1>7. CASE RefreshTask(s)
  <2>1. Answer(s, "reply") \/ Answer(s, "error")
    BY <1>7 DEF RefreshTask
  <2> QED
    BY <1>7, <2>1, AnswerSound DEF RefreshTask
<1> QED
  BY <1>2, <1>3, <1>4, <1>5, <1>6, <1>7

LEMMA LoopSound ==
    ASSUME TypeOK, SnapshotsSound, AssignmentMatchesStatus, LoopStep
    PROVE  SnapshotsSound'
<1>0. /\ Loop \in Session
      /\ RequestSound(Loop)
      /\ \A t \in Task : LoadedRow(Loop, t) /\ PlacedObject(Loop, t)
  BY DEF SnapshotsSound
<1>1. ASSUME NEW l \in {"pass", "dead"}, Forget(Loop), Step(Loop, l)
      PROVE  SnapshotsSound'
  <2>1. pc'[Loop] = l /\ req' = req /\ raced' = raced
    BY <1>0, <1>1, StepMoves
  <2>2. Untouched(Loop)
    BY <1>0, <1>1, StepMoves, HoldMoves DEF Forget, Untouched
  <2>3. RequestSound(Loop)'
    BY <1>0, <2>1 DEF RequestSound, Passing
  <2> QED
    BY <1>0, <1>1, <2>1, <2>2, <2>3, ForgottenSound, OneSessionMoves
<1>2. ASSUME NEW memory, Hold(Loop, memory), Step(Loop, "requeue"),
             memory.todo = orm[Loop].todo, memory.placed = orm[Loop].placed,
             pc[Loop] # "place",
             \A t \in Task : Exists(memory.tasks[t]) /\ t \notin raced
                                => Assigned(memory.tasks[t])
      PROVE  SnapshotsSound'
  <2>1. /\ pc'[Loop] = "requeue" /\ req' = req /\ raced' = raced
        /\ orm'[Loop] = memory
    BY <1>0, <1>2, StepMoves, HoldMoves
  <2>2. Untouched(Loop)
    BY <1>0, <1>2, StepMoves, HoldMoves DEF Untouched
  <2>3. RequestSound(Loop)'
    BY <1>0, <2>1 DEF RequestSound, Passing
  <2>4. ASSUME NEW t \in Task
        PROVE  LoadedRow(Loop, t)' /\ PlacedObject(Loop, t)'
    <3>1. LoadedRow(Loop, t)'
      BY <1>2, <2>1 DEF LoadedRow, Passing, Resting, Exists, Assigned
    <3>2. PlacedObject(Loop, t)'
      BY <1>0, <1>2, <2>1 DEF PlacedObject
    <3> QED
      BY <3>1, <3>2
  <2> QED
    BY <1>0, <2>1, <2>2, <2>3, <2>4, OneSessionMoves DEF SessionSound
<1>3. CASE Reconcile
  <2>1. PICK changed : Hold(Loop, [orm[Loop] EXCEPT !.hosts = hosts, !.view = changed])
    BY <1>3 DEF Reconcile
  <2> DEFINE memory == [orm[Loop] EXCEPT !.hosts = hosts, !.view = changed]
  <2>2. /\ memory.tasks = orm[Loop].tasks
        /\ memory.todo = orm[Loop].todo
        /\ memory.placed = orm[Loop].placed
    BY <1>0, MemoryTyped DEF Memory
  <2>3. \A t \in Task : ~Exists(orm[Loop].tasks[t])
    BY <1>0, <1>3 DEF Reconcile, LoadedRow, Resting
  <2>4. Hold(Loop, memory) /\ Step(Loop, "requeue") /\ pc[Loop] # "place"
    BY <1>3, <2>1 DEF Reconcile
  <2> HIDE DEF memory
  <2> QED
    BY <1>2, <2>2, <2>3, <2>4
<1>4. ASSUME NEW h \in Host, SelectLost(h)
      PROVE  SnapshotsSound'
  <2> DEFINE lost == {t \in Task : tasks[t].host = h /\ tasks[t].status \in Active}
             loaded == orm[Loop].tasks
             found == [t \in Task |-> IF t \in lost /\ ~Exists(loaded[t])
                                      THEN tasks[t] ELSE loaded[t]]
  <2>1. PICK changed : Hold(Loop, [orm[Loop] EXCEPT !.view = changed, !.tasks = found])
    BY <1>4 DEF SelectLost
  <2> DEFINE memory == [orm[Loop] EXCEPT !.view = changed, !.tasks = found]
  <2>2. /\ memory.tasks = found
        /\ memory.todo = orm[Loop].todo
        /\ memory.placed = orm[Loop].placed
    BY <1>0, MemoryTyped DEF Memory
  <2>3. Hold(Loop, memory) /\ Step(Loop, "requeue") /\ pc[Loop] = "requeue"
    BY <1>4, <2>1 DEF SelectLost
  <2>4. ASSUME NEW t \in Task, Exists(found[t]), t \notin raced
        PROVE  Assigned(found[t])
    <3>1. CASE found[t] = tasks[t] /\ t \in lost
      BY <2>4, <3>1, HostAssumption DEF AssignmentMatchesStatus, Assigned
    <3>2. CASE found[t] = loaded[t]
      BY <1>0, <2>3, <2>4, <3>2 DEF LoadedRow
    <3> QED
      BY <3>1, <3>2
  <2> HIDE DEF memory, found
  <2> QED
    BY <1>2, <2>2, <2>3, <2>4
<1>5. CASE CommitHealth
  BY <1>1, <1>5 DEF CommitHealth
<1>6. CASE RaiseHealth
  BY <1>1, <1>6 DEF RaiseHealth
<1> QED
  BY <1>3, <1>4, <1>5, <1>6 DEF LoopStep

LEMMA RespondSound ==
    ASSUME TypeOK, SnapshotsSound, NEW s \in Thread, Respond(s)
    PROVE  TypeOK' /\ SnapshotsSound'
<1>0. /\ s \in Session /\ s # Loop
      /\ \A t \in Task : LoadedRow(s, t) /\ PlacedObject(s, t)
  BY SessionAssumption DEF SnapshotsSound
<1>1. /\ pc'[s] = "idle" /\ req'[s] = NoRequest /\ orm' = orm
      /\ raced' = raced /\ pc[s] \in {"reply", "error"} /\ Untouched(s)
  BY DEF Respond, Goto, TypeOK, Untouched
<1>2. TypeOK'
  <2>1. pc' \in [Session -> PC]
    BY <1>0, GotoTyped DEF Respond, PC
  <2>2. req' \in [Session -> Request]
    BY NullsTyped DEF Respond, TypeOK
  <2> QED
    BY <2>1, <2>2 DEF TypeOK, Respond
<1>3. RequestSound(s)'
  BY <1>0, <1>1 DEF RequestSound, NoRequest, Passing, Heartbeats, TaskWrites
<1>4. ASSUME NEW t \in Task
      PROVE  LoadedRow(s, t)' /\ PlacedObject(s, t)'
  <2>1. ~Exists(orm[s].tasks[t])
    BY <1>0, <1>1 DEF LoadedRow, Resting
  <2>2. LoadedRow(s, t)'
    BY <1>1, <2>1 DEF LoadedRow, Exists
  <2>3. PlacedObject(s, t)'
    BY <1>0, <1>1 DEF PlacedObject
  <2> QED
    BY <2>2, <2>3
<1> QED
  BY <1>0, <1>1, <1>2, <1>3, <1>4, OneSessionMoves DEF SessionSound

(* Where the sessions are after a start of the master. *)
Fresh == /\ pc = [s \in Session |-> IF s = Loop THEN "sleep" ELSE "idle"]
         /\ req = [s \in Session |->
               [NoRequest EXCEPT !.op = IF s = Loop THEN "loop" ELSE "none"]]
         /\ orm = [s \in Session |-> EmptyMemory]

SessionsTyped == /\ pc \in [Session -> PC]
                 /\ req \in [Session -> Request]
                 /\ orm \in [Session -> Memory]

LEMMA FreshSound ==
    Fresh => SessionsTyped /\ SnapshotsSound
<1> HAVE Fresh
<1>1. pc \in [Session -> PC]
  BY DEF Fresh, PC
<1>2. ASSUME NEW s \in Session
      PROVE  /\ req[s] \in Request
             /\ req[s].op = IF s = Loop THEN "loop" ELSE "none"
  BY NullsTyped DEF Fresh, Request
<1>3. req \in [Session -> Request]
  BY <1>2 DEF Fresh
<1>4. orm \in [Session -> Memory]
  BY NullsTyped DEF Fresh
<1>5. ASSUME NEW s \in Session
      PROVE  SessionSound(s)
  <2>0. pc[s] = IF s = Loop THEN "sleep" ELSE "idle"
    BY DEF Fresh
  <2>1. RequestSound(s)
    BY <1>2, <2>0 DEF RequestSound, Passing, Heartbeats, TaskWrites
  <2>2. ASSUME NEW t \in Task
        PROVE  LoadedRow(s, t) /\ PlacedObject(s, t)
    BY EmptyHoldsNothing DEF Fresh, LoadedRow, PlacedObject
  <2> QED
    BY <2>1, <2>2 DEF SessionSound
<1> QED
  BY <1>1, <1>3, <1>4, <1>5 DEF SnapshotsSound, SessionSound, SessionsTyped

LEMMA FreshSoundNext == Fresh' => SessionsTyped' /\ SnapshotsSound'
BY FreshSound, PTL

LEMMA RestartSound ==
    ASSUME TypeOK, Restart
    PROVE  TypeOK' /\ SnapshotsSound'
<1>1. Fresh'
  BY DEF Restart, Fresh
<1>2. SessionsTyped' /\ SnapshotsSound'
  BY <1>1, FreshSoundNext
<1> QED
  BY <1>2 DEF Restart, TypeOK, SessionsTyped

LEMMA ExpireSound ==
    ASSUME SnapshotsSound, NEW h \in Host, Expire(h)
    PROVE  SnapshotsSound'
BY DEF Expire, SnapshotsSound, RequestSound, LoadedRow, PlacedObject

-----------------------------------------------------------------------------
(* Status and assignment. *)

(* One row's part of AssignmentMatchesStatus. *)
RowMatches(row) == /\ row.status = "PENDING" => row.host = NoHost
                   /\ row.status = "SCHEDULED" => row.host # NoHost
                   /\ row.sched <=> row.host # NoHost

LEMMA SameRowsMatch ==
    ASSUME AssignmentMatchesStatus, tasks' = tasks, raced \subseteq raced'
    PROVE  AssignmentMatchesStatus'
BY DEF AssignmentMatchesStatus

LEMMA OneRowMatches ==
    ASSUME AssignmentMatchesStatus, raced' = raced, tasks \in [Task -> TaskRow],
           NEW t \in Task, NEW row,
           tasks' = [tasks EXCEPT ![t] = row], t \notin raced => RowMatches(row)
    PROVE  AssignmentMatchesStatus'
BY DEF AssignmentMatchesStatus, RowMatches

(* What a pass and a health check write: the loaded object decides. *)
LEMMA WritesMatch ==
    ASSUME NEW stored \in TaskRow, NEW loaded \in TaskRow
    PROVE  /\ \A h \in Host : Unassigned(loaded) =>
                 RowMatches([UpdateTask(stored, loaded, Scheduled(loaded, h))
                             EXCEPT !.sched = TRUE])
           /\ Assigned(loaded) =>
                 RowMatches(UpdateTask(stored, loaded, Requeued(loaded)))
           /\ RowMatches(NewTask)
           /\ RowMatches([NoTaskRow EXCEPT !.status = "DELETED"])
<1>1. ASSUME NEW h \in Host, Unassigned(loaded)
      PROVE  RowMatches([UpdateTask(stored, loaded, Scheduled(loaded, h))
                         EXCEPT !.sched = TRUE])
  BY <1>1, HostAssumption
  DEF Unassigned, RowMatches, UpdateTask, Scheduled, Column, TaskRow
<1>2. ASSUME Assigned(loaded)
      PROVE  RowMatches(UpdateTask(stored, loaded, Requeued(loaded)))
  BY <1>2 DEF Assigned, RowMatches, UpdateTask, Requeued, Column, TaskRow, Active
<1>3. RowMatches(NewTask) /\ RowMatches([NoTaskRow EXCEPT !.status = "DELETED"])
  BY DEF RowMatches, NewTask, NoTaskRow
<1> QED
  BY <1>1, <1>2, <1>3

(* What reports and cancellations write leaves the assignment alone and     *)
(* never makes a task PENDING or SCHEDULED that was not.                    *)
LEMMA ReportsMatch ==
    ASSUME TypeOK, SnapshotsSound, NEW s \in Session, req[s].op \in TaskWrites,
           NEW stored \in TaskRow, NEW loaded \in TaskRow, RowMatches(stored)
    PROVE  RowMatches(UpdateTask(stored, loaded, Changed(s, loaded)))
<1> DEFINE new == Changed(s, loaded)
<1>0. RequestSound(s)
  BY DEF SnapshotsSound
<1>1. /\ new.host = loaded.host /\ new.sched = loaded.sched
      /\ new.status \notin {"PENDING", "SCHEDULED"}
  <2>1. CASE req[s].op = "status"
    <3>1. req[s].status \in {"BUILDING", "RUNNING"} /\ new = WithStatus(loaded, req[s].status)
      BY <1>0, <2>1 DEF RequestSound, Changed, Progress
    <3> HIDE DEF new
    <3> QED
      BY <3>1 DEF WithStatus, TaskRow
  <2>2. CASE req[s].op = "result"
    <3>1. /\ req[s].status \in {"SUCCESS", "FAILED"}
          /\ new = WithResult(loaded, req[s].status, req[s].exit)
      BY <1>0, <2>2 DEF RequestSound, Changed
    <3> HIDE DEF new
    <3> QED
      BY <3>1 DEF WithResult, TaskRow
  <2>3. CASE req[s].op = "delete"
    <3>1. new = Cancelled(loaded)
      BY <2>3 DEF Changed
    <3> HIDE DEF new
    <3> QED
      BY <3>1 DEF Cancelled, TaskRow
  <2> QED
    BY <2>1, <2>2, <2>3 DEF TaskWrites
<1> QED
  BY <1>1 DEF RowMatches, UpdateTask, Column, TaskRow

LEMMA PassMatches ==
    ASSUME TypeOK, SnapshotsSound, AssignmentMatchesStatus, NEW s \in Session, Pass(s)
    PROVE  AssignmentMatchesStatus'
<1>1. CASE CommitPass(s)
  <2>1. raced' = raced /\ pc[s] = "place"
    BY <1>1 DEF CommitPass, EndPass, Step
  <2>2. ASSUME NEW t \in Task \ raced
        PROVE  RowMatches(tasks'[t])
    <3>1. CASE t \in Chosen(s)
      <4>1. tasks'[t] = PlacedRow(s, t)
        BY <1>1, <3>1 DEF CommitPass
      <4>2. orm[s].placed[t] \in Host
        BY <3>1, MemoryTyped DEF Chosen
      <4>3. LoadedRow(s, t) /\ PlacedObject(s, t)
        BY DEF SnapshotsSound
      <4>4. Unassigned(orm[s].tasks[t])
        BY <2>1, <3>1, <4>3 DEF LoadedRow, PlacedObject, Chosen, Passing
      <4> QED
        BY <4>1, <4>2, <4>4, MemoryTyped, WritesMatch DEF PlacedRow, TypeOK
    <3>2. CASE t \notin Chosen(s)
      BY <1>1, <3>2 DEF CommitPass, AssignmentMatchesStatus, RowMatches
    <3> QED
      BY <3>1, <3>2
  <2> QED
    BY <2>1, <2>2 DEF AssignmentMatchesStatus, RowMatches
<1>2. CASE ReadHosts(s) \/ ReadPending(s) \/ PlaceNext(s) \/ RaisePass(s)
  BY <1>2, SameRowsMatch DEF ReadHosts, ReadPending, PlaceNext, RaisePass, Step
<1> QED
  BY <1>1, <1>2 DEF Pass

LEMMA HandlersMatch ==
    ASSUME TypeOK, SnapshotsSound, AssignmentMatchesStatus, NEW s \in Session, Handle(s)
    PROVE  AssignmentMatchesStatus'
<1>0. RequestSound(s)
  BY DEF SnapshotsSound
<1> DEFINE t == req[s].task
<1>1. CASE GetHost(s) \/ PutHost(s) \/ RefreshHost(s) \/ Pick(s)
  BY <1>1, SameRowsMatch DEF GetHost, PutHost, RefreshHost, Pick, Step
<1>2. CASE InsertTask(s)
  <2>1. t \in Task /\ tasks' = [tasks EXCEPT ![t] = NewTask] /\ raced' = raced
    BY <1>0, <1>2 DEF InsertTask, RequestSound, Step
  <2>2. RowMatches(NewTask)
    BY NullsTyped, WritesMatch
  <2> QED
    BY <2>1, <2>2, OneRowMatches DEF TypeOK
<1>3. CASE ReadBack(s)
  <2>1. tasks' = tasks /\ raced \subseteq raced'
    BY <1>3 DEF ReadBack
  <2> QED
    BY <2>1, SameRowsMatch
<1>4. CASE GetTask(s) \/ RefreshTask(s)
  BY <1>4, SameRowsMatch DEF GetTask, RefreshTask
<1>5. CASE PutTask(s)
  <2> DEFINE row == UpdateTask(tasks[t], orm[s].tasks[t], Changed(s, orm[s].tasks[t]))
  <2>1. req[s].op \in TaskWrites /\ raced' = raced /\ t \in Task
    BY <1>0, <1>5 DEF PutTask, RequestSound
  <2>2. CASE Exists(tasks[t])
    <3>1. tasks' = [tasks EXCEPT ![t] = row]
      BY <1>5, <2>2 DEF PutTask
    <3>2. t \notin raced => RowMatches(tasks[t])
      BY <2>1 DEF AssignmentMatchesStatus, RowMatches
    <3>3. t \notin raced => RowMatches(row)
      BY <2>1, <3>2, MemoryTyped, ReportsMatch DEF TypeOK
    <3> HIDE DEF row
    <3> QED
      BY <2>1, <3>1, <3>3, OneRowMatches DEF TypeOK
  <2>3. CASE ~Exists(tasks[t])
    BY <1>5, <2>1, <2>3, SameRowsMatch DEF PutTask
  <2> QED
    BY <2>2, <2>3
<1>6. CASE DeleteTask(s)
  <2>1. /\ t \in Task /\ raced' = raced
        /\ tasks' = [tasks EXCEPT ![t] = [NoTaskRow EXCEPT !.status = "DELETED"]]
    BY <1>0, <1>6 DEF DeleteTask, Deletes, RequestSound, TaskWrites
  <2>2. RowMatches([NoTaskRow EXCEPT !.status = "DELETED"])
    BY NullsTyped, WritesMatch
  <2> QED
    BY <2>1, <2>2, OneRowMatches DEF TypeOK
<1> QED
  BY <1>1, <1>2, <1>3, <1>4, <1>5, <1>6 DEF Handle

LEMMA LoopMatches ==
    ASSUME TypeOK, SnapshotsSound, AssignmentMatchesStatus, LoopStep
    PROVE  AssignmentMatchesStatus'
<1>0. Loop \in Session
  OBVIOUS
<1>1. CASE CommitHealth
  <2>1. raced' = raced /\ pc[Loop] = "requeue"
    BY <1>1 DEF CommitHealth, Step
  <2>2. ASSUME NEW t \in Task \ raced
        PROVE  RowMatches(tasks'[t])
    <3>1. CASE t \in Lost
      <4>1. tasks'[t] = UpdateTask(tasks[t], orm[Loop].tasks[t],
                                   Requeued(orm[Loop].tasks[t]))
        BY <1>1, <3>1 DEF CommitHealth
      <4>2. LoadedRow(Loop, t)
        BY <1>0 DEF SnapshotsSound
      <4>3. Assigned(orm[Loop].tasks[t])
        BY <2>1, <3>1, <4>2 DEF LoadedRow, Lost
      <4> QED
        BY <1>0, <4>1, <4>3, MemoryTyped, WritesMatch DEF TypeOK
    <3>2. CASE t \notin Lost
      BY <1>1, <3>2 DEF CommitHealth, AssignmentMatchesStatus, RowMatches
    <3> QED
      BY <3>1, <3>2
  <2> QED
    BY <2>1, <2>2 DEF AssignmentMatchesStatus, RowMatches
<1>2. CASE Reconcile \/ RaiseHealth
  BY <1>2, SameRowsMatch DEF Reconcile, RaiseHealth, Step
<1>3. ASSUME NEW h \in Host, SelectLost(h)
      PROVE  AssignmentMatchesStatus'
  BY <1>3, SameRowsMatch DEF SelectLost, Step
<1> QED
  BY <1>1, <1>2, <1>3 DEF LoopStep

-----------------------------------------------------------------------------
(* The invariant. *)

IInv == TypeOK /\ SnapshotsSound /\ AssignmentMatchesStatus

LEMMA InitEstablishes == Init => IInv
<1> HAVE Init
<1>1. Fresh /\ raced = {}
  BY DEF Init, Fresh
<1>2. SessionsTyped /\ SnapshotsSound
  BY <1>1, FreshSound
<1>3. hosts \in [Host -> HostRow]
  <2>1. PICK known \in [Registered -> KnownHostRow] :
           hosts = [h \in Host |-> IF h \in Registered THEN known[h] ELSE NoHostRow]
    BY DEF Init
  <2>2. ASSUME NEW row \in KnownHostRow
        PROVE  row \in HostRow
    <3>1. PICK cpu \in CpuReport, mem \in MemReport :
             row = [status |-> "ONLINE", fresh |-> TRUE, cpu |-> cpu, mem |-> mem]
      BY DEF KnownHostRow
    <3>2. cpu \in Int /\ mem \in Int
      BY ReportAssumption
    <3> QED
      BY <3>1, <3>2 DEF HostRow, HostStatus
  <2> QED
    BY <2>1, <2>2, NullsTyped
<1>4. tasks = [t \in Task |-> NoTaskRow]
  BY DEF Init
<1>5. AssignmentMatchesStatus
  BY <1>4 DEF AssignmentMatchesStatus, NoTaskRow
<1> QED
  BY <1>1, <1>2, <1>3, <1>4, <1>5, NullsTyped DEF IInv, TypeOK, SessionsTyped

LEMMA StepPreserves == IInv /\ [Next]_vars => IInv'
<1> SUFFICES ASSUME IInv, [Next]_vars
             PROVE  IInv'
  OBVIOUS
<1> USE DEF IInv
<1>0. \A s \in Session : RequestSound(s)
  BY DEF SnapshotsSound
<1>1. ASSUME NEW s \in Thread, Requests(s)
      PROVE  IInv'
  <2>1. tasks' = tasks /\ raced' = raced
    BY <1>1 DEF Requests, BeginHeartbeat, BeginRegister, BeginCreate, BeginDelete,
                BeginStatus, BeginResult, Begin
  <2> QED
    BY <1>1, <2>1, RequestsTyped, RequestsSound, SameRowsMatch
<1>2. ASSUME NEW s \in Session, Pass(s)
      PROVE  IInv'
  BY <1>2, PassTyped, PassSound, PassMatches
<1>3. ASSUME NEW s \in Session, Handle(s)
      PROVE  IInv'
  <2>1. CASE GetHost(s) \/ PutHost(s) \/ RefreshHost(s) \/ Pick(s)
    <3>1. req[s].host \in Host
      BY <1>0, <2>1 DEF GetHost, PutHost, RefreshHost, Pick, RequestSound, Heartbeats
    <3> QED
      BY <1>3, <2>1, <3>1, HostHandlersTyped, HostHandlersSound, HandlersMatch
  <2>2. CASE \/ InsertTask(s) \/ ReadBack(s) \/ GetTask(s)
             \/ PutTask(s) \/ DeleteTask(s) \/ RefreshTask(s)
    <3>1. req[s].op \in TaskWrites \cup {"create"}
      BY <2>2 DEF InsertTask, ReadBack, GetTask, PutTask, DeleteTask, Deletes,
                  RefreshTask, TaskWrites
    <3>2. req[s].task \in Task
      BY <1>0, <3>1 DEF RequestSound
    <3>3. req[s].status \in Status \/ req[s].op \in {"create", "delete"}
      BY <1>0, <3>1 DEF RequestSound, TaskWrites, Progress, Status, Active, Finished
    <3> QED
      BY <1>3, <2>2, <3>2, <3>3, TaskHandlersTyped, TaskHandlersSound, HandlersMatch
  <2> QED
    BY <1>3, <2>1, <2>2 DEF Handle
<1>4. ASSUME NEW s \in Thread, Respond(s)
      PROVE  IInv'
  <2>1. tasks' = tasks /\ raced' = raced
    BY <1>4 DEF Respond
  <2> QED
    BY <1>4, <2>1, RespondSound, SameRowsMatch
<1>5. CASE LoopStep
  BY <1>5, LoopTyped, LoopSound, LoopMatches
<1>6. ASSUME NEW h \in Host, Expire(h)
      PROVE  IInv'
  <2>1. tasks' = tasks /\ raced' = raced
    BY <1>6 DEF Expire
  <2> QED
    BY <1>6, <2>1, ExpireTyped, ExpireSound, SameRowsMatch
<1>7. CASE Restart
  <2>1. tasks' = tasks /\ raced' = raced
    BY <1>7 DEF Restart
  <2> QED
    BY <1>7, <2>1, RestartSound, SameRowsMatch
<1>8. CASE UNCHANGED vars
  BY <1>8 DEF vars, TypeOK, SnapshotsSound, RequestSound, LoadedRow, PlacedObject,
              AssignmentMatchesStatus
<1> QED
  BY <1>1, <1>2, <1>3, <1>4, <1>5, <1>6, <1>7, <1>8 DEF Next, Work, Serve

-----------------------------------------------------------------------------
(* The variables stay in their types: every row the tables can reach and    *)
(* every object a session can hold is well formed (the handlers of          *)
(* src/master/api and the two services of the loop).                        *)
THEOREM TypeCorrect == Spec => []TypeOK
<1>1. IInv => TypeOK
  BY DEF IInv
<1> QED
  BY InitEstablishes, StepPreserves, <1>1, PTL DEF Spec

(* However many handlers, passes and health checks overlap, the status of   *)
(* a task and its assignment (assigned_host_id, scheduled_at) agree, unless *)
(* its own creation read it back too late.                                  *)
THEOREM AssignmentCorrect == Spec => []AssignmentMatchesStatus
<1>1. IInv => AssignmentMatchesStatus
  BY DEF IInv
<1> QED
  BY InitEstablishes, StepPreserves, <1>1, PTL DEF Spec

(* What a session works on stays what it was loaded as: a pass holds only   *)
(* tasks loaded as PENDING and unassigned, a health check only active ones  *)
(* with a host, and between requests a session holds nothing.               *)
THEOREM SnapshotsCorrect == Spec => []SnapshotsSound
<1>1. IInv => SnapshotsSound
  BY DEF IInv
<1> QED
  BY InitEstablishes, StepPreserves, <1>1, PTL DEF Spec

-----------------------------------------------------------------------------
(* Resources.  The rows alone are not inductive: a commit writes what a     *)
(* session has computed, so the objects are bounded as well.                *)

RowInCredit(row) == row.cpu >= 0 /\ row.mem >= 0

RInv == IInv /\ NoDebt /\ NoDebtInMemory

LEMMA CreditInMemory ==
    ASSUME NoDebtInMemory, NEW s \in Session, NEW h \in Host
    PROVE  RowInCredit(orm[s].hosts[h]) /\ RowInCredit(orm[s].view[h])
BY DEF NoDebtInMemory, NoDebtIn, RowInCredit

LEMMA UpdateInCredit ==
    ASSUME NEW stored, NEW loaded, NEW new, RowInCredit(stored), RowInCredit(new)
    PROVE  RowInCredit(UpdateHost(stored, loaded, new))
BY DEF RowInCredit, UpdateHost, Column

(* A host is charged for a task only when it is eligible: it can pay.       *)
LEMMA ChargeInCredit ==
    ASSUME NEW row \in HostRow, NEW t \in Task, RowInCredit(row), Eligible(row, t)
    PROVE  RowInCredit(Charged(row, t))
<1>1. /\ row.cpu \in Int /\ row.mem \in Int
      /\ row.cpu - Demand(CpuLimit[t]) >= 0
      /\ row.mem - Demand(MemLimit[t]) >= 0
  <2>1. row.cpu \in Int /\ row.mem \in Int
    BY DEF HostRow
  <2>2. row.cpu - Demand(CpuLimit[t]) >= 0
    BY <2>1, LimitAssumption DEF Eligible, Enough, Demand, RowInCredit
  <2>3. row.mem - Demand(MemLimit[t]) >= 0
    BY <2>1, LimitAssumption DEF Eligible, Enough, Demand, RowInCredit
  <2> QED
    BY <2>1, <2>2, <2>3
<1> QED
  BY <1>1 DEF Charged, RowInCredit, HostRow

(* The session that moves holds a new memory in credit. *)
LEMMA MemoryInCredit ==
    ASSUME TypeOK, NoDebtInMemory, NEW s \in Session, NEW memory, Hold(s, memory),
           NoDebtIn(memory.hosts), NoDebtIn(memory.view)
    PROVE  NoDebtInMemory'
<1>1. orm'[s] = memory /\ \A r \in Session \ {s} : orm'[r] = orm[r]
  BY HoldMoves
<1> QED
  BY <1>1 DEF NoDebtInMemory, NoDebtIn

LEMMA ForgottenInCredit ==
    ASSUME TypeOK, NoDebtInMemory, NEW s \in Session, Forget(s)
    PROVE  NoDebtInMemory'
<1>1. NoDebtIn(EmptyMemory.hosts) /\ NoDebtIn(EmptyMemory.view)
  BY DEF NoDebtIn, EmptyMemory, NoHostRow
<1> QED
  BY <1>1, MemoryInCredit DEF Forget

LEMMA SameInCredit ==
    /\ NoDebt /\ hosts' = hosts => NoDebt'
    /\ NoDebtInMemory /\ orm' = orm => NoDebtInMemory'
BY DEF NoDebt, NoDebtInMemory, NoDebtIn

(* What a session commits of its host objects.                              *)
LEMMA CommitInCredit ==
    ASSUME NoDebt, NoDebtInMemory, NEW s \in Session,
           hosts' = [h \in Host |-> UpdateHost(hosts[h], orm[s].hosts[h],
                                               orm[s].view[h])]
    PROVE  NoDebt'
<1>1. ASSUME NEW h \in Host
      PROVE  RowInCredit(hosts'[h])
  <2>1. RowInCredit(hosts[h])
    BY DEF NoDebt, NoDebtIn, RowInCredit
  <2>2. RowInCredit(orm[s].view[h])
    BY CreditInMemory
  <2> QED
    BY <2>1, <2>2, UpdateInCredit
<1> QED
  BY <1>1 DEF NoDebt, NoDebtIn, RowInCredit

LEMMA HostHandlersInCredit ==
    ASSUME RInv, NEW s \in Session,
           GetHost(s) \/ PutHost(s) \/ RefreshHost(s) \/ Pick(s)
    PROVE  NoDebt' /\ NoDebtInMemory'
<1> DEFINE h == req[s].host
<1> USE DEF RInv, IInv
<1>0. h \in Host
  BY DEF SnapshotsSound, RequestSound, Heartbeats, GetHost, PutHost, RefreshHost, Pick
<1>1. ASSUME HoldHost(s, h)
      PROVE  NoDebtInMemory'
  <2> DEFINE memory == [orm[s] EXCEPT !.hosts = [orm[s].hosts EXCEPT ![h] = hosts[h]]]
  <2>1. /\ memory.hosts = [orm[s].hosts EXCEPT ![h] = hosts[h]]
        /\ memory.view = orm[s].view
    BY MemoryTyped DEF Memory
  <2>2. NoDebtIn(memory.hosts) /\ NoDebtIn(memory.view)
    BY <1>0, <2>1, MemoryTyped DEF NoDebt, NoDebtIn, NoDebtInMemory
  <2>3. Hold(s, memory)
    BY <1>1 DEF HoldHost
  <2> HIDE DEF memory
  <2> QED
    BY <2>2, <2>3, MemoryInCredit
<1>2. CASE GetHost(s) \/ RefreshHost(s)
  BY <1>1, <1>2, SameInCredit DEF GetHost, RefreshHost
<1>3. CASE PutHost(s)
  <2> DEFINE new == [status |-> "ONLINE", fresh |-> TRUE,
                     cpu |-> req[s].cpu, mem |-> req[s].mem]
             row == UpdateHost(hosts[h], orm[s].hosts[h], new)
  <2>1. hosts' = [hosts EXCEPT ![h] = [row EXCEPT !.fresh = TRUE]]
    BY <1>3 DEF PutHost
  <2>2. RowInCredit(new)
    BY RequestTyped DEF RowInCredit
  <2>3. RowInCredit(hosts[h])
    BY <1>0 DEF NoDebt, NoDebtIn, RowInCredit
  <2>4. RowInCredit(row)
    BY <2>2, <2>3, UpdateInCredit
  <2>5. RowInCredit([row EXCEPT !.fresh = TRUE])
    BY <2>4 DEF RowInCredit, UpdateHost
  <2>6. NoDebt'
    BY <1>0, <2>1, <2>5 DEF NoDebt, NoDebtIn, RowInCredit, TypeOK
  <2> QED
    BY <1>3, <2>6, SameInCredit DEF PutHost
<1>4. CASE Pick(s)
  BY <1>4, ForgottenInCredit, SameInCredit DEF Pick, Answer
<1> QED
  BY <1>2, <1>3, <1>4

LEMMA PassInCredit ==
    ASSUME RInv, NEW s \in Session, Pass(s)
    PROVE  NoDebt' /\ NoDebtInMemory'
<1> USE DEF RInv, IInv
<1>1. CASE ReadHosts(s)
  <2> DEFINE rows == [h \in Host |-> IF orm[s].hosts[h].status # "NONE"
                                     THEN orm[s].hosts[h] ELSE hosts[h]]
             memory == [orm[s] EXCEPT !.hosts = rows, !.view = rows]
  <2>1. memory.hosts = rows /\ memory.view = rows
    BY MemoryTyped DEF Memory
  <2>2. NoDebtIn(rows)
    BY DEF NoDebt, NoDebtIn, NoDebtInMemory
  <2>3. Hold(s, memory) /\ hosts' = hosts
    BY <1>1 DEF ReadHosts
  <2> HIDE DEF memory, rows
  <2> QED
    BY <2>1, <2>2, <2>3, MemoryInCredit, SameInCredit
<1>2. CASE ReadPending(s)
  <2>1. CASE Forget(s)
    BY <1>2, <2>1, ForgottenInCredit, SameInCredit DEF ReadPending
  <2>2. ASSUME NEW queue, NEW loaded,
               Hold(s, [orm[s] EXCEPT !.todo = queue, !.tasks = loaded])
        PROVE  NoDebtInMemory'
    <3> DEFINE memory == [orm[s] EXCEPT !.todo = queue, !.tasks = loaded]
    <3>1. memory.hosts = orm[s].hosts /\ memory.view = orm[s].view
      BY MemoryTyped DEF Memory
    <3>2. Hold(s, memory)
      BY <2>2
    <3> HIDE DEF memory
    <3> QED
      BY <3>1, <3>2, MemoryInCredit DEF NoDebtInMemory
  <2> QED
    BY <1>2, <2>1, <2>2, SameInCredit DEF ReadPending
<1>3. CASE PlaceNext(s)
  <2>1. ASSUME NEW t \in Task, NEW h \in BestHosts(orm[s].view, t), NEW todo, NEW placed,
               Hold(s, [orm[s] EXCEPT !.todo = todo, !.placed = placed,
                                      !.view = ChargeHost(orm[s].view, h, t)])
        PROVE  NoDebtInMemory'
    <3> DEFINE memory == [orm[s] EXCEPT !.todo = todo, !.placed = placed,
                                        !.view = ChargeHost(orm[s].view, h, t)]
    <3>1. /\ memory.hosts = orm[s].hosts
          /\ memory.view = [orm[s].view EXCEPT ![h] = Charged(orm[s].view[h], t)]
      BY MemoryTyped DEF Memory, ChargeHost
    <3>2. h \in Host /\ Eligible(orm[s].view[h], t)
      BY DEF BestHosts, Candidates
    <3>3. RowInCredit(Charged(orm[s].view[h], t))
      BY <3>2, CreditInMemory, ChargeInCredit, MemoryTyped
    <3>4. NoDebtIn(memory.view)
      BY <3>1, <3>2, <3>3, MemoryTyped DEF NoDebtInMemory, NoDebtIn, RowInCredit
    <3>5. Hold(s, memory) /\ NoDebtIn(memory.hosts)
      BY <2>1, <3>1 DEF NoDebtInMemory
    <3> HIDE DEF memory
    <3> QED
      BY <3>4, <3>5, MemoryInCredit
  <2>2. ASSUME NEW todo, Hold(s, [orm[s] EXCEPT !.todo = todo])
        PROVE  NoDebtInMemory'
    <3> DEFINE memory == [orm[s] EXCEPT !.todo = todo]
    <3>1. memory.hosts = orm[s].hosts /\ memory.view = orm[s].view
      BY MemoryTyped DEF Memory
    <3>2. Hold(s, memory)
      BY <2>2
    <3> HIDE DEF memory
    <3> QED
      BY <3>1, <3>2, MemoryInCredit DEF NoDebtInMemory
  <2> QED
    BY <1>3, <2>1, <2>2, SameInCredit DEF PlaceNext
<1>4. CASE CommitPass(s)
  BY <1>4, CommitInCredit, ForgottenInCredit DEF CommitPass, EndPass
<1>5. CASE RaisePass(s)
  BY <1>5, SameInCredit, ForgottenInCredit DEF RaisePass, EndPass
<1> QED
  BY <1>1, <1>2, <1>3, <1>4, <1>5 DEF Pass

LEMMA TaskHandlersInCredit ==
    ASSUME RInv, NEW s \in Session,
           \/ InsertTask(s) \/ ReadBack(s) \/ GetTask(s)
           \/ PutTask(s) \/ DeleteTask(s) \/ RefreshTask(s)
    PROVE  NoDebt' /\ NoDebtInMemory'
<1> USE DEF RInv, IInv
<1>1. ASSUME NEW t, HoldTask(s, t)
      PROVE  NoDebtInMemory'
  <2> DEFINE memory == [orm[s] EXCEPT !.tasks = [orm[s].tasks EXCEPT ![t] = tasks[t]]]
  <2>1. memory.hosts = orm[s].hosts /\ memory.view = orm[s].view
    BY MemoryTyped DEF Memory
  <2>2. Hold(s, memory)
    BY <1>1 DEF HoldTask
  <2> HIDE DEF memory
  <2> QED
    BY <2>1, <2>2, MemoryInCredit DEF NoDebtInMemory
<1>2. hosts' = hosts
  BY DEF InsertTask, ReadBack, GetTask, PutTask, DeleteTask, RefreshTask
<1>3. \/ orm' = orm \/ Forget(s) \/ \E t : HoldTask(s, t)
  BY DEF InsertTask, ReadBack, GetTask, PutTask, DeleteTask, RefreshTask, Answer
<1> QED
  BY <1>1, <1>2, <1>3, SameInCredit, ForgottenInCredit

LEMMA LoopInCredit ==
    ASSUME RInv, LoopStep
    PROVE  NoDebt' /\ NoDebtInMemory'
<1> USE DEF RInv, IInv
<1>0. Loop \in Session
  OBVIOUS
<1>1. CASE Reconcile
  <2> DEFINE changed == [h \in Host |->
                 IF hosts[h].fresh THEN [hosts[h] EXCEPT !.status = "ONLINE"]
                                   ELSE hosts[h]]
             memory == [orm[Loop] EXCEPT !.hosts = hosts, !.view = changed]
  <2>1. memory.hosts = hosts /\ memory.view = changed
    BY <1>0, MemoryTyped DEF Memory
  <2>2. NoDebtIn(hosts)
    BY DEF NoDebt
  <2>3. NoDebtIn(changed)
    BY <2>2 DEF NoDebtIn, TypeOK, HostRow
  <2>4. Hold(Loop, memory) /\ hosts' = hosts
    BY <1>1 DEF Reconcile
  <2> HIDE DEF memory, changed
  <2> QED
    BY <1>0, <2>1, <2>2, <2>3, <2>4, MemoryInCredit, SameInCredit
<1>2. ASSUME NEW h \in Host, SelectLost(h)
      PROVE  NoDebt' /\ NoDebtInMemory'
  <2> DEFINE view == orm[Loop].view
             changed == [view EXCEPT ![h] = [view[h] EXCEPT !.status = "OFFLINE"]]
  <2>1. PICK found : Hold(Loop, [orm[Loop] EXCEPT !.view = changed, !.tasks = found])
    BY <1>2 DEF SelectLost
  <2> DEFINE memory == [orm[Loop] EXCEPT !.view = changed, !.tasks = found]
  <2>2. memory.hosts = orm[Loop].hosts /\ memory.view = changed
    BY <1>0, MemoryTyped DEF Memory
  <2>3. NoDebtIn(changed)
    BY <1>0, MemoryTyped DEF NoDebtInMemory, NoDebtIn, HostRow
  <2>4. Hold(Loop, memory) /\ hosts' = hosts /\ NoDebtIn(orm[Loop].hosts)
    BY <1>0, <1>2, <2>1 DEF SelectLost, NoDebtInMemory
  <2> HIDE DEF memory, changed
  <2> QED
    BY <1>0, <2>2, <2>3, <2>4, MemoryInCredit, SameInCredit
<1>3. CASE CommitHealth
  BY <1>0, <1>3, CommitInCredit, ForgottenInCredit DEF CommitHealth
<1>4. CASE RaiseHealth
  BY <1>0, <1>4, SameInCredit, ForgottenInCredit DEF RaiseHealth
<1> QED
  BY <1>1, <1>2, <1>3, <1>4 DEF LoopStep

LEMMA RInitial == Init => RInv
<1> SUFFICES ASSUME Init PROVE RInv
  OBVIOUS
<1>1. PICK known \in [Registered -> KnownHostRow] :
         hosts = [h \in Host |-> IF h \in Registered THEN known[h] ELSE NoHostRow]
  BY DEF Init
<1>2. ASSUME NEW row \in KnownHostRow
      PROVE  RowInCredit(row)
  <2>1. PICK cpu \in CpuReport, mem \in MemReport :
           row = [status |-> "ONLINE", fresh |-> TRUE, cpu |-> cpu, mem |-> mem]
    BY DEF KnownHostRow
  <2>2. cpu >= 0 /\ mem >= 0
    BY ReportAssumption
  <2> QED
    BY <2>1, <2>2 DEF RowInCredit
<1>3. ASSUME NEW h \in Host
      PROVE  RowInCredit(hosts[h])
  <2>1. hosts[h] = IF h \in Registered THEN known[h] ELSE NoHostRow
    BY <1>1
  <2>2. RowInCredit(NoHostRow)
    BY DEF NoHostRow, RowInCredit
  <2>3. CASE h \in Registered
    <3>1. known[h] \in KnownHostRow
      BY <2>3
    <3> QED
      BY <1>2, <2>1, <2>3, <3>1
  <2> QED
    BY <2>1, <2>2, <2>3
<1>4. NoDebtInMemory
  BY DEF Init, NoDebtInMemory, NoDebtIn, EmptyMemory, NoHostRow
<1> QED
  BY <1>3, <1>4, InitEstablishes DEF RInv, NoDebt, NoDebtIn, RowInCredit

LEMMA RPreserved == RInv /\ [Next]_vars => RInv'
<1> SUFFICES ASSUME RInv, [Next]_vars PROVE NoDebt' /\ NoDebtInMemory'
  BY StepPreserves DEF RInv
<1> USE DEF RInv, IInv
<1>1. ASSUME NEW s \in Thread, Requests(s) \/ Respond(s)
      PROVE  NoDebt' /\ NoDebtInMemory'
  <2>1. hosts' = hosts /\ orm' = orm
    BY <1>1 DEF Respond, Requests, BeginHeartbeat, BeginRegister, BeginCreate,
                BeginDelete, BeginStatus, BeginResult, Begin
  <2> QED
    BY <2>1, SameInCredit
<1>2. ASSUME NEW s \in Session, Pass(s)
      PROVE  NoDebt' /\ NoDebtInMemory'
  BY <1>2, PassInCredit
<1>3. ASSUME NEW s \in Session, Handle(s)
      PROVE  NoDebt' /\ NoDebtInMemory'
  BY <1>3, HostHandlersInCredit, TaskHandlersInCredit DEF Handle
<1>4. CASE LoopStep
  BY <1>4, LoopInCredit
<1>5. ASSUME NEW h \in Host, Expire(h)
      PROVE  NoDebt' /\ NoDebtInMemory'
  <2>1. orm' = orm /\ hosts' = [hosts EXCEPT ![h] = [hosts[h] EXCEPT !.fresh = FALSE]]
    BY <1>5 DEF Expire
  <2>2. NoDebt'
    BY <2>1 DEF NoDebt, NoDebtIn, TypeOK, HostRow
  <2> QED
    BY <2>1, <2>2, SameInCredit
<1>6. CASE Restart
  <2>1. NoDebtInMemory'
    BY <1>6 DEF Restart, NoDebtInMemory, NoDebtIn, EmptyMemory, NoHostRow
  <2> QED
    BY <1>6, <2>1, SameInCredit DEF Restart
<1>7. CASE UNCHANGED vars
  BY <1>7, SameInCredit DEF vars
<1> QED
  BY <1>1, <1>2, <1>3, <1>4, <1>5, <1>6, <1>7 DEF Next, Work, Serve

(* The resources a host is recorded with never go below zero, however many  *)
(* passes deduct from one host and whatever heartbeats write in between     *)
(* (schedule_pending_tasks in src/master/scheduler.py).                     *)
THEOREM ResourcesCorrect == Spec => []NoDebt
<1>1. RInv => NoDebt
  BY DEF RInv
<1> QED
  BY RInitial, RPreserved, <1>1, PTL DEF Spec
=============================================================================
