------------------------------- MODULE Master -------------------------------
(***************************************************************************)
(* The master of src/master: the task and host tables, the handlers that    *)
(* FastAPI runs on its worker threads and the background loop, at the grain *)
(* of single SQL statements.                                                *)
(*                                                                         *)
(* A handler works on objects its session has loaded and writes them back   *)
(* in one commit.  Between its statements the other handlers and the loop   *)
(* take theirs; nothing locks a row between the SELECT and the UPDATE.  The  *)
(* ORM decides what a commit writes: of an object that was loaded, only the  *)
(* columns whose value now differs from the loaded one, whatever the row     *)
(* holds by then; and an object the session still refers to keeps its loaded *)
(* values when a later SELECT returns its row again.  An UPDATE that finds   *)
(* its row deleted raises and rolls its transaction back.                    *)
(*                                                                         *)
(* Timestamps are reduced to whether they are set; last_heartbeat to         *)
(* whether it is fresh.                                                      *)
(***************************************************************************)
EXTENDS Placement

CONSTANTS Thread,      \* worker threads of the server
          Loop,        \* the background loop
          Registered,  \* the hosts that already have a row at the start
          NoTask,      \* an empty assigned_task in a heartbeat's response
          CpuReport,   \* values an agent may report as cpu_available
          MemReport,   \* and as memory_available_mb
          Reported     \* the outcomes of containers, of those in Outcome

ASSUME SessionAssumption == Loop \notin Thread
ASSUME RegisteredAssumption == Registered \subseteq Host
ASSUME NoTaskAssumption == NoTask \notin Task
ASSUME ReportAssumption == CpuReport \subseteq Nat /\ MemReport \subseteq Nat

Session == Thread \cup {Loop}

VARIABLES hosts,    \* the hosts table
          tasks,    \* the tasks table
          pc,       \* for each session, the statement it executes next
          req,      \* the request it serves; a heartbeat's answer
          orm,      \* what its ORM session holds
          raced     \* history: the tasks another pass had already taken
                    \* when the handler that created them read them back

vars == <<hosts, tasks, pc, req, orm, raced>>

-----------------------------------------------------------------------------
(* Rows *)

Active == {"SCHEDULED", "BUILDING", "RUNNING"}
Finished == {"SUCCESS", "FAILED", "CANCELLED"}       \* _DELETABLE_STATUSES
Status == {"PENDING"} \cup Active \cup Finished
Exit == {"null", "zero", "nonzero"}

(* status is "NONE" before the row is inserted, "DELETED" after its DELETE; *)
(* sched, start and done: whether scheduled_at, started_at and completed_at *)
(* are set.                                                                 *)
TaskRow == [status : Status \cup {"NONE", "DELETED"}, host : Host \cup {NoHost},
            sched : BOOLEAN, start : BOOLEAN, done : BOOLEAN, exit : Exit]

NoTaskRow == [status |-> "NONE", host |-> NoHost, sched |-> FALSE,
              start |-> FALSE, done |-> FALSE, exit |-> "null"]

NewTask == [NoTaskRow EXCEPT !.status = "PENDING"]

Exists(row) == row.status \notin {"NONE", "DELETED"}

(* What the handlers make of a loaded object. *)

Scheduled(row, h) == [row EXCEPT !.status = "SCHEDULED", !.host = h,
                                 !.sched = TRUE]

(* Faulty, forgets assigned_host_id. *)
RequeuedOnHost(row) == [row EXCEPT !.status = "PENDING", !.sched = FALSE,
                                   !.start = FALSE]

(* Faulty, forgets the status. *)
RequeuedAsItIs(row) == [row EXCEPT !.host = NoHost, !.sched = FALSE,
                                   !.start = FALSE]

Requeued(row) == [row EXCEPT !.status = "PENDING", !.host = NoHost,
                             !.sched = FALSE, !.start = FALSE]

(* Faulty, a status that is not declared. *)
CancelledMisspelt(row) == [row EXCEPT !.status = "CANCELED", !.done = TRUE]

Cancelled(row) == [row EXCEPT !.status = "CANCELLED", !.done = TRUE]

WithStatus(row, status) ==
    [row EXCEPT !.status = status,
                !.start = row.start \/ status \in {"BUILDING", "RUNNING"},
                !.done = row.done \/ status \in Finished]

WithResult(row, status, exit) ==
    [row EXCEPT !.status = status, !.exit = exit, !.done = TRUE]

(* The UPDATE of a row: a column is written when the object differs in it   *)
(* from what was loaded.                                                    *)
Column(stored, loaded, new) == IF new = loaded THEN stored ELSE new

UpdateTask(stored, loaded, new) ==
    [status |-> Column(stored.status, loaded.status, new.status),
     host   |-> Column(stored.host, loaded.host, new.host),
     sched  |-> Column(stored.sched, loaded.sched, new.sched),
     start  |-> Column(stored.start, loaded.start, new.start),
     done   |-> Column(stored.done, loaded.done, new.done),
     exit   |-> Column(stored.exit, loaded.exit, new.exit)]

(* Faulty, never writes the status of a host. *)
UpdateResources(stored, loaded, new) ==
    [stored EXCEPT !.cpu = Column(stored.cpu, loaded.cpu, new.cpu),
                   !.mem = Column(stored.mem, loaded.mem, new.mem)]

(* Faulty, subtracts in SQL what the pass has deducted. *)
UpdateByDifference(stored, loaded, new) ==
    [status |-> Column(stored.status, loaded.status, new.status),
     fresh  |-> stored.fresh,
     cpu    |-> stored.cpu - (loaded.cpu - new.cpu),
     mem    |-> stored.mem - (loaded.mem - new.mem)]

UpdateHost(stored, loaded, new) ==
    [status |-> Column(stored.status, loaded.status, new.status),
     fresh  |-> stored.fresh,
     cpu    |-> Column(stored.cpu, loaded.cpu, new.cpu),
     mem    |-> Column(stored.mem, loaded.mem, new.mem)]

-----------------------------------------------------------------------------
(* Sessions *)

Request == [op : {"none", "loop", "register", "heartbeat", "create", "status",
                  "result", "delete"},
            host : Host \cup {NoHost}, task : Task \cup {NoTask},
            status : Status \cup {"NONE"}, exit : Exit, cpu : Nat, mem : Nat]

NoRequest == [op |-> "none", host |-> NoHost, task |-> NoTask,
              status |-> "NONE", exit |-> "null", cpu |-> 0, mem |-> 0]

(* hosts, tasks: objects as loaded, "NONE" in those that are not; view: the *)
(* host objects as changed; todo, placed: the loop of the pass.             *)
Memory == [hosts : [Host -> HostRow], view : [Host -> HostRow],
           tasks : [Task -> TaskRow], todo : SUBSET Task,
           placed : [Task -> Host \cup {NoHost}]]

EmptyMemory == [hosts |-> [h \in Host |-> NoHostRow],
                view |-> [h \in Host |-> NoHostRow],
                tasks |-> [t \in Task |-> NoTaskRow],
                todo |-> {},
                placed |-> [t \in Task |-> NoHost]]

PC == {"idle", "get", "put", "refresh", "pass", "pending", "place", "pick",
       "reply", "error", "requeue", "flush", "sleep", "dead"}

TypeOK == /\ hosts \in [Host -> HostRow]
          /\ tasks \in [Task -> TaskRow]
          /\ pc \in [Session -> PC]
          /\ req \in [Session -> Request]
          /\ orm \in [Session -> Memory]
          /\ raced \subseteq Task

(* The master may start on the database file of an earlier run: the hosts   *)
(* of Registered have reported to that one, just before.                    *)
KnownHostRow == [status : {"ONLINE"}, fresh : {TRUE},
                 cpu : CpuReport, mem : MemReport]

Init == /\ \E known \in [Registered -> KnownHostRow] :
              hosts = [h \in Host |-> IF h \in Registered THEN known[h]
                                                         ELSE NoHostRow]
        /\ tasks = [t \in Task |-> NoTaskRow]
        /\ pc = [s \in Session |-> IF s = Loop THEN "sleep" ELSE "idle"]
        /\ req = [s \in Session |->
                    [NoRequest EXCEPT !.op = IF s = Loop THEN "loop" ELSE "none"]]
        /\ orm = [s \in Session |-> EmptyMemory]
        /\ raced = {}

Goto(s, l) == pc' = [pc EXCEPT ![s] = l]
Hold(s, memory) == orm' = [orm EXCEPT ![s] = memory]
Forget(s) == Hold(s, EmptyMemory)

(* The endpoint returns or raises; db.close() drops the session's objects. *)
Answer(s, l) == Goto(s, l) /\ Forget(s)

(* The loop runs on the event loop's own thread: while it works no request  *)
(* is handed to a worker and no response leaves.                            *)
EventLoopFree == pc[Loop] \in {"sleep", "dead"}

(* A worker takes up a request.                                             *)
Begin(s, request, l) == /\ EventLoopFree
                        /\ s \in Thread
                        /\ pc[s] = "idle"
                        /\ Goto(s, l)
                        /\ req' = [req EXCEPT ![s] = request]
                        /\ UNCHANGED <<hosts, tasks, orm, raced>>

(* A worker or the loop executes its next statement: it may write the       *)
(* tables and what its session holds, and goes on at l.                     *)
Step(s, l) == Goto(s, l) /\ UNCHANGED <<req, raced>>

-----------------------------------------------------------------------------
(* POST /agent/heartbeat (api/hosts.py).  An agent without an id registers: *)
(* its host row is inserted under a fresh identifier.                       *)

Measured(cpu, mem) == [NoRequest EXCEPT !.cpu = cpu, !.mem = mem]

BeginHeartbeat(s, h, cpu, mem) ==
    /\ hosts[h].status # "NONE"
    /\ Begin(s, [Measured(cpu, mem) EXCEPT !.op = "heartbeat", !.host = h], "get")

BeginRegister(s, h, cpu, mem) ==
    /\ hosts[h].status = "NONE"
    /\ \A r \in Thread : req[r].host # h
    /\ Begin(s, [Measured(cpu, mem) EXCEPT !.op = "register", !.host = h], "put")

Heartbeats == {"register", "heartbeat"}

HoldHost(s, h) ==
    Hold(s, [orm[s] EXCEPT !.hosts = [orm[s].hosts EXCEPT ![h] = hosts[h]]])

GetHost(s) ==
    /\ pc[s] = "get"
    /\ req[s].op = "heartbeat"
    /\ HoldHost(s, req[s].host)
    /\ Step(s, "put")
    /\ UNCHANGED <<hosts, tasks>>

PutHost(s) ==
    /\ pc[s] = "put"
    /\ req[s].op \in Heartbeats
    /\ LET h == req[s].host
           new == [status |-> "ONLINE", fresh |-> TRUE,
                   cpu |-> req[s].cpu, mem |-> req[s].mem]
           row == UpdateHost(hosts[h], orm[s].hosts[h], new)
       IN  hosts' = [hosts EXCEPT ![h] = [row EXCEPT !.fresh = TRUE]]
    /\ Step(s, "refresh")
    /\ UNCHANGED <<tasks, orm>>

RefreshHost(s) ==
    /\ pc[s] = "refresh"
    /\ req[s].op \in Heartbeats
    /\ HoldHost(s, req[s].host)
    /\ Step(s, "pass")
    /\ UNCHANGED <<hosts, tasks>>

(* After the pass: the response carries a task that is SCHEDULED on the host.*)
(* Which one is left open: their order by scheduled_at is not modelled.     *)
Waiting(h) == {t \in Task : tasks[t].status = "SCHEDULED" /\ tasks[t].host = h}

Pick(s) ==
    /\ pc[s] = "pick"
    /\ LET waiting == Waiting(req[s].host)
       IN  \E t \in (IF waiting = {} THEN {NoTask} ELSE waiting) :
              req' = [req EXCEPT ![s].task = t]
    /\ Answer(s, "reply")
    /\ UNCHANGED <<hosts, tasks, raced>>

-----------------------------------------------------------------------------
(* schedule_pending_tasks (scheduler.py), run by every heartbeat, by every  *)
(* creation of a task and by the loop, each in its own session.             *)

AfterPass(s) == CASE req[s].op \in Heartbeats -> "pick"
                  [] req[s].op = "create" -> "reply"
                  [] OTHER -> "sleep"

ReadHosts(s) ==
    /\ pc[s] = "pass"
    /\ LET rows == [h \in Host |-> IF orm[s].hosts[h].status # "NONE"
                                   THEN orm[s].hosts[h] ELSE hosts[h]]
       IN  Hold(s, [orm[s] EXCEPT !.hosts = rows, !.view = rows])
    /\ Step(s, "pending")
    /\ UNCHANGED <<hosts, tasks>>

ReadPending(s) ==
    /\ pc[s] = "pending"
    /\ LET queue == {t \in Task : tasks[t].status = "PENDING"}
       IN  IF queue = {}
           THEN Forget(s) /\ Step(s, AfterPass(s))
           ELSE /\ Hold(s, [orm[s] EXCEPT
                     !.todo = queue,
                     !.tasks = [t \in Task |->
                         IF t \notin queue THEN NoTaskRow
                         ELSE IF Exists(orm[s].tasks[t]) THEN orm[s].tasks[t]
                         ELSE tasks[t]]])
                /\ Step(s, "place")
    /\ UNCHANGED <<hosts, tasks>>

(* Faulty, forgets the deduction. *)
PlaceForFree(s) ==
    /\ pc[s] = "place"
    /\ \E t \in Task :
          /\ IsNext(t, orm[s].todo)
          /\ \/ \E h \in BestHosts(orm[s].view, t) :
                   Hold(s, [orm[s] EXCEPT
                       !.todo = orm[s].todo \ {t},
                       !.placed = [orm[s].placed EXCEPT ![t] = h]])
             \/ /\ Candidates(orm[s].view, t) = {}
                /\ Hold(s, [orm[s] EXCEPT !.todo = orm[s].todo \ {t}])
    /\ Step(s, "place")
    /\ UNCHANGED <<hosts, tasks>>

PlaceNext(s) ==
    /\ pc[s] = "place"
    /\ \E t \in Task :
          /\ IsNext(t, orm[s].todo)
          /\ \/ \E h \in BestHosts(orm[s].view, t) :
                   Hold(s, [orm[s] EXCEPT
                       !.todo = orm[s].todo \ {t},
                       !.placed = [orm[s].placed EXCEPT ![t] = h],
                       !.view = ChargeHost(orm[s].view, h, t)])
             \/ /\ Candidates(orm[s].view, t) = {}
                /\ Hold(s, [orm[s] EXCEPT !.todo = orm[s].todo \ {t}])
    /\ Step(s, "place")
    /\ UNCHANGED <<hosts, tasks>>

Chosen(s) == {t \in Task : orm[s].placed[t] # NoHost}

AfterRaise(s) == IF s = Loop THEN "dead" ELSE "error"

(* "if scheduled: db.commit()".  scheduled_at is a new time in every pass,  *)
(* so that column is always written.                                        *)
PlacedRow(s, t) ==
    [UpdateTask(tasks[t], orm[s].tasks[t],
                Scheduled(orm[s].tasks[t], orm[s].placed[t]))
     EXCEPT !.sched = TRUE]

(* Faulty, the session is used again and not closed. *)
EndPassOpen(s) == /\ pc[s] = "place"
                  /\ orm[s].todo = {}
                  /\ UNCHANGED orm

EndPass(s) == /\ pc[s] = "place"
              /\ orm[s].todo = {}
              /\ Forget(s)

CommitPass(s) ==
    /\ EndPass(s)
    /\ \A t \in Chosen(s) : Exists(tasks[t])
    /\ tasks' = [t \in Task |-> IF t \in Chosen(s) THEN PlacedRow(s, t)
                                                   ELSE tasks[t]]
    /\ hosts' = [h \in Host |-> UpdateHost(hosts[h], orm[s].hosts[h],
                                           orm[s].view[h])]
    /\ Step(s, AfterPass(s))

(* A task of the pass was deleted meanwhile: its UPDATE matches no row.     *)
RaisePass(s) ==
    /\ EndPass(s)
    /\ \E t \in Chosen(s) : ~Exists(tasks[t])
    /\ Step(s, AfterRaise(s))
    /\ UNCHANGED <<hosts, tasks>>

-----------------------------------------------------------------------------
(* POST /tasks (api/tasks.py): INSERT, read back, schedule. *)

BeginCreate(s, t) ==
    /\ tasks[t].status = "NONE"
    /\ \A r \in Thread : req[r].op = "create" => req[r].task # t
    /\ Begin(s, [NoRequest EXCEPT !.op = "create", !.task = t], "put")

InsertTask(s) ==
    /\ pc[s] = "put"
    /\ req[s].op = "create"
    /\ tasks' = [tasks EXCEPT ![req[s].task] = NewTask]
    /\ Step(s, "refresh")
    /\ UNCHANGED <<hosts, orm>>

HoldTask(s, t) ==
    Hold(s, [orm[s] EXCEPT !.tasks = [orm[s].tasks EXCEPT ![t] = tasks[t]]])

ReadBack(s) ==
    /\ pc[s] = "refresh"
    /\ req[s].op = "create"
    /\ LET t == req[s].task
       IN  IF Exists(tasks[t])
           THEN /\ HoldTask(s, t)
                /\ raced' = raced \cup {u \in {t} : tasks[u].status # "PENDING"}
                /\ Goto(s, "pass")
           ELSE Answer(s, "error") /\ UNCHANGED raced
    /\ UNCHANGED <<hosts, tasks, req>>

-----------------------------------------------------------------------------
(* PUT /agent/tasks/{id}/status and /result (api/agent.py) and              *)
(* DELETE /tasks/{id} (api/tasks.py): load the row, change it, commit.      *)

TaskWrites == {"status", "result", "delete"}

(* What an agent reports: BUILDING and RUNNING while it works, and at the   *)
(* end what execute_task made of the container.                             *)
Progress == {"BUILDING", "RUNNING"}
Outcome == {<<"SUCCESS", "zero">>, <<"FAILED", "nonzero">>,
            <<"FAILED", "zero">>, <<"FAILED", "null">>}

ASSUME ReportedAssumption == Reported \subseteq Outcome

BeginStatus(s, t, status) ==
    /\ tasks[t].status # "NONE"
    /\ Begin(s, [NoRequest EXCEPT !.op = "status", !.task = t,
                                  !.status = status], "get")

BeginResult(s, t, outcome) ==
    /\ tasks[t].status # "NONE"
    /\ Begin(s, [NoRequest EXCEPT !.op = "result", !.task = t,
                                  !.status = outcome[1], !.exit = outcome[2]], "get")

BeginDelete(s, t) ==
    /\ tasks[t].status # "NONE"
    /\ Begin(s, [NoRequest EXCEPT !.op = "delete", !.task = t], "get")

(* 404 when there is no row, 409 when a DELETE finds the task active. *)
Refused(s, row) == \/ ~Exists(row)
                   \/ req[s].op = "delete" /\ row.status \in Active

GetTask(s) ==
    /\ pc[s] = "get"
    /\ req[s].op \in TaskWrites
    /\ LET t == req[s].task
       IN  IF Refused(s, tasks[t])
           THEN Answer(s, "error")
           ELSE /\ HoldTask(s, t)
                /\ Goto(s, "put")
    /\ UNCHANGED <<hosts, tasks, req, raced>>

Changed(s, row) ==
    CASE req[s].op = "status" -> WithStatus(row, req[s].status)
      [] req[s].op = "result" -> WithResult(row, req[s].status, req[s].exit)
      [] OTHER -> Cancelled(row)

Deletes(s) == /\ req[s].op = "delete"
              /\ orm[s].tasks[req[s].task].status \in Finished

PutTask(s) ==
    /\ pc[s] = "put"
    /\ req[s].op \in TaskWrites
    /\ ~Deletes(s)
    /\ LET t == req[s].task
           loaded == orm[s].tasks[t]
       IN  IF Exists(tasks[t])
           THEN /\ tasks' = [tasks EXCEPT ![t] =
                               UpdateTask(tasks[t], loaded, Changed(s, loaded))]
                /\ IF req[s].op = "delete" THEN Answer(s, "reply")
                                           ELSE Goto(s, "refresh") /\ UNCHANGED orm
           ELSE Answer(s, "error") /\ UNCHANGED tasks
    /\ UNCHANGED <<hosts, req, raced>>

(* A DELETE of a row that is gone already passes unnoticed. *)
DeleteTask(s) ==
    /\ pc[s] = "put"
    /\ Deletes(s)
    /\ tasks' = [tasks EXCEPT ![req[s].task] =
                    [NoTaskRow EXCEPT !.status = "DELETED"]]
    /\ Answer(s, "reply")
    /\ UNCHANGED <<hosts, req, raced>>

RefreshTask(s) ==
    /\ pc[s] = "refresh"
    /\ req[s].op \in TaskWrites
    /\ Answer(s, IF Exists(tasks[req[s].task]) THEN "reply" ELSE "error")
    /\ UNCHANGED <<hosts, tasks, req, raced>>

(* The response leaves; the worker is free again. *)
Respond(s) == /\ EventLoopFree
              /\ s \in Thread
              /\ pc[s] \in {"reply", "error"}
              /\ Goto(s, "idle")
              /\ req' = [req EXCEPT ![s] = NoRequest]
              /\ UNCHANGED <<hosts, tasks, orm, raced>>

-----------------------------------------------------------------------------
(* reconcile_host_health (monitor.py), then a pass, in the loop's session.  *)

Reconcile ==
    /\ pc[Loop] = "sleep"
    /\ Hold(Loop, [orm[Loop] EXCEPT
          !.hosts = hosts,
          !.view = [h \in Host |->
              IF hosts[h].fresh THEN [hosts[h] EXCEPT !.status = "ONLINE"]
                                ELSE hosts[h]]])
    /\ Step(Loop, "requeue")
    /\ UNCHANGED <<hosts, tasks>>

Lapsed == {h \in Host : /\ orm[Loop].view[h].status = "ONLINE"
                        /\ ~orm[Loop].view[h].fresh}

(* Faulty, selects the tasks of the host whatever their status. *)
SelectAll(h) ==
    /\ pc[Loop] = "requeue"
    /\ h \in Lapsed
    /\ Hold(Loop, [orm[Loop] EXCEPT
          !.view = [orm[Loop].view EXCEPT ![h].status = "OFFLINE"],
          !.tasks = [t \in Task |-> IF tasks[t].host = h THEN tasks[t]
                                                        ELSE orm[Loop].tasks[t]]])
    /\ Step(Loop, "requeue")
    /\ UNCHANGED <<hosts, tasks>>

(* Faulty, selects the active tasks of all hosts. *)
SelectOfAnyHost(h) ==
    /\ pc[Loop] = "requeue"
    /\ h \in Lapsed
    /\ Hold(Loop, [orm[Loop] EXCEPT
          !.view = [orm[Loop].view EXCEPT ![h].status = "OFFLINE"],
          !.tasks = [t \in Task |-> IF tasks[t].status \in Active THEN tasks[t]
                                   ELSE orm[Loop].tasks[t]]])
    /\ Step(Loop, "requeue")
    /\ UNCHANGED <<hosts, tasks>>

(* One SELECT per host that has lapsed. *)
SelectLost(h) ==
    /\ pc[Loop] = "requeue"
    /\ h \in Lapsed
    /\ LET lost == {t \in Task : tasks[t].host = h /\ tasks[t].status \in Active}
           view == orm[Loop].view
           loaded == orm[Loop].tasks
       IN  Hold(Loop, [orm[Loop] EXCEPT
              !.view = [view EXCEPT ![h] = [view[h] EXCEPT !.status = "OFFLINE"]],
              !.tasks = [t \in Task |-> IF t \in lost /\ ~Exists(loaded[t])
                                        THEN tasks[t] ELSE loaded[t]]])
    /\ Step(Loop, "requeue")
    /\ UNCHANGED <<hosts, tasks>>

Lost == {t \in Task : Exists(orm[Loop].tasks[t])}

CommitHealth ==
    /\ pc[Loop] = "requeue"
    /\ Lapsed = {}
    /\ \A t \in Lost : Exists(tasks[t])
    /\ tasks' = [t \in Task |->
          IF t \in Lost
          THEN UpdateTask(tasks[t], orm[Loop].tasks[t], Requeued(orm[Loop].tasks[t]))
          ELSE tasks[t]]
    /\ hosts' = [h \in Host |-> UpdateHost(hosts[h], orm[Loop].hosts[h],
                                           orm[Loop].view[h])]
    /\ Forget(Loop)
    /\ Step(Loop, "pass")

(* The exception leaves _background_loop, which is never started again.     *)
RaiseHealth ==
    /\ pc[Loop] = "requeue"
    /\ Lapsed = {}
    /\ \E t \in Lost : ~Exists(tasks[t])
    /\ Forget(Loop)
    /\ Step(Loop, "dead")
    /\ UNCHANGED <<hosts, tasks>>

-----------------------------------------------------------------------------
(* heartbeat_timeout_seconds pass without a heartbeat of h. *)
Expire(h) == /\ hosts[h].fresh
             /\ hosts' = [hosts EXCEPT ![h].fresh = FALSE]
             /\ UNCHANGED <<tasks, pc, req, orm, raced>>

(* The process is killed and started again on the same database file. *)
Restart == /\ pc' = [s \in Session |-> IF s = Loop THEN "sleep" ELSE "idle"]
           /\ req' = [s \in Session |->
                 [NoRequest EXCEPT !.op = IF s = Loop THEN "loop" ELSE "none"]]
           /\ orm' = [s \in Session |-> EmptyMemory]
           /\ UNCHANGED <<hosts, tasks, raced>>

(* The statements of the sessions, by themselves. *)
Pass(s) == \/ ReadHosts(s) \/ ReadPending(s) \/ PlaceNext(s)
           \/ CommitPass(s) \/ RaisePass(s)

Handle(s) == \/ GetHost(s) \/ PutHost(s) \/ RefreshHost(s) \/ Pick(s)
             \/ InsertTask(s) \/ ReadBack(s)
             \/ GetTask(s) \/ PutTask(s) \/ DeleteTask(s) \/ RefreshTask(s)

LoopStep == \/ Reconcile \/ CommitHealth \/ RaiseHealth
            \/ \E h \in Host : SelectLost(h)

Serve(s) == Pass(s) \/ Handle(s)

(* Requests of clients and agents in any order, as often as they like.      *)
Requests(s) ==
    \/ \E h \in Host, cpu \in CpuReport, m \in MemReport :
          BeginHeartbeat(s, h, cpu, m) \/ BeginRegister(s, h, cpu, m)
    \/ \E t \in Task :
          \/ BeginCreate(s, t)
          \/ BeginDelete(s, t)
          \/ \E status \in Progress : BeginStatus(s, t, status)
          \/ \E outcome \in Reported : BeginResult(s, t, outcome)

Work == \/ \E s \in Thread : Serve(s) \/ Respond(s)
        \/ LoopStep \/ Pass(Loop)
        \/ \E h \in Host : Expire(h)
        \/ Restart

Next == (\E s \in Thread : Requests(s)) \/ Work

Spec == Init /\ [][Next]_vars

-----------------------------------------------------------------------------
(* A row's status and its assignment go together, whatever passes, health   *)
(* checks and reports overlap: a PENDING task has neither a host nor a      *)
(* scheduled_at, a SCHEDULED one has both, and the two columns are only     *)
(* ever set together.  Left out are the tasks in raced: a creation that     *)
(* reads its task back after another pass took it holds an object that its  *)
(* own pass then places a second time.                                      *)
AssignmentMatchesStatus ==
    \A t \in Task \ raced :
        LET row == tasks[t]
        IN  /\ row.status = "PENDING" => row.host = NoHost
            /\ row.status = "SCHEDULED" => row.host # NoHost
            /\ row.sched <=> row.host # NoHost

(* Why: what a session works on still was consistent when it was loaded.    *)
(* An object in a pass was loaded PENDING and without a host; one that a    *)
(* health check takes back was loaded active, with its host; and between    *)
(* requests a session holds nothing.                                        *)
Unassigned(row) == row.status = "PENDING" /\ row.host = NoHost /\ ~row.sched
Assigned(row) == row.status \in Active /\ row.host # NoHost /\ row.sched

Resting == {"idle", "get", "pick", "reply", "error", "sleep", "dead"}
Passing == {"pass", "pending", "place"}

LoadedRow(s, t) ==
    LET row == orm[s].tasks[t]
    IN  Exists(row) =>
          /\ pc[s] \notin Resting
          /\ pc[s] \in {"put", "refresh"} => req[s].op \in TaskWrites
          /\ pc[s] \in Passing /\ t \notin raced => Unassigned(row)
          /\ pc[s] = "requeue" /\ t \notin raced => Assigned(row)

PlacedObject(s, t) ==
    t \in orm[s].todo \/ orm[s].placed[t] # NoHost =>
        pc[s] = "place" /\ Exists(orm[s].tasks[t])

RequestSound(s) ==
    /\ req[s].op = "loop" <=> s = Loop
    /\ pc[s] \in {"sleep", "dead", "requeue"} => s = Loop
    /\ pc[s] \in Passing => req[s].op \in Heartbeats \cup {"create", "loop"}
    /\ pc[s] = "pick" => req[s].op \in Heartbeats
    /\ req[s].op \in Heartbeats => req[s].host \in Host
    /\ req[s].op \in TaskWrites \cup {"create"} => req[s].task \in Task
    /\ req[s].op = "status" => req[s].status \in Progress
    /\ req[s].op = "result" => req[s].status \in {"SUCCESS", "FAILED"}

SnapshotsSound ==
    \A s \in Session : /\ RequestSound(s)
                       /\ \A t \in Task : LoadedRow(s, t) /\ PlacedObject(s, t)

(* The resources a host is recorded with never go below zero, although      *)
(* every pass writes back the difference to what it read.                   *)
NoDebtIn(rows) == \A h \in Host : rows[h].cpu >= 0 /\ rows[h].mem >= 0

NoDebt == NoDebtIn(hosts)

NoDebtInMemory == \A s \in Session : /\ NoDebtIn(orm[s].hosts)
                                     /\ NoDebtIn(orm[s].view)

(* A task goes back to PENDING only in the commit that marks its host        *)
(* OFFLINE: no pass, report or cancellation undoes an assignment, and no     *)
(* health check takes work from a host that it does not give up.             *)
BackToPending(t) == /\ Exists(tasks[t])
                    /\ tasks[t].status # "PENDING"
                    /\ tasks'[t].status = "PENDING"

RequeuedWithItsHost ==
    [][\A t \in Task : BackToPending(t) =>
          \E h \in Host : /\ h = orm[Loop].tasks[t].host
                          /\ hosts[h].status = "ONLINE"
                          /\ hosts'[h].status = "OFFLINE"]_vars

(* A finished task is taken up again only by news that are old: a status     *)
(* report of an agent that still works on it (update_task_status looks at    *)
(* no status), or a pass or a health check that had loaded it unfinished.    *)
(* The tasks in raced are left out again: their creation may hold an object   *)
(* that was finished when it was read back.                                  *)
Revived(t) == /\ tasks[t].status \in Finished
              /\ tasks'[t].status \in {"PENDING"} \cup Active

HasOldNews(s, t) ==
    \/ pc[s] = "put" /\ req[s].op = "status" /\ req[s].task = t
    \/ /\ pc[s] \in {"place", "requeue"}
       /\ orm[s].tasks[t].status \in {"PENDING"} \cup Active

RevivedByOldNews ==
    [][\A t \in Task \ raced : Revived(t) =>
          \E s \in Session : pc'[s] # pc[s] /\ HasOldNews(s, t)]_vars

PassOf(s) == INSTANCE SchedulerPass
             WITH rows <- orm[s].hosts, view <- orm[s].view,
                  queue <- {t \in Task : Exists(orm[s].tasks[t])},
                  todo <- orm[s].todo, placed <- orm[s].placed,
                  returned <- FALSE,
                  ReadableRow <- {row \in HostRow : row.cpu >= 0 /\ row.mem >= 0}

(* A pass of a session, from its queries to its commit, is a run of          *)
(* SchedulerPass on the rows and tasks that the session holds, whatever      *)
(* happens to the tables meanwhile.                                         *)
PassesAsAlone ==
    [][\A s \in Session : pc'[s] = "place" =>
          IF pc[s] = "place" THEN PassOf(s)!Next \/ UNCHANGED PassOf(s)!vars
                             ELSE PassOf(s)!Init']_vars

ReadReady(s, t, h) == LET row == orm[s].hosts[h]
                      IN  /\ row.status = "ONLINE" /\ row.fresh
                          /\ Enough(row.cpu, CpuLimit[t])
                          /\ Enough(row.mem, MemLimit[t])

(* A task is assigned only to a host that the pass has read ONLINE, with a   *)
(* fresh heartbeat and enough of both resources.  It need not be ONLINE any  *)
(* more (run LostAssignment).                                               *)
AssignedWhenReady ==
    [][\A t \in Task :
          LET h == tasks'[t].host
          IN  h \notin {tasks[t].host, NoHost} =>
                 \E s \in Session : pc[s] = "place" /\ ReadReady(s, t, h)]_vars

-----------------------------------------------------------------------------
(* Statements of the documentation and the tests that this code does not    *)
(* keep.                                                                    *)

(* The background loop keeps running (docs/master.md, section 8).           *)
LoopKeepsRunning == pc[Loop] # "dead"

(* A health check leaves a finished task as it is                           *)
(* (test_reconcile_host_health_keeps_completed_tasks_intact_...).           *)
FinishedIsNotRequeued ==
    [][\A t \in Task : tasks[t].status \in Finished =>
                          tasks'[t].status # "PENDING"]_vars
=============================================================================
