# spark-swarm in TLA+

spark-swarm runs container tasks on a handful of machines: clients hand tasks to
a *master*, *agents* on the machines poll it with heartbeats, execute what they
are given with Docker, and report back.  A case built on it, the *image
generation case*, generates a set of images either through the swarm or locally.

This directory models the code of `src/master`, `src/agent`,
`src/app/image_generation_case` and `src/demo/runner.py` at the grain at which it can go wrong, checks
the models with TLC, and proves what they keep safe with TLAPS, for every value of the constants.

    tlc -workers 2 -config MasterHandlers.cfg MCMaster.tla      # one of the runs
    tlapm MasterProofs.tla                                      # the proofs of one module

The modules with proofs are `SchedulerPassProofs`, `MasterProofs`, `MasterStepProofs`,
`SwarmProofs`, `ExecutionProofs`, `LocalRunProofs`, `CampaignProofs` and `DemoProofs`.

`PROJECT.json` lists components, runs, hazards, findings and theorems, and says
for every definition which lines it translates.


## 1. Inventory

### The parts and how they interact

| part | code | state | operations |
|---|---|---|---|
| scheduling pass | `master/scheduler.py` | none of its own | `schedule_pending_tasks` |
| health check, background loop | `master/monitor.py`, `master/main.py` | a coroutine; one ORM session per round | `reconcile_host_health`, then a pass, every 5 s |
| heartbeat endpoint | `master/api/hosts.py` | a session per request | register or update the host, pass, pick a task |
| task endpoints | `master/api/tasks.py` | a session per request | create (and pass), cancel, delete, GETs |
| report endpoints | `master/api/agent.py` | a session per request, artifact files | status, result |
| tables | `master/models.py`, `database.py` | SQLite: `hosts`, `tasks` | SQLAlchemy commits |
| agent | `agent/main.py`, `reporter.py` | host id (memory and file), current task, heartbeat thread | poll, accept, execute, report, upload |
| container execution | `agent/executor.py` | image, container, output directory | `execute_task` |
| artifact store | `master/artifacts.py` | files per task, outside the transaction | save, list |
| image case, local run | `workflow.py`, `server.py`, `reporting.py` | `state.json`, `local-metrics.json`, `benchmark.json`, `LOCAL_THREADS` | create, generate, poll, mark interrupted |
| image case, campaign | `workflow.py`, `swarm_client.py` | `state.json`, `benchmark.json`, downloaded files | submit, refresh, wait |
| image case, comparison | `workflow.py` | `benchmark.json` of both runs | `compare_runs` |
| demo runner | `demo/runner.py` | list of child processes | start all, serve, stop all |
| everything else | `cli/`, `demo/ui.py`, `scripts/`, UI pages, `cli.py`, `generator.py`, `campaign.py` | none that is shared | rendering, argument parsing, start-up |

Agents and clients call the master over HTTP.  FastAPI runs the synchronous
endpoints on worker threads; the background loop is an `async` function that
calls synchronous code, so it runs on the event loop's thread itself.  Threads
and loop share the database and nothing else: there is no lock, and no row is
locked between a handler's SELECT and its UPDATE.  The image case shares
the files of its runs between the threads of its server and command line processes,
again without a lock.  An agent shares the output directory of a task with the task's
container, which lives on when the agent dies.

### What is hard

* *Interleaving.*  Every heartbeat, every creation and the loop run a scheduling
  pass of their own, while reports and cancellations write the same rows.
* *Stale state.*  Sessions are created with `expire_on_commit=False` and write back
  only the columns they changed: a commit mixes what a session decided, on an old
  snapshot, with what others have written since.
* *Failure.*  Agents crash, are restarted by systemd under the same host id, lose
  answers, lose the heartbeat thread; the master restarts on its database file; the
  loop can end with an exception; calls of Docker raise, before or after they took effect;
  files of a result are stored one by one before its row is committed; writes of `state.json`,
  copies and downloads are not atomic, and `list_runs` raises on a half written file of *any* run.
* *Timeouts.*  A host lapses 15 s after its last heartbeat, and its tasks are taken
  back; a call of an agent times out although the master carries it out; a container
  hangs until the task's timeout, a build for ever.

### What makes each part correct

* *Pass*: never promises a host more than it has; leaves nothing that fits; places
  only on hosts that are alive; respects priority, age and best fit.
* *Tables*: status and assignment of a task go together; only declaring a host
  OFFLINE takes its work back; an ended task comes back to life only through a session
  that had loaded it before; no resource goes negative.
* *Swarm*: recorded work is in somebody's hands; every task ends.
* *Execution*: a success brings the files its container wrote and those it lists; what the
  master lists can be fetched; no error leaves a container running, and no container holds the
  agent for ever.
* *Local run*: COMPLETED means complete; an ended run shows nothing under way; no
  run is shown as going on for ever.
* *Comparison*: the benchmark of a local run shows that run, and not another one.
* *Campaign*: COMPLETED means succeeded and fetched; the end is recorded.
* *Demo runner*: it returns only when everything it started has stopped, and a signal
  stops everything.

The hazards behind these, each at its line, are in `PROJECT.json`, with the
properties that cover them or the reason why none does.


## 2. The modules

    PassResult (abstract)
    Placement ── SchedulerPass ── MCSchedulerPass        SchedulerPassProofs
        └────── Master ────────── MCMaster               MasterProofs ── MasterStepProofs
                  │                                                            │
                Swarm ─────────── MCSwarm                                SwarmProofs
                  │ INSTANCE
                Agent
    Execution ─────────────────── MCExecution            ExecutionProofs
    RunFile ─── LocalRun ─── Comparison ─── MCLocalRun   LocalRunProofs
        └────── Campaign ──────── MCCampaign             CampaignProofs
    Demo                                                 DemoProofs

**Placement** has the rules of one pass as operators on a *view*, the host rows the
pass holds in memory: eligibility, score, the set of best hosts, deduction, order
of the queue.  `min()` keeps the first of several equally good hosts and the query
has no ORDER BY, so `BestHosts` is a set and any member may be chosen.

**SchedulerPass** is the loop of `schedule_pending_tasks` alone, one task per step,
from any rows.  **PassResult** says what the loop delivers without a loop: each task,
against what is left after the tasks ahead of it, gets a best fitting host, or none
when none fits.  `ImplementsPassResult` is the refinement; until the pass returns it
shows nothing.  SchedulerPass is used a second time: `PassOf(s)` in Master is the pass of the session
`s`, with the rows and tasks that session holds.

**Master** has the tables and, for every session (worker threads and the loop), the
statement it executes next (`pc`), its request (`req`) and the objects it has loaded
(`orm`).  One action is one SQL statement or the work between two:

| code | actions |
|---|---|
| `heartbeat` | `BeginHeartbeat`/`BeginRegister`, `GetHost`, `PutHost`, `RefreshHost`, a pass, `Pick` |
| `schedule_pending_tasks` | `ReadHosts`, `ReadPending`, `PlaceNext`, `CommitPass` or `RaisePass` |
| `create_task` | `BeginCreate`, `InsertTask`, `ReadBack`, a pass |
| `update_task_status`, `update_task_result`, `delete_or_cancel_task` | `Begin...`, `GetTask`, `PutTask`/`DeleteTask`, `RefreshTask` |
| `reconcile_host_health` | `Reconcile`, `SelectLost` per lapsed host, `CommitHealth` or `RaiseHealth` |
| a response is sent | `Respond` |
| time passes, the process restarts | `Expire`, `Restart` |

What the ORM does decides what the interleavings do, and is modelled
as such: an UPDATE writes a column when the object differs in it from what was loaded
(`Column`); a row that the session still refers to keeps its loaded values when a
SELECT returns it again (`ReadHosts`, `ReadPending`, `SelectLost`); an UPDATE of a
deleted row raises and rolls back (`RaisePass`, `RaiseHealth`, the error branch of
`PutTask`), a DELETE of one does not.  SQLite's driver opens a transaction only at the
first write, so nothing is locked between a SELECT and the UPDATE.  While the loop
works it occupies the event loop: no request is taken up and no response leaves
(`EventLoopFree`); workers that are under way go on.

**Agent** is `run_loop` and the heartbeat thread.  A call has a state before it is sent
and one while its answer is outstanding, so it can be lost on either side.  RUNNING is
reported after `execute_task` has returned, as in the code.  **Swarm** composes agents,
clients and Master: `Call` joins a sending agent to a worker that takes the request,
`Receive` joins the response to the agent, `StopWaiting` leaves a request without a
caller.  A host may lapse (`Lapse`) only when nobody reports for it any more: beats come
every 5 s, the timeout is 15.  In all runs but one it does so while no handler is between two
statements; the constant `Slow` lifts that for the statements it names.

**Execution** opens the one step "execute" of Agent and the two steps "put" and "refresh" of
a result in Master.  Of one task it has every execution: `execute_task` with one step per
call that can raise, the container beside it, which writes, removes and renames files and ends when it likes and
outlives its agent, the output directory, and the handler of `PUT /result`, which stores
file after file and then commits the columns that differ from what it loaded.  The build runs
the Dockerfile's RUN steps without a timeout and may hang.  `containers.run` creates and then starts,
so that when it raises the container may be missing, created or running, and `execute_task`, whose
`container` is None, removes none of these.  The master
may hand the task out again at any time, to any agent: `Deliver` is what Master and
Swarm explain.  Two history variables name what is not `execute_task`'s to clean up: `left`, the
executions whose container nobody removes any more, and `mixed`, that the last result overtook another.

| code | actions |
|---|---|
| `execute_task` up to the container | `NoDocker` or `Prepare`, `Build` or `BuildFails`, `Launch` or `LaunchFails` |
| its wait and what follows in the `try` | `Wait`, `ListFiles`, `Collect` |
| `except`, `finally` | `TimesOut`, `Raise`; `Remove`, `Return` |
| `run_loop` behind it | `ReportRunning`, `Upload`, `Answered`, `Crash` |
| `update_task_result`, `save_artifacts` | `GetRow`, `Save`, `SaveFails`, `CommitResult` |

**RunFile** says what a write in two steps (truncate, write) and a read make of
a file of a run.  **LocalRun** is one local run: its worker (a thread of the server or a
command line process), which writes `state.json` at every change, copies each image's output to
`artifacts` (`assets`) and writes two more files at the end, concurrent polls of the UI, crashes.
**Comparison** adds concurrent calls of
`compare_runs` between that run, or another one, and a swarm run (`shared`), and the refresh that
writes the benchmark of the swarm run.  **Campaign** is one swarm campaign: the submission,
concurrent refreshes with their downloads, tasks that a client deletes or the master revives,
failures; of the master it keeps each task's status.  A download is `open` from when its first byte is
written, and `broken` when it breaks off; `fetched` is the history of those that came to their end.

Every poll and every refresh that the page asks for begins with `list_runs`, which reads `state.json`,
`benchmark.json`, the metrics and every `metadata.json` of every run in one loop and raises on the first that is
half written (`Broken`).  The other runs are one variable: `shared` in LocalRun, `others` in Campaign.

**Demo** is the demo runner: `main` and a stack of calls of `_cleanup`, since the handler of
a signal interrupts `main` between any two steps, and another handler too.

### Abstractions

* Timestamps are reduced to whether they are set, `last_heartbeat` to whether it is
  within the timeout (`fresh`).  The order by `scheduled_at` in `Pick` is left open.
* Tasks are numbered in the order of their creation; priority and limits are functions
  of the task.  Limits are not negative (`LimitAssumption`; the API does not enforce it).
* Logs, names, addresses, totals, disk and Dockerfiles are left out.  A file is who wrote it:
  in Execution the number of the execution, in Campaign the refresh that is downloading it,
  in Comparison the runs whose metrics it holds.
* `PENDING` in a campaign is any status that is not final.  A final status may be taken back
  (`Revive`), as Master's health check and late reports do; each time counts as a failure, since a
  campaign whose tasks are revived again and again need not end.
* `refresh_campaign` always downloads: no caller passes `download_artifacts`.
* Execution gives the task a `timeout_seconds`; without one a container that hangs holds its
  agent for ever.  Paths are different from each other after `strip()`.
* Not modelled: a heartbeat with an id that has no row (the master then registers a new
  one), requests refused with 400 (but for artifact names), the
  final read-back in `create_task`, `run_loop(iterations=n)`.
* SQLite's "database is locked" (`OperationalError`) is not modelled either.  It ends the background
  loop like the `StaleDataError` of LoopDies, so nothing here says what *else* the loop survives.
* Where the documents contradict each other the code decides: `docs/master.md:237-239` and
  `docs/agent.md:175-177` say that artifacts stay on the agent's machine, `README.md:353-362`, `_collect_artifacts`
  in the agent and `save_artifacts` in the master that they are uploaded and served.
* An exception whose text is empty goes through the RUNNING report in the agent, which
  is why `Executed` lets <<"FAILED", "null">> take either way.
* `raced` is a history variable: tasks that another pass had already taken when their
  creator read them back.  Their creator places them a second time, from an object that
  is not PENDING, and `AssignmentMatchesStatus` does not hold of them.
* Definitions marked "Faulty" are wrong variants of the definition that follows them.
  Nothing uses them; they exist to show that the properties notice such a change.


## 3. The runs

| run | properties | what it shows |
|---|---|---|
| SchedulerPass | TypeOK, NeverOverdrawn, NothingLeftFits, PlacedWhereAlive, ImplementsPassResult | a pass by itself, from any rows |
| MasterHandlers | TypeOK, AssignmentMatchesStatus, SnapshotsSound, NoDebt, RequeuedWithItsHost, RevivedByOldNews, PassesAsAlone, AssignedWhenReady | any three requests on two workers, the loop, expiring hosts, restarts |
| SwarmOneAgent | SwarmTypeOK, WorkIsHeld, EveryTaskEnds | one agent: two workers, with cancellations or a registration whose answer is lost; or one worker, failed polls and restarts between tasks |
| SwarmFailover | EveryTaskEnds, RequeuedWithItsHost | an agent dies for good anywhere, or loses its heartbeat thread |
| Execution | ExecutionTypeOK, SuccessIsComplete, NothingRunsOn, SuccessServedUnlessMixed, EveryExecutionEnds | two executions of a task that may overlap, or three whose results do, every exit of `execute_task` |
| LocalRun | LocalTypeOK, CompletedIsComplete, EndedIsAtRest, BenchmarkIsOwnUnlessMixed, EveryRunEnds | worker, polls, comparisons and crashes on the files of a run |
| Campaign | CampaignTypeOK, CompletedIsFetched, EveryCampaignEnds | submission, concurrent refreshes, deleted and revived tasks, failures |
| Demo | DemoTypeOK, ReturnsAlone, SignalStopsAll | signals anywhere in `main` and in `_cleanup` |

Four runs are expected to end in a counterexample.  Each is a disagreement of the code
with its documentation or tests:

| run | violated | what happens |
|---|---|---|
| LoopDies | LoopKeepsRunning | a client deletes a task between a SELECT of the loop and its commit; `StaleDataError` ends the coroutine and nothing starts it again (`docs/master.md:144`, `src/master/main.py:21`) |
| LateHealthCheck | FinishedIsNotRequeued | a result committed between the SELECT and the commit of a health check is overwritten with PENDING (`tests/test_scheduler.py:105`, `src/master/monitor.py:43`) |
| Stranded | EveryTaskEnds | an agent that is restarted while it had a task keeps its host ONLINE; nobody executes or requeues the task (`docs/master.md:151`, `src/agent/main.py:90`) |
| LostAssignment | EveryTaskEnds | a pass commits a placement on a host that a health check has just marked OFFLINE; no later check looks at that host (`docs/master.md:151`, `src/master/monitor.py:33`) |

Where the code does something that a property of a passing run ought to forbid, the property excepts it by name,
or says less.  TLC has shown what the code does in each case:

| property | its exception, and what the code does |
|---|---|
| SuccessServedUnlessMixed | `mixed`: a FAILED result that has loaded the row of an earlier FAILED writes its list of files, but not its status, over a SUCCESS that came between; a listed file then has no URL, against `README.md:362` (`src/master/api/agent.py:67`) |
| EveryExecutionEnds | the build: one that hangs occupies its agent for ever, although the task has a timeout (`README.md:238`, `src/agent/executor.py:81`) |
| EveryRunEnds, EveryCampaignEnds | `Broken`: a crash leaves a file of *another* run half written; every poll raises on it, and never marks an orphan whose own files are whole (`workflow.py:363`) |
| BenchmarkIsOwnUnlessMixed | `mixed`: two local runs are compared with the same swarm run, or a refresh is recording it; the benchmark of the one then shows the other run, or none (`workflow.py:352`) |
| CompletedIsFetched | it says that a whole download has been, not that the files are whole: a refresh of a COMPLETED campaign downloads them again, over the old ones, and may break off (`workflow.py:194`) |

### Bounds, and why they are enough

* *SchedulerPass*: three tasks, one of which overtakes the others by priority and each with
  a different combination of limits, and two hosts with 0 to 3 units each of both resources,
  any status, fresh or not.  This has ties, exact fits, a task that fits nowhere before
  one that does, and two tasks on one host.
* *MasterHandlers*: two workers and the loop overlap in any way; one host and one
  task are what three sessions can collide on.  Three requests (`MaxRequests`) are enough
  for creation, delivery and one more to race with the loop; LateHealthCheck takes five and
  LoopDies four, to create, finish and delete a task.  The task wants one unit of the CPU and
  the host reports one, so overlapping passes compete for the last one.
* *Swarm*: one task, at most two agents and hosts, `MaxFailures` failures.  Agents are
  alike, so in runs with two only one of them fails (`Mortal`).  Registrations use fresh
  host rows, as many as `Host` has.  `FailAt` and `CrashAt` name the states in which calls fail and
  agents crash.  A call that fails *inside* a task is not in a passing run: the code
  strands the task then, as in Stranded.
* *SwarmOneAgent*: the behaviour chooses one worker thread, with any failure or restart between
  tasks, or two, which overlap.  With two, clients cancel, or the answer of the agent's registration
  is lost, so that it registers again while its first pass is under way; after that nothing is
  cancelled and the heartbeat thread is silent, which would multiply the states.  What these bounds
  leave out `WorkStaysInHand` proves (section 4); `EveryTaskEnds` is checked within them.
* *Execution*: two executions, on the same agent with two files or on two with one; at most one execution
  whose container nobody removes.  Two are what one directory can collide on, an execution and one
  that was left behind, and one handler stopping half way between two files.  A result that is overtaken needs a row that
  was recorded before it and another result after it: for that there is a third execution, of the same
  agent and with one file, once the result of the first is through and every container is removed (`Bounds` in MCExecution).
* *LocalRun*, *Campaign*: two images (a first and a last one), two concurrent polls or
  refreshes, one crash or failure.  Comparisons write once the loop of the run is through, while
  no poll looks at it and nothing has crashed; two of the comparisons and the refresh at a time, and `c1` is the
  first (`Bounds` in MCLocalRun).  One of the two may compare this run and the other another one.
* *Demo*: three agents as in the code, two signals: the second one can hit the first one's handler.

Threads and hosts are symmetric in the Master runs, which check safety only;
runs with liveness use no symmetry.  Deadlock is not checked: the systems may come to
rest once every request, task or run is over.

### Fairness

*Swarm.*  Worker threads, the loop and a restarted process are scheduled: weak fairness.
Steps that need the event loop or an idle worker (calls, responses) are disabled again
and again by rounds of the background loop without ever being blocked for good, since the
loop sleeps five seconds between rounds: strong fairness.  The same holds of `Lapse`, which
needs a moment between handlers.  Executing a container is part of `RunLoop`: containers
end, by the timeout in `container.wait` if need be, and builds are taken to end, which Execution does not do.
So `EveryTaskEnds` is about tasks whose image can be built.  Failures have no fairness.

*Execution*: `execute_task` goes on as long as the calls of Docker return, but for the build: `Build` has
no fairness, and neither has the container, only the timeout of the wait.  Hence `EveryExecutionEnds` begins
behind the build.  *Demo*: `main`, handlers and killed
processes go on, but the next request that `handle_request` waits for may never come.

*LocalRun*: the worker and each poll are weakly fair; Docker returns and the page polls
(`static/index.html`).  Here a build that hangs would only keep the run of its own worker from ending, who is alive
and shown as such.  *Campaign*: the master ends its tasks, calls return, and the page
refreshes the runs that are not over.  Both ask for `/case/api/state` first (`index.html:384`), so `List` and
`BeginUnended` are enabled, and fair, only while `list_runs` can read everything (`~Broken`).

`EveryRunEnds` and `EveryCampaignEnds` except by name what `list_runs` cannot read, of the run itself or of any other:
a crash between truncating and writing, two overlapping writers, a copy or a download that broke off
leave such a file, and the code does not recover from it.  `EveryCampaignEnds` also excepts a task that
was deleted: every refresh raises on it.  `SignalStopsAll` excepts a `main` that raises.


## 4. The proofs

Every theorem holds for all values of the constants, under the assumptions that the modules
name.  Null values differ from what they stand beside; tasks are numbered; priorities are
integers; limits, reports and the bounds of counters are natural numbers; there is an image, an
agent.  Nothing bounds the numbers of hosts, tasks, threads, agents, files, images, polls or
signals.  `CancellableAssumption` says that clients cancel tasks; `NoCallerAssumption` that nobody
is not a caller.

All proofs of invariants have the same form: an invariant that is inductive, a lemma for each
action or for each way in which actions write, and the theorem from these by PTL.  The inductive
invariants have been checked on the configurations of section 3 before they were proved.

**A pass** (`SchedulerPassProofs`): `PassTypeCorrect`, `NeverOverdraws`, `LeavesNothingThatFits`,
`PlacesOnLiveHosts`.  `NothingLeftFits` is inductive on top of types because a deduction only
shrinks a host, so what did not fit never fits later (this is where limits that are not negative
are needed).

`PassImplementsResult` proves the refinement of PassResult.  The loop charges a host once for each
task; PassResult subtracts a sum over a set.  `RInv` ties them together: the tasks handled so far
are those ahead of every task that is left (`InOrder`), the loop's view is what these leave of the
rows (`Ledger`), and each has got its best host (`DealtWith`).  That a sum grows by the demand of
a new task whatever the order of summation is no induction the provers can instantiate; it is
proved from the recursive definition in the community modules by taking a smallest
counterexample (`SmallestSet`), which lemmas about finite sets provide.

**The tables of the master** (`MasterProofs`): `TypeCorrect`, `SnapshotsCorrect`,
`AssignmentCorrect`, `ResourcesCorrect`.  `AssignmentMatchesStatus` is not inductive: a commit
writes what a session decided long ago.  What makes it true is that what the session held was
consistent *when it was loaded*, and that the columns of the row that belong together are written
together, or not at all.  Hence

    IInv == TypeOK /\ SnapshotsSound /\ AssignmentMatchesStatus

where `SnapshotsSound` says, by the statement a session is at, what its objects looked
like: a pass holds objects that were PENDING without a host, a health check ones that were
active with one, and nothing outlives a request.  Every action is shown to preserve the
three; the commits (`CommitPass`, `CommitHealth`, `PutTask`) go column by column through
`Column`.  `NoDebt` rests on `RInv == IInv /\ NoDebt /\ NoDebtInMemory`: a pass writes back the
difference from what it read, and both ends of that difference are not negative.

**The steps of the master** (`MasterStepProofs`): `RequeuesWithTheHost`, `RevivesByOldNews`,
`PassesRunAlone`, `AssignsWhenReady`, four action properties.  They
rest on what a step may write (`StatusWritten` lists the five statements that can write the status of
a row, `HostWritten` the one that can write another host) and on `HInv`, which adds to `IInv`:

* a task is created by one request (`CreatesAlone`, `CreatesOnce`), so an INSERT never turns an
  existing row into PENDING; a session holds rows that have existed (`LoadedExisted`);
* a pass starts with the rows it has read and only deducts from them, so a host that can take a task
  at the end of a pass could when it was read, and every host it has chosen so far was ready when it
  was read (`PassesCorrect`);
* what the health check gives up it had read as ONLINE and still is (`HealthSound`), since neither
  passes nor heartbeats take a host offline.  This lets the commit of the health check mark
  OFFLINE the very host it takes the task from.

`PassesRunAlone` is what joins SchedulerPass to Master: with `RInv` for the rows not being negative,
the second query of a pass establishes the initial predicate of SchedulerPass, and each turn of the
loop is one of its steps, whatever other sessions do in between.  So `NeverOverdrawn`,
`NothingLeftFits` and the result of PassResult hold of what each session is about to commit, with
respect to what it has read.

**The swarm** (`SwarmProofs`): `SwarmImplementsMaster`, every behaviour of Swarm is one of Master.
The agents' calls must be requests that Master allows, which needs that an agent in the middle of
a task knows one, and an outcome when it uploads it (`AgentsKnow`); in turn that needs that the
response the master sends to a waiting heartbeat carries a task or none.  So what is proved of
Master holds in the swarm whatever its agents do, crash or lose (`SwarmKeepsItsTables`,
`SwarmRequeuesWithTheHost`, `SwarmRevivesByOldNews`, `SwarmPassesInOrder`); `SwarmTypeCorrect`
comes with it.

`WorkStaysInHand` proves `WorkIsHeld` for any number of agents, hosts and workers, under one hypothesis:
`FailsBetweenTasks`, calls fail and agents crash only while they have no task (inside one the code
strands it, as in Stranded).  The row and the agent are tied by the calls under way between them:

* a run_loop waits for one response, to the call its state says and on the task it has in hand
  (`LoopCalls`, `OneCall`), and no report is under way whose agent has given up (`Reporters`).  So a
  BUILDING or RUNNING that is written late is written for an agent that still waits;
* a report is refused only when its task is deleted (`RefusedWhenGone`), so an agent that drops its
  task on a refusal leaves no row under way behind;
* `Held`, stronger than `WorkIsHeld`: an agent holds its task only until the *commit* of the result, not
  until the answer to it.  The commit writes the status unless the loaded row had it already (`Spent`).

`WorkIsHeld` does not say that the row names the host of that agent, since that is not true even so: an
agent whose registration is answered too late registers again, the passes of both requests
place the same task, and the second to commit writes its own host over that of the agent that has
received it.  TLC shows it with one agent, two hosts and two workers.

**Executions** (`ExecutionProofs`): `ExecutionTypeCorrect`, `SuccessBringsItsFiles`,
`ContainersEndWithTheTask`, `ResultsServed`.  Containers of earlier executions still write to the directory, and
remove files from it, so
`SuccessIsComplete` needs, by the step `execute_task` is at, what it has seen of its own container
and has collected (`Knows`), and that every execution has a number of its own (`HandedOut`).  The files
that its own container wrote come with the result although others may remove them at any time, since what is
there when the result is made was there when it was collected.  Those that are *listed* come only if no
other container is left on the agent (`Disturbing`): one of these may remove a file between the listing
and the collection.

`ResultsServed` holds for any number of results.  `ServedInv` says of the row that its files are stored, if it
is a SUCCESS, and of each request on its way what it will make of them: a SUCCESS has saved or has still to save
all it lists (`RequestSound`), no file is ever taken from the store (`StoreGrows`), and a result that was not
overtaken writes the status together with the list, or finds both as it would write them
(`CommitsItsOwn`).

**Local runs and comparisons** (`LocalRunProofs`): `LocalTypeCorrect`, `CompletedRunIsComplete`,
`EndedRunIsAtRest`, over any number of polls.  The polls' marking of an interrupted run is right
because only the first unfinished image can be under way in any document that is written
(`Sound`, of the file and of what each writer is about to write), and because the worker's document
is as far as its loop (`WorkerSound`).  A worker that has yet to load the file needs it to be at
rest (`LoadsAtRest`).
`ComparisonsLeaveTheRun`: with the comparisons beside it the run keeps its invariant, and what they read and
write stays a benchmark (`ComparisonInv`).  `BenchmarkStaysItsOwn` follows the metrics of a local run through the
file of the swarm run and back (`OwnInv`): a call holds its own until it has written, finds them again unless the
file has changed (`Noticed`), and the worker only ever writes its own.

**Campaigns** (`CampaignProofs`): `CampaignTypeCorrect`, `CompletedCampaignIsFetched`.  A document says SUCCESS of
an image, in the file or in the hands of a refresh, only if a download of its files has come to its end
(`FileSound`, `CallsSound`), and COMPLETED only of nothing but successes (`Honest`); a download that has
ended stays in `fetched`.  So refreshes that overwrite each other can be late but not wrong, whatever the
master makes of a task afterwards.  What the theorem does not say is that the files are still whole: a later download
opens them again.
`HandedFirst` is about the order of submission and the first write.

**The demo runner** (`DemoProofs`): `DemoTypeCorrect`, `ReturnsOnlyAlone`.  A call of `_cleanup` that
waits has stopped every process it is past, and no call that interrupts it undoes that
(`WaitersStop`); what a signal finds outside the list is the one process that main is
enlisting (`ListFollowsMain`).

**Only model-checked** is liveness: `EveryTaskEnds`, `EveryExecutionEnds`, `EveryRunEnds`,
`EveryCampaignEnds`, `SignalStopsAll`.  It needs ENABLED and fairness, which are out of the
prover's reach.  Every invariant and every action property that a passing run checks is proved.


## 5. Not modelled

GET endpoints, the command line client and the command line of the image case, the proxies of the
demo's pages, the deployment scripts, rendering of Dockerfiles and galleries, the generator that
runs inside the container, and the UI pages except as callers.  They keep no shared state, or none
that a decision depends on.  A reader of `state.json` that meets it half written raises and changes nothing; it appears
only where that ends something (`Load`, `ReadBenchmark`, `ReadBack`, `RefreshFails`, `AssetsFail`).


## 6. Plan

Done, in this order: the pass and its promise; the master's sessions; their proofs; the agent
and the composed swarm; the two modes of the image case; executions and their results; the files at
the end of a run and comparisons; the demo runner.

Then the proofs: the steps of the master, its passes as runs of SchedulerPass, the swarm as an
implementation of it and the work its agents hold, executions, local runs and comparisons, campaigns,
the demo runner, and a pass as an implementation of its result.

Left: what Execution and Campaign take for granted of Master and Swarm (a task may be handed out again
at any time; what the statuses of a task do), as steps that Swarm maps to; "database is locked" as a
second way for the statements of Master to fail.

Findings that are described as hazards and not by a run of their own: a lost answer inside a task and
a missing Docker strand a task as in Stranded; RUNNING is reported late; a container whose start was lost on
the way back is never removed; a live local run that the command line started, or whose thread is not in
`LOCAL_THREADS` yet, is marked as failed by a poll; a deleted task keeps a campaign from ending.
