------------------------------ MODULE Execution ------------------------------
(***************************************************************************)
(* What happens to one task between BUILDING and its result: execute_task   *)
(* of src/agent/executor.py, the container it starts and the output         *)
(* directory it shares with it, and PUT /result, which stores the files one *)
(* by one (src/master/artifacts.py) before it commits the row.              *)
(*                                                                         *)
(* This is the inside of the step "execute" of Agent and of the two steps   *)
(* "put" and "refresh" of a result in Master.  The master may hand the task *)
(* out again at any time, to the same agent or to another, so executions    *)
(* overlap; they are numbered, and a file is the number of the execution    *)
(* whose container wrote it, 0 when there is none.  The task has a          *)
(* timeout_seconds; without one there is no TimesOut.                       *)
(***************************************************************************)
EXTENDS Naturals, Sequences

CONSTANTS Agent,
          File,      \* what a container may write under /output, in the order
                     \* of the paths
          MaxRuns    \* how often the task is handed out

ASSUME FileAssumption == File \subseteq Nat
ASSUME RunsAssumption == MaxRuns \in Nat

VARIABLES runs,       \* the agents it was handed to, in order
          ex,         \* for each agent, where it is and its ExecutionResult
          disk,       \* for each agent, output_dir of the task
          container,  \* for each execution, its container
          left,       \* history: executions whose container may run, and which
                      \* nobody removes any more
          row,        \* the task's row at the master
          store,      \* its directory under artifact_dir
          put,        \* for each execution, the handler of its result
          mixed       \* history: the last result was written over one that came
                      \* after it had loaded the row

resultVars == <<row, store, put, mixed>>
vars == <<runs, ex, disk, container, left, resultVars>>

Execs == 1 .. MaxRuns
Content == [File -> 0 .. MaxRuns]
Nothing == [f \in File |-> 0]
Present(content) == {f \in File : content[f] # 0}

Idle == [step |-> "idle", run |-> 0, status |-> "none", exit |-> "null",
         files |-> {}, artifacts |-> Nothing]

(* recorded: whether output_files_json is set *)
Row == [status : {"open", "SUCCESS", "FAILED"}, files : SUBSET File, recorded : BOOLEAN]
Unfinished == [status |-> "open", files |-> {}, recorded |-> FALSE]

NoRequest == [pc |-> "none", status |-> "none", files |-> {},
              artifacts |-> Nothing, todo |-> {}, loaded |-> Unfinished]
HandlerOver == [NoRequest EXCEPT !.pc = "over"]

(* execute_task and the reports behind it. *)
Locals == {"client", "build", "start", "wait", "list", "collect", "remove", "return"}
Steps == Locals \cup {"idle", "report", "upload", "uploading"}

ContainerState == {"none", "created", "running", "zero", "nonzero", "gone"}
Executing == [step : Steps, run : 0 .. MaxRuns, status : {"none", "SUCCESS", "FAILED"},
              exit : {"null", "zero", "nonzero"}, files : SUBSET File, artifacts : Content]
Request == [pc : {"none", "get", "save", "over"}, status : {"none", "SUCCESS", "FAILED"},
            files : SUBSET File, artifacts : Content, todo : SUBSET File, loaded : Row]

(* Every result is one of Outcome in Master.                                *)
ExecutionTypeOK ==
    /\ runs \in Seq(Agent) /\ Len(runs) <= MaxRuns
    /\ ex \in [Agent -> Executing]
    /\ \A a \in Agent : ex[a].status = "SUCCESS" => ex[a].exit = "zero"
    /\ disk \in [Agent -> Content]
    /\ container \in [Execs -> ContainerState]
    /\ left \subseteq Execs
    /\ row \in Row
    /\ store \in Content
    /\ put \in [Execs -> Request]
    /\ \A e \in Execs : put[e].todo \subseteq Present(put[e].artifacts)
    /\ mixed \in BOOLEAN

Init == /\ runs = <<>>
        /\ ex = [a \in Agent |-> Idle]
        /\ disk = [a \in Agent |-> Nothing]
        /\ container = [e \in Execs |-> "none"]
        /\ left = {}
        /\ row = Unfinished
        /\ store = Nothing
        /\ put = [e \in Execs |-> NoRequest]
        /\ mixed = FALSE

-----------------------------------------------------------------------------
(* The agent of a at "from" goes on with the locals new. *)
Go(a, from, new) == /\ ex[a].step = from
                    /\ ex' = [ex EXCEPT ![a] = new]

Alone == UNCHANGED <<runs, disk, container, left, resultVars>>

(* The task is handed out and BUILDING is recorded.                         *)
Deliver(a) == /\ Len(runs) < MaxRuns
              /\ runs' = Append(runs, a)
              /\ Go(a, "idle", [Idle EXCEPT !.step = "client", !.run = Len(runs')])
              /\ row' = [row EXCEPT !.status = "open"]
              /\ UNCHANGED <<disk, container, left, store, put, mixed>>

(* docker.from_env() is outside the try: without Docker there is no result. *)
NoDocker(a) == Go(a, "client", Idle) /\ Alone

(* output_dir is made, or is there with what an earlier execution left.     *)
Prepare(a) == Go(a, "client", [ex[a] EXCEPT !.step = "build"]) /\ Alone

(* images.build runs the RUN steps of the Dockerfile, without a timeout.    *)
Build(a) == Go(a, "build", [ex[a] EXCEPT !.step = "start"]) /\ Alone

(* containers.run creates a container and starts it.                        *)
Launch(a) == /\ Go(a, "start", [ex[a] EXCEPT !.step = "wait"])
             /\ container' = [container EXCEPT ![ex[a].run] = "running"]
             /\ UNCHANGED <<runs, disk, left, resultVars>>

(* Faulty, takes a wait that came back early for the end of the container.  *)
WaitBriefly(a) ==
    Go(a, "wait", [ex[a] EXCEPT !.step = "list", !.exit = "zero"]) /\ Alone

Wait(a) == \E code \in {"zero", "nonzero"} :
    /\ Go(a, "wait", [ex[a] EXCEPT !.step = "list", !.exit = code])
    /\ container[ex[a].run] = code
    /\ Alone

ListFiles(a) ==
    Go(a, "list", [ex[a] EXCEPT !.step = "collect", !.files = Present(disk[a])]) /\ Alone

(* Faulty, any exit code is a success. *)
CollectAnyway(a) ==
    Go(a, "collect", [ex[a] EXCEPT !.step = "remove", !.artifacts = disk[a],
                                   !.status = "SUCCESS"]) /\ Alone

(* _collect_artifacts looks at the directory again.                         *)
Collect(a) ==
    Go(a, "collect", [ex[a] EXCEPT !.step = "remove", !.artifacts = disk[a],
          !.status = IF ex[a].exit = "zero" THEN "SUCCESS" ELSE "FAILED"]) /\ Alone

(* "except Exception": the exit code if there is one already, the list of    *)
(* the files, and none of the files.                                        *)
Caught(a, from, to) ==
    Go(a, from, [ex[a] EXCEPT !.step = to, !.status = "FAILED", !.files = Present(disk[a])])

(* Faulty, does not hand timeout_seconds on. *)
WaitsForEver(a) == FALSE

(* The wait times out, *)
TimesOut(a) == Caught(a, "wait", "remove") /\ container[ex[a].run] = "running" /\ Alone

(* a call of Docker raises, or there are more than max_artifact_bytes;      *)
Raise(a) == (\E s \in {"wait", "list", "collect"} : Caught(a, s, "remove")) /\ Alone

(* and when the build or containers.run raises, "container" is None: also   *)
(* when the start was lost on the way back and the container runs.          *)
BuildFails(a) == Caught(a, "build", "return") /\ Alone

LaunchFails(a) ==
    /\ Caught(a, "start", "return")
    /\ \E c \in {"none", "created", "running"} :
          /\ container' = [container EXCEPT ![ex[a].run] = c]
          /\ left' = IF c = "running" THEN left \cup {ex[a].run} ELSE left
    /\ UNCHANGED <<runs, disk, resultVars>>

(* RUNNING is reported only now, and not for an error without exit code.    *)
Finished(a) == [ex[a] EXCEPT
    !.step = IF ex[a].status = "FAILED" /\ ex[a].exit = "null" THEN "upload" ELSE "report"]

Return(a) == Go(a, "return", Finished(a)) /\ Alone

(* Faulty, without force: refused while the container runs, unnoticed.      *)
RemoveUnforced(a) ==
    /\ Go(a, "remove", Finished(a))
    /\ container' = [container EXCEPT ![ex[a].run] =
                        IF container[ex[a].run] = "running" THEN "running" ELSE "gone"]
    /\ UNCHANGED <<runs, disk, left, resultVars>>

(* "finally": a container that runs is killed.  An error is swallowed.      *)
Remove(a) ==
    /\ Go(a, "remove", Finished(a))
    /\ \/ container' = [container EXCEPT ![ex[a].run] = "gone"] /\ UNCHANGED left
       \/ left' = left \cup {ex[a].run} /\ UNCHANGED container
    /\ UNCHANGED <<runs, disk, resultVars>>

(* update_task_status writes RUNNING whatever the row says.                 *)
ReportRunning(a) == /\ Go(a, "report", [ex[a] EXCEPT !.step = "upload"])
                    /\ row' = [row EXCEPT !.status = "open"]
                    /\ UNCHANGED <<runs, disk, container, left, store, put, mixed>>

-----------------------------------------------------------------------------
(* The container by itself.  It may hang. *)

(* It writes a file or removes it, one of an earlier execution too; the file *)
(* that it renames counts as written by it.                                 *)
Write(e) == /\ container[e] = "running"
            /\ \E f \in File, content \in {0, e} :
                  disk' = [disk EXCEPT ![runs[e]][f] = content]
            /\ UNCHANGED <<runs, ex, container, left, resultVars>>

End(e) == /\ container[e] = "running"
          /\ \E code \in {"zero", "nonzero"} :
                container' = [container EXCEPT ![e] = code]
          /\ UNCHANGED <<runs, ex, disk, left, resultVars>>

-----------------------------------------------------------------------------
(* PUT /result.  The agent waits thirty seconds for it; the handler goes on  *)
(* without it.                                                              *)

Upload(a) ==
    /\ Go(a, "upload", [ex[a] EXCEPT !.step = "uploading"])
    /\ put' = [put EXCEPT ![ex[a].run] =
                  [NoRequest EXCEPT !.pc = "get", !.status = ex[a].status,
                      !.files = ex[a].files, !.artifacts = ex[a].artifacts]]
    /\ UNCHANGED <<runs, disk, container, left, row, store, mixed>>

Handle(e, from, new) == /\ put[e].pc = from
                        /\ put' = [put EXCEPT ![e] = new]
                        /\ UNCHANGED <<runs, ex, disk, container, left>>

GetRow(e) ==
    /\ Handle(e, "get", [put[e] EXCEPT !.pc = "save", !.loaded = row,
                                       !.todo = Present(put[e].artifacts)])
    /\ UNCHANGED <<row, store, mixed>>

Save(e) ==
    \E f \in put[e].todo :
        /\ \A g \in put[e].todo : f <= g
        /\ Handle(e, "save", [put[e] EXCEPT !.todo = put[e].todo \ {f}])
        /\ store' = [store EXCEPT ![f] = put[e].artifacts[f]]
        /\ UNCHANGED <<row, mixed>>

(* A name that is refused (400), a path in the way or a full disk (500), or *)
(* the master is killed: nothing is committed, and the files that are       *)
(* already there stay.                                                      *)
SaveFails(e) == /\ put[e].todo # {} /\ Handle(e, "save", HandlerOver)
                /\ UNCHANGED <<row, store, mixed>>

(* The list of files that a request records. *)
FilesOf(request) ==
    IF request.files = {} THEN Present(request.artifacts) ELSE request.files

(* The columns that differ from the loaded row.                             *)
Recorded(e) ==
    LET loaded == put[e].loaded
        files == FilesOf(put[e])
    IN  [status |-> IF put[e].status = loaded.status THEN row.status ELSE put[e].status,
         files |-> IF loaded.recorded /\ files = loaded.files THEN row.files ELSE files,
         recorded |-> TRUE]

(* The loaded row had a result, and another one has been committed since.   *)
Overtaken(e) ==
    LET loaded == put[e].loaded
    IN  loaded.recorded /\ (row.files # loaded.files \/ row.status \notin {loaded.status, "open"})

(* Faulty, before the files are saved. *)
CommitFirst(e) ==
    /\ Handle(e, "save", IF put[e].todo = {} THEN HandlerOver ELSE put[e])
    /\ row' = Recorded(e) /\ mixed' = Overtaken(e) /\ UNCHANGED store

CommitResult(e) == /\ put[e].todo = {} /\ Handle(e, "save", HandlerOver)
                   /\ row' = Recorded(e) /\ mixed' = Overtaken(e) /\ UNCHANGED store

(* The answer, of either kind, or none in time: the loop goes on.           *)
Answered(a) == Go(a, "uploading", Idle) /\ Alone

-----------------------------------------------------------------------------
(* The process of the agent is killed, and may be started again; Docker and *)
(* the disk are not.                                                        *)
Crash(a) == /\ ex[a].step # "idle"
            /\ ex' = [ex EXCEPT ![a] = Idle]
            /\ left' = left \cup {ex[a].run}
            /\ UNCHANGED <<runs, disk, container, resultVars>>

Execute(a) == \/ Prepare(a) \/ Launch(a) \/ Wait(a) \/ ListFiles(a)
              \/ Collect(a) \/ TimesOut(a) \/ Remove(a) \/ Return(a)

Agents == \E a \in Agent :
    \/ Deliver(a) \/ Execute(a) \/ NoDocker(a) \/ Build(a) \/ BuildFails(a)
    \/ LaunchFails(a) \/ Raise(a)
    \/ ReportRunning(a) \/ Upload(a) \/ Answered(a) \/ Crash(a)

Others == \E e \in Execs :
    \/ Write(e) \/ End(e)
    \/ GetRow(e) \/ Save(e) \/ SaveFails(e) \/ CommitResult(e)

Next == Agents \/ Others

(* execute_task goes on as long as Docker answers.  A build need not end, and *)
(* neither need a container.                                                *)
Spec == Init /\ [][Next]_vars /\ \A a \in Agent : WF_vars(Execute(a))

-----------------------------------------------------------------------------
(* Older containers that nobody removes share the output directory of a.     *)
Disturbing(a) == {e \in left \ {ex[a].run} : runs[e] = a}

(* A success is what it says.  The container ended with exit code 0, and the *)
(* files it wrote come with the result as long as they are there, whatever   *)
(* older containers do to the directory; and so do all files that are        *)
(* listed, although they are listed before they are read, unless an older    *)
(* container may have removed one in between.                               *)
SuccessIsComplete == \A a \in Agent :
    ex[a].status = "SUCCESS" =>
        /\ container[ex[a].run] \in {"zero", "gone"}
        /\ \A f \in File : disk[a][f] = ex[a].run => ex[a].artifacts[f] # 0
        /\ Disturbing(a) = {} => ex[a].files \subseteq Present(ex[a].artifacts)

(* A container runs on without execute_task only if its removal failed, if   *)
(* its agent was killed, or if containers.run raised although it had been    *)
(* started: not after a timeout, nor after any other error.                  *)
NothingRunsOn == \A e \in Execs \ left :
    container[e] = "running" =>
        \E a \in Agent : ex[a].run = e /\ ex[a].step \in {"wait", "remove"}

(* A client that sees SUCCESS can fetch every file that is listed:           *)
(* artifact_urls leaves none of them out.                                    *)
Urls == {f \in row.files : store[f] # 0}

SuccessIsServed == row.status = "SUCCESS" => Urls = row.files

(* It can, although the files are no part of the transaction and results     *)
(* overlap, be lost or fail half way, unless the last result was overtaken    *)
(* by another one, or a container that nobody removed has disturbed it.      *)
SuccessServedUnlessMixed == ~mixed /\ left = {} => SuccessIsServed

(* Once the image is built, a task with a timeout does not occupy its agent  *)
(* for ever, even if its container hangs.  A build that hangs does.          *)
EveryExecutionEnds ==
    \A a \in Agent : ex[a].step \in Locals \ {"client", "build"} ~> ex[a].step \notin Locals
=============================================================================
