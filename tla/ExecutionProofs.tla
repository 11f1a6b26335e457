-------------------------- MODULE ExecutionProofs --------------------------
(***************************************************************************)
(* Machine-checked proofs about Execution, for any number of agents, files   *)
(* and executions.                                                          *)
(***************************************************************************)
EXTENDS Execution, TLAPS

USE FileAssumption, RunsAssumption

AgentsTyped == /\ runs \in Seq(Agent) /\ Len(runs) <= MaxRuns
               /\ ex \in [Agent -> Executing]
               /\ disk \in [Agent -> Content]
               /\ container \in [Execs -> ContainerState]
               /\ left \subseteq Execs

ResultsTyped == /\ row \in Row /\ store \in Content
                /\ put \in [Execs -> Request] /\ mixed \in BOOLEAN
                /\ \A e \in Execs :
                      /\ put[e].todo \subseteq Present(put[e].artifacts)
                      /\ put[e].pc \in {"get", "save"} => put[e].status # "none"

(* An execution has a number of its own, under which runs has its agent, and *)
(* only one that was handed out has a container.                            *)
HandedOut ==
    /\ \A a \in Agent : ex[a].step # "idle" =>
          ex[a].run \in 1 .. Len(runs) /\ runs[ex[a].run] = a
    /\ \A e \in Execs : container[e] # "none" => e \in 1 .. Len(runs)
    /\ \A e \in left : e \in 1 .. Len(runs)

(* What execute_task knows at x of its container, which is at c, and of the  *)
(* output directory, which holds d and which the containers of "others" use. *)
Knows(x, c, d, others) ==
    /\ x.step = "idle" => x = Idle
    /\ x.status = "none" <=>
          x.step \in {"idle", "client", "build", "start", "wait", "list", "collect"}
    /\ x.step \in {"list", "collect"} => c = x.exit /\ x.exit \in {"zero", "nonzero"}
    /\ x.step = "collect" /\ others = {} => x.files \subseteq Present(d)
    /\ x.status = "SUCCESS" =>
          /\ x.exit = "zero" /\ c \in {"zero", "gone"}
          /\ \A f \in File : d[f] = x.run => x.artifacts[f] # 0
          /\ others = {} => x.files \subseteq Present(x.artifacts)

AgentsKnow ==
    \A a \in Agent : Knows(ex[a], container[ex[a].run], disk[a], Disturbing(a))

IInv == /\ AgentsTyped /\ ResultsTyped
        /\ HandedOut /\ AgentsKnow /\ NothingRunsOn

-----------------------------------------------------------------------------
LEMMA NothingTyped ==
    /\ Nothing \in Content /\ Present(Nothing) = {} /\ Unfinished \in Row
    /\ Idle \in Executing /\ Idle.step = "idle" /\ Idle.run = 0 /\ Idle.status = "none"
    /\ NoRequest \in Request /\ NoRequest.todo = {} /\ NoRequest.pc = "none"
    /\ HandlerOver \in Request /\ HandlerOver.todo = {} /\ HandlerOver.pc = "over"
<1>1. Nothing \in Content /\ Present(Nothing) = {}
  BY DEF Nothing, Content, Present
<1>2. Unfinished \in Row
  BY DEF Unfinished, Row
<1>3. Idle \in Executing /\ Idle.step = "idle" /\ Idle.run = 0 /\ Idle.status = "none"
  BY <1>1 DEF Idle, Executing, Steps, Locals
<1>4. NoRequest \in Request /\ NoRequest.todo = {} /\ NoRequest.pc = "none"
  BY <1>1, <1>2 DEF NoRequest, Request
<1>5. HandlerOver \in Request /\ HandlerOver.todo = {} /\ HandlerOver.pc = "over"
  BY <1>4 DEF HandlerOver, Request
<1> QED
  BY <1>1, <1>2, <1>3, <1>4, <1>5

LEMMA IdleKnows == \A c, d, others : Knows(Idle, c, d, others)
BY NothingTyped DEF Knows

LEMMA PresentIn == \A content : Present(content) \in SUBSET File
BY DEF Present

LEMMA InitEstablishes == Init => IInv
<1> SUFFICES ASSUME Init
             PROVE  IInv
  OBVIOUS
<1>1. runs = <<>> /\ Len(runs) = 0 /\ runs \in Seq(Agent)
  BY DEF Init
<1>2. AgentsTyped
  BY <1>1, NothingTyped DEF Init, AgentsTyped, ContainerState
<1>3. ResultsTyped
  BY NothingTyped DEF Init, ResultsTyped
<1>4. HandedOut /\ NothingRunsOn
  BY NothingTyped DEF Init, HandedOut, NothingRunsOn
<1>5. AgentsKnow
  BY IdleKnows DEF Init, AgentsKnow
<1> QED
  BY <1>2, <1>3, <1>4, <1>5 DEF IInv

LEMMA AgentTyped ==
    ASSUME IInv, NEW a \in Agent
    PROVE  /\ ex[a] \in Executing /\ disk[a] \in Content
           /\ Knows(ex[a], container[ex[a].run], disk[a], Disturbing(a))
           /\ ex[a].step # "idle" => /\ ex[a].run \in 1 .. Len(runs)
                                     /\ ex[a].run \in Execs
                                     /\ runs[ex[a].run] = a
BY DEF IInv, AgentsTyped, AgentsKnow, HandedOut, Execs

(* Two executions under way have different numbers. *)
LEMMA OwnRun ==
    ASSUME IInv, NEW a \in Agent, NEW b \in Agent, a # b,
           ex[a].step # "idle", ex[b].step # "idle"
    PROVE  ex[a].run # ex[b].run
BY AgentTyped

-----------------------------------------------------------------------------
(* What is left of a disturbs no other agent, and no other execution of a.   *)
LEMMA DisturbingStays ==
    ASSUME IInv, NEW a \in Agent, ex[a].step # "idle",
           NEW x, ex' = [ex EXCEPT ![a] = x], x.step # "idle" => x.run = ex[a].run,
           UNCHANGED runs, left' \in {left, left \cup {ex[a].run}},
           NEW b \in Agent, ex'[b].step # "idle"
    PROVE  Disturbing(b)' = Disturbing(b)
<1>1. ex'[b] = IF b = a THEN x ELSE ex[b]
  BY DEF IInv, AgentsTyped
<1>2. ex'[b].run = ex[b].run
  BY <1>1
<1>3. runs[ex[a].run] = a
  BY AgentTyped
<1> QED
  BY <1>2, <1>3 DEF Disturbing

(* The agent of a goes on as x; its container is then at c, and it may have  *)
(* left it behind.                                                          *)
LEMMA GoPreserves ==
    ASSUME IInv, NEW a \in Agent, NEW from, NEW x \in Executing,
           from # "idle", Go(a, from, x), UNCHANGED <<runs, disk>>, ResultsTyped',
           x.step # "idle" => x.run = ex[a].run,
           NEW c \in ContainerState, container'[ex[a].run] = c,
           container' = container \/ container' = [container EXCEPT ![ex[a].run] = c],
           left' \in {left, left \cup {ex[a].run}},
           Knows(x, c, disk[a], Disturbing(a)),
           c = "running" => x.step \in {"wait", "remove"} \/ ex[a].run \in left'
    PROVE  IInv'
<1>1. PICK run \in Execs : /\ run = ex[a].run /\ run \in 1 .. Len(runs) /\ runs[run] = a
                           /\ ex[a].step # "idle"
  BY AgentTyped DEF Go
<1>2. /\ ex' = [ex EXCEPT ![a] = x] /\ ex' \in [Agent -> Executing]
      /\ \A b \in Agent : ex'[b] = IF b = a THEN x ELSE ex[b]
  BY DEF Go, IInv, AgentsTyped
<1>3. /\ container' \in [Execs -> ContainerState]
      /\ \A e \in Execs : container'[e] = IF e = run THEN c ELSE container[e]
  BY <1>1 DEF IInv, AgentsTyped
<1>4. AgentsTyped'
  BY <1>1, <1>2, <1>3 DEF IInv, AgentsTyped
<1>5. HandedOut'
  BY <1>1, <1>2, <1>3 DEF IInv, HandedOut
<1>6. AgentsKnow'
  <2> SUFFICES ASSUME NEW b \in Agent
               PROVE  Knows(ex'[b], container'[ex'[b].run], disk'[b], Disturbing(b)')
    BY DEF AgentsKnow
  <2>1. CASE b = a /\ x.step # "idle"
    <3>1. Disturbing(a)' = Disturbing(a)
      BY <1>1, <1>2, <2>1, DisturbingStays
    <3> QED
      BY <1>1, <1>2, <1>3, <2>1, <3>1
  <2>2. CASE b = a /\ x.step = "idle"
    <3>1. ex'[b] = Idle
      BY <1>2, <2>2 DEF Knows
    <3> QED
      BY <3>1, IdleKnows
  <2>3. CASE b # a /\ ex[b].step # "idle"
    <3>1. ex[b].run # run /\ ex[b].run \in Execs
      BY <1>1, <2>3, OwnRun, AgentTyped
    <3>2. ex'[b] = ex[b] /\ container'[ex[b].run] = container[ex[b].run]
      BY <1>2, <1>3, <2>3, <3>1
    <3>3. Disturbing(b)' = Disturbing(b)
      BY <1>1, <1>2, <2>3, <3>2, DisturbingStays
    <3> QED
      BY <3>2, <3>3, AgentTyped
  <2>4. CASE b # a /\ ex[b].step = "idle"
    <3>1. ex'[b] = Idle
      BY <1>2, <2>4, AgentTyped DEF Knows
    <3> QED
      BY <3>1, IdleKnows
  <2> QED
    BY <2>1, <2>2, <2>3, <2>4
<1>7. NothingRunsOn'
  <2> SUFFICES ASSUME NEW e \in Execs \ left', container'[e] = "running"
               PROVE  \E b \in Agent : ex'[b].run = e /\ ex'[b].step \in {"wait", "remove"}
    BY DEF NothingRunsOn
  <2>1. CASE e = run
    BY <1>1, <1>2, <1>3, <2>1
  <2>2. CASE e # run
    <3>1. e \notin left /\ container[e] = "running"
      BY <1>1, <1>3, <2>2
    <3>2. PICK b \in Agent : ex[b].run = e /\ ex[b].step \in {"wait", "remove"}
      BY <3>1 DEF IInv, NothingRunsOn
    <3> QED
      BY <1>1, <1>2, <2>2, <3>2
  <2> QED
    BY <2>1, <2>2
<1> QED
  BY <1>4, <1>5, <1>6, <1>7 DEF IInv

(* The same when the container stays as it is. *)
LEMMA AlonePreserves ==
    ASSUME IInv, NEW a \in Agent, NEW from, NEW x \in Executing,
           from # "idle", Go(a, from, x), UNCHANGED <<runs, disk, container>>, ResultsTyped',
           x.step # "idle" => x.run = ex[a].run,
           left' \in {left, left \cup {ex[a].run}},
           Knows(x, container[ex[a].run], disk[a], Disturbing(a)),
           container[ex[a].run] = "running" =>
              x.step \in {"wait", "remove"} \/ ex[a].run \in left'
    PROVE  IInv'
<1>1. PICK c \in ContainerState : container[ex[a].run] = c
  BY AgentTyped DEF Go, IInv, AgentsTyped
<1> QED
  BY <1>1, GoPreserves

(* Of the containers of those under way only one that is waited for or that  *)
(* is being removed may run, if nothing has been left behind.               *)
LEMMA RunsOnlyAwaited ==
    ASSUME IInv, NEW a \in Agent, ex[a].step # "idle",
           container[ex[a].run] = "running", ex[a].run \notin left
    PROVE  ex[a].step \in {"wait", "remove"}
<1>1. ex[a].run \in Execs
  BY AgentTyped
<1>2. PICK b \in Agent : ex[b].run = ex[a].run /\ ex[b].step \in {"wait", "remove"}
  BY <1>1 DEF IInv, NothingRunsOn
<1> QED
  BY <1>2, OwnRun

-----------------------------------------------------------------------------
(* execute_task. *)

LEMMA AloneTyped == IInv /\ UNCHANGED resultVars => ResultsTyped'
BY DEF IInv, ResultsTyped, resultVars

LEMMA RunsContainer ==
    ASSUME IInv, NEW a \in Agent, ex[a].step # "idle"
    PROVE  container[ex[a].run] \in ContainerState
BY AgentTyped DEF IInv, AgentsTyped

(* Before it waits nothing is known, and no container runs.                 *)
LEMMA StartPreserves ==
    ASSUME IInv, NEW a \in Agent, NoDocker(a) \/ Prepare(a) \/ Build(a)
    PROVE  IInv'
<1>1. /\ ex[a].step \in {"client", "build"} /\ UNCHANGED <<runs, disk, container, left>>
      /\ ResultsTyped'
  BY AloneTyped DEF NoDocker, Prepare, Build, Go, Alone
<1>2. container[ex[a].run] = "running" => ex[a].run \in left'
  BY <1>1, RunsOnlyAwaited
<1>3. CASE NoDocker(a)
  BY <1>1, <1>2, <1>3, NothingTyped, IdleKnows, AlonePreserves DEF NoDocker
<1>4. CASE Prepare(a) \/ Build(a)
  <2> PICK from \in {"client", "build"}, to \in {"build", "start"} :
              Go(a, from, [ex[a] EXCEPT !.step = to])
    BY <1>4 DEF Prepare, Build
  <2> DEFINE new == [ex[a] EXCEPT !.step = to]
  <2>1. /\ new \in Executing /\ new.step = to /\ new.run = ex[a].run
        /\ new.status = ex[a].status
    BY AgentTyped DEF Executing, Steps, Locals
  <2>2. Knows(new, container[ex[a].run], disk[a], Disturbing(a))
    <3>1. ex[a].status = "none"
      BY <1>1, AgentTyped DEF Knows
    <3> HIDE DEF new
    <3> QED
      BY <2>1, <3>1 DEF Knows
  <2>3. Go(a, from, new)
    OBVIOUS
  <2> HIDE DEF new
  <2> QED
    BY <1>1, <1>2, <2>1, <2>2, <2>3, AlonePreserves
<1> QED
  BY <1>3, <1>4

LEMMA LaunchPreserves ==
    ASSUME IInv, NEW a \in Agent, Launch(a)
    PROVE  IInv'
<1>1. /\ ex[a].step = "start" /\ UNCHANGED <<runs, disk, left>> /\ ResultsTyped'
      /\ container' = [container EXCEPT ![ex[a].run] = "running"]
  BY AloneTyped DEF Launch, Go
<1> DEFINE new == [ex[a] EXCEPT !.step = "wait"]
<1>2. /\ new \in Executing /\ new.step = "wait" /\ new.run = ex[a].run
      /\ new.status = ex[a].status
  BY AgentTyped DEF Executing, Steps, Locals
<1>3. ex[a].status = "none"
  BY <1>1, AgentTyped DEF Knows
<1>4. Go(a, "start", new)
  BY DEF Launch
<1> HIDE DEF new
<1>5. Knows(new, "running", disk[a], Disturbing(a))
  BY <1>2, <1>3 DEF Knows
<1>6. "running" \in ContainerState /\ container'[ex[a].run] = "running"
  <2>1. ex[a].run \in Execs /\ container \in [Execs -> ContainerState]
    BY <1>1, AgentTyped DEF IInv, AgentsTyped
  <2> QED
    BY <1>1, <2>1 DEF ContainerState
<1> QED
  BY <1>1, <1>2, <1>4, <1>5, <1>6, GoPreserves

(* The wait tells how the container ended; it does not run any more.         *)
LEMMA WaitPreserves ==
    ASSUME IInv, NEW a \in Agent, Wait(a)
    PROVE  IInv'
<1>1. PICK code \in {"zero", "nonzero"} :
         /\ Go(a, "wait", [ex[a] EXCEPT !.step = "list", !.exit = code])
         /\ container[ex[a].run] = code
         /\ Alone
  BY DEF Wait
<1>2. /\ ex[a].step = "wait" /\ UNCHANGED <<runs, disk, container, left>> /\ ResultsTyped'
  BY <1>1, AloneTyped DEF Go, Alone
<1> DEFINE new == [ex[a] EXCEPT !.step = "list", !.exit = code]
<1>3. /\ new \in Executing /\ new.step = "list" /\ new.run = ex[a].run
      /\ new.status = ex[a].status /\ new.exit = code
  BY AgentTyped DEF Executing, Steps, Locals
<1>4. ex[a].status = "none"
  BY <1>2, AgentTyped DEF Knows
<1>5. Go(a, "wait", new)
  BY <1>1
<1> HIDE DEF new
<1>6. Knows(new, container[ex[a].run], disk[a], Disturbing(a))
  BY <1>1, <1>3, <1>4 DEF Knows
<1> QED
  BY <1>1, <1>2, <1>3, <1>5, <1>6, AlonePreserves

LEMMA ListPreserves ==
    ASSUME IInv, NEW a \in Agent, ListFiles(a)
    PROVE  IInv'
<1>1. /\ ex[a].step = "list" /\ UNCHANGED <<runs, disk, container, left>> /\ ResultsTyped'
  BY AloneTyped DEF ListFiles, Go, Alone
<1> DEFINE new == [ex[a] EXCEPT !.step = "collect", !.files = Present(disk[a])]
<1>2. /\ new \in Executing /\ new.step = "collect" /\ new.run = ex[a].run
      /\ new.status = ex[a].status /\ new.exit = ex[a].exit /\ new.files = Present(disk[a])
  BY AgentTyped, PresentIn DEF Executing, Steps, Locals
<1>3. /\ ex[a].status = "none" /\ ex[a].exit \in {"zero", "nonzero"}
      /\ container[ex[a].run] = ex[a].exit
  BY <1>1, AgentTyped DEF Knows
<1>4. Go(a, "list", new)
  BY DEF ListFiles
<1> HIDE DEF new
<1>5. Knows(new, container[ex[a].run], disk[a], Disturbing(a))
  BY <1>2, <1>3 DEF Knows
<1> QED
  BY <1>1, <1>2, <1>3, <1>4, <1>5, AlonePreserves

(* What its container wrote is collected as long as it is there, and so is   *)
(* what it has listed before if nobody disturbs it.                         *)
LEMMA CollectPreserves ==
    ASSUME IInv, NEW a \in Agent, Collect(a)
    PROVE  IInv'
<1>1. /\ ex[a].step = "collect" /\ UNCHANGED <<runs, disk, container, left>> /\ ResultsTyped'
  BY AloneTyped DEF Collect, Go, Alone
<1> DEFINE status == IF ex[a].exit = "zero" THEN "SUCCESS" ELSE "FAILED"
           new == [ex[a] EXCEPT !.step = "remove", !.artifacts = disk[a], !.status = status]
<1>2. status \in {"SUCCESS", "FAILED"} /\ (status = "SUCCESS" => ex[a].exit = "zero")
  OBVIOUS
<1>3. Go(a, "collect", new)
  BY DEF Collect
<1> HIDE DEF status
<1>4. /\ new \in Executing /\ new.step = "remove" /\ new.run = ex[a].run
      /\ new.status = status /\ new.exit = ex[a].exit /\ new.files = ex[a].files
      /\ new.artifacts = disk[a]
  BY <1>2, AgentTyped DEF Executing, Steps, Locals
<1>5. /\ ex[a].exit \in {"zero", "nonzero"} /\ container[ex[a].run] = ex[a].exit
      /\ Disturbing(a) = {} => ex[a].files \subseteq Present(disk[a])
  BY <1>1, AgentTyped DEF Knows
<1> HIDE DEF new
<1>6. \A f \in File : disk[a][f] = new.run => new.artifacts[f] # 0
  <2>1. PICK run \in 1 .. Len(runs) : ex[a].run = run
    BY <1>1, AgentTyped
  <2>2. run # 0
    BY <2>1
  <2> QED
    BY <1>4, <1>5, <2>1, <2>2 DEF Present
<1>7. Knows(new, container[ex[a].run], disk[a], Disturbing(a))
  BY <1>2, <1>4, <1>5, <1>6 DEF Knows
<1> QED
  BY <1>1, <1>3, <1>4, <1>5, <1>7, AlonePreserves

(* An error is no success, from wherever it comes. *)
LEMMA CaughtKnows ==
    ASSUME IInv, NEW a \in Agent, ex[a].step # "idle", NEW to \in {"remove", "return"},
           NEW c
    PROVE  LET new == [ex[a] EXCEPT !.step = to, !.status = "FAILED",
                                    !.files = Present(disk[a])]
           IN  /\ new \in Executing /\ new.step = to /\ new.run = ex[a].run
               /\ Knows(new, c, disk[a], Disturbing(a))
<1> DEFINE new == [ex[a] EXCEPT !.step = to, !.status = "FAILED", !.files = Present(disk[a])]
<1>1. /\ new \in Executing /\ new.step = to /\ new.run = ex[a].run /\ new.status = "FAILED"
  BY AgentTyped, PresentIn DEF Executing, Steps, Locals
<1> HIDE DEF new
<1>2. Knows(new, c, disk[a], Disturbing(a))
  BY <1>1 DEF Knows
<1> QED
  BY <1>1, <1>2 DEF new

LEMMA RaisePreserves ==
    ASSUME IInv, NEW a \in Agent, TimesOut(a) \/ Raise(a)
    PROVE  IInv'
<1>1. PICK s \in {"wait", "list", "collect"} : Caught(a, s, "remove") /\ Alone
  BY DEF TimesOut, Raise
<1>2. UNCHANGED <<runs, disk, container, left>> /\ ResultsTyped' /\ ex[a].step = s
  BY <1>1, AloneTyped DEF Alone, Caught, Go
<1> DEFINE new == [ex[a] EXCEPT !.step = "remove", !.status = "FAILED",
                                !.files = Present(disk[a])]
<1>3. Go(a, s, new)
  BY <1>1 DEF Caught
<1>4. /\ new \in Executing /\ new.step = "remove" /\ new.run = ex[a].run
      /\ Knows(new, container[ex[a].run], disk[a], Disturbing(a))
  BY <1>2, CaughtKnows
<1> HIDE DEF new
<1> QED
  BY <1>2, <1>3, <1>4, AlonePreserves

LEMMA LaunchFailsPreserves ==
    ASSUME IInv, NEW a \in Agent, BuildFails(a) \/ LaunchFails(a)
    PROVE  IInv'
<1>1. PICK from \in {"build", "start"} :
         Caught(a, from, "return") /\ ex[a].step = from
  BY DEF BuildFails, LaunchFails, Caught, Go
<1>2. UNCHANGED <<runs, disk>> /\ ResultsTyped'
  BY AloneTyped DEF BuildFails, LaunchFails, Alone
<1>3. ex[a].run \in Execs /\ container \in [Execs -> ContainerState]
  BY <1>1, AgentTyped DEF IInv, AgentsTyped
<1> DEFINE new == [ex[a] EXCEPT !.step = "return", !.status = "FAILED",
                                !.files = Present(disk[a])]
<1>4. Go(a, from, new)
  BY <1>1 DEF Caught
<1>5. new \in Executing /\ new.run = ex[a].run /\ \A c : Knows(new, c, disk[a], Disturbing(a))
  BY <1>1, CaughtKnows
<1> HIDE DEF new
<1>6. CASE BuildFails(a)
  <2>1. UNCHANGED <<container, left>>
    BY <1>6 DEF BuildFails, Alone
  <2>2. ex[a].step = "build"
    BY <1>6 DEF BuildFails, Caught, Go
  <2>3. container[ex[a].run] = "running" => ex[a].run \in left'
    BY <2>1, <2>2, RunsOnlyAwaited
  <2> QED
    BY <1>1, <1>2, <1>4, <1>5, <2>1, <2>3, AlonePreserves
<1>7. CASE LaunchFails(a)
  <2>1. PICK c \in {"none", "created", "running"} :
           /\ container' = [container EXCEPT ![ex[a].run] = c]
           /\ left' = IF c = "running" THEN left \cup {ex[a].run} ELSE left
    BY <1>7 DEF LaunchFails
  <2>2. c \in ContainerState /\ container'[ex[a].run] = c
    BY <1>3, <2>1 DEF ContainerState
  <2>3. left' \in {left, left \cup {ex[a].run}} /\ (c = "running" => ex[a].run \in left')
    BY <2>1
  <2> QED
    BY <1>1, <1>2, <1>4, <1>5, <2>1, <2>2, <2>3, GoPreserves
<1> QED
  BY <1>6, <1>7

-----------------------------------------------------------------------------
(* The end of execute_task, and the reports. *)

(* The result is handed on as it is. *)
LEMMA HandedOnKnows ==
    ASSUME IInv, NEW a \in Agent,
           ex[a].step \in {"remove", "return", "report", "upload"},
           NEW to \in {"report", "upload", "uploading"},
           NEW c, c = container[ex[a].run] \/ c = "gone"
    PROVE  LET new == [ex[a] EXCEPT !.step = to]
           IN  /\ new \in Executing /\ new.step = to /\ new.run = ex[a].run
               /\ Knows(new, c, disk[a], Disturbing(a))
<1> DEFINE new == [ex[a] EXCEPT !.step = to]
<1>1. /\ new \in Executing /\ new.step = to /\ new.run = ex[a].run
      /\ new.status = ex[a].status /\ new.exit = ex[a].exit /\ new.files = ex[a].files
      /\ new.artifacts = ex[a].artifacts
  BY AgentTyped DEF Executing, Steps, Locals
<1> HIDE DEF new
<1>2. Knows(new, c, disk[a], Disturbing(a))
  BY <1>1, AgentTyped DEF Knows
<1> QED
  BY <1>1, <1>2 DEF new

LEMMA FinishedIsHandedOn ==
    ASSUME NEW a \in Agent
    PROVE  \E to \in {"report", "upload"} : Finished(a) = [ex[a] EXCEPT !.step = to]
BY DEF Finished

(* It is over when its container is not running or could not be removed.     *)
LEMMA RemovePreserves ==
    ASSUME IInv, NEW a \in Agent, Return(a) \/ Remove(a)
    PROVE  IInv'
<1>1. PICK to \in {"report", "upload"} : Finished(a) = [ex[a] EXCEPT !.step = to]
  BY FinishedIsHandedOn
<1> DEFINE new == [ex[a] EXCEPT !.step = to]
<1>2. UNCHANGED <<runs, disk>> /\ ResultsTyped' /\ ex[a].step \in {"remove", "return"}
  BY AloneTyped DEF Return, Remove, Alone, Go
<1>3. PICK from \in {"remove", "return"} : Go(a, from, new) /\ ex[a].step = from
  BY <1>1 DEF Return, Remove, Go
<1>4. CASE Return(a)
  <2>1. UNCHANGED <<container, left>> /\ ex[a].step = "return"
    BY <1>4 DEF Return, Alone, Go
  <2>2. container[ex[a].run] = "running" => ex[a].run \in left'
    BY <2>1, RunsOnlyAwaited
  <2>3. /\ new \in Executing /\ new.run = ex[a].run
        /\ Knows(new, container[ex[a].run], disk[a], Disturbing(a))
    BY <1>2, HandedOnKnows
  <2> HIDE DEF new
  <2> QED
    BY <1>2, <1>3, <2>1, <2>2, <2>3, AlonePreserves
<1>5. CASE Remove(a) /\ UNCHANGED left
  <2>1. \/ container' = [container EXCEPT ![ex[a].run] = "gone"]
        \/ ex[a].run \in left /\ UNCHANGED container
    BY <1>5 DEF Remove
  <2>2. CASE container' = [container EXCEPT ![ex[a].run] = "gone"]
    <3>1. "gone" \in ContainerState /\ container'[ex[a].run] = "gone"
      <4>1. ex[a].run \in Execs /\ container \in [Execs -> ContainerState]
        BY <1>2, AgentTyped DEF IInv, AgentsTyped
      <4> QED
        BY <2>2, <4>1 DEF ContainerState
    <3>2. /\ new \in Executing /\ new.run = ex[a].run /\ Knows(new, "gone", disk[a], Disturbing(a))
      BY <1>2, HandedOnKnows
    <3> HIDE DEF new
    <3> QED
      BY <1>2, <1>3, <1>5, <2>2, <3>1, <3>2, GoPreserves
  <2>3. CASE ex[a].run \in left /\ UNCHANGED container
    <3>1. /\ new \in Executing /\ new.run = ex[a].run
          /\ Knows(new, container[ex[a].run], disk[a], Disturbing(a))
      BY <1>2, HandedOnKnows
    <3> HIDE DEF new
    <3> QED
      BY <1>2, <1>3, <1>5, <2>3, <3>1, AlonePreserves
  <2> QED
    BY <2>1, <2>2, <2>3
<1>6. CASE Remove(a) /\ left' # left
  <2>1. left' = left \cup {ex[a].run} /\ UNCHANGED container
    BY <1>6 DEF Remove
  <2>2. /\ new \in Executing /\ new.run = ex[a].run
        /\ Knows(new, container[ex[a].run], disk[a], Disturbing(a))
    BY <1>2, HandedOnKnows
  <2> HIDE DEF new
  <2> QED
    BY <1>2, <1>3, <2>1, <2>2, AlonePreserves
<1> QED
  BY <1>4, <1>5, <1>6

LEMMA ReportPreserves ==
    ASSUME IInv, NEW a \in Agent, ReportRunning(a) \/ Upload(a)
    PROVE  IInv'
<1>1. PICK from \in {"report", "upload"}, to \in {"upload", "uploading"} :
         Go(a, from, [ex[a] EXCEPT !.step = to]) /\ ex[a].step = from
  BY DEF ReportRunning, Upload, Go
<1>2. UNCHANGED <<runs, disk, container, left>>
  BY DEF ReportRunning, Upload
<1>3. ResultsTyped'
  <2>1. ResultsTyped /\ ex[a] \in Executing /\ ex[a].run \in Execs
    BY <1>1, AgentTyped DEF IInv
  <2>2. CASE ReportRunning(a)
    <3>1. row' = [row EXCEPT !.status = "open"] /\ UNCHANGED <<store, put, mixed>>
      BY <2>2 DEF ReportRunning
    <3>2. row' \in Row
      BY <2>1, <3>1 DEF ResultsTyped, Row
    <3> QED
      BY <2>1, <3>1, <3>2 DEF ResultsTyped
  <2>3. CASE Upload(a)
    <3> DEFINE request == [NoRequest EXCEPT !.pc = "get", !.status = ex[a].status,
                              !.files = ex[a].files, !.artifacts = ex[a].artifacts]
    <3>1. put' = [put EXCEPT ![ex[a].run] = request] /\ UNCHANGED <<row, store, mixed>>
      BY <2>3 DEF Upload
    <3>2. request \in Request /\ request.todo = {} /\ request.status # "none"
      <4>1. /\ ex[a].status \in {"SUCCESS", "FAILED"}
            /\ ex[a].files \in SUBSET File /\ ex[a].artifacts \in Content
        BY <1>1, <2>1, AgentTyped DEF Executing, Knows
      <4> QED
        BY <4>1, NothingTyped DEF Request
    <3> HIDE DEF request
    <3> QED
      BY <2>1, <3>1, <3>2 DEF ResultsTyped
  <2> QED
    BY <2>2, <2>3
<1>4. container[ex[a].run] = "running" => ex[a].run \in left'
  BY <1>1, <1>2, RunsOnlyAwaited
<1> DEFINE new == [ex[a] EXCEPT !.step = to]
<1>5. /\ new \in Executing /\ new.run = ex[a].run
      /\ Knows(new, container[ex[a].run], disk[a], Disturbing(a))
  BY <1>1, HandedOnKnows
<1>6. Go(a, from, new)
  BY <1>1
<1> HIDE DEF new
<1> QED
  BY <1>1, <1>2, <1>3, <1>4, <1>5, <1>6, AlonePreserves

(* The loop goes on, or dies.  A container that is not waited for any more   *)
(* is one of those that are left.                                           *)
LEMMA LeavesPreserve ==
    ASSUME IInv, NEW a \in Agent, Answered(a) \/ Crash(a)
    PROVE  IInv'
<1>1. PICK from : Go(a, from, Idle) /\ from # "idle" /\ ex[a].step = from
  BY DEF Answered, Crash, Go
<1>2. UNCHANGED <<runs, disk, container>> /\ ResultsTyped'
  BY AloneTyped DEF Answered, Crash, Alone
<1>3. left' \in {left, left \cup {ex[a].run}}
  BY DEF Answered, Crash, Alone
<1>4. container[ex[a].run] = "running" => ex[a].run \in left'
  <2>1. CASE Answered(a)
    BY <2>1, RunsOnlyAwaited DEF Answered, Alone, Go
  <2>2. CASE Crash(a)
    BY <2>2 DEF Crash
  <2> QED
    BY <2>1, <2>2
<1> QED
  BY <1>1, <1>2, <1>3, <1>4, NothingTyped, IdleKnows, AlonePreserves

(* The task is handed out once more, under a number that is new.            *)
LEMMA DeliverPreserves ==
    ASSUME IInv, NEW a \in Agent, Deliver(a)
    PROVE  IInv'
<1> DEFINE run == Len(runs) + 1
           new == [Idle EXCEPT !.step = "client", !.run = run]
<1>1. /\ runs \in Seq(Agent) /\ Len(runs) < MaxRuns /\ Len(runs) \in Nat
      /\ runs' = Append(runs, a) /\ UNCHANGED <<disk, container, left, store, put, mixed>>
      /\ ex[a].step = "idle" /\ row' = [row EXCEPT !.status = "open"]
  BY DEF Deliver, Go, IInv, AgentsTyped
<1>2. /\ runs' \in Seq(Agent) /\ Len(runs') = run
      /\ runs'[run] = a /\ \A e \in 1 .. Len(runs) : runs'[e] = runs[e]
  BY <1>1
<1>3. run \in Execs /\ run \in 0 .. MaxRuns /\ run # 0 /\ Len(runs') <= MaxRuns
  BY <1>1, <1>2 DEF Execs
<1>4. ex' = [ex EXCEPT ![a] = new]
  BY <1>2 DEF Deliver, Go
<1>5. /\ new \in Executing /\ new.step = "client" /\ new.run = run /\ new.status = "none"
  BY <1>3, NothingTyped DEF Executing, Steps, Locals
<1> HIDE DEF new, run
<1>6. /\ ex' \in [Agent -> Executing]
      /\ \A b \in Agent : ex'[b] = IF b = a THEN new ELSE ex[b]
  BY <1>4, <1>5 DEF IInv, AgentsTyped
<1>7. \A e \in 1 .. Len(runs) : e \in 1 .. Len(runs')
  BY <1>1, <1>2 DEF run
<1>8. run \in 1 .. Len(runs')
  BY <1>1, <1>2 DEF run
<1>9. AgentsTyped'
  BY <1>1, <1>2, <1>3, <1>6 DEF IInv, AgentsTyped
<1>10. ResultsTyped'
  <2>1. row' \in Row
    BY <1>1 DEF IInv, ResultsTyped, Row
  <2> QED
    BY <1>1, <2>1 DEF IInv, ResultsTyped
<1>11. HandedOut'
  <2>1. ASSUME NEW b \in Agent, ex'[b].step # "idle"
        PROVE  ex'[b].run \in 1 .. Len(runs') /\ runs'[ex'[b].run] = b
    <3>1. CASE b = a
      BY <1>2, <1>5, <1>6, <1>8, <3>1
    <3>2. CASE b # a
      BY <1>2, <1>6, <1>7, <2>1, <3>2 DEF IInv, HandedOut
    <3> QED
      BY <3>1, <3>2
  <2>2. /\ \A e \in Execs : container'[e] # "none" => e \in 1 .. Len(runs')
        /\ \A e \in left' : e \in 1 .. Len(runs')
    BY <1>1, <1>7 DEF IInv, HandedOut
  <2> QED
    BY <2>1, <2>2 DEF HandedOut
<1>12. AgentsKnow'
  <2> SUFFICES ASSUME NEW b \in Agent
               PROVE  Knows(ex'[b], container'[ex'[b].run], disk'[b], Disturbing(b)')
    BY DEF AgentsKnow
  <2>1. CASE b = a
    <3>1. \A c, d, others : Knows(new, c, d, others)
      BY <1>5 DEF Knows
    <3> QED
      BY <1>6, <2>1, <3>1
  <2>2. CASE b # a
    <3>1. ex'[b] = ex[b]
      BY <1>6, <2>2
    <3>2. \A e \in left : runs'[e] = runs[e]
      BY <1>2 DEF IInv, HandedOut
    <3>3. Disturbing(b)' = Disturbing(b)
      BY <1>1, <3>1, <3>2 DEF Disturbing
    <3> QED
      BY <1>1, <3>1, <3>3, AgentTyped
  <2> QED
    BY <2>1, <2>2
<1>13. NothingRunsOn'
  BY <1>1, <1>6 DEF IInv, NothingRunsOn
<1> QED
  BY <1>9, <1>10, <1>11, <1>12, <1>13 DEF IInv

LEMMA AgentsPreserve == IInv /\ Agents => IInv'
BY DeliverPreserves, StartPreserves, LaunchPreserves, WaitPreserves, ListPreserves,
   CollectPreserves, RaisePreserves, LaunchFailsPreserves, RemovePreserves,
   ReportPreserves, LeavesPreserve
   DEF Agents, Execute

-----------------------------------------------------------------------------
(* The containers.  One that runs writes its number or removes a file, in     *)
(* the directory of its agent.  Unless it is the one that is waited for or   *)
(* being removed there, it is one of those that disturb the agent.           *)
LEMMA RunsToDisturb ==
    ASSUME IInv, NEW e \in Execs, container[e] = "running", NEW a \in Agent, runs[e] = a,
           ex[a].step # "idle", ex[a].run # e
    PROVE  e \in Disturbing(a)
<1>1. e \in left
  <2>1. SUFFICES ASSUME e \notin left
                 PROVE  FALSE
    OBVIOUS
  <2>2. PICK b \in Agent : ex[b].run = e /\ ex[b].step \in {"wait", "remove"}
    BY <2>1 DEF IInv, NothingRunsOn
  <2>3. runs[ex[b].run] = b
    BY <2>2, AgentTyped
  <2> QED
    BY <2>2, <2>3
<1> QED
  BY <1>1 DEF Disturbing

LEMMA WritePreserves ==
    ASSUME IInv, NEW e \in Execs, Write(e)
    PROVE  IInv'
<1>1. /\ container[e] = "running" /\ UNCHANGED <<runs, ex, container, left, resultVars>>
  BY DEF Write
<1>2. e \in 0 .. MaxRuns /\ e # 0 /\ 0 \in 0 .. MaxRuns
  BY DEF Execs
<1>3. PICK a \in Agent : runs[e] = a
  <2>1. e \in 1 .. Len(runs) /\ runs \in Seq(Agent)
    BY <1>1 DEF IInv, HandedOut, AgentsTyped
  <2> QED
    BY <2>1
<1>4. PICK f \in File, content \in {0, e} : disk' = [disk EXCEPT ![a][f] = content]
  BY <1>3 DEF Write
<1>5. /\ disk' \in [Agent -> Content]
      /\ \A b \in Agent, g \in File :
            disk'[b][g] = IF b = a /\ g = f THEN content ELSE disk[b][g]
      /\ \A b \in Agent : b # a => disk'[b] = disk[b]
  BY <1>2, <1>4 DEF IInv, AgentsTyped, Content
<1>6. AgentsTyped' /\ ResultsTyped' /\ HandedOut' /\ NothingRunsOn'
  BY <1>1, <1>5, AloneTyped DEF IInv, AgentsTyped, HandedOut, NothingRunsOn
<1>7. \A b \in Agent : Disturbing(b)' = Disturbing(b)
  BY <1>1 DEF Disturbing
<1>8. AgentsKnow'
  <2> SUFFICES ASSUME NEW b \in Agent
               PROVE  Knows(ex[b], container[ex[b].run], disk'[b], Disturbing(b))
    BY <1>1, <1>7 DEF AgentsKnow
  <2>1. Knows(ex[b], container[ex[b].run], disk[b], Disturbing(b))
    BY AgentTyped
  <2>2. CASE b # a
    BY <1>5, <2>1, <2>2
  <2>3. CASE ex[a].step = "idle" /\ b = a
    BY <2>1, <2>3, IdleKnows DEF Knows
  <2>4. CASE ex[a].step # "idle" /\ b = a
    <3>1. ex[a].run # 0
      BY <2>4, AgentTyped DEF Execs
    <3>2. ex[a].status = "SUCCESS" => ex[a].run # e
      BY <1>1, <2>1, <2>4 DEF Knows
    <3>3. ex[a].status = "SUCCESS" =>
             \A g \in File : disk'[a][g] = ex[a].run => disk[a][g] = ex[a].run
      BY <1>5, <3>1, <3>2
    <3>4. ex[a].step = "collect" => Disturbing(a) # {}
      BY <1>1, <1>3, <2>1, <2>4, RunsToDisturb DEF Knows
    <3> QED
      BY <2>1, <2>4, <3>3, <3>4 DEF Knows
  <2> QED
    BY <2>2, <2>3, <2>4
<1> QED
  BY <1>6, <1>8 DEF IInv

LEMMA EndPreserves ==
    ASSUME IInv, NEW e \in Execs, End(e)
    PROVE  IInv'
<1>1. /\ container[e] = "running" /\ UNCHANGED <<runs, ex, disk, left, resultVars>>
  BY DEF End
<1>2. PICK code \in {"zero", "nonzero"} : container' = [container EXCEPT ![e] = code]
  BY DEF End
<1>3. /\ container' \in [Execs -> ContainerState]
      /\ \A d \in Execs : container'[d] = IF d = e THEN code ELSE container[d]
  BY <1>2 DEF IInv, AgentsTyped, ContainerState
<1>4. AgentsTyped' /\ ResultsTyped' /\ HandedOut'
  BY <1>1, <1>3, AloneTyped DEF IInv, AgentsTyped, HandedOut
<1>5. NothingRunsOn'
  BY <1>1, <1>3 DEF IInv, NothingRunsOn
<1>6. AgentsKnow'
  <2> SUFFICES ASSUME NEW b \in Agent
               PROVE  Knows(ex[b], container'[ex[b].run], disk[b], Disturbing(b))
    BY <1>1 DEF AgentsKnow, Disturbing
  <2>1. Knows(ex[b], container[ex[b].run], disk[b], Disturbing(b))
    BY AgentTyped
  <2>2. CASE ex[b].step = "idle"
    BY <2>1, <2>2, IdleKnows DEF Knows
  <2>3. CASE ex[b].step # "idle" /\ ex[b].run # e
    BY <1>3, <2>1, <2>3, AgentTyped
  <2>4. CASE ex[b].step # "idle" /\ ex[b].run = e
    BY <1>1, <2>1, <2>4 DEF Knows
  <2> QED
    BY <2>2, <2>3, <2>4
<1> QED
  BY <1>4, <1>5, <1>6 DEF IInv

-----------------------------------------------------------------------------
(* The handlers of PUT /result. *)

LEMMA HandlePreserves ==
    ASSUME IInv, NEW e \in Execs, NEW from, NEW new \in Request, Handle(e, from, new),
           new.todo \subseteq Present(new.artifacts),
           new.pc \in {"get", "save"} => new.status # "none", row' \in Row, store' \in Content,
           mixed' \in BOOLEAN
    PROVE  IInv'
<1>1. put' = [put EXCEPT ![e] = new] /\ UNCHANGED <<runs, ex, disk, container, left>>
  BY DEF Handle
<1>2. ResultsTyped'
  BY <1>1 DEF IInv, ResultsTyped
<1> QED
  BY <1>1, <1>2 DEF IInv, AgentsTyped, HandedOut, AgentsKnow, Disturbing, NothingRunsOn

LEMMA RequestTyped ==
    ASSUME IInv, NEW e \in Execs
    PROVE  /\ put[e] \in Request /\ put[e].artifacts \in Content /\ put[e].loaded \in Row
           /\ put[e].todo \subseteq Present(put[e].artifacts)
           /\ put[e].pc \in {"get", "save"} => put[e].status # "none"
           /\ row \in Row /\ store \in Content /\ mixed \in BOOLEAN
BY DEF IInv, ResultsTyped, Request

LEMMA RecordedTyped ==
    ASSUME IInv, NEW e \in Execs, put[e].pc = "save"
    PROVE  Recorded(e) \in Row
<1>1. /\ put[e].status \in {"SUCCESS", "FAILED"} /\ put[e].files \in SUBSET File
      /\ row.status \in {"open", "SUCCESS", "FAILED"} /\ row.files \in SUBSET File
  BY RequestTyped DEF Request, Row
<1> QED
  BY <1>1, PresentIn DEF Recorded, FilesOf, Row

LEMMA HandlersPreserve ==
    ASSUME IInv, NEW e \in Execs, GetRow(e) \/ Save(e) \/ SaveFails(e) \/ CommitResult(e)
    PROVE  IInv'
<1>1. CASE GetRow(e)
  <2> DEFINE new == [put[e] EXCEPT !.pc = "save", !.loaded = row,
                                   !.todo = Present(put[e].artifacts)]
  <2>1. Handle(e, "get", new) /\ UNCHANGED <<row, store, mixed>> /\ put[e].pc = "get"
    BY <1>1 DEF GetRow, Handle
  <2>2. /\ new \in Request /\ new.todo = Present(new.artifacts)
        /\ new.status = put[e].status /\ put[e].status # "none"
    BY <2>1, RequestTyped, PresentIn DEF Request
  <2> HIDE DEF new
  <2> QED
    BY <2>1, <2>2, RequestTyped, HandlePreserves
<1>2. CASE Save(e)
  <2>1. PICK f \in put[e].todo :
           /\ Handle(e, "save", [put[e] EXCEPT !.todo = put[e].todo \ {f}])
           /\ store' = [store EXCEPT ![f] = put[e].artifacts[f]]
           /\ UNCHANGED <<row, mixed>>
    BY <1>2 DEF Save
  <2>2. put[e].pc = "save"
    BY <2>1 DEF Handle
  <2> DEFINE new == [put[e] EXCEPT !.todo = put[e].todo \ {f}]
  <2>3. /\ new \in Request /\ new.todo \subseteq Present(new.artifacts)
        /\ new.status = put[e].status /\ put[e].status # "none"
    BY <2>2, RequestTyped DEF Request
  <2>4. store' \in Content
    BY <2>1, RequestTyped, PresentIn DEF Content
  <2>5. Handle(e, "save", new)
    BY <2>1
  <2> HIDE DEF new
  <2> QED
    BY <2>1, <2>3, <2>4, <2>5, RequestTyped, HandlePreserves
<1>3. CASE SaveFails(e)
  BY <1>3, NothingTyped, RequestTyped, HandlePreserves DEF SaveFails
<1>4. CASE CommitResult(e)
  <2>1. Handle(e, "save", HandlerOver) /\ row' = Recorded(e) /\ UNCHANGED store
        /\ put[e].pc = "save" /\ mixed' \in BOOLEAN
    BY <1>4 DEF CommitResult, Handle, Overtaken
  <2> QED
    BY <2>1, NothingTyped, RequestTyped, RecordedTyped, HandlePreserves
<1> QED
  BY <1>1, <1>2, <1>3, <1>4

LEMMA StutterPreserves == IInv /\ UNCHANGED vars => IInv'
<1> SUFFICES ASSUME IInv, UNCHANGED vars
             PROVE  IInv'
  OBVIOUS
<1>1. UNCHANGED <<runs, ex, disk, container, left, row, store, put, mixed>>
  BY DEF vars, resultVars
<1>2. \A a \in Agent : Disturbing(a)' = Disturbing(a)
  BY <1>1 DEF Disturbing
<1>3. AgentsKnow'
  BY <1>1, <1>2 DEF IInv, AgentsKnow
<1>4. AgentsTyped' /\ ResultsTyped' /\ HandedOut' /\ NothingRunsOn'
  BY <1>1 DEF IInv, AgentsTyped, ResultsTyped, HandedOut, NothingRunsOn
<1> QED
  BY <1>3, <1>4 DEF IInv

LEMMA StepPreserves == IInv /\ [Next]_vars => IInv'
<1>1. IInv /\ Others => IInv'
  BY WritePreserves, EndPreserves, HandlersPreserve DEF Others
<1> QED
  BY <1>1, AgentsPreserve, StutterPreserves DEF Next

LEMMA IInvImplies == IInv => ExecutionTypeOK /\ SuccessIsComplete
<1> SUFFICES ASSUME IInv
             PROVE  ExecutionTypeOK /\ SuccessIsComplete
  OBVIOUS
<1>1. ExecutionTypeOK
  BY AgentTyped DEF IInv, AgentsTyped, ResultsTyped, ExecutionTypeOK, Knows
<1>2. SuccessIsComplete
  BY AgentTyped DEF SuccessIsComplete, Knows
<1> QED
  BY <1>1, <1>2

LEMMA Invariance == Spec => []IInv
BY InitEstablishes, StepPreserves, PTL DEF Spec

(* Every exit of execute_task leaves a result the master knows: the status    *)
(* with an exit code that goes with it; the rows and directories keep their  *)
(* types.                                                                   *)
THEOREM ExecutionTypeCorrect == Spec => []ExecutionTypeOK
BY Invariance, IInvImplies, PTL

(* A SUCCESS of execute_task comes from a container that has ended with exit  *)
(* code 0 and brings every file it wrote that is still there, whatever        *)
(* containers of earlier executions write or remove in its output directory, *)
(* and every file it lists if there is none of them on the agent.            *)
THEOREM SuccessBringsItsFiles == Spec => []SuccessIsComplete
BY Invariance, IInvImplies, PTL

(* The "finally" of execute_task leaves no container running, however it was  *)
(* left, unless the removal failed, the agent was killed, or containers.run   *)
(* raised after it had started the container.                                *)
THEOREM ContainersEndWithTheTask == Spec => []NothingRunsOn
BY Invariance, PTL DEF IInv

-----------------------------------------------------------------------------
(* What a client is served, however often the task is handed out and however *)
(* the results overlap, but for a result that is overtaken while its handler  *)
(* runs.  With three results that happens, and then TLC finds the row of a    *)
(* success with the files of a failure.                                      *)

RowSound ==
    /\ row.status = "SUCCESS" /\ ~mixed /\ left = {} => row.files \subseteq Present(store)
    /\ ~row.recorded => row.status = "open"

(* A success that is uploaded brings all its files, and what is not stored    *)
(* yet is still to do.                                                      *)
RequestSound(e) ==
    /\ put[e].pc \in {"get", "save"} /\ put[e].status = "SUCCESS" /\ left = {} =>
          FilesOf(put[e]) \subseteq Present(put[e].artifacts)
    /\ put[e].pc = "save" =>
          /\ Present(put[e].artifacts) \subseteq Present(store) \cup put[e].todo
          /\ ~put[e].loaded.recorded => put[e].loaded.status = "open"

RequestsSound == \A e \in Execs : RequestSound(e)

ServedInv == RowSound /\ RequestsSound

LEMMA ServedAtFirst == Init => ServedInv
<1> SUFFICES ASSUME Init
             PROVE  ServedInv
  OBVIOUS
<1>1. RowSound
  BY DEF Init, Unfinished, RowSound
<1>2. RequestsSound
  BY NothingTyped DEF Init, RequestsSound, RequestSound
<1> QED
  BY <1>1, <1>2 DEF ServedInv

(* No file is taken from the store, and the row is at most opened again.     *)
LEMMA ReopenedServes ==
    ASSUME ServedInv, row \in Row, UNCHANGED <<store, put, mixed>>, left \subseteq left',
           row' \in {row, [row EXCEPT !.status = "open"]}
    PROVE  ServedInv'
<1>1. row'.files = row.files /\ row'.recorded = row.recorded /\ row'.status \in {row.status, "open"}
  BY DEF Row
<1>2. left' = {} => left = {}
  OBVIOUS
<1>3. RowSound'
  BY <1>1, <1>2 DEF ServedInv, RowSound
<1>4. RequestsSound'
  BY <1>2 DEF ServedInv, RequestsSound, RequestSound, FilesOf
<1> QED
  BY <1>3, <1>4 DEF ServedInv

LEMMA ExecutesWithoutSending ==
    ASSUME NEW a \in Agent,
           \/ Deliver(a) \/ Execute(a) \/ NoDocker(a) \/ Build(a) \/ BuildFails(a)
           \/ LaunchFails(a) \/ Raise(a) \/ ReportRunning(a) \/ Answered(a) \/ Crash(a)
    PROVE  /\ UNCHANGED <<put, store, mixed>> /\ left \subseteq left'
           /\ row' \in {row, [row EXCEPT !.status = "open"]}
<1>1. CASE Deliver(a) \/ NoDocker(a) \/ Build(a) \/ BuildFails(a) \/ Raise(a)
           \/ ReportRunning(a) \/ Answered(a) \/ Crash(a)
  BY <1>1 DEF Deliver, NoDocker, Build, BuildFails, Raise, ReportRunning, Answered, Crash,
              Alone, resultVars
<1>2. CASE LaunchFails(a)
  BY <1>2 DEF LaunchFails, resultVars
<1>3. CASE Execute(a)
  BY <1>3 DEF Execute, Prepare, Launch, Wait, ListFiles, Collect, TimesOut, Remove, Return,
              Alone, resultVars
<1> QED
  BY <1>1, <1>2, <1>3

(* A success that is handed over lists no more than it brings. *)
LEMMA UploadServes ==
    ASSUME IInv, ServedInv, NEW a \in Agent, Upload(a)
    PROVE  ServedInv'
<1> DEFINE request == [NoRequest EXCEPT !.pc = "get", !.status = ex[a].status,
                          !.files = ex[a].files, !.artifacts = ex[a].artifacts]
<1>1. /\ ex[a].step = "upload" /\ UNCHANGED <<row, store, left, mixed>>
      /\ put' = [put EXCEPT ![ex[a].run] = request]
  BY DEF Upload, Go
<1>2. ex[a].run \in Execs
  BY <1>1, AgentTyped
<1>3. /\ request.pc = "get" /\ request.status = ex[a].status
      /\ request.files = ex[a].files /\ request.artifacts = ex[a].artifacts
  BY NothingTyped, AgentTyped DEF Request, Executing
<1> HIDE DEF request
<1>4. \A e \in Execs : put'[e] = IF e = ex[a].run THEN request ELSE put[e]
  BY <1>1, <1>2 DEF IInv, ResultsTyped
<1>5. left = {} /\ ex[a].status = "SUCCESS" => FilesOf(request) \subseteq Present(request.artifacts)
  <2>1. left = {} => Disturbing(a) = {}
    BY DEF Disturbing
  <2>2. left = {} /\ ex[a].status = "SUCCESS" => request.files \subseteq Present(request.artifacts)
    BY <1>3, <2>1, AgentTyped DEF Knows
  <2> QED
    BY <2>2 DEF FilesOf
<1>6. RowSound'
  BY <1>1 DEF ServedInv, RowSound
<1>7. ASSUME NEW e \in Execs
      PROVE  RequestSound(e)'
  <2>1. CASE e = ex[a].run
    BY <1>1, <1>3, <1>4, <1>5, <2>1 DEF RequestSound, FilesOf
  <2>2. CASE e # ex[a].run
    BY <1>1, <1>4, <2>2 DEF ServedInv, RequestsSound, RequestSound, FilesOf
  <2> QED
    BY <2>1, <2>2
<1> QED
  BY <1>6, <1>7 DEF ServedInv, RequestsSound

LEMMA AgentsServe == IInv /\ ServedInv /\ Agents => ServedInv'
<1> SUFFICES ASSUME IInv, ServedInv, Agents
             PROVE  ServedInv'
  OBVIOUS
<1>1. row \in Row
  BY DEF IInv, ResultsTyped
<1> QED
  BY <1>1, ExecutesWithoutSending, ReopenedServes, UploadServes DEF Agents

(* A file that is stored stays. *)
LEMMA StoreGrows ==
    ASSUME IInv, NEW e \in Execs, NEW f \in put[e].todo,
           store' = [store EXCEPT ![f] = put[e].artifacts[f]]
    PROVE  Present(store') = Present(store) \cup {f}
<1>1. f \in File /\ put[e].artifacts[f] # 0 /\ store \in Content
  BY RequestTyped DEF Present
<1>2. \A g \in File : store'[g] = IF g = f THEN put[e].artifacts[f] ELSE store[g]
  BY <1>1 DEF Content
<1> QED
  BY <1>1, <1>2 DEF Present

LEMMA SaveServes ==
    ASSUME IInv, ServedInv, NEW e \in Execs, GetRow(e) \/ Save(e) \/ SaveFails(e)
    PROVE  ServedInv'
<1>1. UNCHANGED <<row, left, mixed>>
  BY DEF GetRow, Save, SaveFails, Handle
<1>2. PICK new : /\ put' = [put EXCEPT ![e] = new]
                 /\ \A d \in Execs : put'[d] = IF d = e THEN new ELSE put[d]
  BY DEF GetRow, Save, SaveFails, Handle, IInv, ResultsTyped
<1>3. Present(store) \subseteq Present(store')
  BY StoreGrows DEF GetRow, Save, SaveFails
<1>4. RowSound'
  BY <1>1, <1>3 DEF ServedInv, RowSound
<1>5. ASSUME NEW d \in Execs, d # e
      PROVE  RequestSound(d)'
  BY <1>1, <1>2, <1>3, <1>5 DEF ServedInv, RequestsSound, RequestSound, FilesOf
<1>6. RequestSound(e) /\ put[e] \in Request
  BY RequestTyped DEF ServedInv, RequestsSound
<1>7. RequestSound(e)'
  <2>1. CASE GetRow(e)
    <3>1. /\ put[e].pc = "get" /\ UNCHANGED store
          /\ put'[e] = [put[e] EXCEPT !.pc = "save", !.loaded = row,
                                      !.todo = Present(put[e].artifacts)]
      BY <1>2, <2>1 DEF GetRow, Handle, IInv, ResultsTyped
    <3>2. /\ put'[e].status = put[e].status /\ put'[e].files = put[e].files
          /\ put'[e].artifacts = put[e].artifacts /\ put'[e].loaded = row
          /\ put'[e].todo = Present(put[e].artifacts)
      BY <1>6, <3>1 DEF Request
    <3>3. ~row.recorded => row.status = "open"
      BY DEF ServedInv, RowSound
    <3> QED
      BY <1>1, <1>6, <3>1, <3>2, <3>3 DEF RequestSound, FilesOf
  <2>2. CASE Save(e)
    <3>1. PICK f \in put[e].todo :
             /\ put[e].pc = "save"
             /\ put'[e] = [put[e] EXCEPT !.todo = put[e].todo \ {f}]
             /\ store' = [store EXCEPT ![f] = put[e].artifacts[f]]
      BY <1>2, <2>2 DEF Save, Handle, IInv, ResultsTyped
    <3>2. /\ put'[e].status = put[e].status /\ put'[e].files = put[e].files
          /\ put'[e].artifacts = put[e].artifacts /\ put'[e].loaded = put[e].loaded
          /\ put'[e].pc = "save" /\ put'[e].todo = put[e].todo \ {f}
      BY <1>6, <3>1 DEF Request
    <3>3. Present(store') = Present(store) \cup {f}
      BY <3>1, StoreGrows
    <3> QED
      BY <1>1, <1>6, <3>1, <3>2, <3>3 DEF RequestSound, FilesOf
  <2>3. CASE SaveFails(e)
    <3>1. put'[e].pc = "over"
      BY <1>2, <2>3, NothingTyped DEF SaveFails, Handle, IInv, ResultsTyped
    <3> QED
      BY <3>1 DEF RequestSound
  <2> QED
    BY <2>1, <2>2, <2>3
<1> QED
  BY <1>4, <1>5, <1>7 DEF ServedInv, RequestsSound

(* Unless it has been overtaken, a request commits its own status, or leaves  *)
(* the row open, and its own files.                                          *)
LEMMA CommitsItsOwn ==
    ASSUME IInv, ServedInv, NEW e \in Execs, put[e].pc = "save", ~Overtaken(e)
    PROVE  Recorded(e).status \in {put[e].status, "open"} /\ Recorded(e).files = FilesOf(put[e])
<1>1. put[e].status \in {"SUCCESS", "FAILED"}
  BY RequestTyped DEF Request
<1>2. CASE ~put[e].loaded.recorded
  <2>1. put[e].loaded.status = "open"
    BY <1>2 DEF ServedInv, RequestsSound, RequestSound
  <2> QED
    BY <1>1, <1>2, <2>1 DEF Recorded
<1>3. CASE put[e].loaded.recorded
  <2>1. row.files = put[e].loaded.files /\ row.status \in {put[e].loaded.status, "open"}
    BY <1>3 DEF Overtaken
  <2> QED
    BY <1>1, <1>3, <2>1 DEF Recorded
<1> QED
  BY <1>2, <1>3

LEMMA CommitServes ==
    ASSUME IInv, ServedInv, NEW e \in Execs, CommitResult(e)
    PROVE  ServedInv'
<1>1. /\ put[e].pc = "save" /\ put[e].todo = {} /\ row' = Recorded(e) /\ mixed' = Overtaken(e)
      /\ UNCHANGED <<left, store>> /\ put' = [put EXCEPT ![e] = HandlerOver]
  BY DEF CommitResult, Handle
<1>2. \A d \in Execs : put'[d] = IF d = e THEN HandlerOver ELSE put[d]
  BY <1>1 DEF IInv, ResultsTyped
<1>3. RequestSound(e)
  BY DEF ServedInv, RequestsSound
<1>4. put[e].status = "SUCCESS" /\ left = {} => FilesOf(put[e]) \subseteq Present(store)
  BY <1>1, <1>3 DEF RequestSound
<1>5. row'.recorded
  BY <1>1 DEF Recorded
<1>6. RowSound'
  <2>1. SUFFICES ASSUME row'.status = "SUCCESS", ~mixed', left' = {}
                 PROVE  row'.files \subseteq Present(store')
    BY <1>5 DEF RowSound
  <2>2. put[e].status = "SUCCESS" /\ row'.files = FilesOf(put[e])
    BY <1>1, <2>1, CommitsItsOwn
  <2> QED
    BY <1>1, <1>4, <2>1, <2>2
<1>7. ASSUME NEW d \in Execs
      PROVE  RequestSound(d)'
  <2>1. CASE d = e
    BY <1>2, <2>1, NothingTyped DEF RequestSound
  <2>2. CASE d # e
    BY <1>1, <1>2, <2>2 DEF ServedInv, RequestsSound, RequestSound, FilesOf
  <2> QED
    BY <2>1, <2>2
<1> QED
  BY <1>6, <1>7 DEF ServedInv, RequestsSound

LEMMA StepServes == IInv /\ ServedInv /\ [Next]_vars => ServedInv'
<1> SUFFICES ASSUME IInv, ServedInv, [Next]_vars
             PROVE  ServedInv'
  OBVIOUS
<1>1. CASE Agents
  BY <1>1, AgentsServe
<1>2. ASSUME NEW e \in Execs, Write(e) \/ End(e)
      PROVE  UNCHANGED <<left, resultVars>>
  BY <1>2 DEF Write, End
<1>3. ASSUME UNCHANGED <<left, resultVars>>
      PROVE  ServedInv'
  BY <1>3 DEF ServedInv, RowSound, RequestsSound, RequestSound, FilesOf, resultVars
<1>4. CASE UNCHANGED vars
  BY <1>3, <1>4 DEF vars
<1> QED
  BY <1>1, <1>2, <1>3, <1>4, SaveServes, CommitServes DEF Next, Others

(* artifact_urls serves every file a SUCCESS lists, to however many agents    *)
(* the task is handed out, however their results overlap and whatever they    *)
(* lose, unless the last result was overtaken or a container was left behind. *)
THEOREM ResultsServed == Spec => []SuccessServedUnlessMixed
<1>1. Init => IInv /\ ServedInv
  BY InitEstablishes, ServedAtFirst
<1>2. IInv /\ ServedInv /\ [Next]_vars => IInv' /\ ServedInv'
  BY StepPreserves, StepServes
<1>3. IInv /\ ServedInv => SuccessServedUnlessMixed
  BY DEF ServedInv, RowSound, SuccessServedUnlessMixed, SuccessIsServed, Urls, Present
<1> QED
  BY <1>1, <1>2, <1>3, PTL DEF Spec
=============================================================================
