----------------------------- MODULE SwarmProofs -----------------------------
(***************************************************************************)
(* Machine-checked proofs about Swarm: whatever its agents and clients do,  *)
(* and wherever calls fail and agents crash, the master in it takes the     *)
(* steps of Master, so that what is proved of Master holds in the swarm.    *)
(*                                                                         *)
(* The invariant adds to that of Master what an agent must know when it     *)
(* calls: the task it reports on and the outcome it uploads.                *)
(* Two more rest on it: the calls under way tie what the tables record as   *)
(* work to the agent that does it; and only clients ask for deletions.      *)
(***************************************************************************)
EXTENDS Swarm, MasterStepProofs

USE DEF Session

OnTask == {"accept", "accepting", "execute", "report", "reporting",
           "upload", "uploading"}
Ended == {"report", "reporting", "upload", "uploading"}

AgentKnows(a) == /\ at[a] \in OnTask => job[a] \in Task
                 /\ at[a] \in Ended => outcome[a] \in Reported

AgentsKnow == \A a \in Agent : AgentKnows(a)

SInv == HInv /\ SwarmTypeOK /\ AgentsKnow

-----------------------------------------------------------------------------
(* The calls are requests of Master. *)

LEMMA ReportIsRequest ==
    ASSUME SwarmTypeOK, NEW a \in Agent, NEW s \in Thread, Report(a, s)
    PROVE  Requests(s)
<1>1. PICK cpu \in CpuReport, m \in MemReport :
         IF id[a] = NoHost THEN \E h \in Host : BeginRegister(s, h, cpu, m)
                           ELSE BeginHeartbeat(s, id[a], cpu, m)
  BY DEF Report
<1>2. id[a] # NoHost => id[a] \in Host
  BY DEF SwarmTypeOK, Run!AgentTypeOK
<1> QED
  BY <1>1, <1>2 DEF Requests

LEMMA MessageIsRequest ==
    ASSUME SInv, NEW a \in Agent, NEW s \in Thread, Run!Send(a), Message(a, s)
    PROVE  Requests(s)
<1>0. AgentKnows(a) /\ SwarmTypeOK
  BY DEF SInv, AgentsKnow
<1>1. CASE at[a] = "poll"
  BY <1>0, <1>1, ReportIsRequest DEF Message
<1>2. CASE at[a] = "accept"
  <2>1. BeginStatus(s, job[a], "BUILDING") /\ job[a] \in Task
    BY <1>0, <1>2 DEF Message, AgentKnows, OnTask
  <2> QED
    BY <2>1 DEF Requests, Progress
<1>3. CASE at[a] = "report"
  <2>1. BeginStatus(s, job[a], "RUNNING") /\ job[a] \in Task
    BY <1>0, <1>3 DEF Message, AgentKnows, OnTask
  <2> QED
    BY <2>1 DEF Requests, Progress
<1>4. CASE at[a] = "upload"
  <2>1. BeginResult(s, job[a], outcome[a]) /\ job[a] \in Task /\ outcome[a] \in Reported
    BY <1>0, <1>4 DEF Message, AgentKnows, OnTask, Ended
  <2> QED
    BY <2>1 DEF Requests
<1> QED
  BY <1>1, <1>2, <1>3, <1>4 DEF Run!Send, Run!Move

(* Every step of the swarm is one of the master's or leaves it alone.       *)
LEMMA MasterSteps ==
    ASSUME SInv, [SwarmNext]_swarmVars
    PROVE  [Next]_vars
<1>0. SwarmTypeOK
  BY DEF SInv
<1>1. ASSUME NEW s \in Thread, Requests(s)
      PROVE  Next
  BY <1>1 DEF Next
<1>2. ASSUME NEW s \in Thread, Respond(s)
      PROVE  Next
  BY <1>2 DEF Next, Work
<1>3. CASE Clients
  <2>1. PICK s \in Thread, t \in Task : Submit(t, s) \/ Cancel(t, s)
    BY <1>3, CancellableAssumption DEF Clients
  <2>2. Requests(s)
    BY <2>1 DEF Submit, Cancel, Requests
  <2> QED
    BY <1>1, <2>2
<1>4. ASSUME NEW a \in Agent, RunLoop(a) \/ BeatThread(a) \/ Start(a) \/ Failure(a)
      PROVE  [Next]_vars
  <2>1. ASSUME NEW s \in Thread, Call(a, s)
        PROVE  Next
    BY <1>1, <2>1, MessageIsRequest DEF Call
  <2>2. ASSUME NEW s \in Thread, CallBeat(a, s)
        PROVE  Next
    BY <1>0, <1>1, <2>2, ReportIsRequest DEF CallBeat
  <2>3. ASSUME NEW s \in Thread, Receive(a, s) \/ ReceiveBeat(a, s)
        PROVE  Next
    BY <1>2, <2>3 DEF Receive, ReceiveBeat
  <2>4. CASE Execute(a) \/ Wake(a) \/ Start(a) \/ Failure(a)
    BY <2>4 DEF Execute, Wake, Start, Failure, CallFails, BeatFails, Crash
  <2> QED
    BY <1>4, <2>1, <2>2, <2>3, <2>4 DEF RunLoop, BeatThread
<1>5. ASSUME NEW s \in Thread, Worker(s) \/ Unheard(s)
      PROVE  Next
  BY <1>2, <1>5 DEF Worker, Unheard, Next, Work
<1>6. CASE Background
  BY <1>6 DEF Background, Next, Work
<1>7. ASSUME NEW h \in Host, Lapse(h)
      PROVE  Next
  BY <1>7 DEF Lapse, Next, Work
<1>8. CASE UNCHANGED swarmVars
  BY <1>8 DEF swarmVars
<1> QED
  BY <1>3, <1>4, <1>5, <1>6, <1>7, <1>8 DEF SwarmNext, Smooth

-----------------------------------------------------------------------------
(* The agents.  A step moves one of them. *)

Others(a) == \A b \in Agent \ {a} : /\ at'[b] = at[b]
                                    /\ job'[b] = job[b]
                                    /\ outcome'[b] = outcome[b]

LEMMA OneAgentMoves ==
    ASSUME AgentsKnow, NEW a \in Agent, Others(a), AgentKnows(a)'
    PROVE  AgentsKnow'
BY DEF AgentsKnow, AgentKnows, Others

AgentTyped == Run!AgentTypeOK /\ outcome \in [Agent -> Reported \cup {Run!NoOutcome}]

(* "finally": what the agent worked on is forgotten. *)
LEMMA ReleaseKeeps ==
    ASSUME AgentTyped, AgentsKnow, NEW a \in Agent, NEW to \in {"sleep", "down"},
           Run!Release(a, to)
    PROVE  AgentTyped' /\ AgentsKnow'
<1>1. AgentTyped'
  BY DEF AgentTyped, Run!AgentTypeOK, Run!Release
<1>2. Others(a) /\ at'[a] = to
  BY DEF AgentTyped, Run!AgentTypeOK, Run!Release, Others
<1>3. AgentKnows(a)'
  BY <1>2 DEF AgentKnows, OnTask, Ended
<1> QED
  BY <1>1, <1>2, <1>3, OneAgentMoves

LEMMA CallKeeps ==
    ASSUME AgentTyped, AgentsKnow, NEW a \in Agent, Run!Send(a)
    PROVE  AgentTyped' /\ AgentsKnow'
<1>1. AgentTyped'
  BY DEF AgentTyped, Run!AgentTypeOK, Run!Send, Run!Move, Run!Sending, Run!Waiting
<1>2. Others(a) /\ job'[a] = job[a] /\ outcome'[a] = outcome[a]
  BY DEF AgentTyped, Run!AgentTypeOK, Run!Send, Run!Move, Others
<1>3. \/ at[a] = "poll" /\ at'[a] = "polling"
      \/ at[a] = "accept" /\ at'[a] = "accepting"
      \/ at[a] = "report" /\ at'[a] = "reporting"
      \/ at[a] = "upload" /\ at'[a] = "uploading"
  BY DEF AgentTyped, Run!AgentTypeOK, Run!Send, Run!Move
<1>4. AgentKnows(a)'
  BY <1>2, <1>3 DEF AgentsKnow, AgentKnows, OnTask, Ended
<1> QED
  BY <1>1, <1>2, <1>4, OneAgentMoves

(* A response brings a host and a task of the master's tables, or none.     *)
LEMMA AnswerKeeps ==
    ASSUME AgentTyped, AgentsKnow, NEW a \in Agent,
           NEW h \in Host \cup {NoHost}, NEW t \in Task \cup {NoTask},
           Run!Answered(a, h, t)
    PROVE  AgentTyped' /\ AgentsKnow'
<1>1. CASE Run!Polled(a, h, t)
  <2>1. AgentTyped'
    BY <1>1 DEF AgentTyped, Run!AgentTypeOK, Run!Polled, Run!Move, Run!Sending
  <2>2. /\ Others(a) /\ job'[a] = t
        /\ at'[a] = IF t = NoTask THEN "sleep" ELSE "accept"
    BY <1>1 DEF AgentTyped, Run!AgentTypeOK, Run!Polled, Run!Move, Others
  <2>3. AgentKnows(a)'
    BY <2>2 DEF AgentKnows, OnTask, Ended
  <2> QED
    BY <2>1, <2>2, <2>3, OneAgentMoves
<1>2. CASE Run!Accepted(a) \/ Run!RunningReported(a)
  <2>1. AgentTyped'
    BY <1>2 DEF AgentTyped, Run!AgentTypeOK, Run!Accepted, Run!RunningReported,
                Run!Move, Run!Sending
  <2>2. /\ Others(a) /\ job'[a] = job[a] /\ outcome'[a] = outcome[a]
        /\ \/ at[a] = "accepting" /\ at'[a] = "execute"
           \/ at[a] = "reporting" /\ at'[a] = "upload"
    BY <1>2 DEF AgentTyped, Run!AgentTypeOK, Run!Accepted, Run!RunningReported,
                Run!Move, Others
  <2>3. AgentKnows(a)'
    BY <2>2 DEF AgentsKnow, AgentKnows, OnTask, Ended
  <2> QED
    BY <2>1, <2>2, <2>3, OneAgentMoves
<1>3. CASE Run!Uploaded(a)
  BY <1>3, ReleaseKeeps DEF Run!Uploaded
<1> QED
  BY <1>1, <1>2, <1>3 DEF Run!Answered

LEMMA ExecutionKeeps ==
    ASSUME AgentTyped, AgentsKnow, NEW a \in Agent, NEW o \in Reported,
           Run!Executed(a, o)
    PROVE  AgentTyped' /\ AgentsKnow'
<1>1. AgentTyped'
  BY DEF AgentTyped, Run!AgentTypeOK, Run!Executed, Run!Move, Run!Sending
<1>2. /\ Others(a) /\ job'[a] = job[a] /\ outcome'[a] = o
      /\ at[a] = "execute"
  BY DEF AgentTyped, Run!AgentTypeOK, Run!Executed, Run!Move, Others
<1>3. AgentKnows(a)'
  BY <1>2 DEF AgentsKnow, AgentKnows, OnTask
<1> QED
  BY <1>1, <1>2, <1>3, OneAgentMoves

LEMMA RestKeeps ==
    ASSUME AgentTyped, AgentsKnow, NEW a \in Agent, Run!Wake(a) \/ Run!Start(a)
    PROVE  AgentTyped' /\ AgentsKnow'
<1>1. AgentTyped'
  BY DEF AgentTyped, Run!AgentTypeOK, Run!Wake, Run!Start, Run!Move, Run!Sending
<1>2. Others(a) /\ at'[a] = "poll"
  BY DEF AgentTyped, Run!AgentTypeOK, Run!Wake, Run!Start, Run!Move, Others
<1>3. AgentKnows(a)'
  BY <1>2 DEF AgentKnows, OnTask, Ended
<1> QED
  BY <1>1, <1>2, <1>3, OneAgentMoves

LEMMA BeatKeeps ==
    ASSUME AgentTyped, AgentsKnow, NEW a \in Agent,
           Run!SendBeat(a) \/ Run!BeatAnswered(a) \/ Run!BeatFails(a)
    PROVE  AgentTyped' /\ AgentsKnow'
<1>1. /\ \E to \in {"on", "posting", "dead"} : beat' = [beat EXCEPT ![a] = to]
      /\ UNCHANGED <<at, id, job, outcome>>
  BY DEF Run!SendBeat, Run!BeatAnswered, Run!BeatFails, Run!SetBeat
<1> QED
  BY <1>1 DEF AgentTyped, Run!AgentTypeOK, AgentsKnow, AgentKnows

LEMMA SameAgentsKeep ==
    ASSUME AgentTyped, AgentsKnow, UNCHANGED agentVars
    PROVE  AgentTyped' /\ AgentsKnow'
BY DEF agentVars, AgentTyped, Run!AgentTypeOK, AgentsKnow, AgentKnows

LEMMA AgentsPreserved ==
    ASSUME SInv, [SwarmNext]_swarmVars
    PROVE  AgentTyped' /\ AgentsKnow'
<1>0. AgentTyped /\ AgentsKnow /\ TypeOK
  BY DEF SInv, SwarmTypeOK, AgentTyped, HInv, IInv
<1>1. ASSUME NEW a \in Agent, Run!Fail(a) \/ Run!Crash(a)
      PROVE  AgentTyped' /\ AgentsKnow'
  BY <1>0, <1>1, ReleaseKeeps DEF Run!Fail, Run!Crash
<1>2. ASSUME NEW a \in Agent, RunLoop(a)
      PROVE  AgentTyped' /\ AgentsKnow'
  <2>1. ASSUME NEW s \in Thread, Receive(a, s)
        PROVE  AgentTyped' /\ AgentsKnow'
    <3>1. req[s].host \in Host \cup {NoHost} /\ req[s].task \in Task \cup {NoTask}
      BY <1>0, RequestTyped
    <3> QED
      BY <1>0, <1>1, <2>1, <3>1, AnswerKeeps DEF Receive
  <2>2. ASSUME NEW s \in Thread, Call(a, s)
        PROVE  AgentTyped' /\ AgentsKnow'
    BY <1>0, <2>2, CallKeeps DEF Call
  <2>3. CASE Execute(a)
    BY <1>0, <2>3, ExecutionKeeps DEF Execute
  <2>4. CASE Wake(a)
    BY <1>0, <2>4, RestKeeps DEF Wake
  <2> QED
    BY <1>2, <2>1, <2>2, <2>3, <2>4 DEF RunLoop
<1>3. ASSUME NEW a \in Agent, BeatThread(a)
      PROVE  AgentTyped' /\ AgentsKnow'
  BY <1>0, <1>3, BeatKeeps DEF BeatThread, CallBeat, ReceiveBeat
<1>4. ASSUME NEW a \in Agent, Start(a)
      PROVE  AgentTyped' /\ AgentsKnow'
  BY <1>0, <1>4, RestKeeps DEF Start
<1>5. ASSUME NEW a \in Agent, Failure(a)
      PROVE  AgentTyped' /\ AgentsKnow'
  BY <1>0, <1>1, <1>5, BeatKeeps DEF Failure, CallFails, BeatFails, Crash
<1>6. CASE \/ Clients \/ Background \/ UNCHANGED swarmVars
           \/ \E s \in Thread : Worker(s) \/ Unheard(s)
           \/ \E h \in Host : Lapse(h)
  BY <1>0, <1>6, SameAgentsKeep
  DEF Clients, Submit, Cancel, Background, Worker, Unheard, Lapse, swarmVars
<1> QED
  BY <1>2, <1>3, <1>4, <1>5, <1>6 DEF SwarmNext, Smooth

LEMMA CallsPreserved ==
    ASSUME SwarmTypeOK, [SwarmNext]_swarmVars
    PROVE  call' \in [Thread -> Caller \cup {NoCaller}]
<1>0. call \in [Thread -> Caller \cup {NoCaller}]
  BY DEF SwarmTypeOK
<1>1. ASSUME NEW a \in Agent, StopWaiting(a)
      PROVE  call' \in [Thread -> Caller \cup {NoCaller}]
  BY <1>0, <1>1 DEF StopWaiting
<1>2. ASSUME NEW a \in Agent, NEW s \in Thread,
             Call(a, s) \/ CallBeat(a, s) \/ Receive(a, s) \/ ReceiveBeat(a, s)
      PROVE  call' \in [Thread -> Caller \cup {NoCaller}]
  BY <1>0, <1>1, <1>2 DEF Call, CallBeat, Receive, ReceiveBeat, Caller
<1>3. ASSUME NEW a \in Agent, Failure(a)
      PROVE  call' \in [Thread -> Caller \cup {NoCaller}]
  BY <1>0, <1>1, <1>3 DEF Failure, CallFails, BeatFails, Crash
<1>4. CASE UNCHANGED call
  BY <1>0, <1>4
<1> QED
  BY <1>2, <1>3, <1>4
  DEF SwarmNext, Smooth, Clients, Submit, Cancel, RunLoop, Execute, Wake, BeatThread,
      Start, Worker, Unheard, Background, Lapse, swarmVars

-----------------------------------------------------------------------------
(* The invariant. *)

LEMMA SInitial == SwarmInit => SInv
<1> SUFFICES ASSUME SwarmInit
             PROVE  SInv
  OBVIOUS
<1>1. HInv
  BY HInitial DEF SwarmInit
<1>2. SwarmTypeOK
  BY DEF SwarmInit, Run!AgentInit, SwarmTypeOK, Run!AgentTypeOK, Run!Sending
<1>3. AgentsKnow
  BY DEF SwarmInit, Run!AgentInit, AgentsKnow, AgentKnows, OnTask, Ended
<1> QED
  BY <1>1, <1>2, <1>3 DEF SInv

LEMMA SPreserved == SInv /\ [SwarmNext]_swarmVars => SInv'
<1> SUFFICES ASSUME SInv, [SwarmNext]_swarmVars
             PROVE  SInv'
  OBVIOUS
<1>1. HInv'
  BY MasterSteps, HPreserved DEF SInv
<1>2. SwarmTypeOK' /\ AgentsKnow'
  BY AgentsPreserved, CallsPreserved DEF SInv, SwarmTypeOK, AgentTyped
<1> QED
  BY <1>1, <1>2 DEF SInv

(* The agents, the callers the workers serve and what the agents know of    *)
(* their tasks stay in their types (run_loop in src/agent/main.py).         *)
THEOREM SwarmTypeCorrect == SwarmSpec => []SwarmTypeOK
<1>1. SInv => SwarmTypeOK
  BY DEF SInv
<1> QED
  BY SInitial, SPreserved, <1>1, PTL DEF SwarmSpec

(* The whole system implements the master alone, which serves any request   *)
(* at any time: every step of the swarm is a step of the master or leaves   *)
(* it as it is.  An agent reports only on a task it was given, and uploads  *)
(* only an outcome of its container.                                        *)
THEOREM SwarmImplementsMaster == SwarmSpec => Spec
<1>1. SwarmInit => Init
  BY DEF SwarmInit
<1>2. SInv /\ [SwarmNext]_swarmVars => [Next]_vars
  BY MasterSteps
<1> QED
  BY SInitial, SPreserved, <1>1, <1>2, PTL DEF SwarmSpec, Spec

(* So whatever agents, clients, lost calls and crashes do, the tables keep  *)
(* what was proved of the master: rows whose status and assignment agree,   *)
(* hosts that are never in debt,                                            *)
THEOREM SwarmKeepsItsTables == SwarmSpec => [](AssignmentMatchesStatus /\ NoDebt)
BY SwarmImplementsMaster, AssignmentCorrect, ResourcesCorrect, PTL

(* tasks that go back to PENDING only with the host they lose,              *)
THEOREM SwarmRequeuesWithTheHost == SwarmSpec => RequeuedWithItsHost
BY SwarmImplementsMaster, RequeuesWithTheHost, PTL

(* finished tasks that are revived by old news only,                        *)
THEOREM SwarmRevivesByOldNews == SwarmSpec => RevivedByOldNews
BY SwarmImplementsMaster, RevivesByOldNews, PTL

(* and passes that run as if they were alone, which assign tasks only to    *)
(* hosts that they have read alive and with room.                           *)
THEOREM SwarmPassesInOrder == SwarmSpec => PassesAsAlone /\ AssignedWhenReady
BY SwarmImplementsMaster, PassesRunAlone, AssignsWhenReady, PTL

-----------------------------------------------------------------------------
(* Whose work it is.  The row of a task and the agent that has it in hand    *)
(* are tied by the calls under way between them.                            *)

FreeHands == \A a \in Agent : at[a] \notin OnTask => job[a] = NoTask

Reports == {"status", "result"}

Awaited(a) == CASE at[a] = "polling" -> Heartbeats
                [] at[a] \in {"accepting", "reporting"} -> {"status"}
                [] at[a] = "uploading" -> {"result"}
                [] OTHER -> {}

(* A run_loop waits for one response, to what it has asked.                 *)
LoopCall(a, s) == /\ pc[s] # "idle"
                  /\ req[s].op \in Awaited(a)
                  /\ req[s].op \in Reports => req[s].task = job[a]

LoopCalls == \A a \in Agent, s \in Thread : call[s] = <<a, "loop">> => LoopCall(a, s)

OneCall == \A a \in Agent, r, s \in Thread :
               call[r] = <<a, "loop">> /\ call[s] = <<a, "loop">> => r = s

BeatCalls == \A a \in Agent, s \in Thread :
                 call[s] = <<a, "beat">> => pc[s] # "idle" /\ req[s].op \in Heartbeats

(* No report is under way whose agent has given up waiting.                 *)
Reporters == \A s \in Thread : req[s].op \in Reports =>
                 /\ \E a \in Agent : call[s] = <<a, "loop">>
                 /\ ~Unborn(req[s].task)

(* A report is refused when its task is gone for good.                      *)
RefusedWhenGone == \A s \in Thread : pc[s] = "error" /\ req[s].op \in Reports =>
                       tasks[req[s].task].status = "DELETED"

CallsSound == FreeHands /\ LoopCalls /\ OneCall /\ BeatCalls /\ Reporters /\ RefusedWhenGone

(* The result of the task is in the table, or its commit will not write the *)
(* status because the row had it already when it was loaded.                *)
Spent(s) == /\ req[s].op = "result"
            /\ \/ pc[s] \in {"refresh", "reply", "error"}
               \/ /\ pc[s] = "put"
                  /\ orm[s].tasks[req[s].task].status = req[s].status

(* An agent has the task in hand until the result is in the table, not only *)
(* until it is answered.                                                    *)
Holds(a, t) == /\ job[a] = t
               /\ \A s \in Thread : call[s] = <<a, "loop">> => ~Spent(s)

Held == \A t \in Task : tasks[t].status \in Progress => \E a \in Agent : Holds(a, t)

WInv == SInv /\ CallsSound /\ Held

(* The statements of a session keep the request it serves.                  *)
LEMMA ServeMoves ==
    ASSUME SInv, NEW s \in Session, Serve(s) \/ (s = Loop /\ LoopStep)
    PROVE  /\ Untouched(s)
           /\ pc[s] # "idle" /\ pc'[s] # "idle"
           /\ req'[s].op = req[s].op /\ req'[s].status = req[s].status
           /\ req[s].op \in Reports \cup {"delete"} => req'[s].task = req[s].task
<1> USE DEF SInv, HInv, IInv
<1>1. Untouched(s)
  BY StatementMoves
<1>2. pc[s] # "idle" /\ pc'[s] # "idle"
  <2>1. pc[s] # "idle"
    BY DEF Serve, Pass, ReadHosts, ReadPending, PlaceNext, CommitPass, RaisePass, EndPass,
           Handle, GetHost, PutHost, RefreshHost, Pick, InsertTask, ReadBack, GetTask,
           PutTask, DeleteTask, RefreshTask, LoopStep, Reconcile, CommitHealth,
           RaiseHealth, SelectLost
  <2>2. \E l : Goto(s, l) /\ l # "idle"
    <3>1. CASE Pass(s)
      <4>1. AfterPass(s) # "idle" /\ AfterRaise(s) # "idle"
        BY DEF AfterPass, AfterRaise
      <4>2. \/ Step(s, "pending") \/ Step(s, "place")
            \/ Step(s, AfterPass(s)) \/ Step(s, AfterRaise(s))
        BY <3>1 DEF Pass, ReadHosts, ReadPending, PlaceNext, CommitPass, RaisePass
      <4> QED
        BY <4>1, <4>2 DEF Step
    <3>2. CASE Handle(s)
      BY <3>2 DEF Handle, GetHost, PutHost, RefreshHost, Pick, InsertTask, ReadBack,
                  GetTask, PutTask, DeleteTask, RefreshTask, Step, Answer
    <3>3. CASE s = Loop /\ LoopStep
      <4>1. Step(s, "requeue") \/ Step(s, "pass") \/ Step(s, "dead")
        BY <3>3 DEF LoopStep, Reconcile, CommitHealth, RaiseHealth, SelectLost
      <4> QED
        BY <4>1 DEF Step
    <3> QED
      BY <3>1, <3>2, <3>3 DEF Serve
  <2> QED
    BY <2>1, <2>2 DEF Goto, TypeOK
<1>3. CASE Pick(s)
  <2>1. req[s].op \notin Reports \cup {"delete"}
    BY <1>3 DEF Pick, SnapshotsSound, RequestSound, Heartbeats, Reports
  <2>2. PICK t : req' = [req EXCEPT ![s].task = t]
    BY <1>3 DEF Pick
  <2>3. req'[s] = [req[s] EXCEPT !.task = t] /\ req[s] \in Request
    BY <2>2 DEF TypeOK
  <2> QED
    BY <1>1, <1>2, <2>1, <2>3 DEF Request
<1>4. CASE req' = req
  BY <1>1, <1>2, <1>4
<1> QED
  BY <1>3, <1>4
  DEF Serve, Pass, ReadHosts, ReadPending, PlaceNext, CommitPass, RaisePass,
      Handle, GetHost, PutHost, RefreshHost, InsertTask, ReadBack, GetTask,
      PutTask, DeleteTask, RefreshTask, LoopStep, Reconcile, CommitHealth,
      RaiseHealth, SelectLost, Step

LEMMA CallsServed ==
    ASSUME SInv, CallsSound, [Next]_vars, NEW s \in Session,
           Serve(s) \/ (s = Loop /\ LoopStep), UNCHANGED <<agentVars, call>>
    PROVE  CallsSound'
<1> USE DEF SInv, HInv, IInv
<1>0. SnapshotsSound /\ TypeOK
  OBVIOUS
<1>1. UNCHANGED <<at, job, call>>
  BY DEF agentVars
<1>2. ASSUME NEW r \in Thread
      PROVE  /\ pc[r] # "idle" => pc'[r] # "idle"
             /\ req'[r].op = req[r].op
             /\ req[r].op \in Reports => req'[r].task = req[r].task
  BY ServeMoves DEF Untouched
<1>3. FreeHands' /\ OneCall'
  BY <1>1 DEF CallsSound, FreeHands, OneCall
<1>4. LoopCalls'
  BY <1>1, <1>2 DEF CallsSound, LoopCalls, LoopCall, Awaited
<1>5. BeatCalls'
  BY <1>1, <1>2 DEF CallsSound, BeatCalls
<1>6. Reporters'
  <2> SUFFICES ASSUME NEW r \in Thread, req'[r].op \in Reports
               PROVE  /\ \E a \in Agent : call'[r] = <<a, "loop">>
                      /\ tasks'[req[r].task].status # "NONE"
    BY <1>2 DEF Reporters, Unborn
  <2>1. req[r].op \in Reports /\ req[r].task \in Task
    BY <1>0, <1>2 DEF Reports, SnapshotsSound, RequestSound, TaskWrites
  <2> QED
    BY <1>1, <2>1, BirthByInsert DEF CallsSound, Reporters, Unborn
<1>7. RefusedWhenGone'
  <2> SUFFICES ASSUME NEW r \in Thread, pc'[r] = "error", req'[r].op \in Reports
               PROVE  tasks'[req[r].task].status = "DELETED"
    BY <1>2 DEF RefusedWhenGone
  <2>1. /\ req[r].op \in Reports /\ req[r].task \in Task
        /\ ~Unborn(req[r].task)
    BY <1>0, <1>2 DEF Reports, SnapshotsSound, RequestSound, TaskWrites, CallsSound, Reporters
  <2>2. CASE pc[r] = "error"
    BY <2>1, <2>2, GoneStays DEF CallsSound, RefusedWhenGone
  <2>3. CASE pc[r] # "error"
    <3>1. r = s
      BY <2>3, ServeMoves DEF Untouched
    <3>2. s # Loop /\ ~Pass(s)
      BY <1>0, <2>1, <3>1, SessionAssumption
      DEF Reports, SnapshotsSound, RequestSound, Passing, Heartbeats, Pass, ReadHosts,
          ReadPending, PlaceNext, CommitPass, RaisePass, EndPass
    <3>3. Handle(s)
      BY <3>2 DEF Serve
    <3>4. \/ /\ GetTask(s) \/ PutTask(s) \/ RefreshTask(s)
             /\ tasks' = tasks /\ ~Exists(tasks[req[s].task])
      <4>1. \A l : Goto(s, l) => l = "error"
        BY <1>0, <3>1 DEF Goto, TypeOK
      <4> QED
        BY <2>1, <3>1, <3>3, <4>1
        DEF Handle, GetHost, PutHost, RefreshHost, Pick, InsertTask, ReadBack, GetTask,
            PutTask, DeleteTask, RefreshTask, Step, Answer, Refused, Reports
    <3> QED
      BY <2>1, <3>1, <3>4 DEF Exists, Unborn
  <2> QED
    BY <2>2, <2>3
<1> QED
  BY <1>3, <1>4, <1>5, <1>6, <1>7 DEF CallsSound

(* A statement that does not write t leaves it in the same hands; the one    *)
(* that writes a result of its holder ends it.                              *)
LEMMA StaysInHand ==
    ASSUME SInv, CallsSound, NEW s \in Session,
           Serve(s) \/ (s = Loop /\ LoopStep), UNCHANGED <<agentVars, call>>,
           NEW t \in Task, tasks[t].status \in Progress, tasks'[t].status \in Progress,
           NEW a \in Agent, Holds(a, t)
    PROVE  Holds(a, t)'
<1> USE DEF SInv, HInv, IInv
<1>0. SnapshotsSound /\ TypeOK
  OBVIOUS
<1>1. UNCHANGED <<job, call>>
  BY DEF agentVars
<1> SUFFICES ASSUME NEW r \in Thread, call[r] = <<a, "loop">>, Spent(r)'
             PROVE  FALSE
  BY <1>1 DEF Holds
<1>2. ~Spent(r) /\ LoopCall(a, r)
  BY DEF Holds, CallsSound, LoopCalls
<1>3. r = s
  BY <1>2, ServeMoves DEF Spent, Untouched
<1>4. /\ req[s].op = "result" /\ req'[s].status = req[s].status
      /\ req[s].task = t /\ req'[s].task = t
  BY <1>2, <1>3, ServeMoves DEF Spent, LoopCall, Reports, Holds
<1>5. req[s].status \in {"SUCCESS", "FAILED"}
  BY <1>0, <1>4 DEF SnapshotsSound, RequestSound
<1>6. s # Loop /\ ~Pass(s)
  BY <1>0, <1>3, <1>4, SessionAssumption
  DEF SnapshotsSound, RequestSound, Passing, Heartbeats, Pass, ReadHosts,
      ReadPending, PlaceNext, CommitPass, RaisePass, EndPass
<1>7. GetTask(s) \/ PutTask(s)
  <2>1. pc[s] # "refresh"
    BY <1>2, <1>3, <1>4 DEF Spent
  <2>2. ~Pick(s)
    BY <1>0, <1>4 DEF Pick, SnapshotsSound, RequestSound, Heartbeats
  <2> QED
    BY <1>4, <1>6, <2>1, <2>2
    DEF Serve, Handle, GetHost, PutHost, RefreshHost, InsertTask, ReadBack,
        DeleteTask, Deletes, RefreshTask, Heartbeats
<1>8. CASE GetTask(s)
  <2>1. Goto(s, "put") /\ HoldTask(s, t)
    BY <1>4, <1>8 DEF GetTask, Refused, Exists, Progress
  <2>2. orm'[s].tasks[t] = tasks[t]
    <3> DEFINE memory == [orm[s] EXCEPT !.tasks = [orm[s].tasks EXCEPT ![t] = tasks[t]]]
    <3>1. memory.tasks[t] = tasks[t]
      BY <1>0, MemoryTyped DEF Memory
    <3>2. Hold(s, memory)
      BY <2>1 DEF HoldTask
    <3> HIDE DEF memory
    <3> QED
      BY <1>0, <3>1, <3>2, HoldMoves
  <2>3. pc'[s] = "put"
    BY <1>0, <2>1 DEF Goto, TypeOK
  <2> QED
    BY <1>3, <1>4, <1>5, <2>2, <2>3 DEF Spent, Progress
<1>9. CASE PutTask(s)
  <2> DEFINE loaded == orm[s].tasks[t]
             new == WithResult(loaded, req[s].status, req[s].exit)
  <2>1. loaded.status # req[s].status
    BY <1>2, <1>3, <1>4, <1>9 DEF PutTask, Spent
  <2>2. Exists(tasks[t])
    BY DEF Exists, Progress
  <2>3. tasks' = [tasks EXCEPT ![t] = UpdateTask(tasks[t], loaded, new)]
    BY <1>4, <1>9, <2>2 DEF PutTask, Changed
  <2>4. new.status = req[s].status
    BY <1>0, MemoryTyped DEF WithResult, TaskRow
  <2>5. tasks'[t].status = req[s].status
    <3> HIDE DEF new
    <3>1. tasks'[t] = UpdateTask(tasks[t], loaded, new)
      BY <1>0, <2>3 DEF TypeOK
    <3> QED
      BY <2>1, <2>4, <3>1 DEF UpdateTask, Column
  <2> QED
    BY <1>5, <2>5 DEF Progress
<1> QED
  BY <1>7, <1>8, <1>9

LEMMA HeldServed ==
    ASSUME SInv, CallsSound, Held, [Next]_vars, NEW s \in Session,
           Serve(s) \/ (s = Loop /\ LoopStep), UNCHANGED <<agentVars, call>>
    PROVE  Held'
<1> USE DEF SInv, HInv, IInv
<1> SUFFICES ASSUME NEW t \in Task, tasks'[t].status \in Progress
             PROVE  \E a \in Agent : Holds(a, t)'
  BY DEF Held, Holds
<1>1. CASE tasks[t].status \in Progress
  <2>1. PICK a \in Agent : Holds(a, t)
    BY <1>1 DEF Held
  <2> QED
    BY <1>1, <2>1, StaysInHand
<1>2. CASE tasks[t].status \notin Progress
  <2>1. PICK r \in Session : Writes(r, t)
    BY <1>2, StatusWritten
  <2>2. req[r].task = t /\ req[r].op = "status"
    BY <2>1 DEF Writes, Progress, Finished
  <2>3. r \in Thread
    BY <2>2 DEF SnapshotsSound, RequestSound
  <2>4. PICK a \in Agent : call[r] = <<a, "loop">>
    BY <2>2, <2>3 DEF CallsSound, Reporters, Reports
  <2>5. job[a] = t
    BY <2>2, <2>3, <2>4 DEF CallsSound, LoopCalls, LoopCall, Reports
  <2>6. \A u \in Thread : call[u] = <<a, "loop">> => u = r
    BY <2>3, <2>4 DEF CallsSound, OneCall
  <2>7. req'[r].op = "status"
    BY <2>2, ServeMoves DEF Untouched
  <2>8. Holds(a, t)'
    BY <2>5, <2>6, <2>7 DEF Holds, Spent, agentVars
  <2> QED
    BY <2>8
<1> QED
  BY <1>1, <1>2

(* A request goes to a worker for whom nobody waits.                        *)
LEMMA Begun ==
    ASSUME SInv, CallsSound, NEW s \in Thread, NEW q, NEW l, Begin(s, q, l)
    PROVE  /\ pc'[s] = l /\ req'[s] = q
           /\ \A r \in Thread \ {s} : pc'[r] = pc[r] /\ req'[r] = req[r]
           /\ tasks' = tasks /\ orm' = orm
           /\ \A a \in Agent : call[s] # <<a, "loop">> /\ call[s] # <<a, "beat">>
BY DEF SInv, HInv, IInv, TypeOK, Begin, Goto, CallsSound, LoopCalls, LoopCall, BeatCalls

LEMMA HeldBegun ==
    ASSUME SInv, CallsSound, Held, NEW s \in Thread, NEW q, NEW l, Begin(s, q, l),
           q.op = "result" => l = "get", job' = job,
           \A r \in Thread \ {s} : call'[r] = call[r]
    PROVE  Held'
<1> SUFFICES ASSUME NEW t \in Task, tasks[t].status \in Progress
             PROVE  \E a \in Agent : Holds(a, t)'
  BY Begun DEF Held, Holds
<1>1. PICK a \in Agent : Holds(a, t)
  BY DEF Held
<1>2. ~Spent(s)'
  BY Begun DEF Spent
<1>3. \A r \in Thread \ {s} : Spent(r)' => Spent(r)
  BY Begun DEF Spent
<1> QED
  BY <1>1, <1>2, <1>3 DEF Holds

LEMMA CallsBegun ==
    ASSUME SInv, CallsSound, NEW s \in Thread, NEW q, NEW l, l # "idle", Begin(s, q, l),
           UNCHANGED <<at, job>>, \A r \in Thread \ {s} : call'[r] = call[r],
           \/ call'[s] = call[s] /\ q.op \notin Reports
           \/ \E a \in Agent : call'[s] = <<a, "beat">> /\ q.op \in Heartbeats
    PROVE  CallsSound'
<1>0. Heartbeats \cap Reports = {}
  BY DEF Heartbeats, Reports
<1>1. q.op \notin Reports /\ \A a \in Agent : call'[s] # <<a, "loop">>
  BY <1>0, Begun
<1>2. \A a \in Agent : call'[s] = <<a, "beat">> => q.op \in Heartbeats
  BY Begun
<1>3. FreeHands'
  BY DEF CallsSound, FreeHands
<1>4. LoopCalls' /\ OneCall'
  BY <1>1, Begun DEF CallsSound, LoopCalls, LoopCall, Awaited, OneCall
<1>5. BeatCalls'
  BY <1>2, Begun DEF CallsSound, BeatCalls
<1>6. Reporters' /\ RefusedWhenGone'
  BY <1>1, Begun DEF CallsSound, Reporters, RefusedWhenGone, Unborn
<1> QED
  BY <1>3, <1>4, <1>5, <1>6 DEF CallsSound

(* An agent sends when it waits for nothing.                                *)
LEMMA LoopCallsBegun ==
    ASSUME SInv, CallsSound, NEW a \in Agent, NEW s \in Thread, NEW q, NEW l,
           l \notin {"idle", "error"}, Begin(s, q, l), Run!Send(a),
           q.op \in Awaited(a)',
           q.op \in Reports => q.task = job[a] /\ ~Unborn(q.task),
           call' = [call EXCEPT ![s] = <<a, "loop">>]
    PROVE  CallsSound'
<1> USE DEF SInv
<1>1. /\ call'[s] = <<a, "loop">>
      /\ \A r \in Thread \ {s} : call'[r] = call[r]
  BY DEF SwarmTypeOK
<1>2. /\ at[a] \in Run!Sending /\ at'[a] \in Run!Waiting
      /\ at[a] \in OnTask <=> at'[a] \in OnTask
      /\ \A b \in Agent \ {a} : at'[b] = at[b]
      /\ job' = job
  BY DEF SwarmTypeOK, Run!AgentTypeOK, Run!Send, Run!Move, Run!Sending, Run!Waiting, OnTask
<1>3. \A r \in Thread : call[r] # <<a, "loop">>
  BY <1>2 DEF CallsSound, LoopCalls, LoopCall, Awaited, Run!Sending
<1>4. FreeHands'
  BY <1>2 DEF CallsSound, FreeHands
<1>5. LoopCalls'
  <2> SUFFICES ASSUME NEW b \in Agent, NEW r \in Thread, call'[r] = <<b, "loop">>
               PROVE  LoopCall(b, r)'
    BY DEF LoopCalls
  <2>1. CASE r = s
    BY <1>1, <1>2, <2>1, Begun DEF LoopCall
  <2>2. CASE r # s
    <3>1. call[r] = <<b, "loop">> /\ b # a
      BY <1>1, <1>3, <2>2
    <3> QED
      BY <1>2, <2>2, <3>1, Begun DEF CallsSound, LoopCalls, LoopCall, Awaited
  <2> QED
    BY <2>1, <2>2
<1>6. OneCall'
  BY <1>1, <1>3 DEF CallsSound, OneCall
<1>7. BeatCalls'
  BY <1>1, Begun DEF CallsSound, BeatCalls
<1>8. Reporters' /\ RefusedWhenGone'
  BY <1>1, Begun DEF CallsSound, Reporters, RefusedWhenGone, Unborn
<1> QED
  BY <1>4, <1>5, <1>6, <1>7, <1>8 DEF CallsSound

LEMMA ReportBegins ==
    ASSUME NEW a \in Agent, NEW s \in Thread, Report(a, s)
    PROVE  \E q, l : Begin(s, q, l) /\ q.op \in Heartbeats /\ l \in {"get", "put"}
BY DEF Report, BeginRegister, BeginHeartbeat, Measured, NoRequest, Heartbeats

LEMMA ClientsKeepCalls ==
    ASSUME SInv, CallsSound, Held, Clients
    PROVE  CallsSound' /\ Held'
<1>1. PICK s \in Thread, t \in Task : Submit(t, s) \/ Cancel(t, s)
  BY CancellableAssumption DEF Clients
<1>2. PICK q, l : Begin(s, q, l) /\ q.op \in {"create", "delete"} /\ l \in {"get", "put"}
  BY <1>1 DEF Submit, Cancel, BeginCreate, BeginDelete, NoRequest
<1>3. UNCHANGED <<at, job, call>>
  BY <1>1 DEF Submit, Cancel, agentVars
<1> QED
  BY <1>2, <1>3, CallsBegun, HeldBegun DEF Reports

LEMMA CallBeatKeepsCalls ==
    ASSUME SInv, CallsSound, Held, NEW a \in Agent, NEW s \in Thread, CallBeat(a, s)
    PROVE  CallsSound' /\ Held'
<1>1. PICK q, l : Begin(s, q, l) /\ q.op \in Heartbeats /\ l \in {"get", "put"}
  BY ReportBegins DEF CallBeat
<1>2. UNCHANGED <<at, job>>
  BY DEF CallBeat, Run!SendBeat, Run!SetBeat
<1>3. /\ call'[s] = <<a, "beat">>
      /\ \A r \in Thread \ {s} : call'[r] = call[r]
  BY DEF CallBeat, SInv, SwarmTypeOK
<1> QED
  BY <1>1, <1>2, <1>3, CallsBegun, HeldBegun DEF Heartbeats

LEMMA CallKeepsCalls ==
    ASSUME SInv, CallsSound, Held, NEW a \in Agent, NEW s \in Thread, Call(a, s)
    PROVE  CallsSound' /\ Held'
<1> USE DEF SInv
<1>1. job' = job /\ \A r \in Thread \ {s} : call'[r] = call[r]
  BY DEF Call, Run!Send, SwarmTypeOK
<1>2. \E q, l : /\ Begin(s, q, l) /\ l \in {"get", "put"}
                /\ q.op \in Awaited(a)'
                /\ q.op \in Reports => q.task = job[a] /\ ~Unborn(q.task)
                /\ q.op = "result" => l = "get"
  <2>1. CASE at[a] = "poll"
    <3>1. at'[a] = "polling"
      BY <2>1 DEF Call, Run!Send, Run!Move, SwarmTypeOK, Run!AgentTypeOK
    <3>2. PICK q, l : Begin(s, q, l) /\ q.op \in Heartbeats /\ l \in {"get", "put"}
      BY <2>1, ReportBegins DEF Call, Message
    <3> QED
      BY <3>1, <3>2 DEF Awaited, Heartbeats, Reports
  <2>2. CASE at[a] \in {"accept", "report"}
    <3>1. at'[a] \in {"accepting", "reporting"}
      BY <2>2 DEF Call, Run!Send, Run!Move, SwarmTypeOK, Run!AgentTypeOK
    <3>2. PICK status : BeginStatus(s, job[a], status)
      BY <2>2 DEF Call, Message
    <3> DEFINE q == [NoRequest EXCEPT !.op = "status", !.task = job[a], !.status = status]
    <3>3. Begin(s, q, "get") /\ ~Unborn(job[a])
      BY <3>2 DEF BeginStatus, Unborn
    <3>4. q.op = "status" /\ q.task = job[a]
      BY DEF NoRequest
    <3>5. "status" \in Awaited(a)'
      BY <3>1 DEF Awaited
    <3> HIDE DEF q
    <3> QED
      BY <3>3, <3>4, <3>5
  <2>3. CASE at[a] = "upload"
    <3>1. at'[a] = "uploading"
      BY <2>3 DEF Call, Run!Send, Run!Move, SwarmTypeOK, Run!AgentTypeOK
    <3> DEFINE q == [NoRequest EXCEPT !.op = "result", !.task = job[a],
                                      !.status = outcome[a][1], !.exit = outcome[a][2]]
    <3>2. Begin(s, q, "get") /\ ~Unborn(job[a])
      BY <2>3 DEF Call, Message, BeginResult, Unborn
    <3>3. q.op = "result" /\ q.task = job[a]
      BY DEF NoRequest
    <3>4. "result" \in Awaited(a)'
      BY <3>1 DEF Awaited
    <3> HIDE DEF q
    <3> QED
      BY <3>2, <3>3, <3>4
  <2> QED
    BY <2>1, <2>2, <2>3 DEF Call, Run!Send, Run!Move
<1>3. PICK q, l : /\ Begin(s, q, l) /\ l \in {"get", "put"}
                  /\ q.op \in Awaited(a)'
                  /\ q.op \in Reports => q.task = job[a] /\ ~Unborn(q.task)
                  /\ q.op = "result" => l = "get"
  BY <1>2
<1>4. CallsSound'
  BY <1>3, LoopCallsBegun DEF Call
<1>5. Held'
  BY <1>1, <1>3, HeldBegun
<1> QED
  BY <1>4, <1>5

(* A response frees the worker.                                             *)
LEMMA Responded ==
    ASSUME SInv, NEW s \in Thread, Respond(s)
    PROVE  /\ pc[s] \in {"reply", "error"}
           /\ pc'[s] = "idle" /\ req'[s].op = "none"
           /\ \A r \in Thread \ {s} : pc'[r] = pc[r] /\ req'[r] = req[r]
           /\ tasks' = tasks /\ orm' = orm
BY DEF SInv, HInv, IInv, TypeOK, Respond, Goto, NoRequest

(* A worker whose caller is not waiting for a report any more.              *)
LEMMA RespondKeepsCalls ==
    ASSUME SInv, CallsSound, Held, NEW s \in Thread, Respond(s), UNCHANGED <<at, job>>,
           call'[s] = NoCaller, \A r \in Thread \ {s} : call'[r] = call[r]
    PROVE  CallsSound' /\ Held'
<1>1. \A a \in Agent : call'[s] # <<a, "loop">> /\ call'[s] # <<a, "beat">>
  BY NoCallerAssumption
<1>2. FreeHands'
  BY DEF CallsSound, FreeHands
<1>3. LoopCalls' /\ OneCall'
  <2>1. \A a \in Agent, r \in Thread :
           call'[r] = <<a, "loop">> => r # s /\ call[r] = <<a, "loop">>
    BY <1>1
  <2>2. OneCall'
    BY <2>1 DEF CallsSound, OneCall
  <2>3. LoopCalls'
    BY <2>1, Responded DEF CallsSound, LoopCalls, LoopCall, Awaited
  <2> QED
    BY <2>2, <2>3
<1>4. BeatCalls'
  BY <1>1, Responded DEF CallsSound, BeatCalls
<1>5. Reporters' /\ RefusedWhenGone'
  BY Responded DEF CallsSound, Reporters, RefusedWhenGone, Unborn, Reports
<1>6. Held'
  <2> SUFFICES ASSUME NEW t \in Task, tasks[t].status \in Progress
               PROVE  \E a \in Agent : Holds(a, t)'
    BY Responded DEF Held, Holds
  <2>1. PICK a \in Agent : Holds(a, t)
    BY DEF Held
  <2>2. \A r \in Thread \ {s} : Spent(r)' => Spent(r)
    BY Responded DEF Spent
  <2> QED
    BY <1>1, <2>1, <2>2 DEF Holds
<1> QED
  BY <1>2, <1>3, <1>4, <1>5, <1>6 DEF CallsSound

(* An agent that moves on from its call and stops waiting for it.           *)
LEMMA StopsWaiting ==
    ASSUME SInv, NEW a \in Agent, StopWaiting(a)
    PROVE  /\ \A r \in Thread : call'[r] # <<a, "loop">>
           /\ \A b \in Agent, r \in Thread :
                 /\ call'[r] = <<b, "loop">> => call[r] = <<b, "loop">>
                 /\ call'[r] = <<b, "beat">> => call[r] = <<b, "beat">>
                 /\ b # a /\ call[r] = <<b, "loop">> => call'[r] = <<b, "loop">>
BY NoCallerAssumption DEF StopWaiting

OnlyMoves(a) == /\ \A b \in Agent \ {a} : at'[b] = at[b] /\ job'[b] = job[b]
                /\ at'[a] \notin OnTask => job'[a] = NoTask

(* What is left of CallsSound when a moves on, if none of its reports is    *)
(* under way any more.                                                      *)
LEMMA CallsLeft ==
    ASSUME SInv, CallsSound, NEW a \in Agent, OnlyMoves(a), StopWaiting(a),
           \A r \in Thread : \/ pc'[r] = pc[r] /\ req'[r] = req[r]
                             \/ call[r] = <<a, "loop">> /\ req'[r].op = "none",
           \A r \in Thread : call[r] = <<a, "loop">> => req'[r].op \notin Reports,
           tasks' = tasks
    PROVE  CallsSound'
<1>1. FreeHands'
  BY DEF CallsSound, FreeHands, OnlyMoves
<1>2. \A b \in Agent, r \in Thread : call'[r] = <<b, "loop">> =>
         /\ b # a /\ call[r] = <<b, "loop">>
         /\ pc'[r] = pc[r] /\ req'[r] = req[r]
  BY StopsWaiting
<1>3. OneCall'
  BY <1>2 DEF CallsSound, OneCall
<1>4. LoopCalls'
  BY <1>2 DEF CallsSound, LoopCalls, LoopCall, Awaited, OnlyMoves
<1>5. BeatCalls'
  <2> SUFFICES ASSUME NEW b \in Agent, NEW r \in Thread, call'[r] = <<b, "beat">>
               PROVE  pc'[r] # "idle" /\ req'[r].op \in Heartbeats
    BY DEF BeatCalls
  <2>1. call[r] = <<b, "beat">>
    BY StopsWaiting
  <2> QED
    BY <2>1 DEF CallsSound, BeatCalls
<1>6. Reporters'
  <2> SUFFICES ASSUME NEW r \in Thread, req'[r].op \in Reports
               PROVE  /\ \E b \in Agent : call'[r] = <<b, "loop">>
                      /\ ~Unborn(req[r].task) /\ req'[r] = req[r]
    BY DEF Reporters, Unborn
  <2>1. req'[r] = req[r] /\ call[r] # <<a, "loop">>
    BY DEF Reports
  <2>2. PICK b \in Agent : call[r] = <<b, "loop">>
    BY <2>1 DEF CallsSound, Reporters
  <2> QED
    BY <2>1, <2>2, StopsWaiting DEF CallsSound, Reporters
<1>7. RefusedWhenGone'
  BY DEF CallsSound, RefusedWhenGone, Reports
<1> QED
  BY <1>1, <1>3, <1>4, <1>5, <1>6, <1>7 DEF CallsSound

(* Work in the hands of the other agents stays there; it is for the one     *)
(* that moves on to show that it keeps its own, or has none.                *)
LEMMA HeldLeft ==
    ASSUME SInv, Held, NEW a \in Agent, OnlyMoves(a), StopWaiting(a),
           \A r \in Thread : \/ pc'[r] = pc[r] /\ req'[r] = req[r]
                             \/ call[r] = <<a, "loop">>,
           tasks' = tasks, orm' = orm,
           \A t \in Task : tasks[t].status \in Progress /\ Holds(a, t) => job'[a] = t
    PROVE  Held'
<1> SUFFICES ASSUME NEW t \in Task, tasks[t].status \in Progress
             PROVE  \E b \in Agent : Holds(b, t)'
  BY DEF Held, Holds
<1>1. PICK b \in Agent : Holds(b, t)
  BY DEF Held
<1>2. job'[b] = t
  BY <1>1 DEF OnlyMoves, Holds
<1>3. \A r \in Thread : call'[r] = <<b, "loop">> =>
         /\ call[r] = <<b, "loop">>
         /\ pc'[r] = pc[r] /\ req'[r] = req[r]
  BY StopsWaiting
<1>4. \A r \in Thread : call'[r] = <<b, "loop">> => ~Spent(r)'
  BY <1>1, <1>3 DEF Holds, Spent
<1> QED
  BY <1>2, <1>4 DEF Holds

LEMMA ReceiveKeepsCalls ==
    ASSUME SInv, CallsSound, Held, NEW a \in Agent, NEW s \in Thread, Receive(a, s)
    PROVE  CallsSound' /\ Held'
<1> USE DEF SInv
<1>0. /\ call[s] = <<a, "loop">> /\ StopWaiting(a) /\ Respond(s)
      /\ LoopCall(a, s)
      /\ \A r \in Thread : call[r] = <<a, "loop">> => r = s
  BY DEF Receive, CallsSound, LoopCalls, OneCall
<1>1. OnlyMoves(a)
  <2>1. CASE \E h, t : Run!Polled(a, h, t)
    BY <2>1 DEF Run!Polled, Run!Move, SwarmTypeOK, Run!AgentTypeOK, OnlyMoves, OnTask
  <2>2. CASE Run!Accepted(a) \/ Run!RunningReported(a)
    BY <2>2 DEF Run!Accepted, Run!RunningReported, Run!Move, SwarmTypeOK, Run!AgentTypeOK,
                OnlyMoves, OnTask
  <2>3. CASE Run!Uploaded(a) \/ Run!Fail(a)
    BY <2>3 DEF Run!Uploaded, Run!Fail, Run!Release, SwarmTypeOK, Run!AgentTypeOK, OnlyMoves
  <2> QED
    BY <2>1, <2>2, <2>3 DEF Receive, Run!Answered
<1>2. ASSUME NEW t \in Task, tasks[t].status \in Progress, Holds(a, t)
      PROVE  job'[a] = t
  <2>1. job[a] = t /\ ~Spent(s) /\ at[a] # "polling"
    BY <1>0, <1>2, NoTaskAssumption DEF Holds, CallsSound, FreeHands, OnTask
  <2>2. req[s].op \in Reports /\ req[s].task = t
    BY <1>0, <2>1 DEF LoopCall, Awaited, Reports
  <2>3. pc[s] # "error"
    BY <1>2, <2>2 DEF CallsSound, RefusedWhenGone, Progress
  <2>4. pc[s] = "reply" /\ req[s].op # "result"
    BY <1>0, <2>1, <2>3, Responded DEF Spent
  <2>5. at[a] # "uploading"
    BY <1>0, <2>4 DEF LoopCall, Awaited
  <2>6. Run!Accepted(a) \/ Run!RunningReported(a)
    BY <2>1, <2>4, <2>5 DEF Receive, Run!Answered, Run!Polled, Run!Move, Run!Uploaded
  <2> QED
    BY <2>1, <2>6 DEF Run!Accepted, Run!RunningReported
<1>3. CallsSound'
  BY <1>0, <1>1, Responded, CallsLeft DEF Reports
<1>4. Held'
  BY <1>0, <1>1, <1>2, Responded, HeldLeft
<1> QED
  BY <1>3, <1>4

(* What an agent does by itself, and a failure that strikes no agent at work.*)
LEMMA AloneKeepsCalls ==
    ASSUME SInv, CallsSound, Held, NEW a \in Agent, Execute(a) \/ Wake(a) \/ Start(a)
    PROVE  CallsSound' /\ Held'
<1> USE DEF SInv
<1>1. UNCHANGED <<vars, call, job>>
  BY DEF Execute, Wake, Start, Run!Executed, Run!Wake, Run!Start
<1>2. /\ at[a] \notin Run!Waiting /\ at'[a] \notin Run!Waiting
      /\ at'[a] \in OnTask <=> at[a] \in OnTask
      /\ \A b \in Agent \ {a} : at'[b] = at[b]
  BY DEF Execute, Wake, Start, Run!Executed, Run!Wake, Run!Start, Run!Move, Run!Waiting,
         SwarmTypeOK, Run!AgentTypeOK, OnTask
<1>3. \A r \in Thread : call[r] # <<a, "loop">>
  BY <1>2 DEF CallsSound, LoopCalls, LoopCall, Awaited, Run!Waiting
<1>4. FreeHands' /\ OneCall' /\ BeatCalls'
  BY <1>1, <1>2 DEF CallsSound, FreeHands, OneCall, BeatCalls, vars
<1>5. LoopCalls'
  BY <1>1, <1>2, <1>3 DEF CallsSound, LoopCalls, LoopCall, Awaited, vars
<1>6. Reporters' /\ RefusedWhenGone'
  BY <1>1 DEF CallsSound, Reporters, RefusedWhenGone, Unborn, vars
<1>7. Held'
  BY <1>1 DEF Held, Holds, Spent, vars
<1> QED
  BY <1>4, <1>5, <1>6, <1>7 DEF CallsSound

(* The agents fail between tasks only; the thread of heartbeats may fail.   *)
FailsBetweenTasks == FailAt \cap OnTask = {} /\ CrashAt \cap OnTask = {}

LEMMA FailureKeepsCalls ==
    ASSUME SInv, CallsSound, Held, FailsBetweenTasks, NEW a \in Agent, Failure(a)
    PROVE  CallsSound' /\ Held'
<1> USE DEF SInv
<1>1. CASE CallFails(a) \/ Crash(a)
  <2>1. /\ at[a] \notin OnTask /\ StopWaiting(a) /\ UNCHANGED vars
        /\ \E to \in {"sleep", "down"} : Run!Release(a, to)
    BY <1>1 DEF CallFails, Crash, Run!Fail, Run!Crash, FailsBetweenTasks
  <2>2. OnlyMoves(a)
    BY <2>1 DEF Run!Release, SwarmTypeOK, Run!AgentTypeOK, OnlyMoves
  <2>3. \A r \in Thread : call[r] = <<a, "loop">> => req[r].op \notin Reports
    BY <2>1 DEF CallsSound, LoopCalls, LoopCall, Awaited, OnTask, Heartbeats, Reports
  <2>4. \A t \in Task : ~Holds(a, t)
    BY <2>1, NoTaskAssumption DEF CallsSound, FreeHands, Holds
  <2>5. CallsSound'
    BY <2>1, <2>2, <2>3, CallsLeft DEF vars
  <2>6. Held'
    BY <2>1, <2>2, <2>4, HeldLeft DEF vars
  <2> QED
    BY <2>5, <2>6
<1>2. CASE BeatFails(a)
  <2>1. UNCHANGED <<vars, at, job>>
    BY <1>2 DEF BeatFails, Run!BeatFails, Run!SetBeat
  <2>2. \A b \in Agent, r \in Thread :
           /\ call'[r] = <<b, "loop">> <=> call[r] = <<b, "loop">>
           /\ call'[r] = <<b, "beat">> => call[r] = <<b, "beat">>
    BY <1>2, NoCallerAssumption DEF BeatFails
  <2>3. FreeHands' /\ OneCall' /\ BeatCalls'
    BY <2>1, <2>2 DEF CallsSound, FreeHands, OneCall, BeatCalls, vars
  <2>4. LoopCalls'
    BY <2>1, <2>2 DEF CallsSound, LoopCalls, LoopCall, Awaited, vars
  <2>5. Reporters' /\ RefusedWhenGone'
    BY <2>1, <2>2 DEF CallsSound, Reporters, RefusedWhenGone, Unborn, vars
  <2>6. Held'
    <3>1. \A r \in Thread : Spent(r)' <=> Spent(r)
      BY <2>1 DEF Spent, vars
    <3>2. \A b \in Agent, t \in Task : Holds(b, t) => Holds(b, t)'
      BY <2>1, <2>2, <3>1 DEF Holds
    <3> QED
      BY <2>1, <3>2 DEF Held, vars
  <2> QED
    BY <2>3, <2>4, <2>5, <2>6 DEF CallsSound
<1> QED
  BY <1>1, <1>2 DEF Failure

LEMMA WInitial == SwarmInit => WInv
<1> SUFFICES ASSUME SwarmInit
             PROVE  WInv
  OBVIOUS
<1>1. SInv
  BY SInitial
<1>2. /\ \A a \in Agent : job[a] = NoTask
      /\ \A s \in Thread : call[s] = NoCaller /\ req[s].op = "none"
      /\ \A t \in Task : tasks[t].status = "NONE"
  BY SessionAssumption DEF SwarmInit, Run!AgentInit, Init, NoRequest, NoTaskRow
<1>3. CallsSound
  <2>1. \A a \in Agent, s \in Thread : call[s] # <<a, "loop">> /\ call[s] # <<a, "beat">>
    <3>1. \A a \in Agent : NoCaller # <<a, "loop">> /\ NoCaller # <<a, "beat">>
      BY NoCallerAssumption
    <3> QED
      BY <1>2, <3>1
  <2>2. FreeHands /\ LoopCalls /\ OneCall /\ BeatCalls
    BY <1>2, <2>1 DEF FreeHands, LoopCalls, OneCall, BeatCalls
  <2>3. Reporters /\ RefusedWhenGone
    BY <1>2 DEF Reporters, RefusedWhenGone, Reports
  <2> QED
    BY <2>2, <2>3 DEF CallsSound
<1>4. Held
  BY <1>2 DEF Held, Progress
<1> QED
  BY <1>1, <1>3, <1>4 DEF WInv

LEMMA WPreserved ==
    ASSUME FailsBetweenTasks, WInv, [SwarmNext]_swarmVars
    PROVE  WInv'
<1> USE DEF WInv
<1>1. SInv' /\ [Next]_vars
  BY SPreserved, MasterSteps
<1>2. CASE Clients
  BY <1>1, <1>2, ClientsKeepCalls
<1>3. ASSUME NEW a \in Agent, RunLoop(a) \/ BeatThread(a) \/ Start(a) \/ Failure(a)
      PROVE  CallsSound' /\ Held'
  <2>1. ASSUME NEW s \in Thread, ReceiveBeat(a, s)
        PROVE  CallsSound' /\ Held'
    <3>1. /\ call'[s] = NoCaller
          /\ \A r \in Thread \ {s} : call'[r] = call[r]
      BY <2>1 DEF ReceiveBeat, SInv, SwarmTypeOK
    <3>2. Respond(s) /\ UNCHANGED <<at, job>>
      BY <2>1 DEF ReceiveBeat, Run!BeatAnswered, Run!BeatFails, Run!SetBeat
    <3> QED
      BY <3>1, <3>2, RespondKeepsCalls
  <2> QED
    BY <1>3, <2>1, CallKeepsCalls, CallBeatKeepsCalls, ReceiveKeepsCalls, AloneKeepsCalls,
       FailureKeepsCalls
    DEF RunLoop, BeatThread
<1>4. ASSUME NEW s \in Thread, Unheard(s)
      PROVE  CallsSound' /\ Held'
  BY <1>4, RespondKeepsCalls DEF Unheard, agentVars
<1>5. ASSUME NEW s \in Thread, Worker(s)
      PROVE  CallsSound' /\ Held'
  BY <1>1, <1>5, CallsServed, HeldServed DEF Worker
<1>6. CASE Background
  BY <1>1, <1>6, CallsServed, HeldServed DEF Background, Serve
<1>7. CASE UNCHANGED <<tasks, pc, req, orm, agentVars, call>>
  <2>1. FreeHands' /\ LoopCalls' /\ OneCall' /\ BeatCalls'
    BY <1>7 DEF CallsSound, FreeHands, LoopCalls, LoopCall, Awaited, OneCall, BeatCalls,
                agentVars
  <2>2. Reporters' /\ RefusedWhenGone'
    BY <1>7 DEF CallsSound, Reporters, RefusedWhenGone, Unborn
  <2>3. Held'
    BY <1>7 DEF Held, Holds, Spent, agentVars
  <2> QED
    BY <1>1, <2>1, <2>2, <2>3 DEF CallsSound
<1>8. ASSUME NEW h \in Host, Lapse(h)
      PROVE  UNCHANGED <<tasks, pc, req, orm, agentVars, call>>
  BY <1>8 DEF Lapse, Expire
<1>9. CASE UNCHANGED swarmVars
  BY <1>7, <1>9 DEF swarmVars, vars
<1> QED
  BY <1>1, <1>2, <1>3, <1>4, <1>5, <1>6, <1>7, <1>8, <1>9 DEF SwarmNext, Smooth

(* As long as agents fail between their tasks only, what the master records  *)
(* as building or running is in the hands of an agent, with any number of    *)
(* agents, hosts and workers: a BUILDING or RUNNING that is written late is  *)
(* written for an agent that still waits for it (reporter.py waits for each *)
(* response before run_loop goes on).                                       *)
THEOREM WorkStaysInHand == ASSUME FailsBetweenTasks
                           PROVE  SwarmSpec => []WorkIsHeld
<1>1. WInv /\ [SwarmNext]_swarmVars => WInv'
  BY WPreserved
<1>2. WInv => WorkIsHeld
  BY DEF WInv, Held, Holds, WorkIsHeld
<1> QED
  BY WInitial, <1>1, <1>2, PTL DEF SwarmSpec
=============================================================================
