-------------------------------- MODULE Swarm --------------------------------
(***************************************************************************)
(* The whole system: the master of Master, the agents of Agent, and clients *)
(* that submit and cancel tasks.  A call is taken up by an idle worker of   *)
(* the master, executed there statement by statement, and its answer moves  *)
(* the agent on that is still waiting for it.                               *)
(*                                                                         *)
(* Workers are alike, so the first idle one takes a request.                *)
(***************************************************************************)
EXTENDS Master

CONSTANTS Agent,
          NoCaller,
          Cancellable,  \* the tasks that clients may try to cancel or delete
          FailAt,       \* states of run_loop in which a call may fail, or
                        \* execute_task raise, beside what the master answers
          CrashAt,      \* states of run_loop in which an agent may crash
          Restarting,   \* the agents that are started again after a crash
          Slow          \* the statements that a lapse may find under way

ASSUME ThreadAssumption == Thread \subseteq Nat
ASSUME CancellableAssumption == Cancellable \subseteq Task
ASSUME NoCallerAssumption == NoCaller \notin Agent \X {"loop", "beat"}

VARIABLES at, id, job, outcome, beat,
          call          \* for each worker, who waits for its response

Run == INSTANCE Agent

agentVars == <<at, id, job, outcome, beat>>
swarmVars == <<vars, agentVars, call>>

Caller == Agent \X {"loop", "beat"}

SwarmTypeOK == /\ Run!AgentTypeOK
               /\ outcome \in [Agent -> Reported \cup {Run!NoOutcome}]
               /\ call \in [Thread -> Caller \cup {NoCaller}]

SwarmInit == /\ Init
             /\ Run!AgentInit
             /\ call = [s \in Thread |-> NoCaller]

FirstIdle(s) == pc[s] = "idle" /\ \A r \in Thread : r < s => pc[r] # "idle"

-----------------------------------------------------------------------------
(* Clients.  Nobody waits for their answers. *)

Submit(t, s) == /\ FirstIdle(s)
                /\ BeginCreate(s, t)
                /\ UNCHANGED <<agentVars, call>>

Cancel(t, s) == /\ FirstIdle(s)
                /\ BeginDelete(s, t)
                /\ UNCHANGED <<agentVars, call>>

-----------------------------------------------------------------------------
(* Calls of the agents (reporter.py) and what they make of the answers. *)

Report(a, s) ==
    \E cpu \in CpuReport, m \in MemReport :
        IF id[a] = NoHost THEN \E h \in Host : BeginRegister(s, h, cpu, m)
                          ELSE BeginHeartbeat(s, id[a], cpu, m)

Message(a, s) ==
    CASE at[a] = "poll"   -> Report(a, s)
      [] at[a] = "accept" -> BeginStatus(s, job[a], "BUILDING")
      [] at[a] = "report" -> BeginStatus(s, job[a], "RUNNING")
      [] at[a] = "upload" -> BeginResult(s, job[a], outcome[a])

Call(a, s) == /\ FirstIdle(s)
              /\ Run!Send(a)
              /\ Message(a, s)
              /\ call' = [call EXCEPT ![s] = <<a, "loop">>]

CallBeat(a, s) == /\ FirstIdle(s)
                  /\ Run!SendBeat(a)
                  /\ Report(a, s)
                  /\ call' = [call EXCEPT ![s] = <<a, "beat">>]

(* Calls whose caller has stopped waiting are carried out all the same. *)
StopWaiting(a) ==
    call' = [s \in Thread |->
                IF \/ call[s] = <<a, "loop">>
                   \/ call[s] = <<a, "beat">> /\ beat'[a] = "off"
                THEN NoCaller ELSE call[s]]

Receive(a, s) == /\ call[s] = <<a, "loop">>
                 /\ Respond(s)
                 /\ IF pc[s] = "reply"
                    THEN Run!Answered(a, req[s].host, req[s].task)
                    ELSE Run!Fail(a)
                 /\ StopWaiting(a)

ReceiveBeat(a, s) == /\ call[s] = <<a, "beat">>
                     /\ Respond(s)
                     /\ IF pc[s] = "reply" THEN Run!BeatAnswered(a)
                                           ELSE Run!BeatFails(a)
                     /\ call' = [call EXCEPT ![s] = NoCaller]

Unheard(s) == /\ call[s] = NoCaller
              /\ Respond(s)
              /\ UNCHANGED <<agentVars, call>>

-----------------------------------------------------------------------------
(* Steps of an agent by itself. *)

Execute(a) == /\ \E o \in Reported : Run!Executed(a, o)
              /\ UNCHANGED <<vars, call>>

Wake(a) == Run!Wake(a) /\ UNCHANGED <<vars, call>>

CallFails(a) == /\ at[a] \in FailAt
                /\ Run!Fail(a)
                /\ StopWaiting(a)
                /\ UNCHANGED vars

BeatFails(a) == /\ "beat" \in FailAt
                /\ Run!BeatFails(a)
                /\ call' = [s \in Thread |-> IF call[s] = <<a, "beat">> THEN NoCaller
                                                                  ELSE call[s]]
                /\ UNCHANGED vars

Crash(a) == /\ at[a] \in CrashAt
            /\ Run!Crash(a)
            /\ StopWaiting(a)
            /\ UNCHANGED vars

Start(a) == a \in Restarting /\ Run!Start(a) /\ UNCHANGED <<vars, call>>

(* Heartbeats come every five seconds, a host lapses after fifteen: only    *)
(* when nobody reports for it any more.                                     *)
Silent(h) == /\ \A a \in Agent : id[a] = h => at[a] = "down" \/ beat[a] = "dead"
             /\ \A s \in Thread : req[s].host = h => call[s] = NoCaller

(* Handlers take milliseconds; but one may still begin just before the       *)
(* fifteen seconds are over.                                                *)
Between == {"idle", "reply", "error", "sleep", "dead"}

Lapse(h) == /\ Silent(h)
            /\ \A s \in Session : pc[s] \in Between \cup Slow
            /\ Expire(h)
            /\ UNCHANGED <<agentVars, call>>

-----------------------------------------------------------------------------
Clients == \E s \in Thread : \/ \E t \in Task : Submit(t, s)
                             \/ \E t \in Cancellable : Cancel(t, s)

RunLoop(a) == \/ \E s \in Thread : Call(a, s) \/ Receive(a, s)
              \/ Execute(a) \/ Wake(a)

BeatThread(a) == \E s \in Thread : CallBeat(a, s) \/ ReceiveBeat(a, s)

Failure(a) == CallFails(a) \/ BeatFails(a) \/ Crash(a)

Worker(s) == Serve(s) /\ UNCHANGED <<agentVars, call>>

(* What is not delivered to a run_loop. *)
Delivery(s) == Unheard(s) \/ \E a \in Agent : ReceiveBeat(a, s)

Background == (LoopStep \/ Pass(Loop)) /\ UNCHANGED <<agentVars, call>>

Smooth == \/ Clients
          \/ \E a \in Agent : RunLoop(a) \/ BeatThread(a) \/ Start(a)
          \/ \E s \in Thread : Worker(s) \/ Unheard(s)
          \/ Background
          \/ \E h \in Host : Lapse(h)

SwarmNext == Smooth \/ \E a \in Agent : Failure(a)

(* Threads are scheduled, timers fire and containers end.  The event loop   *)
(* serves requests and responses between two rounds of the background loop, *)
(* which disables them again and again: hence strong fairness.              *)
Fairness == /\ \A a \in Agent : /\ SF_swarmVars(RunLoop(a))
                               /\ WF_swarmVars(Start(a))
            /\ \A s \in Thread : /\ WF_swarmVars(Worker(s))
                                /\ SF_swarmVars(Delivery(s))
            /\ WF_swarmVars(Background)
            /\ \A h \in Host : SF_swarmVars(Lapse(h))

SwarmSpec == SwarmInit /\ [][SwarmNext]_swarmVars

-----------------------------------------------------------------------------
(* Unless an agent fails at its task, what the master records as building or *)
(* running is in the hands of an agent, although reports pass the passes of  *)
(* heartbeats and the loop on their way into the table.  Not always of the   *)
(* host that the task names: of two passes that place the same task, the     *)
(* second to commit names its own host when the first one's has the task.    *)
WorkIsHeld == \A t \in Task : tasks[t].status \in Progress =>
                                 \E a \in Agent : job[a] = t

(* Every submitted task comes to an end; an agent that is gone for good does *)
(* not keep it (docs/master.md, section 8).                                 *)
EveryTaskEnds == \A t \in Task :
    tasks[t].status = "PENDING" ~> tasks[t].status \in Finished \cup {"DELETED"}
=============================================================================
