-------------------------------- MODULE Agent --------------------------------
(***************************************************************************)
(* The agents of src/agent: run_loop with its calls to the master, and the  *)
(* thread that sends heartbeats while a task executes.  An action changes   *)
(* the state of one agent; what the master does in the same step is joined  *)
(* by the module that composes the two.                                     *)
(*                                                                         *)
(* A call has two states, before it is sent and while its answer is         *)
(* outstanding.  The host id is in memory and in a file, written in the     *)
(* same step, so a crash keeps it.                                          *)
(***************************************************************************)
CONSTANTS Agent, Host, NoHost, Task, NoTask

VARIABLES at,       \* where run_loop is
          id,       \* host_id
          job,      \* assigned_task
          outcome,  \* status and exit code of the ExecutionResult
          beat      \* the heartbeat thread of the task

agentVars == <<at, id, job, outcome, beat>>

Sending == {"poll", "accept", "report", "upload"}
Waiting == {"polling", "accepting", "reporting", "uploading"}

AgentTypeOK == /\ at \in [Agent -> Sending \cup Waiting \cup
                                    {"execute", "sleep", "down"}]
               /\ id \in [Agent -> Host \cup {NoHost}]
               /\ job \in [Agent -> Task \cup {NoTask}]
               /\ beat \in [Agent -> {"off", "on", "posting", "dead"}]

NoOutcome == <<"none", "null">>

AgentInit == /\ at = [a \in Agent |-> "poll"]
             /\ id = [a \in Agent |-> NoHost]
             /\ job = [a \in Agent |-> NoTask]
             /\ outcome = [a \in Agent |-> NoOutcome]
             /\ beat = [a \in Agent |-> "off"]

Move(a, from, to) == at[a] = from /\ at' = [at EXCEPT ![a] = to]

(* run_loop sends the next call and waits for its answer.                   *)
Send(a) == /\ \/ Move(a, "poll", "polling")
              \/ Move(a, "accept", "accepting")
              \/ Move(a, "report", "reporting")
              \/ Move(a, "upload", "uploading")
           /\ UNCHANGED <<id, job, outcome, beat>>

(* Faulty, swaps the two. *)
PolledSwapped(a, h, t) ==
    /\ Move(a, "polling", IF t = NoTask THEN "sleep" ELSE "accept")
    /\ id' = [id EXCEPT ![a] = t]
    /\ job' = [job EXCEPT ![a] = h]
    /\ UNCHANGED <<outcome, beat>>

(* The heartbeat is answered: an id, and a task or none.                    *)
Polled(a, h, t) == /\ Move(a, "polling", IF t = NoTask THEN "sleep" ELSE "accept")
                   /\ id' = [id EXCEPT ![a] = h]
                   /\ job' = [job EXCEPT ![a] = t]
                   /\ UNCHANGED <<outcome, beat>>

(* BUILDING is recorded: the heartbeat thread starts, then execute_task.    *)
Accepted(a) == /\ Move(a, "accepting", "execute")
               /\ beat' = [beat EXCEPT ![a] = "on"]
               /\ UNCHANGED <<id, job, outcome>>

(* execute_task returns.  RUNNING is reported only now, and not for an      *)
(* error without exit code, unless the text of its exception is empty.      *)
Executed(a, o) == /\ \/ Move(a, "execute", "report")
                     \/ o = <<"FAILED", "null">> /\ Move(a, "execute", "upload")
                  /\ outcome' = [outcome EXCEPT ![a] = o]
                  /\ UNCHANGED <<id, job, beat>>

(* "finally": the thread is told to stop, and the task is forgotten.        *)
Release(a, to) == /\ at' = [at EXCEPT ![a] = to]
                  /\ job' = [job EXCEPT ![a] = NoTask]
                  /\ outcome' = [outcome EXCEPT ![a] = NoOutcome]
                  /\ beat' = [beat EXCEPT ![a] = "off"]
                  /\ UNCHANGED id

(* Faulty, drops the result. *)
RunningReportedOnly(a) == at[a] = "reporting" /\ Release(a, "sleep")

RunningReported(a) == /\ Move(a, "reporting", "upload")
                      /\ UNCHANGED <<id, job, outcome, beat>>

Uploaded(a) == at[a] = "uploading" /\ Release(a, "sleep")

(* The answer to the call of run_loop. *)
Answered(a, h, t) == \/ Polled(a, h, t) \/ Accepted(a)
                     \/ RunningReported(a) \/ Uploaded(a)

(* Faulty, a call without a timeout. *)
FailUnnoticed(a) == at[a] \in Waiting /\ UNCHANGED agentVars

(* "except Exception": a call fails or is not answered in time, or          *)
(* execute_task raises.  The loop goes on and does not repeat it.           *)
Fail(a) == /\ at[a] \in Sending \cup Waiting \cup {"execute"}
           /\ Release(a, "sleep")

Wake(a) == Move(a, "sleep", "poll") /\ UNCHANGED <<id, job, outcome, beat>>

Crash(a) == at[a] # "down" /\ Release(a, "down")

Start(a) == Move(a, "down", "poll") /\ UNCHANGED <<id, job, outcome, beat>>

(* The heartbeat thread.  An exception ends it, not the task; the task that *)
(* a response may carry is ignored.                                         *)
SetBeat(a, from, to) == /\ beat[a] = from
                        /\ beat' = [beat EXCEPT ![a] = to]
                        /\ UNCHANGED <<at, id, job, outcome>>

SendBeat(a) == SetBeat(a, "on", "posting")
BeatAnswered(a) == SetBeat(a, "posting", "on")
BeatFails(a) == SetBeat(a, "posting", "dead")
=============================================================================
