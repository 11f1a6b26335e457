-------------------------------- MODULE Demo --------------------------------
(***************************************************************************)
(* The demo runner (src/demo/runner.py): it starts the master and the        *)
(* agents as processes of its own, serves the dashboard, and stops them all  *)
(* when it ends or gets SIGINT or SIGTERM.  The handler of the signals, which *)
(* is also what is called at the end, runs between any two steps of the      *)
(* program and of itself.                                                   *)
(***************************************************************************)
EXTENDS Integers, Sequences

CONSTANTS AGENT_COUNT,
          MaxSignals     \* bound on the signals in a behaviour

ASSUME AgentCountAssumption == AGENT_COUNT \in Nat \ {0}
ASSUME SignalAssumption == MaxSignals \in Nat

Process == 1 .. AGENT_COUNT + 1     \* the master is the first

VARIABLES process,   \* what has become of each process
          procs,     \* the length of the list of them
          main,      \* where main is, and the process it starts
          cleanup,   \* the calls of _cleanup, the innermost first
          running,
          signals

vars == <<process, procs, main, cleanup, running, signals>>

Place == [at : {"start", "append", "wait for master", "bind", "loop", "handle",
                "leave", "returned", "raised"}, next : Process]
Frame == [at : {"terminate", "wait"}, next : 1 .. AGENT_COUNT + 2]

DemoTypeOK ==
    /\ process \in [Process -> {"none", "alive", "asked", "killed", "ended"}]
    /\ procs \in 0 .. AGENT_COUNT + 1
    /\ main \in Place
    /\ cleanup \in Seq(Frame)
    /\ Len(cleanup) <= MaxSignals + 1
    /\ running \in BOOLEAN
    /\ signals \in 0 .. MaxSignals

Init == /\ process = [p \in Process |-> "none"]
        /\ procs = 0
        /\ main = [at |-> "start", next |-> 1]
        /\ cleanup = <<>>
        /\ running = TRUE
        /\ signals = 0

-----------------------------------------------------------------------------
(* _cleanup. *)

Call == /\ cleanup' = <<[at |-> "terminate", next |-> 1]>> \o cleanup
        /\ running' = FALSE

Signal == /\ signals < MaxSignals
          /\ main.at \notin {"returned", "raised"}
          /\ signals' = signals + 1
          /\ Call
          /\ UNCHANGED <<process, procs, main>>

(* The innermost call, in its loop "label" over the list, or through it.     *)
Turn(label) == cleanup # <<>> /\ cleanup[1].at = label /\ cleanup[1].next <= procs
Through(label) == cleanup # <<>> /\ cleanup[1].at = label /\ cleanup[1].next > procs
GoesOn(calls) == cleanup' = calls /\ UNCHANGED <<procs, main, running, signals>>
Advance == GoesOn([cleanup EXCEPT ![1].next = cleanup[1].next + 1])

Terminate == /\ Turn("terminate")
             /\ process' = [process EXCEPT
                  ![cleanup[1].next] = IF @ = "alive" THEN "asked" ELSE @]
             /\ Advance

AllTerminated == /\ Through("terminate")
                 /\ GoesOn([cleanup EXCEPT ![1] = [at |-> "wait", next |-> 1]])
                 /\ UNCHANGED process

Waited == /\ Turn("wait")
          /\ process[cleanup[1].next] = "ended"
          /\ Advance /\ UNCHANGED process

(* Faulty, gives up. *)
WaitedInVain == /\ Turn("wait")
                /\ process[cleanup[1].next] # "ended"
                /\ Advance /\ UNCHANGED process

Kill == /\ Turn("wait")
        /\ process[cleanup[1].next] # "ended"
        /\ process' = [process EXCEPT ![cleanup[1].next] = "killed"]
        /\ Advance

Back == Through("wait") /\ GoesOn(Tail(cleanup)) /\ UNCHANGED process

Cleanup == Terminate \/ AllTerminated \/ Waited \/ Kill \/ Back

-----------------------------------------------------------------------------
(* main, which stands still while a handler runs. *)

Step(from, to) == cleanup = <<>> /\ main.at = from /\ main' = to
At(label) == [main EXCEPT !.at = label]
Following == IF main.next = AGENT_COUNT + 1 THEN At("bind")
             ELSE [at |-> "start", next |-> main.next + 1]
NoCall == UNCHANGED <<cleanup, running, signals>>
Alone == NoCall /\ UNCHANGED <<process, procs>>

Start == /\ Step("start", At("append"))
         /\ process' = [process EXCEPT ![main.next] = "alive"]
         /\ UNCHANGED procs /\ NoCall

(* Faulty, there is one agent too many. *)
EnlistOneMore == /\ Step("append", IF main.next = 1 THEN At("wait for master") ELSE Following)
                 /\ procs' = main.next + 1
                 /\ UNCHANGED process /\ NoCall

Enlist == /\ Step("append", IF main.next = 1 THEN At("wait for master") ELSE Following)
          /\ procs' = main.next
          /\ UNCHANGED process /\ NoCall

(* _wait_for_master: whatever answers on the port is taken for the master.   *)
MasterReady == Step("wait for master", Following) /\ Alone

MasterFailed == /\ Step("wait for master", At("leave"))
                /\ Call /\ UNCHANGED <<process, procs, signals>>

(* The port of the dashboard is bound outside the "try", and the log of an   *)
(* agent is opened there.                                                   *)
Bind == Step("bind", At("loop")) /\ Alone

Raise == /\ \/ Step("bind", At("raised"))
            \/ main.next > 1 /\ Step("start", At("raised"))
         /\ Alone

(* handle_request comes back with the next request only, whatever the        *)
(* handlers of signals do meanwhile.                                        *)
Handle == running /\ Step("loop", At("handle")) /\ Alone
Handled == Step("handle", At("loop")) /\ Alone

(* Faulty, leaves the processes to the handler of the signal. *)
JustLeave == ~running /\ Step("loop", At("leave")) /\ Alone

Leave == /\ ~running /\ Step("loop", At("leave"))
         /\ Call /\ UNCHANGED <<process, procs, signals>>

Return == Step("leave", At("returned")) /\ Alone

Main == \/ Start \/ Enlist \/ MasterReady \/ MasterFailed
        \/ Bind \/ Raise \/ Handle \/ Leave \/ Return

-----------------------------------------------------------------------------
(* A process ends by itself, by the signal that it is sent or the one that   *)
(* the terminal sends to all; nothing but being killed makes it.            *)
Ends == \E p \in Process : /\ process[p] \in {"alive", "asked", "killed"}
                           /\ process' = [process EXCEPT ![p] = "ended"]
                           /\ UNCHANGED <<procs, main, cleanup, running, signals>>

KilledEnds == Ends /\ \E p \in Process : process[p] = "killed" /\ process'[p] = "ended"

Next == Signal \/ Cleanup \/ Main \/ Handled \/ Ends

(* The program goes on, except for the next request, which may never come.   *)
Spec == /\ Init /\ [][Next]_vars
        /\ WF_vars(Cleanup) /\ WF_vars(Main) /\ WF_vars(KilledEnds)

-----------------------------------------------------------------------------
(* main returns only when every process it has started has ended or been     *)
(* killed, also those that it started after a signal.                       *)
ReturnsAlone ==
    main.at = "returned" =>
        \A p \in Process : process[p] \in {"none", "killed", "ended"}

(* After a signal nothing is left running in the end, whatever the signal    *)
(* has interrupted - the start of a process that is not in the list yet,     *)
(* another cleanup - and although main itself may wait for a request for     *)
(* ever.  It is when main raises, which ends no process.                    *)
SignalStopsAll ==
    <>[](\/ signals = 0
         \/ main.at = "raised"
         \/ \A p \in Process : process[p] \in {"none", "ended"})
=============================================================================
