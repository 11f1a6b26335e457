----------------------------- MODULE PassResult -----------------------------
(***************************************************************************)
(* What one pass of schedule_pending_tasks (src/master/scheduler.py)        *)
(* promises, stated without its loop: every pending task, against what is   *)
(* left of the hosts once the tasks ahead of it in the queue have theirs,   *)
(* gets a best fitting host, or none when none fits.                        *)
(*                                                                         *)
(* The specification delivers such a result in one step.                    *)
(***************************************************************************)
EXTENDS Placement, Functions

VARIABLES rows,     \* the host rows the pass has read
          queue,    \* the PENDING tasks it has read
          result,   \* task -> host, nothing before the pass has returned
          returned  \* whether it has

CpuDemand == [t \in Task |-> Demand(CpuLimit[t])]
MemDemand == [t \in Task |-> Demand(MemLimit[t])]

(* What the tasks of S leave of the hosts they were placed on.              *)
Left(S, placed) ==
    [h \in Host |->
        LET given == {t \in S : placed[t] = h}
        IN  [rows[h] EXCEPT !.cpu = @ - SumFunctionOnSet(CpuDemand, given),
                            !.mem = @ - SumFunctionOnSet(MemDemand, given)]]

Ahead(t) == {u \in queue : Before(u, t)}

FitsBest(placed, t) ==
    LET left == Left(Ahead(t), placed)
    IN  IF Candidates(left, t) = {} THEN placed[t] = NoHost
                                    ELSE placed[t] \in BestHosts(left, t)

IsResult(placed) ==
    \A t \in Task : IF t \in queue THEN FitsBest(placed, t)
                                   ELSE placed[t] = NoHost

PassInit == /\ rows \in [Host -> HostRow]
            /\ queue \in SUBSET Task
            /\ result = [t \in Task |-> NoHost]
            /\ returned = FALSE

Deliver == /\ ~returned
           /\ returned' = TRUE
           /\ result' \in {placed \in [Task -> Host \cup {NoHost}] :
                              IsResult(placed)}
           /\ UNCHANGED <<rows, queue>>

PassSpec == PassInit /\ [][Deliver]_<<rows, queue, result, returned>>
=============================================================================
