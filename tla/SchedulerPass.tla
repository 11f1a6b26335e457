--------------------------- MODULE SchedulerPass ---------------------------
(***************************************************************************)
(* One pass of schedule_pending_tasks (src/master/scheduler.py), alone: the *)
(* for loop over the pending tasks as a machine that handles one task per   *)
(* step, started with any rows the queries can have returned.               *)
(***************************************************************************)
EXTENDS Placement

CONSTANT ReadableRow    \* the host rows a query may return

ASSUME ReadableAssumption ==
    /\ ReadableRow \subseteq HostRow
    /\ \A row \in ReadableRow : row.cpu >= 0 /\ row.mem >= 0

VARIABLES rows,     \* the host rows as they were read
          queue,    \* the tasks that were read as PENDING
          view,     \* the rows as the pass has changed them
          todo,     \* the tasks the loop has still to look at
          placed,   \* the hosts it has chosen so far
          returned  \* whether it has returned

vars == <<rows, queue, view, todo, placed, returned>>

TypeOK == /\ rows \in [Host -> ReadableRow]
          /\ queue \subseteq Task
          /\ view \in [Host -> HostRow]
          /\ todo \subseteq queue
          /\ placed \in [Task -> Host \cup {NoHost}]
          /\ returned \in BOOLEAN

(* Faulty, without WHERE status = PENDING. *)
InitWithAllTasks == /\ rows \in [Host -> ReadableRow]
                    /\ queue \in SUBSET Task
                    /\ view = rows
                    /\ todo = Task
                    /\ placed = [t \in Task |-> NoHost]
                    /\ returned = FALSE

Init == /\ rows \in [Host -> ReadableRow]
        /\ queue \in SUBSET Task
        /\ view = rows
        /\ todo = queue
        /\ placed = [t \in Task |-> NoHost]
        /\ returned = FALSE

Place(t) == /\ ~returned
            /\ IsNext(t, todo)
            /\ \E h \in BestHosts(view, t) :
                  /\ placed' = [placed EXCEPT ![t] = h]
                  /\ view' = ChargeHost(view, h, t)
            /\ todo' = todo \ {t}
            /\ UNCHANGED <<rows, queue, returned>>

(* Faulty, "break" instead of "continue". *)
SkipTheRest(t) == /\ ~returned
                  /\ IsNext(t, todo)
                  /\ Candidates(view, t) = {}
                  /\ todo' = {}
                  /\ UNCHANGED <<rows, queue, view, placed, returned>>

(* "if not candidates: continue": the loop goes on to the tasks behind t. *)
Skip(t) == /\ ~returned
           /\ IsNext(t, todo)
           /\ Candidates(view, t) = {}
           /\ todo' = todo \ {t}
           /\ UNCHANGED <<rows, queue, view, placed, returned>>

Return == /\ ~returned
          /\ todo = {}
          /\ returned' = TRUE
          /\ UNCHANGED <<rows, queue, view, todo, placed>>

Next == \/ \E t \in Task : Place(t) \/ Skip(t)
        \/ Return

Spec == Init /\ [][Next]_vars

-----------------------------------------------------------------------------
(* No deduction takes a host below zero: what a pass promises to the tasks  *)
(* it places on one host fits there together.                               *)
NeverOverdrawn == \A h \in Host : view[h].cpu >= 0 /\ view[h].mem >= 0

(* A task the loop has passed over fits on no host, neither then nor after  *)
(* the tasks behind it are placed: the pass never leaves room unused.       *)
NothingLeftFits ==
    \A t \in queue \ todo :
        placed[t] = NoHost => \A h \in Host : ~Eligible(view[h], t)

(* Only rows read as ONLINE with a fresh heartbeat receive tasks, and only  *)
(* tasks that were read as PENDING are placed.                              *)
PlacedWhereAlive ==
    \A t \in Task : placed[t] # NoHost =>
        /\ t \in queue \ todo
        /\ rows[placed[t]].status = "ONLINE"
        /\ rows[placed[t]].fresh

(* The loop delivers the result that PassResult describes without it.       *)
Result == INSTANCE PassResult
          WITH result <- IF returned THEN placed
                                     ELSE [t \in Task |-> NoHost]

ImplementsPassResult == Result!PassSpec
=============================================================================
