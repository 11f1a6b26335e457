----------------------------- MODULE MCExecution -----------------------------
EXTENDS Execution, FiniteSets

CONSTANTS a1, a2

TwoAgents == {a1, a2}
TwoFiles == {1, 2}

(* Bounds: the agents are alike, so a1 is the first to get the task.  Nobody  *)
(* removes the container of at most one of the executions.  The second file  *)
(* is for the two executions of one agent; the third execution comes on a1   *)
(* when the result of the first is through and every container is removed.   *)
OneFileOnly == \A f \in File \ {1} : store[f] = 0 /\ \A a \in Agent : disk[a][f] = 0
ThirdResult == runs = <<a1, a1, a1>> /\ left = {} /\ put[1].pc = "over"

Bounds == /\ runs # <<>> => runs[1] = a1
          /\ Cardinality(left) <= 1
          /\ runs \notin {<<>>, <<a1>>, <<a1, a1>>} => OneFileOnly
          /\ Len(runs) = 3 => ThirdResult

MCNext == Next /\ Bounds'

MCSpec == Init /\ [][MCNext]_vars /\ \A a \in Agent : WF_vars(Execute(a))
=============================================================================
