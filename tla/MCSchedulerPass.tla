-------------------------- MODULE MCSchedulerPass --------------------------
(* Three pending tasks of mixed priority and limits, two hosts with up to   *)
(* three units of each resource.                                            *)
EXTENDS SchedulerPass

CONSTANTS h1, h2

MCHost == {h1, h2}
MCTask == 1..3

(* The last task goes first; the other two are ordered by their age. *)
MCPriority == [t \in MCTask |-> IF t = 3 THEN 1 ELSE 10]

MCCpuLimit == [t \in MCTask |-> CASE t = 1 -> 2 [] t = 2 -> 1 [] t = 3 -> NoLimit]
MCMemLimit == [t \in MCTask |-> CASE t = 1 -> NoLimit [] t = 2 -> 1 [] t = 3 -> 2]

MCReadableRow ==
    {NoHostRow} \cup
    [status : HostStatus, fresh : BOOLEAN, cpu : 0..3, mem : 0..3]
=============================================================================
