----------------------------- MODULE Placement -----------------------------
(***************************************************************************)
(* The rules of src/master/scheduler.py by which one pass of               *)
(* schedule_pending_tasks picks the next task and its host.                *)
(*                                                                         *)
(* A view is what the pass holds in memory: for every host the row it has  *)
(* read, [status, fresh, cpu, mem].  "fresh" stands for the comparison     *)
(* last_heartbeat >= now - heartbeat_timeout_seconds, cpu and mem for      *)
(* cpu_available and memory_available_mb in whole units.  A host that has  *)
(* no row has status "NONE".  Tasks are numbered in the order of their     *)
(* created_at; what a client submits with a task never changes afterwards, *)
(* so priority and limits are functions of the task.                       *)
(***************************************************************************)
EXTENDS Integers

CONSTANTS Host,       \* identifiers of host rows
          NoHost,     \* NULL in assigned_host_id
          Task,       \* identifiers of task rows, in the order of creation
          NoLimit,    \* NULL in cpu_limit and memory_limit_mb
          Priority,   \* Task -> priority, the smallest goes first
          CpuLimit,   \* Task -> cpu_limit
          MemLimit    \* Task -> memory_limit_mb

ASSUME HostAssumption == NoHost \notin Host
ASSUME TaskAssumption == Task \subseteq Nat
ASSUME PriorityAssumption == Priority \in [Task -> Int]
ASSUME LimitAssumption == /\ NoLimit \notin Nat
                          /\ CpuLimit \in [Task -> Nat \cup {NoLimit}]
                          /\ MemLimit \in [Task -> Nat \cup {NoLimit}]

HostStatus == {"ONLINE", "OFFLINE"}

HostRow == [status : HostStatus \cup {"NONE"}, fresh : BOOLEAN,
            cpu : Int, mem : Int]

NoHostRow == [status |-> "NONE", fresh |-> FALSE, cpu |-> 0, mem |-> 0]

-----------------------------------------------------------------------------
(* _is_host_eligible, _host_score and min() over the candidates. *)

(* Faulty, off by one. *)
EnoughButOne(available, limit) == limit = NoLimit \/ available + 1 >= limit

Enough(available, limit) == limit = NoLimit \/ available >= limit

(* Faulty, trusts the status column alone. *)
EligibleThoughStale(row, t) == /\ row.status = "ONLINE"
                               /\ Enough(row.cpu, CpuLimit[t])
                               /\ Enough(row.mem, MemLimit[t])

Eligible(row, t) == /\ row.status = "ONLINE"
                    /\ row.fresh
                    /\ Enough(row.cpu, CpuLimit[t])
                    /\ Enough(row.mem, MemLimit[t])

Demand(limit) == IF limit = NoLimit THEN 0 ELSE limit

Score(row, t) == [cpu |-> row.cpu - Demand(CpuLimit[t]),
                  mem |-> row.mem - Demand(MemLimit[t])]

NoHigher(a, b) == \/ a.cpu < b.cpu
                  \/ a.cpu = b.cpu /\ a.mem <= b.mem

Candidates(view, t) == {h \in Host : Eligible(view[h], t)}

(* Several hosts may share the lowest score: min() keeps the first one the  *)
(* query returned, and the query has no ORDER BY.                           *)
BestHosts(view, t) ==
    {h \in Candidates(view, t) :
        \A g \in Candidates(view, t) :
            NoHigher(Score(view[h], t), Score(view[g], t))}

(* The deduction of the limits from the chosen host, in memory. *)
Charged(row, t) == [row EXCEPT !.cpu = row.cpu - Demand(CpuLimit[t]),
                               !.mem = row.mem - Demand(MemLimit[t])]

ChargeHost(view, h, t) == [view EXCEPT ![h] = Charged(view[h], t)]

-----------------------------------------------------------------------------
(* ORDER BY priority, created_at. *)

Before(t, u) == \/ Priority[t] < Priority[u]
                \/ Priority[t] = Priority[u] /\ t < u

(* Faulty, forgets the priority. *)
IsOldest(t, todo) == t \in todo /\ \A u \in todo \ {t} : t < u

IsNext(t, todo) == /\ t \in todo
                   /\ \A u \in todo \ {t} : Before(t, u)
=============================================================================
