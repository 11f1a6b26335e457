----------------------------- MODULE Comparison -----------------------------
(***************************************************************************)
(* compare_runs of src/app/image_generation_case/workflow.py, asked for by   *)
(* the UI and the command line, beside the run of LocalRun and a swarm run   *)
(* that a refresh is just recording as COMPLETED.  It combines the metrics   *)
(* of a local run with those of the swarm run in the benchmark.json of the   *)
(* swarm run, and copies what it reads back there into that of the local     *)
(* run.  The refresh and the worker of the local run write the same files.   *)
(*                                                                         *)
(* The local run compared is "this", that of LocalRun, or any "other", which *)
(* has ended long ago.                                                      *)
(***************************************************************************)
EXTENDS LocalRun

CONSTANT Comparer    \* calls of compare_runs

VARIABLES compare,   \* the calls of compare_runs
          update,    \* _update_benchmark_if_possible of the refresh
          mixed      \* history: a file that a call was about to read back was
                     \* written over

comparisonVars == <<compare, update>>
allVars == <<vars, comparisonVars, mixed>>

NoMetrics == [local |-> "none", swarm |-> FALSE]
Waiting == [at |-> "read", local |-> "none", doc |-> NoMetrics]
ReadyToUpdate == [at |-> "read", doc |-> NoMetrics]
Updated == [ReadyToUpdate EXCEPT !.at = "gone"]
Over == [Waiting EXCEPT !.at = "gone"]

ComparisonInit ==
    /\ Init
    /\ compare = [c \in Comparer |-> Waiting]
    /\ update = ReadyToUpdate
    /\ mixed = FALSE

(* The call goes on in what it has read. *)
Turns(c, from, new) ==
    /\ compare[c].at = from
    /\ compare' = [compare EXCEPT ![c] = new]
    /\ UNCHANGED <<file, metrics, assets, worker, polls, origin, thread, crashes, update>>

(* The metrics of the swarm run may not be recorded yet; without those of    *)
(* the local run, or when their settings differ, it raises before it writes. *)
Read(c) == \E local \in {"this", "other"}, swarm \in BOOLEAN :
    /\ Turns(c, "read", [at |-> "open", local |-> local,
                         doc |-> [local |-> local, swarm |-> swarm]])
    /\ local = "this" => metrics = "whole"
    /\ UNCHANGED <<benchmark, shared>>

(* Faulty, takes the benchmark that is there already. *)
OpenSharedUnlessThere(c) ==
    /\ Turns(c, "open", [compare[c] EXCEPT !.at = IF shared \in Unreadable THEN "write"
                                                                         ELSE "read back"])
    /\ shared' = IF shared \in Unreadable THEN Empty ELSE shared
    /\ UNCHANGED benchmark

OpenShared(c) == /\ Turns(c, "open", [compare[c] EXCEPT !.at = "write"])
                 /\ shared' = Empty
                 /\ UNCHANGED benchmark

WriteShared(c) == /\ Turns(c, "write", [compare[c] EXCEPT !.at = "read back"])
                  /\ shared' \in AfterWrite(shared, compare[c].doc)
                  /\ UNCHANGED benchmark

(* What it reads back may be another comparison, or raise.                  *)
ReadBack(c) ==
    /\ Turns(c, "read back",
             IF HalfWritten(shared) \/ compare[c].local # "this"
             THEN Over
             ELSE [compare[c] EXCEPT !.at = "open copy", !.doc = shared])
    /\ UNCHANGED <<benchmark, shared>>

OpenCopy(c) == /\ Turns(c, "open copy", [compare[c] EXCEPT !.at = "write copy"])
               /\ benchmark' = Empty
               /\ UNCHANGED shared

WriteCopy(c) == /\ Turns(c, "write copy", Over)
                /\ benchmark' \in AfterWrite(benchmark, compare[c].doc)
                /\ UNCHANGED shared

GoesOn(c) == \/ OpenShared(c) \/ WriteShared(c)
             \/ ReadBack(c) \/ OpenCopy(c) \/ WriteCopy(c)

-----------------------------------------------------------------------------
(* The refresh keeps the local metrics it finds in the file.                *)
Updating(from, new) == /\ update.at = from
                       /\ update' = new
                       /\ UNCHANGED <<runVars, compare>>

ReadOld == /\ Updating("read",
              IF HalfWritten(shared) THEN Updated
              ELSE [at |-> "open",
                    doc |-> [local |-> IF shared = NoFile THEN "none" ELSE shared.local,
                             swarm |-> TRUE]])
           /\ UNCHANGED shared

OpenUpdate == /\ Updating("open", [update EXCEPT !.at = "write"])
              /\ shared' = Empty

WriteUpdate == /\ Updating("write", Updated)
               /\ shared' \in AfterWrite(shared, update.doc)

UpdateGoesOn == OpenUpdate \/ WriteUpdate

(* What the server was asked for dies with it; the rest runs on a command    *)
(* line.                                                                    *)
ComparisonCrash ==
    /\ ServerCrash
    /\ \E died \in SUBSET Comparer :
          compare' = [c \in Comparer |-> IF c \in died THEN Over ELSE compare[c]]
    /\ update' \in {update, Updated}

(* The file changes after a call has written and before it reads back.       *)
Overwrites == \E c \in Comparer :
    /\ compare[c].at = "read back" /\ compare[c].local = "this"
    /\ compare'[c] = compare[c]
    /\ shared' # shared

ComparisonStep ==
    \/ /\ Generate \/ CommandLineCrash \/ \E p \in Poller : Poll(p)
       /\ UNCHANGED comparisonVars
    \/ \E c \in Comparer : Read(c) \/ GoesOn(c)
    \/ ReadOld \/ UpdateGoesOn
    \/ ComparisonCrash

ComparisonNext == ComparisonStep /\ mixed' = (mixed \/ Overwrites)

(* A call that has begun to write goes on. *)
ComparisonFairness ==
    /\ Fairness
    /\ WF_<<vars, comparisonVars>>(UpdateGoesOn \/ \E c \in Comparer : GoesOn(c))

ComparisonSpec == /\ ComparisonInit
                  /\ [][ComparisonNext]_allVars
                  /\ ComparisonFairness

-----------------------------------------------------------------------------
(* What is compared with the swarm run in the directory of a local run is    *)
(* that local run, although two comparisons and the refresh write the file    *)
(* it is copied from, and the worker its own: one that comes between a call's *)
(* writing and its reading back is the only way in for another.               *)
BenchmarkIsOwnUnlessMixed ==
    benchmark \notin Unreadable /\ ~mixed => benchmark.local = "this"
=============================================================================
