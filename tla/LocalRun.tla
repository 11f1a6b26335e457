------------------------------ MODULE LocalRun ------------------------------
(***************************************************************************)
(* One run of the image generation case in local mode: the process that     *)
(* creates it and generates its images one by one                           *)
(* (src/app/image_generation_case/workflow.py), and the requests of the UI   *)
(* server (server.py) that look for runs whose worker is gone.  They share  *)
(* the files of the run's directory and the table LOCAL_THREADS.  A poll    *)
(* reads the files of all runs first; "shared" stands for those of others.  *)
(*                                                                         *)
(* A run is created by the server, which hands it to a thread, or by the    *)
(* command line ("local-baseline"), a process of its own.                   *)
(***************************************************************************)
EXTENDS RunFile

CONSTANTS N,           \* images of the run
          Poller,      \* requests for the state of the UI, at one time
          MaxCrashes   \* bound on the crashes in a behaviour

ASSUME ImageAssumption == N \in Nat \ {0}
ASSUME CrashAssumption == MaxCrashes \in Nat

Image == 1 .. N

VARIABLES file,     \* state.json
          metrics,  \* local-metrics.json
          benchmark,\* benchmark.json
          assets,   \* artifacts/*/metadata.json, Empty when one is half copied
          shared,   \* benchmark.json of a swarm run
          worker,   \* the process or thread of the run
          polls,    \* the handlers of the polls
          origin,   \* who creates the run
          thread,   \* whether LOCAL_THREADS has an entry for it
          crashes

outputs == <<metrics, benchmark, assets>>
runVars == <<file, outputs, worker, polls, origin, thread, crashes>>
vars == <<runVars, shared>>

Unfinished == {"PENDING", "BUILDING", "RUNNING"}
ImageStatus == Unfinished \cup {"SUCCESS", "FAILED"}
Document == [status : {"PENDING", "RUNNING", "COMPLETED", "FAILED"},
             images : [Image -> ImageStatus]]

(* A benchmark.json: whose local metrics it holds, and whether those of a    *)
(* swarm run as well.                                                       *)
Benchmark == [local : {"none", "this", "other"}, swarm : BOOLEAN]
LocalOnly == [local |-> "this", swarm |-> FALSE]

Creating == {"new", "open", "write", "start"}
Working == {"load", "build", "run", "copy", "next", "reopen", "rewrite"}
Ending == {"metrics", "gallery", "benchmark"}

Labour == [at : Creating \cup Working \cup Ending \cup {"gone"},
           doc : Document, next : 1 .. N + 1]
Polling == [at : {"idle", "check", "mark", "open", "write"}, doc : Document]

LocalTypeOK == /\ file \in Document \cup Unreadable
               /\ metrics \in Unreadable \cup {"whole"}
               /\ benchmark \in Unreadable \cup Benchmark
               /\ assets \in {"whole", Empty}
               /\ shared \in Unreadable \cup Benchmark
               /\ worker \in Labour
               /\ polls \in [Poller -> Polling]
               /\ origin \in {"server", "command line"}
               /\ thread \in BOOLEAN
               /\ crashes \in 0 .. MaxCrashes

(* Faulty, the status of the other mode. *)
NewRunSubmitted == [status |-> "SUBMITTED", images |-> [i \in Image |-> "PENDING"]]

NewRun == [status |-> "PENDING", images |-> [i \in Image |-> "PENDING"]]

IdlePoll == [at |-> "idle", doc |-> NewRun]

Init == /\ file = NoFile
        /\ metrics = NoFile
        /\ benchmark = NoFile
        /\ assets = "whole"
        /\ shared = NoFile
        /\ worker = [at |-> "new", doc |-> NewRun, next |-> 1]
        /\ polls = [p \in Poller |-> IdlePoll]
        /\ origin \in {"server", "command line"}
        /\ thread = FALSE
        /\ crashes = 0

Unended(doc) == doc.status \in {"PENDING", "RUNNING"}

(* The first image that is not finished, if any, is the one that failed.    *)
First(doc, i) == /\ doc.images[i] \in Unfinished
                 /\ \A j \in 1 .. i - 1 : doc.images[j] \notin Unfinished

(* Faulty, leaves the images alone. *)
InterruptedOnly(doc) == [doc EXCEPT !.status = "FAILED"]

Interrupted(doc) ==
    [status |-> "FAILED",
     images |-> [i \in Image |-> IF First(doc, i) THEN "FAILED"
                                                  ELSE doc.images[i]]]

-----------------------------------------------------------------------------
(* The worker.  Every change is persisted, in the two steps of a write.     *)

Work(from, to) == /\ worker.at = from
                  /\ worker' = to
                  /\ UNCHANGED <<polls, origin, crashes, shared>>
At(label) == [worker EXCEPT !.at = label]

(* create_local_generation. *)
Create == Work("new", At("open")) /\ UNCHANGED <<file, outputs, thread>>

OpenNew == Work("open", At("write")) /\ file' = Empty /\ UNCHANGED <<outputs, thread>>

WriteNew == /\ Work("write", At("start"))
            /\ file' \in AfterWrite(file, worker.doc)
            /\ UNCHANGED <<outputs, thread>>

(* _start_local_thread, or on the command line simply the next call.        *)
StartThread == /\ Work("start", At("load"))
               /\ thread' = (origin = "server")
               /\ UNCHANGED <<file, outputs>>

(* run_local_generation reads the run back.                                 *)
Load == /\ Work("load", IF file \in Unreadable THEN At("gone")
                        ELSE [At("reopen") EXCEPT !.doc = [file EXCEPT !.status = "RUNNING"]])
        /\ UNCHANGED <<file, outputs, thread>>

Reopen == Work("reopen", At("rewrite")) /\ file' = Empty /\ UNCHANGED <<outputs, thread>>

(* Where the loop goes on after it has persisted doc. *)
Onward(doc) == IF ~Unended(doc) THEN "gone"
               ELSE IF \E i \in Image : doc.images[i] = "BUILDING" THEN "build"
               ELSE IF \E i \in Image : doc.images[i] = "RUNNING" THEN "run"
               ELSE "next"

Rewrite == /\ Work("rewrite", At(Onward(worker.doc)))
           /\ file' \in AfterWrite(file, worker.doc)
           /\ UNCHANGED <<outputs, thread>>

(* An image gets a status, and the loop goes on with image next.            *)
Progress(from, status, next) ==
    /\ Work(from, [at |-> "reopen", next |-> next,
                   doc |-> [worker.doc EXCEPT !.images[worker.next] = status]])
    /\ UNCHANGED <<file, metrics, benchmark, thread>>

BeginImage == /\ worker.next \in Image /\ Progress("next", "BUILDING", worker.next)
              /\ UNCHANGED assets
Built == Progress("build", "RUNNING", worker.next) /\ UNCHANGED assets

(* copytree brings what docker run has left to artifacts.                   *)
Ran == Work("run", At("copy")) /\ assets' = Empty /\ UNCHANGED <<file, metrics, benchmark, thread>>
Copied == Progress("copy", "SUCCESS", worker.next + 1) /\ assets' = "whole"

(* It raises half way, and so does _persist_state in the "except".          *)
CopyBreaks == Work("copy", At("gone")) /\ UNCHANGED <<file, outputs, thread>>

(* docker build or docker run raises, or what is around them.               *)
Breaks == /\ \E from \in {"build", "run"} :
                Work(from, [At("reopen") EXCEPT !.doc = Interrupted(worker.doc)])
          /\ UNCHANGED <<file, outputs, thread>>

(* Faulty, off by one. *)
OpenMetricsEarly == /\ worker.next >= N /\ Work("next", At("metrics"))
                    /\ metrics' = Empty
                    /\ UNCHANGED <<file, benchmark, assets, thread>>

(* The metrics and the benchmark are files of their own, written like        *)
(* state.json; then the run is COMPLETED.                                   *)
OpenMetrics == /\ worker.next = N + 1 /\ Work("next", At("metrics"))
               /\ metrics' = Empty
               /\ UNCHANGED <<file, benchmark, assets, thread>>

WriteMetrics == /\ Work("metrics", At("gallery"))
                /\ metrics' = "whole"
                /\ UNCHANGED <<file, benchmark, assets, thread>>

OpenBenchmark == /\ Work("gallery", At("benchmark"))
                 /\ benchmark' = Empty
                 /\ UNCHANGED <<file, metrics, assets, thread>>

Finish == /\ Work("benchmark", [At("reopen") EXCEPT !.doc.status = "COMPLETED"])
          /\ benchmark' \in AfterWrite(benchmark, LocalOnly)
          /\ UNCHANGED <<file, metrics, assets, thread>>

(* What is behind the loop is outside the "try".                            *)
FinishBreaks == /\ \/ worker.next = N + 1 /\ Work("next", At("gone"))
                   \/ Work("gallery", At("gone"))
                /\ UNCHANGED <<file, outputs, thread>>

-----------------------------------------------------------------------------
(* GET /case/api/state: _runs_with_runtime_state for this run.              *)

Look(p, from, to) == /\ polls[p].at = from
                     /\ polls' = [polls EXCEPT ![p] = to]
                     /\ UNCHANGED <<outputs, shared, worker, origin, thread, crashes>>

(* list_runs reads the files of all runs that are there and raises on a      *)
(* broken one; a run that is unended is looked at further.                  *)
HalfWritten(f) == f \in {Empty, Torn}
Broken == \/ HalfWritten(file) \/ HalfWritten(metrics) \/ HalfWritten(benchmark)
          \/ HalfWritten(assets) \/ HalfWritten(shared)

List(p) == /\ file # NoFile /\ ~Broken /\ Unended(file)
           /\ Look(p, "idle", [IdlePoll EXCEPT !.at = "check"])
           /\ UNCHANGED file

ToMark(unless) == [IdlePoll EXCEPT !.at = IF unless THEN "idle" ELSE "mark"]

(* Faulty, satisfied with an entry in LOCAL_THREADS. *)
CheckEntry(p) == Look(p, "check", ToMark(thread)) /\ UNCHANGED file

Alive == thread /\ worker.at # "gone"

Check(p) == Look(p, "check", ToMark(Alive)) /\ UNCHANGED file

(* _mark_local_run_interrupted reads the file once more.                    *)
Mark(p) == /\ Look(p, "mark", IF file \notin Unreadable /\ Unended(file)
                              THEN [at |-> "open", doc |-> Interrupted(file)]
                              ELSE IdlePoll)
           /\ UNCHANGED file

OpenMarked(p) == Look(p, "open", [polls[p] EXCEPT !.at = "write"]) /\ file' = Empty

WriteMarked(p) == Look(p, "write", IdlePoll) /\ file' \in AfterWrite(file, polls[p].doc)

-----------------------------------------------------------------------------
(* Whoever was writing a file of another run may be gone as well.           *)
Crash == /\ crashes < MaxCrashes /\ crashes' = crashes + 1
         /\ shared' \in {shared, Empty}

(* The server dies, with its threads, and is started again. *)
ServerCrash == /\ Crash
               /\ polls' = [p \in Poller |-> IdlePoll]
               /\ thread' = FALSE
               /\ worker' = IF origin = "server" THEN At("gone") ELSE worker
               /\ UNCHANGED <<file, outputs, origin>>

CommandLineCrash == /\ Crash
                    /\ origin = "command line"
                    /\ worker' = At("gone")
                    /\ UNCHANGED <<file, outputs, polls, origin, thread>>

Generate == \/ Create \/ OpenNew \/ WriteNew \/ StartThread
            \/ Load \/ Reopen \/ Rewrite
            \/ BeginImage \/ Built \/ Ran \/ Copied \/ CopyBreaks \/ Breaks
            \/ OpenMetrics \/ WriteMetrics \/ OpenBenchmark \/ Finish
            \/ FinishBreaks

Poll(p) == List(p) \/ Check(p) \/ Mark(p) \/ OpenMarked(p) \/ WriteMarked(p)

Next == \/ Generate
        \/ \E p \in Poller : Poll(p)
        \/ ServerCrash \/ CommandLineCrash

(* Processes are scheduled, docker returns, and the UI polls.               *)
Fairness == /\ WF_vars(Generate)
            /\ \A p \in Poller : WF_vars(Poll(p))

Spec == Init /\ [][Next]_vars /\ Fairness

-----------------------------------------------------------------------------
(* A run is recorded COMPLETED only with every image generated, although    *)
(* polls may have recorded a failure under the worker's hands.              *)
CompletedIsComplete ==
    file \notin Unreadable /\ file.status = "COMPLETED" =>
        \A i \in Image : file.images[i] = "SUCCESS"

(* An ended run shows no image under way: whoever records a failure, from   *)
(* whatever it has read, finds the image that was.                          *)
EndedIsAtRest ==
    file \notin Unreadable /\ ~Unended(file) =>
        \A i \in Image : file.images[i] \notin {"BUILDING", "RUNNING"}

(* No run is shown as going on for ever: when its worker is gone, a poll    *)
(* ends it, unless a crash, a copy that broke off or a collision of writers  *)
(* has left one of the files that list_runs reads broken, of this run or of *)
(* any other, on which every poll raises, or no state.json at all.          *)
EveryRunEnds == <>[](file = NoFile \/ Broken \/ ~Unended(file))
=============================================================================
