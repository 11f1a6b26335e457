------------------------------ MODULE Campaign ------------------------------
(***************************************************************************)
(* One run of the image generation case in swarm mode                       *)
(* (src/app/image_generation_case/workflow.py): submit_campaign, which      *)
(* hands one task per image to the master, and refresh_campaign, which asks  *)
(* for the tasks, downloads what they produced and records the result.      *)
(* Requests of the UI and the command line refresh at the same time; they    *)
(* share state.json and the downloaded files.                               *)
(*                                                                         *)
(* Of the master only the status of each task is kept, as a client sees it.  *)
(* The UI looks at the files of all runs before it refreshes any; "others"   *)
(* stands for those of the other runs.                                      *)
(***************************************************************************)
EXTENDS RunFile

CONSTANTS N,             \* images of the run
          Refresher,     \* refreshes at one time
          MaxFailures    \* bound on failed requests and crashes

ASSUME ImageAssumption == N \in Nat \ {0}
ASSUME FailureAssumption == MaxFailures \in Nat

Image == 1 .. N

VARIABLES master,     \* the status of each image's task on the master
          file,       \* state.json
          submitter,  \* submit_campaign
          refresh,    \* the calls of refresh_campaign
          artifact,   \* each image's downloaded files
          fetched,    \* the images of which a download has come to its end
          benchmark,  \* benchmark.json
          others,     \* the files of other runs, Empty when one is broken
          failures

downloads == <<artifact, fetched>>
vars == <<master, file, submitter, refresh, downloads, benchmark, others, failures>>

Final == {"SUCCESS", "FAILED", "CANCELLED"}           \* FINAL_STATUSES
TaskStatus == {"PENDING"} \cup Final     \* PENDING is any that is not final
Document == [status : {"SUBMITTED", "RUNNING", "COMPLETED", "FAILED"},
             images : [Image -> TaskStatus]]

Submission == [at : {"submit", "open", "write", "gone"}, next : 1 .. N + 1]
Refreshing == [at : {"idle", "ask", "download", "read", "open benchmark",
                     "write benchmark", "open", "write"},
               doc : Document, next : 1 .. N + 1]

CampaignTypeOK ==
    /\ master \in [Image -> TaskStatus \cup {"NONE", "DELETED"}]
    /\ file \in Document \cup Unreadable
    /\ submitter \in Submission
    /\ refresh \in [Refresher -> Refreshing]
    /\ artifact \in [Image -> {"none", "open", "broken", "whole"}]
    /\ fetched \in SUBSET Image
    /\ benchmark \in Unreadable \cup {"whole"}
    /\ others \in {"whole", Empty}
    /\ failures \in 0 .. MaxFailures

(* Faulty, the status of the other mode. *)
NewCampaignPending == [status |-> "PENDING", images |-> [i \in Image |-> "PENDING"]]

NewCampaign == [status |-> "SUBMITTED", images |-> [i \in Image |-> "PENDING"]]
IdleRefresh == [at |-> "idle", doc |-> NewCampaign, next |-> 1]

Init == /\ master = [i \in Image |-> "NONE"]
        /\ file = NoFile
        /\ submitter = [at |-> "submit", next |-> 1]
        /\ refresh = [r \in Refresher |-> IdleRefresh]
        /\ artifact = [i \in Image |-> "none"]
        /\ fetched = {}
        /\ benchmark = NoFile
        /\ others = "whole"
        /\ failures = 0

Failure == failures < MaxFailures /\ failures' = failures + 1

(* The master ends its tasks, and deletes on request those that have ended.  *)
MasterGoes(i, from, to) ==
    /\ master[i] \in from
    /\ master' \in {[master EXCEPT ![i] = status] : status \in to}
    /\ UNCHANGED <<file, submitter, refresh, downloads, benchmark, others>>

EndTask == \E i \in Image : MasterGoes(i, {"PENDING"}, Final) /\ UNCHANGED failures
DeleteTask == \E i \in Image : MasterGoes(i, Final, {"DELETED"}) /\ UNCHANGED failures

(* Its health check or a late report may take the end of a task back (the    *)
(* runs LateHealthCheck and MasterHandlers).                                *)
Revive == \E i \in Image : MasterGoes(i, Final, {"PENDING"}) /\ Failure

-----------------------------------------------------------------------------
(* submit_campaign: the tasks one after the other, then state.json.         *)

Submits(from, to) == /\ submitter.at = from
                     /\ submitter' = to
                     /\ UNCHANGED <<refresh, downloads, benchmark, others, failures>>

SubmitTask == /\ submitter.next \in Image
              /\ Submits("submit", [submitter EXCEPT !.next = submitter.next + 1])
              /\ master' = [master EXCEPT ![submitter.next] = "PENDING"]
              /\ UNCHANGED file

Submitted == /\ submitter.next = N + 1
             /\ Submits("submit", [submitter EXCEPT !.at = "open"])
             /\ UNCHANGED <<master, file>>

OpenNew == /\ Submits("open", [submitter EXCEPT !.at = "write"])
           /\ file' = Empty
           /\ UNCHANGED master

(* The tasks go into the file as the master has returned them, each when it *)
(* was created: PENDING, or SCHEDULED, which is taken for the same here.    *)
WriteNew == /\ Submits("write", [submitter EXCEPT !.at = "gone"])
            /\ file' \in AfterWrite(file, NewCampaign)
            /\ UNCHANGED master

-----------------------------------------------------------------------------
(* refresh_campaign. *)

Refreshes(r, from, to) == /\ refresh[r].at = from
                          /\ refresh' = [refresh EXCEPT ![r] = to]
                          /\ UNCHANGED <<master, submitter, others, failures>>
At(r, label) == [refresh[r] EXCEPT !.at = label]

Begin(r) == /\ file \notin Unreadable
            /\ Refreshes(r, "idle", [at |-> "ask", doc |-> file, next |-> 1])
            /\ UNCHANGED <<file, downloads, benchmark>>

(* list_runs reads state.json, benchmark.json and each metadata.json of all  *)
(* runs, and raises on one that is broken or just being written.            *)
HalfWritten(f) == f \in {Empty, Torn}
Broken == \/ HalfWritten(file) \/ HalfWritten(benchmark) \/ HalfWritten(others)
          \/ \E i \in Image : artifact[i] \in {"open", "broken"}

(* The UI asks for a refresh of the runs that list_runs shows as not over;   *)
(* anybody may ask for it on the command line, with Begin.                  *)
BeginUnended(r) == /\ ~Broken /\ file # NoFile
                   /\ file.status \in {"SUBMITTED", "RUNNING"}
                   /\ Begin(r)

AskNext(r, i, status) ==
    Refreshes(r, "ask", [refresh[r] EXCEPT !.next = i + 1, !.doc.images[i] = status])

(* GET of one task; one that is not there is an error.                      *)
Asked(r, i) == CASE master[i] = "DELETED" -> Refreshes(r, "ask", IdleRefresh)
                 [] master[i] = "SUCCESS" -> Refreshes(r, "ask", At(r, "download"))
                 [] OTHER -> AskNext(r, i, master[i])

(* Faulty, downloads only what is not there yet. *)
AskUnlessThere(r) ==
    LET i == refresh[r].next
    IN  /\ i \in Image
        /\ IF master[i] = "SUCCESS" /\ artifact[i] # "none"
           THEN AskNext(r, i, "SUCCESS")
           ELSE Asked(r, i)
        /\ artifact' = IF master[i] = "SUCCESS" /\ artifact[i] = "none"
                       THEN [artifact EXCEPT ![i] = "open"] ELSE artifact
        /\ UNCHANGED <<file, fetched, benchmark>>

(* What a task has produced is downloaded again, over what is there, by      *)
(* every refresh that sees its success.                                     *)
Ask(r) == LET i == refresh[r].next
          IN  /\ i \in Image
              /\ Asked(r, i)
              /\ artifact' = IF master[i] = "SUCCESS" THEN [artifact EXCEPT ![i] = "open"]
                                                      ELSE artifact
              /\ UNCHANGED <<file, fetched, benchmark>>

Downloads(r, i) == refresh[r].at = "download" /\ refresh[r].next = i

(* The last download to end leaves the files whole, unless one that has      *)
(* begun earlier or later broke off.                                        *)
Downloaded(r) ==
    LET i == refresh[r].next
        left == IF artifact[i] = "broken" THEN {"broken", "whole"}
                ELSE IF \E q \in Refresher \ {r} : Downloads(q, i) THEN {"open"}
                ELSE {"whole"}
    IN  /\ Refreshes(r, "download", [At(r, "ask") EXCEPT !.next = i + 1,
                                                         !.doc.images[i] = "SUCCESS"])
        /\ artifact' \in {[artifact EXCEPT ![i] = state] : state \in left}
        /\ fetched' = fetched \cup {i}
        /\ UNCHANGED <<file, benchmark>>

(* What the downloads of these calls leave when they break off.             *)
BrokenOff(calls) ==
    artifact' = [i \in Image |-> IF \E r \in calls : Downloads(r, i) THEN "broken"
                                                                   ELSE artifact[i]]

(* Faulty, CANCELLED is not final. *)
JudgedWithoutCancelled(images) ==
    IF \A i \in Image : images[i] \in {"SUCCESS", "FAILED"}
    THEN IF \A i \in Image : images[i] = "SUCCESS" THEN "COMPLETED" ELSE "FAILED"
    ELSE "RUNNING"

Judged(images) ==
    IF \A i \in Image : images[i] \in Final
    THEN IF \A i \in Image : images[i] = "SUCCESS" THEN "COMPLETED" ELSE "FAILED"
    ELSE "RUNNING"

(* Only a completed campaign has metrics for the benchmark.                 *)
Judge(r) ==
    LET status == Judged(refresh[r].doc.images)
    IN  /\ refresh[r].next = N + 1
        /\ Refreshes(r, "ask", [At(r, IF status = "COMPLETED" THEN "read" ELSE "open")
                                    EXCEPT !.doc.status = status])
        /\ UNCHANGED <<file, downloads, benchmark>>

(* A benchmark.json that is broken, or just being written, is an error.      *)
ReadBenchmark(r) ==
    /\ Refreshes(r, "read", IF HalfWritten(benchmark) THEN IdleRefresh
                            ELSE At(r, "open benchmark"))
    /\ UNCHANGED <<file, downloads, benchmark>>

OpenBenchmark(r) == /\ Refreshes(r, "open benchmark", At(r, "write benchmark"))
                    /\ benchmark' = Empty
                    /\ UNCHANGED <<file, downloads>>

WriteBenchmark(r) == /\ Refreshes(r, "write benchmark", At(r, "open"))
                     /\ benchmark' \in AfterWrite(benchmark, "whole")
                     /\ UNCHANGED <<file, downloads>>

Open(r) == /\ Refreshes(r, "open", At(r, "write"))
           /\ file' = Empty
           /\ UNCHANGED <<downloads, benchmark>>

Write(r) == /\ Refreshes(r, "write", IdleRefresh)
            /\ file' \in AfterWrite(file, refresh[r].doc)
            /\ UNCHANGED <<downloads, benchmark>>

-----------------------------------------------------------------------------
(* A request to the master fails or its answer is lost, and the exception   *)
(* leaves submit_campaign: there is no state.json, and nothing is undone.   *)
SubmitFails == /\ Failure
               /\ submitter.at = "submit"
               /\ submitter.next \in Image
               /\ submitter' = [submitter EXCEPT !.at = "gone"]
               /\ master' \in {master, [master EXCEPT ![submitter.next] = "PENDING"]}
               /\ UNCHANGED <<file, refresh, downloads, benchmark, others>>

LeavesOff(r, at) == /\ refresh[r].at = at
                    /\ refresh' = [refresh EXCEPT ![r] = IdleRefresh]
                    /\ BrokenOff({r})
                    /\ UNCHANGED <<master, file, submitter, fetched, benchmark, others>>

(* The same leaves refresh_campaign before it has recorded anything.        *)
RefreshFails(r) == /\ Failure
                   /\ \E at \in {"ask", "download"} : LeavesOff(r, at)

(* The gallery and the file show what metadata.json of each image says; one  *)
(* that another refresh is just downloading, or has left broken, is an error. *)
AssetsFail(r) == /\ Failure
                 /\ \E i \in Image : artifact[i] \in {"open", "broken"}
                 /\ \E at \in {"read", "open"} : LeavesOff(r, at)

(* The UI server dies, with what it was asked for: some of the refreshes    *)
(* and maybe the submission; the others belong to a command line.  It may    *)
(* have been writing a file of another run.                                 *)
ServerCrash == /\ Failure
               /\ \E died \in SUBSET Refresher :
                     /\ refresh' = [r \in Refresher |-> IF r \in died THEN IdleRefresh
                                                                    ELSE refresh[r]]
                     /\ BrokenOff(died)
               /\ submitter' \in {submitter, [submitter EXCEPT !.at = "gone"]}
               /\ others' \in {others, Empty}
               /\ UNCHANGED <<master, file, fetched, benchmark>>

Submit == SubmitTask \/ Submitted \/ OpenNew \/ WriteNew

Finishes(r) == \/ Ask(r) \/ Downloaded(r) \/ Judge(r)
               \/ ReadBenchmark(r) \/ OpenBenchmark(r) \/ WriteBenchmark(r)
               \/ Open(r) \/ Write(r)

Next == \/ EndTask \/ DeleteTask \/ Revive
        \/ Submit \/ SubmitFails
        \/ \E r \in Refresher : Begin(r) \/ Finishes(r) \/ RefreshFails(r) \/ AssetsFail(r)
        \/ ServerCrash

(* The master ends its tasks (Swarm says when it does), calls go on, and    *)
(* the UI asks again for what is not over, as long as it gets its list.      *)
Spec == /\ Init /\ [][Next]_vars
        /\ WF_vars(EndTask)
        /\ WF_vars(Submit)
        /\ \A r \in Refresher : WF_vars(BeginUnended(r) \/ Finishes(r))

-----------------------------------------------------------------------------
(* A campaign is recorded COMPLETED only when the files of every image have  *)
(* been downloaded to their end, although several refreshes download and     *)
(* record at the same time, some fail and the master changes its mind.       *)
CompletedIsFetched ==
    file \notin Unreadable /\ file.status = "COMPLETED" => fetched = Image

(* A result is not lost for good: a refresh that has read the tasks earlier  *)
(* may record a finished campaign as running once more, but in the end the   *)
(* file says that it is over.  It does not when a crash, a collision of      *)
(* writers or a download that broke off has left one of the files that       *)
(* list_runs reads broken, of this run or of any other, when state.json was  *)
(* never written, or when a task was deleted before all was recorded.        *)
EveryCampaignEnds ==
    <>[](\/ file = NoFile \/ Broken \/ file.status \in {"COMPLETED", "FAILED"}
         \/ \E i \in Image : master[i] = "DELETED")
=============================================================================
