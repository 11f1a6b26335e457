--------------------------- MODULE CampaignProofs ---------------------------
(***************************************************************************)
(* Machine-checked proofs about Campaign, for any number of images,          *)
(* refreshes at one time and failures.                                      *)
(***************************************************************************)
EXTENDS Campaign, TLAPS

USE ImageAssumption, FailureAssumption

Succeeded(doc) == {i \in Image : doc.images[i] = "SUCCESS"}
Honest(doc) == doc.status = "COMPLETED" => Succeeded(doc) = Image

(* A document says of an image that it has succeeded only when a download of *)
(* its files has come to its end: whatever the master makes of the task      *)
(* later, that stays true.                                                  *)
FileSound == file \notin Unreadable => Honest(file) /\ Succeeded(file) \subseteq fetched

(* A status that is going to be judged anew need not fit yet.                *)
Recording == {"read", "open benchmark", "write benchmark", "open", "write"}
CallSound(call) == /\ call.at \in Recording => Honest(call.doc)
                   /\ Succeeded(call.doc) \subseteq fetched
CallsSound == \A r \in Refresher : CallSound(refresh[r])

(* A task is handed over once, before there is a file to refresh.            *)
Handed == \A i \in Image : master[i] # "NONE"

HandedFirst ==
    /\ submitter.at = "submit" =>
          \A i \in Image : master[i] = "NONE" <=> i >= submitter.next
    /\ submitter.at \in {"open", "write"} => Handed
    /\ file # NoFile => Handed
    /\ \A r \in Refresher : refresh[r].at # "idle" => Handed

DownloadsImages == \A r \in Refresher :
    refresh[r].at = "download" => refresh[r].next \in Image

IInv == CampaignTypeOK /\ FileSound /\ CallsSound /\ HandedFirst /\ DownloadsImages

-----------------------------------------------------------------------------
(* The documents that are written. *)

LEMMA IdleTyped ==
    /\ NewCampaign \in Document /\ IdleRefresh \in Refreshing
    /\ Honest(NewCampaign) /\ Succeeded(NewCampaign) = {}
    /\ IdleRefresh.doc = NewCampaign /\ IdleRefresh.at = "idle"
<1>1. NewCampaign \in Document
  BY DEF NewCampaign, Document, TaskStatus
<1> QED
  BY <1>1 DEF NewCampaign, IdleRefresh, Refreshing, Honest, Succeeded

LEMMA JudgedHonestly ==
    ASSUME NEW doc \in Document
    PROVE  /\ [doc EXCEPT !.status = Judged(doc.images)] \in Document
           /\ Honest([doc EXCEPT !.status = Judged(doc.images)])
           /\ Succeeded([doc EXCEPT !.status = Judged(doc.images)]) = Succeeded(doc)
<1>1. Judged(doc.images) \in {"RUNNING", "COMPLETED", "FAILED"}
  BY DEF Judged
<1>2. Judged(doc.images) = "COMPLETED" => \A i \in Image : doc.images[i] = "SUCCESS"
  BY DEF Judged
<1> QED
  BY <1>1, <1>2 DEF Document, Honest, Succeeded

(* What one image has come to is entered. *)
LEMMA Entered ==
    ASSUME NEW doc \in Document, NEW i \in Image, NEW status \in TaskStatus
    PROVE  /\ [doc EXCEPT !.images[i] = status] \in Document
           /\ Succeeded([doc EXCEPT !.images[i] = status]) \subseteq
                 Succeeded(doc) \cup {j \in {i} : status = "SUCCESS"}
BY DEF Document, Succeeded

ArtifactState == {"none", "open", "broken", "whole"}

LEMMA CallTyped ==
    ASSUME IInv, NEW r \in Refresher
    PROVE  /\ refresh[r] \in Refreshing
           /\ refresh[r].doc \in Document
           /\ refresh[r].next \in 1 .. N + 1
           /\ CallSound(refresh[r])
           /\ refresh[r].at # "idle" => Handed
           /\ refresh[r].at = "download" => refresh[r].next \in Image
           /\ file \in Document \cup Unreadable
           /\ artifact \in [Image -> ArtifactState]
           /\ fetched \in SUBSET Image
           /\ benchmark \in Unreadable \cup {"whole"}
BY DEF IInv, CampaignTypeOK, Refreshing, CallsSound, HandedFirst, DownloadsImages, ArtifactState

LEMMA LabelTyped ==
    ASSUME NEW call \in Refreshing,
           NEW label \in {"idle", "ask", "download", "read", "open benchmark",
                          "write benchmark", "open", "write"}
    PROVE  /\ [call EXCEPT !.at = label] \in Refreshing
           /\ [call EXCEPT !.at = label].at = label
           /\ [call EXCEPT !.at = label].doc = call.doc
           /\ [call EXCEPT !.at = label].next = call.next
BY DEF Refreshing

-----------------------------------------------------------------------------
LEMMA InitEstablishes == Init => IInv
<1> SUFFICES ASSUME Init
             PROVE  IInv
  OBVIOUS
<1>1. CampaignTypeOK
  BY IdleTyped DEF Init, CampaignTypeOK, Unreadable, Submission
<1>2. FileSound /\ CallsSound
  BY IdleTyped DEF Init, FileSound, CallsSound, CallSound, Unreadable
<1>3. HandedFirst /\ DownloadsImages
  BY IdleTyped DEF Init, HandedFirst, DownloadsImages, Image
<1> QED
  BY <1>1, <1>2, <1>3 DEF IInv

(* One call of refresh_campaign goes on as new, and leaves a file that is    *)
(* sound and what was fetched.                                              *)
LEMMA RefreshPreserves ==
    ASSUME IInv, NEW r \in Refresher, NEW from, NEW new \in Refreshing,
           Refreshes(r, from, new),
           new.at \in Recording => Honest(new.doc), Succeeded(new.doc) \subseteq fetched',
           new.at # "idle" => Handed,
           new.at = "download" => new.next \in Image,
           file' \in Document \cup Unreadable, FileSound', file' # NoFile => Handed,
           artifact' \in [Image -> ArtifactState],
           fetched \subseteq fetched', fetched' \subseteq Image,
           benchmark' \in Unreadable \cup {"whole"}
    PROVE  IInv'
<1>1. /\ refresh' = [refresh EXCEPT ![r] = new]
      /\ UNCHANGED <<master, submitter, others, failures>>
  BY DEF Refreshes
<1>2. CampaignTypeOK'
  BY <1>1 DEF IInv, CampaignTypeOK, ArtifactState
<1>3. \A q \in Refresher : refresh'[q] = IF q = r THEN new ELSE refresh[q]
  BY <1>1 DEF IInv, CampaignTypeOK
<1>4. CallsSound'
  BY <1>3 DEF IInv, CallsSound, CallSound
<1>5. HandedFirst'
  BY <1>1, <1>3 DEF IInv, HandedFirst, Handed
<1>6. DownloadsImages'
  BY <1>3 DEF IInv, DownloadsImages
<1> QED
  BY <1>2, <1>4, <1>5, <1>6 DEF IInv

(* The same when it leaves state.json alone. *)
LEMMA CallPreserves ==
    ASSUME IInv, NEW r \in Refresher, NEW from, NEW new \in Refreshing,
           Refreshes(r, from, new), UNCHANGED file,
           artifact' \in [Image -> ArtifactState],
           fetched \subseteq fetched', fetched' \subseteq Image,
           benchmark' \in Unreadable \cup {"whole"},
           new.at \in Recording => Honest(new.doc), Succeeded(new.doc) \subseteq fetched',
           new.at # "idle" => Handed,
           new.at = "download" => new.next \in Image
    PROVE  IInv'
<1>1. FileSound'
  BY DEF IInv, FileSound
<1>2. file' \in Document \cup Unreadable /\ (file' # NoFile => Handed)
  BY DEF IInv, CampaignTypeOK, HandedFirst
<1> QED
  BY <1>1, <1>2, RefreshPreserves

LEMMA AskPreserves ==
    ASSUME IInv, NEW r \in Refresher, Ask(r)
    PROVE  IInv'
<1> DEFINE doc == refresh[r].doc
<1>1. PICK i \in Image : i = refresh[r].next
  BY DEF Ask
<1>2. Asked(r, i) /\ UNCHANGED <<file, fetched, benchmark>>
  BY <1>1 DEF Ask
<1>3. /\ refresh[r] \in Refreshing /\ doc \in Document /\ Succeeded(doc) \subseteq fetched
      /\ refresh[r].at = "ask" /\ Handed
  BY <1>2, CallTyped DEF Asked, AskNext, Refreshes, CallSound
<1>4. artifact' \in [Image -> ArtifactState]
  BY <1>1, CallTyped DEF Ask, ArtifactState
<1>5. CASE master[i] = "DELETED"
  <2>1. Refreshes(r, "ask", IdleRefresh)
    BY <1>2, <1>5 DEF Asked
  <2> QED
    BY <1>2, <1>4, <2>1, CallTyped, IdleTyped, CallPreserves DEF Recording
<1>6. CASE master[i] = "SUCCESS"
  <2>1. PICK to \in Refreshing : /\ to.doc = doc /\ to.at = "download" /\ to.next = i
                                 /\ Refreshes(r, "ask", to)
    BY <1>1, <1>2, <1>3, <1>6, LabelTyped DEF Asked, At
  <2> QED
    BY <1>2, <1>3, <1>4, <2>1, CallTyped, CallPreserves DEF Recording
<1>7. CASE master[i] \notin {"DELETED", "SUCCESS"}
  <2> DEFINE new == [doc EXCEPT !.images[i] = master[i]]
  <2>1. master[i] \in TaskStatus
    BY <1>3, <1>7 DEF IInv, CampaignTypeOK, Handed
  <2>2. new \in Document /\ Succeeded(new) \subseteq fetched
    BY <1>3, <1>7, <2>1, Entered
  <2>3. Refreshes(r, "ask", [refresh[r] EXCEPT !.next = i + 1, !.doc.images[i] = master[i]])
    BY <1>2, <1>7 DEF Asked, AskNext
  <2>4. i + 1 \in 1 .. N + 1
    BY DEF Image
  <2>5. PICK to \in Refreshing : /\ to.doc = new /\ to.at = "ask"
                                 /\ Refreshes(r, "ask", to)
    BY <1>3, <2>2, <2>3, <2>4 DEF Refreshing
  <2> QED
    BY <1>2, <1>3, <1>4, <2>2, <2>5, CallTyped, CallPreserves DEF Recording
<1> QED
  BY <1>5, <1>6, <1>7

LEMMA DownloadedPreserves ==
    ASSUME IInv, NEW r \in Refresher, Downloaded(r)
    PROVE  IInv'
<1> DEFINE doc == refresh[r].doc
<1>1. /\ refresh[r] \in Refreshing /\ doc \in Document /\ Succeeded(doc) \subseteq fetched
      /\ refresh[r].at = "download" /\ Handed
      /\ UNCHANGED <<file, benchmark>>
  BY CallTyped DEF Downloaded, Refreshes, CallSound
<1>2. PICK i \in Image : i = refresh[r].next
  BY <1>1, CallTyped
<1> DEFINE new == [doc EXCEPT !.images[i] = "SUCCESS"]
<1>3. fetched' = fetched \cup {i}
  BY <1>2 DEF Downloaded
<1>4. new \in Document /\ Succeeded(new) \subseteq fetched'
  <2>1. "SUCCESS" \in TaskStatus
    BY DEF TaskStatus, Final
  <2> QED
    BY <1>1, <1>3, <2>1, Entered
<1>5. Refreshes(r, "download", [[refresh[r] EXCEPT !.at = "ask"]
                                   EXCEPT !.next = i + 1, !.doc.images[i] = "SUCCESS"])
  BY <1>2 DEF Downloaded, At
<1>6. i + 1 \in 1 .. N + 1
  BY DEF Image
<1>7. PICK to \in Refreshing : /\ to.doc = new /\ to.at = "ask"
                               /\ Refreshes(r, "download", to)
  BY <1>1, <1>4, <1>5, <1>6 DEF Refreshing
<1>8. artifact' \in [Image -> ArtifactState]
  <2>1. \E state \in {"open", "broken", "whole"} : artifact' = [artifact EXCEPT ![i] = state]
    BY <1>2 DEF Downloaded
  <2> QED
    BY <2>1, CallTyped DEF ArtifactState
<1> QED
  BY <1>1, <1>3, <1>4, <1>7, <1>8, CallTyped, CallPreserves DEF Recording

(* A call that downloads nothing. *)
LEMMA QuietPreserves ==
    ASSUME IInv, NEW r \in Refresher, NEW from, NEW new \in Refreshing,
           Refreshes(r, from, new), UNCHANGED <<file, downloads>>,
           benchmark' \in Unreadable \cup {"whole"},
           new.at \in Recording => Honest(new.doc), Succeeded(new.doc) \subseteq fetched,
           new.at # "idle" => Handed, new.at # "download"
    PROVE  IInv'
<1>1. UNCHANGED <<file, artifact, fetched>>
  BY DEF downloads
<1>2. artifact' \in [Image -> ArtifactState] /\ fetched \subseteq fetched' /\ fetched' \subseteq Image
  BY <1>1, CallTyped
<1> QED
  BY <1>1, <1>2, CallPreserves

(* The steps of a refresh that go on with its document or give it up, and    *)
(* touch at most the benchmark.                                             *)
LEMMA QuietStepsPreserve ==
    ASSUME IInv, NEW r \in Refresher,
           Judge(r) \/ ReadBenchmark(r) \/ OpenBenchmark(r) \/ WriteBenchmark(r)
    PROVE  IInv'
<1>1. /\ refresh[r] \in Refreshing /\ refresh[r].doc \in Document
      /\ refresh[r].at # "idle" => Handed
      /\ refresh[r].at \in Recording => Honest(refresh[r].doc)
      /\ Succeeded(refresh[r].doc) \subseteq fetched
      /\ benchmark \in Unreadable \cup {"whole"}
  BY CallTyped DEF CallSound
<1>2. CASE Judge(r)
  <2> DEFINE status == Judged(refresh[r].doc.images)
             label == IF status = "COMPLETED" THEN "read" ELSE "open"
             doc == [refresh[r].doc EXCEPT !.status = status]
  <2>1. /\ Refreshes(r, "ask", [[refresh[r] EXCEPT !.at = label]
                                   EXCEPT !.doc.status = status])
        /\ UNCHANGED <<file, downloads, benchmark>> /\ refresh[r].at = "ask"
    BY <1>2 DEF Judge, At, Refreshes
  <2>2. doc \in Document /\ Honest(doc) /\ Succeeded(doc) \subseteq fetched
    BY <1>1, JudgedHonestly
  <2>3. label \in {"read", "open"}
    OBVIOUS
  <2> HIDE DEF status, label
  <2>4. PICK to \in Refreshing : /\ to.doc = doc /\ to.at \in {"read", "open"}
                                 /\ Refreshes(r, "ask", to)
    BY <1>1, <2>1, <2>2, <2>3 DEF Refreshing
  <2> QED
    BY <1>1, <2>1, <2>2, <2>4, QuietPreserves
<1>3. CASE ReadBenchmark(r)
  <2>1. CASE benchmark \in {Empty, Torn}
    BY <1>1, <1>3, <2>1, IdleTyped, QuietPreserves DEF ReadBenchmark, Recording, HalfWritten
  <2>2. CASE benchmark \notin {Empty, Torn}
    <3>1. /\ Refreshes(r, "read", [refresh[r] EXCEPT !.at = "open benchmark"])
          /\ UNCHANGED <<file, downloads, benchmark>> /\ refresh[r].at = "read"
      BY <1>3, <2>2 DEF ReadBenchmark, At, Refreshes, HalfWritten
    <3>2. PICK to \in Refreshing : /\ to.doc = refresh[r].doc /\ to.at = "open benchmark"
                                   /\ Refreshes(r, "read", to)
      BY <1>1, <3>1, LabelTyped
    <3> QED
      BY <1>1, <3>1, <3>2, QuietPreserves DEF Recording
  <2> QED
    BY <2>1, <2>2
<1>4. CASE OpenBenchmark(r)
  <2>1. /\ Refreshes(r, "open benchmark", [refresh[r] EXCEPT !.at = "write benchmark"])
        /\ UNCHANGED <<file, downloads>> /\ refresh[r].at = "open benchmark"
        /\ benchmark' \in Unreadable \cup {"whole"}
    BY <1>4 DEF OpenBenchmark, At, Refreshes, Unreadable
  <2> QED
    BY <1>1, <2>1, LabelTyped, QuietPreserves DEF Recording
<1>5. CASE WriteBenchmark(r)
  <2>1. /\ Refreshes(r, "write benchmark", [refresh[r] EXCEPT !.at = "open"])
        /\ UNCHANGED <<file, downloads>> /\ refresh[r].at = "write benchmark"
        /\ benchmark' \in Unreadable \cup {"whole"}
    BY <1>5 DEF WriteBenchmark, At, Refreshes, AfterWrite, Unreadable
  <2> QED
    BY <1>1, <2>1, LabelTyped, QuietPreserves DEF Recording
<1> QED
  BY <1>2, <1>3, <1>4, <1>5

(* The steps that read and write state.json. *)
LEMMA FileStepsPreserve ==
    ASSUME IInv, NEW r \in Refresher, Begin(r) \/ Open(r) \/ Write(r)
    PROVE  IInv'
<1>1. /\ refresh[r] \in Refreshing /\ refresh[r].doc \in Document
      /\ refresh[r].at # "idle" => Handed
      /\ refresh[r].at \in Recording => Honest(refresh[r].doc)
      /\ Succeeded(refresh[r].doc) \subseteq fetched
      /\ benchmark \in Unreadable \cup {"whole"}
      /\ artifact \in [Image -> ArtifactState] /\ fetched \subseteq Image
  BY CallTyped DEF CallSound
<1>2. CASE Begin(r)
  <2>1. /\ file \in Document /\ Honest(file) /\ Succeeded(file) \subseteq fetched /\ Handed
    BY <1>2 DEF Begin, IInv, CampaignTypeOK, FileSound, HandedFirst, Unreadable
  <2>2. /\ Refreshes(r, "idle", [at |-> "ask", doc |-> file, next |-> 1])
        /\ UNCHANGED <<file, downloads, benchmark>>
    BY <1>2 DEF Begin
  <2>3. [at |-> "ask", doc |-> file, next |-> 1] \in Refreshing
    BY <2>1 DEF Refreshing
  <2> QED
    BY <1>1, <2>1, <2>2, <2>3, QuietPreserves DEF Recording
<1>3. CASE Open(r)
  <2>1. /\ Refreshes(r, "open", [refresh[r] EXCEPT !.at = "write"])
        /\ UNCHANGED <<artifact, fetched, benchmark, master>> /\ refresh[r].at = "open"
        /\ file' = Empty
    BY <1>3 DEF Open, At, Refreshes, downloads
  <2>2. FileSound' /\ file' \in Document \cup Unreadable
    BY <2>1 DEF FileSound, Unreadable
  <2> QED
    BY <1>1, <2>1, <2>2, LabelTyped, RefreshPreserves DEF Recording
<1>4. CASE Write(r)
  <2>1. /\ Refreshes(r, "write", IdleRefresh)
        /\ UNCHANGED <<artifact, fetched, benchmark, master>> /\ refresh[r].at = "write"
        /\ file' \in {refresh[r].doc, Torn}
    BY <1>4 DEF Write, Refreshes, AfterWrite, downloads
  <2>2. FileSound' /\ file' \in Document \cup Unreadable
    BY <1>1, <2>1 DEF FileSound, Unreadable, Recording
  <2> QED
    BY <1>1, <2>1, <2>2, IdleTyped, RefreshPreserves DEF Recording
<1> QED
  BY <1>2, <1>3, <1>4

-----------------------------------------------------------------------------
(* Steps of the master and of the submission. *)

LEMMA FailureCounted ==
    ASSUME IInv, Failure
    PROVE  failures' \in 0 .. MaxFailures
BY DEF IInv, CampaignTypeOK, Failure

LEMMA MasterPreserves ==
    ASSUME IInv, EndTask \/ DeleteTask \/ Revive
    PROVE  IInv'
<1>1. PICK i \in Image, status \in TaskStatus \cup {"DELETED"} :
          /\ master[i] \in TaskStatus
          /\ master' = [master EXCEPT ![i] = status]
          /\ UNCHANGED <<file, submitter, refresh, artifact, fetched, benchmark, others>>
  BY DEF EndTask, DeleteTask, Revive, MasterGoes, Final, TaskStatus, downloads
<1>2. failures' \in 0 .. MaxFailures
  BY FailureCounted DEF EndTask, DeleteTask, Revive, IInv, CampaignTypeOK
<1>3. CampaignTypeOK'
  BY <1>1, <1>2 DEF IInv, CampaignTypeOK
<1>4. \A j \in Image : master'[j] = "NONE" <=> master[j] = "NONE"
  BY <1>1 DEF IInv, CampaignTypeOK, TaskStatus, Final
<1>5. FileSound' /\ CallsSound'
  BY <1>1 DEF IInv, FileSound, CallsSound, CallSound
<1>6. HandedFirst' /\ DownloadsImages'
  BY <1>1, <1>4 DEF IInv, HandedFirst, Handed, DownloadsImages
<1> QED
  BY <1>3, <1>5, <1>6 DEF IInv

(* The submission hands over its next task, or is over with it.              *)
LEMMA HandingPreserves ==
    ASSUME IInv, submitter.at = "submit", NEW i \in Image, i = submitter.next,
           master' \in {master, [master EXCEPT ![i] = "PENDING"]},
           submitter' \in Submission,
           submitter'.at = "submit" => /\ submitter'.next = i + 1
                                       /\ master' = [master EXCEPT ![i] = "PENDING"],
           submitter'.at \notin {"open", "write"},
           failures' \in 0 .. MaxFailures,
           UNCHANGED <<file, refresh, downloads, benchmark, others>>
    PROVE  IInv'
<1>1. master[i] = "NONE" /\ i <= N /\ i \in Int
  BY DEF IInv, HandedFirst, Image
<1>2. /\ CampaignTypeOK'
      /\ \A j \in Image : j # i => master'[j] = master[j]
  BY DEF IInv, CampaignTypeOK, TaskStatus, downloads
<1>3. file = NoFile /\ \A r \in Refresher : refresh[r].at = "idle"
  BY <1>1 DEF IInv, HandedFirst, Handed
<1>5. FileSound' /\ CallsSound' /\ DownloadsImages'
  BY DEF IInv, FileSound, CallsSound, CallSound, DownloadsImages, downloads
<1>6. ASSUME submitter'.at = "submit", NEW j \in Image
      PROVE  master'[j] = "NONE" <=> j >= i + 1
  <2>1. master'[i] = "PENDING"
    BY <1>6 DEF IInv, CampaignTypeOK
  <2>2. master[j] = "NONE" <=> j >= i
    BY DEF IInv, HandedFirst
  <2>3. j \in Int
    BY DEF Image
  <2> QED
    BY <1>1, <1>2, <2>1, <2>2, <2>3
<1>7. HandedFirst'
  BY <1>3, <1>6 DEF HandedFirst
<1> QED
  BY <1>2, <1>5, <1>7 DEF IInv

LEMMA SubmitPreserves ==
    ASSUME IInv, Submit \/ SubmitFails
    PROVE  IInv'
<1>1. submitter \in Submission /\ failures \in 0 .. MaxFailures
  BY DEF IInv, CampaignTypeOK
<1>2. CASE SubmitTask
  <2>1. PICK i \in Image : i = submitter.next
    BY <1>2 DEF SubmitTask
  <2>2. /\ submitter.at = "submit"
        /\ submitter' = [submitter EXCEPT !.next = i + 1]
        /\ master' = [master EXCEPT ![i] = "PENDING"]
        /\ UNCHANGED <<file, refresh, downloads, benchmark, others, failures>>
    BY <1>2, <2>1 DEF SubmitTask, Submits
  <2>3. i + 1 \in 1 .. N + 1
    BY DEF Image
  <2>4. submitter' \in Submission /\ submitter'.next = i + 1 /\ submitter'.at = "submit"
    BY <1>1, <2>2, <2>3 DEF Submission
  <2> QED
    BY <1>1, <2>1, <2>2, <2>4, HandingPreserves
<1>3. CASE SubmitFails
  <2>1. PICK i \in Image : i = submitter.next
    BY <1>3 DEF SubmitFails
  <2>2. /\ submitter.at = "submit"
        /\ submitter' = [submitter EXCEPT !.at = "gone"]
        /\ master' \in {master, [master EXCEPT ![i] = "PENDING"]}
        /\ UNCHANGED <<file, refresh, downloads, benchmark, others>>
        /\ failures < MaxFailures /\ failures' = failures + 1
    BY <1>3, <2>1 DEF SubmitFails, Failure
  <2>3. submitter' \in Submission /\ submitter'.at = "gone"
    BY <1>1, <2>2 DEF Submission
  <2>4. failures' \in 0 .. MaxFailures
    BY <1>1, <2>2
  <2> QED
    BY <2>1, <2>2, <2>3, <2>4, HandingPreserves
<1>4. ASSUME Submitted \/ OpenNew \/ WriteNew
      PROVE  IInv'
  <2>1. /\ submitter.at \in {"submit", "open", "write"}
        /\ \E label \in {"open", "write", "gone"} :
              submitter' = [submitter EXCEPT !.at = label]
        /\ file' \in {file, Empty, NewCampaign, Torn}
        /\ submitter.at = "submit" => submitter.next = N + 1 /\ file' = file
        /\ UNCHANGED <<master, refresh, artifact, fetched, benchmark, others, failures>>
    BY <1>4 DEF Submitted, OpenNew, WriteNew, Submits, AfterWrite, downloads
  <2>2. submitter' \in Submission /\ submitter'.at \in {"open", "write", "gone"}
    BY <1>1, <2>1 DEF Submission
  <2>3. Handed
    <3>1. CASE submitter.at = "submit"
      <4>1. \A i \in Image : ~(i >= N + 1)
        BY DEF Image
      <4> QED
        BY <2>1, <3>1, <4>1 DEF IInv, HandedFirst, Handed
    <3>2. CASE submitter.at # "submit"
      BY <2>1, <3>2 DEF IInv, HandedFirst
    <3> QED
      BY <3>1, <3>2
  <2>5. CampaignTypeOK'
    BY <2>1, <2>2, IdleTyped DEF IInv, CampaignTypeOK, Unreadable
  <2>6. FileSound' /\ CallsSound' /\ DownloadsImages'
    BY <2>1, IdleTyped DEF IInv, FileSound, CallsSound, CallSound, DownloadsImages, Unreadable
  <2>7. HandedFirst'
    BY <2>1, <2>2, <2>3 DEF HandedFirst, Handed
  <2> QED
    BY <2>5, <2>6, <2>7 DEF IInv
<1> QED
  BY <1>2, <1>3, <1>4 DEF Submit

-----------------------------------------------------------------------------
(* Failures: calls of refresh_campaign give up, with what they had read.     *)
LEMMA FailurePreserves ==
    ASSUME IInv,
           ServerCrash \/ \E r \in Refresher : RefreshFails(r) \/ AssetsFail(r)
    PROVE  IInv'
<1>1. /\ UNCHANGED <<master, file, fetched, benchmark>>
      /\ Failure
      /\ submitter' \in {submitter, [submitter EXCEPT !.at = "gone"]}
      /\ others' \in {others, Empty}
      /\ \E died \in SUBSET Refresher :
            /\ refresh' = [r \in Refresher |-> IF r \in died THEN IdleRefresh ELSE refresh[r]]
            /\ BrokenOff(died)
  <2>1. CASE ServerCrash
    BY <2>1 DEF ServerCrash
  <2>2. CASE \E r \in Refresher : RefreshFails(r) \/ AssetsFail(r)
    <3>1. PICK r \in Refresher : RefreshFails(r) \/ AssetsFail(r)
      BY <2>2
    <3>2. /\ UNCHANGED <<master, file, fetched, benchmark, others, submitter>>
          /\ Failure /\ BrokenOff({r})
          /\ refresh' = [refresh EXCEPT ![r] = IdleRefresh]
      BY <3>1 DEF RefreshFails, AssetsFail, LeavesOff
    <3>3. refresh = [q \in Refresher |-> refresh[q]]
      BY DEF IInv, CampaignTypeOK
    <3>4. refresh' = [q \in Refresher |-> IF q \in {r} THEN IdleRefresh ELSE refresh[q]]
      BY <3>2, <3>3
    <3>5. {r} \in SUBSET Refresher
      OBVIOUS
    <3>6. \E died \in SUBSET Refresher :
             /\ refresh' = [q \in Refresher |-> IF q \in died THEN IdleRefresh ELSE refresh[q]]
             /\ BrokenOff(died)
      BY <3>2, <3>4, <3>5, Zenon
    <3> QED
      BY <3>2, <3>6
  <2> QED
    BY <2>1, <2>2
<1>2. PICK died \in SUBSET Refresher :
          /\ refresh' = [r \in Refresher |-> IF r \in died THEN IdleRefresh ELSE refresh[r]]
          /\ BrokenOff(died)
  BY <1>1
<1>3. \A r \in Refresher : refresh'[r] = IdleRefresh \/ refresh'[r] = refresh[r]
  BY <1>2
<1>4. submitter' \in Submission /\ (submitter' = submitter \/ submitter'.at = "gone")
  BY <1>1 DEF IInv, CampaignTypeOK, Submission
<1>5. failures' \in 0 .. MaxFailures
  BY <1>1, FailureCounted
<1>6. refresh' \in [Refresher -> Refreshing]
  BY <1>2, IdleTyped DEF IInv, CampaignTypeOK
<1>7. artifact' \in [Image -> ArtifactState]
  BY <1>2 DEF IInv, CampaignTypeOK, BrokenOff, ArtifactState
<1>8. CampaignTypeOK'
  BY <1>1, <1>4, <1>5, <1>6, <1>7 DEF IInv, CampaignTypeOK, ArtifactState
<1>9. FileSound' /\ CallsSound' /\ DownloadsImages'
  BY <1>1, <1>3, IdleTyped DEF IInv, FileSound, CallsSound, CallSound, DownloadsImages
<1>10. HandedFirst'
  BY <1>1, <1>3, <1>4, IdleTyped DEF IInv, HandedFirst, Handed
<1> QED
  BY <1>8, <1>9, <1>10 DEF IInv

LEMMA StepPreserves == IInv /\ [Next]_vars => IInv'
<1> SUFFICES ASSUME IInv, [Next]_vars
             PROVE  IInv'
  OBVIOUS
<1>1. CASE UNCHANGED vars
  BY <1>1 DEF vars, downloads, IInv, CampaignTypeOK, FileSound, CallsSound, CallSound, HandedFirst,
              Handed, DownloadsImages
<1>2. ASSUME NEW r \in Refresher, Begin(r) \/ Finishes(r)
      PROVE  IInv'
  BY <1>2, AskPreserves, DownloadedPreserves, QuietStepsPreserve, FileStepsPreserve
  DEF Finishes
<1> QED
  BY <1>1, <1>2, MasterPreserves, SubmitPreserves, FailurePreserves DEF Next

-----------------------------------------------------------------------------
(* The types of a campaign; in particular an image is only asked for when it *)
(* has a task, and what a document says of it is one of the statuses.        *)
THEOREM CampaignTypeCorrect == Spec => []CampaignTypeOK
<1>1. IInv => CampaignTypeOK
  BY DEF IInv
<1> QED
  BY InitEstablishes, StepPreserves, <1>1, PTL DEF Spec

(* state.json says COMPLETED only when the files of every image have been     *)
(* downloaded to their end (refresh_campaign), however many refreshes,       *)
(* failures and deletions overlap and whatever the master makes of a task   *)
(* afterwards.  A later refresh may still download them again and break them. *)
THEOREM CompletedCampaignIsFetched == Spec => []CompletedIsFetched
<1>1. IInv => CompletedIsFetched
  BY DEF IInv, CampaignTypeOK, FileSound, Honest, Succeeded, CompletedIsFetched
<1> QED
  BY InitEstablishes, StepPreserves, <1>1, PTL DEF Spec
=============================================================================
