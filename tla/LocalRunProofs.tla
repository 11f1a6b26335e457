--------------------------- MODULE LocalRunProofs ---------------------------
(***************************************************************************)
(* Machine-checked proofs about LocalRun and Comparison, for any number of   *)
(* images, polls, comparisons and crashes.                                  *)
(***************************************************************************)
EXTENDS Comparison, TLAPS

USE ImageAssumption, CrashAssumption

UnderWay(doc, i) == doc.images[i] \in {"BUILDING", "RUNNING"}
AtRest(doc) == \A i \in Image : ~UnderWay(doc, i)

(* What makes a document safe to read, for a poll that marks the first       *)
(* unfinished image as the one that failed and for the worker.              *)
UnderWayIsFirst(doc) == \A i \in Image : UnderWay(doc, i) =>
    \A j \in Image : j < i => doc.images[j] \notin Unfinished

Sound(doc) == /\ UnderWayIsFirst(doc)
              /\ ~Unended(doc) => AtRest(doc)
              /\ doc.status = "COMPLETED" => \A i \in Image : doc.images[i] = "SUCCESS"

(* What the worker holds when it has loaded the run and is at image next.    *)
GeneratedTo(doc, next) ==
    /\ \A i \in Image : i < next => doc.images[i] = "SUCCESS"
    /\ \A i \in Image : i > next => ~UnderWay(doc, i)
    /\ doc.status \in {"RUNNING", "COMPLETED", "FAILED"}
    /\ doc.status = "COMPLETED" => next = N + 1
    /\ doc.status = "FAILED" => AtRest(doc)

Loading == Creating \cup {"load"}
Looping == {"next", "build", "run", "copy"} \cup Ending

FileSound == file \notin Unreadable => Sound(file)

PollsSound == \A p \in Poller : polls[p].at \in {"open", "write"} =>
    Sound(polls[p].doc) /\ AtRest(polls[p].doc)

(* Before it is loaded only polls can have touched the run. *)
SoundLabour(w) ==
    /\ w.at \in Loading => w.doc = NewRun /\ w.next = 1
    /\ w.at \notin Loading \cup {"gone"} => GeneratedTo(w.doc, w.next)
    /\ w.at \in Looping => w.doc.status = "RUNNING"
    /\ w.at \in {"build", "run", "copy"} => w.next \in Image
    /\ w.at \in Ending => w.next = N + 1

WorkerSound == SoundLabour(worker)
LoadsAtRest == worker.at \in Loading /\ file \notin Unreadable => AtRest(file)

LocalInv == LocalTypeOK /\ FileSound /\ PollsSound /\ LoadsAtRest /\ WorkerSound

-----------------------------------------------------------------------------
(* The documents. *)

LEMMA NewRunSound == NewRun \in Document /\ Sound(NewRun) /\ AtRest(NewRun)
BY DEF NewRun, Document, ImageStatus, Unfinished, Sound, AtRest, UnderWay,
       UnderWayIsFirst

(* Marked as interrupted, a document whose first unfinished image is the only *)
(* one that can be under way shows none under way.                          *)
LEMMA InterruptedSound ==
    ASSUME NEW doc \in Document, UnderWayIsFirst(doc)
    PROVE  /\ Interrupted(doc) \in Document
           /\ Interrupted(doc).status = "FAILED"
           /\ AtRest(Interrupted(doc)) /\ Sound(Interrupted(doc))
<1> DEFINE new == Interrupted(doc)
<1>1. /\ new \in Document /\ new.status = "FAILED"
      /\ \A i \in Image : new.images[i] = IF First(doc, i) THEN "FAILED" ELSE doc.images[i]
  BY DEF Interrupted, Document, ImageStatus
<1>2. ASSUME NEW i \in Image, UnderWay(doc, i)
      PROVE  First(doc, i)
  <2>1. \A j \in 1 .. i - 1 : j \in Image /\ j < i
    BY DEF Image
  <2> QED
    BY <1>2, <2>1 DEF UnderWayIsFirst, UnderWay, First, Unfinished
<1>3. AtRest(new)
  BY <1>1, <1>2 DEF AtRest, UnderWay
<1> QED
  BY <1>1, <1>3 DEF Sound, AtRest, UnderWayIsFirst, Unended

LEMMA GeneratedSound ==
    ASSUME NEW doc \in Document, NEW next \in 1 .. N + 1, GeneratedTo(doc, next)
    PROVE  Sound(doc)
<1>1. UnderWayIsFirst(doc)
  <2> SUFFICES ASSUME NEW i \in Image, UnderWay(doc, i), NEW j \in Image, j < i
               PROVE  doc.images[j] \notin Unfinished
    BY DEF UnderWayIsFirst
  <2>1. i = next
    <3>1. ~(i < next)
      BY DEF GeneratedTo, UnderWay
    <3>2. ~(i > next)
      BY DEF GeneratedTo
    <3> QED
      BY <3>1, <3>2 DEF Image
  <2> QED
    BY <2>1 DEF GeneratedTo, Unfinished
<1>2. doc.status = "COMPLETED" => \A i \in Image : doc.images[i] = "SUCCESS"
  BY DEF GeneratedTo, Image
<1>3. ~Unended(doc) => AtRest(doc)
  BY <1>2 DEF GeneratedTo, Unended, AtRest, UnderWay
<1> QED
  BY <1>1, <1>2, <1>3 DEF Sound

LEMMA ProgressGenerates ==
    ASSUME NEW doc \in Document, NEW next \in Image, GeneratedTo(doc, next),
           doc.status = "RUNNING", NEW status \in ImageStatus
    PROVE  LET new == [doc EXCEPT !.images[next] = status]
           IN  /\ new \in Document /\ new.status = "RUNNING"
               /\ GeneratedTo(new, next)
               /\ status = "SUCCESS" => GeneratedTo(new, next + 1)
<1> DEFINE new == [doc EXCEPT !.images[next] = status]
<1>1. /\ new \in Document /\ new.status = "RUNNING"
      /\ \A i \in Image : new.images[i] = IF i = next THEN status ELSE doc.images[i]
  BY DEF Document
<1> HIDE DEF new
<1>2. \A i \in Image : /\ i < next => new.images[i] = "SUCCESS"
                       /\ i > next => ~UnderWay(new, i)
  BY <1>1 DEF GeneratedTo, UnderWay, Image
<1>3. GeneratedTo(new, next)
  BY <1>1, <1>2 DEF GeneratedTo
<1>4. ASSUME status = "SUCCESS"
      PROVE  GeneratedTo(new, next + 1)
  <2>1. \A i \in Image : i < next + 1 => new.images[i] = "SUCCESS"
    BY <1>1, <1>2, <1>4 DEF Image
  <2>2. \A i \in Image : i > next + 1 => ~UnderWay(new, i)
    BY <1>2 DEF Image
  <2> QED
    BY <1>1, <2>1, <2>2 DEF GeneratedTo
<1> QED
  BY <1>1, <1>3, <1>4 DEF new

-----------------------------------------------------------------------------
LEMMA InitEstablishes == Init => LocalInv
<1> SUFFICES ASSUME Init
             PROVE  LocalInv
  OBVIOUS
<1>1. 1 \in 1 .. N + 1 /\ 0 \in 0 .. MaxCrashes
  OBVIOUS
<1>2. worker \in Labour /\ worker.at \in Creating /\ worker.doc = NewRun /\ worker.next = 1
  BY <1>1, NewRunSound DEF Init, Labour, Creating
<1>3. IdlePoll \in Polling /\ IdlePoll.at = "idle"
  BY NewRunSound DEF IdlePoll, Polling
<1>4. LocalTypeOK
  BY <1>1, <1>2, <1>3 DEF Init, LocalTypeOK, Unreadable
<1>5. WorkerSound
  BY <1>2 DEF WorkerSound, SoundLabour, Loading, Looping, Creating, Ending
<1>6. FileSound /\ LoadsAtRest
  BY DEF Init, FileSound, LoadsAtRest, Unreadable
<1>7. PollsSound
  BY <1>3 DEF Init, PollsSound
<1> QED
  BY <1>4, <1>5, <1>6, <1>7 DEF LocalInv

(* The worker goes on as new, and leaves the file as f.                     *)
LEMMA WorkPreserves ==
    ASSUME LocalInv, NEW from, NEW new \in Labour, Work(from, new), SoundLabour(new),
           NEW f \in Document \cup Unreadable, file' = f,
           f \notin Unreadable => Sound(f),
           new.at \in Loading /\ f \notin Unreadable => AtRest(f),
           metrics' \in Unreadable \cup {"whole"},
           benchmark' \in Unreadable \cup Benchmark, assets' \in {"whole", Empty},
           thread' \in BOOLEAN
    PROVE  LocalInv'
<1>1. worker' = new /\ UNCHANGED <<polls, origin, crashes, shared>>
  BY DEF Work
<1>2. LocalTypeOK'
  BY <1>1 DEF LocalInv, LocalTypeOK
<1>3. WorkerSound'
  BY <1>1 DEF WorkerSound
<1>4. FileSound' /\ LoadsAtRest'
  BY <1>1 DEF FileSound, LoadsAtRest
<1>5. PollsSound'
  BY <1>1 DEF LocalInv, PollsSound
<1> QED
  BY <1>2, <1>3, <1>4, <1>5 DEF LocalInv

(* A poll goes on as new, and leaves the file as f.                         *)
LEMMA LookPreserves ==
    ASSUME LocalInv, NEW p \in Poller, NEW from, NEW new \in Polling, Look(p, from, new),
           new.at \in {"open", "write"} => Sound(new.doc) /\ AtRest(new.doc),
           NEW f \in Document \cup Unreadable, file' = f,
           f \notin Unreadable => Sound(f),
           worker.at \in Loading /\ f \notin Unreadable => AtRest(f)
    PROVE  LocalInv'
<1>1. polls' = [polls EXCEPT ![p] = new]
      /\ UNCHANGED <<metrics, benchmark, assets, shared, worker, origin, thread, crashes>>
  BY DEF Look, outputs
<1>2. polls' \in [Poller -> Polling] /\ \A q \in Poller : polls'[q] = IF q = p THEN new ELSE polls[q]
  BY <1>1 DEF LocalInv, LocalTypeOK
<1>3. LocalTypeOK'
  BY <1>1, <1>2 DEF LocalInv, LocalTypeOK
<1>4. WorkerSound'
  BY <1>1 DEF LocalInv, WorkerSound
<1>5. FileSound' /\ LoadsAtRest'
  BY <1>1 DEF FileSound, LoadsAtRest
<1>6. PollsSound'
  BY <1>2 DEF LocalInv, PollsSound
<1> QED
  BY <1>3, <1>4, <1>5, <1>6 DEF LocalInv

-----------------------------------------------------------------------------
(* The worker. *)

LEMMA WorkerTyped ==
    ASSUME LocalInv
    PROVE  /\ worker \in Labour /\ worker.doc \in Document /\ worker.next \in 1 .. N + 1
           /\ SoundLabour(worker)
           /\ file \in Document \cup Unreadable
           /\ file \notin Unreadable => Sound(file)
           /\ worker.at \in Loading /\ file \notin Unreadable => AtRest(file)
           /\ metrics \in Unreadable \cup {"whole"}
           /\ benchmark \in Unreadable \cup Benchmark
           /\ assets \in {"whole", Empty} /\ shared \in Unreadable \cup Benchmark
           /\ thread \in BOOLEAN
BY DEF LocalInv, LocalTypeOK, WorkerSound, FileSound, LoadsAtRest, Labour

LEMMA Relabelled ==
    ASSUME NEW w \in Labour,
           NEW label \in Creating \cup Working \cup Ending \cup {"gone"}
    PROVE  /\ [w EXCEPT !.at = label] \in Labour
           /\ [w EXCEPT !.at = label].at = label
           /\ [w EXCEPT !.at = label].doc = w.doc
           /\ [w EXCEPT !.at = label].next = w.next
BY DEF Labour

LEMMA Redrafted ==
    ASSUME NEW w \in Labour, NEW doc \in Document
    PROVE  LET new == [[w EXCEPT !.at = "reopen"] EXCEPT !.doc = doc]
           IN  /\ new \in Labour /\ new.at = "reopen"
               /\ new.doc = doc /\ new.next = w.next
BY DEF Labour, Working

(* Whatever it writes over is truncated first, or torn by what is written.   *)
LEMMA Writing ==
    ASSUME NEW f, NEW g, NEW doc \in Document, f \in AfterWrite(g, doc)
    PROVE  f \in Document \cup Unreadable /\ (f \notin Unreadable => f = doc)
BY DEF AfterWrite, Unreadable

(* The steps on the way to the loop. *)
LEMMA CreatesPreserve ==
    ASSUME LocalInv, Create \/ OpenNew \/ WriteNew \/ StartThread
    PROVE  LocalInv'
<1>1. /\ worker \in Labour /\ worker.at \in Loading
      /\ worker.doc = NewRun /\ worker.next = 1
      /\ file' \in {file, Empty} \cup AfterWrite(file, NewRun)
      /\ UNCHANGED outputs /\ thread' \in BOOLEAN
  <2>1. worker.at \in Creating
    BY DEF Create, OpenNew, WriteNew, StartThread, Work, Creating
  <2>2. worker.doc = NewRun
    BY <2>1, WorkerTyped DEF SoundLabour, Loading
  <2>3. file' \in {file, Empty} \cup AfterWrite(file, NewRun)
    BY <2>2 DEF Create, OpenNew, WriteNew, StartThread
  <2>4. UNCHANGED outputs /\ thread' \in BOOLEAN
    BY WorkerTyped DEF Create, OpenNew, WriteNew, StartThread
  <2> QED
    BY <2>1, <2>3, <2>4, WorkerTyped DEF SoundLabour, Loading
<1>2. PICK from \in Creating, label \in {"open", "write", "start", "load"} : Work(from, At(label))
  BY DEF Create, OpenNew, WriteNew, StartThread, Creating
<1>3. PICK new \in Labour : /\ Work(from, new) /\ new.at = label
                            /\ new.doc = NewRun /\ new.next = 1
  <2>1. label \in Creating \cup Working
    BY DEF Creating, Working
  <2>2. /\ At(label) \in Labour /\ At(label).at = label
        /\ At(label).doc = NewRun /\ At(label).next = 1
    BY <1>1, <2>1, Relabelled DEF At
  <2> QED
    BY <1>2, <2>2 DEF Work
<1>4. SoundLabour(new)
  BY <1>3 DEF SoundLabour, Loading, Looping, Creating, Ending
<1>5. PICK f \in Document \cup Unreadable :
         /\ file' = f
         /\ f \notin Unreadable => Sound(f) /\ AtRest(f)
  <2>1. CASE file' = file
    BY <1>1, <2>1, WorkerTyped
  <2>2. CASE file' = Empty
    BY <2>2 DEF Unreadable
  <2>3. CASE file' \in AfterWrite(file, NewRun)
    BY <2>3, NewRunSound, Writing
  <2> QED
    BY <1>1, <2>1, <2>2, <2>3
<1> QED
  BY <1>1, <1>3, <1>4, <1>5, WorkerTyped, WorkPreserves DEF outputs

(* The file is read as it is. *)
LEMMA LoadPreserves == LocalInv /\ Load => LocalInv'
<1> SUFFICES ASSUME LocalInv, Load
             PROVE  LocalInv'
  OBVIOUS
<1>1. UNCHANGED <<file, metrics, benchmark, assets, thread>> /\ worker.at = "load"
  BY DEF Load, Work, outputs
<1>2. worker.doc = NewRun /\ worker.next = 1
  BY <1>1, WorkerTyped DEF SoundLabour, Loading
<1>3. PICK new \in Labour :
        /\ Work("load", new) /\ SoundLabour(new) /\ new.at \notin Loading
  <2>1. CASE file \in Unreadable
    <3>1. PICK new \in Labour : Work("load", new) /\ new.at = "gone"
      BY <2>1, WorkerTyped, Relabelled DEF Load, At
    <3> QED
      BY <3>1 DEF SoundLabour, Loading, Looping, Creating, Ending
  <2>2. CASE file \notin Unreadable
    <3> DEFINE doc == [file EXCEPT !.status = "RUNNING"]
               new == [At("reopen") EXCEPT !.doc = doc]
    <3>1. doc \in Document /\ doc.status = "RUNNING" /\ doc.images = file.images
      BY <2>2, WorkerTyped DEF Document
    <3>2. \A i \in Image : ~UnderWay(doc, i)
      BY <1>1, <2>2, <3>1, WorkerTyped DEF AtRest, UnderWay, Loading
    <3>3. GeneratedTo(doc, 1)
      BY <3>1, <3>2 DEF GeneratedTo, Image
    <3>4. Work("load", new)
      BY <2>2 DEF Load
    <3> HIDE DEF doc
    <3>5. new \in Labour /\ new.at = "reopen" /\ new.doc = doc /\ new.next = 1
      BY <1>2, <3>1, WorkerTyped, Redrafted DEF At
    <3>6. SoundLabour(new)
      BY <3>3, <3>5 DEF SoundLabour, Loading, Looping, Creating, Ending
    <3> HIDE DEF new
    <3> QED
      BY <3>4, <3>5, <3>6 DEF Loading, Creating
  <2> QED
    BY <2>1, <2>2
<1> QED
  BY <1>1, <1>3, WorkerTyped, WorkPreserves

(* A step of the worker that goes on at a label, with the document it has.   *)
LEMMA RewritesPreserve ==
    ASSUME LocalInv, Reopen \/ Rewrite
    PROVE  LocalInv'
<1>1. /\ UNCHANGED <<metrics, benchmark, assets, thread>>
      /\ worker.at \in {"reopen", "rewrite"}
      /\ file' = Empty \/ file' \in AfterWrite(file, worker.doc)
  BY DEF Reopen, Rewrite, Work, outputs
<1>2. GeneratedTo(worker.doc, worker.next) /\ Sound(worker.doc)
  BY <1>1, WorkerTyped, GeneratedSound DEF SoundLabour, Loading, Creating
<1>3. PICK f \in Document \cup Unreadable : file' = f /\ (f \notin Unreadable => Sound(f))
  BY <1>1, <1>2, WorkerTyped, Writing DEF Unreadable
<1>4. PICK from \in {"reopen", "rewrite"}, new \in Labour :
         Work(from, new) /\ SoundLabour(new) /\ new.at \notin Loading
  <2>1. CASE Reopen
    <3>1. PICK new \in Labour : /\ Work("reopen", new) /\ new.at = "rewrite"
                                /\ new.doc = worker.doc /\ new.next = worker.next
      BY <2>1, WorkerTyped, Relabelled DEF Reopen, At, Working
    <3> QED
      BY <1>2, <3>1 DEF SoundLabour, Loading, Looping, Creating, Ending
  <2>2. CASE Rewrite
    <3>1. Onward(worker.doc) \in {"gone", "build", "run", "next"}
      BY DEF Onward
    <3>2. PICK new \in Labour : /\ Work("rewrite", new) /\ new.at = Onward(worker.doc)
                                /\ new.doc = worker.doc /\ new.next = worker.next
      BY <2>2, <3>1, WorkerTyped, Relabelled DEF Rewrite, At, Working
    <3>3. new.at # "gone" => worker.doc.status = "RUNNING"
      BY <1>2, <3>2 DEF Onward, GeneratedTo, Unended
    <3>4. new.at \in {"build", "run"} => worker.next \in Image
      <4>1. SUFFICES ASSUME new.at \in {"build", "run"}
                     PROVE  worker.next \in Image
        OBVIOUS
      <4>2. PICK i \in Image : UnderWay(worker.doc, i)
        BY <3>2, <4>1 DEF Onward, UnderWay
      <4>3. ~(i > worker.next) /\ ~(i < worker.next)
        BY <1>2, <4>2 DEF GeneratedTo, UnderWay
      <4> QED
        BY <4>3, WorkerTyped DEF Image
    <3>5. new.at \notin Loading \cup Ending
      BY <3>1, <3>2 DEF Loading, Creating, Ending
    <3>6. SoundLabour(new)
      BY <1>2, <3>1, <3>2, <3>3, <3>4, <3>5 DEF SoundLabour, Looping
    <3> QED
      BY <3>2, <3>5, <3>6
  <2> QED
    BY <2>1, <2>2
<1> QED
  BY <1>1, <1>3, <1>4, WorkerTyped, WorkPreserves

(* The images, one after the other. *)
LEMMA ProgressPreserves ==
    ASSUME LocalInv, BeginImage \/ Built \/ Copied
    PROVE  LocalInv'
<1>1. UNCHANGED <<file, metrics, benchmark, thread>> /\ assets' \in {"whole", Empty}
  BY WorkerTyped DEF BeginImage, Built, Copied, Progress
<1>2. worker.at \in {"next", "build", "copy"} /\ worker.next \in Image
  BY WorkerTyped DEF BeginImage, Built, Copied, Progress, Work, SoundLabour
<1>3. GeneratedTo(worker.doc, worker.next) /\ worker.doc.status = "RUNNING"
  BY <1>2, WorkerTyped DEF SoundLabour, Loading, Creating, Looping
<1>4. PICK from \in {"next", "build", "copy"}, status \in ImageStatus, next \in {worker.next, worker.next + 1} :
         /\ Progress(from, status, next)
         /\ next = worker.next + 1 => status = "SUCCESS"
  <2>1. worker.next # worker.next + 1
    BY <1>2 DEF Image
  <2> QED
    BY <2>1 DEF BeginImage, Built, Copied, ImageStatus, Unfinished
<1> DEFINE doc == [worker.doc EXCEPT !.images[worker.next] = status]
           new == [at |-> "reopen", next |-> next, doc |-> doc]
<1>5. doc \in Document /\ doc.status = "RUNNING" /\ GeneratedTo(doc, next)
  BY <1>2, <1>3, <1>4, WorkerTyped, ProgressGenerates
<1>6. Work(from, new)
  BY <1>4 DEF Progress
<1> HIDE DEF doc
<1>7. next \in 1 .. N + 1
  BY <1>2, <1>4 DEF Image
<1>8. new \in Labour
  BY <1>5, <1>7 DEF Labour, Working
<1>9. SoundLabour(new) /\ new.at \notin Loading
  BY <1>5 DEF SoundLabour, Loading, Looping, Creating, Ending
<1> HIDE DEF new
<1> QED
  BY <1>1, <1>6, <1>8, <1>9, WorkerTyped, WorkPreserves

(* The copy of what an image has left begins, or breaks off.                 *)
LEMMA CopyPreserves ==
    ASSUME LocalInv, Ran \/ CopyBreaks
    PROVE  LocalInv'
<1>1. UNCHANGED <<file, metrics, benchmark, thread>> /\ assets' \in {"whole", Empty}
  BY WorkerTyped DEF Ran, CopyBreaks, outputs
<1>2. PICK from \in {"run", "copy"}, label \in {"copy", "gone"} :
         Work(from, At(label)) /\ worker.at = from
  BY DEF Ran, CopyBreaks, Work
<1>3. /\ GeneratedTo(worker.doc, worker.next) /\ worker.doc.status = "RUNNING"
      /\ worker.next \in Image
  BY <1>2, WorkerTyped DEF SoundLabour, Loading, Creating, Looping
<1>4. PICK new \in Labour : /\ Work(from, new) /\ new.at = label
                            /\ new.doc = worker.doc /\ new.next = worker.next
  BY <1>2, WorkerTyped, Relabelled DEF At, Working
<1>5. SoundLabour(new) /\ new.at \notin Loading
  BY <1>3, <1>4 DEF SoundLabour, Loading, Looping, Creating, Ending
<1> QED
  BY <1>1, <1>4, <1>5, WorkerTyped, WorkPreserves

LEMMA BreaksPreserves == LocalInv /\ Breaks => LocalInv'
<1> SUFFICES ASSUME LocalInv, Breaks
             PROVE  LocalInv'
  OBVIOUS
<1> DEFINE doc == Interrupted(worker.doc)
           new == [At("reopen") EXCEPT !.doc = doc]
<1>1. UNCHANGED <<file, metrics, benchmark, assets, thread>> /\ worker.at \in {"build", "run"}
  BY DEF Breaks, Work, outputs
<1>2. /\ GeneratedTo(worker.doc, worker.next) /\ worker.next \in Image
      /\ worker.doc.status = "RUNNING"
  BY <1>1, WorkerTyped DEF SoundLabour, Loading, Creating, Looping
<1>3. Sound(worker.doc)
  BY <1>2, WorkerTyped, GeneratedSound
<1>4. doc \in Document /\ doc.status = "FAILED" /\ AtRest(doc)
  BY <1>3, WorkerTyped, InterruptedSound DEF Sound
<1>5. \A i \in Image : i < worker.next => doc.images[i] = "SUCCESS"
  BY <1>2 DEF Interrupted, GeneratedTo, First, Unfinished
<1>6. PICK from : Work(from, new)
  BY DEF Breaks
<1> HIDE DEF doc
<1>7. GeneratedTo(doc, worker.next)
  BY <1>4, <1>5 DEF GeneratedTo, AtRest
<1>8. new \in Labour /\ new.at = "reopen" /\ new.doc = doc /\ new.next = worker.next
  BY <1>4, WorkerTyped, Redrafted DEF At
<1> HIDE DEF new
<1>9. SoundLabour(new) /\ new.at \notin Loading
  BY <1>7, <1>8 DEF SoundLabour, Loading, Looping, Creating, Ending
<1> QED
  BY <1>1, <1>6, <1>8, <1>9, WorkerTyped, WorkPreserves

(* What is behind the loop. *)
LEMMA EndingPreserves ==
    ASSUME LocalInv,
           OpenMetrics \/ WriteMetrics \/ OpenBenchmark \/ FinishBreaks
    PROVE  LocalInv'
<1>1. /\ UNCHANGED <<file, assets, thread>>
      /\ metrics' \in Unreadable \cup {"whole"}
      /\ benchmark' \in Unreadable \cup Benchmark
  BY WorkerTyped DEF OpenMetrics, WriteMetrics, OpenBenchmark, FinishBreaks, outputs, Unreadable
<1>2. PICK from \in {"next", "metrics", "gallery"}, label \in Ending \cup {"gone"} : Work(from, At(label))
  BY DEF OpenMetrics, WriteMetrics, OpenBenchmark, FinishBreaks, Ending
<1>3. worker.at \in {"next", "metrics", "gallery"} /\ worker.next = N + 1
  BY WorkerTyped DEF OpenMetrics, WriteMetrics, OpenBenchmark, FinishBreaks,
                     Work, SoundLabour, Ending
<1>4. GeneratedTo(worker.doc, worker.next) /\ worker.doc.status = "RUNNING"
  BY <1>3, WorkerTyped DEF SoundLabour, Loading, Creating, Looping, Ending
<1>5. PICK new \in Labour : /\ Work(from, new) /\ new.at = label
                            /\ new.doc = worker.doc /\ new.next = worker.next
  BY <1>2, WorkerTyped, Relabelled DEF At
<1>6. SoundLabour(new) /\ new.at \notin Loading
  BY <1>3, <1>4, <1>5 DEF SoundLabour, Loading, Looping, Creating, Ending
<1> QED
  BY <1>1, <1>5, <1>6, WorkerTyped, WorkPreserves

LEMMA FinishPreserves == LocalInv /\ Finish => LocalInv'
<1> SUFFICES ASSUME LocalInv, Finish
             PROVE  LocalInv'
  OBVIOUS
<1> DEFINE doc == [worker.doc EXCEPT !.status = "COMPLETED"]
           new == [At("reopen") EXCEPT !.doc = doc]
<1>1. /\ UNCHANGED <<file, metrics, assets, thread>> /\ worker.at = "benchmark"
      /\ benchmark' \in AfterWrite(benchmark, LocalOnly)
  BY DEF Finish, Work
<1>2. benchmark' \in Unreadable \cup Benchmark
  <2>1. LocalOnly \in Benchmark
    BY DEF LocalOnly, Benchmark
  <2> QED
    BY <1>1, <2>1 DEF AfterWrite, Unreadable
<1>3. GeneratedTo(worker.doc, worker.next) /\ worker.next = N + 1
  BY <1>1, WorkerTyped DEF SoundLabour, Loading, Creating, Ending
<1>4. doc \in Document /\ doc.status = "COMPLETED" /\ doc.images = worker.doc.images
  BY WorkerTyped DEF Document
<1>5. Work("benchmark", new)
  <2>1. At("reopen").doc = worker.doc
    BY WorkerTyped, Relabelled DEF At, Working
  <2>2. [At("reopen") EXCEPT !.doc.status = "COMPLETED"] = new
    BY <2>1
  <2> QED
    BY <2>2 DEF Finish
<1> HIDE DEF doc
<1>6. GeneratedTo(doc, worker.next)
  BY <1>3, <1>4 DEF GeneratedTo, UnderWay
<1>7. new \in Labour /\ new.at = "reopen" /\ new.doc = doc /\ new.next = worker.next
  BY <1>4, WorkerTyped, Redrafted DEF At
<1> HIDE DEF new
<1>8. SoundLabour(new) /\ new.at \notin Loading
  BY <1>6, <1>7 DEF SoundLabour, Loading, Looping, Creating, Ending
<1> QED
  BY <1>1, <1>2, <1>5, <1>7, <1>8, WorkerTyped, WorkPreserves

LEMMA GeneratePreserves == LocalInv /\ Generate => LocalInv'
BY CreatesPreserve, LoadPreserves, RewritesPreserve, ProgressPreserves, CopyPreserves,
   BreaksPreserves, EndingPreserves, FinishPreserves DEF Generate

-----------------------------------------------------------------------------
(* The polls. *)

LEMMA PollTyped ==
    ASSUME LocalInv, NEW p \in Poller
    PROVE  polls[p] \in Polling /\ polls[p].doc \in Document
BY DEF LocalInv, LocalTypeOK, Polling

LEMMA IdleTyped ==
    /\ IdlePoll \in Polling /\ IdlePoll.at = "idle"
    /\ \A label \in {"idle", "check", "mark"} :
          /\ [IdlePoll EXCEPT !.at = label] \in Polling
          /\ [IdlePoll EXCEPT !.at = label].at = label
BY NewRunSound DEF IdlePoll, Polling

(* What a poll has marked is at rest, so that it may be written over a run   *)
(* that is not loaded yet.                                                  *)
LEMMA PollPreserves ==
    ASSUME LocalInv, NEW p \in Poller, Poll(p)
    PROVE  LocalInv'
<1>1. CASE List(p) \/ Check(p)
  <2>1. PICK from \in {"idle", "check"}, label \in {"idle", "check", "mark"} :
           Look(p, from, [IdlePoll EXCEPT !.at = label]) /\ file' = file
    BY <1>1 DEF List, Check, ToMark
  <2>2. PICK new \in Polling : Look(p, from, new) /\ new.at \in {"idle", "check", "mark"}
    BY <2>1, IdleTyped DEF Look
  <2> QED
    BY <2>1, <2>2, WorkerTyped, LookPreserves
<1>2. CASE Mark(p)
  <2>1. CASE file \notin Unreadable /\ Unended(file)
    <3>1. Interrupted(file) \in Document /\ Sound(Interrupted(file)) /\ AtRest(Interrupted(file))
      BY <2>1, WorkerTyped, InterruptedSound DEF Sound
    <3> DEFINE new == [at |-> "open", doc |-> Interrupted(file)]
    <3>2. Look(p, "mark", new) /\ file' = file
      BY <1>2, <2>1 DEF Mark
    <3>3. new \in Polling /\ new.doc = Interrupted(file)
      BY <3>1 DEF Polling
    <3> HIDE DEF new
    <3> QED
      BY <3>1, <3>2, <3>3, WorkerTyped, LookPreserves
  <2>2. CASE ~(file \notin Unreadable /\ Unended(file))
    <3>1. Look(p, "mark", IdlePoll) /\ file' = file
      BY <1>2, <2>2 DEF Mark
    <3> QED
      BY <3>1, IdleTyped, WorkerTyped, LookPreserves
  <2> QED
    BY <2>1, <2>2
<1>3. CASE OpenMarked(p)
  <2> DEFINE new == [polls[p] EXCEPT !.at = "write"]
  <2>1. Look(p, "open", new) /\ file' = Empty /\ polls[p].at = "open"
    BY <1>3 DEF OpenMarked, Look
  <2>2. Sound(polls[p].doc) /\ AtRest(polls[p].doc)
    BY <2>1 DEF LocalInv, PollsSound
  <2>3. new \in Polling /\ new.doc = polls[p].doc
    BY PollTyped DEF Polling
  <2>4. Empty \in Document \cup Unreadable /\ Empty \in Unreadable
    BY DEF Unreadable
  <2> HIDE DEF new
  <2> QED
    BY <2>1, <2>2, <2>3, <2>4, LookPreserves
<1>4. CASE WriteMarked(p)
  <2>1. /\ Look(p, "write", IdlePoll) /\ polls[p].at = "write"
        /\ file' \in AfterWrite(file, polls[p].doc)
    BY <1>4 DEF WriteMarked, Look
  <2>2. Sound(polls[p].doc) /\ AtRest(polls[p].doc)
    BY <2>1 DEF LocalInv, PollsSound
  <2>3. PICK f \in Document \cup Unreadable :
           /\ file' = f
           /\ f \notin Unreadable => Sound(f) /\ AtRest(f)
    BY <2>1, <2>2, PollTyped, Writing
  <2> QED
    BY <2>1, <2>3, IdleTyped, LookPreserves
<1> QED
  BY <1>1, <1>2, <1>3, <1>4 DEF Poll

(* Crashes: what has died does nothing any more, the files of the run stay    *)
(* as they are.                                                             *)
LEMMA CrashPreserves ==
    ASSUME LocalInv, ServerCrash \/ CommandLineCrash
    PROVE  LocalInv'
<1>1. /\ UNCHANGED <<file, metrics, benchmark, assets, origin>>
      /\ shared' \in Unreadable \cup Benchmark
      /\ crashes < MaxCrashes /\ crashes' = crashes + 1
      /\ worker' = worker \/ worker' = [worker EXCEPT !.at = "gone"]
      /\ polls' = polls \/ polls' = [p \in Poller |-> IdlePoll]
      /\ thread' \in BOOLEAN
  BY WorkerTyped DEF ServerCrash, CommandLineCrash, Crash, At, outputs, Unreadable
<1>2. /\ worker' \in Labour /\ worker'.at \in {worker.at, "gone"}
      /\ worker'.at = "gone" \/ worker' = worker
  <2>1. [worker EXCEPT !.at = "gone"] \in Labour /\ [worker EXCEPT !.at = "gone"].at = "gone"
    BY WorkerTyped, Relabelled
  <2> QED
    BY <1>1, <2>1, WorkerTyped
<1>3. polls' \in [Poller -> Polling] /\ PollsSound'
  BY <1>1, IdleTyped DEF LocalInv, LocalTypeOK, PollsSound
<1>4. crashes' \in 0 .. MaxCrashes
  <2>1. PICK n \in 0 .. MaxCrashes : crashes = n
    BY DEF LocalInv, LocalTypeOK
  <2> QED
    BY <1>1, <2>1
<1>5. LocalTypeOK'
  BY <1>1, <1>2, <1>3, <1>4 DEF LocalInv, LocalTypeOK
<1>6. FileSound' /\ LoadsAtRest'
  BY <1>1, <1>2 DEF LocalInv, FileSound, LoadsAtRest, Loading, Creating
<1>7. WorkerSound'
  BY <1>2 DEF LocalInv, WorkerSound, SoundLabour, Loading, Looping, Creating, Ending
<1> QED
  BY <1>3, <1>5, <1>6, <1>7 DEF LocalInv

(* Nobody reads a benchmark.json to go on with the run. *)
LEMMA BenchmarkAside ==
    ASSUME LocalInv, UNCHANGED <<file, metrics, assets, worker, polls, origin, thread, crashes>>,
           benchmark' \in Unreadable \cup Benchmark, shared' \in Unreadable \cup Benchmark
    PROVE  LocalInv'
BY DEF LocalInv, LocalTypeOK, FileSound, PollsSound, LoadsAtRest, WorkerSound

LEMMA StutterPreserves == LocalInv /\ UNCHANGED vars => LocalInv'
BY WorkerTyped, BenchmarkAside DEF vars, runVars, outputs

LEMMA StepPreserves == LocalInv /\ [Next]_vars => LocalInv'
BY GeneratePreserves, PollPreserves, CrashPreserves, StutterPreserves DEF Next

LEMMA LocalInvImplies ==
    LocalInv => LocalTypeOK /\ CompletedIsComplete /\ EndedIsAtRest
BY DEF LocalInv, FileSound, Sound, AtRest, UnderWay, CompletedIsComplete, EndedIsAtRest

LEMMA LocalInvariance == Spec => []LocalInv
BY InitEstablishes, StepPreserves, PTL DEF Spec

(* The variables of a local run keep their types. *)
THEOREM LocalTypeCorrect == Spec => []LocalTypeOK
BY LocalInvariance, LocalInvImplies, PTL

(* run_local_generation writes COMPLETED only over images that are all       *)
(* SUCCESS, and no poll that marks the run under its hands, crash or torn    *)
(* write makes state.json say COMPLETED of anything else.                   *)
THEOREM CompletedRunIsComplete == Spec => []CompletedIsComplete
BY LocalInvariance, LocalInvImplies, PTL

(* Whoever ends a run, the worker in its "except" or a poll from the file it *)
(* has read, leaves no image BUILDING or RUNNING in it.                     *)
THEOREM EndedRunIsAtRest == Spec => []EndedIsAtRest
BY LocalInvariance, LocalInvImplies, PTL

-----------------------------------------------------------------------------
(* Comparison. *)
Comparing == {"open", "write", "read back", "open copy", "write copy"}
Call == [at : Comparing \cup {"read", "gone"},
         local : {"none", "this", "other"}, doc : Benchmark]
Update == [at : {"read", "open", "write", "gone"}, doc : Benchmark]

(* What a call reads back has been opened. *)
Opened == {Empty, Torn} \cup Benchmark

ComparisonInv ==
    /\ compare \in [Comparer -> Call] /\ update \in Update
    /\ \A c \in Comparer : compare[c].at = "read back" => shared \in Opened

(* How a step may leave the two files. *)
SharedGoesOn == shared' = shared \/ shared' \in Opened
BenchmarkGoesOn == benchmark' = benchmark \/ benchmark' \in Opened

LEMMA NoMetricsTyped ==
    /\ NoMetrics \in Benchmark /\ Waiting \in Call /\ Over \in Call
    /\ ReadyToUpdate \in Update /\ Updated \in Update
    /\ Waiting.at = "read" /\ Over.at = "gone"
BY DEF NoMetrics, Benchmark, Waiting, Over, ReadyToUpdate, Updated, Call, Update

LEMMA OpenedTyped == Opened \subseteq Unreadable \cup Benchmark
BY DEF Opened, Unreadable

LEMMA CallTyped ==
    ASSUME ComparisonInv, NEW c \in Comparer
    PROVE  /\ compare[c] \in Call /\ compare[c].doc \in Benchmark
           /\ compare[c].at = "read back" => shared \in Opened
BY DEF ComparisonInv, Call

LEMMA ComparisonInitEstablishes == ComparisonInit => LocalInv /\ ComparisonInv
<1> SUFFICES ASSUME ComparisonInit
             PROVE  LocalInv /\ ComparisonInv
  OBVIOUS
<1>1. ComparisonInv
  BY NoMetricsTyped DEF ComparisonInit, ComparisonInv
<1> QED
  BY <1>1, InitEstablishes DEF ComparisonInit

(* A step of the run itself. *)
LEMMA RunLeavesShared ==
    ASSUME LocalInv, [Next]_vars
    PROVE  SharedGoesOn
<1>1. CASE Generate
  BY <1>1 DEF Generate, Create, OpenNew, WriteNew, StartThread, Load, Reopen, Rewrite,
              BeginImage, Built, Ran, Copied, CopyBreaks, Progress, Breaks, OpenMetrics,
              WriteMetrics, OpenBenchmark, Finish, FinishBreaks, Work, SharedGoesOn
<1>2. ASSUME NEW p \in Poller, Poll(p)
      PROVE  SharedGoesOn
  BY <1>2 DEF Poll, List, Check, Mark, OpenMarked, WriteMarked, Look, SharedGoesOn
<1>3. CASE ServerCrash \/ CommandLineCrash
  BY <1>3 DEF ServerCrash, CommandLineCrash, Crash, SharedGoesOn, Opened
<1>4. CASE UNCHANGED vars
  BY <1>4 DEF vars, SharedGoesOn
<1> QED
  BY <1>1, <1>2, <1>3, <1>4 DEF Next

(* A call of compare_runs goes on as new. *)
LEMMA TurnsPreserve ==
    ASSUME LocalInv, ComparisonInv, NEW c \in Comparer, NEW from, NEW new \in Call,
           Turns(c, from, new), new.at = "read back" => shared' \in Opened,
           SharedGoesOn, BenchmarkGoesOn
    PROVE  LocalInv' /\ ComparisonInv'
<1>1. /\ UNCHANGED <<file, metrics, assets, worker, polls, origin, thread, crashes, update>>
      /\ compare' = [compare EXCEPT ![c] = new]
  BY DEF Turns
<1>2. LocalInv'
  BY <1>1, WorkerTyped, OpenedTyped, BenchmarkAside DEF SharedGoesOn, BenchmarkGoesOn
<1>3. /\ compare' \in [Comparer -> Call]
      /\ \A d \in Comparer : compare'[d] = IF d = c THEN new ELSE compare[d]
  BY <1>1 DEF ComparisonInv
<1>4. ComparisonInv'
  BY <1>1, <1>3 DEF ComparisonInv, SharedGoesOn
<1> QED
  BY <1>2, <1>4

LEMMA CallRelabelled ==
    ASSUME NEW call \in Call, NEW label \in Comparing
    PROVE  /\ [call EXCEPT !.at = label] \in Call
           /\ [call EXCEPT !.at = label].at = label
BY DEF Call

LEMMA ReadPreserves ==
    ASSUME LocalInv, ComparisonInv, NEW c \in Comparer, Read(c)
    PROVE  LocalInv' /\ ComparisonInv'
<1>1. SharedGoesOn /\ BenchmarkGoesOn
  BY DEF Read, SharedGoesOn, BenchmarkGoesOn
<1>2. PICK local \in {"this", "other"}, swarm \in BOOLEAN :
         Turns(c, "read", [at |-> "open", local |-> local,
                           doc |-> [local |-> local, swarm |-> swarm]])
  BY DEF Read
<1> DEFINE new == [at |-> "open", local |-> local,
                   doc |-> [local |-> local, swarm |-> swarm]]
<1>3. new \in Call /\ new.at = "open"
  BY DEF Call, Benchmark, Comparing
<1> HIDE DEF new
<1> QED
  BY <1>1, <1>2, <1>3, TurnsPreserve DEF new

LEMMA GoesOnPreserves ==
    ASSUME LocalInv, ComparisonInv, NEW c \in Comparer, GoesOn(c)
    PROVE  LocalInv' /\ ComparisonInv'
<1>1. SharedGoesOn
  BY CallTyped DEF GoesOn, OpenShared, WriteShared, ReadBack, OpenCopy, WriteCopy,
                   AfterWrite, SharedGoesOn, Opened
<1>2. BenchmarkGoesOn
  BY CallTyped DEF GoesOn, OpenShared, WriteShared, ReadBack, OpenCopy, WriteCopy,
                   AfterWrite, BenchmarkGoesOn, Opened
<1>3. PICK from \in Comparing, new \in Call :
         Turns(c, from, new) /\ (new.at = "read back" => shared' \in Opened)
  <2>1. CASE OpenShared(c) \/ OpenCopy(c)
    <3>1. PICK from \in {"open", "open copy"}, label \in {"write", "write copy"} :
             Turns(c, from, [compare[c] EXCEPT !.at = label])
      BY <2>1 DEF OpenShared, OpenCopy
    <3> DEFINE new == [compare[c] EXCEPT !.at = label]
    <3>2. from \in Comparing /\ label \in Comparing
      BY DEF Comparing
    <3>3. new \in Call /\ new.at = label
      BY <3>2, CallTyped, CallRelabelled
    <3>4. Turns(c, from, new)
      BY <3>1
    <3> HIDE DEF new
    <3> QED
      BY <3>2, <3>3, <3>4
  <2>2. CASE WriteShared(c)
    <3> DEFINE new == [compare[c] EXCEPT !.at = "read back"]
    <3>1. Turns(c, "write", new)
      BY <2>2 DEF WriteShared
    <3>2. shared' \in Opened
      BY <2>2, CallTyped DEF WriteShared, AfterWrite, Opened
    <3>3. "write" \in Comparing /\ "read back" \in Comparing
      BY DEF Comparing
    <3>4. new \in Call
      BY <3>3, CallTyped, CallRelabelled
    <3> HIDE DEF new
    <3> QED
      BY <3>1, <3>2, <3>3, <3>4
  <2>3. CASE ReadBack(c) /\ (HalfWritten(shared) \/ compare[c].local # "this")
    <3>1. Turns(c, "read back", Over) /\ "read back" \in Comparing
      BY <2>3 DEF ReadBack, Comparing
    <3> QED
      BY <3>1, NoMetricsTyped
  <2>4. CASE ReadBack(c) /\ ~(HalfWritten(shared) \/ compare[c].local # "this")
    <3> DEFINE new == [compare[c] EXCEPT !.at = "open copy", !.doc = shared]
    <3>1. Turns(c, "read back", new) /\ compare[c].at = "read back"
      BY <2>4 DEF ReadBack, Turns
    <3>2. shared \in Benchmark
      BY <2>4, <3>1, CallTyped DEF HalfWritten, Opened
    <3>3. new \in Call /\ new.at = "open copy" /\ "read back" \in Comparing
      BY <3>2, CallTyped DEF Call, Comparing
    <3> HIDE DEF new
    <3> QED
      BY <3>1, <3>3
  <2>5. CASE WriteCopy(c)
    <3>1. Turns(c, "write copy", Over) /\ "write copy" \in Comparing
      BY <2>5 DEF WriteCopy, Comparing
    <3> QED
      BY <3>1, NoMetricsTyped
  <2> QED
    BY <2>1, <2>2, <2>3, <2>4, <2>5 DEF GoesOn
<1> QED
  BY <1>1, <1>2, <1>3, TurnsPreserve

(* The refresh of the swarm run. *)
LEMMA UpdatePreserves ==
    ASSUME LocalInv, ComparisonInv, ReadOld \/ UpdateGoesOn
    PROVE  LocalInv' /\ ComparisonInv'
<1>1. UNCHANGED runVars /\ UNCHANGED compare
  BY DEF ReadOld, UpdateGoesOn, OpenUpdate, WriteUpdate, Updating
<1>2. update \in Update /\ update.doc \in Benchmark
  BY DEF ComparisonInv, Update
<1>3. SharedGoesOn
  BY <1>2 DEF ReadOld, UpdateGoesOn, OpenUpdate, WriteUpdate, AfterWrite, SharedGoesOn, Opened
<1>4. LocalInv'
  BY <1>1, <1>3, WorkerTyped, OpenedTyped, BenchmarkAside DEF runVars, outputs, SharedGoesOn
<1>5. update' \in Update
  <2>1. CASE ReadOld /\ ~HalfWritten(shared)
    <3> DEFINE doc == [local |-> IF shared = NoFile THEN "none" ELSE shared.local,
                       swarm |-> TRUE]
    <3>1. update' = [at |-> "open", doc |-> doc]
      BY <2>1 DEF ReadOld, Updating
    <3>2. shared = NoFile \/ shared \in Benchmark
      BY <2>1, WorkerTyped DEF HalfWritten, Unreadable
    <3>3. doc \in Benchmark
      BY <3>2 DEF Benchmark
    <3> HIDE DEF doc
    <3> QED
      BY <3>1, <3>3 DEF Update
  <2>2. CASE ReadOld /\ HalfWritten(shared)
    BY <2>2, NoMetricsTyped DEF ReadOld, Updating
  <2>3. CASE OpenUpdate
    <3>1. update' = [update EXCEPT !.at = "write"]
      BY <2>3 DEF OpenUpdate, Updating
    <3> QED
      BY <1>2, <3>1 DEF Update
  <2>4. CASE WriteUpdate
    BY <2>4, NoMetricsTyped DEF WriteUpdate, Updating
  <2> QED
    BY <2>1, <2>2, <2>3, <2>4 DEF UpdateGoesOn
<1> QED
  BY <1>1, <1>3, <1>4, <1>5 DEF ComparisonInv, SharedGoesOn

LEMMA ComparisonCrashPreserves ==
    ASSUME LocalInv, ComparisonInv, ComparisonCrash
    PROVE  LocalInv' /\ ComparisonInv'
<1>1. LocalInv'
  BY CrashPreserves DEF ComparisonCrash
<1>2. update' \in {update, Updated} /\ SharedGoesOn
  BY DEF ComparisonCrash, ServerCrash, Crash, SharedGoesOn, Opened
<1>3. PICK died \in SUBSET Comparer :
         compare' = [c \in Comparer |-> IF c \in died THEN Over ELSE compare[c]]
  BY DEF ComparisonCrash
<1>4. /\ compare' \in [Comparer -> Call]
      /\ \A c \in Comparer : compare'[c] = compare[c] \/ compare'[c] = Over
  BY <1>3, NoMetricsTyped DEF ComparisonInv
<1>5. ComparisonInv'
  BY <1>2, <1>4, NoMetricsTyped DEF ComparisonInv, SharedGoesOn
<1> QED
  BY <1>1, <1>5

LEMMA ComparisonStepPreserves ==
    LocalInv /\ ComparisonInv /\ [ComparisonNext]_allVars
        => LocalInv' /\ ComparisonInv'
<1> SUFFICES ASSUME LocalInv, ComparisonInv, [ComparisonNext]_allVars
             PROVE  LocalInv' /\ ComparisonInv'
  OBVIOUS
<1>1. CASE [Next]_vars /\ UNCHANGED comparisonVars
  <2>1. SharedGoesOn /\ LocalInv'
    BY <1>1, RunLeavesShared, StepPreserves
  <2>2. ComparisonInv'
    BY <1>1, <2>1 DEF ComparisonInv, SharedGoesOn, comparisonVars
  <2> QED
    BY <2>1, <2>2
<1>2. CASE \E c \in Comparer : Read(c) \/ GoesOn(c)
  BY <1>2, ReadPreserves, GoesOnPreserves
<1>3. CASE ReadOld \/ UpdateGoesOn
  BY <1>3, UpdatePreserves
<1>4. CASE ComparisonCrash
  BY <1>4, ComparisonCrashPreserves
<1> QED
  BY <1>1, <1>2, <1>3, <1>4 DEF ComparisonNext, ComparisonStep, Next, allVars

LEMMA ComparisonInvariance == ComparisonSpec => [](LocalInv /\ ComparisonInv)
BY ComparisonInitEstablishes, ComparisonStepPreserves, PTL DEF ComparisonSpec

(* The comparisons, which write into the directory of the local run, do not  *)
(* take from it what it guarantees by itself.                               *)
THEOREM ComparisonsLeaveTheRun ==
    ComparisonSpec => [](LocalTypeOK /\ CompletedIsComplete /\ EndedIsAtRest)
BY ComparisonInvariance, LocalInvImplies, PTL

-----------------------------------------------------------------------------
(* Whose metrics the benchmark of the local run holds. *)

Own(f) == f \in Unreadable \/ f.local = "this"

(* What a call is about to write, there and here. *)
OwnCall(call) == /\ call.at \in {"open", "write"} => call.doc.local = call.local
                 /\ call.at \in {"open copy", "write copy"} => Own(call.doc)

AboutToRead(call) == call.at = "read back" /\ call.local = "this"

OwnInv == ~mixed =>
    /\ Own(benchmark)
    /\ \A c \in Comparer : /\ OwnCall(compare[c])
                           /\ AboutToRead(compare[c]) => Own(shared)

(* How a step may leave the benchmark of the local run.                     *)
BenchmarkStaysOwn == Own(benchmark) => Own(benchmark')

LEMMA OverIsOwn == OwnCall(Over) /\ ~AboutToRead(Over)
BY NoMetricsTyped DEF OwnCall, AboutToRead

LEMMA WaitingIsOwn == OwnCall(Waiting) /\ ~AboutToRead(Waiting)
BY DEF Waiting, OwnCall, AboutToRead

(* A call that has nothing to do with a step finds what it has written.      *)
LEMMA Noticed ==
    ASSUME mixed' = (mixed \/ Overwrites), ~mixed', NEW c \in Comparer,
           AboutToRead(compare[c]), compare'[c] = compare[c]
    PROVE  shared' = shared
BY DEF Overwrites, AboutToRead

(* The calls stay as they are, or die. *)
LEMMA AsideKeepsOwn ==
    ASSUME OwnInv, mixed' = (mixed \/ Overwrites), BenchmarkStaysOwn,
           \A c \in Comparer : compare'[c] = compare[c] \/ compare'[c] = Over
    PROVE  OwnInv'
<1> SUFFICES ASSUME ~mixed'
             PROVE  /\ Own(benchmark')
                    /\ \A c \in Comparer : /\ OwnCall(compare'[c])
                                           /\ AboutToRead(compare'[c]) => Own(shared')
  BY DEF OwnInv, Own, OwnCall, AboutToRead
<1>1. /\ Own(benchmark)
      /\ \A c \in Comparer : /\ OwnCall(compare[c])
                             /\ AboutToRead(compare[c]) => Own(shared)
  BY DEF OwnInv
<1>2. ASSUME NEW c \in Comparer
      PROVE  OwnCall(compare'[c]) /\ (AboutToRead(compare'[c]) => Own(shared'))
  BY <1>1, <1>2, OverIsOwn, Noticed
<1> QED
  BY <1>1, <1>2 DEF BenchmarkStaysOwn

(* One call goes on as new. *)
LEMMA TurnsKeepOwn ==
    ASSUME ComparisonInv, OwnInv, mixed' = (mixed \/ Overwrites), BenchmarkStaysOwn,
           NEW c \in Comparer, NEW from, NEW new, Turns(c, from, new),
           ~mixed => OwnCall(new) /\ (AboutToRead(new) => Own(shared'))
    PROVE  OwnInv'
<1> SUFFICES ASSUME ~mixed'
             PROVE  /\ Own(benchmark')
                    /\ \A d \in Comparer : /\ OwnCall(compare'[d])
                                           /\ AboutToRead(compare'[d]) => Own(shared')
  BY DEF OwnInv, Own, OwnCall, AboutToRead
<1>1. /\ Own(benchmark)
      /\ \A d \in Comparer : /\ OwnCall(compare[d])
                             /\ AboutToRead(compare[d]) => Own(shared)
      /\ ~mixed
  BY DEF OwnInv
<1>2. \A d \in Comparer : compare'[d] = IF d = c THEN new ELSE compare[d]
  BY DEF Turns, ComparisonInv
<1>3. ASSUME NEW d \in Comparer
      PROVE  OwnCall(compare'[d]) /\ (AboutToRead(compare'[d]) => Own(shared'))
  BY <1>1, <1>2, <1>3, Noticed
<1> QED
  BY <1>1, <1>3 DEF BenchmarkStaysOwn

LEMMA RunKeepsOwn ==
    ASSUME [Next]_vars
    PROVE  BenchmarkStaysOwn
<1>1. CASE Generate
  <2>1. UNCHANGED benchmark \/ benchmark' \in {Empty, Torn, LocalOnly}
    BY <1>1 DEF Generate, Create, OpenNew, WriteNew, StartThread, Load, Reopen, Rewrite,
                BeginImage, Built, Ran, Copied, CopyBreaks, Progress, Breaks, OpenMetrics,
                WriteMetrics, OpenBenchmark, Finish, FinishBreaks, AfterWrite, outputs
  <2> QED
    BY <2>1 DEF BenchmarkStaysOwn, Own, Unreadable, LocalOnly
<1>2. CASE \E p \in Poller : Poll(p)
  BY <1>2 DEF Poll, List, Check, Mark, OpenMarked, WriteMarked, Look, BenchmarkStaysOwn, outputs
<1>3. CASE ServerCrash \/ CommandLineCrash
  BY <1>3 DEF ServerCrash, CommandLineCrash, BenchmarkStaysOwn, outputs
<1>4. CASE UNCHANGED vars
  BY <1>4 DEF vars, runVars, outputs, BenchmarkStaysOwn
<1> QED
  BY <1>1, <1>2, <1>3, <1>4 DEF Next

(* The steps of one call. *)
LEMMA CallKeepsOwn ==
    ASSUME LocalInv, ComparisonInv, OwnInv, mixed' = (mixed \/ Overwrites),
           NEW c \in Comparer, Read(c) \/ GoesOn(c)
    PROVE  OwnInv'
<1>1. /\ compare[c] \in Call
      /\ ~mixed => OwnCall(compare[c])
  BY CallTyped DEF OwnInv
<1>2. CASE Read(c)
  <2>1. PICK local \in {"this", "other"}, swarm \in BOOLEAN :
           Turns(c, "read", [at |-> "open", local |-> local,
                             doc |-> [local |-> local, swarm |-> swarm]])
    BY <1>2 DEF Read
  <2>2. BenchmarkStaysOwn
    BY <1>2 DEF Read, BenchmarkStaysOwn
  <2> DEFINE new == [at |-> "open", local |-> local,
                     doc |-> [local |-> local, swarm |-> swarm]]
  <2>3. OwnCall(new) /\ ~AboutToRead(new)
    BY DEF OwnCall, AboutToRead
  <2>4. Turns(c, "read", new)
    BY <2>1
  <2> HIDE DEF new
  <2> QED
    BY <2>2, <2>3, <2>4, TurnsKeepOwn
<1>3. CASE OpenShared(c)
  <2> DEFINE new == [compare[c] EXCEPT !.at = "write"]
  <2>1. Turns(c, "open", new) /\ compare[c].at = "open" /\ BenchmarkStaysOwn
    BY <1>3 DEF OpenShared, Turns, BenchmarkStaysOwn
  <2>2. new.at = "write" /\ new.doc = compare[c].doc /\ new.local = compare[c].local
    BY <1>1 DEF Call
  <2> HIDE DEF new
  <2>3. ~mixed => OwnCall(new) /\ ~AboutToRead(new)
    BY <1>1, <2>1, <2>2 DEF OwnCall, AboutToRead
  <2> QED
    BY <2>1, <2>3, TurnsKeepOwn
<1>4. CASE WriteShared(c)
  <2> DEFINE new == [compare[c] EXCEPT !.at = "read back"]
  <2>1. Turns(c, "write", new) /\ compare[c].at = "write" /\ BenchmarkStaysOwn
    BY <1>4 DEF WriteShared, Turns, BenchmarkStaysOwn
  <2>2. new.at = "read back" /\ new.local = compare[c].local
    BY <1>1 DEF Call
  <2> HIDE DEF new
  <2>3. shared' \in {compare[c].doc, Torn}
    BY <1>4 DEF WriteShared, AfterWrite
  <2>4. ~mixed => OwnCall(new) /\ (AboutToRead(new) => Own(shared'))
    BY <1>1, <2>1, <2>2, <2>3 DEF OwnCall, AboutToRead, Own, Unreadable
  <2> QED
    BY <2>1, <2>4, TurnsKeepOwn
<1>5. CASE ReadBack(c) /\ (HalfWritten(shared) \/ compare[c].local # "this")
  <2>1. Turns(c, "read back", Over) /\ BenchmarkStaysOwn
    BY <1>5 DEF ReadBack, BenchmarkStaysOwn
  <2> QED
    BY <2>1, OverIsOwn, TurnsKeepOwn
<1>6. CASE ReadBack(c) /\ ~(HalfWritten(shared) \/ compare[c].local # "this")
  <2> DEFINE new == [compare[c] EXCEPT !.at = "open copy", !.doc = shared]
  <2>1. Turns(c, "read back", new) /\ compare[c].at = "read back" /\ BenchmarkStaysOwn
    BY <1>6 DEF ReadBack, Turns, BenchmarkStaysOwn
  <2>2. new.at = "open copy" /\ new.doc = shared
    BY <1>1 DEF Call
  <2> HIDE DEF new
  <2>3. ~mixed => Own(shared)
    BY <1>6, <2>1 DEF OwnInv, AboutToRead
  <2>4. ~mixed => OwnCall(new) /\ ~AboutToRead(new)
    BY <2>2, <2>3 DEF OwnCall, AboutToRead
  <2> QED
    BY <2>1, <2>4, TurnsKeepOwn
<1>7. CASE OpenCopy(c)
  <2> DEFINE new == [compare[c] EXCEPT !.at = "write copy"]
  <2>1. Turns(c, "open copy", new) /\ compare[c].at = "open copy" /\ BenchmarkStaysOwn
    BY <1>7 DEF OpenCopy, Turns, BenchmarkStaysOwn, Own, Unreadable
  <2>2. new.at = "write copy" /\ new.doc = compare[c].doc
    BY <1>1 DEF Call
  <2> HIDE DEF new
  <2>3. ~mixed => OwnCall(new) /\ ~AboutToRead(new)
    BY <1>1, <2>1, <2>2 DEF OwnCall, AboutToRead
  <2> QED
    BY <2>1, <2>3, TurnsKeepOwn
<1>8. CASE WriteCopy(c)
  <2>1. Turns(c, "write copy", Over) /\ compare[c].at = "write copy"
    BY <1>8 DEF WriteCopy, Turns
  <2>2. benchmark' \in {compare[c].doc, Torn}
    BY <1>8 DEF WriteCopy, AfterWrite
  <2>3. CASE mixed
    BY <2>3 DEF OwnInv
  <2>4. CASE ~mixed
    <3>1. BenchmarkStaysOwn
      BY <1>1, <2>1, <2>2, <2>4 DEF OwnCall, BenchmarkStaysOwn, Own, Unreadable
    <3> QED
      BY <3>1, <2>1, OverIsOwn, TurnsKeepOwn
  <2> QED
    BY <2>3, <2>4
<1> QED
  BY <1>2, <1>3, <1>4, <1>5, <1>6, <1>7, <1>8 DEF GoesOn

LEMMA StepKeepsOwn ==
    LocalInv /\ ComparisonInv /\ OwnInv /\ [ComparisonNext]_allVars => OwnInv'
<1> SUFFICES ASSUME LocalInv, ComparisonInv, OwnInv, [ComparisonNext]_allVars
             PROVE  OwnInv'
  OBVIOUS
<1>1. CASE UNCHANGED allVars
  BY <1>1 DEF allVars, vars, runVars, outputs, comparisonVars, OwnInv, Own, OwnCall, AboutToRead
<1>2. CASE ComparisonNext
  <2>1. ComparisonStep /\ mixed' = (mixed \/ Overwrites)
    BY <1>2 DEF ComparisonNext
  <2>2. CASE Next /\ UNCHANGED comparisonVars
    BY <2>1, <2>2, RunKeepsOwn, AsideKeepsOwn DEF comparisonVars
  <2>3. CASE \E c \in Comparer : Read(c) \/ GoesOn(c)
    BY <2>1, <2>3, CallKeepsOwn
  <2>4. CASE ReadOld \/ UpdateGoesOn
    <3>1. UNCHANGED runVars /\ UNCHANGED compare
      BY <2>4 DEF ReadOld, UpdateGoesOn, OpenUpdate, WriteUpdate, Updating
    <3>2. BenchmarkStaysOwn
      BY <3>1 DEF runVars, outputs, BenchmarkStaysOwn
    <3> QED
      BY <2>1, <3>1, <3>2, AsideKeepsOwn
  <2>5. CASE ComparisonCrash
    <3>1. BenchmarkStaysOwn
      BY <2>5 DEF ComparisonCrash, ServerCrash, outputs, BenchmarkStaysOwn
    <3>2. \A c \in Comparer : compare'[c] = compare[c] \/ compare'[c] = Over
      BY <2>5 DEF ComparisonCrash
    <3> QED
      BY <2>1, <3>1, <3>2, AsideKeepsOwn
  <2> QED
    BY <2>1, <2>2, <2>3, <2>4, <2>5 DEF ComparisonStep, Next
<1> QED
  BY <1>1, <1>2

(* compare_runs brings to a local run its own metrics, whoever else compares, *)
(* refreshes and writes, but through a file that was written over between its *)
(* writing and its reading back.                                            *)
THEOREM BenchmarkStaysItsOwn == ComparisonSpec => []BenchmarkIsOwnUnlessMixed
<1>1. ComparisonInit => OwnInv
  BY WaitingIsOwn DEF ComparisonInit, Init, OwnInv, Own, Unreadable
<1>2. OwnInv => BenchmarkIsOwnUnlessMixed
  BY DEF OwnInv, Own, BenchmarkIsOwnUnlessMixed
<1> QED
  BY <1>1, <1>2, StepKeepsOwn, ComparisonInvariance, PTL DEF ComparisonSpec
=============================================================================
