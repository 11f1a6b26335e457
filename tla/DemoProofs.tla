----------------------------- MODULE DemoProofs -----------------------------
(***************************************************************************)
(* Machine-checked proofs about Demo, for any number of agents and signals. *)
(***************************************************************************)
EXTENDS Demo, TLAPS

USE AgentCountAssumption, SignalAssumption

(* Where main is says how long the list is; behind its end there is at most  *)
(* the process that main has started and not enlisted yet.                  *)
ListFollowsMain ==
    /\ main.at \in {"start", "append"} => procs = main.next - 1
    /\ main.at = "append" => process[main.next] # "none"
    /\ main.at = "wait for master" => main.next = 1 /\ procs = 1
    /\ \A p \in Process : /\ p <= procs => process[p] # "none"
                          /\ p > procs => \/ process[p] = "none"
                                          \/ main.at = "append" /\ p = main.next

(* A call that waits has stopped what it is past, and no step undoes that,   *)
(* whichever calls interrupt it.                                            *)
Stopped(p) == process[p] \in {"killed", "ended"}
WaitersStop ==
    \A k \in 1 .. Len(cleanup) : cleanup[k].at = "wait" =>
        \A p \in 1 .. procs : p < cleanup[k].next => Stopped(p)

(* So when main has called it and the call is through, the list has stopped. *)
LeavingIsStopped ==
    /\ main.at = "leave" /\ cleanup = <<>> => \A p \in 1 .. procs : Stopped(p)
    /\ main.at \in {"returned", "raised"} => cleanup = <<>>

(* Every call is a signal's, but for the one of main. *)
CallsCounted ==
    Len(cleanup) <= signals + (IF main.at = "leave" THEN 1 ELSE 0)

IInv == /\ DemoTypeOK /\ ListFollowsMain /\ WaitersStop
        /\ LeavingIsStopped /\ CallsCounted /\ ReturnsAlone

-----------------------------------------------------------------------------
(* What becomes of the stack of calls. *)

LEMMA Pushed ==
    ASSUME NEW calls \in Seq(Frame), NEW c \in Frame
    PROVE  /\ <<c>> \o calls \in Seq(Frame)
           /\ Len(<<c>> \o calls) = Len(calls) + 1
           /\ (<<c>> \o calls)[1] = c
           /\ \A k \in 2 .. Len(calls) + 1 : (<<c>> \o calls)[k] = calls[k - 1]
OBVIOUS

LEMMA Popped ==
    ASSUME NEW calls \in Seq(Frame), calls # <<>>
    PROVE  /\ Tail(calls) \in Seq(Frame)
           /\ Len(Tail(calls)) = Len(calls) - 1
           /\ \A k \in 1 .. Len(calls) - 1 : Tail(calls)[k] = calls[k + 1]
OBVIOUS

LEMMA Turned ==
    ASSUME NEW calls \in Seq(Frame), calls # <<>>, NEW c \in Frame
    PROVE  /\ [calls EXCEPT ![1] = c] \in Seq(Frame)
           /\ Len([calls EXCEPT ![1] = c]) = Len(calls)
           /\ \A k \in 1 .. Len(calls) :
                 [calls EXCEPT ![1] = c][k] = IF k = 1 THEN c ELSE calls[k]
OBVIOUS

LEMMA Advanced ==
    ASSUME NEW call \in Frame, NEW n \in 0 .. AGENT_COUNT + 1, call.next <= n
    PROVE  /\ [call EXCEPT !.next = call.next + 1] \in Frame
           /\ [call EXCEPT !.next = call.next + 1].at = call.at
           /\ [call EXCEPT !.next = call.next + 1].next = call.next + 1
           /\ call.next \in Process /\ call.next \in 1 .. n
BY DEF Frame, Process

LEMMA Followed ==
    ASSUME main \in Place
    PROVE  /\ Following \in Place
           /\ Following.at \in {"start", "bind"}
           /\ Following.at = "start" => Following.next = main.next + 1
<1>1. main.next \in Process
  BY DEF Place
<1>2. CASE main.next = AGENT_COUNT + 1
  <2>1. Following = [main EXCEPT !.at = "bind"]
    BY <1>2 DEF Following, At
  <2> QED
    BY <2>1 DEF Place
<1>3. CASE main.next # AGENT_COUNT + 1
  <2>1. Following = [at |-> "start", next |-> main.next + 1]
    BY <1>3 DEF Following
  <2>2. main.next + 1 \in Process
    BY <1>1, <1>3 DEF Process
  <2> QED
    BY <2>1, <2>2 DEF Place
<1> QED
  BY <1>2, <1>3

LEMMA Moved ==
    ASSUME main \in Place
    PROVE  \A label \in {"start", "append", "wait for master", "bind", "loop", "handle",
                         "leave", "returned", "raised"} :
              At(label) \in Place /\ At(label).at = label /\ At(label).next = main.next
BY DEF Place, At

LEMMA PlaceTyped ==
    ASSUME DemoTypeOK
    PROVE  /\ main.next \in Process /\ Process \subseteq Nat
           /\ procs \in Nat /\ 1 .. procs \subseteq Process
<1>1. main.next \in Process /\ procs \in 0 .. AGENT_COUNT + 1
  BY DEF DemoTypeOK, Place
<1> QED
  BY <1>1 DEF Process

-----------------------------------------------------------------------------
LEMMA InitEstablishes == Init => IInv
<1> SUFFICES ASSUME Init
             PROVE  IInv
  OBVIOUS
<1>1. cleanup \in Seq(Frame) /\ Len(cleanup) = 0
  BY DEF Init
<1> QED
  BY <1>1 DEF Init, IInv, DemoTypeOK, Place, Process, ListFollowsMain, WaitersStop,
              LeavingIsStopped, CallsCounted, ReturnsAlone

(* A call of _cleanup that is beginning has nothing to show yet.             *)
LEMMA CallPreserves ==
    ASSUME IInv, Call, UNCHANGED <<process, procs>>
    PROVE  /\ cleanup' \in Seq(Frame)
           /\ Len(cleanup') = Len(cleanup) + 1
           /\ running' \in BOOLEAN
           /\ WaitersStop'
<1> DEFINE call == [at |-> "terminate", next |-> 1]
<1>1. call \in Frame /\ cleanup \in Seq(Frame)
  BY DEF Frame, IInv, DemoTypeOK
<1>2. cleanup' = <<call>> \o cleanup
  BY DEF Call
<1> HIDE DEF call
<1>3. /\ cleanup' \in Seq(Frame)
      /\ Len(cleanup') = Len(cleanup) + 1
      /\ cleanup'[1] = call
      /\ \A k \in 2 .. Len(cleanup) + 1 : cleanup'[k] = cleanup[k - 1]
  BY <1>1, <1>2, Pushed
<1>4. ASSUME NEW k \in 1 .. Len(cleanup'), cleanup'[k].at = "wait",
             NEW p \in 1 .. procs, p < cleanup'[k].next
      PROVE  Stopped(p)'
  <2>1. k # 1
    BY <1>3, <1>4 DEF call
  <2>2. k - 1 \in 1 .. Len(cleanup) /\ cleanup'[k] = cleanup[k - 1]
    BY <1>1, <1>3, <2>1
  <2> QED
    BY <1>4, <2>2 DEF IInv, WaitersStop, Stopped
<1> QED
  BY <1>3, <1>4 DEF WaitersStop, Call

LEMMA SignalPreserves ==
    ASSUME IInv, Signal
    PROVE  IInv'
<1>1. /\ cleanup' \in Seq(Frame) /\ Len(cleanup') = Len(cleanup) + 1
      /\ running' \in BOOLEAN /\ WaitersStop'
  BY CallPreserves DEF Signal
<1>2. Len(cleanup) \in Nat /\ cleanup' # <<>>
  BY <1>1 DEF IInv, DemoTypeOK
<1>3. CallsCounted'
  BY <1>1, <1>2 DEF IInv, DemoTypeOK, CallsCounted, Signal
<1>4. DemoTypeOK'
  BY <1>1, <1>2, <1>3 DEF IInv, DemoTypeOK, CallsCounted, Signal, Frame
<1> QED
  BY <1>1, <1>2, <1>3, <1>4 DEF IInv, Signal, ListFollowsMain, LeavingIsStopped,
                             ReturnsAlone

(* The innermost call goes on to new, which has stopped all it is past.      *)
LEMMA TurnPreserves ==
    ASSUME IInv, cleanup # <<>>, NEW new \in Frame,
           GoesOn([cleanup EXCEPT ![1] = new]),
           process' \in [Process -> {"none", "alive", "asked", "killed", "ended"}],
           \A p \in Process : /\ process'[p] = "none" <=> process[p] = "none"
                              /\ Stopped(p) => Stopped(p)',
           new.at = "wait" => \A p \in 1 .. procs : p < new.next => Stopped(p)'
    PROVE  IInv'
<1>1. cleanup \in Seq(Frame) /\ cleanup' = [cleanup EXCEPT ![1] = new]
  BY DEF IInv, DemoTypeOK, Frame, GoesOn
<1>2. /\ cleanup' \in Seq(Frame)
      /\ Len(cleanup') = Len(cleanup)
      /\ \A k \in 1 .. Len(cleanup) : cleanup'[k] = IF k = 1 THEN new ELSE cleanup[k]
  BY <1>1, Turned
<1>3. cleanup' # <<>>
  BY <1>1, <1>2
<1>4. 1 .. procs \subseteq Process /\ procs' = procs /\ main' = main
  <2>1. procs' = procs /\ main' = main
    BY DEF GoesOn
  <2>2. procs \in 0 .. AGENT_COUNT + 1
    BY DEF IInv, DemoTypeOK
  <2> QED
    BY <2>1, <2>2 DEF Process
<1>5. WaitersStop'
  BY <1>2, <1>4 DEF IInv, WaitersStop
<1>6. DemoTypeOK' /\ CallsCounted'
  BY <1>2, <1>4 DEF IInv, DemoTypeOK, CallsCounted, GoesOn
<1>8. ListFollowsMain'
  BY <1>4, PlaceTyped DEF IInv, ListFollowsMain
<1>7. LeavingIsStopped' /\ ReturnsAlone'
  BY <1>3, <1>4 DEF IInv, LeavingIsStopped, ReturnsAlone
<1> QED
  BY <1>5, <1>6, <1>7, <1>8 DEF IInv

LEMMA CleanupPreserves ==
    ASSUME IInv, Cleanup
    PROVE  IInv'
<1> USE DEF IInv
<1>1. cleanup \in Seq(Frame) /\ procs \in 0 .. AGENT_COUNT + 1
  BY DEF DemoTypeOK
<1>2. cleanup # <<>>
  BY DEF Cleanup, Terminate, AllTerminated, Waited, Kill, Back, Turn, Through
<1>3. cleanup[1] \in Frame /\ 1 \in 1 .. Len(cleanup)
  BY <1>1, <1>2
<1> DEFINE here == cleanup[1]
           next == [here EXCEPT !.next = here.next + 1]
<1>4. ASSUME here.next <= procs
      PROVE  /\ next \in Frame /\ next.at = here.at /\ next.next = here.next + 1
             /\ here.next \in Process /\ here.next \in 1 .. procs
  BY <1>1, <1>3, <1>4, Advanced
<1>5. Advance => GoesOn([cleanup EXCEPT ![1] = next])
  BY <1>1, <1>2 DEF Advance
<1>6. CASE Terminate
  <2>1. \A p \in Process : /\ process'[p] = "none" <=> process[p] = "none"
                           /\ Stopped(p) => Stopped(p)'
    BY <1>6 DEF Terminate, Stopped, DemoTypeOK
  <2>2. process' \in [Process -> {"none", "alive", "asked", "killed", "ended"}]
    BY <1>6 DEF Terminate, DemoTypeOK
  <2>3. here.next <= procs /\ next.at # "wait"
    BY <1>4, <1>6 DEF Terminate, Turn
  <2> QED
    BY <1>2, <1>4, <1>5, <1>6, <2>1, <2>2, <2>3, TurnPreserves DEF Terminate
<1>7. CASE AllTerminated
  <2> DEFINE new == [at |-> "wait", next |-> 1]
  <2>1. new \in Frame /\ \A p \in 1 .. procs : ~(p < new.next)
    BY <1>1 DEF Frame
  <2> QED
    BY <1>2, <1>7, <2>1, TurnPreserves DEF AllTerminated, DemoTypeOK, Stopped
<1>8. ASSUME Waited \/ Kill
      PROVE  IInv'
  <2>1. here.next <= procs /\ here.at = "wait" /\ Advance
    BY <1>8 DEF Waited, Kill, Turn
  <2>0. PICK q \in Process : q = here.next /\ q \in 1 .. procs
    BY <1>4, <2>1
  <2>2. \/ process[q] = "ended" /\ process' = process
        \/ process' = [process EXCEPT ![q] = "killed"]
    BY <1>8, <2>0 DEF Waited, Kill
  <2>6. /\ process' \in [Process -> {"none", "alive", "asked", "killed", "ended"}]
        /\ Stopped(q)'
        /\ \A p \in Process : p # q => process'[p] = process[p]
    BY <2>0, <2>2 DEF Stopped, DemoTypeOK
  <2>3. process[q] # "none"
    <3>1. q <= procs
      BY <2>0
    <3> QED
      BY <3>1 DEF ListFollowsMain
  <2>4. \A p \in Process : /\ process'[p] = "none" <=> process[p] = "none"
                           /\ Stopped(p) => Stopped(p)'
    BY <2>0, <2>3, <2>6 DEF Stopped
  <2>5. \A p \in 1 .. procs : p < next.next => Stopped(p)'
    <3> SUFFICES ASSUME NEW p \in 1 .. procs, p < next.next
                 PROVE  Stopped(p)'
      OBVIOUS
    <3>1. p < q + 1
      BY <1>4, <2>0, <2>1
    <3>2. p \in Process /\ (p = q \/ p < q)
      BY <2>0, <3>1 DEF Process
    <3>3. p < q => Stopped(p)
      BY <1>3, <2>0, <2>1 DEF WaitersStop
    <3> QED
      BY <2>4, <2>6, <3>2, <3>3
  <2> HIDE DEF next
  <2> QED
    BY <1>2, <1>4, <1>5, <2>1, <2>4, <2>5, <2>6, TurnPreserves
<1>9. CASE Back
  <2>1. /\ cleanup' = Tail(cleanup) /\ here.at = "wait" /\ here.next > procs
        /\ UNCHANGED <<process, procs, main, running, signals>>
    BY <1>9 DEF Back, Through, GoesOn
  <2>2. /\ cleanup' \in Seq(Frame)
        /\ Len(cleanup') = Len(cleanup) - 1
        /\ \A k \in 1 .. Len(cleanup) - 1 : cleanup'[k] = cleanup[k + 1]
    BY <1>1, <1>2, <2>1, Popped
  <2>3. \A k \in 1 .. Len(cleanup') : k + 1 \in 1 .. Len(cleanup)
    BY <1>1, <2>2
  <2>4. WaitersStop'
    BY <2>1, <2>2, <2>3 DEF WaitersStop, Stopped
  <2>5. \A p \in 1 .. procs : Stopped(p)
    BY <1>1, <1>3, <2>1 DEF WaitersStop, Frame
  <2>6. DemoTypeOK' /\ CallsCounted'
    BY <1>1, <2>1, <2>2 DEF DemoTypeOK, CallsCounted, Frame
  <2>7. ListFollowsMain' /\ LeavingIsStopped' /\ ReturnsAlone'
    BY <1>2, <2>1, <2>5 DEF ListFollowsMain, LeavingIsStopped, ReturnsAlone, Stopped
  <2> QED
    BY <2>4, <2>6, <2>7
<1> QED
  BY <1>6, <1>7, <1>8, <1>9 DEF Cleanup

(* A step of main by itself, to another place. *)
LEMMA MovePreserves ==
    ASSUME IInv, cleanup = <<>>, UNCHANGED <<cleanup, running, signals>>,
           main' \in Place, procs' \in 0 .. AGENT_COUNT + 1,
           process' \in [Process -> {"none", "alive", "asked", "killed", "ended"}],
           ListFollowsMain',
           main'.at \notin {"leave", "returned"}, main.at # "leave"
    PROVE  IInv'
<1>1. Len(cleanup) = 0
  OBVIOUS
<1>2. DemoTypeOK' /\ CallsCounted'
  BY <1>1 DEF IInv, DemoTypeOK, CallsCounted
<1>3. WaitersStop' /\ LeavingIsStopped' /\ ReturnsAlone'
  BY <1>1 DEF IInv, WaitersStop, LeavingIsStopped, ReturnsAlone
<1> QED
  BY <1>2, <1>3 DEF IInv

LEMMA MainPreserves ==
    ASSUME IInv, Main \/ Handled
    PROVE  IInv'
<1>1. cleanup = <<>>
  BY DEF Main, Handled, Start, Enlist, MasterReady, MasterFailed, Bind, Raise, Handle,
         Leave, Return, Step
<1>2. /\ main \in Place /\ main.next \in Process
      /\ procs \in 0 .. AGENT_COUNT + 1
      /\ process \in [Process -> {"none", "alive", "asked", "killed", "ended"}]
      /\ Process \subseteq Nat /\ signals \in 0 .. MaxSignals
      /\ DemoTypeOK /\ ListFollowsMain /\ LeavingIsStopped
  BY PlaceTyped DEF DemoTypeOK, IInv
<1>3. CASE Start
  <2>1. /\ main.at = "start" /\ main' = At("append")
        /\ process' = [process EXCEPT ![main.next] = "alive"]
        /\ UNCHANGED <<procs, cleanup, running, signals>>
    BY <1>3 DEF Start, Step, NoCall
  <2>2. main' \in Place /\ main'.at = "append" /\ main'.next = main.next
    BY <1>2, <2>1, Moved
  <2>3. ListFollowsMain'
    BY <1>2, <2>1, <2>2 DEF ListFollowsMain
  <2> QED
    BY <1>1, <1>2, <2>1, <2>2, <2>3, MovePreserves
<1>4. CASE Enlist
  <2>0. PICK n \in Process : n = main.next
    BY <1>2
  <2>1. /\ main.at = "append" /\ procs' = n
        /\ main' = (IF main.next = 1 THEN At("wait for master") ELSE Following)
        /\ UNCHANGED <<process, cleanup, running, signals>>
    BY <1>4, <2>0 DEF Enlist, Step, NoCall
  <2>2. /\ main' \in Place
        /\ main'.at \in {"wait for master", "start", "bind"}
        /\ main'.at = "wait for master" => main'.next = 1 /\ n = 1
        /\ main'.at = "start" => main'.next = n + 1
    BY <1>2, <2>0, <2>1, Moved, Followed
  <2>3. procs = n - 1 /\ process[n] # "none"
    BY <1>2, <2>0, <2>1 DEF ListFollowsMain
  <2>4. main'.at = "start" => procs' = main'.next - 1
    <3>1. procs' = n
      BY <2>1
    <3>2. main'.at = "start" => main'.next = n + 1
      BY <2>2
    <3> QED
      BY <3>1, <3>2 DEF Process
  <2>5. \A p \in Process : /\ p <= n <=> p <= n - 1 \/ p = n
                           /\ p > n <=> p > n - 1 /\ p # n
    BY DEF Process
  <2>6. ListFollowsMain'
    BY <1>2, <2>0, <2>1, <2>2, <2>3, <2>4, <2>5 DEF ListFollowsMain
  <2>7. procs' \in 0 .. AGENT_COUNT + 1
    <3>1. procs' = n
      BY <2>1
    <3> QED
      BY <3>1 DEF Process
  <2> QED
    BY <1>1, <1>2, <2>1, <2>2, <2>6, <2>7, MovePreserves
<1>5. CASE MasterReady
  <2>1. /\ main.at = "wait for master" /\ main' = Following
        /\ UNCHANGED <<process, procs, cleanup, running, signals>>
    BY <1>5 DEF MasterReady, Step, Alone, NoCall
  <2>2. /\ main' \in Place /\ main'.at \in {"start", "bind"}
        /\ main'.at = "start" => main'.next = main.next + 1
    BY <1>2, <2>1, Followed
  <2>3. main.next = 1 /\ procs = 1
    BY <1>2, <2>1 DEF ListFollowsMain
  <2>4. main'.at = "start" => procs' = main'.next - 1
    <3>1. main'.at = "start" => main'.next = 2
      BY <2>2, <2>3
    <3>2. procs' = 1
      BY <2>1, <2>3
    <3> QED
      BY <3>1, <3>2
  <2>5. ListFollowsMain'
    BY <1>2, <2>1, <2>2, <2>4 DEF ListFollowsMain
  <2> QED
    BY <1>1, <1>2, <2>1, <2>2, <2>5, MovePreserves
<1>6. ASSUME MasterFailed \/ Leave
      PROVE  IInv'
  <2>1. /\ main' = At("leave") /\ Call /\ UNCHANGED <<process, procs, signals>>
        /\ main.at \in {"wait for master", "loop"}
    BY <1>6 DEF MasterFailed, Leave, Step
  <2>2. /\ cleanup' \in Seq(Frame) /\ Len(cleanup') = Len(cleanup) + 1
        /\ running' \in BOOLEAN /\ WaitersStop'
    BY <2>1, CallPreserves
  <2>3. cleanup' # <<>> /\ Len(cleanup') = 1
    BY <1>1, <2>2
  <2>4. main' \in Place /\ main'.at = "leave"
    BY <1>2, <2>1, Moved
  <2>5. main'.at = "leave" /\ UNCHANGED signals /\ signals \in 0 .. MaxSignals
    BY <1>2, <2>1, <2>4
  <2>7. CallsCounted' /\ Len(cleanup') <= MaxSignals + 1
    BY <2>3, <2>5 DEF CallsCounted
  <2>8. DemoTypeOK'
    BY <1>2, <2>1, <2>2, <2>4, <2>7 DEF DemoTypeOK
  <2>6. ListFollowsMain' /\ LeavingIsStopped' /\ ReturnsAlone'
    BY <1>2, <2>1, <2>3, <2>4 DEF ListFollowsMain, LeavingIsStopped, ReturnsAlone, IInv
  <2> QED
    BY <2>2, <2>6, <2>7, <2>8 DEF IInv
<1>7. CASE Return
  <2>1. /\ main.at = "leave" /\ main' = At("returned")
        /\ UNCHANGED <<process, procs, cleanup, running, signals>>
    BY <1>7 DEF Return, Step, Alone, NoCall
  <2>2. main' \in Place /\ main'.at = "returned"
    BY <1>2, <2>1, Moved
  <2>3. \A p \in Process : p <= procs \/ p > procs
    BY <1>2
  <2>4. \A p \in Process : p <= procs => Stopped(p)
    BY <1>1, <1>2, <2>1 DEF LeavingIsStopped, Process
  <2>5. \A p \in Process : p > procs => process[p] = "none"
    BY <1>2, <2>1 DEF ListFollowsMain
  <2>6. ReturnsAlone'
    BY <2>1, <2>3, <2>4, <2>5 DEF ReturnsAlone, Stopped
  <2>7. Len(cleanup) = 0
    BY <1>1
  <2>8. DemoTypeOK' /\ CallsCounted'
    BY <2>1, <2>2, <2>7 DEF DemoTypeOK, CallsCounted, IInv
  <2>9. WaitersStop' /\ LeavingIsStopped'
    BY <1>1, <2>1, <2>2, <2>7 DEF WaitersStop, LeavingIsStopped, IInv
  <2>10. ListFollowsMain'
    BY <1>2, <2>1, <2>2 DEF ListFollowsMain
  <2> QED
    BY <2>6, <2>8, <2>9, <2>10 DEF IInv
<1>8. ASSUME Bind \/ Raise \/ Handle \/ Handled
      PROVE  IInv'
  <2>1. /\ main' \in {At("loop"), At("raised"), At("handle")}
        /\ UNCHANGED <<process, procs, cleanup, running, signals>>
        /\ main.at \in {"bind", "start", "loop", "handle"}
    BY <1>8 DEF Bind, Raise, Handle, Handled, Step, Alone, NoCall
  <2>2. main' \in Place /\ main'.at \in {"loop", "raised", "handle"}
    BY <1>2, <2>1, Moved
  <2>3. ListFollowsMain'
    BY <1>2, <2>1, <2>2 DEF ListFollowsMain
  <2> QED
    BY <1>1, <1>2, <2>1, <2>2, <2>3, MovePreserves
<1> QED
  BY <1>3, <1>4, <1>5, <1>6, <1>7, <1>8 DEF Main

LEMMA EndsPreserves ==
    ASSUME IInv, Ends
    PROVE  IInv'
<1>1. PICK p \in Process : /\ process[p] \in {"alive", "asked", "killed"}
                           /\ process' = [process EXCEPT ![p] = "ended"]
                           /\ UNCHANGED <<procs, main, cleanup, running, signals>>
  BY DEF Ends
<1>2. \A q \in Process : /\ process'[q] = "none" <=> process[q] = "none"
                         /\ Stopped(q) => Stopped(q)'
  BY <1>1 DEF IInv, DemoTypeOK, Stopped
<1>3. 1 .. procs \subseteq Process
  BY DEF IInv, DemoTypeOK, Process
<1>4. DemoTypeOK' /\ CallsCounted'
  BY <1>1 DEF IInv, DemoTypeOK, CallsCounted
<1>5. ListFollowsMain'
  BY <1>1, <1>2, PlaceTyped DEF IInv, ListFollowsMain
<1>6. WaitersStop' /\ LeavingIsStopped'
  BY <1>1, <1>2, <1>3 DEF IInv, WaitersStop, LeavingIsStopped
<1>7. ReturnsAlone'
  BY <1>1 DEF IInv, ReturnsAlone, DemoTypeOK
<1> QED
  BY <1>4, <1>5, <1>6, <1>7 DEF IInv

LEMMA StepPreserves == IInv /\ [Next]_vars => IInv'
<1> SUFFICES ASSUME IInv, [Next]_vars
             PROVE  IInv'
  OBVIOUS
<1>1. CASE UNCHANGED vars
  BY <1>1 DEF vars, IInv, DemoTypeOK, ListFollowsMain, WaitersStop, Stopped,
              LeavingIsStopped, CallsCounted, ReturnsAlone
<1> QED
  BY <1>1, SignalPreserves, CleanupPreserves, MainPreserves, EndsPreserves DEF Next

-----------------------------------------------------------------------------
(* The types of the runner's variables; in particular calls of _cleanup      *)
(* nest no deeper than there were signals, but for the one of main itself.  *)
THEOREM DemoTypeCorrect == Spec => []DemoTypeOK
<1>1. IInv => DemoTypeOK
  BY DEF IInv
<1> QED
  BY InitEstablishes, StepPreserves, <1>1, PTL DEF Spec

(* main returns only when every process it has started has ended or been     *)
(* killed: _cleanup, interrupted anywhere by any number of signals, misses   *)
(* none, and main starts none behind its back.                              *)
THEOREM ReturnsOnlyAlone == Spec => []ReturnsAlone
<1>1. IInv => ReturnsAlone
  BY DEF IInv
<1> QED
  BY InitEstablishes, StepPreserves, <1>1, PTL DEF Spec
=============================================================================
