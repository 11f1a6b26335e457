------------------------------ MODULE MCSwarm ------------------------------
EXTENDS Swarm, FiniteSets

CONSTANTS MaxFailures,  \* failed calls and crashes in a run
          Mortal        \* the agents they happen to; agents are alike

VARIABLES failures,
          workers       \* how many of Thread there are

CONSTANTS h1, h2, a1, a2

OneHost == {h1}
TwoHosts == {h1, h2}
OneAgent == {a1}
TwoAgents == {a1, a2}
OneTask == {1}
OneThread == {1}
TwoThreads == {1, 2}

SamePriority == [t \in Task |-> 10]
Unlimited == [t \in Task |-> NoLimit]

None == {}
Zero == {0}
OneOutcome == {<<"SUCCESS", "zero">>}
TwoOutcomes == {<<"SUCCESS", "zero">>, <<"FAILED", "null">>}

Anywhere == Run!Sending \cup Run!Waiting \cup {"execute", "sleep"}
Executing == {"execute"}
BetweenTasks == {"poll", "polling", "sleep"}
Beating == {"beat"}

(* The hosts are alike, so h1 registers first.                              *)
FirstHostFirst ==
    \A s \in Thread : req'[s].op = "register" /\ req'[s].host = h2 =>
        hosts'[h1].status # "NONE"

(* With more than one worker the hazards are the overlapping handlers:       *)
(* containers succeed, and all that fails is a registration whose answer is  *)
(* lost.  It is then in the way, instead of cancellations and heartbeats of  *)
(* the thread.                                                               *)
LostPoll == \E a \in Mortal : /\ at[a] = "polling" /\ id[a] = NoHost
                              /\ at'[a] = "sleep"
Deleting == \E s \in Thread : req[s].op # "delete" /\ req'[s].op = "delete"
Beats == \E a \in Agent : beat'[a] = "posting"

MCInit == SwarmInit /\ failures = 0 /\ workers \in 1 .. Cardinality(Thread)

MCNext == /\ \/ Smooth /\ UNCHANGED failures
             \/ /\ failures < MaxFailures
                /\ failures' = failures + 1
                /\ \E a \in Mortal : Failure(a)
          /\ \A s \in Thread : s > workers => pc'[s] = "idle"
          /\ workers > 1 => /\ failures' # failures => LostPoll
                            /\ failures' > 0 => ~(Deleting \/ Beats)
                            /\ \A a \in Agent : outcome'[a][1] # "FAILED"
          /\ FirstHostFirst
          /\ UNCHANGED workers

mcVars == <<swarmVars, failures, workers>>

MCSpec == MCInit /\ [][MCNext]_mcVars

MCFairSpec == MCSpec /\ Fairness
=============================================================================
