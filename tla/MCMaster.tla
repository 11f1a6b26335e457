------------------------------ MODULE MCMaster ------------------------------
EXTENDS Master, TLC

CONSTANT MaxRequests    \* requests in a run

VARIABLE requests

CONSTANTS h1, h2, w1, w2

TwoHosts == {h1, h2}
OneHost == {h1}
OneTask == {1}
TwoTasks == {1, 2}
TwoThreads == {w1, w2}
OneThread == {w1}

SamePriority == [t \in Task |-> 10]
Unlimited == [t \in Task |-> NoLimit]
OneUnit == [t \in Task |-> 1]

Zero == {0}
OnlyOne == {1}

OneOutcome == {<<"SUCCESS", "zero">>}

MCInit == Init /\ requests = 0

MCNext == \/ /\ requests < MaxRequests
             /\ requests' = requests + 1
             /\ \E s \in Thread : Requests(s)
          \/ Work /\ UNCHANGED requests

MCSpec == MCInit /\ [][MCNext]_<<vars, requests>>

Interchangeable == Permutations(Thread) \cup Permutations(Host)
=============================================================================
