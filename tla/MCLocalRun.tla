----------------------------- MODULE MCLocalRun -----------------------------
EXTENDS Comparison, FiniteSets

CONSTANTS p1, p2, c1, c2

TwoPollers == {p1, p2}
TwoComparers == {c1, c2}

Writers == {c \in Comparer : compare[c].at \notin {"read", "gone"}}
               \cup {u \in {"update"} : update.at \in {"open", "write"}}

(* Bounds: comparisons and the refresh write once the loop of the local run  *)
(* is through and while no poll looks at it and nothing has crashed; no      *)
(* more than two of them are under way at a time.  c1 comes first and        *)
(* compares "this".                                                         *)
Bounds == /\ Writers # {} => /\ metrics = "whole"
                             /\ crashes = 0
                             /\ \A p \in Poller : polls[p].at = "idle"
          /\ Cardinality(Writers) <= 2
          /\ Comparer # {} =>
                /\ compare[c1].local # "other"
                /\ compare[c1].at = "read" => compare[c2].at = "read"

MCNext == ComparisonNext /\ Bounds'

MCSpec == ComparisonInit /\ [][MCNext]_allVars /\ ComparisonFairness
=============================================================================
