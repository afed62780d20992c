------------------------- MODULE MCIntelligenceRuns -------------------------
(* Instances of IntelligenceRuns for TLC.                                  *)
EXTENDS IntelligenceRuns

CONSTANTS e1, e2, e3, s1

(* Runs of one workspace.                                                  *)
OneWorkspace  == {e1}
SameWorkspace == [r \in Runs |-> e1]

(* Two or three runs, each in a workspace of its own.                      *)
TwoWorkspaces     == {e1, e2}
EachOfTwo         == [r \in Runs |-> IF r = 1 THEN e1 ELSE e2]
ThreeWorkspaces   == {e1, e2, e3}
EachOwnWorkspace  == [r \in Runs |-> CASE r = 1 -> e1 [] r = 2 -> e2 [] r = 3 -> e3]

(* Bound: a second run of the workspace is followed only when nobody asked *)
(* for the cancellation of the first; a cancelled first run is followed to *)
(* its end, and through the restarts, by itself.                           *)
SuccessorOfUncancelled ==
    state[2] # "none" =>
        \A i \in DOMAIN events[1] :
            events[1][i].state \notin {"cancelling", "cancelled"}
=============================================================================
