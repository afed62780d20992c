----------------------------- MODULE MCGoalStore -----------------------------
(* Instances of GoalStore for TLC.                                         *)
EXTENDS GoalStore

CONSTANTS u1, u2, u3

(* Two independent units.                                                  *)
PairUnits       == {u1, u2}
PairDeps        == [u \in PairUnits |-> {}]

(* A plan of one unit, and a revision of it with one destructive unit.     *)
RevisedRevision    == [u \in PairUnits |-> IF u = u1 THEN 1 ELSE 2]
RevisedDestructive == {u2}
RevisedScopes      == {"start", "resume", "blocked-resume", "recover",
                       "raise-budget", u2}

(* One plan of three units: the third needs the first, only the first is   *)
(* required.                                                               *)
TripleUnits     == {u1, u2, u3}
TripleRevision  == [u \in TripleUnits |-> 1]
TripleDeps      == [u \in TripleUnits |-> IF u = u3 THEN {u1} ELSE {}]
TripleRequired  == {u1}

(* One plan of two independent units, of which the first is required.      *)
PairRevision    == [u \in PairUnits |-> 1]
PairRequired    == {u1}

(* Bound of the lifecycle instance: what follows an acknowledgement or a   *)
(* dispatcher's lost lease is left to the dispatch instance.  No transition*)
(* of a goal asks whether either has happened.                             *)
SettledElsewhere ==
    /\ \A a \in Attempts : cancellation[a] # "acknowledged"
    /\ dispatcherExpired = {}
=============================================================================
