-------------------------- MODULE MCSessionDispatch --------------------------
(* Instances of SessionDispatch for TLC.                                   *)
EXTENDS SessionDispatch

CONSTANT u1

(* A plan of one unit.                                                     *)
OneUnit     == {u1}
OneRevision == [u \in OneUnit |-> 1]
NoDeps      == [u \in OneUnit |-> {}]

(* Faults for a goal of one attempt, none for a goal of two.               *)
FaultsOfOne == [n \in Attempts |-> IF n = 1 THEN 2 ELSE 0]
=============================================================================
