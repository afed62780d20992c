--------------------------- MODULE MCDaemonManager ---------------------------
(* Instances of DaemonManager for TLC.                                     *)
EXTENDS DaemonManager, TLC

CONSTANTS m1, m2, m3, s1, s2, hand, i1, i2

(* Two managers that want different services, and one that died.           *)
ThreeManagers == {m1, m2, m3}
OneDeparted   == {m3}
TwoServices   == {i1, i2}
OneEach       == m1 :> i1 @@ m2 :> i2

ThreeDaemons == {s1, s2, hand}
OneByHand    == {hand}

(* The processes systemd starts are alike, and so are the managers, each   *)
(* with the service it wants.                                              *)
Alike ==
    {p \in Permutations({m1, m2, i1, i2, s1, s2}) :
        /\ p[m1] \in {m1, m2} /\ p[i1] \in {i1, i2} /\ p[s1] \in {s1, s2}
        /\ p[m2] \in {m1, m2} /\ p[i2] \in {i1, i2}
        /\ p[m1] = m1 <=> p[i1] = i1}
=============================================================================
