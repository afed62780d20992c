--------------------------- MODULE MCPluginLifecycle ---------------------------
(* Instances of PluginLifecycle for TLC.                                   *)
EXTENDS PluginLifecycle

CONSTANTS p1, p2, c1, c2

TwoPlugins == {p1, p2}
TwoCalls   == {c1, c2}

AllFailures == {"artifact", "lock", "audit", "removal"}

(* Bound: p1 lives a whole life, with calls that overlap in every way; p2  *)
(* is a bystander in the same lock file, which is only ever installed, by  *)
(* one call at a time; and after a restart requests come one by one.       *)
BystanderAndRestart ==
    /\ disturbed \subseteq {p1}
    /\ \A c \in Calls : call[c].plugin = p2 => Is(c, "install")
    /\ crashes > 0 => \A c, d \in Calls : c # d => Idle \in {call[c], call[d]}
=============================================================================
