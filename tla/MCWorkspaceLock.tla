--------------------------- MODULE MCWorkspaceLock ---------------------------
(* Instances of WorkspaceLock for TLC.                                     *)
EXTENDS WorkspaceLock, TLC

CONSTANTS d1, d2, d3, old

(* Three daemons of this release, and one of an older one.                 *)
MixedDaemons == {d1, d2, d3, old}
MixedLegacy  == {old}

(* Daemons of this release are alike.                                      *)
AnyDaemon == Permutations({d1, d2, d3})
=============================================================================
