------------------------- MODULE DaemonManagerProofs -------------------------
(***************************************************************************)
(* That the lifecycle lock of DaemonManager keeps the managers of one      *)
(* workspace apart, and that what they report is true, for every number of *)
(* managers and daemons and whichever of them die where.                   *)
(*                                                                         *)
(* The first argument is about the takeover.  What a manager unlinks is the lock *)
(* of a dead one (LocksAreTaken): it opened the guard, found the lock to   *)
(* be still the one it had judged, and from then on nobody else may unlink *)
(* it, as they would need the guard, and nobody may publish another, as    *)
(* the link fails while it is there.                                       *)
(*                                                                         *)
(* On this exclusion rests the second, about a call's steps: what a manager*)
(* has seen of the unit stays true while it acts on it, because only it    *)
(* changes what is installed and enabled (UnitFollows), and systemd alone  *)
(* starts only what is active or to be restarted (SystemdGoesOn); what it  *)
(* saw of a daemon stays true because daemons only go on (DaemonsGoOn).    *)
(* The first half needs that no manager died, whose command may arrive     *)
(* whenever it likes.                                                      *)
(***************************************************************************)
EXTENDS DaemonManager, TLAPS

Recovering == {"recheck", "remove", "unguard"}
Judged     == {"guard", "recheck", "remove"}

LockFilesNameManagers ==
    /\ lifecycle \in Managers \union {Nothing}
    /\ recovery \in Managers \union {Nothing}
    /\ at \in [Managers -> {"idle", "dead"} \union Waiting \union Mutating]
    /\ found \in [Managers -> Managers \union {Nothing}]

HoldersHoldTheLock == \A m \in Managers : at[m] \in Mutating => lifecycle = m

RecoveriesHoldTheGuard == \A m \in Managers : at[m] \in Recovering => recovery = m

JudgedHoldersAreDead ==
    \A m \in Managers :
        at[m] \in Judged => found[m] \in Managers /\ at[found[m]] = "dead"

JudgingAHolder == \A m \in Managers : at[m] = "judge" => found[m] \in Managers

LocksAreTaken == \A m \in Managers : at[m] = "remove" => lifecycle = found[m]

LifecycleInv ==
    /\ LockFilesNameManagers
    /\ HoldersHoldTheLock
    /\ RecoveriesHoldTheGuard
    /\ JudgedHoldersAreDead
    /\ JudgingAHolder
    /\ LocksAreTaken

(* What the steps under the lock do to the lock's own state: nothing.      *)
UnderTheLock(m) ==
    /\ at[m] \in Mutating
    /\ \E place \in Mutating : at' = [at EXCEPT ![m] = place]
    /\ UNCHANGED <<lifecycle, recovery, found>>

LEMMA PlacesAreApart ==
    /\ Mutating \intersect (Recovering \union Judged) = {}
    /\ Mutating \intersect ({"idle", "dead"} \union Waiting) = {}
    /\ "dead" \notin Recovering \union Judged
BY DEF Mutating, Recovering, Judged, Waiting

LEMMA InitKeepsLock == Init => LifecycleInv
<1> SUFFICES ASSUME Init PROVE LifecycleInv
  OBVIOUS
<1> USE ManagersAssumption
<1>1. lifecycle \in Managers \union {Nothing} /\ recovery = Nothing
  BY DEF Init
<1>2. at = [m \in Managers |-> IF m \in Departed THEN "dead" ELSE "idle"]
  BY DEF Init
<1>3. found = [m \in Managers |-> Nothing]
  BY DEF Init
<1> QED
  BY <1>1, <1>2, <1>3 DEF LifecycleInv, LockFilesNameManagers, HoldersHoldTheLock,
     RecoveriesHoldTheGuard, JudgedHoldersAreDead, JudgingAHolder, LocksAreTaken,
     Recovering, Judged, Mutating

LEMMA UnderTheLockKeepsLock ==
    ASSUME LifecycleInv, NEW m \in Managers, UnderTheLock(m)
    PROVE  LifecycleInv'
<1> USE ManagersAssumption
<1>1. PICK place \in Mutating : at' = [at EXCEPT ![m] = place]
  BY DEF UnderTheLock
<1> QED
  BY <1>1, PlacesAreApart DEF UnderTheLock, LifecycleInv, LockFilesNameManagers,
     HoldersHoldTheLock, RecoveriesHoldTheGuard, JudgedHoldersAreDead, JudgingAHolder,
     LocksAreTaken, Mutating, Recovering, Judged, Waiting

(* A look, an outcome and a command all stay under the lock.               *)
LEMMA PlacesUnderTheLock ==
    ASSUME NEW m \in Managers, at[m] \in Mutating, UNCHANGED <<lifecycle, recovery, found>>
    PROVE  /\ \A how \in {"inspect", "status"} : \A purpose :
                 Look(m, how, purpose) => UnderTheLock(m)
           /\ \A outcome : Finish(m, outcome) => UnderTheLock(m)
           /\ \A verb, decision : Call(m, verb, decision) => UnderTheLock(m)
BY DEF Look, Finish, Call, Goto, UnderTheLock, Mutating

LEMMA MakingWayIsUnderTheLock ==
    ASSUME NEW m \in Managers, at[m] \in Mutating, UNCHANGED <<lifecycle, recovery, found>>,
           MakeWay(m)
    PROVE  UnderTheLock(m)
BY PlacesUnderTheLock DEF MakeWay

LEMMA ProceedingIsUnderTheLock ==
    ASSUME NEW m \in Managers, at[m] \in Mutating, UNCHANGED <<lifecycle, recovery, found>>,
           NEW decision, Proceed(m, decision) \/ EnableAndProceed(m, decision)
    PROVE  UnderTheLock(m)
BY PlacesUnderTheLock DEF Proceed, EnableAndProceed

(* Every decision and every command's return.                              *)
LEMMA DecidingIsUnderTheLock ==
    ASSUME NEW m \in Managers,
           \/ Decide(m) \/ Reloaded(m) \/ DecideAgain(m) \/ Enabled(m) \/ Restarted(m)
           \/ Poll(m) \/ RestartFailed(m) \/ MakeWayNow(m) \/ WayMade(m)
           \/ DecideStop(m) \/ Disabled(m) \/ Gone(m)
    PROVE  UnderTheLock(m)
<1>1. at[m] \in Mutating
  BY DEF Decide, Reloaded, DecideAgain, Enabled, Restarted, Poll, RestartFailed, MakeWayNow,
         WayMade, DecideStop, Disabled, Gone, Seen, Returned, Mutating
<1>2. UNCHANGED <<lifecycle, recovery, found>>
  BY DEF Decide, Reloaded, DecideAgain, Enabled, Restarted, Poll, RestartFailed, MakeWayNow,
         WayMade, DecideStop, Disabled, Gone, Unmoved, lockFiles
<1> USE <1>1, <1>2
<1>3. ASSUME Decide(m) PROVE UnderTheLock(m)
  <2>1. MakeWay(m) \/ Call(m, "daemon-reload", "restart") \/ EnableAndProceed(m, Decision(m))
    BY <1>3 DEF Decide
  <2> QED
    BY <2>1, PlacesUnderTheLock, MakingWayIsUnderTheLock, ProceedingIsUnderTheLock
<1>4. ASSUME Enabled(m) PROVE UnderTheLock(m)
  BY <1>4, ProceedingIsUnderTheLock DEF Enabled
<1>5. ASSUME DecideAgain(m) PROVE UnderTheLock(m)
  BY <1>5, PlacesUnderTheLock, MakingWayIsUnderTheLock DEF DecideAgain
<1>6. ASSUME DecideStop(m) PROVE UnderTheLock(m)
  BY <1>6, PlacesUnderTheLock, MakingWayIsUnderTheLock DEF DecideStop
<1>7. ASSUME MakeWayNow(m) \/ WayMade(m) PROVE UnderTheLock(m)
  BY <1>7, PlacesUnderTheLock, MakingWayIsUnderTheLock DEF MakeWayNow, WayMade
<1>8. ASSUME Reloaded(m) \/ Restarted(m) \/ RestartFailed(m) \/ Disabled(m) PROVE UnderTheLock(m)
  BY <1>8, PlacesUnderTheLock DEF Reloaded, Restarted, RestartFailed, Disabled
<1>9. ASSUME Poll(m) \/ Gone(m) PROVE UnderTheLock(m)
  BY <1>9, PlacesUnderTheLock DEF Poll, Gone
<1> QED
  BY <1>3, <1>4, <1>5, <1>6, <1>7, <1>8, <1>9

LEMMA LockUntouched ==
    ASSUME LifecycleInv, UNCHANGED <<lifecycle, recovery, at, found>>
    PROVE  LifecycleInv'
BY DEF LifecycleInv, LockFilesNameManagers, HoldersHoldTheLock, RecoveriesHoldTheGuard,
       JudgedHoldersAreDead, JudgingAHolder, LocksAreTaken

(* A manager that moves between places at which it has neither the lock    *)
(* nor the guard.                                                          *)
LEMMA WaitingKeepsLock ==
    ASSUME LifecycleInv, NEW m \in Managers, at[m] \notin {"dead"},
           NEW place \in {"idle", "look", "publish", "read", "dead"},
           at' = [at EXCEPT ![m] = place],
           found' \in {found, [found EXCEPT ![m] = Nothing]},
           UNCHANGED <<lifecycle, recovery>>
    PROVE  LifecycleInv'
<1> USE ManagersAssumption
<1> QED
  BY DEF LifecycleInv, LockFilesNameManagers, HoldersHoldTheLock, RecoveriesHoldTheGuard,
         JudgedHoldersAreDead, JudgingAHolder, LocksAreTaken, Mutating, Recovering, Judged,
         Waiting

LEMMA TryingAgainKeepsLock ==
    ASSUME LifecycleInv, NEW m \in Managers, at[m] # "dead", TryAgain(m), UNCHANGED lockFiles
    PROVE  LifecycleInv'
BY WaitingKeepsLock DEF TryAgain, Goto, lockFiles

LEMMA LifecycleLockKeepsLock ==
    ASSUME LifecycleInv, NEW m \in Managers, LifecycleLock(m)
    PROVE  LifecycleInv'
<1> USE ManagersAssumption
<1>1. ASSUME NEW o \in {"ensureRunning", "stop"}, Request(m, o) PROVE LifecycleInv'
  BY <1>1, WaitingKeepsLock DEF Request, Goto, lockFiles, memory
<1>2. CASE LookForGuard(m)
  BY <1>2, WaitingKeepsLock, TryingAgainKeepsLock DEF LookForGuard, GoOn, Goto, lockFiles, memory
<1>3. CASE Publish(m)
  <2>1. CASE lifecycle # Nothing
    BY <1>3, <2>1, WaitingKeepsLock DEF Publish, Goto
  <2>2. CASE lifecycle = Nothing
    <3>1. /\ at[m] = "publish" /\ lifecycle' = m /\ at' = [at EXCEPT ![m] = "inspect"]
          /\ UNCHANGED <<recovery, found>>
      BY <1>3, <2>2 DEF Publish, Look, Goto
    <3> QED
      BY <2>2, <3>1 DEF LifecycleInv, LockFilesNameManagers, HoldersHoldTheLock,
         RecoveriesHoldTheGuard, JudgedHoldersAreDead, JudgingAHolder, LocksAreTaken,
         Mutating, Recovering, Judged, Waiting
  <2> QED
    BY <2>1, <2>2
<1>4. CASE ReadHolder(m)
  <2>1. CASE lifecycle = Nothing
    BY <1>4, <2>1, TryingAgainKeepsLock DEF ReadHolder
  <2>2. CASE lifecycle # Nothing
    <3>1. /\ at[m] = "read" /\ at' = [at EXCEPT ![m] = "judge"]
          /\ found' = [found EXCEPT ![m] = lifecycle] /\ UNCHANGED <<lifecycle, recovery>>
      BY <1>4, <2>2 DEF ReadHolder, Goto, lockFiles
    <3> QED
      BY <2>2, <3>1 DEF LifecycleInv, LockFilesNameManagers, HoldersHoldTheLock,
         RecoveriesHoldTheGuard, JudgedHoldersAreDead, JudgingAHolder, LocksAreTaken,
         Mutating, Recovering, Judged, Waiting
  <2> QED
    BY <2>1, <2>2
<1>5. CASE JudgeHolder(m)
  <2>1. CASE Alive(found[m])
    BY <1>5, <2>1, TryingAgainKeepsLock DEF JudgeHolder
  <2>2. CASE ~Alive(found[m])
    <3>1. /\ at[m] = "judge" /\ at[found[m]] = "dead" /\ at' = [at EXCEPT ![m] = "guard"]
          /\ UNCHANGED <<lifecycle, recovery, found>>
      BY <1>5, <2>2 DEF JudgeHolder, GoOn, Goto, lockFiles, memory, Alive
    <3> QED
      BY <3>1 DEF LifecycleInv, LockFilesNameManagers, HoldersHoldTheLock,
         RecoveriesHoldTheGuard, JudgedHoldersAreDead, JudgingAHolder, LocksAreTaken,
         Mutating, Recovering, Judged, Waiting
  <2> QED
    BY <2>1, <2>2
<1>6. CASE OpenGuard(m)
  <2>1. CASE recovery # Nothing
    BY <1>6, <2>1, TryingAgainKeepsLock DEF OpenGuard, lockFiles
  <2>2. CASE recovery = Nothing
    <3>1. /\ at[m] = "guard" /\ recovery' = m /\ at' = [at EXCEPT ![m] = "recheck"]
          /\ UNCHANGED <<lifecycle, found>>
      BY <1>6, <2>2 DEF OpenGuard, GoOn, Goto, memory
    <3> QED
      BY <2>2, <3>1 DEF LifecycleInv, LockFilesNameManagers, HoldersHoldTheLock,
         RecoveriesHoldTheGuard, JudgedHoldersAreDead, JudgingAHolder, LocksAreTaken,
         Mutating, Recovering, Judged, Waiting
  <2> QED
    BY <2>1, <2>2
<1>7. CASE RecheckHolder(m)
  <2>1. /\ at[m] = "recheck" /\ UNCHANGED <<lifecycle, recovery, found>>
        /\ at' = [at EXCEPT ![m] = IF lifecycle = found[m] THEN "remove" ELSE "unguard"]
    BY <1>7 DEF RecheckHolder, GoOn, Goto, lockFiles, memory
  <2> QED
    BY <2>1 DEF LifecycleInv, LockFilesNameManagers, HoldersHoldTheLock,
       RecoveriesHoldTheGuard, JudgedHoldersAreDead, JudgingAHolder, LocksAreTaken,
       Mutating, Recovering, Judged, Waiting
<1>8. CASE RemoveDead(m)
  <2>1. /\ at[m] = "remove" /\ lifecycle' = Nothing /\ UNCHANGED <<recovery, found>>
        /\ at' = [at EXCEPT ![m] = "unguard"]
    BY <1>8 DEF RemoveDead, GoOn, Goto, memory
  <2>2. \A n \in Managers : at[n] \notin Mutating
    BY <2>1 DEF LifecycleInv, JudgedHoldersAreDead, HoldersHoldTheLock, LocksAreTaken,
       Judged, Mutating
  <2>3. \A n \in Managers : at[n] \in Recovering => n = m
    BY <2>1 DEF LifecycleInv, RecoveriesHoldTheGuard, Recovering
  <2> QED
    BY <2>1, <2>2, <2>3 DEF LifecycleInv, LockFilesNameManagers, HoldersHoldTheLock,
       RecoveriesHoldTheGuard, JudgedHoldersAreDead, JudgingAHolder, LocksAreTaken,
       Mutating, Recovering, Judged, Waiting
<1>9. CASE RemoveGuard(m)
  <2>1. /\ at[m] = "unguard" /\ recovery' = Nothing /\ UNCHANGED lifecycle
        /\ found' = [found EXCEPT ![m] = Nothing] /\ at' = [at EXCEPT ![m] = "look"]
    BY <1>9 DEF RemoveGuard, Goto
  <2>2. \A n \in Managers : at[n] \in Recovering => n = m
    BY <2>1 DEF LifecycleInv, RecoveriesHoldTheGuard, Recovering
  <2> QED
    BY <2>1, <2>2 DEF LifecycleInv, LockFilesNameManagers, HoldersHoldTheLock,
       RecoveriesHoldTheGuard, JudgedHoldersAreDead, JudgingAHolder, LocksAreTaken,
       Mutating, Recovering, Judged, Waiting
<1>10. CASE Release(m)
  <2>1. /\ at[m] = "release" /\ UNCHANGED <<recovery, found>>
        /\ lifecycle' = IF lifecycle = m THEN Nothing ELSE lifecycle
        /\ at' = [at EXCEPT ![m] = "idle"]
    BY <1>10 DEF Release, Goto
  <2>2. lifecycle = m /\ lifecycle' = Nothing
    BY <2>1 DEF LifecycleInv, HoldersHoldTheLock, Mutating
  <2>3. \A n \in Managers : at[n] \in Mutating \/ at[n] = "remove" => n = m
    BY <2>1, <2>2 DEF LifecycleInv, HoldersHoldTheLock, JudgedHoldersAreDead, LocksAreTaken,
       Judged
  <2> QED
    BY <2>1, <2>2, <2>3 DEF LifecycleInv, LockFilesNameManagers, HoldersHoldTheLock,
       RecoveriesHoldTheGuard, JudgedHoldersAreDead, JudgingAHolder, LocksAreTaken,
       Mutating, Recovering, Judged, Waiting
<1> QED
  BY <1>1, <1>2, <1>3, <1>4, <1>5, <1>6, <1>7, <1>8, <1>9, <1>10 DEF LifecycleLock

LEMMA ManageKeepsLock ==
    ASSUME LifecycleInv, NEW m \in Managers, Manage(m)
    PROVE  LifecycleInv'
<1>1. CASE ReadDaemonLock(m) \/ ReadUnit(m) \/ SystemctlArrives(m)
  BY <1>1, LockUntouched DEF ReadDaemonLock, ReadUnit, SystemctlArrives, lockFiles, memory
<1>2. CASE CommandFails(m)
  <2>1. UnderTheLock(m)
    BY <1>2 DEF CommandFails, Goto, Unmoved, lockFiles, UnderTheLock, Mutating
  <2> QED
    BY <2>1, UnderTheLockKeepsLock
<1> QED
  BY <1>1, <1>2, DecidingIsUnderTheLock, UnderTheLockKeepsLock DEF Manage

LEMMA OthersKeepLock ==
    ASSUME LifecycleInv, (\E d \in Daemons : Serve(d)) \/ StartMain
    PROVE  LifecycleInv'
<1>1. UNCHANGED <<lifecycle, recovery, at, found>>
  BY DEF Serve, StartMain, StartByHand, TakeLock, BecomeReady, Crash, Stop, Ends, lockFiles,
         local, memory
<1> QED
  BY <1>1, LockUntouched

LEMMA StepsKeepLock == LifecycleInv /\ [Next]_managerVars => LifecycleInv'
<1> SUFFICES ASSUME LifecycleInv, [Next]_managerVars PROVE LifecycleInv'
  OBVIOUS
<1>1. ASSUME NEW m \in Managers, Die(m) PROVE LifecycleInv'
  BY <1>1, WaitingKeepsLock DEF Die, Alive, Goto, lockFiles
<1>2. CASE UNCHANGED managerVars
  BY <1>2, LockUntouched DEF managerVars, lockFiles, local, memory
<1> QED
  BY <1>1, <1>2, LifecycleLockKeepsLock, ManageKeepsLock, OthersKeepLock DEF Next

(* The inductive invariant, for all managers, daemons and services: who is *)
(* inside a change has the lock, and who unlinks another's lock has the    *)
(* guard and unlinks a dead manager's.                                     *)
THEOREM LifecycleInvariantHolds == ManagerSpec => []LifecycleInv
BY InitKeepsLock, StepsKeepLock, PTL DEF ManagerSpec

(* No two managers are inside a change of the unit (withLifecycleLock of   *)
(* tui-daemon.ts), whoever dies and whoever takes the dead one's lock over.*)
THEOREM ManagersTakeTurns == ManagerSpec => []OneMutationAtATime
<1>1. LifecycleInv => OneMutationAtATime
  BY DEF LifecycleInv, HoldersHoldTheLock, OneMutationAtATime
<1> QED
  BY <1>1, LifecycleInvariantHolds, PTL

-----------------------------------------------------------------------------
(* The types, of the managers' own state, of systemd and the daemons, and  *)
(* of the lock.                                                            *)
DepartedAreDead == \A m \in Departed : at[m] = "dead"

LocalTypes ==
    /\ at \in [Managers -> {"idle", "dead"} \union Waiting \union Mutating]
    /\ found \in [Managers -> Managers \union {Nothing}]
    /\ op \in [Managers -> {"none", "ensureRunning", "stop"}]
    /\ \A m \in Managers : at[m] \in {"judge", "guard", "recheck", "remove"} =>
                              found[m] # Nothing
    /\ seen \in [Managers -> [lock : LockViews \union {Nothing},
                              unit : UnitViews \union {Nothing}]]
    /\ unsent \subseteq Managers
    /\ result \in [Managers -> {"none", "running", "starting", "stopped",
                                "stale", "independent", "error"}]
    /\ calls \in [Managers -> 0 .. MaxCalls]
    /\ DepartedAreDead

Outcomes == {"running", "starting", "stopped", "stale", "independent", "error"}

SystemTypes ==
    /\ {unitFile, loaded} \subseteq Identities \union {Nothing}
    /\ unit \in UnitStates
    /\ {enabled, again} \subseteq BOOLEAN
    /\ {main, owner} \subseteq Daemons \union {Nothing}
    /\ daemon \in [Daemons -> {"unborn", "starting", "owner", "ready", "dead"}]
    /\ identity \in [Daemons -> Identities \union {Nothing}]

LockTypes == {lifecycle, recovery} \subseteq Managers \union {Nothing}

TypeInv == LocalTypes /\ SystemTypes /\ LockTypes

LEMMA SplitTypes == TypeInv <=> ManagerTypeOK /\ DepartedAreDead
BY DEF TypeInv, LocalTypes, SystemTypes, LockTypes, ManagerTypeOK

LEMMA TypeInit == Init => TypeInv
<1> SUFFICES ASSUME Init PROVE TypeInv
  OBVIOUS
<1>1. LockTypes
  BY ManagersAssumption DEF Init, LockTypes
<1>2. UnseenYet \in [lock : LockViews \union {Nothing}, unit : UnitViews \union {Nothing}]
  BY DEF UnseenYet
<1>3. LocalTypes
  <2>1. /\ at \in [Managers -> {"idle", "dead"} \union Waiting \union Mutating]
        /\ DepartedAreDead
        /\ \A m \in Managers : at[m] \notin {"judge", "guard", "recheck", "remove"}
    BY ManagersAssumption DEF Init, DepartedAreDead
  <2>2. seen \in [Managers -> [lock : LockViews \union {Nothing},
                              unit : UnitViews \union {Nothing}]]
    BY <1>2 DEF Init
  <2>3. /\ found \in [Managers -> Managers \union {Nothing}]
        /\ op \in [Managers -> {"none", "ensureRunning", "stop"}]
        /\ unsent \subseteq Managers
        /\ result \in [Managers -> {"none", "running", "starting", "stopped",
                                "stale", "independent", "error"}]
    BY DEF Init
  <2>4. calls \in [Managers -> 0 .. MaxCalls]
    BY ManagersAssumption DEF Init
  <2> QED
    BY <2>1, <2>2, <2>3, <2>4 DEF LocalTypes
<1>4. SystemTypes
  <2>1. CASE unitFile = Nothing /\ loaded = Nothing /\ enabled = FALSE
          /\ unit = "inactive" /\ main = Nothing /\ owner = Nothing
          /\ daemon = [d \in Daemons |-> "unborn"]
          /\ identity = [d \in Daemons |-> Nothing]
    BY <2>1 DEF Init, SystemTypes, UnitStates
  <2>2. ASSUME NEW i \in Identities, NEW d \in Daemons \ ByHand,
               /\ unitFile = i /\ loaded = i /\ enabled \in BOOLEAN
          /\ unit = "active" /\ main = d /\ owner = d
          /\ daemon = [x \in Daemons |-> IF x = d THEN "ready" ELSE "unborn"]
          /\ identity = [x \in Daemons |-> IF x = d THEN i ELSE Nothing]
        PROVE SystemTypes
    BY <2>2 DEF Init, SystemTypes, UnitStates
  <2> QED
    BY <2>1, <2>2, Zenon DEF Init
<1> QED BY <1>1, <1>3, <1>4 DEF TypeInv

LEMMA SystemStays == SystemTypes /\ UNCHANGED <<systemd, daemons>> => SystemTypes'
BY DEF SystemTypes, systemd, daemons

LEMMA UnseenIsSeen ==
    UnseenYet \in [lock : LockViews \union {Nothing}, unit : UnitViews \union {Nothing}]
BY DEF UnseenYet

LEMMA TryAgainTypes ==
    ASSUME LocalTypes, NEW m \in Managers, at[m] # "dead", TryAgain(m)
    PROVE  LocalTypes'
<1> USE ManagersAssumption
<1> QED
  BY DEF LocalTypes, TryAgain, Goto, DepartedAreDead, Waiting

LEMMA GoOnTypes ==
    ASSUME LocalTypes, NEW m \in Managers, at[m] # "dead", NEW place \in Waiting,
           GoOn(m, place),
           place \in {"judge", "guard", "recheck", "remove"} => found[m] # Nothing
    PROVE  LocalTypes'
<1> USE ManagersAssumption
<1> QED
  BY DEF LocalTypes, GoOn, Goto, DepartedAreDead, memory, request

LEMMA MovesKeepTypes ==
    ASSUME LocalTypes, NEW m \in Managers, at[m] # "dead", UNCHANGED request,
           found' = found
    PROVE  /\ \A how \in {"inspect", "status"} : \A purpose :
                 Look(m, how, purpose) => LocalTypes'
           /\ \A outcome \in Outcomes : Finish(m, outcome) => LocalTypes'
           /\ \A verb, decision : Call(m, verb, decision) => LocalTypes'
<1> USE ManagersAssumption, UnseenIsSeen DEF LocalTypes, Goto, DepartedAreDead, Mutating
<1>1. ASSUME NEW how \in {"inspect", "status"}, NEW purpose, Look(m, how, purpose)
      PROVE  LocalTypes'
  BY <1>1 DEF Look, request
<1>2. ASSUME NEW verb, NEW decision, Call(m, verb, decision) PROVE LocalTypes'
  BY <1>2 DEF Call, request
<1>3. ASSUME NEW outcome \in Outcomes, Finish(m, outcome) PROVE LocalTypes'
  BY <1>3 DEF Finish, request, Outcomes
<1> QED
  BY <1>1, <1>2, <1>3

LEMMA MakingWayKeepsTypes ==
    ASSUME LocalTypes, NEW m \in Managers, at[m] # "dead", UNCHANGED request,
           found' = found, MakeWay(m)
    PROVE  LocalTypes'
<1>1. Status(m) \in Outcomes /\ "error" \in Outcomes /\ "independent" \in Outcomes
  BY DEF Status, Outcomes
<1> QED
  BY <1>1, MovesKeepTypes DEF MakeWay

LEMMA ProceedingKeepsTypes ==
    ASSUME LocalTypes, NEW m \in Managers, at[m] # "dead", UNCHANGED request,
           found' = found, NEW decision,
           Proceed(m, decision) \/ EnableAndProceed(m, decision)
    PROVE  LocalTypes'
<1>1. "running" \in Outcomes
  BY DEF Outcomes
<1> QED
  BY <1>1, MovesKeepTypes DEF Proceed, EnableAndProceed

LEMMA LifecycleLockTypes ==
    ASSUME TypeInv, NEW m \in Managers, LifecycleLock(m)
    PROVE  TypeInv'
<1> USE ManagersAssumption DEF TypeInv
<1>1. SystemTypes'
  BY SystemStays DEF LifecycleLock, Request, LookForGuard, Publish, ReadHolder, JudgeHolder,
     OpenGuard, RecheckHolder, RemoveDead, RemoveGuard, Release, TryAgain, GoOn
<1>2. LockTypes'
  BY DEF LockTypes, LifecycleLock, Request, LookForGuard, Publish, ReadHolder, JudgeHolder,
     OpenGuard, RecheckHolder, RemoveDead, RemoveGuard, Release, lockFiles
<1>3. LocalTypes'
  <2>1. ASSUME NEW o \in {"ensureRunning", "stop"}, Request(m, o) PROVE LocalTypes'
    BY <2>1 DEF Request, memory, LocalTypes, DepartedAreDead, Goto, Waiting
  <2>2. ASSUME LookForGuard(m) PROVE LocalTypes'
    BY <2>2, TryAgainTypes, GoOnTypes DEF LookForGuard, Waiting
  <2>3. ASSUME Publish(m) PROVE LocalTypes'
    <3>1. CASE lifecycle = Nothing
      <4>1. op[m] \in {"none", "ensureRunning", "stop"} /\ Look(m, "inspect", op[m])
        BY <2>3, <3>1 DEF Publish, LocalTypes
      <4> QED
        BY <2>3, <4>1, MovesKeepTypes DEF Publish
    <3>2. CASE lifecycle # Nothing
      BY <2>3, <3>2 DEF Publish, LocalTypes, DepartedAreDead, Goto, Waiting, request
    <3> QED
      BY <3>1, <3>2
  <2>4. ASSUME ReadHolder(m) PROVE LocalTypes'
    <3>1. CASE lifecycle = Nothing
      BY <2>4, <3>1, TryAgainTypes DEF ReadHolder
    <3>2. CASE lifecycle # Nothing
      <4>1. /\ at[m] = "read" /\ at' = [at EXCEPT ![m] = "judge"]
            /\ found' = [found EXCEPT ![m] = lifecycle]
            /\ UNCHANGED <<op, calls, seen, unsent, result>>
        BY <2>4, <3>2 DEF ReadHolder, Goto, request
      <4>2. lifecycle \in Managers
        BY <3>2 DEF LockTypes
      <4> QED
        BY <3>2, <4>1, <4>2 DEF LocalTypes, DepartedAreDead, Waiting
    <3> QED
      BY <3>1, <3>2
  <2>5. ASSUME JudgeHolder(m) PROVE LocalTypes'
    BY <2>5, TryAgainTypes, GoOnTypes DEF JudgeHolder, Waiting, LocalTypes
  <2>6. ASSUME OpenGuard(m) PROVE LocalTypes'
    BY <2>6, TryAgainTypes, GoOnTypes DEF OpenGuard, Waiting, LocalTypes
  <2>7. ASSUME RecheckHolder(m) \/ RemoveDead(m) PROVE LocalTypes'
    BY <2>7, GoOnTypes DEF RecheckHolder, RemoveDead, Waiting, LocalTypes
  <2>8. ASSUME RemoveGuard(m) PROVE LocalTypes'
    BY <2>8 DEF RemoveGuard, LocalTypes, DepartedAreDead, Goto, Waiting, request
  <2>9. ASSUME Release(m) PROVE LocalTypes'
    BY <2>9 DEF Release, LocalTypes, DepartedAreDead, Goto
  <2> QED
    BY <2>1, <2>2, <2>3, <2>4, <2>5, <2>6, <2>7, <2>8, <2>9 DEF LifecycleLock
<1> QED
  BY <1>1, <1>2, <1>3

LEMMA ManageTypes ==
    ASSUME TypeInv, NEW m \in Managers, Manage(m)
    PROVE  TypeInv'
<1> USE ManagersAssumption DEF TypeInv
<1>1. CASE ReadDaemonLock(m)
  <2>1. /\ seen' = [seen EXCEPT ![m].lock =
           [owner |-> owner,
            alive |-> owner # Nothing /\ daemon[owner] # "dead",
            ready |-> owner # Nothing /\ daemon[owner] = "ready"]]
        /\ UNCHANGED <<lockFiles, at, request, then, memory, systemd, daemons>>
    BY <1>1 DEF ReadDaemonLock
  <2>2. seen' \in [Managers -> [lock : LockViews \union {Nothing},
                               unit : UnitViews \union {Nothing}]]
    <3> DEFINE view == [owner |-> owner,
            alive |-> owner # Nothing /\ daemon[owner] # "dead",
            ready |-> owner # Nothing /\ daemon[owner] = "ready"]
    <3>1. view \in LockViews
      BY DEF SystemTypes, LockViews
    <3>2. seen' = [seen EXCEPT ![m] = [seen[m] EXCEPT !.lock = view]]
      BY <2>1
    <3> HIDE DEF view
    <3> QED
      BY <3>1, <3>2 DEF LocalTypes
  <2>3. SystemTypes'
    BY <2>1, SystemStays
  <2> QED
    BY <2>1, <2>2, <2>3 DEF LocalTypes, LockTypes, lockFiles, request, memory, DepartedAreDead
<1>2. CASE ReadUnit(m)
  <2>1. /\ loaded' = IF loaded = Nothing THEN unitFile ELSE loaded
        /\ seen' = [seen EXCEPT ![m].unit =
           [loaded |-> loaded' # Nothing, enabled |-> enabled,
            state |-> unit, main |-> main]]
        /\ UNCHANGED <<lockFiles, at, request, then, memory, unitFile, enabled, unit, main,
                   again, daemons>>
    BY <1>2 DEF ReadUnit
  <2>2. seen' \in [Managers -> [lock : LockViews \union {Nothing},
                               unit : UnitViews \union {Nothing}]]
    <3> DEFINE view == [loaded |-> loaded' # Nothing, enabled |-> enabled,
            state |-> unit, main |-> main]
    <3>1. view \in UnitViews
      BY DEF SystemTypes, UnitViews
    <3>2. seen' = [seen EXCEPT ![m] = [seen[m] EXCEPT !.unit = view]]
      BY <2>1
    <3> HIDE DEF view
    <3> QED
      BY <3>1, <3>2 DEF LocalTypes
  <2>3. SystemTypes'
    BY <2>1 DEF SystemTypes, daemons
  <2> QED
    BY <2>1, <2>2, <2>3 DEF LocalTypes, LockTypes, lockFiles, request, memory, DepartedAreDead
<1>3. ASSUME Decide(m) PROVE TypeInv'
  <2>1. /\ UNCHANGED request /\ found' = found /\ UNCHANGED lockFiles /\ at[m] # "dead"
        /\ UNCHANGED <<loaded, enabled, unit, main, again, daemons>>
    BY <1>3 DEF Decide, Seen
  <2>2. unitFile' \in Identities \union {Nothing}
    <3>1. m \notin Departed
      BY <2>1 DEF LocalTypes, DepartedAreDead
    <3> QED
      BY <1>3, <3>1 DEF Decide, SystemTypes
  <2>3. MakeWay(m) \/ Call(m, "daemon-reload", "restart") \/ EnableAndProceed(m, Decision(m))
    BY <1>3 DEF Decide
  <2>4. LocalTypes'
    BY <2>1, <2>3, MovesKeepTypes, MakingWayKeepsTypes, ProceedingKeepsTypes
  <2> QED
    BY <2>1, <2>2, <2>4 DEF SystemTypes, LockTypes, lockFiles, daemons
<1>4. ASSUME SystemctlArrives(m) PROVE TypeInv'
  <2>1. /\ UNCHANGED <<lockFiles, at, request, seen, found, result, unitFile, main, daemons>>
        /\ unsent' = unsent \ {m}
        /\ loaded' \in {loaded, unitFile} /\ enabled' \in {enabled, TRUE, FALSE}
        /\ again' \in {again, TRUE, FALSE} /\ unit' \in {unit, "deactivating", "inactive"}
    BY <1>4 DEF SystemctlArrives, DaemonReload, Enable, DisableNow, Restart
  <2>2. LocalTypes'
    BY <2>1 DEF LocalTypes, request, DepartedAreDead
  <2>3. SystemTypes'
    BY <2>1 DEF SystemTypes, daemons, UnitStates
  <2> QED
    BY <2>1, <2>2, <2>3 DEF LockTypes, lockFiles
<1>5. ASSUME CommandFails(m) PROVE TypeInv'
  <2>1. /\ Unmoved /\ at[m] = "systemctl" /\ unsent' = unsent \ {m}
        /\ seen' = [seen EXCEPT ![m] = UnseenYet]
        /\ at' \in {[at EXCEPT ![m] = "status"], [at EXCEPT ![m] = "release"]}
        /\ result' \in {result, [result EXCEPT ![m] = "error"]}
    BY <1>5 DEF CommandFails, Goto
  <2>2. LocalTypes'
    <3>1. at' \in [Managers -> {"idle", "dead"} \union Waiting \union Mutating]
      BY <2>1 DEF LocalTypes, Mutating
    <3>2. result' \in [Managers -> {"none", "running", "starting", "stopped",
                                    "stale", "independent", "error"}]
      BY <2>1 DEF LocalTypes
    <3>3. /\ DepartedAreDead'
          /\ \A n \in Managers : at'[n] \in {"judge", "guard", "recheck", "remove"} =>
                                  found'[n] # Nothing
      BY <2>1 DEF LocalTypes, DepartedAreDead, Unmoved
    <3> QED
      BY <2>1, <3>1, <3>2, <3>3, UnseenIsSeen DEF LocalTypes, Unmoved, request
  <2> QED
    BY <2>1, <2>2, SystemStays DEF Unmoved, LockTypes, lockFiles
<1>6. ASSUME \/ Reloaded(m) \/ DecideAgain(m) \/ Enabled(m) \/ Restarted(m)
             \/ Poll(m) \/ RestartFailed(m) \/ MakeWayNow(m) \/ WayMade(m)
             \/ DecideStop(m) \/ Disabled(m) \/ Gone(m)
      PROVE  TypeInv'
  <2>1. /\ Unmoved /\ UNCHANGED request /\ found' = found /\ at[m] # "dead"
    BY <1>6 DEF Reloaded, DecideAgain, Enabled, Restarted, Poll, RestartFailed, MakeWayNow,
       WayMade, DecideStop, Disabled, Gone, Unmoved, Seen, Returned
  <2>2. /\ {"running", "error", "stopped", "independent"} \subseteq Outcomes
        /\ Status(m) \in Outcomes
    BY DEF Outcomes, Status
  <2> USE <2>1, <2>2, MovesKeepTypes
  <2>3. ASSUME DecideAgain(m) PROVE LocalTypes'
    BY <2>3, MakingWayKeepsTypes DEF DecideAgain
  <2>4. ASSUME Enabled(m) PROVE LocalTypes'
    BY <2>4, ProceedingKeepsTypes DEF Enabled
  <2>5. ASSUME MakeWayNow(m) PROVE LocalTypes'
    BY <2>5, MakingWayKeepsTypes DEF MakeWayNow
  <2>6. ASSUME DecideStop(m) PROVE LocalTypes'
    BY <2>6, MakingWayKeepsTypes DEF DecideStop
  <2>7. ASSUME Reloaded(m) \/ Restarted(m) \/ RestartFailed(m) \/ Disabled(m)
        PROVE LocalTypes'
    BY <2>7 DEF Reloaded, Restarted, RestartFailed, Disabled
  <2>8. ASSUME Poll(m) \/ WayMade(m) PROVE LocalTypes'
    BY <2>8 DEF Poll, WayMade
  <2>9. ASSUME Gone(m) PROVE LocalTypes'
    BY <2>9 DEF Gone
  <2>10. LocalTypes'
    BY <1>6, <2>3, <2>4, <2>5, <2>6, <2>7, <2>8, <2>9
  <2> QED
    BY <2>10, SystemStays DEF Unmoved, LockTypes, lockFiles
<1> QED
  BY <1>1, <1>2, <1>3, <1>4, <1>5, <1>6 DEF Manage

LEMMA DyingKeepsTypes ==
    ASSUME TypeInv, NEW m \in Managers, Die(m)
    PROVE  TypeInv'
<1>1. LocalTypes'
  BY UnseenIsSeen DEF TypeInv, LocalTypes, Die, Goto, DepartedAreDead
<1> QED
  BY <1>1, SystemStays DEF TypeInv, LockTypes, lockFiles, Die

LEMMA LocalStays == LocalTypes /\ UNCHANGED local => LocalTypes'
BY DEF LocalTypes, local, request, memory, DepartedAreDead

LEMMA OthersKeepTypes ==
    ASSUME TypeInv, (\E d \in Daemons : Serve(d)) \/ StartMain
    PROVE  TypeInv'
<1> USE ManagersAssumption DEF TypeInv
<1>1. UNCHANGED <<lockFiles, local>>
  BY DEF Serve, StartMain, StartByHand, TakeLock, BecomeReady, Crash, Stop, Ends
<1>2. ASSUME NEW d \in Daemons, StartByHand(d) \/ TakeLock(d) \/ BecomeReady(d)
      PROVE  SystemTypes'
  BY <1>2 DEF StartByHand, TakeLock, BecomeReady, SystemTypes, systemd
<1>3. ASSUME NEW d \in Daemons, Crash(d) \/ Stop(d) PROVE SystemTypes'
  BY <1>3 DEF Crash, Stop, Ends, SystemTypes, UnitStates
<1>4. ASSUME StartMain PROVE SystemTypes'
  <2>1. unit' \in UnitStates /\ again' \in BOOLEAN /\ UNCHANGED <<unitFile, loaded, enabled, owner>>
    BY <1>4 DEF StartMain, UnitStates
  <2>2. CASE UNCHANGED <<daemon, identity, main>>
    BY <2>1, <2>2 DEF SystemTypes
  <2>3. ASSUME NEW d \in Daemons \ ByHand,
               /\ daemon' = [daemon EXCEPT ![d] = "starting"]
               /\ identity' = [identity EXCEPT ![d] = loaded]
               /\ main' = d
        PROVE  SystemTypes'
    <3>1. loaded \in Identities \union {Nothing}
      BY DEF SystemTypes
    <3> QED
      BY <2>1, <2>3, <3>1 DEF SystemTypes
  <2> QED
    BY <1>4, <2>2, <2>3, Zenon DEF StartMain
<1> QED
  BY <1>1, <1>2, <1>3, <1>4, LocalStays DEF Serve, LockTypes, lockFiles

LEMMA StepsKeepTypes == TypeInv /\ [Next]_managerVars => TypeInv'
<1> SUFFICES ASSUME TypeInv, [Next]_managerVars PROVE TypeInv'
  OBVIOUS
<1>1. CASE UNCHANGED managerVars
  BY <1>1, LocalStays, SystemStays DEF managerVars, TypeInv, LockTypes, lockFiles
<1> QED
  BY <1>1, LifecycleLockTypes, ManageTypes, DyingKeepsTypes, OthersKeepTypes DEF Next

(* Every step keeps every variable of the managers, of systemd and of the  *)
(* daemons in its type, and the departed stay dead.                        *)
THEOREM ManagerTypesHold == ManagerSpec => []ManagerTypeOK
<1>1. ManagerSpec => []TypeInv
  BY TypeInit, StepsKeepTypes, PTL DEF ManagerSpec
<1> QED
  BY <1>1, SplitTypes, PTL

-----------------------------------------------------------------------------
(* What the managers learn and do stays true of the unit.                  *)

Acting == {"active", "auto-restart"}

Quiet == ~enabled /\ ~again /\ unit \notin Acting

Looking(m) == at[m] \in {"inspect", "status"}
Commanding(m, verbs) == at[m] = "systemctl" /\ then[m] \in verbs

(* systemd: what it can run it has loaded, and a process of the unit makes *)
(* it active until it was told to end.                                     *)
UnitIsInstalled ==
    /\ main # Nothing => unit \in {"active", "deactivating"}
    /\ again => unit # "active"
    /\ enabled \/ again \/ unit \in Acting => loaded # Nothing
    /\ loaded # Nothing => unitFile # Nothing
    /\ NobodyDied /\ again => enabled

CommandIsUnderWay(m) == m \in unsent => m \notin Departed /\ at[m] \in {"systemctl", "dead"}

(* Commands, and looks at what they did, are for an installed unit.        *)
CommandIsForTheUnit(m) ==
    /\ m \in unsent => /\ unitFile # Nothing
                       /\ then[m] \in {"enable", "restart"} => loaded # Nothing
    /\ Commanding(m, {"enable", "restart"}) => loaded # Nothing
    /\ Commanding(m, {"daemon-reload"}) /\ m \notin unsent => loaded # Nothing
    /\ Looking(m) /\ then[m] = "reloaded" => loaded # Nothing

LookIsOfTheUnit(m) ==
    Unit(m) # Nothing => /\ Unit(m).enabled \/ Active(m) => Verified(m)
                         /\ Verified(m) => loaded # Nothing

(* A call to stop does nothing that a call to run the service does.        *)
StopOnlyStops(m) ==
    /\ op[m] = "stop" /\ Looking(m) => then[m] \in {"stop", "gone", "make way", "way made"}
    /\ op[m] = "stop" /\ at[m] = "systemctl" => then[m] = "disable"

(* Unless a manager died, whose command may arrive at any time, nobody     *)
(* else changes the unit while a manager does.                             *)
UnitFollows(m) ==
    /\ Looking(m) /\ Unit(m) # Nothing => /\ Unit(m).enabled = enabled
                                          /\ ~Active(m) /\ ~enabled => unit \notin Acting
    /\ Commanding(m, {"restart"}) => enabled
    /\ Commanding(m, {"enable"}) /\ m \notin unsent => enabled
    /\ Commanding(m, {"disable"}) /\ m \notin unsent => Quiet
    /\ Looking(m) /\ op[m] = "stop" /\ then[m] \in {"gone", "make way"} => Quiet
    /\ Commanding(m, {"daemon-reload", "enable", "restart"}) => unitFile = Wanted[m]
    /\ Looking(m) /\ then[m] \in {"reloaded", "poll"} => unitFile = Wanted[m]
    /\ Looking(m) /\ then[m] = "poll" => enabled

ActsOnTheUnit(m) ==
    /\ CommandIsUnderWay(m)
    /\ CommandIsForTheUnit(m)
    /\ LookIsOfTheUnit(m)
    /\ StopOnlyStops(m)
    /\ NobodyDied => UnitFollows(m)

UnitInv ==
    /\ DOMAIN then = Managers /\ DOMAIN plan = Managers
    /\ UnitIsInstalled
    /\ \A m \in Managers : ActsOnTheUnit(m)

SafetyInv == TypeInv /\ LifecycleInv /\ UnitInv

LEMMA UnitInit == Init => UnitInv
<1> SUFFICES ASSUME Init PROVE UnitInv
  OBVIOUS
<1> USE ManagersAssumption
<1>1. UnitIsInstalled
  <2>1. again = FALSE
    BY DEF Init
  <2>2. CASE unitFile = Nothing /\ loaded = Nothing /\ enabled = FALSE
          /\ unit = "inactive" /\ main = Nothing
    BY <2>1, <2>2 DEF UnitIsInstalled, Acting
  <2>3. ASSUME NEW i \in Identities, unitFile = i /\ loaded = i /\ unit = "active"
        PROVE UnitIsInstalled
    BY <2>1, <2>3 DEF UnitIsInstalled
  <2> QED
    BY <2>2, <2>3, Zenon DEF Init
<1>2. DOMAIN then = Managers /\ DOMAIN plan = Managers
  BY DEF Init
<1>3. ASSUME NEW m \in Managers PROVE ActsOnTheUnit(m)
  <2>1. unsent = {} /\ at[m] \in {"idle", "dead"} /\ Unit(m) = Nothing
    BY DEF Init, Unit, UnseenYet
  <2> QED
    BY <2>1 DEF ActsOnTheUnit, CommandIsUnderWay, CommandIsForTheUnit, LookIsOfTheUnit,
       StopOnlyStops, UnitFollows, Looking, Commanding
<1> QED
  BY <1>1, <1>2, <1>3 DEF UnitInv

LEMMA OneUnderTheLock ==
    ASSUME LifecycleInv, NEW m \in Managers, at[m] \in Mutating,
           NEW n \in Managers, n # m
    PROVE  at[n] \notin Mutating
BY DEF LifecycleInv, HoldersHoldTheLock

(* A manager that has no part in a step of one under the lock.             *)
LEMMA BystandersGoOn ==
    ASSUME NEW n \in Managers, ActsOnTheUnit(n),
           UNCHANGED <<at[n], then[n], seen[n], op[n]>>, n \in unsent' <=> n \in unsent,
           loaded # Nothing => loaded' # Nothing,
           unitFile # Nothing => unitFile' # Nothing,
           NobodyDied' => at[n] \notin Mutating
    PROVE  ActsOnTheUnit(n)'
<1>1. CommandIsUnderWay(n)'
  BY DEF ActsOnTheUnit, CommandIsUnderWay
<1>2. CommandIsForTheUnit(n)'
  BY DEF ActsOnTheUnit, CommandIsForTheUnit, Commanding, Looking
<1>3. LookIsOfTheUnit(n)'
  BY DEF ActsOnTheUnit, LookIsOfTheUnit, Unit, Active, Verified
<1>4. StopOnlyStops(n)'
  BY DEF ActsOnTheUnit, StopOnlyStops, Looking
<1>5. NobodyDied' => UnitFollows(n)'
  BY DEF UnitFollows, Looking, Commanding, Mutating
<1> QED
  BY <1>1, <1>2, <1>3, <1>4, <1>5 DEF ActsOnTheUnit

(* What a look is for, and what a command is, fit the unit.                *)
LookFits(m, purpose) ==
    /\ purpose = "reloaded" => loaded # Nothing
    /\ op[m] = "stop" => purpose \in {"stop", "gone", "make way", "way made"}
    /\ NobodyDied => /\ op[m] = "stop" /\ purpose \in {"gone", "make way"} => Quiet
                     /\ purpose \in {"reloaded", "poll"} => unitFile' = Wanted[m]
                     /\ purpose = "poll" => enabled

CallFits(m, verb) ==
    /\ unitFile' # Nothing
    /\ verb \in {"enable", "restart"} => loaded # Nothing
    /\ op[m] = "stop" => verb = "disable"
    /\ NobodyDied => /\ verb \in {"daemon-reload", "enable", "restart"} => unitFile' = Wanted[m]
                     /\ verb = "restart" => enabled

(* What leaves the unit alone, but may write its file.                     *)
LeavesUnit ==
    /\ UNCHANGED <<loaded, enabled, unit, main, again, op>>
    /\ unitFile' = unitFile \/ unitFile' # Nothing

LEMMA InstalledStays ==
    ASSUME UnitIsInstalled, LeavesUnit, NobodyDied' => NobodyDied
    PROVE  UnitIsInstalled'
BY DEF UnitIsInstalled, LeavesUnit

LEMMA LivingStayAlive ==
    ASSUME LocalTypes, NEW m \in Managers, at[m] # "dead", NEW place, place # "dead",
           at' = [at EXCEPT ![m] = place]
    PROVE  NobodyDied' <=> NobodyDied
BY DEF NobodyDied, Alive, LocalTypes

(* The step of a manager under the lock is its own affair.                 *)
LEMMA HoldersStep ==
    ASSUME SafetyInv, NEW m \in Managers, at[m] \in Mutating, LeavesUnit,
           NEW place \in Mutating, at' = [at EXCEPT ![m] = place],
           DOMAIN then' = Managers, DOMAIN plan' = Managers,
           \A n \in Managers \ {m} : /\ UNCHANGED <<then[n], seen[n]>>
                                     /\ n \in unsent' <=> n \in unsent,
           ActsOnTheUnit(m)'
    PROVE  UnitInv'
<1>1. at[m] # "dead" /\ place # "dead"
  BY DEF Mutating
<1>2. NobodyDied' <=> NobodyDied
  BY <1>1, LivingStayAlive DEF SafetyInv, TypeInv
<1>3. ASSUME NEW n \in Managers, n # m PROVE ActsOnTheUnit(n)'
  <2>1. at[n] \notin Mutating
    BY <1>3, OneUnderTheLock DEF SafetyInv
  <2>2. /\ UNCHANGED <<at[n], then[n], seen[n], op[n]>>
        /\ n \in unsent' <=> n \in unsent
        /\ ActsOnTheUnit(n)
    BY <1>3 DEF SafetyInv, UnitInv, LeavesUnit
  <2>3. /\ loaded # Nothing => loaded' # Nothing
        /\ unitFile # Nothing => unitFile' # Nothing
    BY DEF LeavesUnit
  <2> QED
    BY <2>1, <2>2, <2>3, BystandersGoOn
<1>4. UnitIsInstalled'
  BY <1>2, InstalledStays DEF SafetyInv, UnitInv
<1> QED
  BY <1>3, <1>4 DEF UnitInv

LEMMA LooksKeepUnit ==
    ASSUME SafetyInv, NEW m \in Managers, at[m] \in Mutating, LeavesUnit, m \notin unsent,
           NEW how \in {"inspect", "status"}, NEW purpose,
           Look(m, how, purpose), LookFits(m, purpose)
    PROVE  UnitInv'
<1>1. at' = [at EXCEPT ![m] = how] /\ how \in Mutating
  BY DEF Look, Goto, Mutating
<1>2. /\ then' = [then EXCEPT ![m] = purpose] /\ plan' = plan
      /\ seen' = [seen EXCEPT ![m] = UnseenYet] /\ unsent' = unsent
      /\ DOMAIN then = Managers /\ DOMAIN plan = Managers
  BY DEF Look, SafetyInv, UnitInv
<1>3. at'[m] = how /\ then'[m] = purpose /\ Unit(m)' = Nothing /\ m \notin unsent'
  BY <1>1, <1>2 DEF SafetyInv, TypeInv, LocalTypes, Unit, UnseenYet
<1>4. NobodyDied' <=> NobodyDied
  BY <1>1, LivingStayAlive DEF SafetyInv, TypeInv, Mutating
<1>5. ActsOnTheUnit(m)'
  BY <1>3, <1>4 DEF ActsOnTheUnit, CommandIsUnderWay, CommandIsForTheUnit, LookIsOfTheUnit,
     StopOnlyStops, UnitFollows, Looking, Commanding, LookFits, LeavesUnit, Quiet
<1>6. \A n \in Managers \ {m} : UNCHANGED <<then[n], seen[n]>>
  BY <1>2 DEF SafetyInv, TypeInv, LocalTypes
<1> QED
  BY <1>1, <1>2, <1>5, <1>6, HoldersStep

LEMMA FinishesKeepUnit ==
    ASSUME SafetyInv, NEW m \in Managers, at[m] \in Mutating, LeavesUnit, m \notin unsent,
           NEW outcome, Finish(m, outcome)
    PROVE  UnitInv'
<1>1. at' = [at EXCEPT ![m] = "release"] /\ "release" \in Mutating
  BY DEF Finish, Goto, Mutating
<1>2. /\ then' = [then EXCEPT ![m] = "none"] /\ plan' = [plan EXCEPT ![m] = "none"]
      /\ seen' = [seen EXCEPT ![m] = UnseenYet] /\ unsent' = unsent
      /\ DOMAIN then = Managers /\ DOMAIN plan = Managers
  BY DEF Finish, SafetyInv, UnitInv
<1>3. at'[m] = "release" /\ Unit(m)' = Nothing /\ m \notin unsent'
  BY <1>1, <1>2 DEF SafetyInv, TypeInv, LocalTypes, Unit, UnseenYet
<1>5. ActsOnTheUnit(m)'
  BY <1>3 DEF ActsOnTheUnit, CommandIsUnderWay, CommandIsForTheUnit, LookIsOfTheUnit,
     StopOnlyStops, UnitFollows, Looking, Commanding
<1>6. \A n \in Managers \ {m} : UNCHANGED <<then[n], seen[n]>>
  BY <1>2 DEF SafetyInv, TypeInv, LocalTypes
<1> QED
  BY <1>1, <1>2, <1>5, <1>6, HoldersStep

LEMMA CallsKeepUnit ==
    ASSUME SafetyInv, NEW m \in Managers, at[m] \in Mutating, LeavesUnit,
           NEW verb, NEW decision, Call(m, verb, decision), CallFits(m, verb)
    PROVE  UnitInv'
<1>1. at' = [at EXCEPT ![m] = "systemctl"] /\ "systemctl" \in Mutating
  BY DEF Call, Goto, Mutating
<1>2. /\ then' = [then EXCEPT ![m] = verb] /\ plan' = [plan EXCEPT ![m] = decision]
      /\ seen' \in {seen, [seen EXCEPT ![m] = UnseenYet]} /\ unsent' = unsent \union {m}
      /\ DOMAIN then = Managers /\ DOMAIN plan = Managers
  BY DEF Call, SafetyInv, UnitInv
<1>3. /\ at'[m] = "systemctl" /\ then'[m] = verb /\ m \in unsent'
      /\ Unit(m)' = Nothing \/ Unit(m)' = Unit(m)
  BY <1>1, <1>2 DEF SafetyInv, TypeInv, LocalTypes, Unit, UnseenYet
<1>4. NobodyDied' <=> NobodyDied
  BY <1>1, LivingStayAlive DEF SafetyInv, TypeInv, Mutating
<1>5. ActsOnTheUnit(m)'
  <2>1. CommandIsUnderWay(m)'
    BY <1>3 DEF CommandIsUnderWay, SafetyInv, TypeInv, LocalTypes, DepartedAreDead, Mutating
  <2>2. LookIsOfTheUnit(m)'
    <3>1. LookIsOfTheUnit(m)
      BY DEF SafetyInv, UnitInv, ActsOnTheUnit
    <3> QED
      BY <1>3, <3>1 DEF LookIsOfTheUnit, Active, Verified, LeavesUnit
  <2>3. CommandIsForTheUnit(m)' /\ StopOnlyStops(m)'
    BY <1>3 DEF CommandIsForTheUnit, StopOnlyStops, Looking, Commanding, CallFits, LeavesUnit
  <2>4. NobodyDied' => UnitFollows(m)'
    BY <1>3, <1>4 DEF UnitFollows, Looking, Commanding, CallFits, LeavesUnit
  <2> QED
    BY <2>1, <2>2, <2>3, <2>4 DEF ActsOnTheUnit
<1>6. \A n \in Managers \ {m} : /\ UNCHANGED <<then[n], seen[n]>>
                                /\ n \in unsent' <=> n \in unsent
  BY <1>2 DEF SafetyInv, TypeInv, LocalTypes
<1> QED
  BY <1>1, <1>2, <1>5, <1>6, HoldersStep

LEMMA MakingWayKeepsUnit ==
    ASSUME SafetyInv, NEW m \in Managers, at[m] \in Mutating, m \notin unsent,
           LeavesUnit, unitFile' = unitFile, MakeWay(m), Unit(m) # Nothing
    PROVE  UnitInv'
<1>1. Verified(m) => unitFile # Nothing
  BY DEF SafetyInv, UnitInv, UnitIsInstalled, ActsOnTheUnit, LookIsOfTheUnit
<1>2. CASE Verified(m) /\ Call(m, "disable", Lock(m).owner)
  <2>1. CallFits(m, "disable")
    BY <1>1, <1>2 DEF CallFits
  <2> QED
    BY <1>2, <2>1, CallsKeepUnit
<1>3. ASSUME NEW outcome, Finish(m, outcome) PROVE UnitInv'
  BY <1>3, FinishesKeepUnit
<1> QED
  BY <1>2, <1>3 DEF MakeWay

(* What a call to run the service goes on with, once the unit's file is    *)
(* right and the unit loaded; with a restart or a poll, also enabled.      *)
LEMMA ProceedingKeepsUnit ==
    ASSUME SafetyInv, NEW m \in Managers, at[m] \in Mutating, m \notin unsent, LeavesUnit,
           NEW decision, Proceed(m, decision), op[m] # "stop",
           unitFile' # Nothing, loaded # Nothing,
           NobodyDied => unitFile' = Wanted[m] /\ enabled
    PROVE  UnitInv'
<1>1. CallFits(m, "restart") /\ LookFits(m, "poll")
  BY DEF CallFits, LookFits
<1> QED
  BY <1>1, FinishesKeepUnit, CallsKeepUnit, LooksKeepUnit DEF Proceed

LEMMA DecideKeepsUnit ==
    ASSUME SafetyInv, NEW m \in Managers, Decide(m)
    PROVE  UnitInv'
<1> USE ManagersAssumption
<1>1. /\ Looking(m) /\ then[m] = "ensureRunning" /\ Unit(m) # Nothing
      /\ UNCHANGED <<loaded, enabled, unit, main, again, op>>
  BY DEF Decide, Seen, Looking, Unit, request
<1>2. at[m] \in Mutating /\ m \notin unsent /\ op[m] # "stop"
  BY <1>1 DEF Looking, Mutating, SafetyInv, UnitInv, ActsOnTheUnit, CommandIsUnderWay, StopOnlyStops
<1>3. CASE Independent(m)
  <2>1. unitFile' = unitFile /\ MakeWay(m)
    BY <1>3 DEF Decide
  <2> QED
    BY <1>1, <1>2, <2>1, MakingWayKeepsUnit DEF LeavesUnit
<1>4. CASE ~Independent(m)
  <2>1. unitFile' = Wanted[m] /\ unitFile' # Nothing
    <3>1. m \notin Departed
      BY <1>2 DEF SafetyInv, TypeInv, LocalTypes, DepartedAreDead, Mutating
    <3> QED
      BY <1>4, <3>1 DEF Decide
  <2>2. LeavesUnit
    BY <1>1, <2>1 DEF LeavesUnit
  <2>3. CASE Call(m, "daemon-reload", "restart")
    <3>1. CallFits(m, "daemon-reload")
      BY <1>2, <2>1 DEF CallFits
    <3> QED
      BY <1>2, <2>2, <2>3, <3>1, CallsKeepUnit
  <2>4. CASE Verified(m) /\ EnableAndProceed(m, Decision(m))
    <3>1. loaded # Nothing
      BY <1>1, <2>4 DEF SafetyInv, UnitInv, ActsOnTheUnit, LookIsOfTheUnit
    <3>2. CASE Unit(m).enabled /\ Proceed(m, Decision(m))
      <4>1. NobodyDied => enabled
        BY <1>1, <3>2 DEF SafetyInv, UnitInv, ActsOnTheUnit, UnitFollows
      <4> QED
        BY <1>2, <2>1, <2>2, <3>1, <3>2, <4>1, ProceedingKeepsUnit
    <3>3. CASE Call(m, "enable", Decision(m))
      <4>1. CallFits(m, "enable")
        BY <1>2, <2>1, <3>1 DEF CallFits
      <4> QED
        BY <1>2, <2>2, <3>3, <4>1, CallsKeepUnit
    <3> QED
      BY <2>4, <3>2, <3>3 DEF EnableAndProceed
  <2> QED
    BY <1>4, <2>3, <2>4 DEF Decide
<1> QED
  BY <1>3, <1>4

(* What returns, returns to its manager under the lock.                    *)
LEMMA ReturnsAreUnderTheLock ==
    ASSUME SafetyInv, NEW m \in Managers, Unmoved
    PROVE  /\ LeavesUnit /\ unitFile' = unitFile
           /\ \A purpose : Seen(m, purpose) =>
                 /\ at[m] \in Mutating /\ m \notin unsent /\ Looking(m)
                 /\ then[m] = purpose /\ Unit(m) # Nothing
           /\ \A verb : Returned(m, verb) =>
                 /\ at[m] \in Mutating /\ m \notin unsent /\ Commanding(m, {verb})
<1>1. LeavesUnit /\ unitFile' = unitFile
  BY DEF LeavesUnit, Unmoved, systemd, request
<1>2. ASSUME NEW purpose, Seen(m, purpose)
      PROVE  /\ at[m] \in Mutating /\ m \notin unsent /\ Looking(m)
             /\ then[m] = purpose /\ Unit(m) # Nothing
  BY <1>2 DEF Seen, Mutating, Looking, Unit, SafetyInv, UnitInv, ActsOnTheUnit, CommandIsUnderWay
<1>3. ASSUME NEW verb, Returned(m, verb)
      PROVE  at[m] \in Mutating /\ m \notin unsent /\ Commanding(m, {verb})
  BY <1>3 DEF Returned, Mutating, Commanding
<1> QED
  BY <1>1, <1>2, <1>3

LEMMA CommandsReturnToTheUnit ==
    ASSUME SafetyInv, NEW m \in Managers,
           Reloaded(m) \/ Enabled(m) \/ Restarted(m) \/ Disabled(m)
    PROVE  UnitInv'
<1>1. Unmoved
  BY DEF Reloaded, Enabled, Restarted, Disabled
<1>2. LeavesUnit /\ unitFile' = unitFile
  BY <1>1, ReturnsAreUnderTheLock
<1>3. /\ ActsOnTheUnit(m) /\ UnitIsInstalled
  BY DEF SafetyInv, UnitInv
<1>4. ASSUME Reloaded(m) PROVE UnitInv'
  <2>1. Returned(m, "daemon-reload") /\ Look(m, "inspect", "reloaded")
    BY <1>4 DEF Reloaded
  <2>2. at[m] \in Mutating /\ m \notin unsent /\ Commanding(m, {"daemon-reload"})
    BY <1>1, <2>1, ReturnsAreUnderTheLock
  <2>3. LookFits(m, "reloaded")
    BY <1>2, <1>3, <2>2 DEF LookFits, ActsOnTheUnit, CommandIsForTheUnit, StopOnlyStops,
       UnitFollows, Commanding
  <2> QED
    BY <1>2, <2>1, <2>2, <2>3, LooksKeepUnit
<1>5. ASSUME Enabled(m) PROVE UnitInv'
  <2>1. Returned(m, "enable") /\ Proceed(m, plan[m])
    BY <1>5 DEF Enabled
  <2>2. at[m] \in Mutating /\ m \notin unsent /\ Commanding(m, {"enable"})
    BY <1>1, <2>1, ReturnsAreUnderTheLock
  <2>3. /\ op[m] # "stop" /\ loaded # Nothing /\ unitFile' # Nothing
        /\ NobodyDied => unitFile' = Wanted[m] /\ enabled
    BY <1>2, <1>3, <2>2 DEF ActsOnTheUnit, CommandIsForTheUnit, StopOnlyStops, UnitFollows,
       Commanding, UnitIsInstalled
  <2> QED
    BY <1>2, <2>1, <2>2, <2>3, ProceedingKeepsUnit
<1>6. ASSUME Restarted(m) PROVE UnitInv'
  <2>1. Returned(m, "restart") /\ Look(m, "status", "poll")
    BY <1>6 DEF Restarted
  <2>2. at[m] \in Mutating /\ m \notin unsent /\ Commanding(m, {"restart"})
    BY <1>1, <2>1, ReturnsAreUnderTheLock
  <2>3. LookFits(m, "poll")
    BY <1>2, <1>3, <2>2 DEF LookFits, ActsOnTheUnit, CommandIsForTheUnit, StopOnlyStops,
       UnitFollows, Commanding
  <2> QED
    BY <1>2, <2>1, <2>2, <2>3, LooksKeepUnit
<1>7. ASSUME Disabled(m) PROVE UnitInv'
  <2>1. Returned(m, "disable")
    BY <1>7 DEF Disabled
  <2>2. at[m] \in Mutating /\ m \notin unsent /\ Commanding(m, {"disable"})
    BY <1>1, <2>1, ReturnsAreUnderTheLock
  <2>3. LookFits(m, "gone") /\ LookFits(m, "way made")
    BY <1>3, <2>2 DEF LookFits, ActsOnTheUnit, UnitFollows, Commanding
  <2>4. Look(m, "status", "gone") \/ Look(m, "inspect", "way made")
    BY <1>7 DEF Disabled
  <2> QED
    BY <1>2, <2>2, <2>3, <2>4, LooksKeepUnit
<1> QED
  BY <1>4, <1>5, <1>6, <1>7

(* What a call to stop has seen to be idle stays so.                       *)
LEMMA SeenIdleIsQuiet ==
    ASSUME SafetyInv, NEW m \in Managers, Looking(m), Unit(m) # Nothing, NobodyDied,
           ~(Verified(m) /\ (Active(m) \/ Unit(m).enabled))
    PROVE  Quiet
<1>1. LookIsOfTheUnit(m) /\ UnitFollows(m) /\ UnitIsInstalled
  BY DEF SafetyInv, UnitInv, ActsOnTheUnit
<1>2. ~Active(m) /\ ~Unit(m).enabled
  BY <1>1 DEF LookIsOfTheUnit
<1>3. ~enabled
  BY <1>1, <1>2 DEF UnitFollows
<1> QED
  BY <1>1, <1>2, <1>3 DEF UnitFollows, UnitIsInstalled, Quiet

LEMMA LooksAreActedOn ==
    ASSUME SafetyInv, NEW m \in Managers,
           \/ DecideAgain(m) \/ Poll(m) \/ RestartFailed(m) \/ MakeWayNow(m) \/ WayMade(m)
           \/ DecideStop(m) \/ Gone(m)
    PROVE  UnitInv'
<1>1. Unmoved
  BY DEF DecideAgain, Poll, RestartFailed, MakeWayNow, WayMade, DecideStop, Gone
<1>2. LeavesUnit /\ unitFile' = unitFile
  BY <1>1, ReturnsAreUnderTheLock
<1>3. ActsOnTheUnit(m) /\ UnitIsInstalled
  BY DEF SafetyInv, UnitInv
<1>4. /\ at[m] \in Mutating /\ m \notin unsent /\ Looking(m) /\ Unit(m) # Nothing
      /\ Verified(m) => loaded # Nothing
  <2>1. PICK purpose : Seen(m, purpose)
    BY DEF DecideAgain, Poll, RestartFailed, MakeWayNow, WayMade, DecideStop, Gone
  <2> QED
    BY <1>1, <1>3, <2>1, ReturnsAreUnderTheLock DEF ActsOnTheUnit, LookIsOfTheUnit
<1>5. ASSUME MakeWay(m) PROVE UnitInv'
  BY <1>2, <1>4, <1>5, MakingWayKeepsUnit
<1>6. ASSUME NEW outcome, Finish(m, outcome) PROVE UnitInv'
  BY <1>2, <1>4, <1>6, FinishesKeepUnit
<1>7. ASSUME DecideAgain(m) PROVE UnitInv'
  <2>1. then[m] = "reloaded"
    BY <1>7 DEF DecideAgain, Seen
  <2>2. loaded # Nothing /\ op[m] # "stop" /\ unitFile' # Nothing
    BY <1>2, <1>3, <1>4, <2>1 DEF ActsOnTheUnit, CommandIsForTheUnit, StopOnlyStops, UnitIsInstalled
  <2>3. NobodyDied => unitFile' = Wanted[m] /\ Unit(m).enabled = enabled
    BY <1>2, <1>3, <1>4, <2>1 DEF ActsOnTheUnit, UnitFollows
  <2>4. CallFits(m, "enable") /\ (Unit(m).enabled => CallFits(m, "restart"))
    BY <2>2, <2>3 DEF CallFits
  <2>5. \/ MakeWay(m) \/ Call(m, "enable", "restart")
        \/ Unit(m).enabled /\ Call(m, "restart", "restart")
    BY <1>7 DEF DecideAgain
  <2> QED
    BY <1>2, <1>4, <1>5, <2>4, <2>5, CallsKeepUnit
<1>8. ASSUME Poll(m) \/ RestartFailed(m) PROVE UnitInv'
  <2>1. then[m] \in {"poll", "restart failed"}
    BY <1>8 DEF Poll, RestartFailed, Seen
  <2>2. op[m] # "stop"
    BY <1>3, <1>4, <2>1 DEF ActsOnTheUnit, StopOnlyStops
  <2>3. LookFits(m, "make way") /\ (then[m] = "poll" => LookFits(m, "poll"))
    BY <1>2, <1>3, <1>4, <2>2 DEF LookFits, ActsOnTheUnit, UnitFollows
  <2>4. \/ Look(m, "inspect", "make way")
        \/ then[m] = "poll" /\ Look(m, "status", "poll")
        \/ \E outcome : Finish(m, outcome)
    BY <1>8 DEF Poll, RestartFailed, Seen
  <2> QED
    BY <1>2, <1>4, <1>6, <2>3, <2>4, LooksKeepUnit
<1>9. ASSUME DecideStop(m) PROVE UnitInv'
  <2>1. CASE Verified(m) /\ Call(m, "disable", "stop")
    <3>1. CallFits(m, "disable")
      BY <1>2, <1>3, <1>4, <2>1 DEF CallFits, UnitIsInstalled
    <3> QED
      BY <1>2, <1>4, <2>1, <3>1, CallsKeepUnit
  <2>2. CASE /\ ~(Verified(m) /\ (Active(m) \/ Unit(m).enabled))
             /\ Look(m, "status", "gone")
    <3>1. LookFits(m, "gone")
      BY <1>4, <2>2, SeenIdleIsQuiet DEF LookFits
    <3> QED
      BY <1>2, <1>4, <2>2, <3>1, LooksKeepUnit
  <2> QED
    BY <1>5, <1>6, <1>9, <2>1, <2>2 DEF DecideStop
<1>10. ASSUME Gone(m) PROVE UnitInv'
  <2>1. then[m] = "gone"
    BY <1>10 DEF Gone, Seen
  <2>2. LookFits(m, "make way") /\ LookFits(m, "gone")
    BY <1>3, <1>4, <2>1 DEF LookFits, ActsOnTheUnit, UnitFollows
  <2>3. \/ Look(m, "inspect", "make way") \/ Look(m, "status", "gone")
        \/ \E outcome : Finish(m, outcome)
    BY <1>10 DEF Gone
  <2> QED
    BY <1>2, <1>4, <1>6, <2>2, <2>3, LooksKeepUnit
<1>11. ASSUME MakeWayNow(m) \/ WayMade(m) PROVE UnitInv'
  BY <1>5, <1>6, <1>11 DEF MakeWayNow, WayMade
<1> QED
  BY <1>7, <1>8, <1>9, <1>10, <1>11

(* Steps that leave the unit and every command alone, and move one manager *)
(* to a place without the lock.                                            *)
LEMMA LeavingKeepsUnit ==
    ASSUME SafetyInv, NEW m \in Managers, at[m] \notin {"systemctl", "dead"},
           NEW place \in {"idle"} \union Waiting, at' = [at EXCEPT ![m] = place],
           \A n \in Managers \ {m} : op'[n] = op[n],
           UNCHANGED <<seen, then, plan, unsent, systemd>>
    PROVE  UnitInv'
<1>1. NobodyDied' <=> NobodyDied
  BY LivingStayAlive DEF SafetyInv, TypeInv, Waiting
<1>2. UnitIsInstalled'
  BY <1>1 DEF SafetyInv, UnitInv, UnitIsInstalled, systemd
<1>3. ASSUME NEW n \in Managers PROVE ActsOnTheUnit(n)'
  <2>1. CASE n = m
    <3>1. /\ at'[m] = place /\ m \notin unsent' /\ LookIsOfTheUnit(m)
          /\ UNCHANGED <<loaded, seen>>
      BY DEF SafetyInv, TypeInv, LocalTypes, UnitInv, ActsOnTheUnit, CommandIsUnderWay,
         systemd
    <3> QED
      BY <2>1, <3>1 DEF ActsOnTheUnit, CommandIsUnderWay, CommandIsForTheUnit, LookIsOfTheUnit,
         StopOnlyStops, UnitFollows, Looking, Commanding, Waiting, Unit, Active, Verified
  <2>2. CASE n # m
    <3>1. /\ UNCHANGED <<at[n], then[n], seen[n], op[n], unsent>>
          /\ UNCHANGED <<unitFile, loaded, enabled, unit, again>>
      BY <2>2 DEF SafetyInv, TypeInv, LocalTypes, systemd
    <3> QED
      BY <1>1, <3>1 DEF SafetyInv, UnitInv, ActsOnTheUnit, CommandIsUnderWay,
         CommandIsForTheUnit, LookIsOfTheUnit, StopOnlyStops, UnitFollows, Looking,
         Commanding, Unit, Active, Verified, Quiet
  <2> QED
    BY <2>1, <2>2
<1> QED
  BY <1>2, <1>3 DEF SafetyInv, UnitInv

LEMMA LifecycleLockKeepsUnit ==
    ASSUME SafetyInv, NEW m \in Managers, LifecycleLock(m)
    PROVE  UnitInv'
<1> USE ManagersAssumption
<1>1. UNCHANGED <<systemd, plan, unsent>>
  BY DEF LifecycleLock, Request, LookForGuard, Publish, ReadHolder, JudgeHolder, OpenGuard,
     RecheckHolder, RemoveDead, RemoveGuard, Release, TryAgain, GoOn, Look, memory
<1>2. CASE Publish(m) /\ lifecycle = Nothing
  <2>1. /\ at[m] = "publish" /\ at' = [at EXCEPT ![m] = "inspect"] /\ op' = op
        /\ then' = [then EXCEPT ![m] = op[m]] /\ seen' = [seen EXCEPT ![m] = UnseenYet]
        /\ lifecycle' = m
    BY <1>2 DEF Publish, Look, Goto, request
  <2>2. NobodyDied' <=> NobodyDied
    BY <2>1, LivingStayAlive DEF SafetyInv, TypeInv
  <2>3. UnitIsInstalled'
    BY <1>1, <2>2 DEF SafetyInv, UnitInv, UnitIsInstalled, systemd
  <2>4. ASSUME NEW n \in Managers PROVE ActsOnTheUnit(n)'
    <3>1. ActsOnTheUnit(n)
      BY DEF SafetyInv, UnitInv
    <3>2. CASE n = m
      <4>1. /\ at'[m] = "inspect" /\ then'[m] = op[m] /\ Unit(m)' = Nothing
            /\ op[m] \in {"none", "ensureRunning", "stop"}
        BY <2>1 DEF SafetyInv, TypeInv, LocalTypes, UnitInv, Unit, UnseenYet
      <4>2. m \notin unsent'
        BY <1>1, <2>1, <3>1, <3>2 DEF ActsOnTheUnit, CommandIsUnderWay
      <4> QED
        BY <2>1, <3>2, <4>1, <4>2 DEF ActsOnTheUnit, CommandIsUnderWay, CommandIsForTheUnit,
           LookIsOfTheUnit, StopOnlyStops, UnitFollows, Looking, Commanding
    <3>3. CASE n # m
      <4>1. UNCHANGED <<at[n], then[n], seen[n], op[n]>>
        BY <2>1, <3>3 DEF SafetyInv, TypeInv, LocalTypes, UnitInv
      <4>2. at[n] \notin Mutating
        BY <1>2 DEF SafetyInv, LifecycleInv, HoldersHoldTheLock
      <4> QED
        BY <1>1, <3>1, <4>1, <4>2, BystandersGoOn DEF systemd
    <3> QED
      BY <3>2, <3>3
  <2>5. DOMAIN then' = Managers /\ DOMAIN plan' = Managers
    BY <1>1, <2>1 DEF SafetyInv, UnitInv
  <2> QED
    BY <2>3, <2>4, <2>5 DEF UnitInv
<1>3. CASE ~(Publish(m) /\ lifecycle = Nothing)
  <2>1. /\ at[m] \notin {"systemctl", "dead"} /\ UNCHANGED <<seen, then>>
        /\ \E place \in {"idle"} \union Waiting : at' = [at EXCEPT ![m] = place]
        /\ op' \in {op} \union {[op EXCEPT ![m] = o] : o \in {"none", "ensureRunning", "stop"}}
    BY <1>3 DEF LifecycleLock, Request, LookForGuard, Publish, ReadHolder, JudgeHolder,
       OpenGuard, RecheckHolder, RemoveDead, RemoveGuard, Release, TryAgain, GoOn, Goto,
       request, Waiting
  <2>2. \A n \in Managers \ {m} : op'[n] = op[n]
    BY <2>1 DEF SafetyInv, TypeInv, LocalTypes
  <2> QED
    BY <1>1, <2>1, <2>2, LeavingKeepsUnit
<1> QED
  BY <1>2, <1>3

LEMMA ReadsKeepUnit ==
    ASSUME SafetyInv, NEW m \in Managers, ReadDaemonLock(m) \/ ReadUnit(m)
    PROVE  UnitInv'
<1>1. /\ at[m] \in {"inspect", "status"}
      /\ UNCHANGED <<at, op, then, plan, unsent, unitFile, enabled, unit, main, again>>
      /\ loaded # Nothing => loaded' # Nothing
      /\ loaded' # Nothing => unitFile # Nothing
  BY DEF ReadDaemonLock, ReadUnit, request, memory, systemd, SafetyInv, UnitInv, UnitIsInstalled
<1>2. NobodyDied' <=> NobodyDied
  BY <1>1 DEF NobodyDied, Alive
<1>3. UnitIsInstalled'
  BY <1>1, <1>2 DEF SafetyInv, UnitInv, UnitIsInstalled
<1>4. ASSUME NEW n \in Managers, n # m PROVE ActsOnTheUnit(n)'
  <2>1. seen'[n] = seen[n]
    BY <1>4 DEF ReadDaemonLock, ReadUnit, SafetyInv, TypeInv, LocalTypes
  <2>2. at[n] \notin Mutating
    BY <1>1, <1>4, OneUnderTheLock DEF SafetyInv, Mutating
  <2> QED
    BY <1>1, <2>1, <2>2, BystandersGoOn DEF SafetyInv, UnitInv
<1>5. ActsOnTheUnit(m)'
  <2>1. ActsOnTheUnit(m) /\ UnitIsInstalled
    BY DEF SafetyInv, UnitInv
  <2>2. \/ Unit(m)' = Unit(m)
        \/ /\ Unit(m)'.loaded = (loaded' # Nothing)
           /\ Unit(m)'.enabled = enabled /\ Unit(m)'.state = unit
    <3> DEFINE view == [loaded |-> loaded' # Nothing, enabled |-> enabled,
                        state |-> unit, main |-> main]
    <3>1. Unit(m)' = Unit(m) \/ Unit(m)' = view
      BY DEF ReadDaemonLock, ReadUnit, Unit, SafetyInv, TypeInv, LocalTypes
    <3>2. view.loaded = (loaded' # Nothing) /\ view.enabled = enabled /\ view.state = unit
      OBVIOUS
    <3> HIDE DEF view
    <3> QED
      BY <3>1, <3>2
  <2>3. CommandIsUnderWay(m)' /\ CommandIsForTheUnit(m)' /\ StopOnlyStops(m)'
    BY <1>1, <2>1 DEF ActsOnTheUnit, CommandIsUnderWay, CommandIsForTheUnit, StopOnlyStops,
       Looking, Commanding
  <2>4. LookIsOfTheUnit(m)'
    <3>1. CASE Unit(m)' = Unit(m)
      BY <1>1, <2>1, <3>1 DEF ActsOnTheUnit, LookIsOfTheUnit, Active, Verified
    <3>2. CASE /\ Unit(m)'.loaded = (loaded' # Nothing)
               /\ Unit(m)'.enabled = enabled /\ Unit(m)'.state = unit
      BY <1>1, <1>3, <3>2 DEF LookIsOfTheUnit, Active, Verified, UnitIsInstalled, Acting
    <3> QED
      BY <2>2, <3>1, <3>2
  <2>5. UnitFollows(m) => UnitFollows(m)'
    <3>1. \/ Unit(m)' = Unit(m)
          \/ Unit(m)'.enabled = enabled' /\ Unit(m)'.state = unit'
      BY <1>1, <2>2
    <3>2. UnitFollows(m) /\ Looking(m)' /\ Unit(m)' # Nothing =>
             /\ Unit(m)'.enabled = enabled'
             /\ ~Active(m)' /\ ~enabled' => unit' \notin Acting
      BY <1>1, <3>1 DEF UnitFollows, Looking, Active, Acting
    <3> QED
      BY <1>1, <3>2 DEF UnitFollows, Looking, Commanding, Quiet
  <2> QED
    BY <1>2, <2>1, <2>3, <2>4, <2>5 DEF ActsOnTheUnit
<1>6. DOMAIN then' = Managers /\ DOMAIN plan' = Managers
  BY <1>1 DEF SafetyInv, UnitInv
<1> QED
  BY <1>3, <1>4, <1>5, <1>6 DEF UnitInv

LEMMA ArrivalsKeepUnit ==
    ASSUME SafetyInv, NEW m \in Managers, SystemctlArrives(m)
    PROVE  UnitInv'
<1>1. /\ m \in unsent /\ unsent' = unsent \ {m}
      /\ UNCHANGED <<at, op, seen, then, plan, unitFile, main>>
  BY DEF SystemctlArrives, request
<1>2. NobodyDied' <=> NobodyDied
  BY <1>1 DEF NobodyDied, Alive
<1>3. ActsOnTheUnit(m) /\ UnitIsInstalled
  BY DEF SafetyInv, UnitInv
<1>4. /\ m \notin Departed /\ at[m] \in {"systemctl", "dead"}
      /\ NobodyDied => at[m] = "systemctl"
  BY <1>1, <1>3 DEF ActsOnTheUnit, CommandIsUnderWay, NobodyDied, Alive
<1>5. /\ loaded' \in {loaded, unitFile} /\ unitFile # Nothing
      /\ loaded # Nothing => loaded' # Nothing
  BY <1>1, <1>3 DEF SystemctlArrives, DaemonReload, Enable, DisableNow, Restart, ActsOnTheUnit,
     CommandIsForTheUnit
<1>6. ASSUME NEW n \in Managers, n # m PROVE ActsOnTheUnit(n)'
  <2>1. NobodyDied => at[n] \notin Mutating
    BY <1>4, <1>6, OneUnderTheLock DEF SafetyInv, Mutating
  <2>2. n \in unsent' <=> n \in unsent
    BY <1>1, <1>6
  <2> QED
    BY <1>1, <1>2, <1>5, <1>6, <2>1, <2>2, BystandersGoOn DEF SafetyInv, UnitInv
<1>7. NobodyDied => UnitFollows(m)
  BY <1>3 DEF ActsOnTheUnit
<1>8. LookIsOfTheUnit(m)' /\ CommandIsUnderWay(m)' /\ StopOnlyStops(m)'
  BY <1>1, <1>3, <1>5 DEF ActsOnTheUnit, LookIsOfTheUnit, CommandIsUnderWay, StopOnlyStops,
     Looking, Unit, Active, Verified
<1>9. CASE then[m] = "daemon-reload" /\ DaemonReload
  <2>1. loaded' = unitFile /\ UNCHANGED <<enabled, unit, again>>
    BY <1>9 DEF DaemonReload
  <2>2. UnitIsInstalled'
    BY <1>1, <1>2, <1>3, <1>5, <2>1 DEF UnitIsInstalled
  <2>3. CommandIsForTheUnit(m)' /\ (NobodyDied' => UnitFollows(m)')
    BY <1>1, <1>2, <1>4, <1>5, <1>7, <1>9, <2>1 DEF CommandIsForTheUnit, UnitFollows, Looking,
       Commanding
  <2> QED
    BY <1>1, <1>6, <1>8, <2>2, <2>3 DEF SafetyInv, UnitInv, ActsOnTheUnit
<1>10. CASE then[m] = "enable" /\ Enable
  <2>1. enabled' = TRUE /\ UNCHANGED <<loaded, unit, again>> /\ loaded # Nothing
    BY <1>1, <1>3, <1>10 DEF Enable, ActsOnTheUnit, CommandIsForTheUnit
  <2>2. UnitIsInstalled'
    BY <1>1, <1>2, <1>3, <1>5, <2>1 DEF UnitIsInstalled
  <2>3. CommandIsForTheUnit(m)' /\ (NobodyDied' => UnitFollows(m)')
    BY <1>1, <1>2, <1>4, <1>5, <1>7, <1>10, <2>1 DEF CommandIsForTheUnit, UnitFollows, Looking,
       Commanding
  <2> QED
    BY <1>1, <1>6, <1>8, <2>2, <2>3 DEF SafetyInv, UnitInv, ActsOnTheUnit
<1>11. CASE then[m] = "disable" /\ DisableNow
  <2>1. /\ enabled' = FALSE /\ again' = FALSE /\ loaded' = loaded
        /\ unit' = IF unit = "active" THEN "deactivating"
                   ELSE IF unit = "auto-restart" THEN "inactive" ELSE unit
    BY <1>11 DEF DisableNow
  <2>2. UnitIsInstalled' /\ Quiet'
    BY <1>1, <1>2, <1>3, <1>5, <2>1 DEF UnitIsInstalled, Quiet, Acting
  <2>3. CommandIsForTheUnit(m)' /\ (NobodyDied' => UnitFollows(m)')
    BY <1>1, <1>2, <1>4, <1>5, <1>11, <2>2 DEF CommandIsForTheUnit, UnitFollows, Looking,
       Commanding
  <2> QED
    BY <1>1, <1>6, <1>8, <2>2, <2>3 DEF SafetyInv, UnitInv, ActsOnTheUnit
<1>12. CASE then[m] = "restart" /\ Restart
  <2>1. /\ again' = TRUE /\ UNCHANGED <<loaded, enabled>> /\ loaded # Nothing
        /\ unit' = IF unit = "active" THEN "deactivating" ELSE unit
    BY <1>1, <1>3, <1>12 DEF Restart, ActsOnTheUnit, CommandIsForTheUnit
  <2>2. NobodyDied => enabled
    BY <1>4, <1>7, <1>12 DEF UnitFollows, Commanding
  <2>3. UnitIsInstalled'
    BY <1>1, <1>2, <1>3, <1>5, <2>1, <2>2 DEF UnitIsInstalled, Acting
  <2>4. CommandIsForTheUnit(m)' /\ (NobodyDied' => UnitFollows(m)')
    BY <1>1, <1>2, <1>4, <1>5, <1>7, <1>12, <2>1 DEF CommandIsForTheUnit, UnitFollows, Looking,
       Commanding
  <2> QED
    BY <1>1, <1>6, <1>8, <2>3, <2>4 DEF SafetyInv, UnitInv, ActsOnTheUnit
<1> QED
  BY <1>9, <1>10, <1>11, <1>12 DEF SystemctlArrives

LEMMA FailuresKeepUnit ==
    ASSUME SafetyInv, NEW m \in Managers, CommandFails(m)
    PROVE  UnitInv'
<1>1. /\ at[m] = "systemctl" /\ unsent' = unsent \ {m} /\ Unmoved
      /\ seen' = [seen EXCEPT ![m] = UnseenYet] /\ plan' = [plan EXCEPT ![m] = "none"]
  BY DEF CommandFails
<1>2. LeavesUnit
  BY <1>1, ReturnsAreUnderTheLock
<1>3. PICK place \in {"status", "release"}, purpose \in {"none", "restart failed"} :
        /\ at' = [at EXCEPT ![m] = place] /\ then' = [then EXCEPT ![m] = purpose]
        /\ purpose = "restart failed" => then[m] = "restart"
        /\ purpose = "none" => place = "release"
  BY DEF CommandFails, Goto
<1>4. /\ at'[m] = place /\ then'[m] = purpose /\ Unit(m)' = Nothing /\ m \notin unsent'
      /\ DOMAIN then' = Managers /\ DOMAIN plan' = Managers
  BY <1>1, <1>3 DEF SafetyInv, TypeInv, LocalTypes, UnitInv, Unit, UnseenYet
<1>5. ActsOnTheUnit(m)'
  <2>1. op'[m] = "stop" => purpose # "restart failed"
    BY <1>1, <1>2, <1>3 DEF SafetyInv, UnitInv, ActsOnTheUnit, StopOnlyStops, LeavesUnit
  <2> QED
    BY <1>3, <1>4, <2>1 DEF ActsOnTheUnit, CommandIsUnderWay, CommandIsForTheUnit,
       LookIsOfTheUnit, StopOnlyStops, UnitFollows, Looking, Commanding
<1>6. \A n \in Managers \ {m} : /\ UNCHANGED <<then[n], seen[n]>>
                                /\ n \in unsent' <=> n \in unsent
  BY <1>1, <1>3 DEF SafetyInv, TypeInv, LocalTypes, UnitInv
<1>7. at[m] \in Mutating /\ place \in Mutating
  BY <1>1 DEF Mutating
<1> QED
  BY <1>2, <1>3, <1>4, <1>5, <1>6, <1>7, HoldersStep

LEMMA DyingKeepsUnit ==
    ASSUME SafetyInv, NEW m \in Managers, Die(m)
    PROVE  UnitInv'
<1>1. /\ at' = [at EXCEPT ![m] = "dead"] /\ UNCHANGED <<unsent, systemd>>
      /\ seen' = [seen EXCEPT ![m] = UnseenYet] /\ op' = [op EXCEPT ![m] = "none"]
      /\ then' = [then EXCEPT ![m] = IF m \in unsent THEN then[m] ELSE "none"]
      /\ plan' = [plan EXCEPT ![m] = "none"] /\ at[m] # "dead"
  BY DEF Die, Goto, Alive
<1>2. ~NobodyDied'
  BY <1>1 DEF SafetyInv, TypeInv, LocalTypes, DepartedAreDead, NobodyDied, Alive
<1>3. UnitIsInstalled'
  BY <1>1, <1>2 DEF SafetyInv, UnitInv, UnitIsInstalled, systemd
<1>4. ASSUME NEW n \in Managers PROVE ActsOnTheUnit(n)'
  <2>1. ActsOnTheUnit(n)
    BY DEF SafetyInv, UnitInv
  <2>2. CASE n = m
    <3>1. /\ at'[m] = "dead" /\ op'[m] = "none" /\ Unit(m)' = Nothing
          /\ m \in unsent => then'[m] = then[m]
      BY <1>1 DEF SafetyInv, TypeInv, LocalTypes, UnitInv, Unit, UnseenYet
    <3> QED
      BY <1>1, <1>2, <2>1, <2>2, <3>1 DEF ActsOnTheUnit, CommandIsUnderWay, CommandIsForTheUnit,
         LookIsOfTheUnit, StopOnlyStops, Looking, Commanding, systemd
  <2>3. CASE n # m
    <3>1. UNCHANGED <<at[n], then[n], seen[n], op[n]>>
      BY <1>1, <2>3 DEF SafetyInv, TypeInv, LocalTypes, UnitInv
    <3> QED
      BY <1>1, <1>2, <2>1, <3>1, BystandersGoOn DEF systemd
  <2> QED
    BY <2>2, <2>3
<1>5. DOMAIN then' = Managers /\ DOMAIN plan' = Managers
  BY <1>1 DEF SafetyInv, UnitInv
<1> QED
  BY <1>3, <1>4, <1>5 DEF UnitInv

SystemdGoesOn ==
    /\ UnitIsInstalled'
    /\ again' => again
    /\ NobodyDied /\ ~enabled /\ unit \notin Acting => unit' \notin Acting

(* systemd by itself neither loads nor enables anything, and starts only   *)
(* what is active or to be restarted.                                      *)
LEMMA SystemdKeepsUnit ==
    ASSUME SafetyInv, (\E d \in Daemons : Serve(d)) \/ StartMain
    PROVE  UnitInv'
<1> USE ManagersAssumption
<1>1. UNCHANGED <<at, op, seen, then, plan, unsent, unitFile, loaded, enabled>>
  BY DEF Serve, StartMain, StartByHand, TakeLock, BecomeReady, Crash, Stop, Ends, local,
     request, memory, systemd
<1>2. NobodyDied' <=> NobodyDied
  BY <1>1 DEF NobodyDied, Alive
<1>3. UnitIsInstalled
  BY DEF SafetyInv, UnitInv
<1>4. SystemdGoesOn
  <2>1. ASSUME NEW d \in Daemons, StartByHand(d) \/ TakeLock(d) \/ BecomeReady(d)
        PROVE  SystemdGoesOn
    <3>1. UNCHANGED <<unit, main, again>>
      BY <2>1 DEF StartByHand, TakeLock, BecomeReady, systemd
    <3> QED
      BY <1>1, <1>2, <1>3, <3>1 DEF SystemdGoesOn, UnitIsInstalled
  <2>2. ASSUME NEW d \in Daemons, Crash(d) \/ Stop(d) PROVE SystemdGoesOn
    <3>1. /\ again' = again
          /\ \/ UNCHANGED <<unit, main>>
             \/ /\ main = d /\ main' = Nothing
                /\ \/ unit' \in {"failed", "inactive"}
                   \/ unit' = "auto-restart" /\ unit # "deactivating"
      BY <2>2 DEF Crash, Stop, Ends
    <3> QED
      BY <1>1, <1>2, <1>3, <3>1 DEF SystemdGoesOn, UnitIsInstalled, Acting
  <2>3. ASSUME StartMain PROVE SystemdGoesOn
    <3>1. /\ unit = "auto-restart" \/ (again /\ unit # "deactivating")
          /\ again' = FALSE
          /\ \/ unit' = "active"
             \/ unit' = "failed" /\ main' = main
      BY <2>3 DEF StartMain
    <3> QED
      BY <1>1, <1>2, <1>3, <3>1 DEF SystemdGoesOn, UnitIsInstalled, Acting
  <2> QED
    BY <2>1, <2>2, <2>3 DEF Serve
<1>5. ASSUME NEW m \in Managers PROVE ActsOnTheUnit(m)'
  <2>1. ActsOnTheUnit(m)
    BY DEF SafetyInv, UnitInv
  <2>2. NobodyDied' => UnitFollows(m)'
    BY <1>1, <1>2, <1>4, <2>1 DEF SystemdGoesOn, ActsOnTheUnit, UnitFollows, Looking, Commanding,
       Active, Unit, Quiet
  <2> QED
    BY <1>1, <2>1, <2>2 DEF ActsOnTheUnit, CommandIsUnderWay, CommandIsForTheUnit,
       LookIsOfTheUnit, StopOnlyStops, Looking, Commanding, Unit, Active, Verified
<1> QED
  BY <1>1, <1>4, <1>5 DEF SystemdGoesOn, SafetyInv, UnitInv

LEMMA StepsKeepSafety == SafetyInv /\ [Next]_managerVars => SafetyInv'
<1> SUFFICES ASSUME SafetyInv, [Next]_managerVars PROVE SafetyInv'
  OBVIOUS
<1>1. TypeInv' /\ LifecycleInv'
  BY StepsKeepTypes, StepsKeepLock DEF SafetyInv
<1>2. ASSUME NEW m \in Managers, Manage(m) PROVE UnitInv'
  BY <1>2, ReadsKeepUnit, ArrivalsKeepUnit, FailuresKeepUnit, DecideKeepsUnit,
     CommandsReturnToTheUnit, LooksAreActedOn DEF Manage
<1>3. ASSUME UNCHANGED managerVars PROVE UnitInv'
  <2>1. /\ UNCHANGED <<at, op, seen, then, plan, unsent, unitFile, loaded, enabled>>
        /\ UNCHANGED <<unit, main, again>>
    BY <1>3 DEF managerVars, local, request, memory, systemd
  <2>2. NobodyDied' <=> NobodyDied
    BY <2>1 DEF NobodyDied, Alive
  <2>3. UnitIsInstalled'
    BY <2>1, <2>2 DEF SafetyInv, UnitInv, UnitIsInstalled
  <2>4. ASSUME NEW m \in Managers PROVE ActsOnTheUnit(m)'
    <3>1. ActsOnTheUnit(m)
      BY DEF SafetyInv, UnitInv
    <3>2. UnitFollows(m) => UnitFollows(m)'
      BY <2>1 DEF UnitFollows, Looking, Commanding, Unit, Active, Quiet
    <3> QED
      BY <2>1, <2>2, <3>1, <3>2 DEF ActsOnTheUnit, CommandIsUnderWay, CommandIsForTheUnit,
         LookIsOfTheUnit, StopOnlyStops, Looking, Commanding, Unit, Active, Verified
  <2> QED
    BY <2>1, <2>3, <2>4 DEF SafetyInv, UnitInv
<1>4. UnitInv'
  BY <1>2, <1>3, LifecycleLockKeepsUnit, DyingKeepsUnit, SystemdKeepsUnit DEF Next
<1> QED
  BY <1>1, <1>4 DEF SafetyInv

LEMMA SafetyHolds == ManagerSpec => []SafetyInv
<1>1. Init => SafetyInv
  BY TypeInit, InitKeepsLock, UnitInit DEF SafetyInv
<1> QED
  BY <1>1, StepsKeepSafety, PTL DEF ManagerSpec

(* Whose call ends how.                                                    *)
LEMMA OutcomesAreDecided ==
    ASSUME SafetyInv, [Next]_managerVars, NEW m \in Managers, result[m] = "none",
           result'[m] \notin {"none", "error"}
    PROVE  /\ Finish(m, result'[m])
           /\ \/ Decide(m) \/ DecideAgain(m) \/ Enabled(m) \/ Poll(m) \/ RestartFailed(m)
              \/ MakeWayNow(m) \/ WayMade(m) \/ DecideStop(m) \/ Gone(m)
<1>1. DOMAIN result = Managers
  BY DEF SafetyInv, TypeInv, LocalTypes
<1>2. ASSUME NEW n \in Managers, LifecycleLock(n) PROVE result'[m] \in {result[m], "none"}
  BY <1>1, <1>2 DEF LifecycleLock, Request, LookForGuard, Publish, ReadHolder, JudgeHolder,
     OpenGuard, RecheckHolder, RemoveDead, RemoveGuard, Release, TryAgain, GoOn, Look, memory
<1>3. ASSUME NEW n \in Managers, Die(n) PROVE result'[m] \in {result[m], "none"}
  BY <1>1, <1>3 DEF Die
<1>4. ASSUME NEW d \in Daemons, Serve(d) PROVE result' = result
  BY <1>4 DEF Serve, StartByHand, TakeLock, BecomeReady, Crash, Stop, Ends, local, memory
<1>5. CASE StartMain \/ UNCHANGED managerVars
  BY <1>5 DEF StartMain, managerVars, local, memory
<1>6. ASSUME NEW n \in Managers, NEW outcome, Finish(n, outcome), n # m \/ outcome # result'[m]
      PROVE  result'[m] = result[m]
  BY <1>1, <1>6 DEF Finish
<1>7. ASSUME NEW n \in Managers, \/ \E how, purpose : Look(n, how, purpose)
                                 \/ \E verb, decision : Call(n, verb, decision)
      PROVE  result' = result
  BY <1>7 DEF Look, Call
<1>8. ASSUME NEW n \in Managers, Manage(n)
      PROVE  /\ Finish(m, result'[m])
             /\ \/ Decide(m) \/ DecideAgain(m) \/ Enabled(m) \/ Poll(m) \/ RestartFailed(m)
                \/ MakeWayNow(m) \/ WayMade(m) \/ DecideStop(m) \/ Gone(m)
  <2>1. ASSUME ReadDaemonLock(n) \/ ReadUnit(n) \/ SystemctlArrives(n) PROVE result' = result
    BY <2>1 DEF ReadDaemonLock, ReadUnit, SystemctlArrives, memory
  <2>2. ASSUME CommandFails(n) PROVE result'[m] \in {result[m], "error"}
    BY <1>1, <2>2 DEF CommandFails
  <2>3. ASSUME Reloaded(n) \/ Restarted(n) \/ Disabled(n) PROVE result' = result
    BY <2>3, <1>7 DEF Reloaded, Restarted, Disabled
  <2>4. ASSUME \/ Decide(n) \/ DecideAgain(n) \/ Enabled(n) \/ Poll(n) \/ RestartFailed(n)
               \/ MakeWayNow(n) \/ WayMade(n) \/ DecideStop(n) \/ Gone(n)
        PROVE  \/ \E how, purpose : Look(n, how, purpose)
               \/ \E verb, decision : Call(n, verb, decision)
               \/ \E outcome : Finish(n, outcome)
    BY <2>4 DEF Decide, DecideAgain, Enabled, Poll, RestartFailed, MakeWayNow, WayMade,
       DecideStop, Gone, MakeWay, EnableAndProceed, Proceed
  <2> QED
    BY <1>6, <1>7, <1>8, <2>1, <2>2, <2>3, <2>4 DEF Manage
<1> QED
  BY <1>2, <1>3, <1>4, <1>5, <1>8 DEF Next

(* A command's verb is not an outcome, and an outcome is one.              *)
LEMMA FinishedIsAtRelease ==
    ASSUME SafetyInv, NEW m \in Managers, NEW outcome, Finish(m, outcome)
    PROVE  /\ \A how \in {"inspect", "status"} : \A purpose : ~Look(m, how, purpose)
           /\ \A verb, decision : ~Call(m, verb, decision)
           /\ \A other : Finish(m, other) => other = outcome
<1>1. m \in DOMAIN at /\ m \in DOMAIN result
  BY DEF SafetyInv, TypeInv, LocalTypes
<1> QED
  BY <1>1 DEF Finish, Look, Call, Goto

LEMMA StopsTellTheTruth ==
    ASSUME SafetyInv, [Next]_managerVars, NEW m \in Managers,
           op[m] = "stop", result[m] = "none", result'[m] \in {"stopped", "stale"}, NobodyDied
    PROVE  Quiet
<1>1. /\ Finish(m, result'[m])
      /\ \/ Decide(m) \/ DecideAgain(m) \/ Enabled(m) \/ Poll(m) \/ RestartFailed(m)
         \/ MakeWayNow(m) \/ WayMade(m) \/ DecideStop(m) \/ Gone(m)
  BY OutcomesAreDecided
<1>2. ActsOnTheUnit(m)
  BY DEF SafetyInv, UnitInv
<1>3. ~(Decide(m) \/ DecideAgain(m) \/ Enabled(m) \/ Poll(m) \/ RestartFailed(m))
  BY <1>2 DEF Decide, DecideAgain, Enabled, Poll, RestartFailed, Seen, Returned, ActsOnTheUnit,
     StopOnlyStops, Looking
<1>4. ~WayMade(m)
  BY <1>1, FinishedIsAtRelease DEF WayMade
<1>5. CASE MakeWayNow(m) \/ Gone(m)
  BY <1>2, <1>5 DEF MakeWayNow, Gone, Seen, ActsOnTheUnit, UnitFollows, Looking
<1>6. CASE DecideStop(m)
  <2>1. Looking(m) /\ Unit(m) # Nothing
    BY <1>6 DEF DecideStop, Seen, Looking, Unit
  <2>2. ~(Verified(m) /\ (Active(m) \/ Unit(m).enabled))
    <3>1. ~Independent(m)
      BY <1>1, <1>6, FinishedIsAtRelease DEF DecideStop, MakeWay
    <3> QED
      BY <1>1, <1>6, <3>1, FinishedIsAtRelease DEF DecideStop
  <2> QED
    BY <2>1, <2>2, SeenIdleIsQuiet
<1> QED
  BY <1>1, <1>3, <1>4, <1>5, <1>6

(* A stop that says the daemon is stopped leaves a unit that runs nothing  *)
(* but what systemd already ends, and will run nothing (stopUnlocked).     *)
THEOREM StopsAreTrue == ManagerSpec => StoppedMeansStopped
<1>1. SafetyInv /\ [Next]_managerVars =>
        [\A m \in Managers :
           op[m] = "stop" /\ result[m] = "none" /\ result'[m] \in {"stopped", "stale"}
             /\ NobodyDied
           => ~enabled /\ ~again /\ unit \notin {"active", "auto-restart"}]_managerVars
  BY StopsTellTheTruth DEF Quiet, Acting
<1> QED
  BY <1>1, SafetyHolds, PTL DEF ManagerSpec, StoppedMeansStopped

-----------------------------------------------------------------------------
(* A daemon that was seen up was started by systemd with the wanted        *)
(* service, and stays what it was.                                         *)
IsUp(m) ==
    /\ Lock(m) # Nothing /\ Unit(m) # Nothing
    /\ ExactManaged(m) /\ Ready(m)

LookIsOfDaemons(m) ==
    /\ Unit(m) # Nothing => Unit(m).main \notin ByHand
    /\ Lock(m) # Nothing /\ Lock(m).owner # Nothing =>
          /\ daemon[Lock(m).owner] # "unborn"
          /\ Lock(m).ready => daemon[Lock(m).owner] \in {"ready", "dead"}
    /\ Commanding(m, {"enable"}) /\ plan[m] = "running" => IsUp(m)

OwnersAreBorn ==
    /\ owner # Nothing => daemon[owner] # "unborn"
    /\ main \notin ByHand

DaemonsInv ==
    /\ OwnersAreBorn
    /\ \A m \in Managers : LookIsOfDaemons(m)

ServiceInv == SafetyInv /\ DaemonsInv

LEMMA DaemonsInit == Init => DaemonsInv
<1> SUFFICES ASSUME Init PROVE DaemonsInv
  OBVIOUS
<1> USE ManagersAssumption
<1>1. OwnersAreBorn
  <2>1. CASE main = Nothing /\ owner = Nothing
    BY <2>1 DEF OwnersAreBorn
  <2>2. ASSUME NEW d \in Daemons \ ByHand, main = d /\ owner = d,
               daemon = [x \in Daemons |-> IF x = d THEN "ready" ELSE "unborn"]
        PROVE  OwnersAreBorn
    BY <2>2 DEF OwnersAreBorn
  <2> QED
    BY <2>1, <2>2, Zenon DEF Init
<1>2. ASSUME NEW m \in Managers PROVE LookIsOfDaemons(m)
  BY DEF Init, LookIsOfDaemons, Lock, Unit, UnseenYet, Commanding
<1> QED
  BY <1>1, <1>2 DEF DaemonsInv

(* Whatever is born stays born with its identity, whatever was ready was.  *)
DaemonsGoOn ==
    \A d \in Daemons :
        /\ daemon[d] # "unborn" => daemon'[d] # "unborn" /\ identity'[d] = identity[d]
        /\ daemon[d] \in {"ready", "dead"} => daemon'[d] \in {"ready", "dead"}

LEMMA OwnersAreDaemons ==
    ASSUME LocalTypes, NEW m \in Managers, Lock(m) # Nothing
    PROVE  /\ Lock(m).owner \in Daemons \union {Nothing}
           /\ Running(m) => Lock(m).owner \in Daemons
BY DEF LocalTypes, LockViews, Lock, Running

LEMMA LooksStayTrue ==
    ASSUME ServiceInv, DaemonsGoOn, NEW m \in Managers,
           UNCHANGED seen[m],
           Commanding(m, {"enable"})' /\ plan'[m] = "running" => IsUp(m)
    PROVE  LookIsOfDaemons(m)'
<1>1. LookIsOfDaemons(m) /\ LocalTypes
  BY DEF ServiceInv, SafetyInv, TypeInv, DaemonsInv
<1>2. Lock(m)' = Lock(m) /\ Unit(m)' = Unit(m)
  BY DEF Lock, Unit
<1>3. Lock(m) # Nothing => Lock(m).owner \in Daemons \union {Nothing}
  BY <1>1, OwnersAreDaemons
<1>4. Lock(m) # Nothing /\ Lock(m).owner # Nothing =>
          /\ daemon[Lock(m).owner] # "unborn"
          /\ daemon'[Lock(m).owner] # "unborn"
          /\ identity'[Lock(m).owner] = identity[Lock(m).owner]
          /\ Lock(m).ready => daemon'[Lock(m).owner] \in {"ready", "dead"}
  BY <1>1, <1>3 DEF LookIsOfDaemons, DaemonsGoOn
<1>5. IsUp(m) => IsUp(m)'
  BY <1>2, <1>3, <1>4 DEF IsUp, ExactManaged, Ready, Managed, Running, Active, Verified
<1> QED
  BY <1>1, <1>2, <1>4, <1>5 DEF LookIsOfDaemons

LEMMA StillTrue ==
    ASSUME ServiceInv, NEW m \in Managers, UNCHANGED <<daemon, identity>>,
           UNCHANGED seen[m],
           Commanding(m, {"enable"})' /\ plan'[m] = "running" => IsUp(m)
    PROVE  LookIsOfDaemons(m)'
<1>1. DaemonsGoOn
  BY DEF DaemonsGoOn
<1> QED
  BY <1>1, LooksStayTrue

LEMMA ManagersKeepDaemons ==
    ASSUME ServiceInv, NEW m \in Managers, UNCHANGED <<daemons, main>>,
           \A n \in Managers \ {m} : UNCHANGED <<at[n], seen[n], then[n], plan[n]>>,
           LookIsOfDaemons(m)'
    PROVE  DaemonsInv'
<1>1. UNCHANGED <<daemon, identity, owner, main>>
  BY DEF daemons
<1>2. ASSUME NEW n \in Managers, n # m PROVE LookIsOfDaemons(n)'
  <2>1. UNCHANGED <<at[n], seen[n], then[n], plan[n]>>
    BY <1>2
  <2>2. LookIsOfDaemons(n)
    BY DEF ServiceInv, DaemonsInv
  <2>3. Commanding(n, {"enable"})' /\ plan'[n] = "running" => IsUp(n)
    BY <2>1, <2>2 DEF LookIsOfDaemons, Commanding
  <2> QED
    BY <1>1, <2>1, <2>3, StillTrue
<1> QED
  BY <1>1, <1>2 DEF ServiceInv, DaemonsInv, OwnersAreBorn

LEMMA MovesKeepDaemons ==
    ASSUME ServiceInv, NEW m \in Managers, UNCHANGED <<daemons, main>>
    PROVE  /\ \A how \in {"inspect", "status"} : \A purpose :
                 Look(m, how, purpose) => DaemonsInv'
           /\ \A outcome : Finish(m, outcome) => DaemonsInv'
           /\ \A verb, decision :
                 Call(m, verb, decision) /\ (verb = "enable" /\ decision = "running" => IsUp(m))
                    => DaemonsInv'
<1> USE DEF ServiceInv, SafetyInv, TypeInv, LocalTypes, UnitInv
<1>1. ASSUME NEW how \in {"inspect", "status"}, NEW purpose, Look(m, how, purpose)
      PROVE  DaemonsInv'
  <2>1. /\ at'[m] = how /\ seen'[m] = UnseenYet
        /\ \A n \in Managers \ {m} : UNCHANGED <<at[n], seen[n], then[n], plan[n]>>
    BY <1>1 DEF Look, Goto
  <2>2. LookIsOfDaemons(m)'
    BY <2>1 DEF LookIsOfDaemons, Lock, Unit, UnseenYet, Commanding
  <2> QED
    BY <2>1, <2>2, ManagersKeepDaemons
<1>2. ASSUME NEW outcome, Finish(m, outcome) PROVE DaemonsInv'
  <2>1. /\ at'[m] = "release" /\ seen'[m] = UnseenYet
        /\ \A n \in Managers \ {m} : UNCHANGED <<at[n], seen[n], then[n], plan[n]>>
    BY <1>2 DEF Finish, Goto
  <2>2. LookIsOfDaemons(m)'
    BY <2>1 DEF LookIsOfDaemons, Lock, Unit, UnseenYet, Commanding
  <2> QED
    BY <2>1, <2>2, ManagersKeepDaemons
<1>3. ASSUME NEW verb, NEW decision, Call(m, verb, decision),
             verb = "enable" /\ decision = "running" => IsUp(m)
      PROVE  DaemonsInv'
  <2>1. /\ then'[m] = verb /\ plan'[m] = decision
        /\ seen'[m] = IF verb = "enable" THEN seen[m] ELSE UnseenYet
        /\ \A n \in Managers \ {m} : UNCHANGED <<at[n], seen[n], then[n], plan[n]>>
    BY <1>3 DEF Call, Goto
  <2>2. CASE verb # "enable"
    <3>1. LookIsOfDaemons(m)'
      BY <2>1, <2>2 DEF LookIsOfDaemons, Lock, Unit, UnseenYet, Commanding
    <3> QED
      BY <2>1, <3>1, ManagersKeepDaemons
  <2>3. CASE verb = "enable"
    <3>1. LookIsOfDaemons(m)'
      BY <1>3, <2>1, <2>3, StillTrue DEF daemons
    <3> QED
      BY <2>1, <3>1, ManagersKeepDaemons
  <2> QED
    BY <2>2, <2>3
<1> QED
  BY <1>1, <1>2, <1>3

(* Who decides that the service runs has just seen it up.                  *)
LEMMA RunningIsUp ==
    ASSUME NEW m \in Managers, Lock(m) # Nothing, Unit(m) # Nothing,
           ~Independent(m), Decision(m) = "running"
    PROVE  IsUp(m)
<1>1. Status(m) = "running"
  BY DEF Decision
<1>2. Running(m) /\ Ready(m)
  BY <1>1 DEF Status
<1>3. Managed(m)
  BY <1>2 DEF Independent
<1> QED
  BY <1>2, <1>3 DEF IsUp, Ready

LEMMA ManagingKeepsDaemons ==
    ASSUME ServiceInv, NEW m \in Managers, Manage(m)
    PROVE  DaemonsInv'
<1> USE ManagersAssumption
<1>1. UNCHANGED <<daemons, main>>
  BY DEF Manage, ReadDaemonLock, ReadUnit, SystemctlArrives, CommandFails, Decide, Reloaded,
     DecideAgain, Enabled, Restarted, Poll, RestartFailed, MakeWayNow, WayMade, DecideStop,
     Disabled, Gone, Unmoved, systemd
<1>2. ASSUME MakeWay(m) PROVE DaemonsInv'
  BY <1>1, <1>2, MovesKeepDaemons DEF MakeWay
<1>3. ASSUME NEW decision, Proceed(m, decision) PROVE DaemonsInv'
  BY <1>1, <1>3, MovesKeepDaemons DEF Proceed
<1>4. ASSUME Decide(m) PROVE DaemonsInv'
  <2>1. Lock(m) # Nothing /\ Unit(m) # Nothing
    BY <1>4 DEF Decide, Seen, Lock, Unit
  <2>2. CASE Call(m, "daemon-reload", "restart")
    BY <1>1, <2>2, MovesKeepDaemons
  <2>3. CASE ~Independent(m) /\ Call(m, "enable", Decision(m))
    BY <1>1, <2>1, <2>3, RunningIsUp, MovesKeepDaemons
  <2> QED
    BY <1>2, <1>3, <1>4, <2>2, <2>3 DEF Decide, EnableAndProceed
<1>5. ASSUME Reloaded(m) \/ Restarted(m) \/ RestartFailed(m) \/ Disabled(m) \/ Gone(m)
             \/ Poll(m) \/ WayMade(m)
      PROVE  DaemonsInv'
  BY <1>1, <1>5, MovesKeepDaemons DEF Reloaded, Restarted, RestartFailed, Disabled, Gone, Poll,
     WayMade
<1>6. ASSUME DecideAgain(m) \/ DecideStop(m) \/ MakeWayNow(m) \/ Enabled(m)
      PROVE  DaemonsInv'
  BY <1>1, <1>2, <1>3, <1>6, MovesKeepDaemons DEF DecideAgain, DecideStop, MakeWayNow, Enabled
<1>7. ASSUME CommandFails(m) PROVE DaemonsInv'
  <2>1. /\ at'[m] # "systemctl" /\ seen'[m] = UnseenYet
        /\ \A n \in Managers \ {m} : UNCHANGED <<at[n], seen[n], then[n], plan[n]>>
    <3>1. PICK place \in {"status", "release"}, purpose \in {"none", "restart failed"} :
            at' = [at EXCEPT ![m] = place] /\ then' = [then EXCEPT ![m] = purpose]
      BY <1>7 DEF CommandFails, Goto
    <3>2. seen' = [seen EXCEPT ![m] = UnseenYet] /\ plan' = [plan EXCEPT ![m] = "none"]
      BY <1>7 DEF CommandFails
    <3> QED
      BY <3>1, <3>2 DEF ServiceInv, SafetyInv, TypeInv, LocalTypes, UnitInv
  <2>2. LookIsOfDaemons(m)'
    BY <2>1 DEF LookIsOfDaemons, Lock, Unit, UnseenYet, Commanding
  <2> QED
    BY <1>1, <2>1, <2>2, ManagersKeepDaemons
<1>8. ASSUME SystemctlArrives(m) PROVE DaemonsInv'
  <2>1. UNCHANGED <<at, seen, then, plan>>
    BY <1>8 DEF SystemctlArrives
  <2>2. LookIsOfDaemons(m)
    BY DEF ServiceInv, DaemonsInv
  <2>3. LookIsOfDaemons(m)'
    BY <1>1, <2>1, <2>2, StillTrue DEF daemons, LookIsOfDaemons, Commanding
  <2> QED
    BY <1>1, <2>1, <2>3, ManagersKeepDaemons
<1>9. ASSUME ReadDaemonLock(m) \/ ReadUnit(m) PROVE DaemonsInv'
  <2>1. /\ at[m] # "systemctl" /\ UNCHANGED <<at, then, plan>>
        /\ \A n \in Managers \ {m} : seen'[n] = seen[n]
    BY <1>9 DEF ReadDaemonLock, ReadUnit, memory, ServiceInv, SafetyInv, TypeInv, LocalTypes
  <2>2. LookIsOfDaemons(m) /\ OwnersAreBorn
    BY DEF ServiceInv, DaemonsInv
  <2>3. UNCHANGED <<daemon, identity, owner, main>>
    BY <1>1 DEF daemons
  <2>4. \/ Lock(m)' = Lock(m)
        \/ /\ Lock(m)'.owner = owner
           /\ Lock(m)'.ready => owner # Nothing /\ daemon[owner] = "ready"
    <3> DEFINE ready  == owner # Nothing /\ daemon[owner] = "ready"
               view   == [owner |-> owner, alive |-> owner # Nothing /\ daemon[owner] # "dead",
                          ready |-> ready]
    <3>1. Lock(m)' = Lock(m) \/ Lock(m)' = view
      BY <1>9 DEF ReadDaemonLock, ReadUnit, Lock, ServiceInv, SafetyInv, TypeInv, LocalTypes
    <3>2. view.owner = owner /\ view.ready = ready
      OBVIOUS
    <3> HIDE DEF view
    <3> QED
      BY <3>1, <3>2
  <2>5. Unit(m)' = Unit(m) \/ Unit(m)'.main = main
    BY <1>9 DEF ReadDaemonLock, ReadUnit, Unit, ServiceInv, SafetyInv, TypeInv, LocalTypes
  <2>6. LookIsOfDaemons(m)'
    BY <2>1, <2>2, <2>3, <2>4, <2>5 DEF LookIsOfDaemons, OwnersAreBorn, Commanding
  <2> QED
    BY <1>1, <2>1, <2>6, ManagersKeepDaemons
<1> QED
  BY <1>4, <1>5, <1>6, <1>7, <1>8, <1>9 DEF Manage

LEMMA LockingKeepsDaemons ==
    ASSUME ServiceInv, NEW m \in Managers, LifecycleLock(m) \/ Die(m)
    PROVE  DaemonsInv'
<1>1. UNCHANGED <<daemons, main>>
  BY DEF LifecycleLock, Request, LookForGuard, Publish, ReadHolder, JudgeHolder, OpenGuard,
     RecheckHolder, RemoveDead, RemoveGuard, Release, TryAgain, GoOn, Die, systemd
<1>2. /\ at'[m] # "systemctl" /\ seen'[m] \in {seen[m], UnseenYet}
      /\ \A n \in Managers \ {m} : UNCHANGED <<at[n], seen[n], then[n], plan[n]>>
  <2>1. /\ \E place \in {"idle", "inspect", "dead"} \union Waiting : at' = [at EXCEPT ![m] = place]
        /\ seen' \in {seen, [seen EXCEPT ![m] = UnseenYet]}
        /\ \E purpose : then' \in {then, [then EXCEPT ![m] = purpose]}
        /\ plan' \in {plan, [plan EXCEPT ![m] = "none"]}
    BY DEF LifecycleLock, Request, LookForGuard, Publish, ReadHolder, JudgeHolder, OpenGuard,
       RecheckHolder, RemoveDead, RemoveGuard, Release, TryAgain, GoOn, Die, Goto, Look, memory,
       Waiting
  <2> QED
    BY <2>1 DEF ServiceInv, SafetyInv, TypeInv, LocalTypes, UnitInv, Waiting
<1>3. LookIsOfDaemons(m)'
  <2>1. CASE seen'[m] = seen[m]
    BY <1>1, <1>2, <2>1, StillTrue DEF daemons, Commanding
  <2>2. CASE seen'[m] = UnseenYet
    BY <1>2, <2>2 DEF LookIsOfDaemons, Lock, Unit, UnseenYet, Commanding
  <2> QED
    BY <1>2, <2>1, <2>2
<1> QED
  BY <1>1, <1>2, <1>3, ManagersKeepDaemons

LEMMA ServingKeepsDaemons ==
    ASSUME ServiceInv, (\E d \in Daemons : Serve(d)) \/ StartMain
    PROVE  DaemonsInv'
<1> USE ManagersAssumption
<1>1. UNCHANGED <<at, seen, then, plan>>
  BY DEF Serve, StartMain, StartByHand, TakeLock, BecomeReady, Crash, Stop, Ends, local, memory
<1>2. SystemTypes /\ DaemonsInv
  BY DEF ServiceInv, SafetyInv, TypeInv
<1>3. DaemonsGoOn /\ OwnersAreBorn'
  <2>1. ASSUME NEW d \in Daemons, StartByHand(d) \/ TakeLock(d) \/ BecomeReady(d)
        PROVE  DaemonsGoOn /\ OwnersAreBorn'
    BY <1>2, <2>1 DEF StartByHand, TakeLock, BecomeReady, systemd, SystemTypes, DaemonsInv,
       OwnersAreBorn, DaemonsGoOn
  <2>2. ASSUME NEW d \in Daemons, Crash(d) \/ Stop(d)
        PROVE  DaemonsGoOn /\ OwnersAreBorn'
    <3>1. /\ daemon' = [daemon EXCEPT ![d] = "dead"] /\ identity' = identity
          /\ owner' \in {owner, Nothing} /\ main' \in {main, Nothing}
      BY <2>2 DEF Crash, Stop, Ends
    <3> QED
      BY <1>2, <3>1 DEF SystemTypes, DaemonsInv, OwnersAreBorn, DaemonsGoOn
  <2>3. ASSUME StartMain
        PROVE  DaemonsGoOn /\ OwnersAreBorn'
    <3>1. CASE UNCHANGED <<daemon, identity, main>>
      BY <1>2, <2>3, <3>1 DEF StartMain, DaemonsInv, OwnersAreBorn, DaemonsGoOn
    <3>2. ASSUME NEW d \in Daemons \ ByHand, daemon[d] = "unborn",
                 daemon' = [daemon EXCEPT ![d] = "starting"],
                 identity' = [identity EXCEPT ![d] = loaded], main' = d
          PROVE  DaemonsGoOn /\ OwnersAreBorn'
      <4>1. owner' = owner
        BY <2>3 DEF StartMain
      <4> QED
        BY <1>2, <3>2, <4>1 DEF SystemTypes, DaemonsInv, OwnersAreBorn, DaemonsGoOn
    <3> QED
      BY <2>3, <3>1, <3>2 DEF StartMain
  <2> QED
    BY <2>1, <2>2, <2>3 DEF Serve
<1>4. ASSUME NEW m \in Managers PROVE LookIsOfDaemons(m)'
  <2>1. Commanding(m, {"enable"})' /\ plan'[m] = "running" => IsUp(m)
    BY <1>1, <1>2 DEF Commanding, DaemonsInv, LookIsOfDaemons
  <2> QED
    BY <1>1, <1>3, <2>1, LooksStayTrue
<1> QED
  BY <1>3, <1>4 DEF DaemonsInv

LEMMA StepsKeepService == ServiceInv /\ [Next]_managerVars => ServiceInv'
<1> SUFFICES ASSUME ServiceInv, [Next]_managerVars PROVE ServiceInv'
  OBVIOUS
<1>1. SafetyInv'
  BY StepsKeepSafety DEF ServiceInv
<1>2. ASSUME UNCHANGED managerVars PROVE DaemonsInv'
  <2>1. UNCHANGED <<at, seen, then, plan, daemon, identity, owner, main>>
    BY <1>2 DEF managerVars, local, memory, systemd, daemons
  <2>2. ASSUME NEW m \in Managers PROVE LookIsOfDaemons(m)'
    <3>1. LookIsOfDaemons(m)
      BY DEF ServiceInv, DaemonsInv
    <3> QED
      BY <2>1, <3>1, StillTrue DEF LookIsOfDaemons, Commanding
  <2> QED
    BY <2>1, <2>2 DEF ServiceInv, DaemonsInv, OwnersAreBorn
<1>3. DaemonsInv'
  BY <1>2, ManagingKeepsDaemons, LockingKeepsDaemons, ServingKeepsDaemons DEF Next
<1> QED
  BY <1>1, <1>3 DEF ServiceInv

LEMMA UpIsManaged ==
    ASSUME ServiceInv, NEW m \in Managers, IsUp(m)
    PROVE  \E d \in Daemons \ ByHand : /\ d = Lock(m).owner
                                       /\ identity[d] = Wanted[m]
                                       /\ daemon[d] \in {"ready", "dead"}
<1>1. LookIsOfDaemons(m) /\ LocalTypes
  BY DEF ServiceInv, SafetyInv, TypeInv, DaemonsInv
<1>2. /\ Lock(m) # Nothing /\ Unit(m) # Nothing /\ Running(m) /\ Lock(m).ready
      /\ Unit(m).main = Lock(m).owner /\ identity[Lock(m).owner] = Wanted[m]
  BY DEF IsUp, ExactManaged, Ready, Managed
<1>3. Lock(m).owner \in Daemons \ ByHand
  BY <1>1, <1>2, OwnersAreDaemons DEF LookIsOfDaemons
<1>4. daemon[Lock(m).owner] \in {"ready", "dead"}
  BY <1>1, <1>2 DEF LookIsOfDaemons, Running
<1> QED
  BY <1>2, <1>3, <1>4

LEMMA SuccessesTellTheTruth ==
    ASSUME ServiceInv, [Next]_managerVars, NEW m \in Managers,
           op[m] = "ensureRunning", result[m] = "none", result'[m] = "running"
    PROVE  IsUp(m) /\ (NobodyDied => enabled /\ unitFile' = Wanted[m])
<1>1. /\ Finish(m, "running")
      /\ \/ Decide(m) \/ DecideAgain(m) \/ Enabled(m) \/ Poll(m) \/ RestartFailed(m)
         \/ MakeWayNow(m) \/ WayMade(m) \/ DecideStop(m) \/ Gone(m)
  BY OutcomesAreDecided DEF ServiceInv
<1>2. ActsOnTheUnit(m) /\ LookIsOfDaemons(m)
  BY DEF ServiceInv, SafetyInv, UnitInv, DaemonsInv
<1>3. /\ \A how \in {"inspect", "status"} : \A purpose : ~Look(m, how, purpose)
      /\ \A verb, decision : ~Call(m, verb, decision)
      /\ \A other : Finish(m, other) => other = "running"
  BY <1>1, FinishedIsAtRelease DEF ServiceInv
<1>4. ~MakeWay(m)
  BY <1>3 DEF MakeWay
<1>5. ~(DecideAgain(m) \/ RestartFailed(m) \/ MakeWayNow(m) \/ WayMade(m))
  BY <1>3, <1>4 DEF DecideAgain, RestartFailed, MakeWayNow, WayMade
<1>6. ~(DecideStop(m) \/ Gone(m))
  BY <1>3, <1>4 DEF DecideStop, Gone
<1>7. CASE Decide(m)
  <2>1. /\ ~Independent(m) /\ unitFile' = Wanted[m]
        /\ Unit(m).enabled /\ Proceed(m, Decision(m))
    BY <1>3, <1>4, <1>7 DEF Decide, EnableAndProceed
  <2>2. Decision(m) = "running"
    BY <1>3, <2>1 DEF Proceed
  <2>3. Looking(m) /\ Lock(m) # Nothing /\ Unit(m) # Nothing
    BY <1>7 DEF Decide, Seen, Looking, Lock, Unit
  <2>4. NobodyDied => enabled
    BY <1>2, <2>1, <2>3 DEF ActsOnTheUnit, UnitFollows
  <2> QED
    BY <2>1, <2>2, <2>3, <2>4, RunningIsUp
<1>8. CASE Enabled(m)
  <2>1. plan[m] = "running" /\ Returned(m, "enable") /\ unitFile' = unitFile
    BY <1>3, <1>8 DEF Enabled, Proceed, Unmoved, systemd
  <2>2. IsUp(m)
    BY <1>2, <2>1 DEF Returned, LookIsOfDaemons, Commanding
  <2>3. NobodyDied => enabled /\ unitFile = Wanted[m]
    BY <1>2, <2>1 DEF Returned, ActsOnTheUnit, UnitFollows, Commanding
  <2> QED
    BY <2>1, <2>2, <2>3
<1>9. CASE Poll(m)
  <2>1. /\ Managed(m) /\ Ready(m) /\ unitFile' = unitFile
        /\ Looking(m) /\ then[m] = "poll" /\ Lock(m) # Nothing /\ Unit(m) # Nothing
    BY <1>3, <1>9 DEF Poll, Unmoved, systemd, Seen, Looking, Lock, Unit
  <2>2. IsUp(m)
    BY <2>1 DEF IsUp, Ready
  <2>3. NobodyDied => enabled /\ unitFile = Wanted[m]
    BY <1>2, <2>1 DEF ActsOnTheUnit, UnitFollows
  <2> QED
    BY <2>1, <2>2, <2>3
<1> QED
  BY <1>1, <1>5, <1>6, <1>7, <1>8, <1>9

(* ensureRunning says "running" only of the daemon that systemd started    *)
(* with the wanted service, and that was ready (ensureRunningUnlocked).    *)
THEOREM SuccessesAreManaged == ManagerSpec => SuccessIsManaged
<1>1. Init => ServiceInv
  BY TypeInit, InitKeepsLock, UnitInit, DaemonsInit DEF SafetyInv, ServiceInv
<1>2. ServiceInv /\ [Next]_managerVars =>
        [\A m \in Managers :
           op[m] = "ensureRunning" /\ result[m] = "none" /\ result'[m] = "running" =>
             /\ \E d \in Daemons \ ByHand : /\ d = Lock(m).owner
                                            /\ identity[d] = Wanted[m]
                                            /\ daemon[d] \in {"ready", "dead"}
             /\ NobodyDied => enabled /\ unitFile' = Wanted[m]]_managerVars
  BY SuccessesTellTheTruth, UpIsManaged
<1> QED
  BY <1>1, <1>2, StepsKeepService, PTL DEF ManagerSpec, SuccessIsManaged
=============================================================================
