----------------------------- MODULE DaemonManager -----------------------------
(***************************************************************************)
(* The managers that keep a workspace's goal daemon in a systemd user unit *)
(* (createPersistentDaemonManager of packages/opencode-goal-supervisor/src/*)
(* tui-daemon.ts).  Each OpenCode process has one; ensureRunning and stop  *)
(* read the daemon's lock and the unit, decide, and call systemctl, under  *)
(* a lifecycle lock that orders them between processes.  Around them are   *)
(* systemd, the daemons it runs, and daemons others started by hand.       *)
(*                                                                         *)
(* An action is one system call of the lifecycle lock, one look at the     *)
(* daemon's lock or at the unit, or one systemctl command on its way       *)
(* there or back.  A manager's process may die between any two.            *)
(***************************************************************************)
EXTENDS Naturals

CONSTANTS
    Managers,       \* OpenCode processes, one manager each
    Departed,       \* those that died before
    Daemons,        \* processes that serve the workspace, one per start
    ByHand,         \* those started outside systemd
    Identities,     \* what a unit may run: programs, URL, configuration
    Wanted,         \* the one each manager wants (desiredServiceIdentity)
    MaxCalls,       \* calls one manager makes
    Nothing         \* no process, no file, no answer yet

ASSUME ManagersAssumption ==
    /\ ByHand \subseteq Daemons
    /\ Departed \subseteq Managers
    /\ Wanted \in [Managers \ Departed -> Identities]
    /\ Nothing \notin Managers \union Daemons \union Identities
    /\ MaxCalls \in Nat

VARIABLES
    lifecycle,      \* the process daemon.lock.lifecycle names
    recovery,       \* who opened its recovery guard
    at,             \* where each manager is
    found,          \* the holder it read in the lifecycle lock
    op,             \* the call it serves: ensureRunning or stop
    seen,           \* its last look at the daemon's lock and at the unit
    then,           \* what that look, or the running command, is for
    plan,           \* what it has decided meanwhile
    unsent,         \* whose systemctl child has not reached systemd yet
    result,         \* how its call ended
    calls,          \* how many it made
    unitFile,       \* what the unit's file holds
    loaded,         \* what systemd has loaded of it
    enabled,
    unit,           \* the unit's ActiveState
    main,           \* its MainPID
    again,          \* a restart has its start still to do
    daemon,         \* how far each daemon is
    identity,       \* the service identity it publishes
    owner           \* whom daemon.lock names

lockFiles == <<lifecycle, recovery>>
request   == <<op, calls>>
memory    == <<found, plan, unsent, result>>
local     == <<at, request, seen, then, memory>>
systemd   == <<unitFile, loaded, enabled, unit, main, again>>
daemons   == <<daemon, identity, owner>>
managerVars == <<lockFiles, local, systemd, daemons>>

Waiting    == {"look", "publish", "read", "judge", "guard", "recheck", "remove",
               "unguard"}
Mutating   == {"inspect", "status", "systemctl", "release"}
UnitStates == {"inactive", "active", "auto-restart", "deactivating", "failed"}
UnseenYet  == [lock |-> Nothing, unit |-> Nothing]
LockViews  == [owner : Daemons \union {Nothing}, alive : BOOLEAN, ready : BOOLEAN]
UnitViews  == [loaded : BOOLEAN, enabled : BOOLEAN, main : Daemons \union {Nothing},
               state : UnitStates]

ManagerTypeOK ==
    /\ {lifecycle, recovery} \subseteq Managers \union {Nothing}
    /\ at \in [Managers -> {"idle", "dead"} \union Waiting \union Mutating]
    /\ found \in [Managers -> Managers \union {Nothing}]
    /\ op \in [Managers -> {"none", "ensureRunning", "stop"}]
    /\ \A m \in Managers : at[m] \in {"judge", "guard", "recheck", "remove"} =>
                              found[m] # Nothing
    /\ seen \in [Managers -> [lock : LockViews \union {Nothing},
                              unit : UnitViews \union {Nothing}]]
    /\ unsent \subseteq Managers
    /\ result \in [Managers -> {"none", "running", "starting", "stopped",
                                "stale", "independent", "error"}]
    /\ calls \in [Managers -> 0 .. MaxCalls]
    /\ {unitFile, loaded} \subseteq Identities \union {Nothing}
    /\ unit \in UnitStates
    /\ {enabled, again} \subseteq BOOLEAN
    /\ {main, owner} \subseteq Daemons \union {Nothing}
    /\ daemon \in [Daemons -> {"unborn", "starting", "owner", "ready", "dead"}]
    /\ identity \in [Daemons -> Identities \union {Nothing}]

-----------------------------------------------------------------------------
(* Nothing is installed, or the service runs as an earlier call left it,   *)
(* though its user may have disabled it since.  The last manager to make   *)
(* one may have died in it.                                                *)
Init ==
    /\ lifecycle \in Departed \union {Nothing} /\ recovery = Nothing
    /\ at = [m \in Managers |-> IF m \in Departed THEN "dead" ELSE "idle"]
    /\ found = [m \in Managers |-> Nothing]
    /\ op = [m \in Managers |-> "none"]
    /\ seen = [m \in Managers |-> UnseenYet]
    /\ then = [m \in Managers |-> "none"]
    /\ plan = [m \in Managers |-> "none"]
    /\ unsent = {}
    /\ result = [m \in Managers |-> "none"]
    /\ calls = [m \in Managers |-> 0]
    /\ again = FALSE
    /\ \/ /\ unitFile = Nothing /\ loaded = Nothing /\ enabled = FALSE
          /\ unit = "inactive" /\ main = Nothing /\ owner = Nothing
          /\ daemon = [d \in Daemons |-> "unborn"]
          /\ identity = [d \in Daemons |-> Nothing]
       \/ \E i \in Identities, d \in Daemons \ ByHand :
          /\ unitFile = i /\ loaded = i /\ enabled \in BOOLEAN
          /\ unit = "active" /\ main = d /\ owner = d
          /\ daemon = [x \in Daemons |-> IF x = d THEN "ready" ELSE "unborn"]
          /\ identity = [x \in Daemons |-> IF x = d THEN i ELSE Nothing]

-----------------------------------------------------------------------------
(* The lifecycle lock (acquireLifecycleLock).                              *)

Goto(m, place) == at' = [at EXCEPT ![m] = place]
Alive(m) == at[m] # "dead"

(* A look at the lock and the unit, for a purpose.  The two are read       *)
(* together ("inspect", inspectRequired) or the lock first ("status").     *)
Look(m, how, purpose) ==
    /\ Goto(m, how)
    /\ then' = [then EXCEPT ![m] = purpose]
    /\ seen' = [seen EXCEPT ![m] = UnseenYet]
    /\ UNCHANGED <<plan, unsent, result>>

(* serializeLifecycle: a manager makes one call at a time.                 *)
Request(m, o) ==
    /\ at[m] = "idle"
    /\ calls[m] < MaxCalls
    /\ calls' = [calls EXCEPT ![m] = @ + 1]
    /\ op' = [op EXCEPT ![m] = o]
    /\ Goto(m, "look")
    /\ UNCHANGED <<lockFiles, systemd, daemons, seen, then, memory>>

(* What follows a try that met another manager's lock or guard, but the    *)
(* last one: that throws.                                                  *)
TryAgain(m) ==
    /\ found' = [found EXCEPT ![m] = Nothing]
    /\ \/ Goto(m, "look") /\ UNCHANGED op
       \/ Goto(m, "idle") /\ op' = [op EXCEPT ![m] = "none"]
    /\ UNCHANGED <<calls, seen, then, plan, unsent, result, systemd, daemons>>

GoOn(m, place) ==
    /\ Goto(m, place)
    /\ UNCHANGED <<request, seen, then, memory, systemd, daemons>>

LookForGuard(m) ==
    /\ at[m] = "look"
    /\ IF recovery = Nothing THEN GoOn(m, "publish") ELSE TryAgain(m)
    /\ UNCHANGED lockFiles

(* publishLifecycleLock links a fully written file; whoever has the link   *)
(* begins with inspectRequired.                                            *)
Publish(m) ==
    /\ at[m] = "publish"
    /\ \/ /\ lifecycle = Nothing
          /\ lifecycle' = m
          /\ Look(m, "inspect", op[m])
       \/ /\ lifecycle # Nothing
          /\ Goto(m, "read")
          /\ UNCHANGED <<lifecycle, seen, then, plan, unsent, result>>
    /\ UNCHANGED <<recovery, request, found, systemd, daemons>>

ReadHolder(m) ==
    /\ at[m] = "read"
    /\ IF lifecycle = Nothing THEN TryAgain(m)
       ELSE /\ Goto(m, "judge")
            /\ found' = [found EXCEPT ![m] = lifecycle]
            /\ UNCHANGED <<request, seen, then, plan, unsent, result, systemd, daemons>>
    /\ UNCHANGED lockFiles

JudgeHolder(m) ==
    /\ at[m] = "judge"
    /\ IF Alive(found[m]) THEN TryAgain(m) ELSE GoOn(m, "guard")
    /\ UNCHANGED lockFiles

OpenGuard(m) ==
    /\ at[m] = "guard"
    /\ IF recovery = Nothing THEN recovery' = m /\ GoOn(m, "recheck")
       ELSE TryAgain(m) /\ UNCHANGED recovery
    /\ UNCHANGED lifecycle

(* Bug variant: what was judged before the guard was open is believed.     *)
TrustJudgement(m) ==
    /\ at[m] = "recheck"
    /\ GoOn(m, "remove")
    /\ UNCHANGED lockFiles

(* Under the guard the lock must still be the one that was judged ...      *)
RecheckHolder(m) ==
    /\ at[m] = "recheck"
    /\ GoOn(m, IF lifecycle = found[m] THEN "remove" ELSE "unguard")
    /\ UNCHANGED lockFiles

(* ... and is unlinked, whatever the path names by then.                   *)
RemoveDead(m) ==
    /\ at[m] = "remove"
    /\ lifecycle' = Nothing
    /\ GoOn(m, "unguard")
    /\ UNCHANGED recovery

RemoveGuard(m) ==
    /\ at[m] = "unguard"
    /\ recovery' = Nothing
    /\ found' = [found EXCEPT ![m] = Nothing]
    /\ Goto(m, "look")
    /\ UNCHANGED <<lifecycle, request, seen, then, plan, unsent, result, systemd, daemons>>

(* The call is over; withLifecycleLock's finally clause comes next.        *)
Finish(m, outcome) ==
    /\ Goto(m, "release")
    /\ result' = [result EXCEPT ![m] = outcome]
    /\ seen' = [seen EXCEPT ![m] = UnseenYet]
    /\ then' = [then EXCEPT ![m] = "none"]
    /\ plan' = [plan EXCEPT ![m] = "none"]
    /\ UNCHANGED unsent

Release(m) ==
    /\ at[m] = "release"
    /\ lifecycle' = IF lifecycle = m THEN Nothing ELSE lifecycle
    /\ Goto(m, "idle")
    /\ op' = [op EXCEPT ![m] = "none"]
    /\ result' = [result EXCEPT ![m] = "none"]
    /\ UNCHANGED <<recovery, calls, seen, then, found, plan, unsent, systemd, daemons>>

-----------------------------------------------------------------------------
(* What a manager sees, and what it makes of it (classify).                *)

(* inspectDaemonServiceStatus, of which WorkspaceLock has the four reads.  *)
ReadDaemonLock(m) ==
    /\ at[m] \in {"inspect", "status"}
    /\ seen[m].lock = Nothing
    /\ seen' = [seen EXCEPT ![m].lock =
           [owner |-> owner,
            alive |-> owner # Nothing /\ daemon[owner] # "dead",
            ready |-> owner # Nothing /\ daemon[owner] = "ready"]]
    /\ UNCHANGED <<lockFiles, at, request, then, memory, systemd, daemons>>

(* systemctl show loads a unit that has a file and is not loaded yet.      *)
ReadUnit(m) ==
    /\ at[m] \in {"inspect", "status"}
    /\ at[m] = "status" => seen[m].lock # Nothing
    /\ seen[m].unit = Nothing
    /\ loaded' = IF loaded = Nothing THEN unitFile ELSE loaded
    /\ seen' = [seen EXCEPT ![m].unit =
           [loaded |-> loaded' # Nothing, enabled |-> enabled,
            state |-> unit, main |-> main]]
    /\ UNCHANGED <<lockFiles, at, request, then, memory, unitFile, enabled, unit, main,
                   again, daemons>>

Seen(m, purpose) ==
    /\ at[m] \in {"inspect", "status"}
    /\ then[m] = purpose
    /\ seen[m].lock # Nothing /\ seen[m].unit # Nothing

Lock(m) == seen[m].lock
Unit(m) == seen[m].unit

Running(m)  == Lock(m).owner # Nothing /\ Lock(m).alive
Active(m)   == Unit(m).state \in {"active", "auto-restart"}
Verified(m) == Unit(m).loaded

(* The unit's main process holds the lock ...                              *)
ExactManaged(m) == Running(m) /\ Active(m) /\ Verified(m) /\ Unit(m).main = Lock(m).owner

(* ... or systemd is between two main processes of a managed daemon.       *)
Managed(m) ==
    \/ ExactManaged(m)
    \/ Running(m) /\ Active(m) /\ Verified(m) /\ identity[Lock(m).owner] # Nothing

Independent(m) == Running(m) /\ ~Managed(m)

Ready(m) ==
    /\ Running(m) /\ Lock(m).ready
    /\ Managed(m) => ExactManaged(m) /\ identity[Lock(m).owner] = Wanted[m]

Status(m) ==
    IF Running(m) THEN IF Ready(m) THEN "running" ELSE "starting"
    ELSE IF Lock(m).owner # Nothing THEN "stale"
    ELSE IF Active(m) THEN "starting" ELSE "stopped"

(* The managed daemon runs another service than the wanted one.            *)
IdentityMismatch(m) == Managed(m) /\ identity[Lock(m).owner] # Wanted[m]

-----------------------------------------------------------------------------
(* systemctl: a child is started, reaches systemd, and returns when the    *)
(* job is done; or it fails, or the wait for it runs out and it is killed. *)

(* The look a decision was made on is kept until the unit is enabled.      *)
Call(m, verb, decision) ==
    /\ Goto(m, "systemctl")
    /\ then' = [then EXCEPT ![m] = verb]
    /\ plan' = [plan EXCEPT ![m] = decision]
    /\ unsent' = unsent \union {m}
    /\ seen' = IF verb = "enable" THEN seen ELSE [seen EXCEPT ![m] = UnseenYet]
    /\ UNCHANGED result

DaemonReload == loaded' = unitFile /\ UNCHANGED <<enabled, unit, again>>

Enable == enabled' = TRUE /\ UNCHANGED <<loaded, unit, again>>

(* disable --now: a main process is told to end.                           *)
DisableNow ==
    /\ enabled' = FALSE
    /\ again' = FALSE
    /\ unit' = IF unit = "active" THEN "deactivating"
               ELSE IF unit = "auto-restart" THEN "inactive" ELSE unit
    /\ UNCHANGED loaded

Restart ==
    /\ again' = TRUE
    /\ unit' = IF unit = "active" THEN "deactivating" ELSE unit
    /\ UNCHANGED <<loaded, enabled>>

(* A child lives on when its manager dies before it reached systemd.       *)
SystemctlArrives(m) ==
    /\ m \in unsent
    /\ unsent' = unsent \ {m}
    /\ \/ then[m] = "daemon-reload" /\ DaemonReload
       \/ then[m] = "enable" /\ Enable
       \/ then[m] = "disable" /\ DisableNow
       \/ then[m] = "restart" /\ Restart
    /\ UNCHANGED <<lockFiles, at, request, seen, then, found, plan, result, unitFile,
                   main, daemons>>

Returned(m, verb) ==
    /\ at[m] = "systemctl"
    /\ then[m] = verb
    /\ m \notin unsent
    /\ verb = "disable" => unit # "deactivating"
    /\ verb = "restart" => ~again

-----------------------------------------------------------------------------
(* Decisions.                                                              *)

Unmoved == UNCHANGED <<lockFiles, request, found, systemd, daemons>>

(* disableVerifiedUnitForIndependent.  ensureRunning throws in any case;   *)
(* stop returns what it saw.                                               *)
MakeWay(m) ==
    IF Independent(m) /\ Verified(m) /\ (Active(m) \/ Unit(m).enabled)
    THEN Call(m, "disable", Lock(m).owner)
    ELSE Finish(m, IF op[m] = "ensureRunning" THEN "error"
                   ELSE IF Independent(m) THEN "independent" ELSE Status(m))

MakeWayNow(m) == Seen(m, "make way") /\ MakeWay(m) /\ Unmoved

(* The independent daemon must have stayed, and the unit must be gone.     *)
WayMade(m) ==
    /\ Seen(m, "way made")
    /\ Finish(m, IF /\ op[m] = "stop"
                    /\ Running(m) /\ Lock(m).owner = plan[m]
                    /\ ~(Verified(m) /\ (Active(m) \/ Unit(m).enabled))
                 THEN "independent" ELSE "error")
    /\ Unmoved

(* An unchanged unit that is active with the wanted service stays.         *)
Decision(m) ==
    IF \/ unitFile # Wanted[m] \/ IdentityMismatch(m)
       \/ ~(Verified(m) /\ Active(m)) \/ Status(m) = "stale"
    THEN "restart"
    ELSE IF Status(m) = "running" THEN "running" ELSE "poll"

Proceed(m, decision) ==
    \/ decision = "running" /\ Finish(m, "running")
    \/ decision = "poll" /\ Look(m, "status", "poll")
    \/ decision = "restart" /\ Call(m, "restart", "restart")

EnableAndProceed(m, decision) ==
    IF Unit(m).enabled THEN Proceed(m, decision) ELSE Call(m, "enable", decision)

(* ensureRunningUnlocked: writeDesiredService, and what has to follow.     *)
Decide(m) ==
    /\ Seen(m, "ensureRunning")
    /\ \/ /\ Independent(m)
          /\ MakeWay(m)
          /\ UNCHANGED unitFile
       \/ /\ ~Independent(m)
          /\ unitFile' = Wanted[m]
          /\ IF unitFile # Wanted[m] \/ ~Verified(m) \/ IdentityMismatch(m)
             THEN Call(m, "daemon-reload", "restart")
             ELSE EnableAndProceed(m, Decision(m))
    /\ UNCHANGED <<lockFiles, request, found, loaded, enabled, unit, main, again, daemons>>

Reloaded(m) == Returned(m, "daemon-reload") /\ Look(m, "inspect", "reloaded") /\ Unmoved

(* Whatever needed the reload needs a restart, too.                        *)
DecideAgain(m) ==
    /\ Seen(m, "reloaded")
    /\ IF Independent(m) THEN MakeWay(m)
       ELSE Call(m, IF Unit(m).enabled THEN "restart" ELSE "enable", "restart")
    /\ Unmoved

Enabled(m) == Returned(m, "enable") /\ Proceed(m, plan[m]) /\ Unmoved

Restarted(m) == Returned(m, "restart") /\ Look(m, "status", "poll") /\ Unmoved

(* Bug variant: whoever is ready, the service is taken to be up.           *)
PollForAnyone(m) ==
    /\ Seen(m, "poll")
    /\ \/ Ready(m) /\ Finish(m, "running")
       \/ Independent(m) /\ ~Ready(m) /\ Look(m, "inspect", "make way")
       \/ ~Independent(m) /\ ~Ready(m) /\ Finish(m, "error")
       \/ /\ ~Independent(m) /\ ~Ready(m)
          /\ ~(Status(m) = "stopped" /\ Unit(m).state = "failed")
          /\ Look(m, "status", "poll")
    /\ Unmoved

(* pollReady: until the service is ready, an independent daemon has the    *)
(* lock, the unit failed, or the attempts are used up.                     *)
Poll(m) ==
    /\ Seen(m, "poll")
    /\ \/ Managed(m) /\ Ready(m) /\ Finish(m, "running")
       \/ Independent(m) /\ Look(m, "inspect", "make way")
       \/ ~Independent(m) /\ ~Ready(m) /\ Finish(m, "error")
       \/ /\ ~Independent(m) /\ ~Ready(m)
          /\ ~(Status(m) = "stopped" /\ Unit(m).state = "failed")
          /\ Look(m, "status", "poll")
    /\ Unmoved

(* Bug variant: an enabled unit that is not active is left alone.          *)
DecideStopOfActive(m) ==
    /\ Seen(m, "stop")
    /\ IF Independent(m) THEN MakeWay(m)
       ELSE IF Verified(m) /\ Active(m) THEN Call(m, "disable", "stop")
       ELSE IF Status(m) = "stopped" THEN Finish(m, "stopped")
       ELSE Look(m, "status", "gone")
    /\ Unmoved

(* stopUnlocked.                                                           *)
DecideStop(m) ==
    /\ Seen(m, "stop")
    /\ IF Independent(m) THEN MakeWay(m)
       ELSE IF Verified(m) /\ (Active(m) \/ Unit(m).enabled) THEN Call(m, "disable", "stop")
       ELSE IF Status(m) = "stopped" THEN Finish(m, "stopped")
       ELSE Look(m, "status", "gone")
    /\ Unmoved

Disabled(m) ==
    /\ Returned(m, "disable")
    /\ IF plan[m] = "stop" THEN Look(m, "status", "gone")
       ELSE Look(m, "inspect", "way made")
    /\ Unmoved

Gone(m) ==
    /\ Seen(m, "gone")
    /\ \/ Independent(m) /\ Look(m, "inspect", "make way")
       \/ Status(m) \in {"stopped", "stale"} /\ Finish(m, Status(m))
       \/ /\ ~Independent(m) /\ Status(m) \notin {"stopped", "stale"}
          /\ Look(m, "status", "gone") \/ Finish(m, "error")
    /\ Unmoved

(* Only ensureRunning catches the failure of its restart, and looks whether*)
(* it lost a race for the lock.  What has reached systemd goes on there.   *)
CommandFails(m) ==
    /\ at[m] = "systemctl"
    /\ unsent' = unsent \ {m}
    /\ seen' = [seen EXCEPT ![m] = UnseenYet]
    /\ plan' = [plan EXCEPT ![m] = "none"]
    /\ IF then[m] = "restart"
       THEN /\ Goto(m, "status")
            /\ then' = [then EXCEPT ![m] = "restart failed"]
            /\ UNCHANGED result
       ELSE /\ Goto(m, "release")
            /\ then' = [then EXCEPT ![m] = "none"]
            /\ result' = [result EXCEPT ![m] = "error"]
    /\ Unmoved

RestartFailed(m) ==
    /\ Seen(m, "restart failed")
    /\ IF Independent(m) THEN Look(m, "inspect", "make way") ELSE Finish(m, "error")
    /\ Unmoved

Die(m) ==
    /\ Alive(m)
    /\ Goto(m, "dead")
    /\ found' = [found EXCEPT ![m] = Nothing]
    /\ seen' = [seen EXCEPT ![m] = UnseenYet]
    /\ plan' = [plan EXCEPT ![m] = "none"]
    /\ then' = [then EXCEPT ![m] = IF m \in unsent THEN @ ELSE "none"]
    /\ op' = [op EXCEPT ![m] = "none"]
    /\ result' = [result EXCEPT ![m] = "none"]
    /\ UNCHANGED <<lockFiles, calls, unsent, systemd, daemons>>

-----------------------------------------------------------------------------
(* Daemons, and what systemd does about the one it runs.                   *)

(* External: someone runs `serve` in a terminal.                           *)
StartByHand(d) ==
    /\ d \in ByHand
    /\ daemon[d] = "unborn"
    /\ daemon' = [daemon EXCEPT ![d] = "starting"]
    /\ UNCHANGED <<lockFiles, local, systemd, identity, owner>>

(* The workspace lock, which WorkspaceLock has in full.                    *)
TakeLock(d) ==
    /\ daemon[d] = "starting"
    /\ owner # Nothing => daemon[owner] = "dead"
    /\ owner' = d
    /\ daemon' = [daemon EXCEPT ![d] = "owner"]
    /\ UNCHANGED <<lockFiles, local, systemd, identity>>

BecomeReady(d) ==
    /\ daemon[d] = "owner"
    /\ daemon' = [daemon EXCEPT ![d] = "ready"]
    /\ UNCHANGED <<lockFiles, local, systemd, identity, owner>>

(* External: systemd notices that the unit's process ended, by itself      *)
(* (Restart=on-failure) or because it was told to.                         *)
Ends(d, state) ==
    /\ daemon' = [daemon EXCEPT ![d] = "dead"]
    /\ IF main = d THEN main' = Nothing /\ unit' = state ELSE UNCHANGED <<main, unit>>
    /\ UNCHANGED <<lockFiles, local, unitFile, loaded, enabled, again, identity>>

Living(d) == daemon[d] \in {"starting", "owner", "ready"}

(* A daemon dies, and leaves its lock; or finds the workspace owned.       *)
Crash(d) ==
    /\ Living(d)
    /\ Ends(d, IF unit = "deactivating" THEN "failed" ELSE "auto-restart")
    /\ UNCHANGED owner

(* A daemon that was told to ends, and takes its lock with it.             *)
Stop(d) ==
    /\ Living(d)
    /\ d \in ByHand \/ (main = d /\ unit = "deactivating")
    /\ Ends(d, "inactive")
    /\ owner' = IF owner = d THEN Nothing ELSE owner

(* External: systemd starts the unit's process, after a failure or for a   *)
(* restart, until the unit meets its start limit.                          *)
StartMain ==
    /\ unit = "auto-restart" \/ (again /\ unit # "deactivating")
    /\ again' = FALSE
    /\ \/ \E d \in Daemons \ ByHand :
           /\ daemon[d] = "unborn"
           /\ daemon' = [daemon EXCEPT ![d] = "starting"]
           /\ identity' = [identity EXCEPT ![d] = loaded]
           /\ main' = d
           /\ unit' = "active"
       \/ /\ \A d \in Daemons \ ByHand : daemon[d] # "unborn"
          /\ unit' = "failed"
          /\ UNCHANGED <<daemon, identity, main>>
    /\ UNCHANGED <<lockFiles, local, unitFile, loaded, enabled, owner>>

-----------------------------------------------------------------------------
LifecycleLock(m) ==
    \/ \E o \in {"ensureRunning", "stop"} : Request(m, o)
    \/ LookForGuard(m) \/ Publish(m) \/ ReadHolder(m) \/ JudgeHolder(m)
    \/ OpenGuard(m) \/ RecheckHolder(m) \/ RemoveDead(m) \/ RemoveGuard(m)
    \/ Release(m)

Manage(m) ==
    \/ ReadDaemonLock(m) \/ ReadUnit(m) \/ SystemctlArrives(m) \/ CommandFails(m)
    \/ Decide(m) \/ Reloaded(m) \/ DecideAgain(m) \/ Enabled(m) \/ Restarted(m)
    \/ Poll(m) \/ RestartFailed(m) \/ MakeWayNow(m) \/ WayMade(m)
    \/ DecideStop(m) \/ Disabled(m) \/ Gone(m)

Serve(d) == StartByHand(d) \/ TakeLock(d) \/ BecomeReady(d) \/ Crash(d) \/ Stop(d)

Next ==
    \/ \E m \in Managers : LifecycleLock(m) \/ Manage(m) \/ Die(m)
    \/ \E d \in Daemons : Serve(d)
    \/ StartMain

ManagerSpec == Init /\ [][Next]_managerVars

-----------------------------------------------------------------------------
(* Safety.                                                                 *)

(* Whichever managers die in whichever step, also while they take over the *)
(* lock of one that died, no two living ones are inside a lifecycle change *)
(* of the workspace's unit (withLifecycleLock).                            *)
OneMutationAtATime ==
    \A m, n \in Managers : at[m] \in Mutating /\ at[n] \in Mutating => m = n

NobodyDied == \A m \in Managers \ Departed : Alive(m)

(* ensureRunning says "running" only of a daemon that systemd started with *)
(* the service this manager wants and that has published its readiness,    *)
(* or died since, although the lock and the unit were read at different    *)
(* times.  If no manager died with a command on its way, the unit that the *)
(* next login starts is that service, too.                                 *)
SuccessIsManaged ==
    [][\A m \in Managers :
        op[m] = "ensureRunning" /\ result[m] = "none" /\ result'[m] = "running" =>
            /\ \E d \in Daemons \ ByHand : /\ d = Lock(m).owner
                                           /\ identity[d] = Wanted[m]
                                           /\ daemon[d] \in {"ready", "dead"}
            /\ NobodyDied => enabled /\ unitFile' = Wanted[m]]_managerVars

(* When stop says the daemon is stopped, the unit runs no process but one  *)
(* that systemd is already ending, will restart none and start none at the *)
(* next login; unless a manager died whose command may still arrive.       *)
StoppedMeansStopped ==
    [][\A m \in Managers :
        op[m] = "stop" /\ result[m] = "none" /\ result'[m] \in {"stopped", "stale"}
          /\ NobodyDied
        => ~enabled /\ ~again /\ unit \notin {"active", "auto-restart"}]_managerVars
=============================================================================
