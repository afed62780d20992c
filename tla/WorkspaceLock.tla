----------------------------- MODULE WorkspaceLock -----------------------------
(***************************************************************************)
(* The lock that keeps a workspace to one goal daemon, as acquireWorkspace-*)
(* Lock and WorkspaceLock of packages/opencode-goal-supervisor/src/        *)
(* daemon.ts keep it: a lock file that names its owner, a guard file that  *)
(* serializes the replacement of a dead owner's lock, and a readiness file *)
(* other processes read (inspectDaemonServiceStatus, systemd.ts).          *)
(*                                                                         *)
(* Each daemon is an operating-system process and each action one system   *)
(* call of one of them, so that any two interleave.  A process may die     *)
(* between any two of its calls, and leaves its files behind.  A token is  *)
(* a fresh UUID, so a lock file is identified by the daemon that published *)
(* it; a pid whose process identity differs is a dead process.             *)
(***************************************************************************)
EXTENDS Naturals, FiniteSets

CONSTANTS
    Daemons,    \* one per process that ever starts a daemon here
    Legacy,     \* those of an older release: their record has no identity
    Nobody      \* no such file

ASSUME DaemonsAssumption == Legacy \subseteq Daemons /\ Nobody \notin Daemons

Files == Daemons \union {Nobody}

VARIABLES
    lock,       \* the owner the lock file names
    guard,      \* who opened the recovery guard
    readiness,  \* the owner the readiness file names
    fresh,      \* the lock file is younger than INCOMPLETE_LOCK_FRESHNESS_MS
    alive,      \* processes that run
    at,         \* the call each process makes next
    found,      \* the owner it read in the lock file
    tries,      \* how often it started over
    then,       \* where it goes after it removed the guard
    view        \* what an inspecting process has learned

files == <<lock, guard, readiness, fresh>>
local == <<found, tries, then>>
lockVars == <<files, alive, at, local, view>>

(* The calls of a start, of an owner, and the ways a daemon ends.          *)
Acquiring == {"check", "publish", "guard", "read", "judge", "age", "compare",
              "unlink", "claim"}
Owning    == {"clean", "starting", "rename", "recheck", "ready", "release",
              "unready", "confirm", "drop"}
Ended     == {"refused", "failed", "stopped"}

(* Calls made while the guard is held; "clean" may be one of them.         *)
Guarded == {"read", "judge", "age", "compare", "unlink", "claim", "unguard"}

MaxTries == 3

LockTypeOK ==
    /\ lock \in Files
    /\ guard \in Files
    /\ readiness \in Files
    /\ fresh \in BOOLEAN
    /\ alive \subseteq Daemons
    /\ at \in [Daemons -> {"down", "unguard", "old", "dead"}
                              \union Acquiring \union Owning \union Ended]
    /\ found \in [Daemons -> Files]
    /\ tries \in [Daemons -> 1 .. MaxTries]
    /\ then \in [Daemons -> {"absent", "removed", "starting", "retry"} \union Ended]
    /\ view \in [step : {"guard", "lock", "owner", "readiness", "invalid",
                         "stopped", "stale", "starting", "ready"},
                 owner : Files]

-----------------------------------------------------------------------------
(* Moves of a process.                                                     *)

Goto(p, call) == at' = [at EXCEPT ![p] = call]

(* The finally clause removes the guard before anything else goes on.      *)
LeaveGuard(p, next) ==
    /\ Goto(p, "unguard")
    /\ then' = [then EXCEPT ![p] = next]

(* Steps of a living process; the other files and processes stay.          *)
At(p, call) == p \in alive /\ at[p] = call

(* publishLockOwner: a hard link of a fully written file, which fails if   *)
(* the path exists.                                                        *)
Link(p) ==
    /\ lock' = p
    /\ fresh' = TRUE
    /\ Goto(p, "clean")

-----------------------------------------------------------------------------
(* Before anyone starts, the workspace has no lock file, or that of an     *)
(* older release, whose daemon may still run.                              *)
Init ==
    /\ lock \in Legacy \union {Nobody}
    /\ guard = Nobody
    /\ readiness = Nobody
    /\ fresh \in {FALSE, lock # Nobody}
    /\ alive \in {(Daemons \ Legacy) \union S : S \in SUBSET ({lock} \ {Nobody})}
    /\ at = [p \in Daemons |-> IF p \in Legacy THEN "old" ELSE "down"]
    /\ found = [p \in Daemons |-> Nobody]
    /\ tries = [p \in Daemons |-> 1]
    /\ then = [p \in Daemons |-> "retry"]
    /\ view = [step |-> "guard", owner |-> Nobody]

Start(p) ==
    /\ At(p, "down")
    /\ Goto(p, "check")
    /\ UNCHANGED <<files, alive, local, view>>

(* recoveryInProgress: nobody publishes beside a recovery it can see.      *)
CheckGuard(p) ==
    /\ At(p, "check")
    /\ Goto(p, IF guard = Nobody THEN "publish" ELSE "refused")
    /\ UNCHANGED <<files, alive, local, view>>

Publish(p) ==
    /\ At(p, "publish")
    /\ IF lock = Nobody THEN Link(p)
       ELSE Goto(p, "guard") /\ UNCHANGED <<lock, fresh>>
    /\ then' = [then EXCEPT ![p] = "retry"]
    /\ UNCHANGED <<guard, readiness, alive, found, tries, view>>

(* Bug variant: the guard is not asked for.                                *)
EnterUnguarded(p) ==
    /\ At(p, "guard")
    /\ guard' = p
    /\ Goto(p, "read")
    /\ UNCHANGED <<lock, readiness, fresh, alive, local, view>>

(* open with 'wx': the guard has one holder.                               *)
OpenGuard(p) ==
    /\ At(p, "guard")
    /\ IF guard = Nobody THEN guard' = p /\ Goto(p, "read")
       ELSE Goto(p, "refused") /\ UNCHANGED guard
    /\ UNCHANGED <<lock, readiness, fresh, alive, local, view>>

ReadOwner(p) ==
    /\ At(p, "read")
    /\ found' = [found EXCEPT ![p] = lock]
    /\ IF lock = Nobody
       THEN Goto(p, "claim") /\ then' = [then EXCEPT ![p] = "absent"]
       ELSE Goto(p, "judge") /\ UNCHANGED then
    /\ UNCHANGED <<files, alive, tries, view>>

(* Bug variant: a record without an identity is not tried for its pid.     *)
JudgeByIdentity(p) ==
    /\ At(p, "judge")
    /\ IF found[p] \in alive \ Legacy THEN LeaveGuard(p, "refused")
       ELSE /\ Goto(p, IF found[p] \in Legacy THEN "age" ELSE "compare")
            /\ UNCHANGED then
    /\ UNCHANGED <<files, alive, found, tries, view>>

(* A living owner keeps its lock, and so does the living process that an   *)
(* incomplete record names.                                                *)
JudgeOwner(p) ==
    /\ At(p, "judge")
    /\ IF found[p] \in alive THEN LeaveGuard(p, "refused")
       ELSE /\ Goto(p, IF found[p] \in Legacy THEN "age" ELSE "compare")
            /\ UNCHANGED then
    /\ UNCHANGED <<files, alive, found, tries, view>>

(* An incomplete record is kept while the file at the path is fresh.       *)
JudgeAge(p) ==
    /\ At(p, "age")
    /\ IF lock = Nobody THEN LeaveGuard(p, "retry")
       ELSE IF fresh THEN LeaveGuard(p, "refused")
       ELSE Goto(p, "compare") /\ UNCHANGED then
    /\ UNCHANGED <<files, alive, found, tries, view>>

(* removeLockIfUnchanged compares first: contents and inode are those of   *)
(* the file that was read ...                                              *)
CompareLock(p) ==
    /\ At(p, "compare")
    /\ IF lock = found[p] THEN Goto(p, "unlink") /\ UNCHANGED then
       ELSE LeaveGuard(p, "retry")
    /\ UNCHANGED <<files, alive, found, tries, view>>

(* Bug variant: having cleaned up is taken for having lost.                *)
UnlinkAndRefuse(p) ==
    /\ At(p, "unlink")
    /\ lock' = Nobody
    /\ fresh' = FALSE
    /\ LeaveGuard(p, IF lock = Nobody THEN "retry" ELSE "refused")
    /\ UNCHANGED <<guard, readiness, alive, found, tries, view>>

(* ... and then unlinks whatever the path names by now.                    *)
UnlinkLock(p) ==
    /\ At(p, "unlink")
    /\ lock' = Nobody
    /\ fresh' = FALSE
    /\ IF lock = Nobody THEN LeaveGuard(p, "retry")
       ELSE Goto(p, "claim") /\ then' = [then EXCEPT ![p] = "removed"]
    /\ UNCHANGED <<guard, readiness, alive, found, tries, view>>

(* The second link.  After a removal, a competitor that was faster means   *)
(* another try; where the file was absent before, its EEXIST is thrown.    *)
ClaimLock(p) ==
    /\ At(p, "claim")
    /\ IF lock = Nobody THEN Link(p) /\ then' = [then EXCEPT ![p] = "starting"]
       ELSE /\ LeaveGuard(p, IF then[p] = "absent" THEN "failed" ELSE "retry")
            /\ UNCHANGED <<lock, fresh>>
    /\ UNCHANGED <<guard, readiness, alive, found, tries, view>>

(* workspaceLock(): the owner removes the readiness of whoever was before. *)
CleanReadiness(p) ==
    /\ At(p, "clean")
    /\ readiness' = Nobody
    /\ Goto(p, IF then[p] = "starting" THEN "unguard" ELSE "starting")
    /\ UNCHANGED <<lock, guard, fresh, alive, local, view>>

(* What the start goes on with, of at most three tries; what it learned    *)
(* under the guard goes out of scope.                                      *)
Leave(p) ==
    /\ IF then[p] # "retry" THEN Goto(p, then[p]) /\ UNCHANGED tries
       ELSE IF tries[p] = MaxTries THEN Goto(p, "refused") /\ UNCHANGED tries
       ELSE Goto(p, "check") /\ tries' = [tries EXCEPT ![p] = @ + 1]
    /\ found' = [found EXCEPT ![p] = Nobody]
    /\ then' = [then EXCEPT ![p] = "retry"]

(* Bug variant: the guard stays when the start is refused.                 *)
KeepGuardOnRefusal(p) ==
    /\ At(p, "unguard")
    /\ guard' = IF then[p] = "refused" THEN guard ELSE Nobody
    /\ Leave(p)
    /\ UNCHANGED <<lock, readiness, fresh, alive, view>>

RemoveGuard(p) ==
    /\ At(p, "unguard")
    /\ guard' = Nobody
    /\ Leave(p)
    /\ UNCHANGED <<lock, readiness, fresh, alive, view>>

-----------------------------------------------------------------------------
(* The owner: readiness, and the release of the lock.                      *)

(* Startup reconciliation is over; markReady makes sure it still owns.     *)
VerifyOwner(p) ==
    /\ At(p, "starting")
    /\ Goto(p, IF lock = p THEN "rename" ELSE "release")
    /\ UNCHANGED <<files, alive, local, view>>

RenameReadiness(p) ==
    /\ At(p, "rename")
    /\ readiness' = p
    /\ Goto(p, "recheck")
    /\ UNCHANGED <<lock, guard, fresh, alive, local, view>>

(* A marker published beside a lost lock is taken back.                    *)
RecheckOwner(p) ==
    /\ At(p, "recheck")
    /\ Goto(p, IF lock = p THEN "ready" ELSE "release")
    /\ readiness' = IF lock # p /\ readiness = p THEN Nobody ELSE readiness
    /\ UNCHANGED <<lock, guard, fresh, alive, local, view>>

(* The daemon's scope closes, at any time: release() reads whose lock it   *)
(* is ...                                                                  *)
Stop(p) ==
    /\ p \in alive
    /\ at[p] \in {"starting", "ready", "release"}
    /\ Goto(p, IF lock = p THEN "unready" ELSE "stopped")
    /\ UNCHANGED <<files, alive, local, view>>

(* Bug variant: the readiness file goes after the lock.                    *)
ReleaseBeforeReadiness(p) ==
    /\ At(p, "unready")
    /\ lock' = Nobody
    /\ Goto(p, "confirm")
    /\ UNCHANGED <<guard, readiness, fresh, alive, local, view>>

(* ... removes the readiness file ...                                      *)
RemoveReadiness(p) ==
    /\ At(p, "unready")
    /\ readiness' = Nobody
    /\ Goto(p, "confirm")
    /\ UNCHANGED <<lock, guard, fresh, alive, local, view>>

(* ... and removes the lock if it is unchanged.                            *)
ConfirmLock(p) ==
    /\ At(p, "confirm")
    /\ Goto(p, IF lock = p THEN "drop" ELSE "stopped")
    /\ UNCHANGED <<files, alive, local, view>>

DropLock(p) ==
    /\ At(p, "drop")
    /\ lock' = Nobody
    /\ fresh' = FALSE
    /\ Goto(p, "stopped")
    /\ UNCHANGED <<guard, readiness, alive, local, view>>

-----------------------------------------------------------------------------
(* The world around: older daemons, death, time and the operator.          *)

(* External: a daemon of an older release that ends removes its lock.      *)
LegacyStops(p) ==
    /\ At(p, "old")
    /\ lock' = IF lock = p THEN Nobody ELSE lock
    /\ Goto(p, "stopped")
    /\ UNCHANGED <<guard, readiness, fresh, alive, local, view>>

Die(p) ==
    /\ p \in alive
    /\ alive' = alive \ {p}
    /\ Goto(p, "dead")
    /\ found' = [found EXCEPT ![p] = Nobody]
    /\ then' = [then EXCEPT ![p] = "retry"]
    /\ tries' = [tries EXCEPT ![p] = 1]
    /\ UNCHANGED <<files, view>>

LockAges ==
    /\ lock # Nobody
    /\ fresh
    /\ fresh' = FALSE
    /\ UNCHANGED <<lock, guard, readiness, alive, at, local, view>>

(* External: an operator who finds the guard of a process that died removes*)
(* it by hand; nothing in the code does.                                   *)
OperatorRemovesGuard ==
    /\ guard # Nobody
    /\ guard \notin alive
    /\ guard' = Nobody
    /\ UNCHANGED <<lock, readiness, fresh, alive, at, local, view>>

-----------------------------------------------------------------------------
(* inspectDaemonServiceStatus: four reads, with awaits between them.       *)

See(step, owner) ==
    /\ view' = [step |-> step, owner |-> owner]
    /\ UNCHANGED <<files, alive, at, local>>

InspectGuard ==
    /\ view.step = "guard"
    /\ See(IF guard = Nobody THEN "lock" ELSE "invalid", Nobody)

InspectLock ==
    /\ view.step = "lock"
    /\ See(IF lock = Nobody THEN "stopped" ELSE "owner", lock)

(* A living owner without an identity cannot be told from a stranger.      *)
InspectOwner ==
    /\ view.step = "owner"
    /\ See(IF view.owner \notin alive THEN "stale"
           ELSE IF view.owner \in Legacy THEN "invalid" ELSE "readiness",
           view.owner)

InspectReadiness ==
    /\ view.step = "readiness"
    /\ See(IF readiness = view.owner THEN "ready" ELSE "starting", view.owner)

InspectAgain ==
    /\ view.step \in {"invalid", "stopped", "stale", "starting", "ready"}
    /\ See("guard", Nobody)

Inspector == InspectGuard \/ InspectLock \/ InspectOwner \/ InspectReadiness
                \/ InspectAgain

-----------------------------------------------------------------------------
Acquire(p) ==
    \/ Start(p) \/ CheckGuard(p) \/ Publish(p) \/ OpenGuard(p) \/ ReadOwner(p)
    \/ JudgeOwner(p) \/ JudgeAge(p) \/ CompareLock(p) \/ UnlinkLock(p)
    \/ ClaimLock(p) \/ CleanReadiness(p) \/ RemoveGuard(p)

Own(p) ==
    \/ VerifyOwner(p) \/ RenameReadiness(p) \/ RecheckOwner(p) \/ Stop(p)
    \/ RemoveReadiness(p) \/ ConfirmLock(p) \/ DropLock(p)

Next ==
    \/ \E p \in Daemons : Acquire(p) \/ Own(p) \/ LegacyStops(p) \/ Die(p)
    \/ LockAges
    \/ OperatorRemovesGuard
    \/ Inspector

LockSpec == Init /\ [][Next]_lockVars

-----------------------------------------------------------------------------
(* Safety.                                                                 *)

(* The daemon is between the publication of its lock and its removal: it   *)
(* opens, uses or closes the workspace's store.                            *)
Owns(p) ==
    /\ p \in alive
    /\ \/ at[p] \in Owning
       \/ at[p] = "unguard" /\ then[p] = "starting"
       \/ at[p] = "old"

(* Whoever starts, stops or dies in whichever order, and however often a   *)
(* dead owner's lock is replaced, acquireWorkspaceLock never gives one     *)
(* workspace to two living daemons.                                        *)
OneOwner == \A p, q \in Daemons : Owns(p) /\ Owns(q) => p = q

(* inspectDaemonServiceStatus reads four things at four times, and yet     *)
(* when it calls a daemon ready, that daemon had published its readiness   *)
(* as the owner, and owns the lock still unless it died meanwhile.         *)
InspectionIsTrue ==
    [][view.step # "ready" /\ view'.step = "ready" =>
          LET p == view'.owner IN
          p \in alive => lock = p /\ at[p] \in {"recheck", "ready", "unready"}]_lockVars

(* A recovery guard outlives its recovery only if the process died in it:  *)
(* whatever a start comes to, it does not shut later starts out.           *)
GuardsAreLeftOnlyByDeath ==
    guard \in alive => at[guard] \in Guarded \union {"clean"}

(* The contenders for a workspace do not all turn each other away: if no   *)
(* process died and every start was refused, a daemon of an older release  *)
(* had the lock.                                                           *)
StartRaceIsWon ==
    (\A p \in Daemons \ Legacy : p \in alive /\ at[p] \in {"refused", "failed"}) =>
        \E q \in Legacy : lock = q \/ at[q] # "old"

(* The inductive invariant WorkspaceLockProofs rests on: who is in the     *)
(* recovery has the guard, who owns has the lock, a start about to remove a*)
(* lock removes that of a dead process, and the readiness of a living one  *)
(* is its owner's.                                                         *)
InRecovery(p) == at[p] \in Guarded \/ (at[p] = "clean" /\ then[p] = "starting")

LockInv ==
    /\ LockTypeOK
    /\ \A p \in alive : InRecovery(p) => guard = p
    /\ guard \in alive => InRecovery(guard)
    /\ \A p \in Daemons : Owns(p) => lock = p
    /\ \A p \in alive : at[p] \in {"age", "compare", "unlink"} =>
           found[p] \in Daemons \ alive
    /\ \A p \in alive : at[p] = "judge" => found[p] \in Daemons
    /\ \A p \in alive : at[p] = "unlink" => lock = found[p]
    /\ \A p \in alive : at[p] = "unguard" =>
           then[p] \in {"starting", "retry", "refused", "failed"}
    /\ readiness \in alive =>
           lock = readiness /\ at[readiness] \in {"recheck", "ready", "unready"}
=============================================================================
