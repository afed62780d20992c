-------------------------- MODULE WorkspaceLockProofs --------------------------
(***************************************************************************)
(* One workspace has one daemon, however many processes start, stop and    *)
(* die: proofs about WorkspaceLock for every set of daemons.               *)
(***************************************************************************)
EXTENDS WorkspaceLock, TLAPS

LEMMA LockInvInit ==
    Init => LockInv
<1> SUFFICES ASSUME Init PROVE LockInv
  OBVIOUS
<1>1. fresh \in BOOLEAN
  BY Zenon DEF Init
<1> QED
  BY <1>1, DaemonsAssumption
   DEF Init, LockInv, LockTypeOK, Files, Owns, InRecovery, Owning, Guarded,
       Acquiring, Ended, MaxTries

(* Every call of every process keeps the invariant.                        *)
LEMMA LockInvStep ==
    ASSUME LockInv, [Next]_lockVars
    PROVE  LockInv'
<1> USE DaemonsAssumption
    DEF LockInv, LockTypeOK, Files, Owns, InRecovery, Owning, Guarded, Acquiring,
        Ended, MaxTries, Goto, At, files
<1>1. ASSUME NEW p \in Daemons, Start(p)
      PROVE  LockInv'
  BY <1>1 DEF Start, local
<1>2. ASSUME NEW p \in Daemons, CheckGuard(p)
      PROVE  LockInv'
  BY <1>2 DEF CheckGuard, local
<1>3. ASSUME NEW p \in Daemons, Publish(p)
      PROVE  LockInv'
  <2>1. fresh' \in BOOLEAN
    BY <1>3, Zenon DEF Publish, Link
  <2> QED
    BY <1>3, <2>1 DEF Publish, Link, local
<1>4. ASSUME NEW p \in Daemons, OpenGuard(p)
      PROVE  LockInv'
  BY <1>4 DEF OpenGuard, local
<1>5. ASSUME NEW p \in Daemons, ReadOwner(p)
      PROVE  LockInv'
  BY <1>5 DEF ReadOwner, local
<1>6. ASSUME NEW p \in Daemons, JudgeOwner(p)
      PROVE  LockInv'
  BY <1>6 DEF JudgeOwner, LeaveGuard, local
<1>7. ASSUME NEW p \in Daemons, JudgeAge(p)
      PROVE  LockInv'
  BY <1>7 DEF JudgeAge, LeaveGuard, local
<1>8. ASSUME NEW p \in Daemons, CompareLock(p)
      PROVE  LockInv'
  BY <1>8 DEF CompareLock, LeaveGuard, local
<1>9. ASSUME NEW p \in Daemons, UnlinkLock(p)
      PROVE  LockInv'
  <2>1. fresh' \in BOOLEAN
    BY <1>9, Zenon DEF UnlinkLock, LeaveGuard
  <2> QED
    BY <1>9, <2>1 DEF UnlinkLock, LeaveGuard, local
<1>10. ASSUME NEW p \in Daemons, ClaimLock(p)
      PROVE  LockInv'
  <2>1. fresh' \in BOOLEAN
    BY <1>10, Zenon DEF ClaimLock, Link, LeaveGuard
  <2> QED
    BY <1>10, <2>1 DEF ClaimLock, Link, LeaveGuard, local
<1>11. ASSUME NEW p \in Daemons, CleanReadiness(p)
      PROVE  LockInv'
  BY <1>11 DEF CleanReadiness, local
<1>12. ASSUME NEW p \in Daemons, RemoveGuard(p)
      PROVE  LockInv'
  BY <1>12 DEF RemoveGuard, Leave, local
<1>13. ASSUME NEW p \in Daemons, VerifyOwner(p)
      PROVE  LockInv'
  BY <1>13 DEF VerifyOwner, local
<1>14. ASSUME NEW p \in Daemons, RenameReadiness(p)
      PROVE  LockInv'
  BY <1>14 DEF RenameReadiness, local
<1>15. ASSUME NEW p \in Daemons, RecheckOwner(p)
      PROVE  LockInv'
  BY <1>15 DEF RecheckOwner, local
<1>16. ASSUME NEW p \in Daemons, Stop(p)
      PROVE  LockInv'
  BY <1>16 DEF Stop, local
<1>17. ASSUME NEW p \in Daemons, RemoveReadiness(p)
      PROVE  LockInv'
  BY <1>17 DEF RemoveReadiness, local
<1>18. ASSUME NEW p \in Daemons, ConfirmLock(p)
      PROVE  LockInv'
  BY <1>18 DEF ConfirmLock, local
<1>19. ASSUME NEW p \in Daemons, DropLock(p)
      PROVE  LockInv'
  <2>1. fresh' \in BOOLEAN
    BY <1>19, Zenon DEF DropLock
  <2> QED
    BY <1>19, <2>1 DEF DropLock, local
<1>20. ASSUME NEW p \in Daemons, LegacyStops(p)
      PROVE  LockInv'
  BY <1>20 DEF LegacyStops, local
<1>21. ASSUME NEW p \in Daemons, Die(p)
      PROVE  LockInv'
  BY <1>21 DEF Die, local
<1>22. CASE LockAges
  <2>1. fresh' \in BOOLEAN
    BY <1>22, Zenon DEF LockAges
  <2> QED
    BY <1>22, <2>1 DEF LockAges, local
<1>23. CASE OperatorRemovesGuard
  BY <1>23 DEF OperatorRemovesGuard, local
<1>24. CASE Inspector
  BY <1>24 DEF Inspector, InspectGuard, InspectLock, InspectOwner, InspectReadiness, InspectAgain, See, local
<1>25. CASE UNCHANGED lockVars
  BY <1>25 DEF lockVars, local
<1> HIDE DEF LockInv
<1> QED
  BY <1>1, <1>2, <1>3, <1>4, <1>5, <1>6, <1>7, <1>8, <1>9, <1>10, <1>11, <1>12, <1>13, <1>14, <1>15, <1>16, <1>17, <1>18, <1>19, <1>20, <1>21, <1>22, <1>23, <1>24, <1>25
     DEF Next, Acquire, Own

(* The invariant holds in every state.                                     *)
THEOREM LockInvariantHolds ==
    LockSpec => []LockInv
BY LockInvInit, LockInvStep, PTL DEF LockSpec

(* Files, processes and what they learned keep their types.                *)
THEOREM LockTypeCorrect ==
    LockSpec => []LockTypeOK
<1>1. LockInv => LockTypeOK
  BY DEF LockInv
<1> QED
  BY LockInvariantHolds, <1>1, PTL

(* A workspace never has two living owners.                                *)
THEOREM OneOwnerPerWorkspace ==
    LockSpec => []OneOwner
<1>1. LockInv => OneOwner
  BY DEF LockInv, OneOwner
<1> QED
  BY LockInvariantHolds, <1>1, PTL

(* No start that lives leaves the recovery guard behind.                   *)
THEOREM GuardsAreRemoved ==
    LockSpec => []GuardsAreLeftOnlyByDeath
<1>1. LockInv => GuardsAreLeftOnlyByDeath
  BY DEF LockInv, GuardsAreLeftOnlyByDeath, InRecovery
<1> QED
  BY LockInvariantHolds, <1>1, PTL

(* An inspection calls a daemon ready only if it is, or has died since.    *)
THEOREM InspectionsAreTrue ==
    LockSpec => InspectionIsTrue
<1> DEFINE Truthful ==
        view.step # "ready" /\ view'.step = "ready" =>
            LET p == view'.owner IN
            p \in alive => lock = p /\ at[p] \in {"recheck", "ready", "unready"}
<1>1. ASSUME LockInv, Next PROVE Truthful
  <2>1. CASE InspectReadiness
    BY <1>1, <2>1 DEF InspectReadiness, See, LockInv
  <2>2. CASE view'.step # "ready" \/ view' = view
    BY <2>2
  <2>3. CASE InspectGuard \/ InspectLock \/ InspectOwner \/ InspectAgain
    BY <2>3 DEF InspectGuard, InspectLock, InspectOwner, InspectAgain, See
  <2>4. ASSUME NEW p \in Daemons, Acquire(p) PROVE view' = view
    BY <2>4 DEF Acquire, Start, CheckGuard, Publish, OpenGuard, ReadOwner,
                JudgeOwner, JudgeAge, CompareLock, UnlinkLock, ClaimLock,
                CleanReadiness, RemoveGuard
  <2>5. ASSUME NEW p \in Daemons, Own(p) \/ LegacyStops(p) \/ Die(p)
        PROVE  view' = view
    BY <2>5 DEF Own, VerifyOwner, RenameReadiness, RecheckOwner, Stop,
                RemoveReadiness, ConfirmLock, DropLock, LegacyStops, Die
  <2>6. LockAges \/ OperatorRemovesGuard => view' = view
    BY DEF LockAges, OperatorRemovesGuard
  <2> QED
    BY <1>1, <2>1, <2>2, <2>3, <2>4, <2>5, <2>6 DEF Next, Inspector
<1>2. LockInv /\ [Next]_lockVars => [Truthful]_lockVars
  BY <1>1
<1> QED
  BY LockInvariantHolds, <1>2, PTL DEF LockSpec, InspectionIsTrue

-----------------------------------------------------------------------------
(* The race of the starts.                                                 *)
Contenders == Daemons \ Legacy

(* A contender has, or had, the lock: a start that got it never ends       *)
(* refused or failed.                                                      *)
Won(p) ==
    \/ at[p] \in Owning \union {"stopped"}
    \/ at[p] = "unguard" /\ then[p] = "starting"

RaceIsWon == \E p \in Contenders : Won(p)

(* Nobody died, and an older daemon that had the lock has not stopped.     *)
Undisturbed == Contenders \subseteq alive /\ \A q \in Legacy : at[q] = "old"

(* Who turns away, or is about to, leaves somebody who will not: a winner, *)
(* the old owner, or the holder of the guard.                              *)
RaceInv ==
    Undisturbed =>
        /\ guard \in Contenders \union {Nobody}
        /\ lock \in Contenders => Won(lock)
        /\ \A p \in Contenders : at[p] \in {"judge", "age", "compare"} =>
              RaceIsWon \/ (found[p] \in Legacy /\ lock = found[p])
        /\ \A p \in Contenders :
              at[p] = "unguard" /\ then[p] # "starting" => RaceIsWon \/ lock \in Legacy
        /\ (\E p \in Contenders : at[p] \in {"refused", "failed"}) =>
              RaceIsWon \/ lock \in Legacy \/ guard \in Contenders

LEMMA RaceInvInit == Init => RaceInv
<1> SUFFICES ASSUME Init, Undisturbed PROVE RaceInv
  BY DEF RaceInv
<1>1. /\ \A p \in Contenders : at[p] = "down"
      /\ guard = Nobody
      /\ lock \notin Contenders
  BY DaemonsAssumption DEF Init, Contenders
<1> QED
  BY <1>1 DEF RaceInv

(* Whoever came before in an undisturbed race came there undisturbed.      *)
LEMMA UndisturbedBefore ==
    ASSUME LockInv, Next, Undisturbed'
    PROVE  Undisturbed /\ alive' = alive /\ \A p \in Daemons : ~Die(p)
<1> USE DaemonsAssumption DEF LockInv, LockTypeOK
<1>1. ASSUME NEW p \in Daemons, Die(p)
      PROVE  FALSE
  BY <1>1 DEF Die, Goto, Undisturbed, Contenders
<1>2. alive' = alive
  BY <1>1
     DEF Next, Acquire, Own, Start, CheckGuard, Publish, OpenGuard, ReadOwner,
         JudgeOwner, JudgeAge, CompareLock, UnlinkLock, ClaimLock, CleanReadiness,
         RemoveGuard, VerifyOwner, RenameReadiness, RecheckOwner, Stop,
         RemoveReadiness, ConfirmLock, DropLock, LegacyStops, LockAges,
         OperatorRemovesGuard, Inspector, InspectGuard, InspectLock, InspectOwner,
         InspectReadiness, InspectAgain, See
<1>3. ASSUME NEW q \in Daemons, at'[q] = "old"
      PROVE  at[q] = "old"
  <2>1. ASSUME NEW p \in Daemons, Acquire(p)
        PROVE  at[q] = "old"
    BY <1>3, <2>1
       DEF Acquire, Start, CheckGuard, Publish, Link, OpenGuard, ReadOwner, JudgeOwner,
           JudgeAge, CompareLock, UnlinkLock, ClaimLock, CleanReadiness, RemoveGuard,
           Leave, LeaveGuard, Goto, At
  <2>2. ASSUME NEW p \in Daemons, Own(p) \/ LegacyStops(p)
        PROVE  at[q] = "old"
    BY <1>3, <2>2
       DEF Own, VerifyOwner, RenameReadiness, RecheckOwner, Stop, RemoveReadiness,
           ConfirmLock, DropLock, LegacyStops, Goto, At
  <2>3. CASE LockAges \/ OperatorRemovesGuard \/ Inspector
    BY <1>3, <2>3
       DEF LockAges, OperatorRemovesGuard, Inspector, InspectGuard, InspectLock,
           InspectOwner, InspectReadiness, InspectAgain, See
  <2> QED
    BY <1>1, <2>1, <2>2, <2>3 DEF Next
<1> QED
  BY <1>1, <1>2, <1>3 DEF Undisturbed

(* A winner stays one as long as it lives.                                 *)
LEMMA WinnersStay ==
    ASSUME LockInv, Next, \A p \in Daemons : ~Die(p), NEW q \in Daemons, Won(q)
    PROVE  Won(q)'
<1> USE DEF LockInv, LockTypeOK, Won, Owning
<1>1. ASSUME NEW p \in Daemons, Acquire(p)
      PROVE  Won(q)'
  BY <1>1
     DEF Acquire, Start, CheckGuard, Publish, Link, OpenGuard, ReadOwner, JudgeOwner,
         JudgeAge, CompareLock, UnlinkLock, ClaimLock, CleanReadiness, RemoveGuard,
         Leave, LeaveGuard, Goto, At, local
<1>2. ASSUME NEW p \in Daemons, Own(p) \/ LegacyStops(p)
      PROVE  Won(q)'
  BY <1>2
     DEF Own, VerifyOwner, RenameReadiness, RecheckOwner, Stop, RemoveReadiness,
         ConfirmLock, DropLock, LegacyStops, Goto, At, local
<1>3. CASE LockAges \/ OperatorRemovesGuard \/ Inspector
  BY <1>3
     DEF LockAges, OperatorRemovesGuard, Inspector, InspectGuard, InspectLock,
         InspectOwner, InspectReadiness, InspectAgain, See, local
<1> QED
  BY <1>1, <1>2, <1>3 DEF Next

(* Every call of every process keeps it.                                   *)
LEMMA RaceStep ==
    ASSUME LockInv, RaceInv, Next
    PROVE  RaceInv'
<1> SUFFICES ASSUME Undisturbed'
             PROVE  RaceInv'
  BY DEF RaceInv
<1>a. /\ Undisturbed /\ alive' = alive
      /\ \A p \in Daemons : ~Die(p)
      /\ \A p \in Daemons : Won(p) => Won(p)'
      /\ Contenders \subseteq Daemons /\ Nobody \notin Contenders
  BY UndisturbedBefore, WinnersStay, DaemonsAssumption DEF Contenders
<1>b. RaceIsWon => RaceIsWon'
  BY <1>a DEF RaceIsWon
<1>c. \A p \in Contenders : Won(p)' => RaceIsWon'
  BY DEF RaceIsWon
<1>d. \A p \in Daemons : p \in Contenders \/ (at[p] = "old" /\ at'[p] = "old")
  BY <1>a DEF Undisturbed, Contenders
<1>e. \A p \in Contenders : p \in alive
  BY <1>a DEF Undisturbed
<1>f. \A p \in Legacy : p \in alive => lock = p
  BY <1>a, DaemonsAssumption DEF Undisturbed, LockInv, Owns
<1> USE <1>a, <1>b, <1>c, <1>d, <1>e, <1>f, DaemonsAssumption
    DEF RaceInv, LockInv, LockTypeOK, Files, InRecovery, Guarded, Owning, Goto, At,
        files
<1> HIDE DEF Undisturbed, RaceIsWon, Won
<1>1. ASSUME NEW p \in Daemons, Start(p)
      PROVE  RaceInv'
  BY <1>1 DEF Start, local, Won
<1>2. ASSUME NEW p \in Daemons, CheckGuard(p)
      PROVE  RaceInv'
  BY <1>2 DEF CheckGuard, local, Won
<1>3. ASSUME NEW p \in Daemons, Publish(p)
      PROVE  RaceInv'
  BY <1>3 DEF Publish, Link, local, Won
<1>4. ASSUME NEW p \in Daemons, OpenGuard(p)
      PROVE  RaceInv'
  BY <1>4 DEF OpenGuard, local, Won
<1>5. ASSUME NEW p \in Daemons, ReadOwner(p)
      PROVE  RaceInv'
  <2>1. lock \in Contenders => RaceIsWon'
    OBVIOUS
  <2>2. lock \in Legacy \/ lock \in Contenders \/ lock = Nobody
    BY DEF Contenders
  <2> QED
    BY <1>5, <2>1, <2>2 DEF ReadOwner, local, Won
<1>6. ASSUME NEW p \in Daemons, JudgeOwner(p)
      PROVE  RaceInv'
  BY <1>6 DEF JudgeOwner, LeaveGuard, local, Won
<1>7. ASSUME NEW p \in Daemons, JudgeAge(p)
      PROVE  RaceInv'
  BY <1>7 DEF JudgeAge, LeaveGuard, local, Won
<1>8. ASSUME NEW p \in Daemons, CompareLock(p)
      PROVE  RaceInv'
  BY <1>8 DEF CompareLock, LeaveGuard, local, Won
<1>9. ASSUME NEW p \in Daemons, UnlinkLock(p)
      PROVE  RaceInv'
  BY <1>9 DEF UnlinkLock, LeaveGuard, local, Won
<1>10. ASSUME NEW p \in Daemons, ClaimLock(p)
      PROVE  RaceInv'
  <2>1. lock \in Contenders => RaceIsWon'
    OBVIOUS
  <2>2. lock \in Legacy \/ lock \in Contenders \/ lock = Nobody
    BY DEF Contenders
  <2>3. CASE lock = Nobody
    <3>1. /\ lock' = p /\ at' = [at EXCEPT ![p] = "clean"]
          /\ UNCHANGED <<guard, found>>
          /\ then' = [then EXCEPT ![p] = "starting"]
          /\ p \in Contenders
      BY <1>10, <2>3 DEF ClaimLock, Link
    <3>2. Won(p)' /\ RaceIsWon'
      BY <3>1 DEF Won
    <3> QED
      BY <3>1, <3>2
  <2>4. CASE lock # Nobody
    <3>1. /\ lock' = lock /\ at' = [at EXCEPT ![p] = "unguard"]
          /\ UNCHANGED <<guard, found>>
          /\ \E next : then' = [then EXCEPT ![p] = next]
          /\ p \in Contenders
      BY <1>10, <2>4 DEF ClaimLock, LeaveGuard
    <3> QED
      BY <2>1, <2>2, <2>4, <3>1
  <2> QED
    BY <2>3, <2>4
<1>11. ASSUME NEW p \in Daemons, CleanReadiness(p)
      PROVE  RaceInv'
  BY <1>11 DEF CleanReadiness, local, Won
<1>12. ASSUME NEW p \in Daemons, RemoveGuard(p)
      PROVE  RaceInv'
  BY <1>12 DEF RemoveGuard, Leave, local, Won
<1>13. ASSUME NEW p \in Daemons, VerifyOwner(p)
      PROVE  RaceInv'
  BY <1>13 DEF VerifyOwner, local, Won
<1>14. ASSUME NEW p \in Daemons, RenameReadiness(p)
      PROVE  RaceInv'
  BY <1>14 DEF RenameReadiness, local, Won
<1>15. ASSUME NEW p \in Daemons, RecheckOwner(p)
      PROVE  RaceInv'
  BY <1>15 DEF RecheckOwner, local, Won
<1>16. ASSUME NEW p \in Daemons, Stop(p)
      PROVE  RaceInv'
  BY <1>16 DEF Stop, local, Won
<1>17. ASSUME NEW p \in Daemons, RemoveReadiness(p)
      PROVE  RaceInv'
  BY <1>17 DEF RemoveReadiness, local, Won
<1>18. ASSUME NEW p \in Daemons, ConfirmLock(p)
      PROVE  RaceInv'
  BY <1>18 DEF ConfirmLock, local, Won
<1>19. ASSUME NEW p \in Daemons, DropLock(p)
      PROVE  RaceInv'
  BY <1>19 DEF DropLock, local, Won
<1>20. ASSUME NEW p \in Daemons, LegacyStops(p)
      PROVE  RaceInv'
  BY <1>20 DEF LegacyStops, local, Won
<1>21. CASE LockAges
  BY <1>21 DEF LockAges, local, Won
<1>22. CASE OperatorRemovesGuard
  BY <1>22 DEF OperatorRemovesGuard, local, Won
<1>23. CASE Inspector
  BY <1>23 DEF Inspector, InspectGuard, InspectLock, InspectOwner, InspectReadiness,
            InspectAgain, See, local, Won
<1> HIDE DEF RaceInv, LockInv
<1> QED
  BY <1>1, <1>2, <1>3, <1>4, <1>5, <1>6, <1>7, <1>8, <1>9, <1>10, <1>11, <1>12, <1>13, <1>14, <1>15, <1>16, <1>17, <1>18, <1>19, <1>20, <1>21, <1>22, <1>23 DEF Next, Acquire, Own

LEMMA RaceInvariant == LockSpec => [](LockInv /\ RaceInv)
<1>1. LockInv /\ RaceInv /\ [Next]_lockVars => RaceInv'
  <2>1. ASSUME RaceInv, UNCHANGED lockVars
        PROVE  RaceInv'
    BY <2>1 DEF RaceInv, Undisturbed, RaceIsWon, Won, lockVars, files, local
  <2> QED
    BY <2>1, RaceStep
<1> QED
  BY <1>1, RaceInvInit, LockInvariantHolds, PTL DEF LockSpec

(* However many daemons contend for a workspace, they do not all turn each *)
(* other away: if every one of them lives and was refused or failed, a     *)
(* daemon of an older release had the lock.  The workspace has to have a   *)
(* contender at all, or there is no race.                                  *)
THEOREM StartRacesAreWon ==
    ASSUME Daemons \ Legacy # {}
    PROVE  LockSpec => []StartRaceIsWon
<1>1. ASSUME LockInv, RaceInv,
             \A p \in Daemons \ Legacy : p \in alive /\ at[p] \in {"refused", "failed"},
             \A q \in Legacy : lock # q /\ at[q] = "old"
      PROVE  FALSE
  <2>1. Undisturbed
    BY <1>1 DEF Undisturbed, Contenders
  <2>2. \E p \in Contenders : at[p] \in {"refused", "failed"}
    BY <1>1 DEF Contenders
  <2>3. ~RaceIsWon
    BY <1>1 DEF RaceIsWon, Won, Contenders, Owning
  <2>4. guard \in Contenders
    BY <1>1, <2>1, <2>2, <2>3 DEF RaceInv
  <2> QED
    BY <1>1, <2>4 DEF LockInv, InRecovery, Guarded, Contenders
<1>2. LockInv /\ RaceInv => StartRaceIsWon
  BY <1>1 DEF StartRaceIsWon
<1> QED
  BY <1>2, RaceInvariant, PTL
================================================================================
