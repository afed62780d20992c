-------------------------- MODULE GoalStoreWorkProofs --------------------------
(***************************************************************************)
(* What work means holds for every plan, budget and concurrency limit:     *)
(* units are worked on in the order and with the approvals of the plan,    *)
(* accepted for a verified attempt, and never revived.  From this it       *)
(* follows that the store implements GoalLifecycle.                        *)
(***************************************************************************)
EXTENDS GoalStoreProofs

-----------------------------------------------------------------------------
(* Nothing is revived.                                                     *)

(* The step invariants, as predicates on one step.                         *)
NothingRevived ==
    /\ goal \in {"achieved", "cancelled"} => goal' = goal
    /\ \A u \in Units : unit[u] = "accepted" => unit'[u] = "accepted"
    /\ \A a \in Attempts :
         attempt[a] \notin LiveStates \union {"none"} => attempt'[a] = attempt[a]

OperatorSettles ==
    \A u \in Units :
        unit[u] = "unknown-outcome" /\ unit'[u] # unit[u] =>
            "recover" \in approvals \ approvals'

(* A unit that does not run has no attempt to be released from, and        *)
(* neither have the units that are not there yet.                          *)
LEMMA IdleUnits ==
    ASSUME IndInv
    PROVE  /\ goal = "absent" => \A u \in Units : unit[u] = "absent"
           /\ \A u \in Units : unit[u] # "running" => current[u] \notin Attempts
           /\ \A u \in Units :
                planStatus[Revision[u]] = "proposed" => unit[u] = "absent"
           /\ \A a \in Attempts : attempt[a] # "none" => a <= used
  BY PlanAssumption
     DEF IndInv, TypeOK, AttemptsArePaidFor, LiveAttemptsOwnTheirUnit,
         OneApprovedPlan, RevisionsAreNumbered, Attempts, None

(* No transaction revives anything.                                        *)
LEMMA RevivalStep ==
    ASSUME IndInv, [Next]_vars
    PROVE  NothingRevived /\ OperatorSettles
<1>0. /\ unit \in [Units -> UnitStates]
      /\ attempt \in [Attempts -> AttemptStates]
      /\ expired \subseteq Attempts
      /\ used \in Nat
  BY BoundsAssumption DEF IndInv, TypeOK
<1> USE <1>0, IdleUnits
    DEF NothingRevived, OperatorSettles, planVars, unitVars, attemptVars,
        outboxVars, budgetVars
<1>1. CASE Create
  BY <1>1 DEF Create
<1>2. CASE CreateProposeApproveStart
  BY <1>2 DEF CreateProposeApproveStart
<1>3. CASE ProposePlan
  BY <1>3 DEF ProposePlan
<1>4. ASSUME NEW r \in Revisions, ApprovePlan(r)
      PROVE  NothingRevived /\ OperatorSettles
  BY <1>4 DEF ApprovePlan, Approved
<1>5. ASSUME NEW scope \in TokenScopes, IssueApproval(scope)
      PROVE  NothingRevived /\ OperatorSettles
  BY <1>5 DEF IssueApproval
<1>6. ASSUME NEW scope \in TokenScopes, ApprovalExpires(scope)
      PROVE  NothingRevived /\ OperatorSettles
  BY <1>6 DEF ApprovalExpires
<1>7. CASE StartGoal
  BY <1>7 DEF StartGoal, ConsumeApproval
<1>8. CASE ResumeGoal
  BY <1>8 DEF ResumeGoal, ConsumeApproval, Requeueable
<1>9. ASSUME NEW target \in RecoveryStates, RecoverUnknownOutcome(target)
      PROVE  NothingRevived /\ OperatorSettles
  BY <1>9 DEF RecoverUnknownOutcome, ConsumeApproval
<1>10. CASE PauseGoal
  BY <1>10 DEF PauseGoal, Fence, ActiveAttempts, Active, SettleAttempts,
     ReleaseUnits
<1>11. CASE CancelGoal
  BY <1>11 DEF CancelGoal, Fence, ActiveAttempts, Active, SettleAttempts,
     ReleaseUnits
<1>12. CASE RaiseBudget
  BY <1>12 DEF RaiseBudget, ConsumeApproval
<1>13. ASSUME NEW u \in Destructive, ApproveDestructiveUnit(u)
      PROVE  NothingRevived /\ OperatorSettles
  BY <1>13 DEF ApproveDestructiveUnit, ConsumeApproval
<1>14. CASE BlockExhaustedGoal
  BY <1>14 DEF BlockExhaustedGoal, ActiveAttempts, Active
<1>15. ASSUME NEW u \in Units, ClaimNextWork(u)
      PROVE  NothingRevived /\ OperatorSettles
  BY <1>15 DEF ClaimNextWork, Claimable
<1>16. ASSUME NEW batch \in SUBSET Attempts, ClaimOutbox(batch)
      PROVE  NothingRevived /\ OperatorSettles
  BY <1>16 DEF ClaimOutbox, Settleable, Active
<1>17. ASSUME NEW a \in Attempts, MarkDispatchStarted(a)
      PROVE  NothingRevived /\ OperatorSettles
  BY <1>17 DEF MarkDispatchStarted, Held, Settleable, Active
<1>18. ASSUME NEW a \in Attempts, MarkOutboxDelivered(a)
      PROVE  NothingRevived /\ OperatorSettles
  BY <1>18 DEF MarkOutboxDelivered, Deliver, Held, Settleable, Active
<1>19. ASSUME NEW a \in Attempts, RecordCleanDispatchFailure(a)
      PROVE  NothingRevived /\ OperatorSettles
  BY <1>19 DEF RecordCleanDispatchFailure, Release, Held, Settleable, Active
<1>20. ASSUME NEW a \in Attempts, RecordAmbiguousDispatchFailure(a)
      PROVE  NothingRevived /\ OperatorSettles
  BY <1>20 DEF RecordAmbiguousDispatchFailure, Release, Held, Settleable,
     Active
<1>21. ASSUME NEW a \in Attempts, RecordProbeAbsent(a)
      PROVE  NothingRevived /\ OperatorSettles
  BY <1>21 DEF RecordProbeAbsent, Release, Held, Settleable, Active
<1>22. ASSUME NEW a \in Attempts, RecordProbeFound(a)
      PROVE  NothingRevived /\ OperatorSettles
  BY <1>22 DEF RecordProbeFound, Deliver, Held, Settleable, Active
<1>23. ASSUME NEW a \in Attempts, RecordProbeUnknown(a)
      PROVE  NothingRevived /\ OperatorSettles
  BY <1>23 DEF RecordProbeUnknown, Held, Settleable, Active, SettleAttempts,
     ReleaseUnits
<1>24. ASSUME NEW a \in Attempts, RecordLateDispatchReference(a)
      PROVE  NothingRevived /\ OperatorSettles
  BY <1>24 DEF RecordLateDispatchReference
<1>25. CASE FinalizeGoal
  BY <1>25 DEF FinalizeGoal, ActiveAttempts, Active, SettleAttempts,
     ReleaseUnits
<1>26. ASSUME NEW result \in {"passed", "failed"},
               RecordFinalVerificationResult(result)
      PROVE  NothingRevived /\ OperatorSettles
  BY <1>26 DEF RecordFinalVerificationResult
<1>27. ASSUME NEW a \in Attempts, NEW result \in {"passed", "failed"},
               RecordVerificationResult(a, result)
      PROVE  NothingRevived /\ OperatorSettles
  BY <1>27 DEF RecordVerificationResult, Reconciled, Settleable, Active
<1>28. ASSUME NEW a \in Attempts, ReportCompleted(a)
      PROVE  NothingRevived /\ OperatorSettles
  BY <1>28 DEF ReportCompleted, Settle, Reconciled, Settleable, Active,
     SettleAttempts, ReleaseUnits
<1>29. ASSUME NEW a \in Attempts, ReportAmbiguous(a)
      PROVE  NothingRevived /\ OperatorSettles
  BY <1>29 DEF ReportAmbiguous, Settle, Reconciled, Settleable, Active,
     SettleAttempts, ReleaseUnits
<1>30. ASSUME NEW a \in Attempts, NEW target \in {"awaiting-decision",
               "blocked", "needs-replan"}, ReportEscalated(a, target)
      PROVE  NothingRevived /\ OperatorSettles
  BY <1>30 DEF ReportEscalated, Settle, Reconciled, Settleable, Active,
     SettleAttempts, ReleaseUnits
<1>31. ASSUME NEW a \in Attempts, ReportRequeued(a)
      PROVE  NothingRevived /\ OperatorSettles
  BY <1>31 DEF ReportRequeued, Settle, Reconciled, Settleable, Active,
     SettleAttempts, ReleaseUnits
<1>32. ASSUME NEW a \in Attempts, PersistCancellationExternalReference(a)
      PROVE  NothingRevived /\ OperatorSettles
  BY <1>32 DEF PersistCancellationExternalReference
<1>33. ASSUME NEW a \in Attempts, AcknowledgeCancellationRequest(a)
      PROVE  NothingRevived /\ OperatorSettles
  BY <1>33 DEF AcknowledgeCancellationRequest
<1>34. CASE RecoverExpiredAttempts
  BY <1>34 DEF RecoverExpiredAttempts, Overdue
<1>35. CASE RecoverExpiredOutboxLeases
  BY <1>35 DEF RecoverExpiredOutboxLeases, Settleable, Active
<1>36. ASSUME NEW a \in Attempts, AttemptLeaseExpires(a)
      PROVE  NothingRevived /\ OperatorSettles
  BY <1>36 DEF AttemptLeaseExpires
<1>37. ASSUME NEW a \in Attempts, DispatcherLeaseExpires(a)
      PROVE  NothingRevived /\ OperatorSettles
  BY <1>37 DEF DispatcherLeaseExpires
<1>38. CASE UNCHANGED vars
  BY <1>38 DEF vars
<1> QED
  BY <1>1, <1>2, <1>3, <1>4, <1>5, <1>6, <1>7, <1>8, <1>9, <1>10, <1>11, <1>12,
     <1>13, <1>14, <1>15, <1>16, <1>17, <1>18, <1>19, <1>20, <1>21, <1>22,
     <1>23, <1>24, <1>25, <1>26, <1>27, <1>28, <1>29, <1>30, <1>31, <1>32,
     <1>33, <1>34, <1>35, <1>36, <1>37, <1>38
     DEF Next, Operator, Dispatcher, Reconciler, Recovery, Time

(* What is settled stays settled.                                          *)
THEOREM SettledStaysSettled ==
    Spec => NothingIsRevived
<1>1. IndInv /\ [Next]_vars => [NothingRevived]_vars
  BY RevivalStep
<1> QED
  BY InvariantHolds, <1>1, PTL DEF Spec, NothingIsRevived, NothingRevived

(* Work of unknown outcome waits for an operator.                          *)
THEOREM UnknownWorkWaitsForOperator ==
    Spec => OnlyOperatorSettlesUnknownWork
<1>1. IndInv /\ [Next]_vars => [OperatorSettles]_vars
  BY RevivalStep
<1> QED
  BY InvariantHolds, <1>1, PTL
     DEF Spec, OnlyOperatorSettlesUnknownWork, OperatorSettles

-----------------------------------------------------------------------------
(* What accepted and achieved mean.                                        *)

(* A succeeded attempt is a verified one, of an accepted unit.             *)
WorkFacts ==
    /\ \A a \in Attempts : attempt[a] # "none" => unitOf[a] \in Units
    /\ \A a \in Attempts : attempt[a] = "succeeded" =>
         unit[unitOf[a]] = "accepted" /\ verified[a] = "passed"
    /\ WorkRespectsPlan
    /\ AcceptedMeansVerified
    /\ AchievementIsFinal

(* A step in which nothing starts, is accepted or is achieved.             *)
Uneventful ==
    /\ unitOf' = unitOf
    /\ \A a \in Attempts :
         /\ attempt'[a] = "none" <=> attempt[a] = "none"
         /\ attempt'[a] = "succeeded" <=> attempt[a] = "succeeded"
         /\ attempt'[a] \in LiveStates => attempt[a] \in LiveStates
         /\ verified[a] = "passed" => verified'[a] = "passed"
    /\ \A u \in Units : unit'[u] = "accepted" <=> unit[u] = "accepted"
    /\ destructiveApproved \subseteq destructiveApproved'
    /\ goal' = "achieved" =>
         goal = "achieved" /\ UNCHANGED <<activePlan, finalResult>>

(* Such a step keeps what work means.                                      *)
LEMMA UneventfulStep ==
    ASSUME IndInv, WorkFacts, Uneventful
    PROVE  WorkFacts'
<1>1. /\ \A a \in Attempts : attempt'[a] # "none" => unitOf'[a] \in Units
      /\ \A a \in Attempts : attempt'[a] = "succeeded" =>
           unit'[unitOf'[a]] = "accepted" /\ verified'[a] = "passed"
  BY DEF WorkFacts, Uneventful
<1>2. WorkRespectsPlan'
  BY PlanAssumption DEF WorkFacts, Uneventful, WorkRespectsPlan
<1>3. AcceptedMeansVerified'
  BY DEF WorkFacts, Uneventful, AcceptedMeansVerified
<1>4. AchievementIsFinal'
  <2>1. goal' = "achieved" => ActiveAttempts' = {}
    <3>1. goal' = "achieved" => \A a \in Attempts : attempt[a] \notin LiveStates
      BY DEF WorkFacts, Uneventful, AchievementIsFinal, ActiveAttempts, IndInv,
             LiveAttemptsOwnTheirUnit
    <3> QED
      BY <3>1 DEF Uneventful, ActiveAttempts, Active
  <2> QED
    BY <2>1, PlanAssumption DEF WorkFacts, Uneventful, AchievementIsFinal
<1> QED
  BY <1>1, <1>2, <1>3, <1>4 DEF WorkFacts

(* A claim works in the order and with the approvals of the plan.          *)
LEMMA ClaimedWorkIsInOrder ==
    ASSUME IndInv, WorkFacts, NEW u \in Units, ClaimNextWork(u)
    PROVE  WorkFacts'
<1>1. PICK a \in Attempts : a = used + 1 /\ attempt[a] = "none"
  BY BoundsAssumption
     DEF ClaimNextWork, BudgetLeft, TypeOK, IndInv, AttemptsArePaidFor, Attempts
<1>2. /\ goal' = "executing"
      /\ UNCHANGED <<destructiveApproved, verified>>
      /\ \A b \in Attempts : /\ attempt'[b] = IF b = a THEN "leased" ELSE attempt[b]
                             /\ unitOf'[b] = IF b = a THEN u ELSE unitOf[b]
      /\ \A v \in Units : unit'[v] = "accepted" <=> unit[v] = "accepted"
  BY <1>1 DEF ClaimNextWork, Claimable, IndInv, TypeOK
<1>3. /\ u \in Destructive => u \in destructiveApproved
      /\ \A d \in Deps[u] : unit[d] = "accepted"
  BY DEF ClaimNextWork, Claimable
<1>4. WorkRespectsPlan'
  BY <1>1, <1>2, <1>3, PlanAssumption DEF WorkFacts, WorkRespectsPlan
<1>5. AcceptedMeansVerified'
  BY <1>1, <1>2 DEF WorkFacts, AcceptedMeansVerified
<1>6. AchievementIsFinal'
  BY <1>2 DEF AchievementIsFinal
<1> QED
  BY <1>1, <1>2, <1>4, <1>5, <1>6 DEF WorkFacts

(* The attempt that completes a unit is the only one that ever did: the    *)
(* unit was still running.                                                 *)
LEMMA CompletedWorkIsVerified ==
    ASSUME IndInv, WorkFacts, NEW a \in Attempts, ReportCompleted(a)
    PROVE  WorkFacts'
<1>1. /\ attempt[a] \in LiveStates /\ unitOf[a] \in Units /\ current[unitOf[a]] = a
      /\ verified[a] = "passed"
      /\ goal' = "executing"
      /\ UNCHANGED <<unitOf, verified, destructiveApproved>>
      /\ \A b \in Attempts : attempt'[b] = IF b = a THEN "succeeded" ELSE attempt[b]
  BY DEF ReportCompleted, Verified, Settle, Reconciled, Settleable, Active,
         SettleAttempts
<1>2. \A v \in Units : unit'[v] = IF v = unitOf[a] THEN "accepted" ELSE unit[v]
  <2>1. \A v \in Units : current[v] = a <=> v = unitOf[a]
    BY <1>1 DEF IndInv, LiveAttemptsOwnTheirUnit, Attempts, None
  <2> QED
    BY <2>1 DEF ReportCompleted, Settle, ReleaseUnits
<1>3. unit[unitOf[a]] = "running"
  BY <1>1 DEF IndInv, LiveAttemptsOwnTheirUnit, Attempts, None
<1>4. WorkRespectsPlan'
  BY <1>1, <1>2, PlanAssumption DEF WorkFacts, WorkRespectsPlan, LiveStates
<1>5. AcceptedMeansVerified'
  <2> SUFFICES ASSUME NEW v \in Units, unit'[v] = "accepted"
               PROVE  \E b \in Attempts :
                        /\ unitOf'[b] = v
                        /\ attempt'[b] = "succeeded"
                        /\ verified'[b] = "passed"
                        /\ \A c \in Attempts :
                             unitOf'[c] = v /\ attempt'[c] = "succeeded" => c = b
    BY DEF AcceptedMeansVerified
  <2>1. CASE v = unitOf[a]
    BY <1>1, <1>3, <2>1 DEF WorkFacts
  <2>2. CASE v # unitOf[a]
    BY <1>1, <1>2, <2>2 DEF WorkFacts, AcceptedMeansVerified
  <2> QED
    BY <2>1, <2>2
<1>6. AchievementIsFinal'
  BY <1>1 DEF AchievementIsFinal
<1> QED
  BY <1>1, <1>2, <1>4, <1>5, <1>6 DEF WorkFacts, LiveStates

(* Achievement stops the optional work that is still going on and finds    *)
(* the rest accepted.                                                      *)
LEMMA AchievedWorkIsDone ==
    ASSUME IndInv, WorkFacts, FinalizeGoal
    PROVE  WorkFacts'
<1>1. /\ UNCHANGED <<unitOf, verified, destructiveApproved, activePlan, finalResult>>
      /\ \A a \in Attempts : attempt'[a] = IF a \in ActiveAttempts THEN "cancelled"
                                           ELSE attempt[a]
      /\ finalResult[activePlan] = "passed"
  BY DEF FinalizeGoal, SettleAttempts, planVars
<1>2. \A a \in Attempts : a \in ActiveAttempts <=> attempt[a] \in LiveStates
  BY DEF IndInv, LiveAttemptsOwnTheirUnit, ActiveAttempts, Active
<1>3. \A u \in Units : unit'[u] = "accepted" <=> unit[u] = "accepted"
  BY IdleUnits DEF FinalizeGoal, ReleaseUnits, ActiveAttempts
<1>4. WorkRespectsPlan'
  BY <1>1, <1>2, <1>3, PlanAssumption DEF WorkFacts, WorkRespectsPlan, LiveStates
<1>5. AcceptedMeansVerified'
  BY <1>1, <1>2, <1>3 DEF WorkFacts, AcceptedMeansVerified, LiveStates
<1>6. AchievementIsFinal'
  <2>1. \A u \in Required : Revision[u] = activePlan => unit[u] = "accepted"
    BY PlanAssumption DEF FinalizeGoal, RequiredWorkAccepted, UnitsOfPlan
  <2>2. ActiveAttempts' = {}
    BY <1>1, <1>2 DEF ActiveAttempts, Active, LiveStates
  <2> QED
    BY <1>1, <1>3, <2>1, <2>2, PlanAssumption DEF AchievementIsFinal
<1> QED
  BY <1>1, <1>2, <1>3, <1>4, <1>5, <1>6 DEF WorkFacts, LiveStates

(* Every transaction keeps what work means.                                *)
LEMMA WorkStep ==
    ASSUME IndInv, WorkFacts, [Next]_vars
    PROVE  WorkFacts'
<1>0. /\ unit \in [Units -> UnitStates]
      /\ attempt \in [Attempts -> AttemptStates]
      /\ verified \in [Attempts -> {"none", "passed", "failed"}]
      /\ expired \subseteq Attempts
      /\ used \in Nat
  BY BoundsAssumption DEF IndInv, TypeOK
<1> USE <1>0, IdleUnits, UneventfulStep
    DEF Uneventful, LiveStates, planVars, unitVars, attemptVars, outboxVars,
        budgetVars
<1>1. CASE Create
  BY <1>1 DEF Create
<1>2. CASE CreateProposeApproveStart
  BY <1>2 DEF CreateProposeApproveStart
<1>3. CASE ProposePlan
  BY <1>3 DEF ProposePlan
<1>4. ASSUME NEW r \in Revisions, ApprovePlan(r)
      PROVE  WorkFacts'
  BY <1>4 DEF ApprovePlan, Approved
<1>5. ASSUME NEW scope \in TokenScopes, IssueApproval(scope)
      PROVE  WorkFacts'
  BY <1>5 DEF IssueApproval
<1>6. ASSUME NEW scope \in TokenScopes, ApprovalExpires(scope)
      PROVE  WorkFacts'
  BY <1>6 DEF ApprovalExpires
<1>7. CASE StartGoal
  BY <1>7 DEF StartGoal, ConsumeApproval
<1>8. CASE ResumeGoal
  BY <1>8 DEF ResumeGoal, ConsumeApproval, Requeueable
<1>9. ASSUME NEW target \in RecoveryStates, RecoverUnknownOutcome(target)
      PROVE  WorkFacts'
  BY <1>9 DEF RecoverUnknownOutcome, RecoveryStates
<1>10. CASE PauseGoal
  BY <1>10 DEF PauseGoal, Fence, ActiveAttempts, Active, SettleAttempts,
     ReleaseUnits
<1>11. CASE CancelGoal
  BY <1>11 DEF CancelGoal, Fence, ActiveAttempts, Active, SettleAttempts,
     ReleaseUnits
<1>12. CASE RaiseBudget
  BY <1>12 DEF RaiseBudget, ConsumeApproval
<1>13. ASSUME NEW u \in Destructive, ApproveDestructiveUnit(u)
      PROVE  WorkFacts'
  BY <1>13 DEF ApproveDestructiveUnit, ConsumeApproval
<1>14. CASE BlockExhaustedGoal
  BY <1>14 DEF BlockExhaustedGoal, ActiveAttempts, Active
<1>15. ASSUME NEW u \in Units, ClaimNextWork(u)
      PROVE  WorkFacts'
  BY <1>15, ClaimedWorkIsInOrder
<1>16. ASSUME NEW batch \in SUBSET Attempts, ClaimOutbox(batch)
      PROVE  WorkFacts'
  BY <1>16 DEF ClaimOutbox, Settleable, Active
<1>17. ASSUME NEW a \in Attempts, MarkDispatchStarted(a)
      PROVE  WorkFacts'
  BY <1>17 DEF MarkDispatchStarted, Held, Settleable, Active
<1>18. ASSUME NEW a \in Attempts, MarkOutboxDelivered(a)
      PROVE  WorkFacts'
  BY <1>18 DEF MarkOutboxDelivered, Deliver, Held, Settleable, Active
<1>19. ASSUME NEW a \in Attempts, RecordCleanDispatchFailure(a)
      PROVE  WorkFacts'
  BY <1>19 DEF RecordCleanDispatchFailure, Release, Held, Settleable, Active
<1>20. ASSUME NEW a \in Attempts, RecordAmbiguousDispatchFailure(a)
      PROVE  WorkFacts'
  BY <1>20 DEF RecordAmbiguousDispatchFailure, Release, Held, Settleable,
     Active
<1>21. ASSUME NEW a \in Attempts, RecordProbeAbsent(a)
      PROVE  WorkFacts'
  BY <1>21 DEF RecordProbeAbsent, Release, Held, Settleable, Active
<1>22. ASSUME NEW a \in Attempts, RecordProbeFound(a)
      PROVE  WorkFacts'
  BY <1>22 DEF RecordProbeFound, Deliver, Held, Settleable, Active
<1>23. ASSUME NEW a \in Attempts, RecordProbeUnknown(a)
      PROVE  WorkFacts'
  BY <1>23 DEF RecordProbeUnknown, Held, Settleable, Active, SettleAttempts,
     ReleaseUnits
<1>24. ASSUME NEW a \in Attempts, RecordLateDispatchReference(a)
      PROVE  WorkFacts'
  BY <1>24 DEF RecordLateDispatchReference
<1>25. CASE FinalizeGoal
  BY <1>25, AchievedWorkIsDone
<1>26. ASSUME NEW result \in {"passed", "failed"},
               RecordFinalVerificationResult(result)
      PROVE  WorkFacts'
  BY <1>26 DEF RecordFinalVerificationResult
<1>27. ASSUME NEW a \in Attempts, NEW result \in {"passed", "failed"},
               RecordVerificationResult(a, result)
      PROVE  WorkFacts'
  BY <1>27 DEF RecordVerificationResult, Reconciled, Settleable, Active
<1>28. ASSUME NEW a \in Attempts, ReportCompleted(a)
      PROVE  WorkFacts'
  BY <1>28, CompletedWorkIsVerified
<1>29. ASSUME NEW a \in Attempts, ReportAmbiguous(a)
      PROVE  WorkFacts'
  BY <1>29 DEF ReportAmbiguous, Settle, Reconciled, Settleable, Active,
     SettleAttempts, ReleaseUnits
<1>30. ASSUME NEW a \in Attempts, NEW target \in {"awaiting-decision",
               "blocked", "needs-replan"}, ReportEscalated(a, target)
      PROVE  WorkFacts'
  BY <1>30 DEF ReportEscalated, Settle, Reconciled, Settleable, Active,
     SettleAttempts, ReleaseUnits
<1>31. ASSUME NEW a \in Attempts, ReportRequeued(a)
      PROVE  WorkFacts'
  BY <1>31 DEF ReportRequeued, Settle, Reconciled, Settleable, Active,
     SettleAttempts, ReleaseUnits
<1>32. ASSUME NEW a \in Attempts, PersistCancellationExternalReference(a)
      PROVE  WorkFacts'
  BY <1>32 DEF PersistCancellationExternalReference
<1>33. ASSUME NEW a \in Attempts, AcknowledgeCancellationRequest(a)
      PROVE  WorkFacts'
  BY <1>33 DEF AcknowledgeCancellationRequest
<1>34. CASE RecoverExpiredAttempts
  BY <1>34 DEF RecoverExpiredAttempts, Overdue
<1>35. CASE RecoverExpiredOutboxLeases
  BY <1>35 DEF RecoverExpiredOutboxLeases, Settleable, Active
<1>36. ASSUME NEW a \in Attempts, AttemptLeaseExpires(a)
      PROVE  WorkFacts'
  BY <1>36 DEF AttemptLeaseExpires
<1>37. ASSUME NEW a \in Attempts, DispatcherLeaseExpires(a)
      PROVE  WorkFacts'
  BY <1>37 DEF DispatcherLeaseExpires
<1>38. CASE UNCHANGED vars
  BY <1>38 DEF vars
<1> QED
  BY <1>1, <1>2, <1>3, <1>4, <1>5, <1>6, <1>7, <1>8, <1>9, <1>10, <1>11, <1>12,
     <1>13, <1>14, <1>15, <1>16, <1>17, <1>18, <1>19, <1>20, <1>21, <1>22,
     <1>23, <1>24, <1>25, <1>26, <1>27, <1>28, <1>29, <1>30, <1>31, <1>32,
     <1>33, <1>34, <1>35, <1>36, <1>37, <1>38
     DEF Next, Operator, Dispatcher, Reconciler, Recovery, Time

(* Work means what it says in every state.                                 *)
THEOREM WorkMeansWhatItSays ==
    Spec => []WorkFacts
<1>1. Init => WorkFacts
  BY DEF Init, WorkFacts, WorkRespectsPlan, AcceptedMeansVerified,
         AchievementIsFinal
<1> QED
  BY <1>1, InvariantHolds, WorkStep, PTL DEF Spec

(* Whatever is retried, replanned or recovered, no unit is worked on       *)
(* before what it depends on is accepted and, if it is destructive,        *)
(* approved.                                                               *)
THEOREM PlanOrderIsKept ==
    Spec => []WorkRespectsPlan
<1>1. WorkFacts => WorkRespectsPlan
  BY DEF WorkFacts
<1> QED
  BY WorkMeansWhatItSays, <1>1, PTL

(* A unit is accepted for exactly one succeeded attempt, whose             *)
(* verification passed.                                                    *)
THEOREM AcceptanceIsEarned ==
    Spec => []AcceptedMeansVerified
<1>1. WorkFacts => AcceptedMeansVerified
  BY DEF WorkFacts
<1> QED
  BY WorkMeansWhatItSays, <1>1, PTL

(* A goal is achieved with its required work accepted, its final           *)
(* verification passed and nothing left running.                           *)
THEOREM AchievementIsEarned ==
    Spec => []AchievementIsFinal
<1>1. WorkFacts => AchievementIsFinal
  BY DEF WorkFacts
<1> QED
  BY WorkMeansWhatItSays, <1>1, PTL

-----------------------------------------------------------------------------
(* GoalStore implements GoalLifecycle: each transaction is a transition    *)
(* the lifecycle allows, or changes nothing that it sees.                  *)

(* What carries the mapping of "proven": a plan has a final result only    *)
(* after it was approved and all of its required work was accepted.        *)
FinalResultsFollowWork ==
    /\ \A r \in Revisions : finalResult[r] # "none" =>
           planStatus[r] \in {"approved", "superseded"}
    /\ activePlan # None /\ finalResult[activePlan] # "none" => RequiredWorkAccepted

(* The lifecycle's step, by its name in the store's words.                 *)
LifecycleStep == Lifecycle!Next \/ UNCHANGED Lifecycle!vars

-----------------------------------------------------------------------------
(* Whatever leaves the plan and its final result alone leaves the proof of *)
(* the plan alone, because accepted work stays accepted.                   *)
LEMMA ProofIsKept ==
    ASSUME IndInv, FinalResultsFollowWork, [Next]_vars,
           UNCHANGED <<activePlan, planStatus, finalResult>>
    PROVE  FinalResultsFollowWork' /\ PlanIsProven' = PlanIsProven
<1>1. \A u \in Units : unit[u] = "accepted" => unit'[u] = "accepted"
  BY RevivalStep DEF NothingRevived
<1>2. RequiredWorkAccepted => RequiredWorkAccepted'
  BY <1>1 DEF RequiredWorkAccepted, UnitsOfPlan
<1>3. FinalResultsFollowWork'
  BY <1>2 DEF FinalResultsFollowWork
<1>4. PlanIsProven' <=> PlanIsProven
  BY <1>2 DEF PlanIsProven, FinalResultsFollowWork
<1>5. PlanIsProven' \in BOOLEAN /\ PlanIsProven \in BOOLEAN
  BY Zenon DEF PlanIsProven
<1> QED
  BY <1>3, <1>4, <1>5

(* An adopted plan has no final result yet.                                *)
LEMMA AdoptionForgets ==
    ASSUME IndInv, FinalResultsFollowWork, NEW r \in Revisions,
           finalResult[r] = "none",
           activePlan' = r, finalResult' = finalResult,
           \A q \in Revisions \ {r} :
               planStatus[q] \in {"approved", "superseded"} =>
                   planStatus'[q] \in {"approved", "superseded"}
    PROVE  FinalResultsFollowWork' /\ PlanIsProven' = FALSE
<1>1. FinalResultsFollowWork'
  BY DEF FinalResultsFollowWork
<1>2. ~ PlanIsProven'
  BY DEF PlanIsProven
<1>3. PlanIsProven' \in BOOLEAN
  BY Zenon DEF PlanIsProven
<1> QED
  BY <1>1, <1>2, <1>3

LEMMA LaunchIsAllowed ==
    ASSUME IndInv, FinalResultsFollowWork, CreateProposeApproveStart
    PROVE  FinalResultsFollowWork' /\ LifecycleStep
<1>1. /\ 1 \in Revisions
      /\ finalResult[1] = "none"
      /\ \A q \in Revisions : planStatus[q] = "none"
  BY BoundsAssumption
     DEF IndInv, TypeOK, Revisions, RevisionsAreNumbered,
         CreateProposeApproveStart,
         FinalResultsFollowWork
<1>2. FinalResultsFollowWork' /\ PlanIsProven' = FALSE
  BY <1>1, AdoptionForgets DEF CreateProposeApproveStart
<1>3. Lifecycle!Launch
  BY <1>1, <1>2 DEF CreateProposeApproveStart, Lifecycle!Launch, Lifecycle!Adopt
<1> QED
  BY <1>2, <1>3 DEF LifecycleStep, Lifecycle!Next

LEMMA ProposalIsInvisible ==
    ASSUME IndInv, FinalResultsFollowWork, [Next]_vars, ProposePlan
    PROVE  FinalResultsFollowWork' /\ LifecycleStep
<1>1. /\ LatestRevision + 1 \in Revisions
      /\ planStatus[LatestRevision + 1] = "none"
      /\ finalResult[LatestRevision + 1] = "none"
  <2>1. LatestRevision \in Nat
    BY RevisionsInUse
  <2>2. LatestRevision + 1 \in Revisions
    BY <2>1, BoundsAssumption DEF ProposePlan, Revisions
  <2> HIDE DEF LatestRevision
  <2> QED
    BY <2>1, <2>2
       DEF IndInv, TypeOK, RevisionsAreNumbered, FinalResultsFollowWork
<1> HIDE DEF LatestRevision
<1>2. \A u \in Units : unit'[u] = unit[u]
  BY DEF ProposePlan, unitVars
<1>3. RequiredWorkAccepted' <=> RequiredWorkAccepted
  BY <1>2 DEF ProposePlan, RequiredWorkAccepted, UnitsOfPlan
<1>4. FinalResultsFollowWork'
  BY <1>1, <1>3 DEF ProposePlan, FinalResultsFollowWork, IndInv, TypeOK
<1>5. PlanIsProven' = PlanIsProven
  <2>1. PlanIsProven' <=> PlanIsProven
    BY <1>3 DEF ProposePlan, PlanIsProven
  <2>2. PlanIsProven' \in BOOLEAN /\ PlanIsProven \in BOOLEAN
    BY Zenon DEF PlanIsProven
  <2> QED
    BY <2>1, <2>2
<1>6. UNCHANGED Lifecycle!vars
  BY <1>5 DEF ProposePlan, Lifecycle!vars
<1> QED
  BY <1>4, <1>6 DEF LifecycleStep

LEMMA ApprovalIsAllowed ==
    ASSUME IndInv, FinalResultsFollowWork, NEW r \in Revisions, ApprovePlan(r)
    PROVE  FinalResultsFollowWork' /\ LifecycleStep
<1>1. finalResult[r] = "none" /\ planStatus[r] = "proposed"
  BY DEF ApprovePlan, FinalResultsFollowWork
<1>2. \A q \in Revisions \ {r} :
          planStatus[q] \in {"approved", "superseded"} =>
              planStatus'[q] \in {"approved", "superseded"}
  BY DEF ApprovePlan, Approved
<1>3. FinalResultsFollowWork' /\ PlanIsProven' = FALSE
  BY <1>1, <1>2, AdoptionForgets DEF ApprovePlan
<1>4. r > activePlan
  <2>1. activePlan = None \/ (activePlan \in Revisions /\ planStatus[activePlan] = "approved")
    BY DEF IndInv, TypeOK, OneApprovedPlan
  <2>2. activePlan \in Revisions => activePlan <= LatestRevision
    BY <2>1 DEF IndInv, RevisionsAreNumbered, None, Revisions
  <2>3. r = LatestRevision /\ r \in Nat /\ r > 0
    BY BoundsAssumption DEF ApprovePlan, Revisions
  <2> HIDE DEF LatestRevision
  <2> QED
    BY <1>1, <2>1, <2>2, <2>3, BoundsAssumption DEF Revisions, None
<1>5. Lifecycle!PlanReady
  BY <1>3, <1>4 DEF ApprovePlan, Lifecycle!PlanReady, Lifecycle!Adopt
<1> QED
  BY <1>3, <1>5 DEF LifecycleStep, Lifecycle!Next

(* The final verification is what proves a plan.                           *)
LEMMA FinalResultIsAllowed ==
    ASSUME IndInv, FinalResultsFollowWork, NEW result \in {"passed", "failed"},
           RecordFinalVerificationResult(result)
    PROVE  FinalResultsFollowWork' /\ LifecycleStep
<1>1. /\ activePlan \in Revisions
      /\ planStatus[activePlan] = "approved"
      /\ finalResult \in [Revisions -> {"none", "passed", "failed"}]
  BY DEF RecordFinalVerificationResult, IndInv, TypeOK, OneApprovedPlan
<1>2. RequiredWorkAccepted /\ RequiredWorkAccepted'
  BY DEF RecordFinalVerificationResult, RequiredWorkAccepted, UnitsOfPlan,
     unitVars
<1>3. FinalResultsFollowWork'
  BY <1>1, <1>2 DEF RecordFinalVerificationResult, FinalResultsFollowWork
<1>4. PlanIsProven' \in BOOLEAN /\ PlanIsProven \in BOOLEAN
  BY Zenon DEF PlanIsProven
<1>5. CASE result = "passed"
  <2>1. PlanIsProven' = TRUE
    BY <1>1, <1>2, <1>4, <1>5 DEF RecordFinalVerificationResult, PlanIsProven
  <2>2. Lifecycle!Prove
    BY <2>1 DEF RecordFinalVerificationResult, Lifecycle!Prove, None, Lifecycle!NoPlan
  <2> QED
    BY <1>3, <2>2 DEF LifecycleStep, Lifecycle!Next
<1>6. CASE result = "failed"
  <2>1. PlanIsProven' = PlanIsProven
    BY <1>1, <1>4, <1>6 DEF RecordFinalVerificationResult, PlanIsProven
  <2>2. UNCHANGED Lifecycle!vars
    BY <2>1 DEF RecordFinalVerificationResult, Lifecycle!vars
  <2> QED
    BY <1>3, <2>2 DEF LifecycleStep
<1> QED
  BY <1>5, <1>6

-----------------------------------------------------------------------------
(* The goal moves by the transition named, or not at all.                  *)
LEMMA ActionIsAllowed ==
    ASSUME IndInv, FinalResultsFollowWork, [Next]_vars,
           UNCHANGED <<activePlan, planStatus, finalResult>>,
           PlanIsProven' = PlanIsProven =>
               \/ Lifecycle!Next
               \/ UNCHANGED <<goal, approvals>>
    PROVE  FinalResultsFollowWork' /\ LifecycleStep
BY ProofIsKept DEF LifecycleStep, Lifecycle!vars

(* Every transaction is a transition of the lifecycle.                     *)
LEMMA LifecycleImplemented ==
    ASSUME IndInv, FinalResultsFollowWork, [Next]_vars
    PROVE  FinalResultsFollowWork' /\ LifecycleStep
<1> USE DEF planVars, Lifecycle!Move, Lifecycle!Spend, Lifecycle!Open, None,
        Lifecycle!NoPlan
<1> DEFINE Allowed == FinalResultsFollowWork' /\ LifecycleStep
<1>1. CASE Create
  BY <1>1, ActionIsAllowed
     DEF Create, Lifecycle!Next, Lifecycle!Create
<1>2. CASE CreateProposeApproveStart
  BY <1>2, LaunchIsAllowed
<1>3. CASE ProposePlan
  BY <1>3, ProposalIsInvisible
<1>4. ASSUME NEW r \in Revisions, ApprovePlan(r)
      PROVE  Allowed
  BY <1>4, ApprovalIsAllowed
<1>5. ASSUME NEW scope \in TokenScopes, IssueApproval(scope)
      PROVE  Allowed
  BY <1>5, ActionIsAllowed
     DEF IssueApproval, Lifecycle!Next, Lifecycle!Issue
<1>6. ASSUME NEW scope \in TokenScopes, ApprovalExpires(scope)
      PROVE  Allowed
  BY <1>6, ActionIsAllowed
     DEF ApprovalExpires, Lifecycle!Next, Lifecycle!LoseToken
<1>7. CASE StartGoal
  BY <1>7, ActionIsAllowed
     DEF StartGoal, ConsumeApproval, Lifecycle!Next, Lifecycle!Start
<1>8. CASE ResumeGoal
  BY <1>8, ActionIsAllowed
     DEF ResumeGoal, ConsumeApproval, Lifecycle!Next, Lifecycle!Resume
<1>9. ASSUME NEW target \in RecoveryStates, RecoverUnknownOutcome(target)
      PROVE  Allowed
  BY <1>9, ActionIsAllowed
     DEF RecoverUnknownOutcome, ConsumeApproval, RecoveryStates,
         Lifecycle!Next, Lifecycle!Recover
<1>10. CASE PauseGoal
  BY <1>10, ActionIsAllowed
     DEF PauseGoal, Fence, Lifecycle!Next, Lifecycle!Pause
<1>11. CASE CancelGoal
  BY <1>11, ActionIsAllowed
     DEF CancelGoal, Fence, IndInv, TypeOK, GoalStates, Lifecycle!Next,
         Lifecycle!Cancel
<1>12. CASE RaiseBudget
  BY <1>12, ActionIsAllowed
     DEF RaiseBudget, ConsumeApproval, IndInv, TypeOK, Lifecycle!Next,
         Lifecycle!LoseToken
<1>13. ASSUME NEW u \in Destructive, ApproveDestructiveUnit(u)
      PROVE  Allowed
  BY <1>13, ActionIsAllowed
     DEF ApproveDestructiveUnit, ConsumeApproval, IndInv, TypeOK,
         Lifecycle!Next, Lifecycle!LoseToken
<1>14. CASE BlockExhaustedGoal
  BY <1>14, ActionIsAllowed
     DEF BlockExhaustedGoal, Lifecycle!Next, Lifecycle!Block
<1>15. ASSUME NEW u \in Units, ClaimNextWork(u)
      PROVE  Allowed
  BY <1>15, ActionIsAllowed
     DEF ClaimNextWork
<1>16. ASSUME NEW batch \in SUBSET Attempts, ClaimOutbox(batch)
      PROVE  Allowed
  BY <1>16, ActionIsAllowed
     DEF ClaimOutbox
<1>17. ASSUME NEW a \in Attempts, MarkDispatchStarted(a)
      PROVE  Allowed
  BY <1>17, ActionIsAllowed
     DEF MarkDispatchStarted
<1>18. ASSUME NEW a \in Attempts, MarkOutboxDelivered(a)
      PROVE  Allowed
  BY <1>18, ActionIsAllowed
     DEF MarkOutboxDelivered, Deliver
<1>19. ASSUME NEW a \in Attempts, RecordCleanDispatchFailure(a)
      PROVE  Allowed
  BY <1>19, ActionIsAllowed
     DEF RecordCleanDispatchFailure, Release
<1>20. ASSUME NEW a \in Attempts, RecordAmbiguousDispatchFailure(a)
      PROVE  Allowed
  BY <1>20, ActionIsAllowed
     DEF RecordAmbiguousDispatchFailure, Release
<1>21. ASSUME NEW a \in Attempts, RecordProbeAbsent(a)
      PROVE  Allowed
  BY <1>21, ActionIsAllowed
     DEF RecordProbeAbsent, Release
<1>22. ASSUME NEW a \in Attempts, RecordProbeFound(a)
      PROVE  Allowed
  BY <1>22, ActionIsAllowed
     DEF RecordProbeFound, Deliver
<1>23. ASSUME NEW a \in Attempts, RecordProbeUnknown(a)
      PROVE  Allowed
  BY <1>23, ActionIsAllowed
     DEF RecordProbeUnknown, Held, Settleable, Lifecycle!Next,
         Lifecycle!Lose
<1>24. ASSUME NEW a \in Attempts, RecordLateDispatchReference(a)
      PROVE  Allowed
  BY <1>24, ActionIsAllowed
     DEF RecordLateDispatchReference
<1>25. CASE FinalizeGoal
  BY <1>25, ActionIsAllowed
     DEF FinalizeGoal, PlanIsProven, Lifecycle!Next, Lifecycle!Achieve
<1>26. ASSUME NEW result \in {"passed", "failed"}, RecordFinalVerificationResult(result)
      PROVE  Allowed
  BY <1>26, FinalResultIsAllowed
<1>27. ASSUME NEW a \in Attempts, NEW result \in {"passed", "failed"}, RecordVerificationResult(a, result)
      PROVE  Allowed
  BY <1>27, ActionIsAllowed
     DEF RecordVerificationResult
<1>28. ASSUME NEW a \in Attempts, ReportCompleted(a)
      PROVE  Allowed
  BY <1>28, ActionIsAllowed
     DEF ReportCompleted, Settle
<1>29. ASSUME NEW a \in Attempts, ReportAmbiguous(a)
      PROVE  Allowed
  BY <1>29, ActionIsAllowed
     DEF ReportAmbiguous, Settle, Reconciled, Settleable, Lifecycle!Next,
         Lifecycle!Lose
<1>30. ASSUME NEW a \in Attempts, NEW target \in {"awaiting-decision", "blocked", "needs-replan"}, ReportEscalated(a, target)
      PROVE  Allowed
  BY <1>30, ActionIsAllowed
     DEF ReportEscalated, Settle, Reconciled, Settleable, Lifecycle!Next,
         Lifecycle!Replan, Lifecycle!Decide, Lifecycle!Block
<1>31. ASSUME NEW a \in Attempts, ReportRequeued(a)
      PROVE  Allowed
  BY <1>31, ActionIsAllowed
     DEF ReportRequeued, Settle
<1>32. ASSUME NEW a \in Attempts, PersistCancellationExternalReference(a)
      PROVE  Allowed
  BY <1>32, ActionIsAllowed
     DEF PersistCancellationExternalReference
<1>33. ASSUME NEW a \in Attempts, AcknowledgeCancellationRequest(a)
      PROVE  Allowed
  BY <1>33, ActionIsAllowed
     DEF AcknowledgeCancellationRequest
<1>34. CASE RecoverExpiredAttempts
  BY <1>34, ActionIsAllowed
     DEF RecoverExpiredAttempts, Lifecycle!Next, Lifecycle!Block,
         Lifecycle!Lose
<1>35. CASE RecoverExpiredOutboxLeases
  BY <1>35, ActionIsAllowed
     DEF RecoverExpiredOutboxLeases
<1>36. ASSUME NEW a \in Attempts, AttemptLeaseExpires(a)
      PROVE  Allowed
  BY <1>36, ActionIsAllowed
     DEF AttemptLeaseExpires
<1>37. ASSUME NEW a \in Attempts, DispatcherLeaseExpires(a)
      PROVE  Allowed
  BY <1>37, ActionIsAllowed
     DEF DispatcherLeaseExpires
<1>38. CASE UNCHANGED vars
  BY <1>38, ActionIsAllowed
     DEF vars
<1> QED
  BY <1>1, <1>2, <1>3, <1>4, <1>5, <1>6, <1>7, <1>8, <1>9, <1>10, <1>11, <1>12,
     <1>13, <1>14, <1>15, <1>16, <1>17, <1>18, <1>19, <1>20, <1>21, <1>22,
     <1>23, <1>24, <1>25, <1>26, <1>27, <1>28, <1>29, <1>30, <1>31, <1>32,
     <1>33, <1>34, <1>35, <1>36, <1>37, <1>38
     DEF Next, Operator, Dispatcher, Reconciler, Recovery, Time

(* The store is an implementation of the lifecycle.                        *)
THEOREM StoreImplementsLifecycle ==
    Spec => ImplementsLifecycle
<1>1. Init => FinalResultsFollowWork /\ Lifecycle!Init
  <2>1. Init => FinalResultsFollowWork
    BY DEF Init, FinalResultsFollowWork
  <2>2. Init => ~ PlanIsProven
    BY DEF Init, PlanIsProven
  <2>3. PlanIsProven \in BOOLEAN
    BY Zenon DEF PlanIsProven
  <2> QED
    BY <2>1, <2>2, <2>3 DEF Init, Lifecycle!Init, None, Lifecycle!NoPlan
<1>2. IndInv /\ FinalResultsFollowWork /\ [Next]_vars =>
          FinalResultsFollowWork' /\ [Lifecycle!Next]_(Lifecycle!vars)
  BY LifecycleImplemented DEF LifecycleStep
<1> QED
  BY InvariantHolds, <1>1, <1>2, PTL DEF Spec, ImplementsLifecycle,
     Lifecycle!Spec
================================================================================
