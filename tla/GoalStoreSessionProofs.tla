------------------------ MODULE GoalStoreSessionProofs ------------------------
(***************************************************************************)
(* What the store knows about external sessions holds for every plan,      *)
(* budget and concurrency limit: a session that may exist is remembered as *)
(* long as something depends on it.                                        *)
(*                                                                         *)
(* The four properties need each other.  An expired attempt gets no        *)
(* evidence later because a late reference needs the boundary mark, and    *)
(* the reference of a cancellation needs a request, which only fenced      *)
(* attempts have; a fenced attempt gets none without a request either.     *)
(***************************************************************************)
EXTENDS GoalStoreProofs

SessionInv ==
    /\ \A a \in Attempts : a \in started \union ref => attempt[a] # "none"
    /\ \A a \in Attempts : outbox[a] = "delivered" => a \in ref
    /\ ReleasedDispatchIsProbed
    /\ FencedSessionHasCancellation
    /\ OnlyFencedAttemptsAreCancelled
    /\ ExpiredMeansNeverDispatched

(* A claim starts an attempt that nothing is known of.                     *)
LEMMA ClaimKnowsNothing ==
    ASSUME IndInv, SessionInv, NEW u \in Units, ClaimNextWork(u)
    PROVE  SessionInv'
<1>1. PICK a \in Attempts : a = used + 1 /\ attempt[a] = "none"
  BY BoundsAssumption
     DEF ClaimNextWork, BudgetLeft, TypeOK, IndInv, AttemptsArePaidFor, Attempts
<1>2. /\ attempt' = [attempt EXCEPT ![a] = "leased"]
      /\ outbox' = [outbox EXCEPT ![a] = "pending"]
      /\ UNCHANGED <<needsProbe, started, ref, cancellation>>
  BY <1>1 DEF ClaimNextWork
<1> QED
  BY <1>1, <1>2
     DEF IndInv, TypeOK, SessionInv, ReleasedDispatchIsProbed,
         FencedSessionHasCancellation, OnlyFencedAttemptsAreCancelled,
         ExpiredMeansNeverDispatched, Evidence

(* Every transaction keeps track of the sessions it may leave behind.      *)
LEMMA SessionStep ==
    ASSUME IndInv, SessionInv, [Next]_vars
    PROVE  SessionInv'
<1>0. TypeOK
  BY DEF IndInv
<1> USE <1>0
    DEF TypeOK, SessionInv, ReleasedDispatchIsProbed,
        FencedSessionHasCancellation, OnlyFencedAttemptsAreCancelled,
        ExpiredMeansNeverDispatched, Evidence, LiveStates, planVars, unitVars,
        attemptVars, outboxVars, budgetVars
<1>1. CASE Create
  BY <1>1 DEF Create
<1>2. CASE CreateProposeApproveStart
  BY <1>2 DEF CreateProposeApproveStart
<1>3. CASE ProposePlan
  BY <1>3 DEF ProposePlan
<1>4. ASSUME NEW r \in Revisions, ApprovePlan(r)
      PROVE  SessionInv'
  BY <1>4 DEF ApprovePlan
<1>5. ASSUME NEW scope \in TokenScopes, IssueApproval(scope)
      PROVE  SessionInv'
  BY <1>5 DEF IssueApproval
<1>6. ASSUME NEW scope \in TokenScopes, ApprovalExpires(scope)
      PROVE  SessionInv'
  BY <1>6 DEF ApprovalExpires
<1>7. CASE StartGoal
  BY <1>7 DEF StartGoal
<1>8. CASE ResumeGoal
  BY <1>8 DEF ResumeGoal
<1>9. ASSUME NEW target \in RecoveryStates, RecoverUnknownOutcome(target)
      PROVE  SessionInv'
  BY <1>9 DEF RecoverUnknownOutcome
<1>10. CASE PauseGoal
  BY <1>10 DEF PauseGoal, Fence, ActiveAttempts, Active, SettleAttempts,
     RetireOutbox, RequestCancellation, ReleaseUnits
<1>11. CASE CancelGoal
  BY <1>11 DEF CancelGoal, Fence, ActiveAttempts, Active, SettleAttempts,
     RetireOutbox, RequestCancellation, ReleaseUnits
<1>12. CASE RaiseBudget
  BY <1>12 DEF RaiseBudget
<1>13. ASSUME NEW u \in Destructive, ApproveDestructiveUnit(u)
      PROVE  SessionInv'
  BY <1>13 DEF ApproveDestructiveUnit
<1>14. CASE BlockExhaustedGoal
  BY <1>14 DEF BlockExhaustedGoal, ActiveAttempts, Active
<1>15. ASSUME NEW u \in Units, ClaimNextWork(u)
      PROVE  SessionInv'
  BY <1>15, ClaimKnowsNothing
<1>16. ASSUME NEW batch \in SUBSET Attempts, ClaimOutbox(batch)
      PROVE  SessionInv'
  BY <1>16 DEF ClaimOutbox, Settleable, Active
<1>17. ASSUME NEW a \in Attempts, MarkDispatchStarted(a)
      PROVE  SessionInv'
  BY <1>17 DEF MarkDispatchStarted, Held, Settleable, Active
<1>18. ASSUME NEW a \in Attempts, MarkOutboxDelivered(a)
      PROVE  SessionInv'
  BY <1>18 DEF MarkOutboxDelivered, Deliver, Held, Settleable, Active
<1>19. ASSUME NEW a \in Attempts, RecordCleanDispatchFailure(a)
      PROVE  SessionInv'
  BY <1>19 DEF RecordCleanDispatchFailure, Release, Held, Settleable, Active
<1>20. ASSUME NEW a \in Attempts, RecordAmbiguousDispatchFailure(a)
      PROVE  SessionInv'
  BY <1>20 DEF RecordAmbiguousDispatchFailure, Release, Held, Settleable,
     Active
<1>21. ASSUME NEW a \in Attempts, RecordProbeAbsent(a)
      PROVE  SessionInv'
  BY <1>21 DEF RecordProbeAbsent, Release, Held, Settleable, Active
<1>22. ASSUME NEW a \in Attempts, RecordProbeFound(a)
      PROVE  SessionInv'
  BY <1>22 DEF RecordProbeFound, Deliver, Held, Settleable, Active
<1>23. ASSUME NEW a \in Attempts, RecordProbeUnknown(a)
      PROVE  SessionInv'
  BY <1>23 DEF RecordProbeUnknown, Held, Settleable, Active, SettleAttempts,
     ReleaseUnits, RetireOutbox
<1>24. ASSUME NEW a \in Attempts, RecordLateDispatchReference(a)
      PROVE  SessionInv'
  BY <1>24 DEF RecordLateDispatchReference
<1>25. CASE FinalizeGoal
  BY <1>25 DEF FinalizeGoal, ActiveAttempts, Active, RequestCancellation,
     Evidence, SettleAttempts, ReleaseUnits, RetireOutbox
<1>26. ASSUME NEW result \in {"passed", "failed"},
               RecordFinalVerificationResult(result)
      PROVE  SessionInv'
  BY <1>26 DEF RecordFinalVerificationResult
<1>27. ASSUME NEW a \in Attempts, NEW result \in {"passed", "failed"},
               RecordVerificationResult(a, result)
      PROVE  SessionInv'
  BY <1>27 DEF RecordVerificationResult, Reconciled, Settleable, Active
<1>28. ASSUME NEW a \in Attempts, ReportCompleted(a)
      PROVE  SessionInv'
  BY <1>28 DEF ReportCompleted, Settle, Reconciled, Settleable, Active,
     SettleAttempts, ReleaseUnits, RetireOutbox
<1>29. ASSUME NEW a \in Attempts, ReportAmbiguous(a)
      PROVE  SessionInv'
  BY <1>29 DEF ReportAmbiguous, Settle, Reconciled, Settleable, Active,
     SettleAttempts, ReleaseUnits, RetireOutbox
<1>30. ASSUME NEW a \in Attempts, NEW target \in {"awaiting-decision",
               "blocked", "needs-replan"}, ReportEscalated(a, target)
      PROVE  SessionInv'
  BY <1>30 DEF ReportEscalated, Settle, Reconciled, Settleable, Active,
     SettleAttempts, ReleaseUnits, RetireOutbox
<1>31. ASSUME NEW a \in Attempts, ReportRequeued(a)
      PROVE  SessionInv'
  BY <1>31 DEF ReportRequeued, Settle, Reconciled, Settleable, Active,
     SettleAttempts, ReleaseUnits, RetireOutbox
<1>32. ASSUME NEW a \in Attempts, PersistCancellationExternalReference(a)
      PROVE  SessionInv'
  BY <1>32 DEF PersistCancellationExternalReference
<1>33. ASSUME NEW a \in Attempts, AcknowledgeCancellationRequest(a)
      PROVE  SessionInv'
  BY <1>33 DEF AcknowledgeCancellationRequest
<1>34. CASE RecoverExpiredAttempts
  BY <1>34 DEF RecoverExpiredAttempts, Overdue, Evidence, RetireOutbox
<1>35. CASE RecoverExpiredOutboxLeases
  BY <1>35 DEF RecoverExpiredOutboxLeases, Settleable, Active
<1>36. ASSUME NEW a \in Attempts, AttemptLeaseExpires(a)
      PROVE  SessionInv'
  BY <1>36 DEF AttemptLeaseExpires
<1>37. ASSUME NEW a \in Attempts, DispatcherLeaseExpires(a)
      PROVE  SessionInv'
  BY <1>37 DEF DispatcherLeaseExpires
<1>38. CASE UNCHANGED vars
  BY <1>38 DEF vars
<1> QED
  BY <1>1, <1>2, <1>3, <1>4, <1>5, <1>6, <1>7, <1>8, <1>9, <1>10, <1>11, <1>12,
     <1>13, <1>14, <1>15, <1>16, <1>17, <1>18, <1>19, <1>20, <1>21, <1>22,
     <1>23, <1>24, <1>25, <1>26, <1>27, <1>28, <1>29, <1>30, <1>31, <1>32,
     <1>33, <1>34, <1>35, <1>36, <1>37, <1>38
     DEF Next, Operator, Dispatcher, Reconciler, Recovery, Time

(* The store's record of external sessions is right in every state.        *)
THEOREM SessionsAreRemembered ==
    Spec => []SessionInv
<1>1. Init => SessionInv
  BY DEF Init, SessionInv, ReleasedDispatchIsProbed, FencedSessionHasCancellation,
         OnlyFencedAttemptsAreCancelled, ExpiredMeansNeverDispatched, Evidence
<1> QED
  BY <1>1, InvariantHolds, SessionStep, PTL DEF Spec

(* A command that crossed the dispatch boundary goes back to the outbox    *)
(* only marked for a probe, so no dispatcher creates a second session for  *)
(* it unasked.                                                             *)
THEOREM LostDispatchesAreProbed ==
    Spec => []ReleasedDispatchIsProbed
<1>1. SessionInv => ReleasedDispatchIsProbed
  BY DEF SessionInv
<1> QED
  BY SessionsAreRemembered, <1>1, PTL

(* No pause, cancellation or achievement forgets a session that may still  *)
(* run.                                                                    *)
THEOREM FencedSessionsAreCancelled ==
    Spec => []FencedSessionHasCancellation
<1>1. SessionInv => FencedSessionHasCancellation
  BY DEF SessionInv
<1> QED
  BY SessionsAreRemembered, <1>1, PTL

(* No session of an attempt that is still working, or that was recovered,  *)
(* is ever asked to be aborted.                                            *)
THEOREM WorkingSessionsAreNotCancelled ==
    Spec => []OnlyFencedAttemptsAreCancelled
<1>1. SessionInv => OnlyFencedAttemptsAreCancelled
  BY DEF SessionInv
<1> QED
  BY SessionsAreRemembered, <1>1, PTL

(* An attempt written off as expired, whose unit is worked on again, was   *)
(* never dispatched and never turns out to have been.                      *)
THEOREM ExpiredAttemptsWereIdle ==
    Spec => []ExpiredMeansNeverDispatched
<1>1. SessionInv => ExpiredMeansNeverDispatched
  BY DEF SessionInv
<1> QED
  BY SessionsAreRemembered, <1>1, PTL

-----------------------------------------------------------------------------
(* Late references.                                                        *)

(* The step invariant, as a predicate on one step.                         *)
LateReopens ==
    \A a \in Attempts :
        /\ cancellation[a] # "none"
        /\ a \in ref' \ ref
        => cancellation'[a] = "pending"

(* Only a delivery, a cancellation and a late answer ever learn one.       *)
LEMMA ReferencesAreLearned ==
    ASSUME [Next]_vars
    PROVE  \/ ref' = ref
           \/ \E a \in Attempts : \/ Deliver(a)
                                 \/ PersistCancellationExternalReference(a)
                                 \/ RecordLateDispatchReference(a)
<1> USE DEF outboxVars
<1>1. Operator => ref' = ref
  BY DEF Operator, Fence, Create, CreateProposeApproveStart, ProposePlan,
     ApprovePlan, IssueApproval, ApprovalExpires, StartGoal, ResumeGoal,
     RecoverUnknownOutcome, PauseGoal, CancelGoal, RaiseBudget,
     ApproveDestructiveUnit
<1>2. Dispatcher => \/ ref' = ref
                   \/ \E a \in Attempts : Deliver(a) \/ RecordLateDispatchReference(a)
  BY DEF Dispatcher, Release, BlockExhaustedGoal, ClaimNextWork, ClaimOutbox,
     MarkDispatchStarted, MarkOutboxDelivered, RecordCleanDispatchFailure,
     RecordAmbiguousDispatchFailure, RecordProbeAbsent, RecordProbeFound,
     RecordProbeUnknown
<1>3. Reconciler => \/ ref' = ref
                   \/ \E a \in Attempts : PersistCancellationExternalReference(a)
  BY DEF Reconciler, Settle, FinalizeGoal, RecordFinalVerificationResult,
     RecordVerificationResult, ReportCompleted, ReportAmbiguous,
     ReportEscalated, ReportRequeued, AcknowledgeCancellationRequest
<1>4. Recovery \/ Time => ref' = ref
  BY DEF Recovery, Time, RecoverExpiredAttempts, RecoverExpiredOutboxLeases,
     AttemptLeaseExpires, DispatcherLeaseExpires
<1> QED
  BY <1>1, <1>2, <1>3, <1>4 DEF Next, vars

(* A session that turns up after its cancellation was settled is aborted   *)
(* after all.                                                              *)
THEOREM LateSessionsAreCancelled ==
    Spec => LateReferenceReopensCancellation
<1>1. IndInv /\ SessionInv /\ [Next]_vars => [LateReopens]_vars
  <2> SUFFICES ASSUME IndInv, SessionInv, [Next]_vars, NEW a \in Attempts,
                      cancellation[a] # "none", a \in ref' \ ref
               PROVE  cancellation'[a] = "pending"
    BY DEF LateReopens
  <2>1. attempt[a] = "cancelled"
    BY DEF SessionInv, OnlyFencedAttemptsAreCancelled
  <2>2. PICK b \in Attempts : \/ Deliver(b)
                            \/ PersistCancellationExternalReference(b)
                            \/ RecordLateDispatchReference(b)
    BY ReferencesAreLearned
  <2>3. a = b
    BY <2>2 DEF Deliver, PersistCancellationExternalReference,
                RecordLateDispatchReference
  <2>4. CASE Deliver(b)
    BY <2>1, <2>3, <2>4 DEF Deliver, Held, Settleable, Active, LiveStates
  <2>5. CASE PersistCancellationExternalReference(b)
    BY <2>3, <2>5 DEF PersistCancellationExternalReference
  <2>6. CASE RecordLateDispatchReference(b)
    BY <2>3, <2>6 DEF RecordLateDispatchReference, IndInv, TypeOK
  <2> QED
    BY <2>2, <2>4, <2>5, <2>6
<1> QED
  BY <1>1, InvariantHolds, SessionsAreRemembered, PTL
     DEF Spec, LateReferenceReopensCancellation, LateReopens
===============================================================================
