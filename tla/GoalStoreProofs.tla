--------------------------- MODULE GoalStoreProofs ---------------------------
(***************************************************************************)
(* What holds of GoalStore for every plan, budget and concurrency limit.   *)
(*                                                                         *)
(* The invariants are proved from IndInv.  Its parts need each other: an   *)
(* approval may queue units only because no unit of an unapproved revision *)
(* exists (OneApprovedPlan), a claim creates a new attempt because the     *)
(* attempts that exist are those paid for (AttemptsArePaidFor), and        *)
(* whatever ends an attempt leaves the others alone because each live one  *)
(* is the active attempt of its own unit (LiveAttemptsOwnTheirUnit).       *)
(***************************************************************************)
EXTENDS GoalStore, FiniteSetTheorems, TLAPS

PlanInv == RevisionsAreNumbered /\ OneApprovedPlan
WorkInv == AttemptsArePaidFor /\ LiveAttemptsOwnTheirUnit /\ OutboxFollowsAttempt

-----------------------------------------------------------------------------
(* Steps by what they leave alone.                                         *)

(* A step that approves and proposes nothing, and creates no unit.         *)
LEMMA PlanFrame ==
    ASSUME PlanInv,
           UNCHANGED <<activePlan, planStatus>>,
           goal' = "absent" => goal = "absent",
           \A u \in Units : unit'[u] = "absent" <=> unit[u] = "absent"
    PROVE  PlanInv'
<1>1. LatestRevision' = LatestRevision
  BY DEF LatestRevision
<1> QED
  BY <1>1 DEF PlanInv, RevisionsAreNumbered, OneApprovedPlan

(* A step in which attempts may advance, and rows leave the outbox, but no *)
(* attempt starts or stops.                                                *)
LEMMA AdvanceStep ==
    ASSUME TypeOK, WorkInv,
           UNCHANGED <<unitOf, current, used>>,
           limit' \in Nat, limit' >= limit,
           attempt' \in [Attempts -> AttemptStates],
           \A a \in Attempts : attempt'[a] # attempt[a] =>
               attempt[a] \in LiveStates /\ attempt'[a] \in LiveStates,
           \A u \in Units : unit'[u] = "running" <=> unit[u] = "running",
           \A a \in Attempts : outbox'[a] \in {"pending", "leased"} =>
               outbox[a] \in {"pending", "leased"}
    PROVE  WorkInv'
<1>1. AttemptsArePaidFor'
  BY DEF TypeOK, WorkInv, AttemptsArePaidFor, LiveStates
<1>2. LiveAttemptsOwnTheirUnit'
  BY DEF TypeOK, WorkInv, LiveAttemptsOwnTheirUnit, Active, None
<1>3. OutboxFollowsAttempt'
  BY DEF WorkInv, OutboxFollowsAttempt, Active
<1> QED
  BY <1>1, <1>2, <1>3 DEF WorkInv

(* A step in which the active attempts in S stop, their units are released *)
(* and their rows leave the outbox.                                        *)
LEMMA StopStep ==
    ASSUME TypeOK, WorkInv, NEW S \in SUBSET ActiveAttempts,
           UNCHANGED <<unitOf, used, limit>>,
           \A a \in Attempts \ S : attempt'[a] = attempt[a],
           \A a \in S : attempt'[a] \notin LiveStates \union {"none"},
           \A u \in Units : current'[u] = IF current[u] \in S THEN None
                                          ELSE current[u],
           \A u \in Units : IF current[u] \in S
                            THEN unit'[u] \notin {"running", "absent"}
                            ELSE /\ unit'[u] = "running" <=> unit[u] = "running"
                                 /\ unit'[u] = "absent" <=> unit[u] = "absent",
           \A a \in Attempts : outbox'[a] \in {"pending", "leased"} =>
               outbox[a] \in {"pending", "leased"} /\ a \notin S
    PROVE  /\ WorkInv'
           /\ \A u \in Units : unit'[u] = "absent" <=> unit[u] = "absent"
<1>1. \A a \in S : a \in Attempts /\ Active(a)
  BY DEF ActiveAttempts
<1>2. AttemptsArePaidFor'
  BY <1>1 DEF TypeOK, WorkInv, AttemptsArePaidFor, Active, LiveStates
<1>3. LiveAttemptsOwnTheirUnit'
  <2>1. \A a \in Attempts : attempt'[a] \in LiveStates =>
                               a \notin S /\ attempt[a] \in LiveStates
    BY <1>1
  <2>2. \A u \in Units : unit'[u] = "running" <=> current'[u] # None
    BY <1>1 DEF WorkInv, LiveAttemptsOwnTheirUnit, None, Attempts
  <2> QED
    BY <2>1, <2>2 DEF WorkInv, LiveAttemptsOwnTheirUnit, Active, TypeOK, None
<1>4. OutboxFollowsAttempt'
  <2> SUFFICES ASSUME NEW a \in Attempts, outbox'[a] \in {"pending", "leased"}
               PROVE  Active(a)'
    BY DEF OutboxFollowsAttempt
  <2>1. a \notin S /\ Active(a)
    BY DEF WorkInv, OutboxFollowsAttempt
  <2> QED
    BY <2>1 DEF Active
<1>5. \A u \in Units : unit'[u] = "absent" <=> unit[u] = "absent"
  BY <1>1 DEF WorkInv, LiveAttemptsOwnTheirUnit, None, Attempts
<1> QED
  BY <1>2, <1>3, <1>4, <1>5 DEF WorkInv

(* The same, for the attempts that one transaction ends alike.             *)
LEMMA SettleStep ==
    ASSUME TypeOK, WorkInv, NEW S \in SUBSET ActiveAttempts,
           NEW state \in AttemptStates \ (LiveStates \union {"none"}),
           NEW unitState \in UnitStates \ {"running", "absent"},
           NEW outboxState \in {"cancelled", "retired"},
           SettleAttempts(S, state), ReleaseUnits(S, unitState),
           RetireOutbox(S, outboxState), UNCHANGED <<unitOf, used, limit>>
    PROVE  /\ WorkInv'
           /\ \A u \in Units : unit'[u] = "absent" <=> unit[u] = "absent"
<1>1. /\ \A a \in Attempts \ S : attempt'[a] = attempt[a]
      /\ \A a \in S : attempt'[a] \notin LiveStates \union {"none"}
  BY DEF SettleAttempts, ActiveAttempts
<1>2. \A u \in Units : /\ current'[u] = IF current[u] \in S THEN None ELSE current[u]
                       /\ unit'[u] = IF current[u] \in S THEN unitState ELSE unit[u]
  BY DEF ReleaseUnits
<1>3. \A a \in Attempts : outbox'[a] \in {"pending", "leased"} =>
          outbox[a] \in {"pending", "leased"} /\ a \notin S
  BY DEF RetireOutbox
<1> QED
  BY <1>1, <1>2, <1>3, StopStep

-----------------------------------------------------------------------------
(* Types.                                                                  *)

(* #fenceGoal writes well-typed rows, whichever way it leaves the units.   *)
LEMMA FenceType ==
    ASSUME TypeOK, NEW requeue \in BOOLEAN, Fence(requeue), goal' \in GoalStates
    PROVE  TypeOK'
<1> USE DEF TypeOK
<1>1. /\ attempt' \in [Attempts -> AttemptStates]
      /\ expired' \subseteq Attempts
  BY DEF Fence, SettleAttempts, AttemptStates
<1>2. /\ outbox' \in [Attempts -> OutboxStates]
      /\ dispatcherExpired' \subseteq Attempts
      /\ needsProbe' \subseteq Attempts
  BY DEF Fence, RetireOutbox, OutboxStates
<1>3. cancellation' \in [Attempts -> CancellationStates]
  BY DEF Fence, RequestCancellation, CancellationStates
<1>4. /\ unit' \in [Units -> UnitStates]
      /\ current' \in [Units -> Attempts \union {None}]
  <2>1. CASE requeue
    BY <2>1 DEF Fence, ReleaseUnits, UnitStates
  <2>2. CASE ~requeue
    BY <2>2 DEF Fence, UnitStates
  <2> QED
    BY <2>1, <2>2
<1> QED
  BY <1>1, <1>2, <1>3, <1>4 DEF Fence, planVars, budgetVars

(* Raising a budget keeps the limit within its bound.                      *)
LEMMA RaiseBudgetType ==
    ASSUME TypeOK, RaiseBudget
    PROVE  TypeOK'
<1>1. limit' \in 1 .. MaxLimit
  BY BoundsAssumption DEF TypeOK, RaiseBudget
<1>2. overrun' \in BOOLEAN
  BY ZenonT(30) DEF TypeOK, RaiseBudget
<1> QED
  BY <1>1, <1>2 DEF TypeOK, RaiseBudget, ConsumeApproval, planVars, unitVars,
                    attemptVars, outboxVars

(* An ambiguous outcome leaves the attempt failed or of unknown outcome.   *)
LEMMA AmbiguousType ==
    ASSUME TypeOK, NEW a \in Attempts, ReportAmbiguous(a)
    PROVE  TypeOK'
<1>1. PICK state \in {"failed", "unknown-outcome"} : Settle(a, state, "unknown-outcome")
  BY DEF ReportAmbiguous
<1> QED
  BY <1>1 DEF ReportAmbiguous, Settle, SettleAttempts, ReleaseUnits,
     RetireOutbox,
              TypeOK, GoalStates, UnitStates, AttemptStates, OutboxStates, None,
              planVars

(* Every transaction writes well-typed rows.                               *)
LEMMA TypeStep ==
    ASSUME TypeOK, [Next]_vars
    PROVE  TypeOK'
<1> USE BoundsAssumption, PlanAssumption, TokenAssumption
    DEF TypeOK, GoalStates, UnitStates, LiveStates, AttemptStates, OutboxStates,
        CancellationStates, RecoveryStates, Revisions, Attempts, None, planVars,
        unitVars, attemptVars, outboxVars, budgetVars
<1>1. CASE Create
  BY <1>1 DEF Create
<1>2. CASE CreateProposeApproveStart
  BY <1>2 DEF CreateProposeApproveStart
<1>3. CASE ProposePlan
  BY <1>3 DEF ProposePlan, LatestRevision
<1>4. CASE StartGoal
  BY <1>4 DEF StartGoal, ConsumeApproval
<1>5. CASE ResumeGoal
  BY <1>5 DEF ResumeGoal, ConsumeApproval
<1>6. CASE PauseGoal
  BY <1>6, FenceType DEF PauseGoal, GoalStates
<1>7. CASE CancelGoal
  BY <1>7, FenceType DEF CancelGoal, GoalStates
<1>8. CASE RaiseBudget
  BY <1>8, RaiseBudgetType
<1>9. CASE BlockExhaustedGoal
  BY <1>9 DEF BlockExhaustedGoal, BudgetLeft
<1>10. CASE FinalizeGoal
  BY <1>10 DEF FinalizeGoal, RequestCancellation, Evidence, SettleAttempts,
     ReleaseUnits, RetireOutbox
<1>11. CASE RecoverExpiredAttempts
  BY <1>11 DEF RecoverExpiredAttempts, Overdue, Evidence, BudgetLeft,
     RetireOutbox
<1>12. CASE RecoverExpiredOutboxLeases
  BY <1>12 DEF RecoverExpiredOutboxLeases
<1>13. ASSUME NEW a \in Attempts, MarkDispatchStarted(a)
      PROVE  TypeOK'
  BY <1>13 DEF MarkDispatchStarted
<1>14. ASSUME NEW a \in Attempts, MarkOutboxDelivered(a)
      PROVE  TypeOK'
  BY <1>14 DEF MarkOutboxDelivered, Deliver
<1>15. ASSUME NEW a \in Attempts, RecordCleanDispatchFailure(a)
      PROVE  TypeOK'
  BY <1>15 DEF RecordCleanDispatchFailure, Release
<1>16. ASSUME NEW a \in Attempts, RecordAmbiguousDispatchFailure(a)
      PROVE  TypeOK'
  BY <1>16 DEF RecordAmbiguousDispatchFailure, Release
<1>17. ASSUME NEW a \in Attempts, RecordProbeAbsent(a)
      PROVE  TypeOK'
  BY <1>17 DEF RecordProbeAbsent, Release
<1>18. ASSUME NEW a \in Attempts, RecordProbeFound(a)
      PROVE  TypeOK'
  BY <1>18 DEF RecordProbeFound, Deliver
<1>19. ASSUME NEW a \in Attempts, RecordProbeUnknown(a)
      PROVE  TypeOK'
  BY <1>19 DEF RecordProbeUnknown, SettleAttempts, ReleaseUnits, RetireOutbox
<1>20. ASSUME NEW a \in Attempts, RecordLateDispatchReference(a)
      PROVE  TypeOK'
  BY <1>20 DEF RecordLateDispatchReference
<1>21. ASSUME NEW a \in Attempts, ReportCompleted(a)
      PROVE  TypeOK'
  BY <1>21 DEF ReportCompleted, Settle, SettleAttempts, ReleaseUnits,
     RetireOutbox
<1>22. ASSUME NEW a \in Attempts, ReportAmbiguous(a)
      PROVE  TypeOK'
  BY <1>22, AmbiguousType
<1>23. ASSUME NEW a \in Attempts, ReportRequeued(a)
      PROVE  TypeOK'
  BY <1>23 DEF ReportRequeued, Settle, SettleAttempts, ReleaseUnits,
     RetireOutbox
<1>24. ASSUME NEW a \in Attempts, PersistCancellationExternalReference(a)
      PROVE  TypeOK'
  BY <1>24 DEF PersistCancellationExternalReference
<1>25. ASSUME NEW a \in Attempts, AcknowledgeCancellationRequest(a)
      PROVE  TypeOK'
  BY <1>25 DEF AcknowledgeCancellationRequest
<1>26. ASSUME NEW a \in Attempts, AttemptLeaseExpires(a)
      PROVE  TypeOK'
  BY <1>26 DEF AttemptLeaseExpires
<1>27. ASSUME NEW a \in Attempts, DispatcherLeaseExpires(a)
      PROVE  TypeOK'
  BY <1>27 DEF DispatcherLeaseExpires
<1>28. ASSUME NEW r \in Revisions, ApprovePlan(r)
      PROVE  TypeOK'
  BY <1>28 DEF ApprovePlan, LatestRevision, Approved
<1>29. ASSUME NEW scope \in TokenScopes, IssueApproval(scope)
      PROVE  TypeOK'
  BY <1>29 DEF IssueApproval
<1>30. ASSUME NEW scope \in TokenScopes, ApprovalExpires(scope)
      PROVE  TypeOK'
  BY <1>30 DEF ApprovalExpires
<1>31. ASSUME NEW target \in RecoveryStates, RecoverUnknownOutcome(target)
      PROVE  TypeOK'
  BY <1>31 DEF RecoverUnknownOutcome, ConsumeApproval
<1>32. ASSUME NEW u \in Destructive, ApproveDestructiveUnit(u)
      PROVE  TypeOK'
  BY <1>32 DEF ApproveDestructiveUnit, ConsumeApproval
<1>33. ASSUME NEW u \in Units, ClaimNextWork(u)
      PROVE  TypeOK'
  BY <1>33 DEF ClaimNextWork, BudgetLeft
<1>34. ASSUME NEW batch \in SUBSET Attempts, ClaimOutbox(batch)
      PROVE  TypeOK'
  BY <1>34 DEF ClaimOutbox
<1>35. ASSUME NEW result \in {"passed",
               "failed"}, RecordFinalVerificationResult(result)
      PROVE  TypeOK'
  BY <1>35 DEF RecordFinalVerificationResult
<1>36. ASSUME NEW a \in Attempts,
               NEW result \in {"passed",
               "failed"}, RecordVerificationResult(a, result)
      PROVE  TypeOK'
  BY <1>36 DEF RecordVerificationResult
<1>37. ASSUME NEW a \in Attempts,
               NEW target \in {"awaiting-decision",
               "blocked", "needs-replan"}, ReportEscalated(a, target)
      PROVE  TypeOK'
  BY <1>37 DEF ReportEscalated, Settle, SettleAttempts, ReleaseUnits,
     RetireOutbox
<1>38. CASE UNCHANGED vars
  BY <1>38 DEF vars
<1> HIDE DEF TypeOK, GoalStates, UnitStates, LiveStates, AttemptStates,
        OutboxStates, CancellationStates, RecoveryStates, Revisions, Attempts,
        None, planVars, unitVars, attemptVars, outboxVars, budgetVars
<1> QED
  BY <1>1, <1>2, <1>3, <1>4, <1>5, <1>6, <1>7, <1>8, <1>9, <1>10, <1>11, <1>12,
     <1>13, <1>14, <1>15, <1>16, <1>17, <1>18, <1>19, <1>20, <1>21, <1>22,
     <1>23, <1>24, <1>25, <1>26, <1>27, <1>28, <1>29, <1>30, <1>31, <1>32,
     <1>33, <1>34, <1>35, <1>36, <1>37, <1>38
     DEF Next, Operator, Dispatcher, Reconciler, Recovery, Time

-----------------------------------------------------------------------------
(* Steps that propose, approve or claim.                                   *)

(* A step that touches neither plans, units, attempts nor rows.            *)
LEMMA AsideStep ==
    ASSUME TypeOK, TypeOK', PlanInv, WorkInv,
           UNCHANGED <<activePlan, planStatus, unit, current, attempt, unitOf,
                       outbox, used>>,
           goal' = "absent" => goal = "absent",
           limit' >= limit
    PROVE  PlanInv' /\ WorkInv'
<1>1. PlanInv'
  BY PlanFrame
<1>2. limit' \in Nat /\ attempt' \in [Attempts -> AttemptStates]
  BY BoundsAssumption DEF TypeOK
<1>3. WorkInv'
  BY <1>2, AdvanceStep
<1> QED
  BY <1>1, <1>3

(* The revisions in use are finitely many, so counting them is numbering   *)
(* them.                                                                   *)
LEMMA RevisionsInUse ==
    /\ IsFiniteSet({r \in Revisions : planStatus[r] # "none"})
    /\ LatestRevision \in Nat
<1>1. IsFiniteSet(Revisions)
  BY FS_Interval, BoundsAssumption DEF Revisions
<1>2. IsFiniteSet({r \in Revisions : planStatus[r] # "none"})
  BY <1>1, FS_Subset
<1> QED
  BY <1>2, FS_CardinalityType DEF LatestRevision

(* A launch approves revision 1 of a goal that has no plan and no unit.    *)
LEMMA LaunchStep ==
    ASSUME TypeOK, TypeOK', PlanInv, WorkInv, CreateProposeApproveStart
    PROVE  PlanInv' /\ WorkInv'
<1>1. /\ 1 \in Revisions
      /\ \A r \in Revisions : planStatus[r] = "none"
      /\ \A u \in Units : unit[u] = "absent"
  BY BoundsAssumption, PlanAssumption
     DEF PlanInv, RevisionsAreNumbered, OneApprovedPlan, CreateProposeApproveStart,
         Revisions
<1>2. \A r \in Revisions : planStatus'[r] = IF r = 1 THEN "approved" ELSE "none"
  BY <1>1 DEF CreateProposeApproveStart, TypeOK
<1>3. LatestRevision' = 1
  <2>1. {r \in Revisions : planStatus'[r] # "none"} = {1}
    BY <1>1, <1>2
  <2> QED
    BY <2>1, FS_Singleton DEF LatestRevision
<1>4. RevisionsAreNumbered'
  BY <1>2, <1>3 DEF RevisionsAreNumbered, Revisions, CreateProposeApproveStart
<1>5. OneApprovedPlan'
  BY <1>1, <1>2, PlanAssumption DEF OneApprovedPlan, CreateProposeApproveStart
<1>6. WorkInv'
  BY <1>1, AdvanceStep, BoundsAssumption
     DEF CreateProposeApproveStart, TypeOK, attemptVars, outboxVars, budgetVars
<1> QED
  BY <1>4, <1>5, <1>6 DEF PlanInv

(* A proposal takes the next revision number, which no plan has.           *)
LEMMA ProposeStep ==
    ASSUME TypeOK, TypeOK', PlanInv, WorkInv, ProposePlan
    PROVE  PlanInv' /\ WorkInv'
<1> DEFINE inUse == {r \in Revisions : planStatus[r] # "none"}
           next  == LatestRevision + 1
<1>1. /\ next \in Revisions
      /\ next \notin inUse
  BY RevisionsInUse, BoundsAssumption
     DEF ProposePlan, PlanInv, RevisionsAreNumbered, Revisions
<1>2. \A r \in Revisions :
          planStatus'[r] = IF r = next THEN "proposed" ELSE planStatus[r]
  BY DEF ProposePlan, TypeOK
<1>3. LatestRevision' = next
  <2>1. {r \in Revisions : planStatus'[r] # "none"} = inUse \union {next}
    BY <1>1, <1>2
  <2>2. Cardinality(inUse \union {next}) = Cardinality(inUse) + 1
    BY <1>1, RevisionsInUse, FS_AddElement
  <2> QED
    BY <2>1, <2>2 DEF LatestRevision
<1>4. RevisionsAreNumbered'
  <2>1. \A r \in Revisions : planStatus'[r] # "none" <=> r <= next
    BY <1>2, RevisionsInUse DEF PlanInv, RevisionsAreNumbered, Revisions
  <2> QED
    BY <1>3, <2>1 DEF RevisionsAreNumbered, ProposePlan
<1>5. OneApprovedPlan'
  BY <1>1, <1>2, PlanAssumption DEF PlanInv, OneApprovedPlan, ProposePlan,
     unitVars
<1>6. WorkInv'
  BY AdvanceStep, BoundsAssumption
     DEF ProposePlan, TypeOK, unitVars, attemptVars, outboxVars, budgetVars
<1> QED
  BY <1>4, <1>5, <1>6 DEF PlanInv

(* An approval queues the units of a revision that had none.               *)
LEMMA ApproveStep ==
    ASSUME TypeOK, TypeOK', PlanInv, WorkInv, NEW r \in Revisions, ApprovePlan(r)
    PROVE  PlanInv' /\ WorkInv'
<1>1. \A u \in Units : Revision[u] = r => unit[u] = "absent"
  BY PlanAssumption DEF ApprovePlan, PlanInv, OneApprovedPlan
<1>2. \A q \in Revisions : /\ planStatus'[q] # "none" <=> planStatus[q] # "none"
                           /\ planStatus'[q] = "approved" <=> q = r
                           /\ q # r => (planStatus'[q] \in {"none", "proposed"}
                                           <=> planStatus[q] \in {"none", "proposed"})
  BY DEF ApprovePlan, Approved
<1>3. LatestRevision' = LatestRevision
  BY <1>2 DEF LatestRevision
<1>4. RevisionsAreNumbered'
  BY <1>2, <1>3 DEF PlanInv, RevisionsAreNumbered, ApprovePlan
<1>5. OneApprovedPlan'
  BY <1>2, PlanAssumption DEF PlanInv, OneApprovedPlan, ApprovePlan
<1>6. WorkInv'
  BY <1>1, AdvanceStep, BoundsAssumption
     DEF ApprovePlan, TypeOK, attemptVars, outboxVars, budgetVars
<1> QED
  BY <1>4, <1>5, <1>6 DEF PlanInv

(* A claim starts an attempt that did not exist, for a unit that has none. *)
LEMMA ClaimStep ==
    ASSUME TypeOK, TypeOK', PlanInv, WorkInv, NEW u \in Units, ClaimNextWork(u)
    PROVE  PlanInv' /\ WorkInv'
<1>1. PICK a \in Attempts : a = used + 1 /\ attempt[a] = "none"
  BY BoundsAssumption
     DEF ClaimNextWork, BudgetLeft, TypeOK, WorkInv, AttemptsArePaidFor, Attempts
<1>2. /\ unit[u] = "queued" /\ current[u] = None
      /\ unit' = [unit EXCEPT ![u] = "running"]
      /\ current' = [current EXCEPT ![u] = a]
      /\ attempt' = [attempt EXCEPT ![a] = "leased"]
      /\ unitOf' = [unitOf EXCEPT ![a] = u]
      /\ outbox' = [outbox EXCEPT ![a] = "pending"]
  BY <1>1 DEF ClaimNextWork, Claimable
<1>3. \A b \in Attempts : attempt[b] \in LiveStates =>
          b # a /\ Active(b) /\ unitOf[b] # u
  BY <1>1, <1>2 DEF WorkInv, LiveAttemptsOwnTheirUnit, Active, LiveStates,
     Attempts,
                    None
<1>4. PlanInv'
  BY <1>2, PlanFrame DEF ClaimNextWork, planVars, TypeOK
<1>5. AttemptsArePaidFor'
  BY <1>1, <1>2, BoundsAssumption
     DEF ClaimNextWork, BudgetLeft, TypeOK, WorkInv, AttemptsArePaidFor, Attempts
<1>6. Active(a)' /\ \A b \in Attempts : Active(b) => Active(b)'
  BY <1>1, <1>2, <1>3 DEF Active, TypeOK, LiveStates
<1>7. LiveAttemptsOwnTheirUnit'
  <2>1. \A b \in Attempts : attempt'[b] \in LiveStates => Active(b)'
    BY <1>1, <1>2, <1>3, <1>6 DEF TypeOK
  <2>2. \A v \in Units :
          /\ current'[v] # None => /\ attempt'[current'[v]] \in LiveStates
                                   /\ unitOf'[current'[v]] = v
          /\ unit'[v] = "running" <=> current'[v] # None
    BY <1>1, <1>2 DEF TypeOK, WorkInv, LiveAttemptsOwnTheirUnit, LiveStates,
                      Attempts, None
  <2> QED
    BY <2>1, <2>2 DEF LiveAttemptsOwnTheirUnit
<1>8. OutboxFollowsAttempt'
  BY <1>1, <1>2, <1>6 DEF WorkInv, OutboxFollowsAttempt, TypeOK
<1> QED
  BY <1>4, <1>5, <1>7, <1>8 DEF WorkInv

-----------------------------------------------------------------------------
(* Steps in which attempts advance and none starts or stops.               *)

(* A resume requeues failed units, which have no attempt.                  *)
LEMMA ResumeStep ==
    ASSUME TypeOK, TypeOK', PlanInv, WorkInv, ResumeGoal
    PROVE  PlanInv' /\ WorkInv'
<1>1. \A u \in Units : /\ unit'[u] = "absent" <=> unit[u] = "absent"
                       /\ unit'[u] = "running" <=> unit[u] = "running"
  BY DEF ResumeGoal, Requeueable
<1>2. PlanInv'
  BY <1>1, PlanFrame DEF ResumeGoal, planVars
<1>3. WorkInv'
  BY <1>1, AdvanceStep, BoundsAssumption
     DEF ResumeGoal, TypeOK, attemptVars, outboxVars, budgetVars
<1> QED
  BY <1>2, <1>3

(* Units of unknown outcome have no attempt either.                        *)
LEMMA RecoverStep ==
    ASSUME TypeOK, TypeOK', PlanInv, WorkInv, NEW target \in RecoveryStates,
           RecoverUnknownOutcome(target)
    PROVE  PlanInv' /\ WorkInv'
<1>1. \A u \in Units : /\ unit'[u] = "absent" <=> unit[u] = "absent"
                       /\ unit'[u] = "running" <=> unit[u] = "running"
  BY DEF RecoverUnknownOutcome
<1>2. current' = current
  <2>1. \A u \in Units : unit[u] = "unknown-outcome" => current[u] = None
    BY DEF WorkInv, LiveAttemptsOwnTheirUnit
  <2> QED
    BY <2>1 DEF RecoverUnknownOutcome, TypeOK
<1>3. PlanInv'
  BY <1>1, PlanFrame DEF RecoverUnknownOutcome, planVars, RecoveryStates
<1>4. WorkInv'
  BY <1>1, <1>2, AdvanceStep, BoundsAssumption
     DEF RecoverUnknownOutcome, TypeOK, attemptVars, outboxVars, budgetVars
<1> QED
  BY <1>3, <1>4

(* What a dispatcher or the outbox recovery does to a row and its attempt. *)
LEMMA OutboxStep ==
    ASSUME TypeOK, TypeOK', PlanInv, WorkInv,
           UNCHANGED <<goal, activePlan, planStatus, unit, current, unitOf, used,
                       limit>>,
           \A a \in Attempts : attempt'[a] # attempt[a] =>
               attempt[a] \in LiveStates /\ attempt'[a] \in LiveStates,
           \A a \in Attempts : outbox'[a] \in {"pending", "leased"} =>
               outbox[a] \in {"pending", "leased"}
    PROVE  PlanInv' /\ WorkInv'
<1>1. PlanInv'
  BY PlanFrame
<1>2. WorkInv'
  BY AdvanceStep, BoundsAssumption DEF TypeOK
<1> QED
  BY <1>1, <1>2

-----------------------------------------------------------------------------
(* Steps in which attempts stop.                                           *)

(* One attempt settles: reportOutcome.                                     *)
LEMMA ReportStep ==
    ASSUME TypeOK, PlanInv, WorkInv, NEW a \in Attempts,
           NEW state \in {"succeeded", "failed", "unknown-outcome"},
           NEW unitState \in UnitStates \ {"running", "absent"},
           Settle(a, state, unitState), goal' # "absent"
    PROVE  PlanInv' /\ WorkInv'
<1>1. {a} \in SUBSET ActiveAttempts
  BY DEF Settle, Reconciled, Settleable, ActiveAttempts
<1>2. state \in AttemptStates \ (LiveStates \union {"none"})
  BY DEF AttemptStates, LiveStates
<1>3. WorkInv' /\ \A u \in Units : unit'[u] = "absent" <=> unit[u] = "absent"
  BY <1>1, <1>2, SettleStep DEF Settle
<1>4. PlanInv'
  BY <1>3, PlanFrame DEF Settle, planVars
<1> QED
  BY <1>3, <1>4

(* A probe that found no answer.                                           *)
LEMMA ProbeUnknownStep ==
    ASSUME TypeOK, PlanInv, WorkInv, NEW a \in Attempts, RecordProbeUnknown(a)
    PROVE  PlanInv' /\ WorkInv'
<1>1. {a} \in SUBSET ActiveAttempts
  BY DEF RecordProbeUnknown, Held, Settleable, ActiveAttempts
<1>2. /\ "unknown-outcome" \in AttemptStates \ (LiveStates \union {"none"})
      /\ "unknown-outcome" \in UnitStates \ {"running", "absent"}
  BY DEF AttemptStates, LiveStates, UnitStates
<1>3. WorkInv' /\ \A u \in Units : unit'[u] = "absent" <=> unit[u] = "absent"
  BY <1>1, <1>2, SettleStep DEF RecordProbeUnknown, budgetVars
<1>4. PlanInv'
  BY <1>3, PlanFrame DEF RecordProbeUnknown, planVars
<1> QED
  BY <1>3, <1>4

(* Achievement cancels whatever optional work is still going on.           *)
LEMMA FinalizeStep ==
    ASSUME TypeOK, PlanInv, WorkInv, FinalizeGoal
    PROVE  PlanInv' /\ WorkInv'
<1>1. /\ "cancelled" \in AttemptStates \ (LiveStates \union {"none"})
      /\ "cancelled" \in UnitStates \ {"running", "absent"}
  BY DEF AttemptStates, LiveStates, UnitStates
<1>2. WorkInv' /\ \A u \in Units : unit'[u] = "absent" <=> unit[u] = "absent"
  BY <1>1, SettleStep DEF FinalizeGoal, budgetVars
<1>3. PlanInv'
  BY <1>2, PlanFrame DEF FinalizeGoal, planVars
<1> QED
  BY <1>2, <1>3

(* A pause requeues the units of the attempts it fences.                   *)
LEMMA PauseStep ==
    ASSUME TypeOK, PlanInv, WorkInv, PauseGoal
    PROVE  PlanInv' /\ WorkInv'
<1>1. /\ "cancelled" \in AttemptStates \ (LiveStates \union {"none"})
      /\ "queued" \in UnitStates \ {"running", "absent"}
  BY DEF AttemptStates, LiveStates, UnitStates
<1>2. WorkInv' /\ \A u \in Units : unit'[u] = "absent" <=> unit[u] = "absent"
  BY <1>1, SettleStep DEF PauseGoal, Fence, budgetVars
<1>3. PlanInv'
  BY <1>2, PlanFrame DEF PauseGoal, Fence, planVars
<1> QED
  BY <1>2, <1>3

(* A cancellation also ends every unit that still had work to do.          *)
LEMMA CancelStep ==
    ASSUME TypeOK, PlanInv, WorkInv, CancelGoal
    PROVE  PlanInv' /\ WorkInv'
<1> DEFINE S == ActiveAttempts
<1>1. /\ \A a \in Attempts \ S : attempt'[a] = attempt[a]
      /\ \A a \in S : attempt'[a] \notin LiveStates \union {"none"}
  BY DEF CancelGoal, Fence, SettleAttempts, ActiveAttempts, LiveStates
<1>2. \A u \in Units : current[u] # None => current[u] \in S
  BY DEF TypeOK, WorkInv, LiveAttemptsOwnTheirUnit, ActiveAttempts, Active
<1>3. \A u \in Units : unit[u] = "running" <=> current[u] # None
  BY DEF WorkInv, LiveAttemptsOwnTheirUnit
<1>4. \A u \in Units : current'[u] = IF current[u] \in S THEN None ELSE current[u]
  BY <1>2 DEF CancelGoal, Fence
<1>5. None \notin S
  BY DEF ActiveAttempts, Attempts, None
<1>6. \A u \in Units : IF current[u] \in S
                       THEN unit'[u] \notin {"running", "absent"}
                       ELSE /\ unit'[u] = "running" <=> unit[u] = "running"
                            /\ unit'[u] = "absent" <=> unit[u] = "absent"
  BY <1>2, <1>3, <1>5 DEF CancelGoal, Fence
<1>7. \A a \in Attempts : outbox'[a] \in {"pending", "leased"} =>
          outbox[a] \in {"pending", "leased"} /\ a \notin S
  BY DEF CancelGoal, Fence, RetireOutbox
<1>8. WorkInv' /\ \A u \in Units : unit'[u] = "absent" <=> unit[u] = "absent"
  BY <1>1, <1>4, <1>6, <1>7, StopStep DEF CancelGoal, Fence, budgetVars
<1>9. PlanInv'
  BY <1>8, PlanFrame DEF CancelGoal, Fence, planVars
<1> QED
  BY <1>8, <1>9

(* A lease recovery ends overdue attempts, all of them active.             *)
LEMMA RecoveryStep ==
    ASSUME TypeOK, PlanInv, WorkInv, RecoverExpiredAttempts
    PROVE  PlanInv' /\ WorkInv'
<1> DEFINE S == Overdue
<1>0. S \in SUBSET ActiveAttempts
  BY DEF Overdue, WorkInv, LiveAttemptsOwnTheirUnit, ActiveAttempts, TypeOK
<1>1. /\ \A a \in Attempts \ S : attempt'[a] = attempt[a]
      /\ \A a \in S : attempt'[a] \notin LiveStates \union {"none"}
  BY <1>0 DEF RecoverExpiredAttempts, LiveStates, ActiveAttempts
<1>2. \A u \in Units : current'[u] = IF current[u] \in S THEN None ELSE current[u]
  BY DEF RecoverExpiredAttempts
<1>3. \A u \in Units : IF current[u] \in S
                       THEN unit'[u] \notin {"running", "absent"}
                       ELSE /\ unit'[u] = "running" <=> unit[u] = "running"
                            /\ unit'[u] = "absent" <=> unit[u] = "absent"
  BY DEF RecoverExpiredAttempts
<1>4. \A a \in Attempts : outbox'[a] \in {"pending", "leased"} =>
          outbox[a] \in {"pending", "leased"} /\ a \notin S
  BY DEF RecoverExpiredAttempts, RetireOutbox
<1>5. WorkInv' /\ \A u \in Units : unit'[u] = "absent" <=> unit[u] = "absent"
  BY <1>0, <1>1, <1>2, <1>3, <1>4, StopStep DEF RecoverExpiredAttempts,
     budgetVars
<1>6. PlanInv'
  BY <1>5, PlanFrame DEF RecoverExpiredAttempts, planVars
<1> QED
  BY <1>5, <1>6

-----------------------------------------------------------------------------
(* The invariant.                                                          *)

(* Every transaction preserves the invariant.                              *)
LEMMA InvStep ==
    ASSUME TypeOK, PlanInv, WorkInv, [Next]_vars
    PROVE  TypeOK' /\ PlanInv' /\ WorkInv'
<1> USE DEF planVars, unitVars, attemptVars, outboxVars, budgetVars
<1>0. TypeOK' /\ limit \in Nat
  BY TypeStep, BoundsAssumption DEF TypeOK
<1>1. CASE Create
  BY <1>1, <1>0, AsideStep DEF Create
<1>2. CASE CreateProposeApproveStart
  BY <1>2, <1>0, LaunchStep
<1>3. CASE ProposePlan
  BY <1>3, <1>0, ProposeStep
<1>4. ASSUME NEW r \in Revisions, ApprovePlan(r)
      PROVE  PlanInv' /\ WorkInv'
  BY <1>4, <1>0, ApproveStep
<1>5. ASSUME NEW scope \in TokenScopes, IssueApproval(scope)
      PROVE  PlanInv' /\ WorkInv'
  BY <1>5, <1>0, AsideStep DEF IssueApproval
<1>6. ASSUME NEW scope \in TokenScopes, ApprovalExpires(scope)
      PROVE  PlanInv' /\ WorkInv'
  BY <1>6, <1>0, AsideStep DEF ApprovalExpires
<1>7. CASE StartGoal
  BY <1>7, <1>0, AsideStep DEF StartGoal
<1>8. CASE ResumeGoal
  BY <1>8, <1>0, ResumeStep
<1>9. ASSUME NEW target \in RecoveryStates, RecoverUnknownOutcome(target)
      PROVE  PlanInv' /\ WorkInv'
  BY <1>9, <1>0, RecoverStep
<1>10. CASE PauseGoal
  BY <1>10, <1>0, PauseStep
<1>11. CASE CancelGoal
  BY <1>11, <1>0, CancelStep
<1>12. CASE RaiseBudget
  BY <1>12, <1>0, AsideStep DEF RaiseBudget
<1>13. ASSUME NEW u \in Destructive, ApproveDestructiveUnit(u)
      PROVE  PlanInv' /\ WorkInv'
  BY <1>13, <1>0, AsideStep DEF ApproveDestructiveUnit
<1>14. CASE BlockExhaustedGoal
  BY <1>14, <1>0, AsideStep DEF BlockExhaustedGoal
<1>15. ASSUME NEW u \in Units, ClaimNextWork(u)
      PROVE  PlanInv' /\ WorkInv'
  BY <1>15, <1>0, ClaimStep
<1>16. ASSUME NEW batch \in SUBSET Attempts, ClaimOutbox(batch)
      PROVE  PlanInv' /\ WorkInv'
  BY <1>16, <1>0, OutboxStep
     DEF ClaimOutbox
<1>17. ASSUME NEW a \in Attempts, MarkDispatchStarted(a)
      PROVE  PlanInv' /\ WorkInv'
  BY <1>17, <1>0, OutboxStep
     DEF MarkDispatchStarted, Held, Settleable, Active, TypeOK, LiveStates
<1>18. ASSUME NEW a \in Attempts, MarkOutboxDelivered(a)
      PROVE  PlanInv' /\ WorkInv'
  BY <1>18, <1>0, OutboxStep
     DEF MarkOutboxDelivered, Deliver, Held, Settleable, Active, TypeOK, LiveStates
<1>19. ASSUME NEW a \in Attempts, RecordCleanDispatchFailure(a)
      PROVE  PlanInv' /\ WorkInv'
  BY <1>19, <1>0, OutboxStep
     DEF RecordCleanDispatchFailure, Release, Held, TypeOK
<1>20. ASSUME NEW a \in Attempts, RecordAmbiguousDispatchFailure(a)
      PROVE  PlanInv' /\ WorkInv'
  BY <1>20, <1>0, OutboxStep
     DEF RecordAmbiguousDispatchFailure, Release, Held, TypeOK
<1>21. ASSUME NEW a \in Attempts, RecordProbeAbsent(a)
      PROVE  PlanInv' /\ WorkInv'
  BY <1>21, <1>0, OutboxStep
     DEF RecordProbeAbsent, Release, Held, TypeOK
<1>22. ASSUME NEW a \in Attempts, RecordProbeFound(a)
      PROVE  PlanInv' /\ WorkInv'
  BY <1>22, <1>0, OutboxStep
     DEF RecordProbeFound, Deliver, Held, Settleable, Active, TypeOK, LiveStates
<1>23. ASSUME NEW a \in Attempts, RecordProbeUnknown(a)
      PROVE  PlanInv' /\ WorkInv'
  BY <1>23, ProbeUnknownStep
<1>24. ASSUME NEW a \in Attempts, RecordLateDispatchReference(a)
      PROVE  PlanInv' /\ WorkInv'
  BY <1>24, <1>0, AsideStep DEF RecordLateDispatchReference
<1>25. CASE FinalizeGoal
  BY <1>25, <1>0, FinalizeStep
<1>26. ASSUME NEW result \in {"passed", "failed"},
               RecordFinalVerificationResult(result)
      PROVE  PlanInv' /\ WorkInv'
  BY <1>26, <1>0, AsideStep DEF RecordFinalVerificationResult
<1>27. ASSUME NEW a \in Attempts,
               NEW result \in {"passed", "failed"},
               RecordVerificationResult(a, result)
      PROVE  PlanInv' /\ WorkInv'
  BY <1>27, <1>0, AsideStep DEF RecordVerificationResult
<1>28. ASSUME NEW a \in Attempts, ReportCompleted(a)
      PROVE  PlanInv' /\ WorkInv'
  BY <1>28, ReportStep DEF ReportCompleted, UnitStates, Settle, Reconciled,
     Settleable
<1>29. ASSUME NEW a \in Attempts, ReportAmbiguous(a)
      PROVE  PlanInv' /\ WorkInv'
  BY <1>29, ReportStep DEF ReportAmbiguous, UnitStates
<1>30. ASSUME NEW a \in Attempts,
               NEW target \in {"awaiting-decision", "blocked", "needs-replan"},
               ReportEscalated(a, target)
      PROVE  PlanInv' /\ WorkInv'
  BY <1>30, ReportStep DEF ReportEscalated, UnitStates
<1>31. ASSUME NEW a \in Attempts, ReportRequeued(a)
      PROVE  PlanInv' /\ WorkInv'
  BY <1>31, ReportStep DEF ReportRequeued, UnitStates, Settle, Reconciled,
     Settleable
<1>32. ASSUME NEW a \in Attempts, PersistCancellationExternalReference(a)
      PROVE  PlanInv' /\ WorkInv'
  BY <1>32, <1>0, AsideStep DEF PersistCancellationExternalReference
<1>33. ASSUME NEW a \in Attempts, AcknowledgeCancellationRequest(a)
      PROVE  PlanInv' /\ WorkInv'
  BY <1>33, <1>0, AsideStep DEF AcknowledgeCancellationRequest
<1>34. CASE RecoverExpiredAttempts
  BY <1>34, <1>0, RecoveryStep
<1>35. CASE RecoverExpiredOutboxLeases
  BY <1>35, <1>0, OutboxStep
     DEF RecoverExpiredOutboxLeases
<1>36. ASSUME NEW a \in Attempts, AttemptLeaseExpires(a)
      PROVE  PlanInv' /\ WorkInv'
  BY <1>36, <1>0, AsideStep DEF AttemptLeaseExpires
<1>37. ASSUME NEW a \in Attempts, DispatcherLeaseExpires(a)
      PROVE  PlanInv' /\ WorkInv'
  BY <1>37, <1>0, AsideStep DEF DispatcherLeaseExpires
<1>38. CASE UNCHANGED vars
  BY <1>38, <1>0, AsideStep DEF vars
<1> QED
  BY <1>0, <1>1, <1>2, <1>3, <1>4, <1>5, <1>6, <1>7, <1>8, <1>9, <1>10, <1>11,
     <1>12, <1>13, <1>14, <1>15, <1>16, <1>17, <1>18, <1>19, <1>20, <1>21,
     <1>22, <1>23, <1>24, <1>25, <1>26, <1>27, <1>28, <1>29, <1>30, <1>31,
     <1>32, <1>33, <1>34, <1>35, <1>36, <1>37, <1>38
     DEF Next, Operator, Dispatcher, Reconciler, Recovery, Time

(* The first state satisfies the invariant.                                *)
LEMMA InvInit ==
    Init => IndInv
<1> SUFFICES ASSUME Init PROVE IndInv
  OBVIOUS
<1>1. TypeOK
  <2>1. overrun \in BOOLEAN
    BY Zenon DEF Init
  <2>2. used \in 0 .. MaxLimit
    BY BoundsAssumption DEF Init
  <2> QED
    BY <2>1, <2>2
       DEF Init, TypeOK, GoalStates, UnitStates, AttemptStates, OutboxStates,
           CancellationStates
<1>2. RevisionsAreNumbered
  <2>1. {r \in Revisions : planStatus[r] # "none"} = {}
    BY DEF Init
  <2>2. LatestRevision = 0
    BY <2>1, FS_EmptySet DEF LatestRevision
  <2> QED
    BY <2>2, BoundsAssumption DEF Init, RevisionsAreNumbered, Revisions
<1>3. OneApprovedPlan
  BY PlanAssumption DEF Init, OneApprovedPlan, Revisions, None
<1>4. AttemptsArePaidFor
  BY BoundsAssumption DEF Init, AttemptsArePaidFor, Attempts
<1>5. LiveAttemptsOwnTheirUnit /\ OutboxFollowsAttempt
  BY DEF Init, LiveAttemptsOwnTheirUnit, OutboxFollowsAttempt, LiveStates, None
<1> QED
  BY <1>1, <1>2, <1>3, <1>4, <1>5 DEF IndInv

(* IndInv is an invariant of every goal.                                   *)
THEOREM InvariantHolds ==
    Spec => []IndInv
<1>1. IndInv /\ [Next]_vars => IndInv'
  BY InvStep DEF IndInv, PlanInv, WorkInv
<1> QED
  BY InvInit, <1>1, PTL DEF Spec

(* Every transaction leaves rows of the states the schema's CHECK          *)
(* constraints allow, and claims only attempts the budget has room for.    *)
THEOREM TypeCorrect ==
    Spec => []TypeOK
<1>1. IndInv => TypeOK
  BY DEF IndInv
<1> QED
  BY InvariantHolds, <1>1, PTL

(* An attempt is live exactly while it is the active attempt of its unit,  *)
(* so no unit is ever worked on by two attempts, whatever expires, is      *)
(* fenced or answers late.                                                 *)
THEOREM OneLiveAttemptPerUnit ==
    Spec => []LiveAttemptsOwnTheirUnit
<1>1. IndInv => LiveAttemptsOwnTheirUnit
  BY DEF IndInv
<1> QED
  BY InvariantHolds, <1>1, PTL

(* No command of a fenced, settled or recovered attempt stays in the       *)
(* outbox for a dispatcher to deliver.                                     *)
THEOREM NothingIsDispatchedForDeadAttempts ==
    Spec => []OutboxFollowsAttempt
<1>1. IndInv => OutboxFollowsAttempt
  BY DEF IndInv
<1> QED
  BY InvariantHolds, <1>1, PTL

(* The attempt budget is never exceeded.                                   *)
THEOREM BudgetIsKept ==
    Spec => []AttemptsArePaidFor
<1>1. IndInv => AttemptsArePaidFor
  BY DEF IndInv
<1> QED
  BY InvariantHolds, <1>1, PTL

(* At most one revision of a plan is approved, and it is the active one.   *)
THEOREM ActivePlanIsTheApprovedOne ==
    Spec => []OneApprovedPlan
<1>1. IndInv => OneApprovedPlan
  BY DEF IndInv
<1> QED
  BY InvariantHolds, <1>1, PTL
=============================================================================
