------------------------------ MODULE GoalStore ------------------------------
(***************************************************************************)
(* The durable state of one goal of the OpenCode goal supervisor and every *)
(* transaction of packages/opencode-goal-supervisor/src/store.ts that      *)
(* changes it.  A transaction is one SQLite IMMEDIATE transaction, so it   *)
(* is one action: its throws are its guards, and a throw changes nothing.  *)
(*                                                                         *)
(* Next lets the callers (the daemon's loops, a dispatcher whose lease was *)
(* lost, an operator's CLI, doctor) issue any transaction at any time.     *)
(* What is invariant here does not depend on how they schedule their       *)
(* calls, only on which call supervisor.ts makes after which answer.       *)
(*                                                                         *)
(* Wall-clock time is abstracted to the one thing the code asks of it: has *)
(* a lease run out, has an approval run out, has a budget run out.         *)
(* renewAttempt only moves an expiry into the future, so it needs no       *)
(* action: AttemptLeaseExpires may happen later.                           *)
(***************************************************************************)
EXTENDS Integers, FiniteSets

CONSTANTS
    Units,          \* work units, of every plan revision
    NoUnit,         \* "no work unit": an attempt not created yet
    MaxRevision,    \* bound: how many plan revisions are ever proposed
    MaxLimit,       \* bound: the highest attempt budget; also names attempts
    Concurrency,    \* daemon option: attempts that may be active at once
    MaxApprovals,   \* bound: unused action tokens that exist at once
    TokenScopes,    \* bound: the scopes operators issue tokens for
    Revision,       \* Revision[u]: the plan revision that materializes u
    Deps,           \* Deps[u]: the units u depends on
    Required,       \* units whose plan entry says required
    Destructive     \* units whose plan entry says destructive

Attempts  == 1 .. MaxLimit
Revisions == 1 .. MaxRevision
None      == 0          \* SQL NULL in work_units.active_attempt_id and goals.active_plan_id

ASSUME UnitsAssumption ==
    /\ NoUnit \notin Units
    /\ IsFiniteSet(Units)

ASSUME BoundsAssumption ==
    /\ MaxRevision \in Nat \ {0}
    /\ MaxLimit \in Nat \ {0}
    /\ Concurrency \in Nat \ {0}
    /\ MaxApprovals \in Nat

(* validateAcyclicPlan accepts a plan only if dependencies stay inside it. *)
ASSUME PlanAssumption ==
    /\ Revision \in [Units -> Revisions]
    /\ Deps \in [Units -> SUBSET Units]
    /\ \A u \in Units : \A d \in Deps[u] : d # u /\ Revision[d] = Revision[u]
    /\ Required \subseteq Units
    /\ Destructive \subseteq Units

VARIABLES
    goal,               \* goals.state, or "absent" before create
    activePlan,         \* goals.active_plan_id, as its revision
    planStatus,         \* plans.status by revision
    parent,             \* plans.parent_plan_id by revision
    finalResult,        \* result of the required final verification, by plan
    unit,               \* work_units.state
    current,            \* work_units.active_attempt_id
    destructiveApproved,\* work_units.approved_at IS NOT NULL
    attempt,            \* work_attempts.state
    unitOf,             \* work_attempts.work_unit_id
    expired,            \* attempts with lease_expires_at <= now
    verified,           \* result of the unit's required verification, by attempt
    outbox,             \* outbox.state, by attempt
    dispatcherExpired,  \* leased outbox rows with lease_expires_at <= now
    needsProbe,         \* outbox.needs_probe
    started,            \* outbox.dispatch_started_at IS NOT NULL
    ref,                \* outbox.external_ref IS NOT NULL
    cancellation,       \* cancellation_requests.state, by attempt
    used,               \* goal_budget_usage.attempts
    limit,              \* goal_budgets.max_attempts
    overrun,            \* wall clock, verification or tokens at their limit
    approvals           \* scopes of the unconsumed, unexpired action tokens

planVars     == <<activePlan, planStatus, parent, finalResult>>
unitVars     == <<unit, current, destructiveApproved>>
attemptVars  == <<attempt, unitOf, expired, verified>>
outboxVars   == <<outbox, dispatcherExpired, needsProbe, started, ref>>
budgetVars   == <<used, limit, overrun>>
vars == <<goal, planVars, unitVars, attemptVars, outboxVars, cancellation,
          budgetVars, approvals>>

GoalStates == {"absent", "draft", "ready", "executing", "paused",
    "needs-replan", "awaiting-decision", "blocked", "unknown-outcome",
    "achieved", "cancelled"}
UnitStates == {"absent", "queued", "running", "verifying", "accepted",
    "failed", "cancelled", "unknown-outcome"}
LiveStates == {"leased", "dispatched", "running", "verifying"}
AttemptStates == LiveStates \union {"none", "succeeded", "failed", "expired",
    "cancelled", "unknown-outcome"}
OutboxStates == {"none", "pending", "leased", "delivered", "cancelled", "retired"}
CancellationStates == {"none", "pending", "acknowledged"}
RecoveryStates == {"ready", "executing", "paused", "needs-replan",
    "awaiting-decision", "blocked", "cancelled"}
Scopes == {"start", "resume", "blocked-resume", "recover", "raise-budget"}
              \union Destructive

ASSUME TokenAssumption == TokenScopes \subseteq Scopes

TypeOK ==
    /\ goal \in GoalStates
    /\ activePlan \in Revisions \union {None}
    /\ planStatus \in [Revisions -> {"none", "proposed", "approved", "superseded"}]
    /\ parent \in [Revisions -> Revisions \union {None}]
    /\ finalResult \in [Revisions -> {"none", "passed", "failed"}]
    /\ unit \in [Units -> UnitStates]
    /\ current \in [Units -> Attempts \union {None}]
    /\ destructiveApproved \subseteq Destructive
    /\ attempt \in [Attempts -> AttemptStates]
    /\ unitOf \in [Attempts -> Units \union {NoUnit}]
    /\ expired \subseteq Attempts
    /\ verified \in [Attempts -> {"none", "passed", "failed"}]
    /\ outbox \in [Attempts -> OutboxStates]
    /\ dispatcherExpired \subseteq Attempts
    /\ needsProbe \subseteq Attempts
    /\ started \subseteq Attempts
    /\ ref \subseteq Attempts
    /\ cancellation \in [Attempts -> CancellationStates]
    /\ used \in 0 .. MaxLimit
    /\ limit \in 1 .. MaxLimit
    /\ overrun \in BOOLEAN
    /\ approvals \subseteq TokenScopes

-----------------------------------------------------------------------------
(* What the transactions ask of the state.                                 *)

(* The WHERE clause that fences every call of a worker: the attempt is in  *)
(* a live state and is still its unit's active attempt.                    *)
Active(a) ==
    /\ attempt[a] \in LiveStates
    /\ unitOf[a] \in Units
    /\ current[unitOf[a]] = a

ActiveAttempts == {a \in Attempts : Active(a)}

(* An attempt that may still be renewed, verified or settled.              *)
Settleable(a) == Active(a) /\ a \notin expired /\ goal = "executing"

(* reconcileActive reads the outcome of attempts that have a session       *)
(* reference, and of no other.                                             *)
Reconciled(a) == Settleable(a) /\ a \in ref

(* #leasedOutbox: the caller holds the unexpired dispatcher lease.         *)
Held(a) ==
    /\ outbox[a] = "leased"
    /\ a \notin dispatcherExpired
    /\ Settleable(a)

(* Bug variant: the boundary mark alone counts for nothing.                *)
EvidenceOfDelivery(a) == outbox[a] = "delivered" \/ a \in ref

(* Durable evidence that an external call may have happened.               *)
Evidence(a) == a \in started \/ outbox[a] = "delivered" \/ a \in ref

(* Bug variant: one attempt beyond the limit.                              *)
BudgetNotExceeded == used <= limit /\ ~overrun

BudgetLeft == used < limit /\ ~overrun

LatestRevision == Cardinality({r \in Revisions : planStatus[r] # "none"})

UnitsOfPlan(r) == {u \in Units : Revision[u] = r}

RequiredWorkAccepted ==
    \A u \in UnitsOfPlan(activePlan) \intersect Required : unit[u] = "accepted"

(* Bug variant: dependencies are not asked for.                            *)
ClaimableOutOfOrder(u) ==
    /\ unit[u] = "queued"
    /\ current[u] = None
    /\ Revision[u] = activePlan
    /\ u \in Destructive => u \in destructiveApproved

Claimable(u) ==
    /\ unit[u] = "queued"
    /\ current[u] = None
    /\ Revision[u] = activePlan
    /\ u \in Destructive => u \in destructiveApproved
    /\ \A d \in Deps[u] : unit[d] = "accepted"

-----------------------------------------------------------------------------
(* How the transactions write the tables.                                  *)

(* Bug variant: rows a dispatcher holds are left to it.                    *)
RetirePendingOnly(S, state) ==
    /\ outbox' = [a \in Attempts |->
                     IF a \in S /\ outbox[a] = "pending" THEN state ELSE outbox[a]]
    /\ dispatcherExpired' = dispatcherExpired \ S
    /\ needsProbe' = needsProbe \ S

(* Pending and leased rows of the attempts in S leave the outbox, and the  *)
(* columns that only mean something while a row is in it are dropped.      *)
RetireOutbox(S, state) ==
    /\ outbox' = [a \in Attempts |->
                     IF a \in S /\ outbox[a] \in {"pending", "leased"}
                     THEN state ELSE outbox[a]]
    /\ dispatcherExpired' = dispatcherExpired \ S
    /\ needsProbe' = needsProbe \ S

(* The attempts in S stop; nobody asks for their lease any more.           *)
SettleAttempts(S, state) ==
    /\ attempt' = [a \in Attempts |-> IF a \in S THEN state ELSE attempt[a]]
    /\ expired' = expired \ S

(* Bug variant: active_attempt_id is not cleared.                          *)
ReleaseUnitsKeepingAttempt(S, state) ==
    /\ unit' = [u \in Units |-> IF current[u] \in S THEN state ELSE unit[u]]
    /\ UNCHANGED current

(* The units those attempts were the active attempt of are released.       *)
ReleaseUnits(S, state) ==
    /\ unit' = [u \in Units |-> IF current[u] \in S THEN state ELSE unit[u]]
    /\ current' = [u \in Units |-> IF current[u] \in S THEN None ELSE current[u]]

(* Bug variants: only sessions with a known reference are asked for; every *)
(* dispatched attempt is.                                                  *)
RequestKnownSessions(S) ==
    cancellation' = [a \in Attempts |->
                        IF a \in S \intersect ref THEN "pending" ELSE cancellation[a]]

RequestEveryDispatched(S) ==
    cancellation' = [a \in Attempts |->
                        IF a \in S \union started THEN "pending" ELSE cancellation[a]]

(* INSERT OR IGNORE of a pending cancellation request.                     *)
RequestCancellation(S) ==
    cancellation' = [a \in Attempts |-> IF a \in S THEN "pending" ELSE cancellation[a]]

(* Bug variant: a token can be used again.                                 *)
CheckApproval(scope) == scope \in approvals /\ UNCHANGED approvals

(* #consumeApproval: the token exists, has this scope, is unexpired and    *)
(* unused; it is used now.                                                 *)
ConsumeApproval(scope) ==
    /\ scope \in approvals
    /\ approvals' = approvals \ {scope}

-----------------------------------------------------------------------------
(* Goals, plans and approvals: what operators do.                          *)

Init ==
    /\ goal = "absent"
    /\ activePlan = None
    /\ planStatus = [r \in Revisions |-> "none"]
    /\ parent = [r \in Revisions |-> None]
    /\ finalResult = [r \in Revisions |-> "none"]
    /\ unit = [u \in Units |-> "absent"]
    /\ current = [u \in Units |-> None]
    /\ destructiveApproved = {}
    /\ attempt = [a \in Attempts |-> "none"]
    /\ unitOf = [a \in Attempts |-> NoUnit]
    /\ expired = {}
    /\ verified = [a \in Attempts |-> "none"]
    /\ outbox = [a \in Attempts |-> "none"]
    /\ dispatcherExpired = {}
    /\ needsProbe = {}
    /\ started = {}
    /\ ref = {}
    /\ cancellation = [a \in Attempts |-> "none"]
    /\ used = 0
    /\ limit \in 1 .. MaxLimit
    /\ overrun = FALSE
    /\ approvals = {}

Create ==
    /\ goal = "absent"
    /\ goal' = "draft"
    /\ UNCHANGED <<planVars, unitVars, attemptVars, outboxVars, cancellation,
                   budgetVars, approvals>>

(* The confirmed TUI launch: create, propose, approve and start at once.   *)
CreateProposeApproveStart ==
    /\ goal = "absent"
    /\ goal' = "executing"
    /\ activePlan' = 1
    /\ planStatus' = [planStatus EXCEPT ![1] = "approved"]
    /\ unit' = [u \in Units |-> IF Revision[u] = 1 THEN "queued" ELSE unit[u]]
    /\ UNCHANGED <<parent, finalResult, current, destructiveApproved,
                   attemptVars, outboxVars, cancellation, budgetVars, approvals>>

ProposePlan ==
    /\ goal \in {"draft", "needs-replan"}
    /\ LatestRevision < MaxRevision
    /\ LET r == LatestRevision + 1 IN
         /\ planStatus' = [planStatus EXCEPT ![r] = "proposed"]
         /\ parent' = [parent EXCEPT ![r] = activePlan]
    /\ UNCHANGED <<goal, activePlan, finalResult, unitVars, attemptVars,
                   outboxVars, cancellation, budgetVars, approvals>>

(* Approval supersedes the approved plan, if there is one.                 *)
Approved(r) ==
    [q \in Revisions |-> IF q = r THEN "approved"
                         ELSE IF planStatus[q] = "approved" THEN "superseded"
                         ELSE planStatus[q]]

(* Bug variant: a proposal that was overtaken can still be approved.       *)
ApproveAnyProposal(r) ==
    /\ goal \in {"draft", "needs-replan"}
    /\ planStatus[r] = "proposed"
    /\ goal = "needs-replan" => activePlan # None
    /\ goal' = "ready"
    /\ activePlan' = r
    /\ planStatus' = Approved(r)
    /\ unit' = [u \in Units |-> IF Revision[u] = r THEN "queued" ELSE unit[u]]
    /\ UNCHANGED <<parent, finalResult, current, destructiveApproved,
                   attemptVars, outboxVars, cancellation, budgetVars, approvals>>

(* Only the newest proposal, and only if it revises the active plan.       *)
ApprovePlan(r) ==
    /\ goal \in {"draft", "needs-replan"}
    /\ planStatus[r] = "proposed"
    /\ r = LatestRevision
    /\ parent[r] = activePlan
    /\ goal = "needs-replan" => activePlan # None
    /\ goal' = "ready"
    /\ activePlan' = r
    /\ planStatus' = Approved(r)
    /\ unit' = [u \in Units |-> IF Revision[u] = r THEN "queued" ELSE unit[u]]
    /\ UNCHANGED <<parent, finalResult, current, destructiveApproved,
                   attemptVars, outboxVars, cancellation, budgetVars, approvals>>

IssueApproval(scope) ==
    /\ goal # "absent"
    /\ Cardinality(approvals) < MaxApprovals
    /\ scope \in Units => unit[scope] # "absent"
    /\ approvals' = approvals \union {scope}
    /\ UNCHANGED <<goal, planVars, unitVars, attemptVars, outboxVars,
                   cancellation, budgetVars>>

ApprovalExpires(scope) ==
    /\ scope \in approvals
    /\ approvals' = approvals \ {scope}
    /\ UNCHANGED <<goal, planVars, unitVars, attemptVars, outboxVars,
                   cancellation, budgetVars>>

StartGoal ==
    /\ ConsumeApproval("start")
    /\ goal = "ready"
    /\ activePlan # None
    /\ goal' = "executing"
    /\ UNCHANGED <<planVars, unitVars, attemptVars, outboxVars, cancellation,
                   budgetVars>>

(* A resume also requeues the active plan's failed units.                  *)
Requeueable(u) == Revision[u] = activePlan /\ unit[u] = "failed"

ResumeGoal ==
    /\ \/ goal \in {"paused", "awaiting-decision"} /\ ConsumeApproval("resume")
       \/ goal = "blocked" /\ ConsumeApproval("blocked-resume")
    /\ goal' = "executing"
    /\ unit' = [u \in Units |-> IF Requeueable(u) THEN "queued" ELSE unit[u]]
    /\ UNCHANGED <<planVars, current, destructiveApproved, attemptVars,
                   outboxVars, cancellation, budgetVars>>

RecoverUnknownOutcome(target) ==
    /\ ConsumeApproval("recover")
    /\ goal = "unknown-outcome"
    /\ goal' = target
    /\ LET state == IF target \in {"ready", "executing"} THEN "queued"
                    ELSE IF target = "cancelled" THEN "cancelled" ELSE "failed"
           lost  == {u \in Units : unit[u] = "unknown-outcome"}
       IN  /\ unit' = [u \in Units |-> IF u \in lost THEN state ELSE unit[u]]
           /\ current' = [u \in Units |-> IF u \in lost THEN None ELSE current[u]]
    /\ UNCHANGED <<planVars, destructiveApproved, attemptVars, outboxVars,
                   cancellation, budgetVars>>

(* #fenceGoal: every active attempt is cancelled, its outbox row leaves,   *)
(* and an attempt that may have reached OpenCode gets a cancellation       *)
(* request.                                                                *)
Fence(requeue) ==
    LET fenced == ActiveAttempts
        ended  == {u \in Units : \/ current[u] \in fenced
                                 \/ unit[u] \in {"queued", "running",
                                                 "verifying", "failed"}}
    IN  /\ SettleAttempts(fenced, "cancelled")
        /\ RetireOutbox(fenced, "cancelled")
        /\ RequestCancellation({a \in fenced :
               a \in started \/ a \in ref \/ attempt[a] # "leased"})
        /\ IF requeue
           THEN ReleaseUnits(fenced, "queued")
           ELSE /\ unit' = [u \in Units |->
                               IF u \in ended THEN "cancelled" ELSE unit[u]]
                /\ current' = [u \in Units |->
                                  IF u \in ended THEN None ELSE current[u]]
        /\ UNCHANGED <<planVars, destructiveApproved, unitOf, verified, started,
                       ref, budgetVars, approvals>>

PauseGoal ==
    /\ goal \in {"ready", "executing", "awaiting-decision"}
    /\ goal' = "paused"
    /\ Fence(TRUE)

(* Bug variant: an achieved goal can be cancelled.                         *)
CancelAnyGoal ==
    /\ goal \notin {"absent", "unknown-outcome", "cancelled"}
    /\ goal' = "cancelled"
    /\ Fence(FALSE)

CancelGoal ==
    /\ goal \notin {"absent", "unknown-outcome", "achieved", "cancelled"}
    /\ goal' = "cancelled"
    /\ Fence(FALSE)

(* setBudget refuses a lower limit; the other three limits may be raised   *)
(* or left where they are.                                                 *)
RaiseBudget ==
    /\ ConsumeApproval("raise-budget")
    /\ goal # "absent"
    /\ limit' \in limit .. MaxLimit
    /\ overrun' \in {FALSE, overrun}
    /\ UNCHANGED <<goal, planVars, unitVars, attemptVars, outboxVars,
                   cancellation, used>>

ApproveDestructiveUnit(u) ==
    /\ unit[u] # "absent"
    /\ u \notin destructiveApproved
    /\ ConsumeApproval(u)
    /\ destructiveApproved' = destructiveApproved \union {u}
    /\ UNCHANGED <<goal, planVars, unit, current, attemptVars, outboxVars,
                   cancellation, budgetVars>>

-----------------------------------------------------------------------------
(* Claiming and dispatching.                                               *)

(* claimNextWork refuses an exhausted goal by blocking it ...              *)
BlockExhaustedGoal ==
    /\ Cardinality(ActiveAttempts) < Concurrency
    /\ goal = "executing"
    /\ ~BudgetLeft
    /\ goal' = "blocked"
    /\ UNCHANGED <<planVars, unitVars, attemptVars, outboxVars, cancellation,
                   budgetVars, approvals>>

(* ... and otherwise leases one queued unit to a new attempt.  The daemon  *)
(* calls it only while fewer than Concurrency attempts are active.         *)
ClaimNextWork(u) ==
    LET a == used + 1 IN
    /\ Cardinality(ActiveAttempts) < Concurrency
    /\ goal = "executing"
    /\ BudgetLeft
    /\ Claimable(u)
    /\ unit' = [unit EXCEPT ![u] = "running"]
    /\ current' = [current EXCEPT ![u] = a]
    /\ attempt' = [attempt EXCEPT ![a] = "leased"]
    /\ unitOf' = [unitOf EXCEPT ![a] = u]
    /\ outbox' = [outbox EXCEPT ![a] = "pending"]
    /\ used' = used + 1
    /\ UNCHANGED <<goal, planVars, destructiveApproved, expired, verified,
                   dispatcherExpired, needsProbe, started, ref, cancellation,
                   limit, overrun, approvals>>

(* claimOutbox retires every row that can no longer be dispatched and      *)
(* leases a batch of the ones that can.  A row taken over from a           *)
(* dispatcher that crossed the boundary must be probed first.              *)
ClaimOutbox(batch) ==
    LET stale == {a \in Attempts :
                    /\ outbox[a] \in {"pending", "leased"}
                    /\ ~Settleable(a)}
        due(a) == /\ \/ outbox[a] = "pending"
                     \/ outbox[a] = "leased" /\ a \in dispatcherExpired
                  /\ Settleable(a)
    IN  /\ \A a \in batch : due(a)
        /\ batch \union stale # {}
        /\ outbox' = [a \in Attempts |-> IF a \in batch THEN "leased"
                                         ELSE IF a \in stale THEN "retired"
                                         ELSE outbox[a]]
        /\ dispatcherExpired' = dispatcherExpired \ (batch \union stale)
        /\ needsProbe' = (needsProbe \ stale) \union
               {a \in batch : outbox[a] = "leased" /\ a \in started}
        /\ UNCHANGED <<goal, planVars, unitVars, attemptVars, started, ref,
                       cancellation, budgetVars, approvals>>

(* The durable boundary: dispatchPending writes it before it calls the     *)
(* adapter, for a row that needs no probe.                                 *)
MarkDispatchStarted(a) ==
    /\ Held(a)
    /\ a \notin needsProbe
    /\ started' = started \union {a}
    /\ attempt' = IF attempt[a] = "leased"
                  THEN [attempt EXCEPT ![a] = "dispatched"] ELSE attempt
    /\ UNCHANGED <<goal, planVars, unitVars, unitOf, expired, verified, outbox,
                   dispatcherExpired, needsProbe, ref, cancellation, budgetVars,
                   approvals>>

(* The row is delivered, with the session's reference, and its attempt     *)
(* runs.                                                                   *)
Deliver(a) ==
    /\ Held(a)
    /\ outbox' = [outbox EXCEPT ![a] = "delivered"]
    /\ attempt' = IF attempt[a] \in {"leased", "dispatched"}
                  THEN [attempt EXCEPT ![a] = "running"] ELSE attempt
    /\ ref' = ref \union {a}
    /\ needsProbe' = needsProbe \ {a}
    /\ UNCHANGED <<goal, planVars, unitVars, unitOf, expired, verified,
                   dispatcherExpired, started, cancellation, budgetVars,
                   approvals>>

MarkOutboxDelivered(a) ==
    /\ a \notin needsProbe
    /\ a \in started
    /\ Deliver(a)

(* The probe found the session, active or completed.                       *)
RecordProbeFound(a) ==
    /\ a \in needsProbe
    /\ Deliver(a)

(* The row goes back for another try.                                      *)
Release(a) ==
    /\ Held(a)
    /\ outbox' = [outbox EXCEPT ![a] = "pending"]
    /\ UNCHANGED <<goal, planVars, unitVars, attemptVars, dispatcherExpired,
                   ref, cancellation, budgetVars, approvals>>

(* The adapter failed before any external side effect, or dispatchPending  *)
(* had read the goal as not executing when it took the row up: the row     *)
(* goes back as one that was never dispatched, whatever it was before.     *)
RecordCleanDispatchFailure(a) ==
    /\ Release(a)
    /\ started' = started \ {a}
    /\ needsProbe' = needsProbe \ {a}

(* Bug variant: an ambiguous failure is retried like a clean one.          *)
RetryWithoutProbe(a) ==
    /\ a \notin needsProbe
    /\ Release(a)
    /\ UNCHANGED <<needsProbe, started>>

(* Any other failure of a dispatch: the next holder probes first.          *)
RecordAmbiguousDispatchFailure(a) ==
    /\ a \notin needsProbe
    /\ Release(a)
    /\ needsProbe' = needsProbe \union {a}
    /\ UNCHANGED started

RecordProbeAbsent(a) ==
    /\ a \in needsProbe
    /\ Release(a)
    /\ needsProbe' = needsProbe \ {a}
    /\ started' = started \ {a}

(* The probe was inconclusive, invalid or failed: #markUnknownOutcome.     *)
RecordProbeUnknown(a) ==
    /\ Held(a)
    /\ a \in needsProbe
    /\ goal' = "unknown-outcome"
    /\ SettleAttempts({a}, "unknown-outcome")
    /\ ReleaseUnits({a}, "unknown-outcome")
    /\ RetireOutbox({a}, "retired")
    /\ UNCHANGED <<planVars, destructiveApproved, unitOf, verified, started,
                   ref, cancellation, budgetVars, approvals>>

-----------------------------------------------------------------------------
(* Outcomes, verification and achievement.                                 *)

(* A requirement is recorded once per attempt: the index is unique.        *)
RecordVerificationResult(a, result) ==
    /\ Reconciled(a)
    /\ verified[a] = "none"
    /\ verified' = [verified EXCEPT ![a] = result]
    /\ overrun' \in {overrun, TRUE}
    /\ UNCHANGED <<goal, planVars, unitVars, attempt, unitOf, expired,
                   outboxVars, cancellation, used, limit, approvals>>

(* #verifyAndFinalizeGoal runs a final requirement once per plan, after    *)
(* every required unit is accepted, and keeps whatever it found.           *)
RecordFinalVerificationResult(result) ==
    /\ goal = "executing"
    /\ activePlan # None
    /\ RequiredWorkAccepted
    /\ finalResult[activePlan] = "none"
    /\ finalResult' = [finalResult EXCEPT ![activePlan] = result]
    /\ overrun' \in {overrun, TRUE}
    /\ UNCHANGED <<goal, activePlan, planStatus, parent, unitVars, attemptVars,
                   outboxVars, cancellation, used, limit, approvals>>

(* reportOutcome: the attempt is over, its unit is released, its row       *)
(* retired and its elapsed time counted.                                   *)
Settle(a, attemptState, unitState) ==
    /\ Reconciled(a)
    /\ overrun' \in {overrun, TRUE}
    /\ SettleAttempts({a}, attemptState)
    /\ ReleaseUnits({a}, unitState)
    /\ RetireOutbox({a}, "retired")
    /\ UNCHANGED <<planVars, destructiveApproved, unitOf, verified, started,
                   ref, cancellation, used, limit, approvals>>

(* Bug variant: verifications have to have run.                            *)
VerificationRan(a) == verified[a] # "none"

(* Every required verification of the unit passed for this very attempt.   *)
Verified(a) == verified[a] = "passed"

ReportCompleted(a) ==
    /\ Verified(a)
    /\ Settle(a, "succeeded", "accepted")
    /\ UNCHANGED goal

(* Anything else goes by the viability policy, in its order of precedence. *)
(* Ambiguity comes first; a failure that is only classified as ambiguous   *)
(* leaves the attempt failed.                                              *)
ReportAmbiguous(a) ==
    /\ \E state \in {"failed", "unknown-outcome"} : Settle(a, state, "unknown-outcome")
    /\ goal' = "unknown-outcome"

(* Then credentials, then blockers and the spent budget, then replanning.  *)
(* Which of them the outcome names, and whether fingerprints or digests    *)
(* repeat, is the agent's data; a spent budget leaves no replan.           *)
ReportEscalated(a, target) ==
    /\ Settle(a, "failed", "failed")
    /\ target = "needs-replan" => used < limit /\ ~overrun'
    /\ goal' = target

(* A failure with no condition to escalate is simply tried again.          *)
ReportRequeued(a) ==
    /\ Settle(a, "failed", "queued")
    /\ used < limit /\ ~overrun'
    /\ UNCHANGED goal

(* Bug variant: a failed final verification will do.                       *)
FinalizeGoalOnAnyResult ==
    LET residual == ActiveAttempts IN
    /\ goal = "executing"
    /\ activePlan # None
    /\ RequiredWorkAccepted
    /\ finalResult[activePlan] # "none"
    /\ goal' = "achieved"
    /\ RequestCancellation({a \in residual : Evidence(a)})
    /\ SettleAttempts(residual, "cancelled")
    /\ ReleaseUnits(residual, "cancelled")
    /\ RetireOutbox(residual, "retired")
    /\ UNCHANGED <<planVars, destructiveApproved, unitOf, verified, started,
                   ref, budgetVars, approvals>>

FinalizeGoal ==
    LET residual == ActiveAttempts IN
    /\ goal = "executing"
    /\ activePlan # None
    /\ RequiredWorkAccepted
    /\ finalResult[activePlan] = "passed"
    /\ goal' = "achieved"
    /\ RequestCancellation({a \in residual : Evidence(a)})
    /\ SettleAttempts(residual, "cancelled")
    /\ ReleaseUnits(residual, "cancelled")
    /\ RetireOutbox(residual, "retired")
    /\ UNCHANGED <<planVars, destructiveApproved, unitOf, verified, started,
                   ref, budgetVars, approvals>>

-----------------------------------------------------------------------------
(* Cancellation and late references.                                       *)

PersistCancellationExternalReference(a) ==
    /\ cancellation[a] = "pending"
    /\ ref' = ref \union {a}
    /\ UNCHANGED <<goal, planVars, unitVars, attemptVars, outbox,
                   dispatcherExpired, needsProbe, started, cancellation,
                   budgetVars, approvals>>

AcknowledgeCancellationRequest(a) ==
    /\ cancellation[a] = "pending"
    /\ cancellation' = [cancellation EXCEPT ![a] = "acknowledged"]
    /\ UNCHANGED <<goal, planVars, unitVars, attemptVars, outboxVars,
                   budgetVars, approvals>>

(* Bug variant: a settled request stays settled.                           *)
LateReferenceOnly(a) ==
    /\ a \in started
    /\ ref' = ref \union {a}
    /\ UNCHANGED <<goal, planVars, unitVars, attemptVars, outbox,
                   dispatcherExpired, needsProbe, started, cancellation,
                   budgetVars, approvals>>

(* The reference of a dispatch whose lease was lost meanwhile.  A request  *)
(* that was settled without it is reopened.                                *)
RecordLateDispatchReference(a) ==
    /\ a \in started
    /\ ref' = ref \union {a}
    /\ cancellation' = IF cancellation[a] = "none" THEN cancellation
                       ELSE [cancellation EXCEPT ![a] = "pending"]
    /\ UNCHANGED <<goal, planVars, unitVars, attemptVars, outbox,
                   dispatcherExpired, needsProbe, started, budgetVars, approvals>>

-----------------------------------------------------------------------------
(* Time, and the recoveries of startupReconcile.                           *)

AttemptLeaseExpires(a) ==
    /\ attempt[a] \in LiveStates
    /\ a \notin expired
    /\ expired' = expired \union {a}
    /\ UNCHANGED <<goal, planVars, unitVars, attempt, unitOf, verified,
                   outboxVars, cancellation, budgetVars, approvals>>

DispatcherLeaseExpires(a) ==
    /\ outbox[a] = "leased"
    /\ a \notin dispatcherExpired
    /\ dispatcherExpired' = dispatcherExpired \union {a}
    /\ UNCHANGED <<goal, planVars, unitVars, attemptVars, outbox, needsProbe,
                   started, ref, cancellation, budgetVars, approvals>>

(* Bug variant: attempts that may have been dispatched are left alone.     *)
OverdueIdle == {a \in expired : attempt[a] \in LiveStates /\ ~Evidence(a)}

Overdue == {a \in expired : attempt[a] \in LiveStates}

(* recoverExpiredAttempts, in one transaction for every overdue attempt:   *)
(* one that may have been dispatched is lost, an idle one is requeued if   *)
(* the goal is viable.  goal_state and the budget are read once, before    *)
(* the loop, while each transition is decided from the goal as the loop    *)
(* has left it.  So once the budget is spent, each idle row blocks the     *)
(* goal, "block" is illegal from blocked and from unknown-outcome, and a   *)
(* second idle row (or a lost row visited before the idle one) throws the  *)
(* whole transaction away.  The rows come in no declared order.            *)
RecoverExpiredAttempts ==
    LET lost   == {a \in Overdue : Evidence(a)}
        idle   == Overdue \ lost
        viable == goal = "executing" /\ BudgetLeft
        blocks == goal = "executing" /\ ~viable /\ idle # {}
    IN  /\ Overdue # {}
        /\ blocks => Cardinality(idle) = 1
        /\ goal' = IF blocks THEN "blocked"
                   ELSE IF goal = "executing" /\ lost # {} THEN "unknown-outcome"
                   ELSE goal
        /\ attempt' = [a \in Attempts |-> IF a \in lost THEN "unknown-outcome"
                                          ELSE IF a \in idle THEN "expired"
                                          ELSE attempt[a]]
        /\ unit' = [u \in Units |->
                       IF current[u] \in lost THEN "unknown-outcome"
                       ELSE IF current[u] \in idle
                            THEN IF viable THEN "queued" ELSE "failed"
                       ELSE unit[u]]
        /\ current' = [u \in Units |->
                          IF current[u] \in Overdue THEN None ELSE current[u]]
        /\ expired' = expired \ Overdue
        /\ RetireOutbox(Overdue, "retired")
        /\ UNCHANGED <<planVars, destructiveApproved, unitOf, verified, started,
                       ref, cancellation, budgetVars, approvals>>

(* Where an order of the rows makes that transaction throw: the budget is  *)
(* spent, and besides an idle row there is another one to visit before it. *)
RecoveryMayThrow ==
    /\ goal = "executing"
    /\ ~BudgetLeft
    /\ \E a \in Overdue : ~Evidence(a)
    /\ Cardinality(Overdue) > 1

RecoverExpiredOutboxLeases ==
    LET rows         == {a \in dispatcherExpired : outbox[a] = "leased"}
        dispatchable == {a \in rows : Settleable(a)}
    IN  /\ rows # {}
        /\ outbox' = [a \in Attempts |-> IF a \in dispatchable THEN "pending"
                                         ELSE IF a \in rows THEN "retired"
                                         ELSE outbox[a]]
        /\ dispatcherExpired' = dispatcherExpired \ rows
        /\ needsProbe' = (needsProbe \ rows) \union
               {a \in dispatchable : a \in needsProbe \/ a \in started}
        /\ UNCHANGED <<goal, planVars, unitVars, attemptVars, started, ref,
                       cancellation, budgetVars, approvals>>

-----------------------------------------------------------------------------
Operator ==
    \/ Create
    \/ CreateProposeApproveStart
    \/ ProposePlan
    \/ \E r \in Revisions : ApprovePlan(r)
    \/ \E scope \in TokenScopes : IssueApproval(scope) \/ ApprovalExpires(scope)
    \/ StartGoal
    \/ ResumeGoal
    \/ \E target \in RecoveryStates : RecoverUnknownOutcome(target)
    \/ PauseGoal
    \/ CancelGoal
    \/ RaiseBudget
    \/ \E u \in Destructive : ApproveDestructiveUnit(u)

Dispatcher ==
    \/ BlockExhaustedGoal
    \/ \E u \in Units : ClaimNextWork(u)
    \/ \E batch \in SUBSET Attempts : ClaimOutbox(batch)
    \/ \E a \in Attempts :
          \/ MarkDispatchStarted(a)
          \/ MarkOutboxDelivered(a)
          \/ RecordCleanDispatchFailure(a)
          \/ RecordAmbiguousDispatchFailure(a)
          \/ RecordProbeAbsent(a)
          \/ RecordProbeFound(a)
          \/ RecordProbeUnknown(a)
          \/ RecordLateDispatchReference(a)

Reconciler ==
    \/ FinalizeGoal
    \/ \E result \in {"passed", "failed"} : RecordFinalVerificationResult(result)
    \/ \E a \in Attempts :
          \/ \E result \in {"passed", "failed"} : RecordVerificationResult(a, result)
          \/ ReportCompleted(a)
          \/ ReportAmbiguous(a)
          \/ \E target \in {"awaiting-decision", "blocked", "needs-replan"} :
                ReportEscalated(a, target)
          \/ ReportRequeued(a)
          \/ PersistCancellationExternalReference(a)
          \/ AcknowledgeCancellationRequest(a)

Recovery == RecoverExpiredAttempts \/ RecoverExpiredOutboxLeases

Time == \E a \in Attempts : AttemptLeaseExpires(a) \/ DispatcherLeaseExpires(a)

Next == Operator \/ Dispatcher \/ Reconciler \/ Recovery \/ Time

Spec == Init /\ [][Next]_vars

-----------------------------------------------------------------------------
(* Safety.                                                                 *)

(* claimNextWork, and everything that ends an attempt, keep                *)
(* work_units.active_attempt_id and work_attempts in step: an attempt is   *)
(* live exactly while it is its unit's active attempt, and a unit runs     *)
(* exactly while it has one.  So one unit never has two live attempts.     *)
LiveAttemptsOwnTheirUnit ==
    /\ \A a \in Attempts : attempt[a] \in LiveStates => Active(a)
    /\ \A u \in Units :
         /\ current[u] # None => /\ attempt[current[u]] \in LiveStates
                                /\ unitOf[current[u]] = u
         /\ unit[u] = "running" <=> current[u] # None

(* Whatever settles or fences an attempt also takes its command out of the *)
(* outbox: nothing is left to deliver for an attempt that is over.         *)
OutboxFollowsAttempt ==
    \A a \in Attempts : outbox[a] \in {"pending", "leased"} => Active(a)

(* A command a dispatcher has crossed the boundary for, and no longer      *)
(* holds, is marked for a probe however the lease was lost.                *)
ReleasedDispatchIsProbed ==
    \A a \in Attempts :
        outbox[a] = "pending" /\ a \in started => a \in needsProbe

(* Pause, cancel and achievement leave a cancellation request for every    *)
(* attempt they stop that may have an external session.                    *)
FencedSessionHasCancellation ==
    \A a \in Attempts :
        attempt[a] = "cancelled" /\ Evidence(a) => cancellation[a] # "none"

(* processCancellations aborts the sessions of fenced attempts and of no   *)
(* other: no request ever names an attempt that is still working.          *)
OnlyFencedAttemptsAreCancelled ==
    \A a \in Attempts : cancellation[a] # "none" => attempt[a] = "cancelled"

(* An attempt is written off as merely expired, which lets its unit run    *)
(* again, only if nothing durable, then or later, says it was dispatched.  *)
ExpiredMeansNeverDispatched ==
    \A a \in Attempts : attempt[a] = "expired" => ~Evidence(a)

(* Claims, whoever makes them, stay within the attempt budget, and every   *)
(* attempt that exists was paid for.                                       *)
AttemptsArePaidFor ==
    /\ used <= limit
    /\ \A a \in Attempts : attempt[a] = "none" <=> a > used

(* Work happens in dependency order: a unit has an attempt or is accepted  *)
(* only when everything it depends on is accepted and, if it is            *)
(* destructive, an operator approved it.                                   *)
WorkRespectsPlan ==
    \A a \in Attempts : attempt[a] # "none" =>
        /\ \A d \in Deps[unitOf[a]] : unit[d] = "accepted"
        /\ unitOf[a] \in Destructive => unitOf[a] \in destructiveApproved

(* A unit is accepted because exactly one of its attempts succeeded, with  *)
(* its required verification passed.                                       *)
AcceptedMeansVerified ==
    \A u \in Units : unit[u] = "accepted" =>
        \E a \in Attempts :
            /\ unitOf[a] = u
            /\ attempt[a] = "succeeded"
            /\ verified[a] = "passed"
            /\ \A b \in Attempts : unitOf[b] = u /\ attempt[b] = "succeeded" => b = a

(* An achieved goal has every required unit of its plan accepted, its      *)
(* final verification passed, and no attempt still at work.                *)
AchievementIsFinal ==
    goal = "achieved" =>
        /\ \A u \in Required : Revision[u] = activePlan => unit[u] = "accepted"
        /\ finalResult[activePlan] = "passed"
        /\ ActiveAttempts = {}

(* The active plan is the one approved plan, the units that exist are      *)
(* those of the plans that were ever approved.                             *)
OneApprovedPlan ==
    /\ \A r \in Revisions : planStatus[r] = "approved" <=> r = activePlan
    /\ \A u \in Units :
         unit[u] = "absent" <=> planStatus[Revision[u]] \in {"none", "proposed"}

(* Nothing exists before the goal does, and revisions are numbered without *)
(* gaps, so MAX(revision) + 1 is always a new one.                         *)
RevisionsAreNumbered ==
    /\ goal = "absent" => \A r \in Revisions : planStatus[r] = "none"
    /\ \A r \in Revisions : planStatus[r] # "none" <=> r <= LatestRevision

(* The inductive invariant that GoalStoreProofs rests on.                  *)
IndInv ==
    /\ TypeOK
    /\ RevisionsAreNumbered
    /\ OneApprovedPlan
    /\ AttemptsArePaidFor
    /\ LiveAttemptsOwnTheirUnit
    /\ OutboxFollowsAttempt

-----------------------------------------------------------------------------
(* What no step may do.                                                    *)

(* Work of unknown outcome is never requeued, failed or cancelled by the   *)
(* code on its own: a unit leaves unknown-outcome only in                  *)
(* recoverUnknownOutcome, which uses up an operator's token.               *)
OnlyOperatorSettlesUnknownWork ==
    [][\A u \in Units :
          unit[u] = "unknown-outcome" /\ unit'[u] # unit[u] =>
              "recover" \in approvals \ approvals']_vars

(* What is settled stays settled: no late answer, lease or recovery        *)
(* revives a terminal goal, an accepted unit or an attempt that is over.   *)
NothingIsRevived ==
    [][/\ goal \in {"achieved", "cancelled"} => goal' = goal
       /\ \A u \in Units : unit[u] = "accepted" => unit'[u] = "accepted"
       /\ \A a \in Attempts :
            attempt[a] \notin LiveStates \union {"none"} => attempt'[a] = attempt[a]]_vars

(* The reference of a fenced session that becomes known after its          *)
(* cancellation was acknowledged without it makes the cancellation         *)
(* pending again, so that the session is aborted.                          *)
LateReferenceReopensCancellation ==
    [][\A a \in Attempts :
          /\ cancellation[a] # "none"
          /\ a \in ref' \ ref
          => cancellation'[a] = "pending"]_vars

-----------------------------------------------------------------------------
(* What the store implements.                                              *)

(* Nothing but the plan's own work is left to do.                          *)
PlanIsProven ==
    /\ activePlan # None
    /\ RequiredWorkAccepted
    /\ finalResult[activePlan] = "passed"

Lifecycle == INSTANCE GoalLifecycle WITH
    Plans <- Revisions, Tokens <- TokenScopes,
    state <- goal, plan <- activePlan, tokens <- approvals, proven <- PlanIsProven

(* Every transaction of the store is, seen from the goal, a transition     *)
(* decideGoalTransition allows, made on the evidence it asks for, or none: *)
(* whatever expires, fails, comes late or is recovered below, a goal only  *)
(* moves as the lifecycle says, spends one token for what needs one, adopts*)
(* only later plans, and never loses proof it has of its plan.             *)
ImplementsLifecycle == Lifecycle!Spec

-----------------------------------------------------------------------------
(* Liveness, of the daemon's own recoveries.  Both run in startupReconcile *)
(* and in every dispatch tick, and nothing renews the lease of an attempt  *)
(* that reconcileActive has no session reference for.  The transaction     *)
(* counts as run only where no order of its rows throws it away.           *)
Fairness ==
    /\ WF_vars(~RecoveryMayThrow /\ RecoverExpiredAttempts)
    /\ \A a \in Attempts : WF_vars(a \notin ref /\ AttemptLeaseExpires(a))

FairSpec == Spec /\ Fairness

(* An attempt whose lease ran out does not stay live, whatever becomes of  *)
(* the goal meanwhile, unless two overdue attempts meet a spent budget:    *)
(* then recoverExpiredAttempts may throw every recovery away (the run      *)
(* recovery shows that it does so for ever).                               *)
ExpiredLeasesAreReconciled ==
    \A a \in Attempts :
        a \in expired /\ attempt[a] \in LiveStates ~>
            attempt[a] \notin LiveStates \/ RecoveryMayThrow

(* A claimed attempt gets a session or is given up: it does not hold its   *)
(* unit and one of the Concurrency slots with nothing behind it.  The      *)
(* exception is that of ExpiredLeasesAreReconciled.                        *)
ClaimsGetASessionOrAreGivenUp ==
    \A a \in Attempts :
        Active(a) /\ a \notin ref ~> ~Active(a) \/ a \in ref \/ RecoveryMayThrow

(* The recovery runs again and again, also where it may throw.             *)
RetriedSpec == FairSpec /\ WF_vars(RecoverExpiredAttempts)

(* GS-DAEMON-3, docs/spec/24-opencode-goal-supervisor.md:433, as it is     *)
(* written: "Startup MUST reconcile expired attempt and outbox leases".    *)
(* It does not hold: two overdue attempts without a session and a spent    *)
(* budget make recoverExpiredAttempts throw, each time and for both.       *)
EveryExpiredLeaseIsReconciled ==
    \A a \in Attempts :
        a \in expired /\ attempt[a] \in LiveStates ~> attempt[a] \notin LiveStates
=============================================================================
