------------------------ MODULE SessionDispatchProofs ------------------------
(***************************************************************************)
(* The composition implements the store: whatever the loops, the adapter   *)
(* and OpenCode do, the goal's tables change by transactions of GoalStore  *)
(* only.  So what GoalStoreProofs and its companions prove of every        *)
(* schedule of the transactions holds of the daemon.                       *)
(***************************************************************************)
EXTENDS SessionDispatch, GoalStoreSessionProofs, FiniteSetTheorems, WellFoundedInduction

LEMMA DispatchLoopIsStoreStep ==
    ASSUME DispatchLoop
    PROVE  [Next]_vars
<1>1. CASE StartupReconcile
  BY <1>1 DEF StartupReconcile, Next, Recovery
<1>2. CASE ClaimAvailable
  BY <1>2 DEF ClaimAvailable, Next, Dispatcher
<1>3. ASSUME NEW batch \in SUBSET Attempts, TakeMessages(batch)
      PROVE  [Next]_vars
  BY <1>3 DEF TakeMessages, Next, Dispatcher
<1>4. ASSUME NEW a \in Attempts, TakeUp(a)
      PROVE  [Next]_vars
  <2>1. MarkDispatchStarted(a) \/ UNCHANGED vars
    BY <1>4, Zenon DEF TakeUp
  <2>2. QED
    BY <2>1 DEF Next, Dispatcher
<1>5. ASSUME NEW a \in Attempts, RecordRefused(a)
      PROVE  [Next]_vars
  <2>1. RecordCleanDispatchFailure(a) \/ UNCHANGED vars
    BY <1>5, Zenon DEF RecordRefused, IfHeld
  <2>2. QED
    BY <2>1 DEF Next, Dispatcher
<1>6. ASSUME NEW a \in Attempts, RecordProbe(a)
      PROVE  [Next]_vars
  <2>1. \/ RecordProbeAbsent(a)
        \/ RecordProbeFound(a)
        \/ RecordProbeUnknown(a)
        \/ UNCHANGED vars
    BY <1>6, Zenon DEF RecordProbe, IfHeld
  <2>2. QED
    BY <2>1 DEF Next, Dispatcher
<1>7. ASSUME NEW a \in Attempts, RecordDispatched(a)
      PROVE  [Next]_vars
  <2>1. \/ MarkOutboxDelivered(a)
        \/ RecordLateDispatchReference(a)
        \/ UNCHANGED vars
    BY <1>7, Zenon DEF RecordDispatched
  <2>2. QED
    BY <2>1 DEF Next, Dispatcher
<1>8. ASSUME NEW a \in Attempts, RecordFailed(a)
      PROVE  [Next]_vars
  <2>1. RecordAmbiguousDispatchFailure(a) \/ UNCHANGED vars
    BY <1>8, Zenon DEF RecordFailed, IfHeld
  <2>2. QED
    BY <2>1 DEF Next, Dispatcher
<1>9. QED
  BY <1>1, <1>2, <1>3, <1>4, <1>5, <1>6, <1>7, <1>8 DEF DispatchLoop

LEMMA OpenCodeIsStutter ==
    ASSUME OpenCode
    PROVE  UNCHANGED vars
<1>1. CASE ActLate
  BY <1>1 DEF ActLate
<1>2. ASSUME NEW s \in Sessions, AgentActs(s)
      PROVE  UNCHANGED vars
  BY <1>2 DEF AgentActs
<1>3. ASSUME NEW a \in Attempts,
             \/ ListSessions(a)
             \/ \E s \in Sessions : CreateSession(a, s)
             \/ ReadMessages(a)
             \/ PromptSession(a)
             \/ ProbeSessions(a)
             \/ InspectSession(a)
      PROVE  UNCHANGED vars
  BY <1>3 DEF ListSessions, CreateSession, ReadMessages, PromptSession,
              ProbeSessions, InspectSession, Answered
<1>4. ASSUME NEW a \in Attempts, RequestFails(a)
      PROVE  UNCHANGED vars
  BY <1>4 DEF RequestFails
<1>5. QED
  BY <1>1, <1>2, <1>3, <1>4 DEF OpenCode

LEMMA CancellationLoopIsStoreStep ==
    ASSUME CancellationLoop
    PROVE  [Next]_vars
<1>1. CASE ListCancellations
  BY <1>1 DEF ListCancellations
<1>2. ASSUME NEW a \in Attempts,
             \/ ProbeCancelled(a)
             \/ AnswerCancellationProbe(a)
             \/ AbortSession(a)
             \/ CancellerFails(a)
      PROVE  [Next]_vars
  BY <1>2 DEF ProbeCancelled, AnswerCancellationProbe, AbortSession, CancellerFails
<1>3. ASSUME NEW a \in Attempts, AcknowledgeAbsent(a) \/ AcknowledgeAborted(a)
      PROVE  [Next]_vars
  <2>1. AcknowledgeCancellationRequest(a) \/ UNCHANGED vars
    BY <1>3, Zenon DEF AcknowledgeAbsent, AcknowledgeAborted
  <2>2. QED
    BY <2>1 DEF Next, Reconciler
<1>4. ASSUME NEW a \in Attempts, PersistReference(a)
      PROVE  [Next]_vars
  <2>1. PersistCancellationExternalReference(a) \/ UNCHANGED vars
    BY <1>4, Zenon DEF PersistReference
  <2>2. QED
    BY <2>1 DEF Next, Reconciler
<1>5. QED
  BY <1>1, <1>2, <1>3, <1>4 DEF CancellationLoop

LEMMA ReconciliationLoopIsStoreStep ==
    ASSUME ReconciliationLoop
    PROVE  [Next]_vars
<1>1. CASE ReadOutcomes
  BY <1>1 DEF ReadOutcomes
<1>2. ASSUME NEW a \in Attempts,
             AnswerRead(a) \/ StopReadSession(a) \/ ReadFails(a)
      PROVE  [Next]_vars
  BY <1>2 DEF AnswerRead, StopReadSession, ReadFails
<1>3. ASSUME NEW a \in Attempts, NEW result \in {"passed", "failed"},
             RecordVerified(a, result)
      PROVE  [Next]_vars
  <2>1. RecordVerificationResult(a, result) \/ UNCHANGED vars
    BY <1>3, Zenon DEF RecordVerified
  <2>2. QED
    BY <2>1 DEF Next, Reconciler
<1>4. ASSUME NEW a \in Attempts, ReportVerified(a)
      PROVE  [Next]_vars
  <2>1. \/ ReportCompleted(a)
        \/ ReportRequeued(a)
        \/ ReportEscalated(a, "blocked")
        \/ UNCHANGED vars
    BY <1>4, Zenon DEF ReportVerified
  <2>2. QED
    BY <2>1 DEF Next, Reconciler
<1>5. ASSUME NEW a \in Attempts, ReportLost(a)
      PROVE  [Next]_vars
  <2>1. ReportAmbiguous(a) \/ UNCHANGED vars
    BY <1>5, Zenon DEF ReportLost
  <2>2. QED
    BY <2>1 DEF Next, Reconciler
<1>6. QED
  BY <1>1, <1>2, <1>3, <1>4, <1>5 DEF ReconciliationLoop

(* "resume" is one of the scopes operators issue tokens for here.          *)
LEMMA OutsideIsStoreStep ==
    ASSUME "resume" \in TokenScopes, Outside
    PROVE  [Next]_vars
<1>1. \/ CreateProposeApproveStart
      \/ IssueApproval("resume")
      \/ ResumeGoal
      \/ PauseGoal
      \/ CancelGoal
      \/ Time
  BY Zenon DEF Outside
<1>2. QED
  BY <1>1 DEF Next, Operator

(* Every step of the daemon, of OpenCode and of the operators is a         *)
(* transaction of the store or leaves its tables alone, and the store      *)
(* starts empty: supervisor.ts and daemon.ts change a goal through         *)
(* GoalStore's methods and in no other way.                                *)
THEOREM SessionsImplementStore ==
    ASSUME "resume" \in TokenScopes
    PROVE  SessionSpec => Spec
<1>1. SessionInit => Init
  BY DEF SessionInit
<1>2. [SessionNext]_dispatchVars => [Next]_vars
  <2>1. SessionNext => [Next]_vars
    <3>1. ASSUME Crash
          PROVE  UNCHANGED vars
      BY <3>1 DEF Crash
    <3>2. QED
      BY <3>1, DispatchLoopIsStoreStep, OpenCodeIsStutter,
         CancellationLoopIsStoreStep, ReconciliationLoopIsStoreStep,
         OutsideIsStoreStep DEF SessionNext
  <2>2. UNCHANGED dispatchVars => UNCHANGED vars
    BY DEF dispatchVars
  <2>3. QED
    BY <2>1, <2>2
<1>3. QED
  BY <1>1, <1>2, PTL DEF SessionSpec, Spec


-----------------------------------------------------------------------------
(* The loops work on the sessions of their own attempts.                   *)

LEMMA EarliestSessionExists ==
    ASSUME NEW S \in SUBSET Sessions, S # {}
    PROVE  \E s \in S : \A t \in S : s <= t
<1>1. S \subseteq Nat
  BY SessionBoundsAssumption DEF Sessions
<1>2. PICK s \in S : \A t \in S : ~ (<<t, s>> \in OpToRel(<, Nat))
  BY <1>1, NatLessThanWellFounded, WFMin, Zenon
<1>3. ASSUME NEW t \in S
      PROVE  s <= t
  <2>1. ~ (t < s)
    <3>1. t \in Nat /\ s \in Nat
      BY <1>1
    <3>2. QED
      BY <1>2, <3>1, Zenon DEF OpToRel
  <2>2. QED
    BY <1>1, <2>1
<1>4. QED
  BY <1>3

(* #matchingSession answers with a session of the attempt, or with none    *)
(* when the attempt has none.                                              *)
LEMMA MatchingSessionMatches ==
    ASSUME NEW a \in Attempts
    PROVE  /\ MatchingSession(a) \in Sessions \union {NoSession}
           /\ MatchingSession(a) # NoSession => keyOf[MatchingSession(a)] = a
           /\ SessionsOf(a) # {} => MatchingSession(a) # NoSession
<1>1. CASE SessionsOf(a) = {}
  BY <1>1 DEF MatchingSession
<1>2. CASE SessionsOf(a) # {}
  <2>1. SessionsOf(a) \subseteq Sessions
    BY DEF SessionsOf
  <2>2. \E s \in SessionsOf(a) : \A t \in SessionsOf(a) : s <= t
    BY <1>2, <2>1, EarliestSessionExists
  <2>3. MatchingSession(a) \in SessionsOf(a)
    BY <1>2, <2>2 DEF MatchingSession
  <2>4. 0 \notin Sessions
    BY SessionBoundsAssumption DEF Sessions
  <2>5. QED
    BY <2>3, <2>4 DEF SessionsOf, NoSession
<1>3. QED
  BY <1>1, <1>2


(* What the transactions may do to what the invariant says of the store.   *)
LEMMA CancellationsAreKept ==
    ASSUME TypeOK, TypeOK', [Next]_vars, NEW a \in Attempts, cancellation[a] # "none"
    PROVE  cancellation'[a] # "none"
<1> USE DEF TypeOK, planVars, unitVars, attemptVars, outboxVars, budgetVars
<1>1. Operator => cancellation'[a] # "none"
  BY DEF Operator, Fence, Create, CreateProposeApproveStart, ProposePlan,
     ApprovePlan, IssueApproval, ApprovalExpires, StartGoal, ResumeGoal,
     RecoverUnknownOutcome, PauseGoal, CancelGoal, RaiseBudget,
     ApproveDestructiveUnit, RequestCancellation
<1>2. Dispatcher => cancellation'[a] # "none"
  <2>1. ASSUME NEW b \in Attempts, RecordLateDispatchReference(b)
        PROVE  cancellation'[a] # "none"
    BY <2>1 DEF RecordLateDispatchReference
  <2>2. ASSUME NEW b \in Attempts,
               \/ RecordProbeAbsent(b) \/ RecordProbeFound(b) \/ RecordProbeUnknown(b)
               \/ RecordCleanDispatchFailure(b) \/ RecordAmbiguousDispatchFailure(b)
        PROVE  cancellation' = cancellation
    BY <2>2 DEF RecordProbeAbsent, RecordProbeFound, RecordProbeUnknown, Release, Deliver,
       RecordCleanDispatchFailure, RecordAmbiguousDispatchFailure
  <2>3. ASSUME NEW b \in Attempts, MarkDispatchStarted(b) \/ MarkOutboxDelivered(b)
        PROVE  cancellation' = cancellation
    BY <2>3 DEF MarkDispatchStarted, MarkOutboxDelivered, Deliver
  <2>4. (\E u \in Units : ClaimNextWork(u)) \/ BlockExhaustedGoal
            \/ (\E batch \in SUBSET Attempts : ClaimOutbox(batch))
        => cancellation' = cancellation
    BY DEF ClaimNextWork, BlockExhaustedGoal, ClaimOutbox
  <2>5. QED
    BY <2>1, <2>2, <2>3, <2>4 DEF Dispatcher
<1>3. Reconciler => cancellation'[a] # "none"
  <2>1. FinalizeGoal => cancellation'[a] # "none"
    BY DEF FinalizeGoal, RequestCancellation
  <2>2. ASSUME NEW b \in Attempts, AcknowledgeCancellationRequest(b)
        PROVE  cancellation'[a] # "none"
    BY <2>2 DEF AcknowledgeCancellationRequest
  <2>3. ASSUME Reconciler, ~FinalizeGoal,
               ~ \E b \in Attempts : AcknowledgeCancellationRequest(b)
        PROVE  cancellation' = cancellation
    BY <2>3 DEF Reconciler, Settle, RecordFinalVerificationResult,
       RecordVerificationResult, ReportCompleted, ReportAmbiguous,
       ReportEscalated, ReportRequeued, PersistCancellationExternalReference
  <2>4. QED
    BY <2>1, <2>2, <2>3
<1>4. Recovery \/ Time => cancellation'[a] # "none"
  BY DEF Recovery, Time, RecoverExpiredAttempts, RecoverExpiredOutboxLeases,
     AttemptLeaseExpires, DispatcherLeaseExpires
<1>5. QED
  BY <1>1, <1>2, <1>3, <1>4 DEF Next, vars

(* Where a transaction is not one that learns a reference, none is learned.*)
LearnsNothing == ref' = ref

LEMMA DispatchLoopLearns ==
    ASSUME DispatchLoop
    PROVE  \/ LearnsNothing
           \/ \E a \in Attempts : \/ RecordProbe(a) /\ call[a] = "found"
                                 \/ RecordDispatched(a)
<1> USE DEF outboxVars, vars, LearnsNothing
<1>1. CASE StartupReconcile
  BY <1>1 DEF StartupReconcile, RecoverExpiredAttempts, RecoverExpiredOutboxLeases
<1>2. CASE ClaimAvailable
  BY <1>2 DEF ClaimAvailable, BlockExhaustedGoal, ClaimNextWork
<1>3. ASSUME NEW batch \in SUBSET Attempts, TakeMessages(batch)
      PROVE  LearnsNothing
  BY <1>3 DEF TakeMessages, ClaimOutbox
<1>4. ASSUME NEW a \in Attempts, TakeUp(a)
      PROVE  LearnsNothing
  <2>1. MarkDispatchStarted(a) \/ UNCHANGED vars
    BY <1>4, Zenon DEF TakeUp
  <2>2. QED
    BY <2>1 DEF MarkDispatchStarted
<1>5. ASSUME NEW a \in Attempts, RecordRefused(a) \/ RecordFailed(a)
      PROVE  LearnsNothing
  <2>1. \/ RecordCleanDispatchFailure(a)
        \/ RecordAmbiguousDispatchFailure(a)
        \/ UNCHANGED vars
    BY <1>5, Zenon DEF RecordRefused, RecordFailed, IfHeld
  <2>2. QED
    BY <2>1 DEF RecordCleanDispatchFailure, RecordAmbiguousDispatchFailure, Release
<1>6. ASSUME NEW a \in Attempts, RecordProbe(a), call[a] # "found"
      PROVE  LearnsNothing
  <2>1. \/ RecordProbeAbsent(a)
        \/ RecordProbeUnknown(a)
        \/ UNCHANGED vars
    BY <1>6, Zenon DEF RecordProbe, IfHeld, Call
  <2>2. QED
    BY <2>1 DEF RecordProbeAbsent, RecordProbeUnknown, Release
<1>7. QED
  BY <1>1, <1>2, <1>3, <1>4, <1>5, <1>6 DEF DispatchLoop


LEMMA ReconciliationLearnsNothing ==
    ASSUME ReconciliationLoop
    PROVE  LearnsNothing
<1> USE DEF outboxVars, vars, LearnsNothing
<1>1. CASE ReadOutcomes
  BY <1>1 DEF ReadOutcomes
<1>2. ASSUME NEW a \in Attempts,
             AnswerRead(a) \/ StopReadSession(a) \/ ReadFails(a)
      PROVE  LearnsNothing
  BY <1>2 DEF AnswerRead, StopReadSession, ReadFails
<1>3. ASSUME NEW a \in Attempts, NEW result \in {"passed", "failed"},
             RecordVerified(a, result)
      PROVE  LearnsNothing
  <2>1. RecordVerificationResult(a, result) \/ UNCHANGED vars
    BY <1>3, Zenon DEF RecordVerified
  <2>2. QED
    BY <2>1 DEF RecordVerificationResult
<1>4. ASSUME NEW a \in Attempts, ReportVerified(a) \/ ReportLost(a)
      PROVE  LearnsNothing
  <2>1. \/ ReportCompleted(a)
        \/ ReportRequeued(a)
        \/ ReportEscalated(a, "blocked")
        \/ ReportAmbiguous(a)
        \/ UNCHANGED vars
    BY <1>4, Zenon DEF ReportVerified, ReportLost
  <2>2. QED
    BY <2>1 DEF ReportCompleted, ReportRequeued, ReportEscalated, ReportAmbiguous,
                Settle
<1>5. QED
  BY <1>1, <1>2, <1>3, <1>4 DEF ReconciliationLoop

LEMMA OutsideLearnsNothing ==
    ASSUME Outside
    PROVE  LearnsNothing
<1>1. \/ CreateProposeApproveStart
      \/ IssueApproval("resume")
      \/ ResumeGoal
      \/ PauseGoal
      \/ CancelGoal
      \/ Time
  BY Zenon DEF Outside
<1>2. QED
  BY <1>1 DEF LearnsNothing, outboxVars, CreateProposeApproveStart, IssueApproval,
     ResumeGoal, PauseGoal, CancelGoal, Fence, Time, AttemptLeaseExpires,
     DispatcherLeaseExpires

-----------------------------------------------------------------------------
(* The invariant, part by part.                                            *)

(* What it says of the store, of the sessions that exist, and of the loops.*)
RefsMatch ==
    /\ refOf \in [Attempts -> Sessions \union {NoSession}]
    /\ \A a \in Attempts :
         /\ refOf[a] # NoSession => keyOf[refOf[a]] = a
         /\ a \in ref => refOf[a] # NoSession

KeysMatch ==
    /\ session \in [Sessions -> SessionStates]
    /\ keyOf \in [Sessions -> Attempts \union {None}]
    /\ \A s \in Sessions : keyOf[s] = None <=> session[s] = "none"
    /\ abandoned \subseteq ({"creating"} \X Attempts) \union ({"prompting"} \X Sessions)
    /\ \A s \in Sessions : <<"prompting", s>> \in abandoned => keyOf[s] # None
    /\ tardy \subseteq Attempts
    /\ limit \in Attempts
    /\ faults \in 0 .. MaxFaults[limit]

CallsMatch ==
    /\ call \in [Attempts -> CallStates]
    /\ target \in [Attempts -> Sessions \union {NoSession}]
    /\ \A a \in Attempts :
         /\ target[a] # NoSession => keyOf[target[a]] = a
         /\ call[a] \in {"reading", "prompting", "answered", "inspecting", "found"} =>
                target[a] # NoSession

CancellersMatch ==
    /\ canceller \in [Attempts -> CancellerStates]
    /\ reader \in [Attempts -> ReaderStates]
    /\ \A a \in Attempts :
         /\ canceller[a] = "found" => a \in ref
         /\ canceller[a] = "inspecting" => SessionsOf(a) # {}
         /\ canceller[a] = "aborting" => refOf[a] # NoSession /\ cancellation[a] # "none"

LEMMA PartsAreTheInvariant ==
    ASSUME TypeOK
    PROVE  RefsMatch /\ KeysMatch /\ CallsMatch /\ CancellersMatch <=> SessionIndInv
BY DEF RefsMatch, KeysMatch, CallsMatch, CancellersMatch, SessionIndInv, SessionTypeOK,
       TypeOK, Attempts

(* A session keeps its title.                                              *)
KeysAreKept ==
    /\ keyOf' \in [Sessions -> Attempts \union {None}]
    /\ \A s \in Sessions : keyOf[s] # None => keyOf'[s] = keyOf[s]

LEMMA NotNumbered ==
    /\ 0 \notin Attempts
    /\ 0 \notin Sessions
BY BoundsAssumption, SessionBoundsAssumption DEF Attempts, Sessions

LEMMA SessionCreated ==
    ASSUME KeysMatch, NEW a \in Attempts, NEW s \in Sessions, Create1(a, s)
    PROVE  /\ session' \in [Sessions -> SessionStates]
           /\ keyOf' \in [Sessions -> Attempts \union {None}]
           /\ \A t \in Sessions : keyOf'[t] = None <=> session'[t] = "none"
           /\ KeysAreKept
           /\ keyOf'[s] = a
BY NotNumbered DEF KeysMatch, Create1, KeysAreKept, SessionStates, None

LEMMA SessionPrompted ==
    ASSUME KeysMatch, NEW s \in Sessions, Prompt1(s) \/ Abort1(s), keyOf' = keyOf
    PROVE  /\ session' \in [Sessions -> SessionStates]
           /\ \A t \in Sessions : keyOf'[t] = None <=> session'[t] = "none"
           /\ KeysAreKept
<1>1. CASE Prompt1(s)
  BY <1>1 DEF KeysMatch, Prompt1, KeysAreKept, SessionStates
<1>2. CASE Abort1(s)
  BY <1>2 DEF KeysMatch, Abort1, AtWork, KeysAreKept, SessionStates
<1>3. QED
  BY <1>1, <1>2


Fixed == UNCHANGED <<limit, overrun>>

(* Only OpenCode, a crash and the two aborts touch what the sessions are.  *)
LEMMA OthersLeaveSessions ==
    ASSUME \/ DispatchLoop
           \/ CancellationLoop /\ ~ \E a \in Attempts : AbortSession(a)
           \/ ReconciliationLoop /\ ~ \E a \in Attempts : StopReadSession(a)
           \/ Outside
    PROVE  UNCHANGED <<session, keyOf, abandoned, tardy, faults>>
<1> USE DEF sessionVars
<1>1. CASE DispatchLoop
  BY <1>1 DEF DispatchLoop, StartupReconcile, ClaimAvailable, TakeMessages,
     BetweenTicks, TakeUp, RecordRefused, RecordProbe, RecordDispatched,
     RecordFailed, Call
<1>2. CASE CancellationLoop /\ ~ \E a \in Attempts : AbortSession(a)
  BY <1>2 DEF CancellationLoop, ListCancellations, ProbeCancelled,
     AnswerCancellationProbe, AcknowledgeAbsent, PersistReference,
     AcknowledgeAborted, CancellerFails, Canceller
<1>3. CASE ReconciliationLoop /\ ~ \E a \in Attempts : StopReadSession(a)
  BY <1>3 DEF ReconciliationLoop, ReadOutcomes, AnswerRead, ReadFails,
     RecordVerified, ReportVerified, ReportLost, Reader
<1>4. CASE Outside
  BY <1>4 DEF Outside
<1>5. QED
  BY <1>1, <1>2, <1>3, <1>4

LEMMA OutlivesCounts ==
    ASSUME KeysMatch, Fixed, NEW R, Outlives(R)
    PROVE  faults' \in 0 .. MaxFaults'[limit']
BY SessionBoundsAssumption DEF KeysMatch, Fixed, Outlives

(* What a crash or a request that fails leaves behind is a request for a   *)
(* session that exists, or for a new one.                                  *)
LEMMA RequestsMatch ==
    ASSUME KeysMatch, CallsMatch, NEW a \in Attempts
    PROVE  /\ RequestOf(a) \subseteq ({"creating"} \X Attempts) \union ({"prompting"} \X Sessions)
           /\ \A s \in Sessions : <<"prompting", s>> \in RequestOf(a) => keyOf[s] # None
BY NotNumbered DEF KeysMatch, CallsMatch, RequestOf, NoSession, None

LEMMA OpenCodeKeepsKeys ==
    ASSUME KeysMatch, CallsMatch, Fixed, OpenCode
    PROVE  KeysMatch' /\ KeysAreKept
<1>0. /\ limit' = limit
      /\ keyOf \in [Sessions -> Attempts \union {None}]
  BY DEF Fixed, KeysMatch
<1>1. ASSUME NEW a \in Attempts, NEW s \in Sessions,
             <<"creating", a>> \in abandoned, Create1(a, s),
             abandoned' = abandoned \ {<<"creating", a>>},
             tardy' = tardy \union {a}, faults' = faults
      PROVE  KeysMatch' /\ KeysAreKept
  BY <1>0, <1>1, SessionCreated DEF KeysMatch, KeysAreKept
<1>2. ASSUME NEW s \in Sessions,
             <<"prompting", s>> \in abandoned, Prompt1(s),
             abandoned' = abandoned \ {<<"prompting", s>>},
             tardy' = tardy \union {keyOf[s]}, keyOf' = keyOf, faults' = faults
      PROVE  KeysMatch' /\ KeysAreKept
  BY <1>0, <1>2, SessionPrompted DEF KeysMatch, KeysAreKept
<1>3. CASE ActLate
  <2>1. faults' = faults
    BY <1>3 DEF ActLate
  <2>2. QED
    BY <1>1, <1>2, <1>3, <2>1 DEF ActLate
<1>4. ASSUME NEW s \in Sessions, AgentActs(s)
      PROVE  KeysMatch' /\ KeysAreKept
  BY <1>0, <1>4 DEF AgentActs, KeysMatch, KeysAreKept, SessionStates
<1>5. ASSUME NEW a \in Attempts,
             ListSessions(a) \/ ReadMessages(a) \/ ProbeSessions(a) \/ InspectSession(a)
      PROVE  KeysMatch' /\ KeysAreKept
  <2>1. UNCHANGED <<session, keyOf, abandoned, tardy, faults>>
    BY <1>5 DEF ListSessions, ReadMessages, ProbeSessions, InspectSession, Answered,
                Call, sessionVars
  <2>2. QED
    BY <1>0, <2>1 DEF KeysMatch, KeysAreKept
<1>6. ASSUME NEW a \in Attempts, NEW s \in Sessions, CreateSession(a, s)
      PROVE  KeysMatch' /\ KeysAreKept
  <2>1. Create1(a, s) /\ UNCHANGED <<abandoned, tardy, faults>>
    BY <1>6 DEF CreateSession, Answered, Call
  <2>2. QED
    BY <1>0, <2>1, SessionCreated DEF KeysMatch, KeysAreKept
<1>7. ASSUME NEW a \in Attempts, PromptSession(a)
      PROVE  KeysMatch' /\ KeysAreKept
  <2>1. /\ Prompt1(target[a])
        /\ UNCHANGED <<keyOf, abandoned, tardy, faults>>
        /\ call[a] = "prompting"
    BY <1>7 DEF PromptSession, Answered, Call
  <2>2. target[a] \in Sessions
    BY <2>1 DEF CallsMatch
  <2>3. QED
    BY <1>0, <2>1, <2>2, SessionPrompted DEF KeysMatch, KeysAreKept
<1>8. ASSUME NEW a \in Attempts, RequestFails(a)
      PROVE  KeysMatch' /\ KeysAreKept
  <2>1. CASE UNCHANGED <<sessionVars, faults>>
    BY <1>0, <2>1 DEF KeysMatch, KeysAreKept, sessionVars
  <2>2. ASSUME NEW s \in Sessions, Create1(a, s), UNCHANGED <<abandoned, tardy, faults>>
        PROVE  KeysMatch' /\ KeysAreKept
    BY <1>0, <2>2, SessionCreated DEF KeysMatch, KeysAreKept
  <2>3. CASE /\ call[a] = "prompting"
             /\ Prompt1(target[a])
             /\ UNCHANGED <<keyOf, abandoned, tardy, faults>>
    <3>1. target[a] \in Sessions
      BY <2>3 DEF CallsMatch
    <3>2. QED
      BY <1>0, <2>3, <3>1, SessionPrompted DEF KeysMatch, KeysAreKept
  <2>4. CASE Outlives(RequestOf(a)) /\ UNCHANGED <<session, keyOf, tardy>>
    BY <1>0, <2>4, RequestsMatch, OutlivesCounts DEF KeysMatch, KeysAreKept, Outlives
  <2>5. QED
    BY <1>8, <2>1, <2>2, <2>3, <2>4 DEF RequestFails
<1>9. QED
  BY <1>3, <1>4, <1>5, <1>6, <1>7, <1>8 DEF OpenCode

LEMMA KeysStep ==
    ASSUME KeysMatch, CallsMatch, RefsMatch, CancellersMatch, TypeOK, SessionNext
    PROVE  KeysMatch' /\ KeysAreKept
<1>0. /\ Fixed
      /\ limit' = limit
      /\ keyOf \in [Sessions -> Attempts \union {None}]
  BY DEF SessionNext, Fixed, KeysMatch
<1>1. ASSUME UNCHANGED <<session, keyOf, abandoned, tardy, faults>>
      PROVE  KeysMatch' /\ KeysAreKept
  BY <1>0, <1>1 DEF KeysMatch, KeysAreKept
<1>2. ASSUME NEW a \in Attempts, AbortSession(a) \/ StopReadSession(a),
             refOf[a] \in Sessions
      PROVE  KeysMatch' /\ KeysAreKept
  <2>1. Abort1(refOf[a]) /\ UNCHANGED <<keyOf, abandoned, tardy, faults>>
    BY <1>2 DEF AbortSession, StopReadSession, Reader
  <2>2. QED
    BY <1>0, <1>2, <2>1, SessionPrompted DEF KeysMatch, KeysAreKept
<1>3. ASSUME NEW a \in Attempts, AbortSession(a)
      PROVE  refOf[a] \in Sessions
  BY <1>3 DEF AbortSession, CancellersMatch, RefsMatch
<1>4. ASSUME NEW a \in Attempts, StopReadSession(a), refOf[a] \notin Sessions
      PROVE  KeysMatch' /\ KeysAreKept
  <2>1. refOf[a] = 0
    BY <1>4 DEF RefsMatch, NoSession
  <2>2. Abort1(0) /\ UNCHANGED <<keyOf, abandoned, tardy, faults>>
    BY <1>4, <2>1 DEF StopReadSession, Reader
  <2>3. session' = session \/ session' = [session EXCEPT ![0] = "finished"]
        \/ session' = [session EXCEPT ![0] = "aborted"]
    BY <2>2 DEF Abort1
  <2>4. session' = session
    BY <2>3, NotNumbered DEF KeysMatch
  <2>5. QED
    BY <1>1, <2>2, <2>4
<1>5. CASE Crash
  <2>1. /\ UNCHANGED <<session, keyOf, tardy>>
        /\ Outlives({}) \/ Outlives(InFlight)
    BY <1>5 DEF Crash
  <2>2. faults' \in 0 .. MaxFaults[limit]
    BY <1>0, <2>1, OutlivesCounts
  <2>3. abandoned' = abandoned \/ abandoned' = abandoned \union InFlight
    BY <2>1 DEF Outlives
  <2>4. QED
    BY <1>0, <2>1, <2>2, <2>3, RequestsMatch DEF KeysMatch, KeysAreKept, InFlight
<1>6. QED
  BY <1>0, <1>1, <1>2, <1>3, <1>4, <1>5, OthersLeaveSessions, OpenCodeKeepsKeys
     DEF SessionNext


(* A session that was answered stays the session of that attempt.          *)
LEMMA MatchesStay ==
    ASSUME KeysMatch, KeysAreKept, NEW a \in Attempts, NEW s \in Sessions, keyOf[s] = a
    PROVE  keyOf'[s] = a
BY NotNumbered DEF KeysMatch, KeysAreKept, None

LEMMA CallsStep ==
    ASSUME KeysMatch, CallsMatch, KeysAreKept, SessionNext
    PROVE  CallsMatch'
<1> USE DEF CallsMatch, CallStates, Requests
<1>0. \A a \in Attempts : target[a] # NoSession => keyOf'[target[a]] = a
  BY MatchesStay
<1>1. ASSUME UNCHANGED <<call, target>>
      PROVE  CallsMatch'
  BY <1>0, <1>1
<1>2. ASSUME NEW a \in Attempts, NEW to \in CallStates, NEW s \in Sessions \union {NoSession},
             call' = [call EXCEPT ![a] = to],
             target' = [target EXCEPT ![a] = s],
             s # NoSession => keyOf'[s] = a,
             to \in {"reading", "prompting", "answered", "inspecting", "found"} => s # NoSession
      PROVE  CallsMatch'
  BY <1>0, <1>2
<1>3. CASE StartupReconcile \/ ClaimAvailable
  BY <1>1, <1>3 DEF StartupReconcile, ClaimAvailable, BetweenTicks
<1>4. ASSUME NEW batch \in SUBSET Attempts, TakeMessages(batch)
      PROVE  CallsMatch'
  BY <1>0, <1>4 DEF TakeMessages, BetweenTicks
<1>5. ASSUME NEW a \in Attempts, TakeUp(a)
      PROVE  CallsMatch'
  <2>1. \E to \in {"refused", "probing", "looking", "none"} :
           call' = [call EXCEPT ![a] = to] /\ target' = target
    BY <1>5 DEF TakeUp, Call
  <2>2. QED
    BY <1>0, <2>1
<1>6. ASSUME NEW a \in Attempts, RecordRefused(a)
      PROVE  CallsMatch'
  BY <1>0, <1>6 DEF RecordRefused, Call
<1>7. ASSUME NEW a \in Attempts, RecordProbe(a) \/ RecordDispatched(a) \/ RecordFailed(a)
      PROVE  CallsMatch'
  <2>1. /\ call' = [call EXCEPT ![a] = "none"]
        /\ target' = [target EXCEPT ![a] = NoSession]
    BY <1>7 DEF RecordProbe, RecordDispatched, RecordFailed, Call, Forget
  <2>2. QED
    BY <1>2, <2>1
<1>8. CASE DispatchLoop
  BY <1>3, <1>4, <1>5, <1>6, <1>7, <1>8 DEF DispatchLoop
<1>9. ASSUME NEW a \in Attempts, ListSessions(a) \/ ProbeSessions(a)
      PROVE  CallsMatch'
  <2>1. UNCHANGED keyOf
    BY <1>9 DEF ListSessions, ProbeSessions, sessionVars
  <2>2. /\ target' = [target EXCEPT ![a] = MatchingSession(a)]
        /\ \E to \in {"creating", "reading", "absent", "inspecting"} :
              /\ call' = [call EXCEPT ![a] = to]
              /\ to \in {"reading", "inspecting"} => MatchingSession(a) # NoSession
    BY <1>9 DEF ListSessions, ProbeSessions, Answered, Call
  <2>3. QED
    BY <1>2, <2>1, <2>2, MatchingSessionMatches
<1>10. ASSUME NEW a \in Attempts, NEW s \in Sessions, CreateSession(a, s)
       PROVE  CallsMatch'
  <2>1. /\ Create1(a, s)
        /\ call' = [call EXCEPT ![a] = "reading"]
        /\ target' = [target EXCEPT ![a] = s]
    BY <1>10 DEF CreateSession, Answered, Call
  <2>2. s # NoSession
    BY NotNumbered DEF NoSession
  <2>3. QED
    BY <1>2, <2>1, <2>2, SessionCreated
<1>11. ASSUME NEW a \in Attempts, ReadMessages(a) \/ InspectSession(a) \/ PromptSession(a)
       PROVE  CallsMatch'
  <2>1. /\ target' = [target EXCEPT ![a] = target[a]]
        /\ call[a] \in {"reading", "inspecting", "prompting"}
        /\ \E to \in {"answered", "prompting", "absent", "unknown", "found"} :
              call' = [call EXCEPT ![a] = to]
    BY <1>11 DEF ReadMessages, InspectSession, PromptSession, Answered, Call, ProbeAnswer
  <2>2. QED
    BY <1>0, <1>2, <2>1
<1>12. ASSUME NEW a \in Attempts, RequestFails(a)
       PROVE  CallsMatch'
  <2>1. /\ target' = target
        /\ \E to \in {"unknown", "failed"} : call' = [call EXCEPT ![a] = to]
    BY <1>12 DEF RequestFails
  <2>2. QED
    BY <1>0, <2>1
<1>13. CASE OpenCode
  BY <1>1, <1>9, <1>10, <1>11, <1>12, <1>13 DEF OpenCode, ActLate, AgentActs, loopVars
<1>14. CASE CancellationLoop
  BY <1>1, <1>14 DEF CancellationLoop, ListCancellations, ProbeCancelled,
     AnswerCancellationProbe, AcknowledgeAbsent, PersistReference, AbortSession,
     AcknowledgeAborted, CancellerFails, Canceller
<1>15. CASE ReconciliationLoop
  BY <1>1, <1>15 DEF ReconciliationLoop, ReadOutcomes, AnswerRead, StopReadSession,
     ReadFails, RecordVerified, ReportVerified, ReportLost, Reader
<1>16. CASE Outside
  BY <1>1, <1>16 DEF Outside, loopVars
<1>17. CASE Crash
  BY <1>17 DEF Crash
<1>18. QED
  BY <1>8, <1>13, <1>14, <1>15, <1>16, <1>17 DEF SessionNext

LEMMA RefsStep ==
    ASSUME KeysMatch, CallsMatch, RefsMatch, CancellersMatch, KeysAreKept, TypeOK,
           SessionNext
    PROVE  RefsMatch' /\ \A a \in Attempts : refOf[a] # NoSession => refOf'[a] # NoSession
<1> USE DEF RefsMatch
<1>0. \A a \in Attempts : refOf[a] # NoSession => keyOf'[refOf[a]] = a
  BY MatchesStay
<1>1. ASSUME LearnsNothing, refOf' = refOf
      PROVE  RefsMatch' /\ \A a \in Attempts : refOf[a] # NoSession => refOf'[a] # NoSession
  BY <1>0, <1>1 DEF LearnsNothing
<1>2. ASSUME NEW a \in Attempts, NEW s \in Sessions, keyOf'[s] = a,
             refOf' = [refOf EXCEPT ![a] = s],
             ref' \subseteq ref \union {a}
      PROVE  RefsMatch' /\ \A b \in Attempts : refOf[b] # NoSession => refOf'[b] # NoSession
  BY <1>0, <1>2, NotNumbered DEF NoSession
<1>3. CASE DispatchLoop
  <2>1. ASSUME NEW a \in Attempts, RecordProbe(a), call[a] = "found"
        PROVE  RefsMatch' /\ \A b \in Attempts : refOf[b] # NoSession => refOf'[b] # NoSession
    <3>1. target[a] \in Sessions /\ keyOf'[target[a]] = a
      BY <2>1, MatchesStay DEF CallsMatch
    <3>2. CASE Held(a)
      <4>1. RecordProbeFound(a) /\ refOf' = [refOf EXCEPT ![a] = target[a]]
        BY <2>1, <3>2, Zenon DEF RecordProbe, IfHeld, Call
      <4>2. QED
        BY <1>2, <3>1, <4>1 DEF RecordProbeFound, Deliver
    <3>3. CASE ~Held(a)
      BY <1>1, <2>1, <3>3 DEF RecordProbe, IfHeld, Call, LearnsNothing, vars, outboxVars
    <3>4. QED
      BY <3>2, <3>3
  <2>2. ASSUME NEW a \in Attempts, RecordDispatched(a)
        PROVE  RefsMatch' /\ \A b \in Attempts : refOf[b] # NoSession => refOf'[b] # NoSession
    <3>1. target[a] \in Sessions /\ keyOf'[target[a]] = a
      BY <2>2, MatchesStay DEF CallsMatch, RecordDispatched, Call
    <3>2. CASE Held(a) \/ a \in started
      <4>1. /\ MarkOutboxDelivered(a) \/ RecordLateDispatchReference(a)
            /\ refOf' = [refOf EXCEPT ![a] = target[a]]
        BY <2>2, <3>2, Zenon DEF RecordDispatched
      <4>2. QED
        BY <1>2, <3>1, <4>1 DEF MarkOutboxDelivered, Deliver, RecordLateDispatchReference
    <3>3. CASE ~Held(a) /\ a \notin started
      BY <1>1, <2>2, <3>3 DEF RecordDispatched, LearnsNothing, vars, outboxVars
    <3>4. QED
      BY <3>2, <3>3
  <2>3. ASSUME LearnsNothing,
               ~ \E a \in Attempts : RecordProbe(a) /\ call[a] = "found",
               ~ \E a \in Attempts : RecordDispatched(a)
        PROVE  refOf' = refOf
    BY <1>3, <2>3 DEF DispatchLoop, StartupReconcile, ClaimAvailable, TakeMessages,
       BetweenTicks, TakeUp, RecordRefused, RecordProbe, RecordFailed, Call
  <2>4. QED
    BY <1>1, <1>3, <2>1, <2>2, <2>3, DispatchLoopLearns
<1>4. CASE OpenCode
  <2>1. refOf' = refOf
    BY <1>4 DEF OpenCode, ActLate, AgentActs, ListSessions, CreateSession, ReadMessages,
       PromptSession, ProbeSessions, InspectSession, Answered, RequestFails
  <2>2. QED
    BY <1>1, <1>4, <2>1, OpenCodeIsStutter DEF LearnsNothing, vars, outboxVars
<1>5. CASE CancellationLoop
  <2>1. ASSUME NEW a \in Attempts, PersistReference(a)
        PROVE  RefsMatch' /\ \A b \in Attempts : refOf[b] # NoSession => refOf'[b] # NoSession
    <3>1. ref' \subseteq ref \union {a}
      <4>1. PersistCancellationExternalReference(a) \/ UNCHANGED vars
        BY <2>1, Zenon DEF PersistReference
      <4>2. QED
        BY <4>1 DEF PersistCancellationExternalReference, vars, outboxVars
    <3>2. CASE refOf[a] # NoSession
      BY <1>0, <2>1, <3>1, <3>2 DEF PersistReference
    <3>3. CASE refOf[a] = NoSession
      <4>1. SessionsOf(a) # {}
        BY <2>1, <3>3 DEF PersistReference, CancellersMatch
      <4>2. MatchingSession(a) \in Sessions /\ keyOf'[MatchingSession(a)] = a
        BY <4>1, MatchingSessionMatches, MatchesStay
      <4>3. QED
        BY <1>2, <2>1, <3>1, <3>3, <4>2 DEF PersistReference
    <3>4. QED
      BY <3>2, <3>3
  <2>2. ASSUME ~ \E a \in Attempts : PersistReference(a)
        PROVE  LearnsNothing /\ refOf' = refOf
    <3>1. refOf' = refOf
      BY <1>5, <2>2 DEF CancellationLoop, ListCancellations, ProbeCancelled,
         AnswerCancellationProbe, AcknowledgeAbsent, AbortSession, AcknowledgeAborted,
         CancellerFails
    <3>2. UNCHANGED vars \/ \E a \in Attempts : AcknowledgeCancellationRequest(a)
      BY <1>5, <2>2, Zenon DEF CancellationLoop, ListCancellations, ProbeCancelled,
         AnswerCancellationProbe, AcknowledgeAbsent, AbortSession, AcknowledgeAborted,
         CancellerFails
    <3>3. QED
      BY <3>1, <3>2 DEF AcknowledgeCancellationRequest, LearnsNothing, vars, outboxVars
  <2>3. QED
    BY <1>1, <2>1, <2>2
<1>6. CASE ReconciliationLoop
  <2>1. refOf' = refOf
    BY <1>6 DEF ReconciliationLoop, ReadOutcomes, AnswerRead, StopReadSession,
       ReadFails, RecordVerified, ReportVerified, ReportLost, Reader
  <2>2. QED
    BY <1>1, <1>6, <2>1, ReconciliationLearnsNothing
<1>7. CASE Outside
  BY <1>1, <1>7, OutsideLearnsNothing DEF Outside
<1>8. CASE Crash
  BY <1>1, <1>8 DEF Crash, LearnsNothing, vars, outboxVars
<1>9. QED
  BY <1>3, <1>4, <1>5, <1>6, <1>7, <1>8 DEF SessionNext


LEMMA ReferencesAreKept ==
    ASSUME [Next]_vars
    PROVE  ref \subseteq ref'
BY ReferencesAreLearned
   DEF Deliver, PersistCancellationExternalReference, RecordLateDispatchReference

LEMMA SessionNextIsStoreStep ==
    ASSUME "resume" \in TokenScopes, SessionNext
    PROVE  [Next]_vars
<1>1. ASSUME Crash
      PROVE  UNCHANGED vars
  BY <1>1 DEF Crash
<1>2. QED
  BY <1>1, DispatchLoopIsStoreStep, OpenCodeIsStutter, CancellationLoopIsStoreStep,
     ReconciliationLoopIsStoreStep, OutsideIsStoreStep DEF SessionNext

LEMMA CancellersStep ==
    ASSUME "resume" \in TokenScopes, TypeOK, TypeOK', KeysMatch, RefsMatch,
           CancellersMatch, KeysAreKept, SessionNext,
           \A a \in Attempts : refOf[a] # NoSession => refOf'[a] # NoSession
    PROVE  CancellersMatch'
<1>1. /\ ref \subseteq ref'
      /\ \A a \in Attempts : cancellation[a] # "none" => cancellation'[a] # "none"
  BY ReferencesAreKept, CancellationsAreKept, SessionNextIsStoreStep
<1>2. \A a \in Attempts : SessionsOf(a) # {} => SessionsOf(a)' # {}
  BY MatchesStay DEF SessionsOf
<1> USE DEF CancellersMatch, CancellerStates, ReaderStates
<1>3. ASSUME UNCHANGED <<canceller, reader>>
      PROVE  CancellersMatch'
  BY <1>1, <1>2, <1>3
<1>4. ASSUME NEW a \in Attempts, NEW to \in CancellerStates \ {"found"},
             canceller' = [canceller EXCEPT ![a] = to], reader' = reader,
             to = "inspecting" => SessionsOf(a)' # {},
             to = "aborting" => refOf'[a] # NoSession /\ cancellation'[a] # "none"
      PROVE  CancellersMatch'
  BY <1>1, <1>2, <1>4
<1>5. ASSUME NEW a \in Attempts, NEW to \in ReaderStates,
             reader' = [reader EXCEPT ![a] = to], canceller' = canceller
      PROVE  CancellersMatch'
  BY <1>1, <1>2, <1>5
<1>6. CASE DispatchLoop
  BY <1>3, <1>6 DEF DispatchLoop, StartupReconcile, ClaimAvailable, TakeMessages,
     BetweenTicks, TakeUp, RecordRefused, RecordProbe, RecordDispatched, RecordFailed, Call
<1>7. CASE OpenCode
  BY <1>3, <1>7 DEF OpenCode, ActLate, AgentActs, ListSessions, CreateSession,
     ReadMessages, PromptSession, ProbeSessions, InspectSession, Answered, Call,
     RequestFails, loopVars
<1>8. CASE CancellationLoop
  <2>1. CASE ListCancellations
    BY <1>1, <2>1 DEF ListCancellations
  <2>2. ASSUME NEW a \in Attempts, AnswerCancellationProbe(a)
        PROVE  CancellersMatch'
    <3>1. UNCHANGED <<keyOf, reader>>
      BY <2>2 DEF AnswerCancellationProbe, Canceller, sessionVars
    <3>2. \E to \in {"absent", "none", "inspecting"} :
             /\ canceller' = [canceller EXCEPT ![a] = to]
             /\ to = "inspecting" => MatchingSession(a) # NoSession
      BY <2>2 DEF AnswerCancellationProbe, Canceller
    <3>3. MatchingSession(a) # NoSession => SessionsOf(a) # {}
      BY MatchingSessionMatches, NotNumbered DEF SessionsOf, NoSession
    <3>4. QED
      BY <1>2, <1>4, <3>1, <3>2, <3>3
  <2>3. ASSUME NEW a \in Attempts, PersistReference(a)
        PROVE  CancellersMatch'
    <3>1. /\ reader' = reader
          /\ canceller' = [canceller EXCEPT ![a] =
                              IF cancellation[a] = "pending" THEN "aborting" ELSE "none"]
      BY <2>3 DEF PersistReference, Canceller
    <3>2. refOf'[a] # NoSession
      <4>1. CASE refOf[a] # NoSession
        BY <4>1
      <4>2. CASE refOf[a] = NoSession
        <5>1. SessionsOf(a) # {}
          BY <2>3, <4>2 DEF PersistReference, RefsMatch
        <5>2. QED
          BY <2>3, <4>2, <5>1, MatchingSessionMatches DEF PersistReference, RefsMatch
      <4>3. QED
        BY <4>1, <4>2
    <3>3. QED
      BY <1>1, <1>4, <3>1, <3>2
  <2>4. ASSUME NEW a \in Attempts,
               \/ ProbeCancelled(a)
               \/ AcknowledgeAbsent(a)
               \/ AbortSession(a)
               \/ AcknowledgeAborted(a)
               \/ CancellerFails(a)
        PROVE  CancellersMatch'
    <3>1. /\ reader' = reader
          /\ \E to \in {"probing", "none", "aborted"} :
                canceller' = [canceller EXCEPT ![a] = to]
      BY <2>4 DEF ProbeCancelled, AcknowledgeAbsent, AbortSession, AcknowledgeAborted,
                  CancellerFails, Canceller
    <3>2. QED
      BY <1>4, <3>1
  <2>5. QED
    BY <1>8, <2>1, <2>2, <2>3, <2>4 DEF CancellationLoop
<1>9. CASE ReconciliationLoop
  <2>1. CASE ReadOutcomes
    BY <1>1, <1>2, <2>1 DEF ReadOutcomes
  <2>2. ASSUME NEW a \in Attempts,
               \/ AnswerRead(a)
               \/ StopReadSession(a)
               \/ ReadFails(a)
               \/ \E result \in {"passed", "failed"} : RecordVerified(a, result)
               \/ ReportVerified(a)
               \/ ReportLost(a)
        PROVE  CancellersMatch'
    <3>1. /\ canceller' = canceller
          /\ \E to \in ReaderStates : reader' = [reader EXCEPT ![a] = to]
      BY <2>2 DEF AnswerRead, StopReadSession, ReadFails, RecordVerified, ReportVerified,
                  ReportLost, Reader
    <3>2. QED
      BY <1>5, <3>1
  <2>3. QED
    BY <1>9, <2>1, <2>2 DEF ReconciliationLoop
<1>10. CASE Outside
  BY <1>3, <1>10 DEF Outside, loopVars
<1>11. CASE Crash
  BY <1>11 DEF Crash
<1>12. QED
  BY <1>6, <1>7, <1>8, <1>9, <1>10, <1>11 DEF SessionNext

LEMMA SessionIndInvStutters ==
    ASSUME SessionIndInv, UNCHANGED dispatchVars
    PROVE  SessionIndInv'
BY DEF SessionIndInv, SessionTypeOK, SessionsOf, dispatchVars, vars, loopVars,
       sessionVars, outboxVars, budgetVars

(* Every loop works on the sessions of its own attempts, in every state of *)
(* the daemon, and all variables keep their types.                         *)
THEOREM LoopsWorkOnTheirSessions ==
    ASSUME "resume" \in TokenScopes
    PROVE  SessionSpec => []SessionIndInv
<1>1. SessionInit => SessionIndInv
  BY BoundsAssumption, SessionBoundsAssumption, NotNumbered
     DEF SessionInit, Init, SessionIndInv, SessionTypeOK, CallStates, CancellerStates,
         ReaderStates, SessionStates, Attempts, NoSession, None, SessionsOf
<1>2. ASSUME TypeOK, TypeOK', SessionIndInv, [SessionNext]_dispatchVars
      PROVE  SessionIndInv'
  <2>1. CASE UNCHANGED dispatchVars
    BY <1>2, <2>1, SessionIndInvStutters
  <2>2. CASE SessionNext
    <3>1. RefsMatch /\ KeysMatch /\ CallsMatch /\ CancellersMatch
      BY <1>2, PartsAreTheInvariant
    <3>2. KeysMatch' /\ KeysAreKept
      BY <1>2, <2>2, <3>1, KeysStep
    <3>3. CallsMatch'
      BY <2>2, <3>1, <3>2, CallsStep
    <3>4. RefsMatch' /\ \A a \in Attempts : refOf[a] # NoSession => refOf'[a] # NoSession
      BY <1>2, <2>2, <3>1, <3>2, RefsStep
    <3>5. CancellersMatch'
      BY <1>2, <2>2, <3>1, <3>2, <3>4, CancellersStep
    <3>6. (RefsMatch /\ KeysMatch /\ CallsMatch /\ CancellersMatch)' => SessionIndInv'
      BY <1>2, PartsAreTheInvariant, PTL
    <3>7. QED
      BY <3>2, <3>3, <3>4, <3>5, <3>6
  <2>3. QED
    BY <1>2, <2>1, <2>2
<1>3. QED
  BY <1>1, <1>2, SessionsImplementStore, TypeCorrect, PTL DEF SessionSpec

(* All variables of the loops and of OpenCode's sessions keep their types. *)
THEOREM SessionsKeepTypes ==
    ASSUME "resume" \in TokenScopes
    PROVE  SessionSpec => []SessionTypeOK
<1>1. SessionIndInv => SessionTypeOK
  BY DEF SessionIndInv
<1>2. QED
  BY <1>1, LoopsWorkOnTheirSessions, PTL

-----------------------------------------------------------------------------
(* Who is given the work, and on whose word it is accepted.                *)

(* Before a session is created there is none, so there is never a second.  *)
AtMostOneSession ==
    \A a \in Attempts \ tardy :
        /\ call[a] = "creating" => SessionsOf(a) = {}
        /\ \A s, t \in SessionsOf(a) : s = t

(* What was read is the last word of a session, and work that succeeded    *)
(* did so on it.                                                           *)
OutcomesAreFinal ==
    \A a \in Attempts :
        /\ reader[a] # "none" => a \in ref
        /\ a \notin tardy =>
             /\ reader[a] = "stopping" => session[refOf[a]] \in {"wrapping", "finished"}
             /\ reader[a] \in {"outcome", "verified"} \/ attempt[a] = "succeeded" =>
                    a \in ref /\ session[refOf[a]] = "finished"

(* A goal executes again only after a pause, and a pause leaves no attempt *)
(* at work.                                                                *)
PausedIsIdle ==
    /\ goal \in {"absent", "executing", "paused", "blocked", "unknown-outcome", "cancelled"}
    /\ approvals \subseteq {"resume"}
    /\ goal \in {"absent", "paused"} => \A a \in Attempts : attempt[a] \notin LiveStates

(* A row that is refused is one that nobody holds any more; a dispatch is  *)
(* under way only behind the boundary mark; and where the mark is missing, *)
(* or the probe has found nothing, no session was given the work.          *)
UnmarkedIsUnprompted ==
    /\ \A a \in Attempts :
         /\ call[a] = "refused" => goal # "executing" \/ attempt[a] \notin LiveStates
         /\ call[a] \in {"looking", "creating", "reading", "prompting", "answered", "failed"}
                => a \in started
    /\ \A a \in Attempts \ tardy :
         a \notin started \/ call[a] = "absent" => \A s \in SessionsOf(a) : ~Prompted(s)

(* An attempt that OpenCode acted for late stays one.                      *)
LEMMA TardyStaysTardy ==
    ASSUME SessionNext
    PROVE  tardy \subseteq tardy'
<1>1. CASE OpenCode
  BY <1>1 DEF OpenCode, ActLate, AgentActs, ListSessions, CreateSession, ReadMessages,
     PromptSession, ProbeSessions, InspectSession, RequestFails, sessionVars
<1>2. ASSUME NEW a \in Attempts, AbortSession(a) \/ StopReadSession(a)
      PROVE  tardy' = tardy
  BY <1>2 DEF AbortSession, StopReadSession
<1>3. CASE Crash
  BY <1>3 DEF Crash
<1>4. QED
  BY <1>1, <1>2, <1>3, OthersLeaveSessions DEF SessionNext

(* A step keeps AtMostOneSession.                                          *)
LEMMA AtMostOneStep ==
    ASSUME KeysMatch, CallsMatch, AtMostOneSession, SessionNext
    PROVE  AtMostOneSession'
<1> USE DEF AtMostOneSession
<1>0. tardy \subseteq tardy'
  BY TardyStaysTardy
<1>1. ASSUME keyOf' = keyOf, \A a \in Attempts : call'[a] = "creating" => call[a] = "creating"
      PROVE  AtMostOneSession'
  BY <1>0, <1>1 DEF SessionsOf
<1>2. ASSUME NEW b \in Attempts, NEW s \in Sessions, Create1(b, s),
             \A a \in Attempts : call'[a] = "creating" => call[a] = "creating" /\ a # b,
             b \in tardy' \/ call[b] = "creating"
      PROVE  AtMostOneSession'
  <2>1. /\ keyOf' = [keyOf EXCEPT ![s] = b]
        /\ keyOf \in [Sessions -> Attempts \union {None}]
        /\ keyOf[s] = None
    BY <1>2 DEF Create1, KeysMatch
  <2>2. ASSUME NEW a \in Attempts \ tardy', a # b
        PROVE  SessionsOf(a)' = SessionsOf(a)
    BY <2>1, <2>2, NotNumbered DEF SessionsOf, None
  <2>3. ASSUME b \notin tardy'
        PROVE  SessionsOf(b)' = {s} /\ call'[b] # "creating"
    <3>1. SessionsOf(b) = {}
      BY <1>0, <1>2, <2>3
    <3>2. QED
      BY <1>2, <2>1, <3>1 DEF SessionsOf
  <2>4. QED
    BY <1>0, <1>2, <2>2, <2>3
<1>3. CASE DispatchLoop
  <2>1. keyOf' = keyOf
    BY <1>3, OthersLeaveSessions
  <2>2. ASSUME NEW a \in Attempts, call'[a] = "creating"
        PROVE  call[a] = "creating"
    BY <1>3, <2>2 DEF DispatchLoop, StartupReconcile, ClaimAvailable, TakeMessages,
       TakeUp, RecordRefused, RecordProbe, RecordDispatched, RecordFailed, Call, CallsMatch
  <2>3. QED
    BY <1>1, <2>1, <2>2
<1>4. CASE ActLate
  <2>1. call' = call
    BY <1>4 DEF ActLate, loopVars
  <2>2. ASSUME NEW b \in Attempts, NEW s \in Sessions, Create1(b, s),
               tardy' = tardy \union {b}
        PROVE  AtMostOneSession'
    <3>1. /\ keyOf' = [keyOf EXCEPT ![s] = b]
          /\ keyOf \in [Sessions -> Attempts \union {None}]
          /\ keyOf[s] = None
      BY <2>2 DEF Create1, KeysMatch
    <3>2. ASSUME NEW a \in Attempts \ tardy'
          PROVE  SessionsOf(a)' = SessionsOf(a)
      BY <2>2, <3>1, <3>2, NotNumbered DEF SessionsOf, None
    <3>3. QED
      BY <1>0, <2>1, <3>2
  <2>3. QED
    BY <1>1, <1>4, <2>1, <2>2 DEF ActLate
<1>5. ASSUME NEW s \in Sessions, AgentActs(s)
      PROVE  AtMostOneSession'
  BY <1>1, <1>5 DEF AgentActs, loopVars
<1>6. ASSUME NEW b \in Attempts, ListSessions(b)
      PROVE  AtMostOneSession'
  <2>1. /\ UNCHANGED <<keyOf, tardy>>
        /\ \/ MatchingSession(b) = NoSession /\ call' = [call EXCEPT ![b] = "creating"]
           \/ call' = [call EXCEPT ![b] = "reading"]
    BY <1>6 DEF ListSessions, Answered, Call, sessionVars
  <2>2. MatchingSession(b) = NoSession => SessionsOf(b) = {}
    BY MatchingSessionMatches
  <2>3. SessionsOf(b)' = SessionsOf(b)
    BY <2>1 DEF SessionsOf
  <2>4. \A a \in Attempts : SessionsOf(a)' = SessionsOf(a)
    BY <2>1 DEF SessionsOf
  <2>5. QED
    BY <2>1, <2>2, <2>4 DEF CallsMatch
<1>7. ASSUME NEW b \in Attempts, NEW s \in Sessions, CreateSession(b, s)
      PROVE  AtMostOneSession'
  <2>1. Create1(b, s) /\ call[b] = "creating" /\ call' = [call EXCEPT ![b] = "reading"]
    BY <1>7 DEF CreateSession, Answered, Call
  <2>2. QED
    BY <1>2, <2>1 DEF CallsMatch
<1>8. ASSUME NEW b \in Attempts,
             ReadMessages(b) \/ PromptSession(b) \/ ProbeSessions(b) \/ InspectSession(b)
      PROVE  AtMostOneSession'
  <2>1. /\ keyOf' = keyOf
        /\ \E to \in CallStates \ {"creating"} : call' = [call EXCEPT ![b] = to]
    BY <1>8 DEF ReadMessages, PromptSession, ProbeSessions, InspectSession, Answered, Call,
       sessionVars, ProbeAnswer, CallStates, Requests
  <2>2. QED
    BY <1>1, <2>1 DEF CallsMatch
<1>9. ASSUME NEW b \in Attempts, RequestFails(b)
      PROVE  AtMostOneSession'
  <2>1. \E to \in {"unknown", "failed"} : call' = [call EXCEPT ![b] = to]
    BY <1>9 DEF RequestFails
  <2>2. \/ keyOf' = keyOf
        \/ call[b] = "creating" /\ \E s \in Sessions : Create1(b, s)
    BY <1>9 DEF RequestFails, sessionVars
  <2>3. QED
    BY <1>1, <1>2, <2>1, <2>2 DEF CallsMatch
<1>10. CASE CancellationLoop
  <2>1. call' = call /\ keyOf' = keyOf
    BY <1>10 DEF CancellationLoop, ListCancellations, ProbeCancelled,
       AnswerCancellationProbe, AcknowledgeAbsent, PersistReference, AbortSession,
       AcknowledgeAborted, CancellerFails, Canceller, sessionVars
  <2>2. QED
    BY <1>1, <2>1
<1>11. CASE ReconciliationLoop
  <2>1. call' = call /\ keyOf' = keyOf
    BY <1>11 DEF ReconciliationLoop, ReadOutcomes, AnswerRead, StopReadSession,
       ReadFails, RecordVerified, ReportVerified, ReportLost, Reader, sessionVars
  <2>2. QED
    BY <1>1, <2>1
<1>12. CASE Outside
  BY <1>1, <1>12 DEF Outside, loopVars, sessionVars
<1>13. CASE Crash
  BY <1>1, <1>13 DEF Crash
<1>14. QED
  BY <1>3, <1>4, <1>5, <1>6, <1>7, <1>8, <1>9, <1>10, <1>11, <1>12, <1>13
     DEF SessionNext, OpenCode

(* An outcome is final, a session with an outcome keeps it, and a session  *)
(* is given work by a request of its attempt, or late.                     *)
LEMMA SessionsMoveOn ==
    ASSUME KeysMatch, CallsMatch, RefsMatch, SessionNext, NEW s \in Sessions
    PROVE  /\ session[s] = "finished" => session'[s] = "finished"
           /\ session[s] = "wrapping" => session'[s] \in {"wrapping", "finished"}
           /\ Prompted(s)' /\ ~Prompted(s) =>
                keyOf' = keyOf /\ (keyOf[s] \in tardy' \/ call[keyOf[s]] = "prompting")
<1> DEFINE MovesOn ==
        /\ session[s] = "finished" => session'[s] = "finished"
        /\ session[s] = "wrapping" => session'[s] \in {"wrapping", "finished"}
        /\ Prompted(s)' /\ ~Prompted(s) =>
             keyOf' = keyOf /\ (keyOf[s] \in tardy' \/ call[keyOf[s]] = "prompting")
<1> USE DEF Prompted
<1>0. session \in [Sessions -> SessionStates]
  BY DEF KeysMatch
<1>1. ASSUME session' = session
      PROVE  MovesOn
  BY <1>1
<1>2. ASSUME NEW b \in Attempts, NEW t \in Sessions, Create1(b, t)
      PROVE  MovesOn
  BY <1>0, <1>2 DEF Create1
<1>3. ASSUME NEW t \in Sessions, Prompt1(t), keyOf' = keyOf,
             keyOf[t] \in tardy' \/ call[keyOf[t]] = "prompting"
      PROVE  MovesOn
  BY <1>0, <1>3 DEF Prompt1
<1>4. ASSUME NEW t \in Sessions \union {NoSession}, Abort1(t), keyOf' = keyOf
      PROVE  MovesOn
  BY <1>0, <1>4 DEF Abort1, AtWork
<1>5. CASE ActLate
  BY <1>2, <1>3, <1>5 DEF ActLate
<1>6. ASSUME NEW t \in Sessions, AgentActs(t)
      PROVE  MovesOn
  BY <1>0, <1>6 DEF AgentActs
<1>7. ASSUME NEW b \in Attempts,
             ListSessions(b) \/ ReadMessages(b) \/ ProbeSessions(b) \/ InspectSession(b)
      PROVE  MovesOn
  BY <1>1, <1>7 DEF ListSessions, ReadMessages, ProbeSessions, InspectSession, sessionVars
<1>8. ASSUME NEW b \in Attempts, NEW t \in Sessions, CreateSession(b, t)
      PROVE  MovesOn
  BY <1>2, <1>8 DEF CreateSession
<1>9. ASSUME NEW b \in Attempts, call[b] = "prompting"
      PROVE  target[b] \in Sessions /\ call[keyOf[target[b]]] = "prompting"
  BY <1>9 DEF CallsMatch
<1>10. ASSUME NEW b \in Attempts, PromptSession(b)
       PROVE  MovesOn
  <2>1. call[b] = "prompting" /\ Prompt1(target[b]) /\ keyOf' = keyOf
    BY <1>10 DEF PromptSession, Answered, Call
  <2>2. QED
    BY <1>3, <1>9, <2>1
<1>11. ASSUME NEW b \in Attempts, RequestFails(b)
       PROVE  MovesOn
  <2>1. \/ session' = session
        \/ \E t \in Sessions : Create1(b, t)
        \/ call[b] = "prompting" /\ Prompt1(target[b]) /\ keyOf' = keyOf
    BY <1>11 DEF RequestFails, sessionVars
  <2>2. QED
    BY <1>1, <1>2, <1>3, <1>9, <2>1
<1>12. ASSUME NEW b \in Attempts, AbortSession(b) \/ StopReadSession(b)
       PROVE  MovesOn
  <2>1. Abort1(refOf[b]) /\ keyOf' = keyOf
    BY <1>12 DEF AbortSession, StopReadSession
  <2>2. refOf[b] \in Sessions \union {NoSession}
    BY <1>12 DEF RefsMatch
  <2>3. QED
    BY <1>4, <2>1, <2>2
<1>13. CASE Crash
  BY <1>1, <1>13 DEF Crash
<1>14. QED
  BY <1>1, <1>5, <1>6, <1>7, <1>8, <1>10, <1>11, <1>12, <1>13, OthersLeaveSessions
     DEF SessionNext, OpenCode

(* What the loops do to goals, approvals and attempts.                     *)
LEMMA DispatchLoopQuiets ==
    ASSUME TypeOK, DispatchLoop
    PROVE  /\ approvals' = approvals
           /\ goal' = goal \/ goal' \in {"blocked", "unknown-outcome"}
           /\ \A a \in Attempts :
                /\ attempt'[a] \in LiveStates /\ attempt[a] \notin LiveStates =>
                       goal = "executing" /\ goal' = goal /\ ~DispatchBusy /\ call' = call
                /\ attempt'[a] = "succeeded" => attempt[a] = "succeeded"
           /\ \A a \in Attempts : a \in started /\ a \notin started' =>
                \/ RecordRefused(a) /\ Held(a)
                \/ RecordProbe(a) /\ call[a] = "absent"
<1> DEFINE Quiets ==
           /\ approvals' = approvals
           /\ goal' = goal \/ goal' \in {"blocked", "unknown-outcome"}
           /\ \A a \in Attempts :
                /\ attempt'[a] \in LiveStates /\ attempt[a] \notin LiveStates =>
                       goal = "executing" /\ goal' = goal /\ ~DispatchBusy /\ call' = call
                /\ attempt'[a] = "succeeded" => attempt[a] = "succeeded"
           /\ \A a \in Attempts : a \in started /\ a \notin started' =>
                \/ RecordRefused(a) /\ Held(a)
                \/ RecordProbe(a) /\ call[a] = "absent"
<1> USE DEF TypeOK, vars, attemptVars, outboxVars, LiveStates
<1>0. ASSUME UNCHANGED vars
      PROVE  Quiets
  BY <1>0
<1>1. CASE StartupReconcile
  <2>1. RecoverExpiredAttempts \/ RecoverExpiredOutboxLeases
    BY <1>1 DEF StartupReconcile
  <2>2. CASE RecoverExpiredAttempts
    BY <2>2 DEF RecoverExpiredAttempts, RetireOutbox
  <2>3. CASE RecoverExpiredOutboxLeases
    BY <2>3 DEF RecoverExpiredOutboxLeases
  <2>4. QED
    BY <2>1, <2>2, <2>3
<1>2. CASE ClaimAvailable
  <2>1. /\ ~DispatchBusy
        /\ call' = call
        /\ BlockExhaustedGoal \/ \E u \in Units : ClaimNextWork(u)
    BY <1>2 DEF ClaimAvailable, BetweenTicks
  <2>2. CASE BlockExhaustedGoal
    BY <2>2 DEF BlockExhaustedGoal
  <2>3. ASSUME NEW u \in Units, ClaimNextWork(u)
        PROVE  Quiets
    BY <2>1, <2>3 DEF ClaimNextWork
  <2>4. QED
    BY <2>1, <2>2, <2>3
<1>3. ASSUME NEW batch \in SUBSET Attempts, TakeMessages(batch)
      PROVE  Quiets
  BY <1>3 DEF TakeMessages, ClaimOutbox
<1>4. ASSUME NEW a \in Attempts, TakeUp(a)
      PROVE  Quiets
  <2>1. MarkDispatchStarted(a) \/ UNCHANGED vars
    BY <1>4, Zenon DEF TakeUp
  <2>2. CASE MarkDispatchStarted(a)
    BY <2>2 DEF MarkDispatchStarted
  <2>3. QED
    BY <1>0, <2>1, <2>2
<1>5. ASSUME NEW a \in Attempts, RecordRefused(a)
      PROVE  Quiets
  <2>1. CASE Held(a)
    <3>1. RecordCleanDispatchFailure(a)
      BY <1>5, <2>1, Zenon DEF RecordRefused, IfHeld
    <3>2. QED
      BY <1>5, <2>1, <3>1 DEF RecordCleanDispatchFailure, Release
  <2>2. CASE ~Held(a)
    BY <1>0, <1>5, <2>2, Zenon DEF RecordRefused, IfHeld
  <2>3. QED
    BY <2>1, <2>2
<1>6. ASSUME NEW a \in Attempts, RecordProbe(a)
      PROVE  Quiets
  <2>1. \/ call[a] = "absent" /\ RecordProbeAbsent(a)
        \/ RecordProbeFound(a)
        \/ RecordProbeUnknown(a)
        \/ UNCHANGED vars
    BY <1>6, Zenon DEF RecordProbe, IfHeld, Call
  <2>2. CASE call[a] = "absent" /\ RecordProbeAbsent(a)
    BY <1>6, <2>2 DEF RecordProbeAbsent, Release
  <2>3. CASE RecordProbeFound(a)
    BY <2>3 DEF RecordProbeFound, Deliver
  <2>4. CASE RecordProbeUnknown(a)
    BY <2>4 DEF RecordProbeUnknown, SettleAttempts, RetireOutbox, ReleaseUnits
  <2>5. QED
    BY <1>0, <2>1, <2>2, <2>3, <2>4
<1>7. ASSUME NEW a \in Attempts, RecordDispatched(a)
      PROVE  Quiets
  <2>1. \/ MarkOutboxDelivered(a)
        \/ RecordLateDispatchReference(a)
        \/ UNCHANGED vars
    BY <1>7, Zenon DEF RecordDispatched
  <2>2. CASE MarkOutboxDelivered(a)
    BY <2>2 DEF MarkOutboxDelivered, Deliver
  <2>3. CASE RecordLateDispatchReference(a)
    BY <2>3 DEF RecordLateDispatchReference
  <2>4. QED
    BY <1>0, <2>1, <2>2, <2>3
<1>8. ASSUME NEW a \in Attempts, RecordFailed(a)
      PROVE  Quiets
  <2>1. RecordAmbiguousDispatchFailure(a) \/ UNCHANGED vars
    BY <1>8, Zenon DEF RecordFailed, IfHeld
  <2>2. CASE RecordAmbiguousDispatchFailure(a)
    BY <2>2 DEF RecordAmbiguousDispatchFailure, Release
  <2>3. QED
    BY <1>0, <2>1, <2>2
<1>9. QED
  BY <1>1, <1>2, <1>3, <1>4, <1>5, <1>6, <1>7, <1>8 DEF DispatchLoop

(* Reports end attempts, and only a verified one succeeds.                 *)
LEMMA ReconciliationQuiets ==
    ASSUME TypeOK, ReconciliationLoop
    PROVE  /\ approvals' = approvals /\ started' = started
           /\ goal' = goal \/ goal' \in {"blocked", "unknown-outcome"}
           /\ \A a \in Attempts :
                /\ attempt'[a] \in LiveStates => attempt[a] \in LiveStates
                /\ attempt'[a] = "succeeded" =>
                       attempt[a] = "succeeded" \/ (reader[a] = "verified" /\ Reconciled(a))
<1> DEFINE Quiets ==
           /\ approvals' = approvals /\ started' = started
           /\ goal' = goal \/ goal' \in {"blocked", "unknown-outcome"}
           /\ \A a \in Attempts :
                /\ attempt'[a] \in LiveStates => attempt[a] \in LiveStates
                /\ attempt'[a] = "succeeded" =>
                       attempt[a] = "succeeded" \/ (reader[a] = "verified" /\ Reconciled(a))
<1> USE DEF TypeOK, vars, attemptVars, outboxVars, LiveStates
<1>0. ASSUME UNCHANGED vars
      PROVE  Quiets
  BY <1>0
<1>1. ASSUME NEW a \in Attempts, NEW state \in {"failed", "unknown-outcome"},
             NEW unitState, Settle(a, state, unitState),
             goal' = goal \/ goal' \in {"blocked", "unknown-outcome"}
      PROVE  Quiets
  BY <1>1 DEF Settle, SettleAttempts, RetireOutbox
<1>2. ASSUME NEW a \in Attempts, ReportVerified(a)
      PROVE  Quiets
  <2>1. reader[a] = "verified"
    BY <1>2 DEF ReportVerified, Reader
  <2>2. \/ ReportCompleted(a)
        \/ ReportRequeued(a)
        \/ ReportEscalated(a, "blocked")
        \/ UNCHANGED vars
    BY <1>2, Zenon DEF ReportVerified
  <2>3. CASE ReportCompleted(a)
    BY <2>1, <2>3 DEF ReportCompleted, Settle, SettleAttempts, RetireOutbox
  <2>4. CASE ReportRequeued(a)
    BY <1>1, <2>4 DEF ReportRequeued
  <2>5. CASE ReportEscalated(a, "blocked")
    BY <1>1, <2>5 DEF ReportEscalated
  <2>6. QED
    BY <1>0, <2>2, <2>3, <2>4, <2>5
<1>3. ASSUME NEW a \in Attempts, ReportLost(a)
      PROVE  Quiets
  <2>1. ReportAmbiguous(a) \/ UNCHANGED vars
    BY <1>3, Zenon DEF ReportLost
  <2>2. QED
    BY <1>0, <1>1, <2>1 DEF ReportAmbiguous
<1>4. ASSUME NEW a \in Attempts, NEW result \in {"passed", "failed"},
             RecordVerified(a, result)
      PROVE  Quiets
  <2>1. RecordVerificationResult(a, result) \/ UNCHANGED vars
    BY <1>4, Zenon DEF RecordVerified
  <2>2. CASE RecordVerificationResult(a, result)
    BY <2>2 DEF RecordVerificationResult
  <2>3. QED
    BY <1>0, <2>1, <2>2
<1>5. QED
  BY <1>0, <1>2, <1>3, <1>4 DEF ReconciliationLoop, ReadOutcomes, AnswerRead,
     StopReadSession, ReadFails

(* The cancellation loop leaves goals and attempts alone.                  *)
LEMMA CancellationQuiets ==
    ASSUME CancellationLoop
    PROVE  UNCHANGED <<approvals, started, goal, attempt>>
<1>1. \/ UNCHANGED vars
      \/ \E a \in Attempts : \/ AcknowledgeCancellationRequest(a)
                             \/ PersistCancellationExternalReference(a)
  BY Zenon DEF CancellationLoop, ListCancellations, ProbeCancelled,
     AnswerCancellationProbe, AcknowledgeAbsent, PersistReference, AbortSession,
     AcknowledgeAborted, CancellerFails
<1>2. QED
  BY <1>1 DEF AcknowledgeCancellationRequest, PersistCancellationExternalReference,
     vars, attemptVars, outboxVars

(* A goal executes again from a pause only, which left nothing live.       *)
LEMMA OutsideQuiets ==
    ASSUME TypeOK, LiveAttemptsOwnTheirUnit, PausedIsIdle, Outside
    PROVE  /\ PausedIsIdle' /\ started' = started
           /\ goal' = "executing" => goal \in {"absent", "executing", "paused"}
           /\ \A a \in Attempts :
                /\ attempt'[a] \in LiveStates => attempt[a] \in LiveStates
                /\ attempt'[a] = "succeeded" => attempt[a] = "succeeded"
<1> DEFINE Quiets ==
           /\ PausedIsIdle' /\ started' = started
           /\ goal' = "executing" => goal \in {"absent", "executing", "paused"}
           /\ \A a \in Attempts :
                /\ attempt'[a] \in LiveStates => attempt[a] \in LiveStates
                /\ attempt'[a] = "succeeded" => attempt[a] = "succeeded"
<1> USE DEF TypeOK, PausedIsIdle, attemptVars, outboxVars, LiveStates
<1>1. CASE CreateProposeApproveStart
  BY <1>1 DEF CreateProposeApproveStart
<1>2. CASE goal = "paused" /\ IssueApproval("resume")
  BY <1>2 DEF IssueApproval
<1>3. CASE ResumeGoal
  BY <1>3 DEF ResumeGoal, ConsumeApproval
<1>4. ASSUME NEW requeue \in BOOLEAN, Fence(requeue), goal' \in {"paused", "cancelled"}
      PROVE  Quiets
  <2>1. \A a \in Attempts : attempt[a] \in LiveStates => a \in ActiveAttempts
    BY DEF LiveAttemptsOwnTheirUnit, ActiveAttempts
  <2>2. /\ attempt' = [a \in Attempts |-> IF a \in ActiveAttempts THEN "cancelled" ELSE attempt[a]]
        /\ approvals' = approvals /\ started' = started
    BY <1>4 DEF Fence, SettleAttempts
  <2>3. QED
    BY <1>4, <2>1, <2>2
<1>5. CASE PauseGoal \/ CancelGoal
  BY <1>4, <1>5 DEF PauseGoal, CancelGoal
<1>6. CASE Time
  BY <1>6 DEF Time, AttemptLeaseExpires, DispatcherLeaseExpires
<1>7. QED
  BY <1>1, <1>2, <1>3, <1>5, <1>6, Zenon DEF Outside

(* A step keeps PausedIsIdle ...                                           *)
LEMMA PausedStep ==
    ASSUME TypeOK, LiveAttemptsOwnTheirUnit, PausedIsIdle, SessionNext
    PROVE  PausedIsIdle'
<1> USE DEF PausedIsIdle
<1>1. CASE DispatchLoop
  BY <1>1, DispatchLoopQuiets
<1>2. CASE OpenCode \/ Crash
  BY <1>2, OpenCodeIsStutter DEF Crash, vars, attemptVars
<1>3. CASE CancellationLoop
  BY <1>3, CancellationQuiets
<1>4. CASE ReconciliationLoop
  BY <1>4, ReconciliationQuiets
<1>5. CASE Outside
  BY <1>5, OutsideQuiets
<1>6. QED
  BY <1>1, <1>2, <1>3, <1>4, <1>5 DEF SessionNext

(* The clauses of UnmarkedIsUnprompted.                                    *)
RefusedAreLost ==
    \A a \in Attempts :
        call[a] = "refused" => goal # "executing" \/ attempt[a] \notin LiveStates

DispatchesAreMarked ==
    \A a \in Attempts :
        call[a] \in {"looking", "creating", "reading", "prompting", "answered", "failed"}
            => a \in started

NothingUnmarked ==
    \A a \in Attempts \ tardy :
        a \notin started \/ call[a] = "absent" => \A s \in SessionsOf(a) : ~Prompted(s)

(* ... and each clause of UnmarkedIsUnprompted.                            *)
LEMMA RefusedStep ==
    ASSUME TypeOK, LiveAttemptsOwnTheirUnit, PausedIsIdle, CallsMatch, RefusedAreLost,
           SessionNext
    PROVE  RefusedAreLost'
<1> USE DEF RefusedAreLost
<1>1. CASE DispatchLoop
  <2>1. SUFFICES ASSUME NEW a \in Attempts, call'[a] = "refused",
                        goal' = "executing", attempt'[a] \in LiveStates
                 PROVE  FALSE
    OBVIOUS
  <2>2. goal = "executing"
    BY <1>1, <2>1, DispatchLoopQuiets
  <2>3. CASE call[a] = "refused"
    <3>1. attempt[a] \notin LiveStates
      BY <2>2, <2>3
    <3>2. ~DispatchBusy
      BY <1>1, <2>1, <3>1, DispatchLoopQuiets
    <3>3. QED
      BY <2>3, <3>2 DEF DispatchBusy
  <2>4. CASE call[a] # "refused"
    <3>1. TakeUp(a)
      BY <1>1, <2>1, <2>4 DEF DispatchLoop, StartupReconcile, ClaimAvailable,
         TakeMessages, TakeUp, RecordRefused, RecordProbe, RecordDispatched,
         RecordFailed, Call, CallsMatch
    <3>2. CASE goal = "executing"
      BY <2>1, <3>1, <3>2 DEF TakeUp, Call, CallsMatch
    <3>3. QED
      BY <2>2, <3>2
  <2>5. QED
    BY <2>3, <2>4
<1>2. CASE OpenCode
  <2>1. \A a \in Attempts : call'[a] = "refused" => call[a] = "refused"
    BY <1>2 DEF OpenCode, ActLate, AgentActs, ListSessions, CreateSession, ReadMessages,
       PromptSession, ProbeSessions, InspectSession, Answered, Call, RequestFails,
       loopVars, ProbeAnswer, CallsMatch
  <2>2. QED
    BY <1>2, <2>1, OpenCodeIsStutter DEF vars, attemptVars
<1>3. CASE CancellationLoop
  <2>1. call' = call
    BY <1>3 DEF CancellationLoop, ListCancellations, ProbeCancelled,
       AnswerCancellationProbe, AcknowledgeAbsent, PersistReference, AbortSession,
       AcknowledgeAborted, CancellerFails, Canceller
  <2>2. QED
    BY <1>3, <2>1, CancellationQuiets
<1>4. CASE ReconciliationLoop
  <2>1. call' = call
    BY <1>4 DEF ReconciliationLoop, ReadOutcomes, AnswerRead, StopReadSession,
       ReadFails, RecordVerified, ReportVerified, ReportLost, Reader
  <2>2. QED
    BY <1>4, <2>1, ReconciliationQuiets
<1>5. CASE Outside
  <2>1. call' = call
    BY <1>5 DEF Outside, loopVars
  <2>2. QED
    BY <1>5, <2>1, OutsideQuiets DEF PausedIsIdle
<1>6. CASE Crash
  BY <1>6 DEF Crash
<1>7. QED
  BY <1>1, <1>2, <1>3, <1>4, <1>5, <1>6 DEF SessionNext

(* Whoever dispatches has marked the boundary.                             *)
LEMMA MarkedStep ==
    ASSUME TypeOK, LiveAttemptsOwnTheirUnit, PausedIsIdle, CallsMatch, DispatchesAreMarked,
           RefusedAreLost, SessionNext
    PROVE  DispatchesAreMarked'
<1> USE DEF DispatchesAreMarked
<1> DEFINE UnderWay == {"looking", "creating", "reading", "prompting", "answered", "failed"}
<1>1. CASE DispatchLoop
  <2>1. SUFFICES ASSUME NEW a \in Attempts, call'[a] \in UnderWay
                 PROVE  a \in started'
    OBVIOUS
  <2>2. CASE TakeUp(a)
    <3>1. call'[a] = "looking"
      BY <2>1, <2>2 DEF TakeUp, Call, CallsMatch
    <3>2. MarkDispatchStarted(a)
      BY <2>2, <3>1 DEF TakeUp, Call, CallsMatch
    <3>3. QED
      BY <3>2 DEF MarkDispatchStarted
  <2>3. CASE ~TakeUp(a)
    <3>1. call[a] \in UnderWay
      BY <1>1, <2>1, <2>3 DEF DispatchLoop, StartupReconcile, ClaimAvailable,
         TakeMessages, TakeUp, RecordRefused, RecordProbe, RecordDispatched,
         RecordFailed, Call, CallsMatch
    <3>2. a \in started
      BY <3>1
    <3>3. ~RecordRefused(a) /\ call[a] # "absent"
      BY <3>1 DEF RecordRefused, Call
    <3>4. QED
      BY <1>1, <3>2, <3>3, DispatchLoopQuiets
  <2>4. QED
    BY <2>2, <2>3
<1>2. CASE OpenCode
  <2>1. \A a \in Attempts : call'[a] \in UnderWay => call[a] \in UnderWay
    BY <1>2 DEF OpenCode, ActLate, AgentActs, ListSessions, CreateSession, ReadMessages,
       PromptSession, ProbeSessions, InspectSession, Answered, Call, RequestFails,
       loopVars, ProbeAnswer, CallsMatch, Requests
  <2>2. QED
    BY <1>2, <2>1, OpenCodeIsStutter DEF vars, outboxVars
<1>3. CASE CancellationLoop
  <2>1. call' = call
    BY <1>3 DEF CancellationLoop, ListCancellations, ProbeCancelled,
       AnswerCancellationProbe, AcknowledgeAbsent, PersistReference, AbortSession,
       AcknowledgeAborted, CancellerFails, Canceller
  <2>2. QED
    BY <1>3, <2>1, CancellationQuiets
<1>4. CASE ReconciliationLoop
  <2>1. call' = call
    BY <1>4 DEF ReconciliationLoop, ReadOutcomes, AnswerRead, StopReadSession,
       ReadFails, RecordVerified, ReportVerified, ReportLost, Reader
  <2>2. QED
    BY <1>4, <2>1, ReconciliationQuiets
<1>5. CASE Outside
  <2>1. call' = call
    BY <1>5 DEF Outside, loopVars
  <2>2. QED
    BY <1>5, <2>1, OutsideQuiets
<1>6. CASE Crash
  BY <1>6 DEF Crash
<1>7. QED
  BY <1>1, <1>2, <1>3, <1>4, <1>5, <1>6 DEF SessionNext

(* Where a probe's "absent" comes from, and what clears a boundary mark.   *)
LEMMA AbsentIsAnswered ==
    ASSUME CallsMatch, SessionNext, NEW a \in Attempts, call'[a] = "absent"
    PROVE  call[a] = "absent" \/ ProbeSessions(a) \/ InspectSession(a)
<1>1. CASE DispatchLoop
  BY <1>1 DEF DispatchLoop, StartupReconcile, ClaimAvailable, TakeMessages, TakeUp,
     RecordRefused, RecordProbe, RecordDispatched, RecordFailed, Call, CallsMatch
<1>2. CASE OpenCode
  BY <1>2 DEF OpenCode, ActLate, AgentActs, ListSessions, CreateSession, ReadMessages,
     PromptSession, ProbeSessions, InspectSession, Answered, Call, RequestFails,
     loopVars, CallsMatch
<1>3. CASE CancellationLoop
  BY <1>3 DEF CancellationLoop, ListCancellations, ProbeCancelled,
     AnswerCancellationProbe, AcknowledgeAbsent, PersistReference, AbortSession,
     AcknowledgeAborted, CancellerFails, Canceller
<1>4. CASE ReconciliationLoop
  BY <1>4 DEF ReconciliationLoop, ReadOutcomes, AnswerRead, StopReadSession,
     ReadFails, RecordVerified, ReportVerified, ReportLost, Reader
<1>5. CASE Outside \/ Crash
  BY <1>5 DEF Outside, Crash, loopVars
<1>6. QED
  BY <1>1, <1>2, <1>3, <1>4, <1>5 DEF SessionNext

(* A mark goes with a probe that found nothing, or a refusal.              *)
LEMMA MarksAreKept ==
    ASSUME TypeOK, LiveAttemptsOwnTheirUnit, PausedIsIdle, SessionNext,
           NEW a \in Attempts, a \in started, a \notin started'
    PROVE  call[a] = "absent" \/ (call[a] = "refused" /\ Held(a))
<1>1. CASE DispatchLoop
  BY <1>1, DispatchLoopQuiets DEF RecordRefused, Call
<1>2. CASE OpenCode \/ Crash
  BY <1>2, OpenCodeIsStutter DEF Crash, vars, outboxVars
<1>3. QED
  BY <1>1, <1>2, CancellationQuiets, ReconciliationQuiets, OutsideQuiets DEF SessionNext

(* The one session of an attempt is prompted behind a mark, and a probe    *)
(* sees it.                                                                *)
LEMMA NothingUnmarkedStep ==
    ASSUME TypeOK, LiveAttemptsOwnTheirUnit, PausedIsIdle, KeysMatch, CallsMatch, RefsMatch,
           KeysAreKept, AtMostOneSession, RefusedAreLost, DispatchesAreMarked,
           NothingUnmarked, SessionNext
    PROVE  NothingUnmarked'
<1>1. SUFFICES ASSUME NEW a \in Attempts \ tardy', NEW s \in SessionsOf(a)',
                      a \notin started' \/ call'[a] = "absent", Prompted(s)'
               PROVE  FALSE
  BY DEF NothingUnmarked
<1>2. s \in Sessions /\ keyOf'[s] = a /\ a \notin tardy
  BY <1>1, TardyStaysTardy DEF SessionsOf
<1>3. CASE Prompted(s)
  <2>1. keyOf[s] # None
    BY <1>2, <1>3 DEF Prompted, KeysMatch
  <2>2. s \in SessionsOf(a)
    BY <1>2, <2>1 DEF KeysAreKept, SessionsOf
  <2>3. a \in started /\ call[a] # "absent"
    BY <1>1, <1>2, <1>3, <2>2 DEF NothingUnmarked
  <2>4. a \in started'
    <3>1. ~(call[a] = "refused" /\ Held(a))
      BY <1>1 DEF RefusedAreLost, Held, Settleable, Active
    <3>2. QED
      BY <1>1, <2>3, <3>1, MarksAreKept
  <2>5. ProbeSessions(a) \/ InspectSession(a)
    BY <1>1, <2>3, <2>4, AbsentIsAnswered
  <2>6. CASE ProbeSessions(a)
    <3>1. MatchingSession(a) = NoSession
      BY <1>1, <2>4, <2>6 DEF ProbeSessions, Answered, Call, CallsMatch
    <3>2. QED
      BY <2>2, <3>1, MatchingSessionMatches
  <2>7. CASE InspectSession(a)
    <3>1. call[a] = "inspecting" /\ ProbeAnswer(target[a]) = "absent"
      BY <1>1, <2>4, <2>7 DEF InspectSession, Answered, Call, CallsMatch
    <3>2. target[a] \in SessionsOf(a)
      BY <3>1 DEF CallsMatch, SessionsOf
    <3>3. target[a] = s
      BY <1>1, <1>2, <2>2, <3>2 DEF AtMostOneSession
    <3>4. session[s] = "empty"
      BY <3>1, <3>3 DEF ProbeAnswer
    <3>5. QED
      BY <1>3, <3>4 DEF Prompted
  <2>8. QED
    BY <2>5, <2>6, <2>7
<1>4. CASE ~Prompted(s)
  <2>1. call[a] = "prompting"
    BY <1>1, <1>2, <1>4, SessionsMoveOn
  <2>2. a \in started /\ call[a] # "absent" /\ call[a] # "refused"
    BY <1>1, <2>1 DEF DispatchesAreMarked
  <2>3. call'[a] = "absent"
    BY <1>1, <2>2, MarksAreKept
  <2>4. ProbeSessions(a) \/ InspectSession(a)
    BY <1>1, <2>2, <2>3, AbsentIsAnswered
  <2>5. QED
    BY <2>1, <2>4 DEF ProbeSessions, InspectSession, Answered, Call
<1>5. QED
  BY <1>3, <1>4

LEMMA UnmarkedParts ==
    UnmarkedIsUnprompted <=> RefusedAreLost /\ DispatchesAreMarked /\ NothingUnmarked
BY DEF UnmarkedIsUnprompted, RefusedAreLost, DispatchesAreMarked, NothingUnmarked

-----------------------------------------------------------------------------
(* The reference of an attempt with one session never moves.               *)
LEMMA ReferencesStay ==
    ASSUME KeysMatch, RefsMatch, RefsMatch', KeysAreKept, AtMostOneSession',
           NEW a \in Attempts \ tardy', refOf[a] # NoSession, refOf'[a] # NoSession
    PROVE  refOf'[a] = refOf[a]
<1>1. /\ refOf[a] \in Sessions /\ refOf'[a] \in Sessions
      /\ keyOf[refOf[a]] = a /\ keyOf'[refOf'[a]] = a
  BY DEF RefsMatch
<1>2. keyOf'[refOf[a]] = a
  BY <1>1, MatchesStay
<1>3. QED
  BY <1>1, <1>2 DEF AtMostOneSession, SessionsOf

(* An attempt succeeds by the report of a reader that verified it.         *)
LEMMA WorkSucceedsVerified ==
    ASSUME TypeOK, LiveAttemptsOwnTheirUnit, PausedIsIdle, SessionNext,
           NEW a \in Attempts, attempt'[a] = "succeeded"
    PROVE  attempt[a] = "succeeded" \/ (reader[a] = "verified" /\ a \in ref)
<1>1. CASE DispatchLoop
  BY <1>1, DispatchLoopQuiets
<1>2. CASE OpenCode \/ Crash
  BY <1>2, OpenCodeIsStutter DEF Crash, vars, attemptVars
<1>3. CASE ReconciliationLoop
  BY <1>3, ReconciliationQuiets DEF Reconciled
<1>4. QED
  BY <1>1, <1>2, <1>3, CancellationQuiets, OutsideQuiets DEF SessionNext

(* How far the reader of an attempt gets in a step, and on what.           *)
LEMMA ReaderStep ==
    ASSUME CancellersMatch, RefsMatch, SessionNext, NEW a \in Attempts, reader'[a] # "none"
    PROVE  \/ reader'[a] = reader[a]
           \/ reader'[a] = "reading" /\ a \in ref
           \/ reader[a] = "reading" /\ reader'[a] = "lost"
           \/ /\ reader[a] = "reading" /\ reader'[a] = "stopping"
              /\ session[refOf[a]] = "wrapping" /\ session' = session
           \/ /\ reader[a] = "reading" /\ reader'[a] = "outcome"
              /\ session[refOf[a]] = "finished" /\ session' = session
           \/ /\ reader[a] = "stopping" /\ reader'[a] = "outcome"
              /\ Abort1(refOf[a]) /\ refOf' = refOf
           \/ reader[a] = "outcome" /\ reader'[a] = "verified"
<1> USE DEF CancellersMatch
<1>1. CASE DispatchLoop
  BY <1>1 DEF DispatchLoop, StartupReconcile, ClaimAvailable, TakeMessages, BetweenTicks,
     TakeUp, RecordRefused, RecordProbe, RecordDispatched, RecordFailed, Call
<1>2. CASE OpenCode
  BY <1>2 DEF OpenCode, ActLate, AgentActs, ListSessions, CreateSession, ReadMessages,
     PromptSession, ProbeSessions, InspectSession, Answered, Call, RequestFails,
     loopVars
<1>3. CASE CancellationLoop
  BY <1>3 DEF CancellationLoop, ListCancellations, ProbeCancelled,
     AnswerCancellationProbe, AcknowledgeAbsent, PersistReference, AbortSession,
     AcknowledgeAborted, CancellerFails, Canceller
<1>4. CASE ReadOutcomes
  BY <1>4 DEF ReadOutcomes, Reconciled
<1>5. ASSUME NEW b \in Attempts, AnswerRead(b)
      PROVE  \/ reader'[a] = reader[a]
             \/ reader[a] = "reading" /\ reader'[a] = "lost"
             \/ /\ reader[a] = "reading" /\ reader'[a] = "stopping"
                /\ session[refOf[a]] = "wrapping" /\ session' = session
             \/ /\ reader[a] = "reading" /\ reader'[a] = "outcome"
                /\ session[refOf[a]] = "finished" /\ session' = session
  BY <1>5 DEF AnswerRead, Reader, sessionVars
<1>6. ASSUME NEW b \in Attempts, StopReadSession(b)
      PROVE  \/ reader'[a] = reader[a]
             \/ /\ reader[a] = "stopping" /\ reader'[a] = "outcome"
                /\ Abort1(refOf[a]) /\ refOf' = refOf
  BY <1>6 DEF StopReadSession, Reader
<1>7. ASSUME NEW b \in Attempts, NEW result \in {"passed", "failed"}, RecordVerified(b, result)
      PROVE  reader'[a] = reader[a] \/ (reader[a] = "outcome" /\ reader'[a] = "verified")
  BY <1>7 DEF RecordVerified, Reader
<1>8. ASSUME NEW b \in Attempts, ReadFails(b) \/ ReportVerified(b) \/ ReportLost(b)
      PROVE  reader'[a] = reader[a]
  BY <1>8 DEF ReadFails, ReportVerified, ReportLost, Reader
<1>9. CASE Outside \/ Crash
  BY <1>9 DEF Outside, Crash, loopVars
<1>10. QED
  BY <1>1, <1>2, <1>3, <1>4, <1>5, <1>6, <1>7, <1>8, <1>9 DEF SessionNext, ReconciliationLoop

(* A step keeps OutcomesAreFinal.                                          *)
LEMMA OutcomesStep ==
    ASSUME TypeOK, TypeOK', LiveAttemptsOwnTheirUnit, PausedIsIdle, KeysMatch, CallsMatch,
           RefsMatch, RefsMatch', CancellersMatch, KeysAreKept, AtMostOneSession',
           OutcomesAreFinal, ref \subseteq ref', SessionNext
    PROVE  OutcomesAreFinal'
<1> USE DEF OutcomesAreFinal
<1>1. ASSUME NEW a \in Attempts, reader'[a] # "none"
      PROVE  a \in ref'
  BY <1>1, ReaderStep
<1>2. ASSUME NEW a \in Attempts \ tardy', a \in ref
      PROVE  /\ refOf'[a] = refOf[a]
             /\ refOf[a] \in Sessions
             /\ session[refOf[a]] = "finished" => session'[refOf[a]] = "finished"
             /\ session[refOf[a]] = "wrapping" => session'[refOf[a]] \in {"wrapping", "finished"}
  <2>1. refOf[a] # NoSession /\ refOf'[a] # NoSession /\ refOf[a] \in Sessions
    BY <1>2 DEF RefsMatch
  <2>2. QED
    BY <1>2, <2>1, ReferencesStay, SessionsMoveOn
<1>3. ASSUME NEW a \in Attempts \ tardy'
      PROVE  /\ reader'[a] = "stopping" => session'[refOf'[a]] \in {"wrapping", "finished"}
             /\ reader'[a] \in {"outcome", "verified"} =>
                    a \in ref' /\ session'[refOf'[a]] = "finished"
  <2>0. a \notin tardy
    BY <1>3, TardyStaysTardy
  <2>1. CASE reader'[a] = reader[a]
    BY <1>1, <1>2, <1>3, <2>0, <2>1
  <2>2. CASE reader[a] = "reading" /\ session' = session
    BY <1>1, <1>2, <1>3, <2>0, <2>2, ReaderStep
  <2>3. CASE /\ reader[a] = "stopping" /\ reader'[a] = "outcome"
             /\ Abort1(refOf[a]) /\ refOf' = refOf
    <3>1. a \in ref /\ session[refOf[a]] \in {"wrapping", "finished"}
      BY <2>0, <2>3
    <3>2. refOf[a] \in Sessions
      BY <1>2, <3>1
    <3>3. session'[refOf[a]] = "finished"
      BY <2>3, <3>1, <3>2 DEF Abort1, AtWork, KeysMatch
    <3>4. QED
      BY <2>3, <3>1, <3>3
  <2>4. CASE reader[a] = "outcome" /\ reader'[a] = "verified"
    BY <1>1, <1>2, <1>3, <2>0, <2>4
  <2>5. CASE reader'[a] \in {"none", "reading", "lost"}
    BY <2>5
  <2>6. QED
    BY <2>1, <2>2, <2>3, <2>4, <2>5, ReaderStep
<1>4. ASSUME NEW a \in Attempts \ tardy', attempt'[a] = "succeeded"
      PROVE  a \in ref' /\ session'[refOf'[a]] = "finished"
  <2>1. a \notin tardy
    BY <1>4, TardyStaysTardy
  <2>2. attempt[a] = "succeeded" \/ reader[a] = "verified"
    BY <1>4, WorkSucceedsVerified
  <2>3. a \in ref /\ session[refOf[a]] = "finished"
    BY <2>1, <2>2
  <2>4. QED
    BY <1>2, <1>4, <2>3
<1>5. QED
  BY <1>1, <1>3, <1>4

-----------------------------------------------------------------------------
(* The three invariants of the composition.                                *)

WorkGivenOnce ==
    /\ AtMostOneSession
    /\ OutcomesAreFinal
    /\ PausedIsIdle
    /\ UnmarkedIsUnprompted

LEMMA WorkGivenOnceInit ==
    ASSUME SessionInit
    PROVE  WorkGivenOnce
<1>1. AtMostOneSession
  BY NotNumbered DEF SessionInit, AtMostOneSession, SessionsOf, None
<1>2. OutcomesAreFinal /\ PausedIsIdle
  BY DEF SessionInit, Init, OutcomesAreFinal, PausedIsIdle, LiveStates
<1>3. UnmarkedIsUnprompted
  BY NotNumbered DEF SessionInit, Init, UnmarkedIsUnprompted, SessionsOf, Prompted, None
<1>4. QED
  BY <1>1, <1>2, <1>3 DEF WorkGivenOnce

LEMMA WorkGivenOnceStutters ==
    ASSUME WorkGivenOnce, UNCHANGED dispatchVars
    PROVE  WorkGivenOnce'
<1> USE DEF dispatchVars, vars, loopVars, sessionVars, outboxVars, attemptVars
<1>1. AtMostOneSession'
  BY DEF WorkGivenOnce, AtMostOneSession, SessionsOf
<1>2. OutcomesAreFinal' /\ PausedIsIdle'
  BY DEF WorkGivenOnce, OutcomesAreFinal, PausedIsIdle
<1>3. UnmarkedIsUnprompted'
  BY DEF WorkGivenOnce, UnmarkedIsUnprompted, SessionsOf, Prompted
<1>4. QED
  BY <1>1, <1>2, <1>3 DEF WorkGivenOnce

LEMMA WorkGivenOnceStep ==
    ASSUME "resume" \in TokenScopes, IndInv, IndInv', SessionIndInv, SessionIndInv',
           WorkGivenOnce, SessionNext
    PROVE  WorkGivenOnce'
<1>1. TypeOK /\ LiveAttemptsOwnTheirUnit /\ TypeOK'
  BY DEF IndInv
<1>2. RefsMatch /\ KeysMatch /\ CallsMatch /\ CancellersMatch
  BY <1>1, PartsAreTheInvariant
<1>3. RefsMatch'
  BY <1>1 DEF SessionIndInv, SessionTypeOK, RefsMatch
<1>4. KeysAreKept
  BY <1>1, <1>2, KeysStep
<1>5. ref \subseteq ref'
  BY ReferencesAreKept, SessionNextIsStoreStep
<1>6. AtMostOneSession /\ OutcomesAreFinal /\ PausedIsIdle
  BY DEF WorkGivenOnce
<1>7. RefusedAreLost /\ DispatchesAreMarked /\ NothingUnmarked
  BY UnmarkedParts DEF WorkGivenOnce
<1>8. AtMostOneSession'
  BY <1>2, <1>6, AtMostOneStep
<1>9. OutcomesAreFinal'
  BY <1>1, <1>2, <1>3, <1>4, <1>5, <1>6, <1>8, OutcomesStep
<1>10. PausedIsIdle'
  BY <1>1, <1>6, PausedStep
<1>11. RefusedAreLost' /\ DispatchesAreMarked'
  BY <1>1, <1>2, <1>6, <1>7, RefusedStep, MarkedStep
<1>12. NothingUnmarked'
  BY <1>1, <1>2, <1>4, <1>6, <1>7, NothingUnmarkedStep
<1>13. UnmarkedIsUnprompted'
  BY <1>11, <1>12 DEF UnmarkedIsUnprompted, RefusedAreLost, DispatchesAreMarked,
     NothingUnmarked
<1>14. QED
  BY <1>8, <1>9, <1>10, <1>13 DEF WorkGivenOnce

(* An attempt whose late requests OpenCode did not act on has one session, *)
(* which gets its work after the boundary mark, and whose last word is     *)
(* what its outcome is decided on.                                         *)
THEOREM WorkIsGivenOnce ==
    ASSUME "resume" \in TokenScopes
    PROVE  SessionSpec => []WorkGivenOnce
<1>1. SessionInit => WorkGivenOnce
  BY WorkGivenOnceInit
<1>2. IndInv /\ IndInv' /\ SessionIndInv /\ SessionIndInv' /\ WorkGivenOnce
          /\ [SessionNext]_dispatchVars => WorkGivenOnce'
  BY WorkGivenOnceStep, WorkGivenOnceStutters
<1>3. QED
  BY <1>1, <1>2, SessionsImplementStore, InvariantHolds, LoopsWorkOnTheirSessions, PTL
     DEF SessionSpec

(* One session at most is given an attempt's work, through failed requests,*)
(* lost leases, repeated dispatches and deaths of the daemon.              *)
THEOREM OneSessionIsPrompted ==
    ASSUME "resume" \in TokenScopes
    PROVE  SessionSpec => []OnePromptedSession
<1>1. AtMostOneSession => OnePromptedSession
  <2>1. SUFFICES ASSUME AtMostOneSession, NEW a \in Attempts \ tardy
                 PROVE  Cardinality({s \in SessionsOf(a) : Prompted(s)}) <= 1
    BY DEF OnePromptedSession
  <2>2. DEFINE P == {s \in SessionsOf(a) : Prompted(s)}
  <2>3. CASE P = {}
    BY <2>3, FS_EmptySet
  <2>4. ASSUME NEW s \in P
        PROVE  Cardinality(P) <= 1
    <3>1. P = {s}
      BY <2>1, <2>4 DEF AtMostOneSession
    <3>2. QED
      BY <3>1, FS_Singleton
  <2>5. QED
    BY <2>3, <2>4
<1>2. WorkGivenOnce => AtMostOneSession
  BY DEF WorkGivenOnce
<1>3. QED
  BY <1>1, <1>2, WorkIsGivenOnce, PTL

(* GS-DISP-7: an attempt that is written off as expired, so that its unit  *)
(* is worked on again, has no session that was given the work: nothing but *)
(* a probe that found none clears the boundary mark of a dispatch.         *)
THEOREM ExpiredWorkWasNotGiven ==
    ASSUME "resume" \in TokenScopes
    PROVE  SessionSpec => []ExpiredHasNoSession
<1>1. WorkGivenOnce /\ ExpiredMeansNeverDispatched => ExpiredHasNoSession
  BY DEF WorkGivenOnce, UnmarkedIsUnprompted, ExpiredMeansNeverDispatched, Evidence,
     ExpiredHasNoSession
<1>2. QED
  BY <1>1, WorkIsGivenOnce, SessionsImplementStore, ExpiredAttemptsWereIdle, PTL

(* A unit is accepted on the word of a session of the very attempt that    *)
(* succeeded, which has ended with an outcome.                             *)
THEOREM WorkIsAcceptedFromItsSession ==
    ASSUME "resume" \in TokenScopes
    PROVE  SessionSpec => []AcceptedFromOwnSession
<1>1. WorkGivenOnce /\ SessionIndInv => AcceptedFromOwnSession
  BY DEF WorkGivenOnce, OutcomesAreFinal, SessionIndInv, SessionTypeOK, SessionsOf,
     NoSession, AcceptedFromOwnSession
<1>2. QED
  BY <1>1, WorkIsGivenOnce, LoopsWorkOnTheirSessions, PTL

(* The daemon aborts work it has fenced and sessions that have given their *)
(* outcome, and no other: processCancellations aborts the session of the   *)
(* attempt it was asked to cancel, whose work is fenced by then, and       *)
(* readOutcome that of the attempt it reads, which has its last word.      *)
THEOREM OnlyFencedSessionsAreAborted ==
    ASSUME "resume" \in TokenScopes
    PROVE  SessionSpec => OnlyFencedWorkIsAborted
<1> DEFINE AbortsFenced ==
             \A a \in Attempts :
                /\ canceller[a] = "aborting" /\ canceller'[a] = "aborted" =>
                       keyOf[refOf[a]] = a /\ attempt[a] = "cancelled"
                /\ reader[a] = "stopping" /\ reader'[a] = "outcome" /\ a \notin tardy =>
                       keyOf[refOf[a]] = a /\ session[refOf[a]] \in {"wrapping", "finished"}
<1>1. ASSUME SessionIndInv, OnlyFencedAttemptsAreCancelled, WorkGivenOnce, NEW a \in Attempts
      PROVE  /\ canceller[a] = "aborting" =>
                    keyOf[refOf[a]] = a /\ attempt[a] = "cancelled"
             /\ reader[a] = "stopping" /\ a \notin tardy =>
                    keyOf[refOf[a]] = a /\ session[refOf[a]] \in {"wrapping", "finished"}
  <2>1. canceller[a] = "aborting" => keyOf[refOf[a]] = a /\ attempt[a] = "cancelled"
    BY <1>1 DEF SessionIndInv, OnlyFencedAttemptsAreCancelled
  <2>2. reader[a] = "stopping" => keyOf[refOf[a]] = a
    BY <1>1 DEF SessionIndInv, WorkGivenOnce, OutcomesAreFinal
  <2>3. reader[a] = "stopping" /\ a \notin tardy =>
            session[refOf[a]] \in {"wrapping", "finished"}
    BY <1>1 DEF WorkGivenOnce, OutcomesAreFinal
  <2>4. QED
    BY <2>1, <2>2, <2>3
<1>2. SessionSpec => [][AbortsFenced]_dispatchVars
  <2>1. SessionIndInv /\ OnlyFencedAttemptsAreCancelled /\ WorkGivenOnce
            => [AbortsFenced]_dispatchVars
    BY <1>1
  <2>2. QED
    BY <2>1, LoopsWorkOnTheirSessions, SessionsImplementStore,
       WorkingSessionsAreNotCancelled, WorkIsGivenOnce, PTL
<1>3. QED
  BY <1>2 DEF OnlyFencedWorkIsAborted

=============================================================================
