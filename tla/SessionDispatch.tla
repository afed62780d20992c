--------------------------- MODULE SessionDispatch ---------------------------
(***************************************************************************)
(* The daemon's loops, the OpenCode adapter and the sessions of OpenCode,  *)
(* composed with the store.  Every transaction below is an action of       *)
(* GoalStore; this module says who calls it, when, and on the strength of  *)
(* which answer.                                                           *)
(*                                                                         *)
(* JavaScript runs one piece of code from one await to the next, so an     *)
(* action is either a piece of the supervisor or the adapter, or OpenCode  *)
(* answering a request.  A call that has the answer continues in a later   *)
(* action: everything may happen in between.  The workspace lock leaves    *)
(* one daemon at a time; a shutdown aborts its requests and drops its      *)
(* continuations, which is what a crash does.                              *)
(***************************************************************************)
EXTENDS GoalStore

CONSTANTS
    MaxSessions,    \* bound: sessions ever created
    MaxFaults       \* bound, by the goal's attempt limit: deaths of the daemon,
                    \* and requests that outlive their caller

Sessions  == 1 .. MaxSessions   \* in the order of their creation
NoSession == 0

ASSUME SessionBoundsAssumption ==
    MaxSessions \in Nat /\ MaxFaults \in [Attempts -> Nat]

VARIABLES
    call,       \* dispatchPending's work on an attempt's message
    target,     \* the session that work is about
    canceller,  \* processCancellations' work on an attempt's request
    reader,     \* reconcileActive's work on an attempt
    session,    \* what OpenCode's sessions do
    keyOf,      \* the attempt whose key is in the session's title
    refOf,      \* the session a recorded reference of an attempt names
    abandoned,  \* requests whose caller gave up, which OpenCode may still see
    tardy,      \* attempts OpenCode acted for after their caller gave up
    faults      \* deaths of the daemon, and requests that outlived their caller

loopVars     == <<call, target, canceller, reader>>
sessionVars  == <<session, keyOf, abandoned, tardy>>
dispatchVars == <<vars, loopVars, sessionVars, refOf, faults>>

Requests == {"looking", "creating", "reading", "prompting", "probing", "inspecting"}
CallStates == Requests \union {"none", "claimed", "refused", "absent", "found",
                               "unknown", "answered", "failed"}
CancellerStates == {"none", "listed", "probing", "inspecting", "absent", "found",
                    "aborting", "aborted"}
ReaderStates == {"none", "reading", "stopping", "outcome", "verified", "lost"}

(* A session without a user message is empty; a working one may have an    *)
(* outcome already and still be busy.                                      *)
SessionStates == {"none", "empty", "working", "wrapping", "finished", "aborted"}

SessionTypeOK ==
    /\ call \in [Attempts -> CallStates]
    /\ target \in [Attempts -> Sessions \union {NoSession}]
    /\ canceller \in [Attempts -> CancellerStates]
    /\ reader \in [Attempts -> ReaderStates]
    /\ session \in [Sessions -> SessionStates]
    /\ keyOf \in [Sessions -> Attempts \union {None}]
    /\ refOf \in [Attempts -> Sessions \union {NoSession}]
    /\ abandoned \subseteq ({"creating"} \X Attempts) \union ({"prompting"} \X Sessions)
    /\ tardy \subseteq Attempts
    /\ faults \in 0 .. MaxFaults[limit]

SessionsOf(a) == {s \in Sessions : keyOf[s] = a}
Prompted(s)   == session[s] \notin {"none", "empty"}
AtWork(s)     == session[s] \in {"working", "wrapping"}

(* Bug variants: sessions at work are left out; the title is that of the  *)
(* goal.                                                                   *)
IdleSession(a) ==
    LET idle == {s \in SessionsOf(a) : session[s] = "empty"} IN
    IF idle = {} THEN NoSession ELSE CHOOSE s \in idle : \A t \in idle : s <= t

AnySession(a) == IF \E s \in Sessions : session[s] # "none" THEN 1 ELSE NoSession

(* #matchingSession: the earliest session with the attempt's title.        *)
MatchingSession(a) ==
    IF SessionsOf(a) = {} THEN NoSession
    ELSE CHOOSE s \in SessionsOf(a) : \A t \in SessionsOf(a) : s <= t

SessionInit ==
    /\ Init
    /\ call = [a \in Attempts |-> "none"]
    /\ target = [a \in Attempts |-> NoSession]
    /\ canceller = [a \in Attempts |-> "none"]
    /\ reader = [a \in Attempts |-> "none"]
    /\ session = [s \in Sessions |-> "none"]
    /\ keyOf = [s \in Sessions |-> None]
    /\ refOf = [a \in Attempts |-> NoSession]
    /\ abandoned = {}
    /\ tardy = {}
    /\ faults = 0

-----------------------------------------------------------------------------
(* A tick of the dispatch, the reconciliation or the cancellation loop     *)
(* holds one of the daemon's permits from its first to its last await.     *)
DispatchBusy  == \E a \in Attempts : call[a] # "none"
CancelBusy    == \E a \in Attempts : canceller[a] # "none"
ReconcileBusy == \E a \in Attempts : reader[a] # "none"

Permit(others) == Cardinality({i \in DOMAIN others : others[i]}) < Concurrency

(* The dispatch loop's tick: startupReconcile, claimAvailableWork and       *)
(* claimOutbox, then the messages.  It starts again when every message was *)
(* dealt with.  A transaction that finds nothing to do is no step.         *)

BetweenTicks ==
    /\ ~DispatchBusy
    /\ Permit(<<CancelBusy, ReconcileBusy>>)
    /\ UNCHANGED <<target, canceller, reader, sessionVars, refOf, faults>>

StartupReconcile ==
    /\ BetweenTicks
    /\ RecoverExpiredAttempts \/ (Overdue = {} /\ RecoverExpiredOutboxLeases)
    /\ UNCHANGED call

(* claimAvailableWork follows a startupReconcile that left nothing overdue.*)
ClaimAvailable ==
    /\ BetweenTicks
    /\ Overdue = {}
    /\ BlockExhaustedGoal \/ \E u \in Units : ClaimNextWork(u)
    /\ UNCHANGED call

(* A row that backs off is left for a later tick.                          *)
TakeMessages(batch) ==
    /\ BetweenTicks
    /\ Overdue = {}
    /\ ClaimOutbox(batch)
    /\ call' = [a \in Attempts |-> IF a \in batch THEN "claimed" ELSE "none"]

-----------------------------------------------------------------------------
(* dispatchPending's work on one message.                                  *)

Call(a, from, to) ==
    /\ call[a] = from
    /\ call' = [call EXCEPT ![a] = to]
    /\ UNCHANGED <<canceller, reader, faults>>

Forget(a) == target' = [target EXCEPT ![a] = NoSession]

(* What is recorded only if the lease is still held, else thrown away.     *)
IfHeld(a, record) == IF Held(a) THEN record ELSE UNCHANGED vars

(* The goal's state is read, and the boundary marked before the adapter is *)
(* called, in one piece.  One message is worked on at a time.              *)
TakeUp(a) ==
    LET next == IF goal # "executing" THEN "refused"
                ELSE IF a \in needsProbe THEN "probing"
                ELSE IF Held(a) THEN "looking" ELSE "none"
    IN  /\ \A b \in Attempts : call[b] \in {"none", "claimed"}
        /\ Call(a, "claimed", next)
        /\ IF next = "looking" THEN MarkDispatchStarted(a) ELSE UNCHANGED vars
        /\ UNCHANGED <<target, sessionVars, refOf>>

(* "Goal is no longer executing" is recorded as a clean failure.           *)
RecordRefused(a) ==
    /\ Call(a, "refused", "none")
    /\ IfHeld(a, RecordCleanDispatchFailure(a))
    /\ UNCHANGED <<target, sessionVars, refOf>>

(* The probe's answer is recorded; one that is lost or invalid is unknown. *)
RecordProbe(a) ==
    /\ \/ /\ Call(a, "absent", "none")
          /\ IfHeld(a, RecordProbeAbsent(a))
          /\ UNCHANGED refOf
       \/ /\ Call(a, "found", "none")
          /\ IfHeld(a, RecordProbeFound(a))
          /\ refOf' = IF Held(a) THEN [refOf EXCEPT ![a] = target[a]] ELSE refOf
       \/ /\ Call(a, "unknown", "none")
          /\ IfHeld(a, RecordProbeUnknown(a))
          /\ UNCHANGED refOf
    /\ Forget(a)
    /\ UNCHANGED sessionVars

(* The reference of a dispatch that worked: delivered if the lease is      *)
(* still held, and recorded late if not.                                   *)
RecordDispatched(a) ==
    /\ Call(a, "answered", "none")
    /\ IF Held(a) THEN MarkOutboxDelivered(a)
       ELSE IF a \in started THEN RecordLateDispatchReference(a)
       ELSE UNCHANGED vars
    /\ refOf' = IF Held(a) \/ a \in started
                THEN [refOf EXCEPT ![a] = target[a]] ELSE refOf
    /\ Forget(a)
    /\ UNCHANGED sessionVars

(* The adapter cannot tell whether anything happened: the next one probes. *)
RecordFailed(a) ==
    /\ Call(a, "failed", "none")
    /\ IfHeld(a, RecordAmbiguousDispatchFailure(a))
    /\ Forget(a)
    /\ UNCHANGED <<sessionVars, refOf>>

-----------------------------------------------------------------------------
(* OpenCode answers the adapter.                                           *)

Answered(a, from, to, s) ==
    /\ Call(a, from, to)
    /\ target' = [target EXCEPT ![a] = s]
    /\ UNCHANGED <<vars, refOf>>

(* #dispatchOnce: the sessions are listed ...                              *)
ListSessions(a) ==
    LET s == MatchingSession(a) IN
    /\ Answered(a, "looking", IF s = NoSession THEN "creating" ELSE "reading", s)
    /\ UNCHANGED sessionVars

Create1(a, s) ==
    /\ session[s] = "none"
    /\ \A t \in Sessions : t < s => session[t] # "none"
    /\ session' = [session EXCEPT ![s] = "empty"]
    /\ keyOf' = [keyOf EXCEPT ![s] = a]

(* ... one is created if there was none ...                                *)
CreateSession(a, s) ==
    /\ Create1(a, s)
    /\ Answered(a, "creating", "reading", s)
    /\ UNCHANGED <<abandoned, tardy>>

(* ... its messages are read ...                                           *)
ReadMessages(a) ==
    /\ Answered(a, "reading", IF Prompted(target[a]) THEN "answered" ELSE "prompting",
                target[a])
    /\ UNCHANGED sessionVars

(* A repeated prompt has the same message id, and OpenCode coalesces it.   *)
Prompt1(s) ==
    session' = IF session[s] = "empty" THEN [session EXCEPT ![s] = "working"]
               ELSE session

(* ... and it is prompted if nobody has done so.                           *)
PromptSession(a) ==
    /\ Answered(a, "prompting", "answered", target[a])
    /\ Prompt1(target[a])
    /\ UNCHANGED <<keyOf, abandoned, tardy>>

(* #inspect, as a probe sees it.                                           *)
ProbeAnswer(s) ==
    IF session[s] = "empty" THEN "absent"
    ELSE IF session[s] = "aborted" THEN "unknown" ELSE "found"

ProbeSessions(a) ==
    LET s == MatchingSession(a) IN
    /\ Answered(a, "probing", IF s = NoSession THEN "absent" ELSE "inspecting", s)
    /\ UNCHANGED sessionVars

InspectSession(a) ==
    /\ Answered(a, "inspecting", ProbeAnswer(target[a]), target[a])
    /\ UNCHANGED sessionVars

(* A request fails, before OpenCode saw it, after, or while it is on its   *)
(* way: then OpenCode may act on it whenever it likes.                     *)
RequestOf(a) == IF call[a] = "creating" THEN {<<"creating", a>>}
                ELSE IF call[a] = "prompting" THEN {<<"prompting", target[a]>>} ELSE {}

Outlives(requests) ==
    /\ faults < MaxFaults[limit]
    /\ faults' = faults + 1
    /\ abandoned' = abandoned \union requests

RequestFails(a) ==
    /\ call[a] \in Requests
    /\ call' = [call EXCEPT ![a] = IF @ \in {"probing", "inspecting"} THEN "unknown"
                                   ELSE "failed"]
    /\ \/ UNCHANGED <<sessionVars, faults>>
       \/ /\ call[a] = "creating"
          /\ \E s \in Sessions : Create1(a, s)
          /\ UNCHANGED <<abandoned, tardy, faults>>
       \/ /\ call[a] = "prompting"
          /\ Prompt1(target[a])
          /\ UNCHANGED <<keyOf, abandoned, tardy, faults>>
       \/ /\ RequestOf(a) # {}
          /\ Outlives(RequestOf(a))
          /\ UNCHANGED <<session, keyOf, tardy>>
    /\ UNCHANGED <<vars, target, canceller, reader, refOf>>

(* OpenCode acts on a request nobody waits for any more.                   *)
ActLate ==
    /\ \/ \E a \in Attempts, s \in Sessions :
            /\ <<"creating", a>> \in abandoned
            /\ Create1(a, s)
            /\ abandoned' = abandoned \ {<<"creating", a>>}
            /\ tardy' = tardy \union {a}
       \/ \E s \in Sessions :
            /\ <<"prompting", s>> \in abandoned
            /\ Prompt1(s)
            /\ abandoned' = abandoned \ {<<"prompting", s>>}
            /\ tardy' = tardy \union {keyOf[s]}
            /\ UNCHANGED keyOf
    /\ UNCHANGED <<vars, loopVars, refOf, faults>>

(* The agent works: it has an outcome while still busy, and ends with the  *)
(* outcome or without a usable one.                                        *)
AgentActs(s) ==
    /\ \/ session[s] = "working" /\ session' = [session EXCEPT ![s] = "wrapping"]
       \/ session[s] = "wrapping" /\ session' = [session EXCEPT ![s] = "finished"]
       \/ session[s] = "working" /\ session' = [session EXCEPT ![s] = "aborted"]
    /\ UNCHANGED <<vars, loopVars, keyOf, refOf, abandoned, tardy, faults>>

-----------------------------------------------------------------------------
(* The cancellation loop.                                                  *)

Canceller(a, from, to) ==
    /\ canceller[a] = from
    /\ canceller' = [canceller EXCEPT ![a] = to]
    /\ UNCHANGED <<call, target, reader, sessionVars, faults>>

(* processCancellations lists the pending requests and the references,     *)
(* then deals with one request after the other.                            *)
ListCancellations ==
    /\ ~CancelBusy
    /\ Permit(<<DispatchBusy, ReconcileBusy>>)
    /\ \E a \in Attempts : cancellation[a] = "pending"
    /\ canceller' = [a \in Attempts |->
                        IF cancellation[a] # "pending" THEN "none"
                        ELSE IF a \in ref THEN "found" ELSE "listed"]
    /\ UNCHANGED <<vars, call, target, reader, sessionVars, refOf, faults>>

Waiting == {"none", "listed", "found"}

(* The listed request has no reference: the durable key is probed.         *)
ProbeCancelled(a) ==
    /\ \A b \in Attempts : canceller[b] \in Waiting
    /\ Canceller(a, "listed", "probing")
    /\ UNCHANGED <<vars, refOf>>

AnswerCancellationProbe(a) ==
    LET s == MatchingSession(a) IN
    /\ Canceller(a, "probing",
                 IF s = NoSession \/ session[s] = "empty" THEN "absent"
                 ELSE IF session[s] = "aborted" THEN "none" ELSE "inspecting")
    /\ UNCHANGED <<vars, refOf>>

(* Absent settles the request.                                             *)
AcknowledgeAbsent(a) ==
    /\ Canceller(a, "absent", "none")
    /\ IF cancellation[a] = "pending" THEN AcknowledgeCancellationRequest(a)
       ELSE UNCHANGED vars
    /\ UNCHANGED refOf

(* The reference is persisted before the session is aborted.               *)
PersistReference(a) ==
    /\ \A b \in Attempts : b # a => canceller[b] \in Waiting
    /\ canceller[a] \in {"found", "inspecting"}
    /\ Canceller(a, canceller[a],
                 IF cancellation[a] = "pending" THEN "aborting" ELSE "none")
    /\ IF cancellation[a] = "pending" THEN PersistCancellationExternalReference(a)
       ELSE UNCHANGED vars
    /\ refOf' = IF refOf[a] = NoSession THEN [refOf EXCEPT ![a] = MatchingSession(a)]
                ELSE refOf

Abort1(s) ==
    session' = IF AtWork(s)
               THEN [session EXCEPT ![s] = IF @ = "wrapping" THEN "finished" ELSE "aborted"]
               ELSE session

AbortSession(a) ==
    /\ canceller[a] = "aborting"
    /\ canceller' = [canceller EXCEPT ![a] = "aborted"]
    /\ Abort1(refOf[a])
    /\ UNCHANGED <<vars, call, target, reader, keyOf, abandoned, tardy,
                   refOf, faults>>

AcknowledgeAborted(a) ==
    /\ Canceller(a, "aborted", "none")
    /\ IF cancellation[a] = "pending" THEN AcknowledgeCancellationRequest(a)
       ELSE UNCHANGED vars
    /\ UNCHANGED refOf

(* A probe or an abort that fails leaves the request pending.              *)
CancellerFails(a) ==
    /\ canceller[a] \in {"probing", "aborting"}
    /\ Canceller(a, canceller[a], "none")
    /\ UNCHANGED <<vars, refOf>>

-----------------------------------------------------------------------------
(* The reconciliation loop, on an attempt with a reference.                *)

Reader(a, from, to) ==
    /\ reader[a] = from
    /\ reader' = [reader EXCEPT ![a] = to]
    /\ UNCHANGED <<call, target, canceller, refOf, faults>>

(* reconcileActive lists the active attempts and the references, and reads *)
(* the outcome of each attempt that has one.                               *)
ReadOutcomes ==
    /\ ~ReconcileBusy
    /\ Permit(<<DispatchBusy, CancelBusy>>)
    /\ \E a \in Attempts : Reconciled(a)
    /\ reader' = [a \in Attempts |-> IF Reconciled(a) THEN "reading" ELSE "none"]
    /\ UNCHANGED <<vars, call, target, canceller, sessionVars, refOf, faults>>

(* Bug variant: a session that ended has an outcome.                       *)
EndedIsOutcome(a) ==
    /\ Reader(a, "reading", IF session[refOf[a]] = "wrapping" THEN "stopping"
                            ELSE IF AtWork(refOf[a]) THEN "none" ELSE "outcome")
    /\ UNCHANGED <<vars, sessionVars>>

(* Bug variant: whatever is still at work is stopped.                      *)
StopAnyRead(a) ==
    LET s == refOf[a] IN
    /\ Reader(a, "reading", IF AtWork(s) THEN "stopping"
                            ELSE IF session[s] = "finished" THEN "outcome"
                            ELSE IF session[s] = "aborted" THEN "lost" ELSE "none")
    /\ UNCHANGED <<vars, sessionVars>>

(* #inspect, as readOutcome sees it: still at work, at work with an        *)
(* outcome, ended with or without one.                                     *)
AnswerRead(a) ==
    LET s == refOf[a] IN
    /\ Reader(a, "reading", IF session[s] = "wrapping" THEN "stopping"
                            ELSE IF session[s] = "finished" THEN "outcome"
                            ELSE IF session[s] = "aborted" THEN "lost" ELSE "none")
    /\ UNCHANGED <<vars, sessionVars>>

(* An outcome of a session that is still busy counts once it is stopped.   *)
(* The code stops the session of the reference it listed; that of an       *)
(* attempt OpenCode did not act late for never moves (ReferencesStay).     *)
StopReadSession(a) ==
    /\ Reader(a, "stopping", "outcome")
    /\ Abort1(refOf[a])
    /\ UNCHANGED <<vars, keyOf, abandoned, tardy>>

ReadFails(a) ==
    /\ reader[a] \in {"reading", "stopping"}
    /\ Reader(a, reader[a], "none")
    /\ UNCHANGED <<vars, sessionVars>>

(* Verification ran under the heartbeat; it is recorded if the attempt is  *)
(* still active, and everything is thrown away if it is not.               *)
RecordVerified(a, result) ==
    /\ Reader(a, "outcome", IF Reconciled(a) THEN "verified" ELSE "none")
    /\ IF Reconciled(a) /\ verified[a] = "none" THEN RecordVerificationResult(a, result)
       ELSE UNCHANGED vars
    /\ UNCHANGED sessionVars

ReportVerified(a) ==
    /\ Reader(a, "verified", "none")
    /\ IF ~Reconciled(a) THEN UNCHANGED vars
       ELSE \/ ReportCompleted(a)
            \/ ~Verified(a) /\ (ReportRequeued(a) \/ ReportEscalated(a, "blocked"))
    /\ UNCHANGED sessionVars

(* The session ended without an outcome.                                   *)
ReportLost(a) ==
    /\ Reader(a, "lost", "none")
    /\ IF Reconciled(a) THEN ReportAmbiguous(a) ELSE UNCHANGED vars
    /\ UNCHANGED sessionVars

-----------------------------------------------------------------------------
(* Operators, time, and the death of the daemon.                           *)

Outside ==
    /\ \/ CreateProposeApproveStart
       \/ goal = "paused" /\ IssueApproval("resume")
       \/ ResumeGoal
       \/ PauseGoal
       \/ CancelGoal
       \/ Time
    /\ UNCHANGED <<loopVars, sessionVars, refOf, faults>>

InFlight == UNION {RequestOf(a) : a \in Attempts}

Crash ==
    /\ call' = [a \in Attempts |-> "none"]
    /\ target' = [a \in Attempts |-> NoSession]
    /\ canceller' = [a \in Attempts |-> "none"]
    /\ reader' = [a \in Attempts |-> "none"]
    /\ Outlives({}) \/ Outlives(InFlight)
    /\ UNCHANGED <<vars, session, keyOf, tardy, refOf>>

DispatchLoop ==
    \/ StartupReconcile
    \/ ClaimAvailable
    \/ \E batch \in SUBSET Attempts : TakeMessages(batch)
    \/ \E a \in Attempts :
          \/ TakeUp(a)
          \/ RecordRefused(a)
          \/ RecordProbe(a)
          \/ RecordDispatched(a)
          \/ RecordFailed(a)

OpenCode ==
    \/ ActLate
    \/ \E s \in Sessions : AgentActs(s)
    \/ \E a \in Attempts :
          \/ ListSessions(a)
          \/ \E s \in Sessions : CreateSession(a, s)
          \/ ReadMessages(a)
          \/ PromptSession(a)
          \/ ProbeSessions(a)
          \/ InspectSession(a)
          \/ RequestFails(a)

CancellationLoop ==
    \/ ListCancellations
    \/ \E a \in Attempts :
          \/ ProbeCancelled(a)
          \/ AnswerCancellationProbe(a)
          \/ AcknowledgeAbsent(a)
          \/ PersistReference(a)
          \/ AbortSession(a)
          \/ AcknowledgeAborted(a)
          \/ CancellerFails(a)

ReconciliationLoop ==
    \/ ReadOutcomes
    \/ \E a \in Attempts :
          \/ AnswerRead(a)
          \/ StopReadSession(a)
          \/ ReadFails(a)
          \/ \E result \in {"passed", "failed"} : RecordVerified(a, result)
          \/ ReportVerified(a)
          \/ ReportLost(a)

(* Budgets are GoalStore's subject: here only attempts are counted.        *)
SessionNext ==
    /\ \/ DispatchLoop
       \/ OpenCode
       \/ CancellationLoop
       \/ ReconciliationLoop
       \/ Outside
       \/ Crash
    /\ UNCHANGED <<limit, overrun>>

SessionSpec == SessionInit /\ [][SessionNext]_dispatchVars

-----------------------------------------------------------------------------
(* Safety.                                                                 *)

(* The look-up by title and the probe before a repeated dispatch leave one *)
(* session to do an attempt's work, through failed requests, lost leases   *)
(* and faults, unless OpenCode acts on a request that was given up.       *)
OnePromptedSession ==
    \A a \in Attempts \ tardy :
        Cardinality({s \in SessionsOf(a) : Prompted(s)}) <= 1

(* GS-DISP-7: an attempt that is written off as expired, so that its unit  *)
(* is worked on again, has no session that was given the work.             *)
ExpiredHasNoSession ==
    \A a \in Attempts \ tardy :
        attempt[a] = "expired" => \A s \in SessionsOf(a) : ~Prompted(s)

(* A unit is accepted on the word of the session of the very attempt.      *)
AcceptedFromOwnSession ==
    \A a \in Attempts \ tardy : attempt[a] = "succeeded" =>
        refOf[a] \in SessionsOf(a) /\ session[refOf[a]] = "finished"

(* The daemon's two aborts cut no work short that is still needed.  The    *)
(* cancellation loop stops sessions of fenced attempts, readOutcome stops  *)
(* the attempt's own session once it has given its outcome (unless OpenCode*)
(* acted for the attempt on a request that was given up).                  *)
OnlyFencedWorkIsAborted ==
    [][\A a \in Attempts :
          /\ canceller[a] = "aborting" /\ canceller'[a] = "aborted" =>
                 keyOf[refOf[a]] = a /\ attempt[a] = "cancelled"
          /\ reader[a] = "stopping" /\ reader'[a] = "outcome" /\ a \notin tardy =>
                 keyOf[refOf[a]] = a /\ session[refOf[a]] \in {"wrapping", "finished"}
      ]_dispatchVars

(* The inductive invariant that SessionDispatchProofs rests on: whatever a *)
(* loop works on after an answer is the session of the attempt it works on,*)
(* and what it will abort was asked to be.                                 *)
SessionIndInv ==
    /\ SessionTypeOK
    /\ \A s \in Sessions : keyOf[s] = None <=> session[s] = "none"
    /\ \A a \in Attempts :
         /\ target[a] # NoSession => keyOf[target[a]] = a
         /\ call[a] \in {"reading", "prompting", "answered", "inspecting", "found"} =>
                target[a] # NoSession
         /\ refOf[a] # NoSession => keyOf[refOf[a]] = a
         /\ a \in ref \/ canceller[a] = "aborting" => refOf[a] # NoSession
         /\ canceller[a] = "found" => a \in ref
         /\ canceller[a] = "inspecting" => SessionsOf(a) # {}
         /\ canceller[a] = "aborting" => cancellation[a] # "none"
    /\ \A s \in Sessions : <<"prompting", s>> \in abandoned => keyOf[s] # None

(* GS-DISP-8: a cancellation that was acknowledged left nothing running,   *)
(* once the dispatch that was in flight has said so.                       *)
AcknowledgedMeansStopped ==
    \A a \in Attempts \ tardy :
        cancellation[a] = "acknowledged" /\ call[a] = "none" =>
            \A s \in SessionsOf(a) : ~AtWork(s)

=============================================================================
