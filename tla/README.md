# Verification of cbranch

cbranch is a git client and, around it, a set of services that let coding
agents work on repositories. Most of the repository is presentation, parsing
and thin layers over the `git` binary. The part whose correctness depends on
the *order* of things is the **OpenCode goal supervisor**
(`packages/opencode-goal-supervisor`): a daemon that turns an approved plan into
sessions of an external agent, must never run one piece of work twice at once,
must survive crashes between any two steps, and must not leave an agent running
behind a goal that was stopped. The second such part is the run manager of
**workspace intelligence** (`packages/workspace-intelligence`), the third the
**plugin manager** of the web server (`apps/web-server`). This project
models, of the first, the store, the daemon's loops with the adapter and the
sessions, the workspace lock and the managers of the daemon's systemd unit; most
of the second; and the life of plugins of the third. Section 2 says what is left.

Paths below are relative to `packages/opencode-goal-supervisor/src` unless they
say otherwise.

## 1. Inventory

### Goal supervisor

| Part | State it keeps | Operations | Hard behaviours | What makes it correct |
|---|---|---|---|---|
| **Goal store** (`store.ts`, `domain.ts`) | SQLite: goals, plans, work units, attempts, outbox, approvals, budgets, cancellation requests, verification results, an event log | about thirty IMMEDIATE transactions | every caller may be late: a dispatcher whose lease ran out, a verification that took minutes, an operator's command in between | one live attempt per unit; nothing dispatched for a dead attempt; a dispatch that may have happened is never forgotten; budgets; plan order; an achievement is earned |
| **Event log and projections** (`store.ts`) | `goal_events`, append-only | append, `rebuildProjections`, `verifyProjections` | a rebuild must reproduce what the transactions wrote | replay equals state |
| **Supervisor** (`supervisor.ts`) | `#finalizing`, `#reconciling`, what it holds across awaits | `dispatchPending`, `reconcileActive`, `processCancellations`, `#verifyAndFinalizeGoal` | state read before an await and used after it; a heartbeat that renews while verification runs | answers go to the attempt they were asked for, or nowhere |
| **OpenCode adapter** (`opencode-adapter.ts`) | none; sessions live in OpenCode | look-up by title, create, prompt, probe, outcome, abort | look-up and create are two calls; a create may land after its caller gave up | one session per dispatch key; no orphan |
| **Daemon** (`daemon.ts`) | loop permits, the readiness file | tick loops for dispatch, reconcile, cancel; startup; shutdown with a timeout | loops share one store; shutdown may leave calls in flight | limits respected; recovery before work |
| **Workspace lock** (`daemon.ts`, `process-identity.ts`) | a lock file and a recovery guard | acquire, take over, release, inspect | two starters at one stale lock; death inside the recovery | one owner |
| **Control, CLI, MCP** (`control.ts`, `cli.ts`, `mcp.ts`) | none | operator commands with single-use tokens | commands race with the daemon | as the store |
| **TUI launch** (`tui*.ts`) | a draft; the lifecycle lock, the unit file and systemd's unit | confirm, launch; `ensureRunning` and `stop` the daemon's service | several OpenCode processes change one unit; lock and unit are read at different times; systemd restarts on its own | one change at a time; success said of the right daemon; stopped means stopped |
| **Plan policy** (`domain.ts`, `goal-plan.ts`) | none | `validateAcyclicPlan`, `decideGoalTransition`, outcome normalisation | pure | acyclic, closed under dependencies |
| **Verification runner** (`verification.ts`) | none | run one requirement in a sandbox | timeout against exit | a status for every end |
| **systemd, managed OpenCode** | unit files, a child process | render, install, spawn | process I/O | not modelled |

How they interact: operators (CLI, MCP, TUI) and the daemon's three loops all
call the store, each call one transaction. `dispatchPending` claims rows of the
outbox, writes a *boundary mark* (`dispatch_started_at`), calls the adapter, and
records delivery, failure or the answer of a probe. `reconcileActive` renews the
lease of every attempt with a session, asks the adapter for its outcome, runs
the required verifications and reports. `processCancellations` aborts the
sessions of fenced attempts. The store is the only shared state; the external
sessions are the only other state.

### Workspace intelligence

| Part | State | Operations | Hard behaviours | What makes it correct |
|---|---|---|---|---|
| **Run manager** (`packages/workspace-intelligence/src/manager.ts`) | active runs, queue, subscribers, last event per run | start, cancel, reconcile, subscribe, execute | cancellation between awaits; capacity; restart | one active run per engagement; every run ends; the event sequence has no gap |
| **Artifact and enrichment stores** | files, a current pointer | write by rename, set current | crash between files | the pointer names a complete run |
| **Analysis, semantic index** | none | extraction | data | not modelled |

### Web server

| Part | State | Operations | Hard behaviours | What makes it correct |
|---|---|---|---|---|
| **Plugin manager** (`apps/web-server/src/plugin-manager.ts`, `plugin-lock-store.ts`, `plugin-artifact-store.ts`) | records and loaded plugins in memory; the lock file; artifacts and activation directories | review, install, enable, disable, uninstall, invoke; the start | every operation awaits files, plugin code or the audit log between two changes; only installs are serialized; any await may fail; the server may die | the lock file catches up with memory and never names missing files; an answer of success is true |
| **RPC handlers, plugin repositories, intelligence service** | repositories and their trust | forward requests; check signed metadata | network I/O | not modelled |

### The rest

`packages/core` (git engine, configuration store, forge, file system),
`packages/inference`, `packages/plugin-contract`, `packages/plugin-runtime`,
`packages/rpc-contract`, `packages/ui`, the other `apps/*`. Their core is git's
own behaviour, parsing, rendering or network I/O. The configuration store
(read-modify-write of JSON files) and the update policy of `plugin-contract`
keep state with an order to it and are candidates for later modules. Every component is listed in `PROJECT.json`.

## 2. Plan

| # | Module | Models | Built on | Worth stating | State |
|---|---|---|---|---|---|
| 1 | `GoalStore` | the store's transactions on one goal | — | section 4 | checked, safety proved |
| 2 | `GoalLifecycle` | the table of `decideGoalTransition` as an abstract specification | `GoalStore` implements it | section 5 | checked and proved |
| 3 | `SessionDispatch` | dispatch, reconciliation and cancellation loops, the adapter and the OpenCode sessions, with crashes | extends `GoalStore`, and implements it | section 6 | checked, its safety proved |
| 4 | `WorkspaceLock` | the lock, its recovery guard and the readiness file, with processes that die at any step | — | section 7 | checked and proved |
| 5 | `DaemonManager` | the lifecycle lock and the commands of the managers, systemd's unit, daemons | `WorkspaceLock`'s result as one step | section 8 | checked, all its properties proved |
| 6 | `IntelligenceRuns` | the run manager and the files of its runs | — | section 9 | checked, its safety proved; what fails of cancelled runs has a run of its own |
| 7 | `PluginLifecycle` | the web server's plugins, their lock file and their files | — | section 10 | checked, its safety proved |
| 8 | `IntelligenceRuns`, second part | `deleteRun`, `clearRunHistory`, `clearCurrent` | 6 | no active or current run is deleted | open |
| 9 | `GoalEvents` | the event log and `rebuildProjections` as a fold | `GoalStore`'s goal column | replay equals state after every prefix | open |
| 10 | `PlanValidation` | `validateAcyclicPlan` against reachability | — | accepts exactly the acyclic, closed plans | open |

Composition: `SessionDispatch` EXTENDS `GoalStore` and makes each transaction
part of a loop's step, so that everything proved of the store holds of the
daemon. `WorkspaceLock` justifies two simplifications: one daemon at a time in
`SessionDispatch`, and taking and inspecting the daemon's lock in one step in
`DaemonManager`. Every safety property that a passing run checks is a theorem
too; sections 4 to 10 say along which argument. Theorems worth adding next:
that the calls of the plugin manager and the commands of the daemon managers
implement abstract ones.

## 3. Files

| Module | Role |
|---|---|
| `GoalStore.tla` | specification of the store |
| `MCGoalStore.tla`, `GoalStore*.cfg` | its instances |
| `GoalStoreProofs.tla` | inductive invariant, type correctness, ownership, outbox, budget, plans |
| `GoalStoreSessionProofs.tla` | dispatch boundary, probes, fencing, cancellation |
| `GoalStoreWorkProofs.tla` | plan order, verification, achievement, finality; the store implements `GoalLifecycle` |
| `GoalLifecycle.tla` | abstract specification of a goal's life |
| `SessionDispatch.tla` | specification of the loops, the adapter and the sessions |
| `MCSessionDispatch.tla`, `SessionDispatch*.cfg` | its instances |
| `SessionDispatchProofs.tla` | it implements the store; what the loops hold across an await; aborts; one session per attempt, expiry, acceptance |
| `WorkspaceLock.tla` | specification of the lock |
| `MCWorkspaceLock.tla`, `WorkspaceLock.cfg` | its instance |
| `WorkspaceLockProofs.tla` | inductive invariant, one owner, guards, inspections, the race of the starts |
| `DaemonManager.tla` | specification of the managers, the unit and the daemons |
| `MCDaemonManager.tla`, `DaemonManager.cfg` | its instance |
| `DaemonManagerProofs.tla` | mutual exclusion under the lifecycle lock, and that what the managers report is true |
| `IntelligenceRuns.tla` | specification of the run manager |
| `MCIntelligenceRuns.tla`, `IntelligenceRuns*.cfg` | its instances |
| `IntelligenceRunsProofs.tla` | inductive invariants of the maps, the slots, the files, the reconciliation and the streams, each resting on the ones before |
| `PluginLifecycle.tla` | specification of the plugin manager |
| `MCPluginLifecycle.tla`, `PluginLifecycle.cfg` | its instance |
| `PluginLifecycleProofs.tla` | the lock file follows the records, files outlive their records, answers are true |

Definitions introduced by a comment "Bug variant" are an operator of the model
with one plausible bug. No specification uses them: each exists to show that a
property fails when the code is wrong in that way. `PROJECT.json` pairs them
with the properties.

## 4. The goal store

### Correspondence

A transaction of `store.ts` runs in one SQLite IMMEDIATE transaction, so it is
one action. A `throw` rolls back, so it is a guard. What a transaction does to
several tables (close the attempt, release its unit, take its command out of
the outbox, request a cancellation, move the goal) is one step of several
variables.

| Variables | Table and column |
|---|---|
| `goal`, `activePlan` | `goals.state`, `goals.active_plan_id` |
| `planStatus`, `parent`, `finalResult` | `plans`, the final row of `verification_results` |
| `unit`, `current`, `destructiveApproved` | `work_units.state`, `.active_attempt_id`, `.approved_at` |
| `attempt`, `unitOf`, `expired`, `verified` | `work_attempts`, its lease, the unit's `verification_results` |
| `outbox`, `dispatcherExpired`, `needsProbe`, `started`, `ref` | `outbox.state`, its lease, `.needs_probe`, `.dispatch_started_at`, `.external_ref` |
| `cancellation` | `cancellation_requests.state` |
| `used`, `limit`, `overrun` | `goal_budget_usage.attempts`, `goal_budgets.max_attempts`, the other budgets |
| `approvals` | unconsumed, unexpired single-use tokens, by scope |

| Actions | Code |
|---|---|
| `Create`, `CreateProposeApproveStart`, `ProposePlan`, `ApprovePlan` | the creation of a goal, at once or step by step, and its plan revisions |
| `ClaimNextWork`, `ClaimOutbox`, `MarkDispatchStarted`, `MarkOutboxDelivered` | `dispatchPending`'s way to a session |
| `RecordCleanDispatchFailure`, `RecordAmbiguousDispatchFailure`, `RetryWithoutProbe`, `RecordProbeFound`, `RecordProbeAbsent`, `RecordProbeUnknown`, `RecordLateDispatchReference` | its answers when the adapter failed, may have failed, or is asked again |
| `RecordVerificationResult`, `ReportCompleted`, `ReportAmbiguous`, `ReportEscalated`, `ReportRequeued` | `reconcileActive`: the verification, and `reportOutcome` by what it decides |
| `RecordFinalVerificationResult`, `FinalizeGoal` | `#verifyAndFinalizeGoal` |
| `StartGoal`, `PauseGoal`, `ResumeGoal`, `CancelGoal`, `RecoverUnknownOutcome`, `RaiseBudget`, `ApproveDestructiveUnit`, `IssueApproval` | the operator commands and their tokens |
| `PersistCancellationExternalReference`, `AcknowledgeCancellationRequest` | `processCancellations` |
| `AttemptLeaseExpires`, `DispatcherLeaseExpires`, `ApprovalExpires` | the clock |
| `RecoverExpiredAttempts`, `RecoverExpiredOutboxLeases` | `startupReconcile` and every dispatch tick |

`Next` lets every caller issue any transaction at any time, except that a call
which `supervisor.ts` makes only after a certain answer keeps that condition.
This covers a dispatcher that comes back after its lease was lost, two daemons,
and an operator beside the daemon; a crash of the process needs no action of
its own, because all state is durable and a call that is never made is already
allowed.

### Abstractions

- One goal per store. Transactions never touch two goals.
- Time: a lease has run out or not, an approval has or not, a budget other than
  that of attempts is overrun or not. `renewAttempt` only postpones an expiry.
- The `ORDER BY` of a claim is ignored: any claimable unit may be taken.
- Plans are constants (`Units`, `Revision`, `Deps`, `Required`, `Destructive`)
  that satisfy what `validateAcyclicPlan` guarantees.
- Not actions: `recordBudgetUsage` (nobody calls it), `recordSessionReference`
  (only tests call it), observations, the permission inbox, baselines, evidence
  rows, and the event log.

### Runs

| Run | Instance | Shows |
|---|---|---|
| `dispatch` | 3 units (one dependency), 2 attempts, 2 at once (the daemon's default), fair | everything about claims, the outbox, the boundary, probes, fencing and outcomes; and that an overdue attempt does not stay live, nor a claim without a session |
| `lifecycle` | 2 revisions, the second with a destructive unit, one token at a time of any scope | operator commands, plans, achievement, finality, the inductive invariant of the proofs, and the refinement of section 5 |
| `recovery` | 2 independent units, 2 attempts, 2 at once, the recovery retried for ever | expected violation: two attempts whose leases run out before they were dispatched, and a spent budget; section 11 |

Two attempts are enough for every conflict the code distinguishes: between an
attempt and its successor on one unit, and between attempts of two units. A
third attempt adds a second spectator. Two revisions are the active one and its
successor, and `MaxApprovals = 1` keeps one token alive at a time, which a
command consumes at once. `SettledElsewhere` bounds `lifecycle`: what follows an
acknowledged cancellation or a dispatcher's lost lease is explored by `dispatch`,
and no transition of a goal asks for either. The theorems below are for all values of these bounds.

### Fairness

`FairSpec` assumes that `recoverExpiredAttempts` runs again and again (it is in
`startupReconcile` and in every dispatch tick), and that the lease of an attempt
*without a session reference* runs out (`reconcileActive` renews only attempts
with one). Operators, the agent and the dispatchers are not assumed to do
anything.

The recovery counts as run only where it cannot throw. `RecoveryMayThrow` says
where it may: the budget is spent, and an idle overdue attempt is not the only
overdue one. The two leads-to properties end there, which is the limit of what
they promise. `RetriedSpec`, of run `recovery`, assumes the retry there too, and
`EveryExpiredLeaseIsReconciled`, the promise without the limit, fails under it.

### Proofs

Assumptions: units form a finite set, bounds are positive, dependencies stay
inside a revision, token scopes are scopes.

`IndInv` is a conjunction of six parts that need each other. That an attempt is
live exactly while it is its unit's current attempt cannot be shown alone: a
claim needs that the number it takes is fresh (`AttemptsArePaidFor`), approving
a plan needs that the units it materializes have no attempts (`OneApprovedPlan`),
which needs that revision numbers are fresh (`RevisionsAreNumbered`), and
settling an outcome needs that the command is no longer in the outbox
(`OutboxFollowsAttempt`). `GoalStoreProofs` shows that `Init` establishes it and
that each action preserves it, one step per action and one below it per part
the action can disturb.

The session theorems strengthen it with `SessionInv` (what the columns of the
outbox say together about a command that crossed the boundary), the work
theorems with `WorkFacts` (what acceptance, verification and dependencies say
together). The two action properties follow from the same invariants and each
action's guard.

All the safety properties the passing runs check of `GoalStore` are theorems
too; leads-to under fairness is only model-checked.

## 5. The life of a goal: GoalLifecycle

`GoalLifecycle` is what `decideGoalTransition` (`domain.ts`) promises to an
operator: the states of a goal, the plan it works by, the single-use tokens
and whether the required work was proven. It has no units, attempts, leases or
sessions. A transition names the states it starts from, the token it spends and
the evidence it needs: a goal resumes only with a token of the right scope,
adopts only later revisions, and is achieved only when all required work of the
adopted plan is accepted and its final verification has passed.

`GoalStore` implements it. The mapping (`Lifecycle == INSTANCE GoalLifecycle
WITH ...` at the end of `GoalStore`) takes `goal`, `activePlan`, the scopes of
`approvals`, and for `proven` the required units of the active plan together
with its final result. `ImplementsLifecycle` is checked by run `lifecycle` and
proved as `StoreImplementsLifecycle` for all values of the constants.

The argument: most transactions leave the four alone or are one abstract step;
the lemmas at the end of `GoalStoreWorkProofs` treat the rest. `ProofIsKept`: nothing but a
plan change takes back what is proven, because accepted units stay accepted
(`NothingIsRevived`). `AdoptionForgets`: a plan that becomes active has no final
result yet. `ProposalIsInvisible` and `ApprovalIsAllowed`: numbering makes each
adopted plan later than the one before. They rest on `IndInv` and on `FinalResultsFollowWork`: a
final result exists only where the required work is accepted.

## 6. The loops and the sessions: SessionDispatch

### Correspondence

An action is a piece of the supervisor or the adapter between two awaits, or
OpenCode answering a request. A loop that has its answer continues in a later
action, on what it has read before the await; everything may happen in between.

| Variables | Code |
|---|---|
| those of `GoalStore` | the store |
| `call`, `target` | where `dispatchPending` and `#dispatchOnce` are with an attempt's message, and the session they work on |
| `canceller` | where `processCancellations` is with an attempt's request |
| `reader` | where `reconcileActive` is with an attempt |
| `session`, `keyOf` | what an OpenCode session does, and whose dispatch key its title has |
| `refOf` | the session a recorded external reference names |
| `abandoned`, `tardy` | requests whose caller gave up and that OpenCode may still act on; attempts it did act on |

| Actions | Code |
|---|---|
| `StartupReconcile`, `ClaimAvailable`, `TakeMessages`, `TakeUp`, `RecordRefused`, `RecordProbe`, `RecordDispatched`, `RecordFailed` | a tick of the dispatch loop |
| `ListSessions`, `CreateSession`, `ReadMessages`, `PromptSession`, `ProbeSessions`, `InspectSession`, `RequestFails`, `ActLate`, `AgentActs` | the adapter's requests, which OpenCode answers, loses, answers in vain or sees too late; the agent |
| `ListCancellations` ... `AcknowledgeAborted`, `CancellerFails` | a tick of the cancellation loop |
| `ReadOutcomes` ... `ReportLost`, `ReadFails` | a tick of the reconciliation loop, with verification |
| `Outside` | operators, and time |
| `Crash` | the daemon dies, or its shutdown runs out of time: requests go on or not, continuations are gone |

A tick holds one of the daemon's `Concurrency` permits (`daemon.ts`), so with a
permit of one the loops exclude each other, and with two any two overlap.

### Abstractions

- One daemon: section 7. A daemon whose shutdown timed out is a dead one, whose
  requests may still be seen (`abandoned`).
- `startupReconcile` runs in one action, and at the beginning of every tick.
- OpenCode is external. It lists a session as soon as it was created, gives no
  title twice by itself, and ends a session it confirmed to have aborted.
- Operators pause, resume and cancel; the other commands are `GoalStore`'s.
- The final verification's awaits, observations, permissions and usage are
  left out.

### Runs and bounds

| Run | Instance | Shows |
|---|---|---|
| `sessions` | one unit; a goal of one attempt with 2 faults, a goal of two attempts with none; 2 sessions; failed requests, pauses, resumes, cancellations and lost leases in both | an attempt's work is given to one session; an expired attempt has none; work is accepted from the attempt's own session; the daemon's aborts, of the canceller and of `readOutcome`, cut nothing short |
| `session_cancelled` | the goal of one attempt | the finding below |

A fault is a death of the daemon or a request that outlives its caller. One lets
a dispatcher meet a request that its predecessor left behind; the second
interrupts what deals with the first.
`MaxFaults` depends on the goal's limit because two attempts *and* faults
exceed what TLC explores in a few minutes. The limits of what holds are in the
properties: an attempt in `tardy` is exempt, because a create or a prompt that
OpenCode acts on after its caller gave up and a probe said "absent" cannot be
undone by anything in this code.

None of the four properties says that one workspace has one agent at work.
It has not: a pause requests the abort of a running session, a resume and a claim
do not wait for it (`claimNextWork` asks for no pending cancellation), and the new
attempt's session works beside the old one until the cancellation loop comes to
it. OpenCode's sessions share the directory, and nothing in the documents
promises that the second waits for the first.

### Proofs

`SessionsImplementStore` shows `SessionSpec => Spec`, if operators may issue tokens
for a resume: each step is one step of
the store or leaves it alone. So the theorems of section 4 hold of the daemon.
`LoopsWorkOnTheirSessions` shows `[]SessionIndInv`: what a loop holds across an
await is a session of the attempt it works on, and what the canceller is about
to abort has a cancellation request. It needs that references are never
forgotten (`ReferencesAreKept`) and cancellation requests never withdrawn
(`CancellationsAreKept`), both proved of the store's transactions.
`OnlyFencedSessionsAreAborted` follows from it and from `OnlyFencedAttemptsAreCancelled`
of the store. It is about both aborts: `processCancellations` aborts sessions of
fenced attempts only, and `readOutcome` (`opencode-adapter.ts:677`) the session of
the attempt it reads, which has given its outcome by then and gets nothing else
to do while the inspection and the abort are awaited.

`OneSessionIsPrompted`, `ExpiredWorkWasNotGiven` and
`WorkIsAcceptedFromItsSession` show the three invariants of `sessions`, for any
plan, number of attempts, sessions and faults. None of the three is inductive;
`WorkGivenOnce` is, together with `IndInv` and `SessionIndInv`, and says why they
hold:

- `AtMostOneSession`: whoever creates a session for an attempt saw that it had
  none and is its only caller, so an attempt never gets a second one, prompted
  or not. Hence the reference of an attempt never moves (`ReferencesStay`).
- `UnmarkedIsUnprompted`: a dispatch is under way only behind the boundary mark,
  and without a mark no session was prompted. Two things clear a mark: a probe
  that found nothing, and that was about the one session there is; and a refusal
  ("Goal is no longer executing"), which has to come too late to be recorded.
- `PausedIsIdle` is why it does: a goal executes again only after a pause, and a
  pause fences what was live, so who was refused holds nothing any more. Here
  the proof uses the bound on operators above. With a `blocked-resume` the attempt
  could still be live: an operator's process would have to write between
  `dispatchPending`'s reading of the goal and its recording of the refusal, with
  no await between them, on a row that was to be probed.
- `OutcomesAreFinal`: what `reconcileActive` verifies and reports was read from a
  session that has finished, or was stopped with its outcome, and stays so.

An attempt in `tardy` is exempt from the first, the second and the last, as in
the properties.

## 7. The workspace lock: WorkspaceLock

### Correspondence

Each daemon is a process of its own, and an action is one system call of one
process, so any two interleave, and a process may die between any two.

| Variables | Code |
|---|---|
| `lock`, `guard`, `readiness` | the owner named by `daemon.lock`, by its recovery guard, and by the readiness file |
| `fresh` | the lock file is younger than `INCOMPLETE_LOCK_FRESHNESS_MS` |
| `at`, `found`, `tries`, `then` | the locals of `acquireWorkspaceLock` and its continuation after the guard is removed |
| `view` | what `inspectDaemonServiceStatus` has read so far |

| Actions | Code |
|---|---|
| `CheckGuard`, `Publish`, `OpenGuard`, `ReadOwner`, `JudgeOwner`, `JudgeAge`, `CompareLock`, `UnlinkLock`, `ClaimLock`, `CleanReadiness`, `RemoveGuard` | `acquireWorkspaceLock` (`daemon.ts`) |
| `VerifyOwner`, `RenameReadiness`, `RecheckOwner` | `markReady` |
| `Stop`, `RemoveReadiness`, `ConfirmLock`, `DropLock` | `release` |
| `Inspect...` | `inspectDaemonServiceStatus` (`systemd.ts`) |
| `LegacyStops`, `Die`, `LockAges`, `OperatorRemovesGuard` | older daemons, death, time, and the operator who removes a guard that was left |

A token is a fresh UUID and is identified with the daemon that made it. A pid
whose process identity differs is a dead process. A daemon of an older release
left a record without an identity: it can be told to live, not to be a stranger.

Not modelled: failures of the file system other than lost races, and two daemons
in one operating-system process.

### Run and bounds

`workspace_lock`: three daemons of this release and one of an older, which may
have left its lock or still run, beside an inspector. Three are the holder of
the guard, a competitor that looked before it was opened, and one that comes
after. Each daemon starts once; a restart is another daemon. Besides the
theorems it shows `StartRaceIsWon`: contenders do not all turn each other away.

### Proofs

`LockInv` is inductive: who is in the recovery has the guard, who owns has the
lock, and a start about to unlink the lock has found it to be that of a dead
process *and it still is that lock*. The last part is the one `OneOwner` needs and
does not say: only the holder of the guard unlinks another's lock, a living
owner unlinks its own, and nobody publishes while there is a lock, so what was
compared stays what is unlinked. `OneOwnerPerWorkspace`, `GuardsAreRemoved`,
`InspectionsAreTrue` and `LockTypeCorrect` follow for any number of daemons.

`StartRacesAreWon` shows `StartRaceIsWon` where there is a contender at all
(`Daemons \ Legacy # {}`). Its invariant, `RaceInv`, speaks of states in which nobody
died and no older daemon has stopped: who is turned away, or is about to be,
leaves somebody who will not be, which is a winner, the older owner, or the
holder of the guard. A winner stays one (`WinnersStay`), since a start that got
the lock never ends refused.

## 8. The managers of the daemon's service: DaemonManager

### Correspondence

Every OpenCode process has a manager (`createPersistentDaemonManager`,
`tui-daemon.ts`). Its calls run under a lifecycle lock that orders them between
processes; systemd and the daemons do as they like beside them.

| Variables | Code |
|---|---|
| `lifecycle`, `recovery` | the lifecycle lock and its recovery guard |
| `at`, `op`, `found`, `then`, `plan`, `seen`, `result` | the call in progress, what it read last and what it read it for |
| `unsent` | a `systemctl` child that systemd has not heard yet; it outlives its manager |
| `unitFile`, `loaded`, `enabled`, `unit`, `main`, `again` | the unit's file; systemd's unit, its main process, a restart whose start is still due |
| `daemon`, `identity`, `owner` | the daemons, the service each publishes, and the workspace lock's owner |

| Actions | Code |
|---|---|
| `Request`, `LookForGuard`, `Publish`, `ReadHolder`, `JudgeHolder`, `OpenGuard`, `RecheckHolder`, `RemoveDead`, `RemoveGuard`, `Release` | `serializeLifecycle`, `acquireLifecycleLock`, `withLifecycleLock` |
| `ReadDaemonLock`, `ReadUnit` | `inspectRequired` and `status`: two looks, at two times; `classify` judges them |
| `Decide`, `Reloaded`, `DecideAgain`, `Enabled`, `Restarted`, `RestartFailed`, `Poll` | `ensureRunningUnlocked`, `pollReady` |
| `MakeWayNow`, `WayMade` | `disableVerifiedUnitForIndependent` |
| `DecideStop`, `Disabled`, `Gone` | `stopUnlocked` |
| `SystemctlArrives`, `CommandFails` | a command reaches systemd; its child fails or is killed |
| `Die` | a manager's process |
| `StartByHand`, `TakeLock`, `BecomeReady`, `Crash`, `Stop`, `StartMain` | daemons, and systemd's restart of the one it runs |

### Abstractions

- The daemon's lock is taken and read in one step (section 7).
- The lifecycle lock's token is the manager: one call at a time, under one lock.
- Every service a manager of this code may have written is one identity; a unit
  file with another fragment path, an unreadable unit, an invalid daemon lock
  and hosts without systemd are left out, and so is the verification of the
  program's files.
- systemd's start limit is the exhaustion of `Daemons`.
- The operator's own `systemctl` and signals to a daemon are not modelled,
  except that a daemon may crash and that the service may have been disabled
  before.
- `stop`'s look right after `disable` is skipped: it has no effect of its own.

### Run and bounds

`daemon_manager`: two managers that want different services, after a third that
may have died inside a change; one call each; two processes for systemd to
start, and one daemon started by hand. Managers are interchangeable together
with what they want. Two calls are what it takes for one manager to use what it
read before the other's change, and two starts let systemd replace a process
between two looks. `SuccessIsManaged` and `StoppedMeansStopped` are stated for
the case that no manager died *during* the run where they must be: the child of
a dead manager may reach systemd at any later time, and the lifecycle lock
cannot fence it.

### Proofs

`LifecycleInvariantHolds` and `ManagersTakeTurns` show, for any number of
managers, daemons, services and calls, that no two managers are inside a change.
The lock is unlinked by two: its holder, and a manager that found it to be a dead
manager's. The second could unlink the lock of a third that published in
between. It cannot, because it compares again once it has the guard; from then
on nobody else may unlink (that takes the guard), and nobody may publish while
the dead lock is there. `LifecycleInv` says just this: who is inside a change has
the lock (`HoldersHoldTheLock`), who is inside the recovery has the guard
(`RecoveriesHoldTheGuard`), what was judged is dead (`JudgedHoldersAreDead`), and
what is about to be removed is still what was judged (`LocksAreTaken`).

`ManagerTypesHold`, `StopsAreTrue` and `SuccessesAreManaged` prove the other three
properties of the run, again for all constants. The invariant (`SafetyInv`) says
what makes a verdict that is older than its use safe: as long as no manager died,
only the manager inside the change alters what is installed and enabled, so the
`enabled` it saw, the file it wrote and a `disable` that returned stay true until
its next look (`UnitFollows`); a unit it saw neither active nor enabled has
nothing systemd would start by itself; and a call to stop never enables or
restarts (`StopOnlyStops`), so the look that ends it is one on a disabled unit.
`UnitIsInstalled` is what it needs of systemd: what is enabled, active or about
to be restarted was loaded, and a main process makes the unit active until it is
told to end. For success, `DaemonsInv` adds that a daemon that was seen stays the
daemon it was: the main process of a unit is never one started by hand, and its
identity is fixed at its start. Once a manager has died these are no longer
invariants, as its child may run `enable` under the next manager's eyes; that
is why `UnitFollows` and half of the two properties are conditional.

## 9. The run manager of workspace intelligence

### Correspondence

JavaScript runs one piece of code at a time, from one `await` to the next. Each
such piece is an action, and so is each file operation it waits for. `at` says
which continuation a task will run when its write is over, and `io` how far the
write is. A run has two tasks that may be writing it: `main` (`start` and then
`execute`) and `cancel`.

| Variables | Code |
|---|---|
| `state`, `events` | `active.run.state`, `active.events` |
| `active`, `byEngagement`, `cancelled`, `executionStarted`, `pending`, `runningCount` | the fields of the manager and of an `ActiveRun` |
| `snapshot`, `lines` | the arguments a writer has captured: the run object at the call, the event array when it is serialized |
| `manifest`, `eventLog`, `sealed`, `current` and the `...Tmp` | `manifest.json`, `events.jsonl`, what `integrity.json` has digests of, `current.json`, and the `.tmp` files that are renamed to them |
| `subscriber`, `received` | where a `subscribe` generator is, and what it has yielded |
| `selecting` | the operator's `setCurrent` |

| Actions | Code |
|---|---|
| `Start`, `Enqueue`, `StartFails` | `start` up to and after its `record` |
| `Drain` (part of `Enqueue`, `Release`, `QueuedCancellationOver`) | `drainQueue` |
| `Prepared`, `NextRepository`, `RepositoryAnalyzed`, `Fails`, `Materialize`, `BecomeCurrent`, `Leave` | `execute`, its catch and its finally clause |
| `FinishCancelled`, `CancellationRecorded`, `CancellationOver` | `return this.finishCancelled(active)`, whose promise the finally clause does not wait for |
| `Cancel`, `CancelRequested`, `QueuedCancellationOver`, `CancelFails` | `cancel`, `finishQueuedCancellation` |
| `WriteManifest` ... `RenameCurrent` | `writeRun`, `finalize`, `setCurrent`, `writeAtomic` |
| `SelectCurrent`, `WriteSelected`, `RenameSelected` | the operator's `setCurrent` |
| `Subscribe`, `Read`, `Check`, `Decide` | `subscribe`, `get`, `awaitEvent` |
| `Crash`, `ReconcileRun`, `RunReconciled`, `Serve` | the process dies; `reconcile`, which the service awaits before it answers |

### Abstractions

- `partial` is not told from `completed`: both are valid and may become current.
- An event is its sequence number and state. Of a run's files the model keeps
  the manifest, the log and the integrity file; the others are written the same
  way and nobody here reads them. The integrity file is written in one step.
- Two tasks that write one temporary file replace each other's content whole;
  a file torn between two concurrent writes is left out.
- A request that is refused (a second run of the workspace, a second
  cancellation) changes nothing and is no step.
- A file operation fails only if its file was renamed away by another task.
- `deleteRun`, `clearRunHistory` and `clearCurrent` are not modelled.

### Runs

| Run | Instance | Shows |
|---|---|---|
| `intelligence_queue` | 3 workspaces, 1 slot, one run cancelled at any point | the two maps, the count and the queue: no slot is lost, and no run waits beside a free one |
| `intelligence_capacity` | 2 workspaces, 1 slot, one of the two runs cancelled at any point, fair | every run ends, and lets its workspace and its slot go |
| `intelligence_restart` | 2 runs of one workspace, the first of which may be cancelled, a subscriber, an operator's selection, the host dies twice | streams go on where they stopped, until the host dies; order and end of the streams of uncancelled runs across restarts; reconciliation (also of an interrupted reconciliation), immutability, the pointer only moves to valid runs |
| `intelligence_cancelled` | 1 run, cancelled at any point | expected violation: a cancelled run that is over and sealed is rewritten; section 11 |

Three runs and one slot give a queue of two: the one that is taken and the one
that is left. A subscriber interacts with one run and with no other subscriber.
Two deaths let the host die while it reconciles. One repository gives one turn
of `execute`'s loop with a boundary before and after it; more turns repeat it.

`SuccessorOfUncancelled` bounds `intelligence_restart`: a second run is followed
beside a first that nobody asked to cancel, and a cancelled one to its end and
through the restarts by itself. What a cancelled run does to its successor, by
way of the maps, the slots and the queue, is what the other two runs explore.

A client may cancel any run at any time, and what then goes wrong is in the code.
The properties name their limits, and what lies beyond them is this:

- `FinishedRunsAreImmutable` excepts the cancelled run whose `cancel` has not
  returned, and `InactiveRunsAreTerminal` cancelled runs: `execute` finishes a
  cancelled run without waiting for the write of the cancelling transition, which
  may land later and replace the manifest (`manager.ts:691`).
  `CancelledRunsAreImmutable`, without the exception, is what `intelligence_cancelled`
  refutes. The manifest
  may also say "queued" when all is over, if `start` was still writing the run
  and the rename of one write took the content of the other; a restart
  reconciles it.
- `StreamsFollowTheirRun` says only of uncancelled runs that a stream ends after
  the last write: `execute` returns `finishCancelled`'s promise without awaiting
  it, and its finally clause wakes the subscribers before the run is finalized
  (`manager.ts:827`). It says only of uncancelled runs that events stay in order
  across a death of the host: the log of a cancelled one may be ahead of the
  manifest that `reconcile` numbers its event from (`manager.ts:747`), and then
  holds one sequence number twice.
- `RunsEnd` excepts runs in `CancelRejected`: a cancellation while `start` is
  still writing shares a temporary file with it, `cancel` rejects, and
  `drainQueue` skips the cancelled run until the host dies (`manager.ts:691`).

Two promises fail whether anybody cancels or not, and no run checks them:

- `StreamsAreComplete`: `subscribe` reads the events and then whether the run is
  over (`manager.ts:719`); a stream may end without the events recorded in between.
- `StreamsEnd`: a stream that saw its run live may wait for a wake-up that has
  passed (`manager.ts:725`).

And when an operator selects another run of the workspace while a run becomes
current, the run loses `current.json.tmp`, fails and is rewritten, although
`current.json` already named it (`manager.ts:882`).

### Fairness

File operations settle, analyses return or throw, the event loop runs what they
resolve, and a restarted host reconciles. Clients are not assumed to do
anything, except that a subscriber goes on pulling.

### Proofs

Eight invariants, each inductive with ones before it: `WorkspaceInv`, `SlotInv`,
`TypeInv`, `PointerInv`, then `SoloInv` and `StreamInv`, and beside them
`ReconcileInv` and `FirstHostInv`. All theorems rest on `BoundsAssumption` alone:
any run may be cancelled at any time, except where a property is itself about
runs outside `Cancellable`.

`OneActiveRun` shows `Spec => []OneActiveRunPerWorkspace` for any workspaces,
runs, slots and crashes. A run is forgotten in two
places, `execute`'s finally clause and `finishQueuedCancellation`, and both clear
the workspace's entry. If one run could reach both, the second would clear the
entry of the run that has started there since. The property does not see that
coming, so `WorkspaceInv` adds:

- `FiledUnderOwnWorkspace`: an entry names a run of its own workspace;
- `WorkingRunsAreActive`: a run that has not reached its finally clause is
  active, and its execution was started;
- `QueuedCancellationsAreExclusive`: a run that `cancel` finishes itself is
  active and cancelled and was never started. `Drain` starts no cancelled run,
  so it never will be.

`ForgetKeepsMaps` and `StartKeepsMaps` treat the two changes of the maps,
`DrainStarts` says what `Drain` may start, and `WorkspaceStep` has one lemma for
each group of actions that move the labels in the same way.

`SlotsAreCounted` shows `SlotsFollowRuns`. `SlotInv` adds that a run that holds a
slot was started, and `Drain`'s loop is followed start by start: it ends with the
slots full or with nobody left to start. The queue is a filter of a sequence
(`Kept`), and what a filter does is proved from its recursion step by step
(`KeptStepByStep`), by a least counterexample, since induction takes an operator.

`RunTypesHold` shows `TypeOK`. `RecordEffect`, `FileTypes` and their like say what a
step may write, so that the types of a log or a temporary file follow from
those of the task that writes it.

`CurrentIsValid` shows `CurrentAdvancesToValidRuns`, cancellations included.
`PointerInv` says in which order one run's files are written (`OrderedRun`) and
that whatever may be renamed to `current.json`, also by another task or after a
death, is a valid run (`PointersAreUsable`). Each action is first reduced to what it
does to one run (`RunEffect`), and the invariant is proved of these effects.

`FinishedRunsStay` shows `FinishedRunsAreImmutable`, of completed and of cancelled
runs: no task of such a run is at work (`FinishedIsAtRest`), and a step changes no
files of a run at rest. For completed ones that is part of `PointerInv`. A cancelled run could be rewritten by its `cancel`, which
the property excepts, or by `reconcile`. `ReconcileInv` excludes that: a run is
reconciled by itself, before the host serves and anybody can cancel, and only if
its manifest is not terminal (`ReconcilesAlone`).

`SoloInv` is about a run that nobody cancels: it has one task, which finds its
files as it left them (`WritesAlone`), ends in a terminal state (`EndsTerminal`),
is reconciled before the host serves again (`ReconciledFirst`), and keeps its log
in order and not ahead of its manifest (`LogsAreOrdered`).
`UncancelledRunsAreTerminal` follows, whatever happens to other runs.

`StreamsFollow` shows `StreamsFollowTheirRun` from two invariants. `StreamInv` is about
uncancelled runs and any number of restarts: a stream that ended did so after its
run was at rest, a run at rest stays at rest, and what a stream reads is a filter
of a log in order (`ReadInOrder`). `FirstHostInv` is about all runs, cancelled ones
included, until the host first dies: every copy of a log, in memory, captured
by a task or on disk, is numbered from one without a gap (`NumberedRun`), whichever
of two tasks renamed it there; so what follows the last event that a
stream has given continues it (`KeptNumbered`, `ReadGoesOn`).

## 10. The life of a plugin: PluginLifecycle

### Correspondence

A call is one request of a client, and an action what the manager does for it
between two awaits (`plugin-manager.ts`, `plugin-lock-store.ts`,
`plugin-artifact-store.ts` of `apps/web-server/src`).

| Variables | Code |
|---|---|
| `records`, `loaded` | the manager's two maps; `hollow` is a loaded entry whose `hooks` are missing |
| `writes`, `lockFile` | the lock store's queue of writes, with the records each will write; `plugins.lock.json` |
| `staged`, `activated` | a plugin's verified artifact; its activation directory |
| `server`, `unread` | the process and its `ready` promise; enabled plugins the start has yet to load |
| `call` | what a request does, for which plugin, at which await, and which removals it has left running |

| Actions | Code |
|---|---|
| `Begin`, `Answer` | a request and its reply |
| `GetRecord` | `getRecord` |
| `Review` | `installReview`; with `Stage`, `StageArtifact` is the repository's `stage` in both |
| `Stage`, `CheckAbsent`, `Unpack`, `Place`, `Build`, `Record` | `install`, `installVerified`, `activate` |
| `LookLoaded`, `Import`, `Enter`, `Entered` | `enable`, `load`, `loadTrustedPlugin` |
| `Release`, `Dispose` | `disable` |
| `Unload`, `Remove`, `Close` | `uninstall`, `remove` |
| `Lookup`, `Run` | `invoke` |
| `WriteLock`, `Audit` | the lock store's `write`; the record of the change in the audit log |
| `Start`, `LoadAtStart`, `Crash` | `ready`; the process dies |

### Abstractions

- A plugin has one version, grant and set of contributions: nothing in the
  manager updates an installed plugin. A record is then whether its plugin is
  enabled.
- What `install` does before `installVerified` (repository, trust, download,
  digest) is `Stage`, which may fail, before or after the artifact is on disk; so
  may what `activate` checks of it (`Unpack`: target, manifest, grant, entry point).
  That installs of one repository take turns as well is ignored: it only orders more.
- The hooks of one invoke are one step with its command. What matters of them is
  whom they are called on, which `Lookup` decides.
- The audit record that a failed operation leaves before it rejects is skipped:
  whether it is written or not, the call rejects.
- A lock write fails before or after the rename; a file half written is never
  renamed. A failing write of a plugin's files leaves none.
- `disturbed` is a history variable: the plugins of which a call has begun to
  change (or review) one while another call still did. Nothing keeps clients from
  it: the buttons of `packages/ui/src/components/PluginsDialog.tsx` do not wait for
  an answer, two windows may share a server, and the manager serializes installs
  only. A call whose removals go on after it failed counts until they end.

### Runs and bounds

| Run | Instance | Shows |
|---|---|---|
| `plugins` | 2 plugins, 2 calls that overlap as they please, any 1 failure, 1 death, fair | no record without files at any moment and answers are true, of plugins that are not in `disturbed`; the lock file follows the records, and every call ends, of all plugins |

Two overlapping calls are enough for one to run between any two awaits of the
other; a plugin's life takes many calls, as a call that ended may begin again.
One failure and one death meet every await of both. `BystanderAndRestart` bounds the
run: the first plugin is reviewed, installed, enabled, invoked, disabled and removed
by calls that overlap in every way, the second is only installed, which suffices to
put its record into every lock file; and after the death requests come one by
one, since what a restart must find is then already on disk.

The limit of `LockedPluginsHaveFiles` and `SuccessIsDurable`, `disturbed`, is a limit
of the code. Overlapping changes of one plugin break both (below). So the
properties say what one plugin is promised as long as calls about it take turns,
whatever overlaps beside it, fails or dies, and whatever calls do to other plugins.

What fails:

- `DisabledHasNoCode`, with one failing audit record: `load` files the plugin
  under `loaded` and then awaits the record of the load (`plugin-manager.ts:302`).
  If that fails, `enable` rejects and leaves the entry: memory and disk say the
  plugin is disabled, and its hooks and commands run.
- `FailuresAreIsolated`, with no failure, after overlapping calls: `enable` writes back
  `{ ...loaded.get(pluginId)!, record }` after its awaits (line 911); a disable in
  between has deleted the entry, so what is filed has no hooks, and
  `dispatchToolHooks` throws on it in every invoke of every plugin.
- `LockedPluginsHaveFiles` of a plugin in `disturbed`: uninstalls are not serialized
  with installs. An install that runs while an uninstall awaits its lock
  file or its removals (line 945) finds no record and the directory still there,
  succeeds, and loses its files. The uninstall need not even be in progress: `remove`
  starts two removals and rejects with the first that fails, the client has its
  error, and the other removal may delete the activation directory of a plugin
  installed since (`plugin-artifact-store.ts:219`). An enable that read its record
  before an uninstall records the plugin again (line 909).
- `SuccessIsDurable` of a plugin in `disturbed`: besides these, a review or an install
  stages the artifact again that an uninstall beside it removes (line 817).

### Fairness

`FairPluginSpec`: the file system answers (`WriteLock`, `HostStep`), and an
install's turn comes (`Stage`, strongly fair, for the chain of promises in
`serializePluginOperation`, which the model does not order). A plugin's own code
need not return: a factory, a command or a `dispose` may keep its call for ever,
and `CallsEnd` says so.

### Proofs

Two invariants, for any plugins, calls, failures and deaths, in any order
and overlap. `QueueInv` is about all of them: each queued write belongs to a call of its own that waits for it, and
the last write in the queue holds the records as they are. `LockFileFollowsRecords` and
`PluginTypesHold` follow. A change that updates the map and queues its write in
two steps would break it.

`SerialInv` adds what the other two properties leave out, of plugins outside
`disturbed`: one call changes such a plugin at a time (`OneChangeAtATime`, of a
`Calm` plugin), every record, queued write and lock file that names it finds its
files (`RecordsHaveFiles`), what is loaded is recorded (`LoadedIsRecorded`), and what
a call has achieved at its place is so (`CallsAreTrue`). Of all calls it says that
they are at a place of their kind (`PlacesFitKinds`), not past `ready` before the
start is over (`CallsFollowTheStart`), and that only an uninstall, waiting or
failed, has removals under way (`RemovalsAreWaitedFor`).

`CallsAreTrue` is what `AnswersAreTrue` is about at the place `done`. A step of a call
touches its own plugin only (`PrivateStep`): either it is the one call that changes
it, or the plugin is in `disturbed`, where it has been since the second call began,
and nothing is said of it any more (`DisturbedSteps`).
The files could otherwise go while a write that names their plugin is still in
the queue: an uninstall removes them only after its own write, and the queue keeps
the order, so all writes that named the plugin are over by then.

## 11. Findings

| Where | What the run shows |
|---|---|
| `supervisor.ts:1239` (`session_cancelled`) | a cancellation is acknowledged on a probe older than the session it should have stopped |

| `store.ts:3331` (`recovery`) | `recoverExpiredAttempts` reads the goal and its budget once, before its loop. Of two idle overdue attempts of a goal whose budget is spent, the second `block` is illegal from `blocked`: the transaction throws and rolls back, on every tick and at every startup, and both attempts stay live |
| `manager.ts:691` (`intelligence_cancelled`) | the "cancelling" that `cancel` still has to write replaces the manifest of a run that `execute` has finished as cancelled and sealed |

`PROJECT.json` quotes the sentences of the documentation that they contradict.
`recovery` needs two attempts at once: with `Concurrency = 1` there is never a
second overdue one. `session_cancelled` needs two permits: with `Concurrency = 1`
the loops exclude each other, and it does not happen.

Other differences between the code and what is written of it, seen while
modelling and without a run of their own:

- `manager.ts:725`: see `StreamsEnd` in section 9; the comment at `manager.ts:720`
  says "Keep the stream open until the worker has finalized and removed its
  active record, then let the caller refresh."
- `plugin-manager.ts:302`, `911`, `945`: see section 10. The specification
  (`docs/spec/21-runtime-plugin-system.md`) says "A disabled plugin has no running
  code and no host access" (58), that a failure is "isolated to that plugin"
  (451) and that an install "atomically activates the artifact and writes the
  installed lock record" (414).
- `store.ts:2233`: recovering a goal of unknown outcome to `cancelled` settles
  only its units of unknown outcome; other live attempts stay live and are not
  cancelled, while `docs/spec/24-opencode-goal-supervisor.md:104` calls
  `cancelled` terminal and fenced.
- `store.ts:4748`, `4836`: a failed outcome classified `external-ambiguity`
  leaves the attempt `failed`, while GS-VIABLE-5 (line 223) moves unit, attempt
  and goal to `unknown-outcome`.
- `manager.ts:719`: see `StreamsAreComplete` in section 9, while
  `docs/spec/14-rpc-contract.md:423` says "Replays persisted events strictly after
  the supplied sequence, then delivers live events."
- `daemon.ts:434`: a recovery that finds the lock taken by a competitor gives up
  with an error of its own (`failed`), not with the contention that the comment
  at `daemon.ts:1044` describes.
- `tui-daemon.ts:961`: a unit that is `deactivating` is not active, so a managed
  daemon that is still ending is taken for an independent one, and the unit is
  disabled; GS-SD-7 (`docs/spec/24-opencode-goal-supervisor.md:658`) tells the two
  apart by who started the daemon.
- `tui-daemon.ts:1558`: `ensureRunning` reloads systemd when it has just changed
  the unit's file, say back from what another manager wanted. If that
  `daemon-reload` fails, the next call finds the file unchanged and a daemon of
  the wanted service still running, reports it as running, and
  systemd keeps the older definition it has loaded until someone reloads: a crash
  of the daemon then starts the older service. It takes two calls of one manager,
  more than the run's `MaxCalls = 1`; `SuccessIsManaged` promises the file and the
  next login, not what is loaded.
- A verification a daemon died in, between its result and the report, is run
  again; a final verification that failed never is (`supervisor.ts:1119`), and
  the goal waits for its operator.

## 12. What is only model-checked, and what is not modelled

Only model-checked: the liveness properties (`ExpiredLeasesAreReconciled`,
`ClaimsGetASessionOrAreGivenUp`, `RunsEnd`, `CallsEnd`), which no installed prover
reaches, and the three findings of section 11. Proved and in no run are the type
invariants of `SessionDispatch`, `WorkspaceLock`, `DaemonManager` and
`PluginLifecycle`. Stated, false of the code and in no run are `StreamsAreComplete`,
`StreamsEnd`, `DisabledHasNoCode` and `FailuresAreIsolated`.

Not modelled, with the reason:

- The git engine, its commands and parsers, forge, file system and repository
  resolution: layers over `git` and the network with no protocol of their own.
- UI, desktop shell, editor extension, RPC contract, system map: presentation
  and schemas.
- The analysis and the semantic index of workspace intelligence, the inference
  providers, the goal plan compiler: pure functions over text and data that a
  model checker does not reach.
- The event log and its projections, `validateAcyclicPlan`, and the deletions of
  workspace intelligence: rows 8 to 10 of the plan.
- The web server's RPC handlers, plugin repositories and intelligence service:
  forwarding, network and signature checks.
- The configuration store and the update policy: they keep state with an order
  to it and are the next components to take up after the plan.

The repository has some hundred thousand lines of implementation, most of them in
the first three groups; the modules cover the concurrent and durable core.
