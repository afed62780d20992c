----------------------- MODULE IntelligenceRunsProofs -----------------------
(***************************************************************************)
(* What is proved about the run manager of workspace intelligence, for any *)
(* number of workspaces, runs and slots, with cancellations, operators and *)
(* crashes: its workspaces, its slots, its types, its pointer current.json *)
(* and, of the runs that nobody cancels, their files and their streams.    *)
(*                                                                         *)
(* That a workspace has one active run depends on who may forget a run:    *)
(* execute's finally clause and a queued cancellation both do, so no run   *)
(* may ever have both, and neither may run twice.                          *)
(***************************************************************************)
EXTENDS IntelligenceRuns, FiniteSetTheorems, SequenceTheorems,
        WellFoundedInduction, TLAPS

(* The labels under which execute has not reached its finally clause.      *)
Working == {"preparing", "running", "analysing", "covering", "completing",
            "finalizing", "selecting", "failing", "finalizingFailed"}

(* A run that executes is active, and was started.                         *)
WorkingRunsAreActive ==
    \A r \in Runs :
        at[<<r, "main">>] \in Working => r \in active /\ r \in executionStarted

(* A queued run that cancel finishes is active, and will not be started.   *)
QueuedCancellationsAreExclusive ==
    \A r \in Runs :
        /\ at[<<r, "cancel">>] \in {"cancelled", "finalizingCancelled"} =>
              r \in active /\ r \in cancelled /\ r \notin executionStarted
        /\ at[<<r, "cancel">>] = "cancelling" =>
              r \in cancelled /\ (r \in active \/ r \in executionStarted)

WorkspaceTypes ==
    /\ active \subseteq Runs
    /\ byEngagement \in [Engagements -> Runs \union {None}]
    /\ at \in [Tasks -> Labels]

(* byEngagement names a run of the workspace it is filed under.            *)
FiledUnderOwnWorkspace ==
    \A e \in Engagements :
        byEngagement[e] # None => EngagementOf[byEngagement[e]] = e

(* The inductive invariant.                                                *)
WorkspaceInv ==
    /\ WorkspaceTypes
    /\ OneActiveRunPerWorkspace
    /\ FiledUnderOwnWorkspace
    /\ WorkingRunsAreActive
    /\ QueuedCancellationsAreExclusive

(* The two maps, as one part: what Start and Forget keep in step.          *)
Maps ==
    /\ active \subseteq Runs
    /\ byEngagement \in [Engagements -> Runs \union {None}]
    /\ OneActiveRunPerWorkspace
    /\ FiledUnderOwnWorkspace

-----------------------------------------------------------------------------
(* A run that is forgotten while it is active leaves both maps.            *)
LEMMA ForgetKeepsMaps ==
    ASSUME Maps, NEW r \in active, Forget(r)
    PROVE  Maps' /\ active' = active \ {r}
  BY BoundsAssumption
     DEF Maps, Forget, OneActiveRunPerWorkspace, FiledUnderOwnWorkspace, Runs, None

(* A new run of a workspace without one enters both.                       *)
LEMMA StartKeepsMaps ==
    ASSUME Maps, NEW r \in Runs, Start(r)
    PROVE  Maps' /\ active' = active \union {r}
  BY BoundsAssumption
     DEF Maps, Start, OneActiveRunPerWorkspace, FiledUnderOwnWorkspace, Runs, None

(* drainQueue starts at most one run, which is active and not cancelled.   *)
LEMMA DrainStarts ==
    ASSUME WorkspaceTypes, NEW queue, NEW count, NEW label \in [Tasks -> Labels],
           Drain(queue, count, label)
    PROVE  \/ at' = label /\ UNCHANGED executionStarted
           \/ \E q \in active :
                /\ q \notin cancelled
                /\ at' = [label EXCEPT ![<<q, "main">>] = "preparing"]
                /\ executionStarted' = executionStarted \union {q}
  BY DEF WorkspaceTypes, Drain, Startable

(* A step that only moves one task to a label that asks for nothing.       *)
LEMMA RelabelStep ==
    ASSUME WorkspaceInv, NEW t \in Tasks, NEW label \in Labels,
           Goes(t, label),
           label \notin Working,
           t[2] = "main" \/ label \notin {"cancelling", "cancelled",
                                         "finalizingCancelled"},
           UNCHANGED <<active, byEngagement, cancelled, executionStarted>>
    PROVE  WorkspaceInv'
<1> USE DEF WorkspaceInv, Goes
<1>1. WorkspaceTypes'
  BY DEF WorkspaceTypes
<1>2. OneActiveRunPerWorkspace' /\ FiledUnderOwnWorkspace'
  BY DEF OneActiveRunPerWorkspace, FiledUnderOwnWorkspace
<1>3. WorkingRunsAreActive'
  BY DEF WorkingRunsAreActive, WorkspaceTypes, Tasks
<1>4. QueuedCancellationsAreExclusive'
  BY DEF QueuedCancellationsAreExclusive, WorkspaceTypes, Tasks
<1> QED
  BY <1>1, <1>2, <1>3, <1>4

(* Within execute, a run goes from one label to the next, ...              *)
LEMMA WorkStep ==
    ASSUME WorkspaceInv, NEW r \in Runs, NEW label \in Labels,
           at[<<r, "main">>] \in Working,
           Goes(<<r, "main">>, label),
           UNCHANGED <<active, byEngagement, cancelled, executionStarted>>
    PROVE  WorkspaceInv'
<1> USE DEF WorkspaceInv, Goes
<1>1. WorkspaceTypes'
  BY DEF WorkspaceTypes
<1>2. OneActiveRunPerWorkspace' /\ FiledUnderOwnWorkspace'
  BY DEF OneActiveRunPerWorkspace, FiledUnderOwnWorkspace
<1>3. WorkingRunsAreActive'
  BY DEF WorkingRunsAreActive, WorkspaceTypes, Tasks
<1>4. QueuedCancellationsAreExclusive'
  BY DEF QueuedCancellationsAreExclusive, WorkspaceTypes, Tasks
<1> QED
  BY <1>1, <1>2, <1>3, <1>4

(* ... and it is forgotten when it goes to one outside of execute.         *)
LEMMA ForgetStep ==
    ASSUME WorkspaceInv, NEW r \in Runs, NEW label \in Labels \ Working,
           at[<<r, "main">>] \in Working,
           Goes(<<r, "main">>, label),
           Forget(r),
           UNCHANGED <<cancelled, executionStarted>>
    PROVE  WorkspaceInv'
<1> USE DEF WorkspaceInv, Goes
<1>1. r \in active /\ r \in executionStarted
  BY DEF WorkingRunsAreActive
<1>2. Maps
  BY DEF Maps, WorkspaceTypes
<1>3. Maps' /\ active' = active \ {r}
  BY <1>1, <1>2, ForgetKeepsMaps
<1>4. WorkspaceTypes'
  BY <1>3 DEF WorkspaceTypes, Maps
<1>5. WorkingRunsAreActive'
  BY <1>3 DEF WorkingRunsAreActive, WorkspaceTypes, Tasks
<1>6. QueuedCancellationsAreExclusive'
  BY <1>1, <1>3 DEF QueuedCancellationsAreExclusive, WorkspaceTypes, Tasks
<1> QED
  BY <1>3, <1>4, <1>5, <1>6 DEF Maps

(* A caller of drainQueue that relabels t first.                           *)
LEMMA DrainStep ==
    ASSUME WorkspaceInv, NEW t \in Tasks, NEW queue, NEW count,
           Drain(queue, count, [at EXCEPT ![t] = IF t[2] = "main" /\ at[t] = "queued"
                                                 THEN "pending" ELSE "done"]),
           UNCHANGED <<active, byEngagement, cancelled>>
    PROVE  WorkspaceInv'
<1> USE DEF WorkspaceInv
<1> DEFINE next  == IF t[2] = "main" /\ at[t] = "queued" THEN "pending" ELSE "done"
           label == [at EXCEPT ![t] = next]
<1>1. next \in {"pending", "done"}
  OBVIOUS
<1>2. label \in [Tasks -> Labels]
  BY <1>1 DEF WorkspaceTypes, Labels
<1>3. /\ \A r \in Runs : label[<<r, "main">>] \in Working =>
                           at[<<r, "main">>] \in Working
      /\ \A r \in Runs : label[<<r, "cancel">>] \in {"cancelling", "cancelled",
                                                    "finalizingCancelled"} =>
                           label[<<r, "cancel">>] = at[<<r, "cancel">>]
  BY <1>1 DEF WorkspaceTypes, Working, Tasks
<1>4. \/ at' = label /\ UNCHANGED executionStarted
      \/ \E q \in active :
           /\ q \notin cancelled
           /\ at' = [label EXCEPT ![<<q, "main">>] = "preparing"]
           /\ executionStarted' = executionStarted \union {q}
  BY <1>2, DrainStarts
<1> HIDE DEF next, label
<1>5. OneActiveRunPerWorkspace' /\ FiledUnderOwnWorkspace'
  BY DEF OneActiveRunPerWorkspace, FiledUnderOwnWorkspace
<1>6. CASE at' = label /\ UNCHANGED executionStarted
  <2>1. WorkspaceTypes'
    BY <1>2, <1>6 DEF WorkspaceTypes
  <2>2. WorkingRunsAreActive'
    BY <1>3, <1>6 DEF WorkingRunsAreActive
  <2>3. QueuedCancellationsAreExclusive'
    BY <1>3, <1>6 DEF QueuedCancellationsAreExclusive
  <2> QED
    BY <1>5, <2>1, <2>2, <2>3
<1>7. ASSUME NEW q \in active,
             q \notin cancelled,
             at' = [label EXCEPT ![<<q, "main">>] = "preparing"],
             executionStarted' = executionStarted \union {q}
      PROVE  WorkspaceInv'
  <2>1. q \in Runs /\ <<q, "main">> \in Tasks
    BY DEF WorkspaceTypes, Tasks
  <2>2. WorkspaceTypes'
    BY <1>2, <1>7, <2>1 DEF WorkspaceTypes, Labels
  <2>3. WorkingRunsAreActive'
    BY <1>2, <1>3, <1>7, <2>1 DEF WorkingRunsAreActive, Tasks
  <2>4. \A r \in Runs : at'[<<r, "cancel">>] = label[<<r, "cancel">>]
    BY <1>2, <1>7, <2>1 DEF Tasks
  <2>5. QueuedCancellationsAreExclusive'
    BY <1>3, <1>7, <2>4 DEF QueuedCancellationsAreExclusive
  <2> QED
    BY <1>5, <2>2, <2>3, <2>5
<1> QED
  BY <1>4, <1>6, <1>7

(* finishQueuedCancellation forgets its run and drains the queue at once.  *)
LEMMA QueuedCancellationStep ==
    ASSUME WorkspaceInv, NEW r \in Runs, QueuedCancellationOver(r)
    PROVE  WorkspaceInv'
<1> USE DEF WorkspaceInv
<1> DEFINE label == [at EXCEPT ![<<r, "cancel">>] = "done"]
<1>1. /\ at[<<r, "cancel">>] = "finalizingCancelled"
      /\ Forget(r)
      /\ Drain(pending, runningCount, label)
      /\ UNCHANGED cancelled
  BY DEF QueuedCancellationOver, Returned
<1>2. /\ r \in active
      /\ r \in cancelled
      /\ r \notin executionStarted
  BY <1>1 DEF QueuedCancellationsAreExclusive
<1>3. Maps
  BY DEF Maps, WorkspaceTypes
<1>4. Maps' /\ active' = active \ {r}
  BY <1>1, <1>2, <1>3, ForgetKeepsMaps
<1>5. label \in [Tasks -> Labels]
  BY DEF WorkspaceTypes, Labels
<1>6. /\ \A q \in Runs : label[<<q, "main">>] = at[<<q, "main">>]
      /\ \A q \in Runs : label[<<q, "cancel">>] =
                           IF q = r THEN "done" ELSE at[<<q, "cancel">>]
  BY DEF WorkspaceTypes, Tasks
<1>7. \/ at' = label /\ UNCHANGED executionStarted
      \/ \E q \in active :
           /\ q \notin cancelled
           /\ at' = [label EXCEPT ![<<q, "main">>] = "preparing"]
           /\ executionStarted' = executionStarted \union {q}
  BY <1>1, <1>5, DrainStarts
<1> HIDE DEF label
<1>8. CASE at' = label /\ UNCHANGED executionStarted
  <2>1. WorkspaceTypes'
    BY <1>4, <1>5, <1>8 DEF WorkspaceTypes, Maps
  <2>2. WorkingRunsAreActive'
    BY <1>2, <1>4, <1>6, <1>8 DEF WorkingRunsAreActive
  <2>3. QueuedCancellationsAreExclusive'
    BY <1>1, <1>4, <1>6, <1>8 DEF QueuedCancellationsAreExclusive
  <2> QED
    BY <1>4, <2>1, <2>2, <2>3 DEF Maps
<1>9. ASSUME NEW q \in active,
             q \notin cancelled,
             at' = [label EXCEPT ![<<q, "main">>] = "preparing"],
             executionStarted' = executionStarted \union {q}
      PROVE  WorkspaceInv'
  <2>1. q \in Runs /\ q # r /\ <<q, "main">> \in Tasks
    BY <1>2, <1>9 DEF WorkspaceTypes, Tasks
  <2>2. WorkspaceTypes'
    BY <1>4, <1>5, <1>9, <2>1 DEF WorkspaceTypes, Maps, Labels
  <2>3. \A p \in Runs : at'[<<p, "cancel">>] = label[<<p, "cancel">>]
    BY <1>5, <1>9, <2>1 DEF Tasks
  <2>4. WorkingRunsAreActive'
    BY <1>2, <1>4, <1>5, <1>6, <1>9, <2>1 DEF WorkingRunsAreActive, Tasks
  <2>5. QueuedCancellationsAreExclusive'
    BY <1>1, <1>4, <1>6, <1>9, <2>1, <2>3 DEF QueuedCancellationsAreExclusive
  <2> QED
    BY <1>4, <2>2, <2>4, <2>5 DEF Maps
<1> QED
  BY <1>7, <1>8, <1>9

(* A step that leaves the schedule and the tasks' places alone.            *)
LEMMA IdleStep ==
    ASSUME WorkspaceInv,
           UNCHANGED <<active, byEngagement, cancelled, executionStarted, at>>
    PROVE  WorkspaceInv'
  BY DEF WorkspaceInv, WorkspaceTypes, OneActiveRunPerWorkspace,
         FiledUnderOwnWorkspace, WorkingRunsAreActive,
         QueuedCancellationsAreExclusive

(* start enters a run in both maps.                                        *)
LEMMA StartStep ==
    ASSUME WorkspaceInv, NEW r \in Runs, Start(r)
    PROVE  WorkspaceInv'
<1> USE DEF WorkspaceInv
<1>1. Maps
  BY DEF Maps, WorkspaceTypes
<1>2. Maps' /\ active' = active \union {r}
  BY <1>1, StartKeepsMaps
<1>3. /\ at' = [at EXCEPT ![<<r, "main">>] = "queued"]
      /\ UNCHANGED <<cancelled, executionStarted>>
  BY DEF Start, Goes
<1>4. WorkspaceTypes'
  BY <1>2, <1>3 DEF WorkspaceTypes, Maps, Labels
<1>5. WorkingRunsAreActive'
  BY <1>2, <1>3 DEF WorkingRunsAreActive, WorkspaceTypes, Tasks, Working
<1>6. QueuedCancellationsAreExclusive'
  BY <1>2, <1>3 DEF QueuedCancellationsAreExclusive, WorkspaceTypes, Tasks
<1> QED
  BY <1>2, <1>4, <1>5, <1>6 DEF Maps

(* cancel marks its run, and finishes it if it was not started.            *)
LEMMA CancelStep ==
    ASSUME WorkspaceInv, NEW r \in Runs,
           \/ Cancel(r)
           \/ CancelRequested(r)
           \/ CancellationRecorded(<<r, "cancel">>)
    PROVE  WorkspaceInv'
<1> USE DEF WorkspaceInv
<1>1. UNCHANGED <<active, byEngagement, executionStarted>>
  BY DEF Cancel, CancelRequested, CancellationRecorded, schedule
<1>2. \/ /\ r \in active
         /\ cancelled' = cancelled \union {r}
         /\ at' = [at EXCEPT ![<<r, "cancel">>] = "cancelling"]
      \/ /\ at[<<r, "cancel">>] = "cancelling"
         /\ UNCHANGED cancelled
         /\ r \in executionStarted
         /\ at' = [at EXCEPT ![<<r, "cancel">>] = "done"]
      \/ /\ at[<<r, "cancel">>] = "cancelling"
         /\ UNCHANGED cancelled
         /\ r \notin executionStarted
         /\ at' = [at EXCEPT ![<<r, "cancel">>] = "cancelled"]
      \/ /\ at[<<r, "cancel">>] = "cancelled"
         /\ UNCHANGED cancelled
         /\ at' = [at EXCEPT ![<<r, "cancel">>] = "finalizingCancelled"]
  BY DEF Cancel, CancelRequested, CancellationRecorded, schedule, Goes, Returned
<1>3. WorkspaceTypes'
  BY <1>1, <1>2 DEF WorkspaceTypes, Labels
<1>4. OneActiveRunPerWorkspace' /\ FiledUnderOwnWorkspace'
  BY <1>1 DEF OneActiveRunPerWorkspace, FiledUnderOwnWorkspace
<1>5. WorkingRunsAreActive'
  BY <1>1, <1>2 DEF WorkingRunsAreActive, WorkspaceTypes, Tasks
<1>6. QueuedCancellationsAreExclusive'
  BY <1>1, <1>2 DEF QueuedCancellationsAreExclusive, WorkspaceTypes, Tasks
<1> QED
  BY <1>3, <1>4, <1>5, <1>6

(* With the process, everything that the invariant speaks of is gone.      *)
LEMMA CrashStep ==
    ASSUME WorkspaceTypes, Crash
    PROVE  WorkspaceInv'
  BY BoundsAssumption
     DEF Crash, WorkspaceInv, WorkspaceTypes, OneActiveRunPerWorkspace,
         FiledUnderOwnWorkspace, WorkingRunsAreActive,
         QueuedCancellationsAreExclusive, Tasks, Labels, Working, None

(* execute: each piece goes on, or leaves by its finally clause.           *)
LEMMA ExecuteStep ==
    ASSUME WorkspaceInv, NEW r \in Runs,
           \/ Prepared(r)
           \/ NextRepository(r)
           \/ RepositoryAnalyzed(r)
           \/ Fails(r)
           \/ Materialize(r)
           \/ BecomeCurrent(r)
           \/ Leave(r)
    PROVE  WorkspaceInv'
<1> DEFINE t == <<r, "main">>
<1>1. at[t] \in Working
  BY DEF Prepared, NextRepository, RepositoryAnalyzed, Fails, Materialize,
         BecomeCurrent, Leave, Returned, Working
<1>2. UNCHANGED <<cancelled, executionStarted>>
  BY DEF Prepared, NextRepository, RepositoryAnalyzed, Fails, Materialize,
         BecomeCurrent, Leave, executeFrame, schedule
<1>3. \/ /\ \E label \in Labels : Goes(t, label)
         /\ UNCHANGED <<active, byEngagement>>
      \/ /\ \E label \in {"cancelled", "over"} : Goes(t, label)
         /\ Forget(r)
  <2>1. CASE Prepared(r)
    BY <2>1 DEF Prepared, FinishCancelled, Transition, Labels
  <2>2. CASE NextRepository(r)
    BY <2>2 DEF NextRepository, FinishCancelled, Transition, Labels
  <2>3. CASE RepositoryAnalyzed(r)
    BY <2>3 DEF RepositoryAnalyzed, Labels
  <2>4. CASE Fails(r)
    BY <2>4 DEF Fails, FinishCancelled, Transition, Labels
  <2>5. CASE Materialize(r)
    BY <2>5 DEF Materialize, Labels
  <2>6. CASE BecomeCurrent(r)
    BY <2>6 DEF BecomeCurrent, Labels, schedule
  <2>7. CASE Leave(r)
    BY <2>7 DEF Leave
  <2> QED
    BY <2>1, <2>2, <2>3, <2>4, <2>5, <2>6, <2>7
<1>4. ASSUME NEW label \in Labels, Goes(t, label),
             UNCHANGED <<active, byEngagement>>
      PROVE  WorkspaceInv'
  BY <1>1, <1>2, <1>4, WorkStep
<1>5. ASSUME NEW label \in {"cancelled", "over"}, Goes(t, label), Forget(r)
      PROVE  WorkspaceInv'
  <2>1. label \in Labels \ Working
    BY DEF Labels, Working
  <2> QED
    BY <1>1, <1>2, <1>5, <2>1, ForgetStep
<1> QED
  BY <1>3, <1>4, <1>5

(* Steps of a task that ends, fails or goes on outside of execute.         *)
LEMMA SettledStep ==
    ASSUME WorkspaceInv, NEW r \in Runs,
           \/ StartFails(r)
           \/ CancellationRecorded(<<r, "main">>)
           \/ CancellationOver(r)
           \/ CancelFails(r)
           \/ ReconcileRun(r)
           \/ RunReconciled(r)
    PROVE  WorkspaceInv'
<1>1. UNCHANGED <<active, byEngagement, cancelled, executionStarted>>
  BY DEF StartFails, CancellationRecorded, CancellationOver, CancelFails,
         ReconcileRun, RunReconciled, schedule
<1>2. \/ \E label \in {"done", "finalizingCancelled", "over", "reconciling"} :
            Goes(<<r, "main">>, label)
      \/ Goes(<<r, "cancel">>, "done")
  BY DEF StartFails, CancellationRecorded, CancellationOver, CancelFails,
         ReconcileRun, RunReconciled
<1>3. ASSUME NEW label \in {"done", "finalizingCancelled", "over", "reconciling"},
             Goes(<<r, "main">>, label)
      PROVE  WorkspaceInv'
  <2>1. <<r, "main">> \in Tasks /\ <<r, "main">>[2] = "main"
    BY DEF Tasks
  <2>2. label \in Labels /\ label \notin Working
    BY DEF Labels, Working
  <2> QED
    BY <1>1, <1>3, <2>1, <2>2, RelabelStep
<1>4. CASE Goes(<<r, "cancel">>, "done")
  <2>1. <<r, "cancel">> \in Tasks
    BY DEF Tasks
  <2>2. "done" \in Labels /\ "done" \notin Working
    BY DEF Labels, Working
  <2>3. "done" \notin {"cancelling", "cancelled", "finalizingCancelled"}
    OBVIOUS
  <2> QED
    BY <1>1, <1>4, <2>1, <2>2, <2>3, RelabelStep
<1> QED
  BY <1>2, <1>3, <1>4

(* Steps that give the queue its chance.                                   *)
LEMMA QueueStep ==
    ASSUME WorkspaceInv, NEW r \in Runs, Enqueue(r) \/ Release(r)
    PROVE  WorkspaceInv'
<1> DEFINE t == <<r, "main">>
<1>1. t \in Tasks /\ t[2] = "main"
  BY DEF Tasks
<1>2. UNCHANGED <<active, byEngagement, cancelled>>
  BY DEF Enqueue, Release
<1>3. CASE Enqueue(r)
  <2>1. /\ at[t] = "queued"
        /\ Drain(Append(pending, r), runningCount, [at EXCEPT ![t] = "pending"])
    BY <1>3 DEF Enqueue, Returned
  <2>2. [at EXCEPT ![t] = "pending"] =
            [at EXCEPT ![t] = IF t[2] = "main" /\ at[t] = "queued"
                              THEN "pending" ELSE "done"]
    BY <1>1, <2>1
  <2> HIDE DEF t
  <2> QED
    BY <1>1, <1>2, <2>1, <2>2, DrainStep
<1>4. CASE Release(r)
  <2>1. /\ at[t] = "over"
        /\ Drain(pending, runningCount - 1, [at EXCEPT ![t] = "done"])
    BY <1>4 DEF Release
  <2>2. [at EXCEPT ![t] = "done"] =
            [at EXCEPT ![t] = IF t[2] = "main" /\ at[t] = "queued"
                              THEN "pending" ELSE "done"]
    BY <1>1, <2>1
  <2> HIDE DEF t
  <2> QED
    BY <1>1, <1>2, <2>1, <2>2, DrainStep
<1> QED
  BY <1>3, <1>4

(* File operations, operators and subscribers only look at the schedule.   *)
LEMMA OutsideStep ==
    ASSUME WorkspaceInv,
           \/ \E t \in Tasks : FileSystem(t)
           \/ \E s \in Subscribers : Stream(s) \/ \E r \in Runs : Subscribe(s, r)
           \/ \E r \in Runs : SelectCurrent(r)
           \/ Selection
           \/ Serve
           \/ UNCHANGED vars
    PROVE  WorkspaceInv'
<1>1. UNCHANGED <<active, byEngagement, cancelled, executionStarted, at>>
  BY DEF FileSystem, WriteManifest, RenameManifest, SerializeEvents, WriteEvents,
         RenameEvents, WriteIntegrity, WriteCurrent, RenameCurrent, Stream, Read,
         Check, Decide, Subscribe, SelectCurrent, Selection, WriteSelected,
         RenameSelected, Serve, vars, schedule
<1> QED
  BY <1>1, IdleStep

-----------------------------------------------------------------------------
LEMMA WorkspaceStep ==
    ASSUME WorkspaceInv, [Next]_vars
    PROVE  WorkspaceInv'
<1>1. CASE \E r \in Runs : Start(r)
  BY <1>1, StartStep
<1>2. CASE \E r \in Runs : Enqueue(r) \/ Release(r)
  BY <1>2, QueueStep
<1>3. CASE \E r \in Runs : \/ Prepared(r)
                         \/ NextRepository(r)
                         \/ RepositoryAnalyzed(r)
                         \/ Fails(r)
                         \/ Materialize(r)
                         \/ BecomeCurrent(r)
                         \/ Leave(r)
  BY <1>3, ExecuteStep
<1>4. CASE \E r \in Runs : \/ StartFails(r)
                         \/ CancellationRecorded(<<r, "main">>)
                         \/ CancellationOver(r)
                         \/ CancelFails(r)
                         \/ ReconcileRun(r)
                         \/ RunReconciled(r)
  BY <1>4, SettledStep
<1>5. CASE \E r \in Runs : \/ Cancel(r)
                         \/ CancelRequested(r)
                         \/ CancellationRecorded(<<r, "cancel">>)
  BY <1>5, CancelStep
<1>6. CASE \E r \in Runs : QueuedCancellationOver(r)
  BY <1>6, QueuedCancellationStep
<1>7. CASE Crash
  BY <1>7, CrashStep DEF WorkspaceInv
<1>8. CASE \/ \E t \in Tasks : FileSystem(t)
           \/ \E s \in Subscribers : Stream(s) \/ \E r \in Runs : Subscribe(s, r)
           \/ \E r \in Runs : SelectCurrent(r)
           \/ Selection
           \/ Serve
           \/ UNCHANGED vars
  BY <1>8, OutsideStep
<1> QED
  BY <1>1, <1>2, <1>3, <1>4, <1>5, <1>6, <1>7, <1>8
     DEF Next, Execute, FinishCancel

LEMMA InitWorkspace == Init => WorkspaceInv
  BY BoundsAssumption
     DEF Init, WorkspaceInv, WorkspaceTypes, OneActiveRunPerWorkspace,
         FiledUnderOwnWorkspace, WorkingRunsAreActive,
         QueuedCancellationsAreExclusive, Tasks, Labels, Working, None

(* Every run that is active is the one its workspace is locked by.         *)
THEOREM OneActiveRun == Spec => []OneActiveRunPerWorkspace
<1>1. Init => WorkspaceInv
  BY InitWorkspace
<1>2. WorkspaceInv /\ [Next]_vars => WorkspaceInv'
  BY WorkspaceStep
<1>3. WorkspaceInv => OneActiveRunPerWorkspace
  BY DEF WorkspaceInv
<1> QED
  BY <1>1, <1>2, <1>3, PTL DEF Spec


-----------------------------------------------------------------------------
(* The slots.  That no run waits beside a free slot is what makes one call *)
(* of drainQueue start one run at most; that a run is started once is what *)
(* makes the counter right.                                                *)

(* What a run does when it does not hold a slot.                           *)
Resting == {"idle", "queued", "pending", "reconciling", "done"}

ExecutingAt(label) == {r \in Runs : label[<<r, "main">>] \notin Resting}

(* A run that holds a slot was started.                                    *)
ExecutingRunsWereStarted == \A r \in ExecutingAt(at) : r \in executionStarted

(* A run that was never seen does nothing yet.                             *)
NewRunsAreIdle ==
    /\ state \in [Runs -> RunStates \union {"none"}]
    /\ \A r \in Runs : state[r] = "none" => at[<<r, "main">>] = "idle"

SlotInv ==
    /\ NewRunsAreIdle
    /\ ExecutingRunsWereStarted
    /\ SlotsFollowRuns

(* Induction by a least counterexample.                                    *)
LEMMA LeastNumber ==
    ASSUME NEW B \in SUBSET Nat, B # {}
    PROVE  \E n \in B : \A m \in B : n <= m
<1>1. PICK n \in B : \A m \in B : <<m, n>> \notin OpToRel(<, Nat)
  BY NatLessThanWellFounded, WFMin
<1>2. \A m \in B : ~(m < n)
  BY <1>1 DEF OpToRel
<1> QED
  BY <1>2

(* What filter computes, element by element.                               *)
LEMMA KeptStepByStep ==
    ASSUME NEW T, NEW s \in Seq(T), NEW S
    PROVE  \E k \in [0 .. Len(s) -> Seq(T)] :
              /\ k[0] = <<>>
              /\ \A i \in 1 .. Len(s) :
                    k[i] = IF s[i] \in S THEN Append(k[i - 1], s[i]) ELSE k[i - 1]
              /\ Kept(s, S) = k[Len(s)]
<1> DEFINE Step(f, i) == IF i = 0 THEN <<>>
                         ELSE IF s[i] \in S THEN Append(f[i - 1], s[i])
                         ELSE f[i - 1]
           Upto(n)    == \E f : f = [i \in 0 .. n |-> Step(f, i)]
           bad        == {n \in 0 .. Len(s) : ~Upto(n)}
           k          == CHOOSE f : f = [i \in 0 .. Len(s) |-> Step(f, i)]
<1>0. Len(s) \in Nat /\ \A i \in 1 .. Len(s) : s[i] \in T
  OBVIOUS
<1>1. Upto(0)
  <2>1. [i \in 0 .. 0 |-> <<>>] = [i \in 0 .. 0 |-> Step([j \in 0 .. 0 |-> <<>>], i)]
    OBVIOUS
  <2> QED
    BY <2>1
<1>2. ASSUME NEW n \in Nat, Upto(n)
      PROVE  Upto(n + 1)
  <2>1. PICK f : f = [i \in 0 .. n |-> Step(f, i)]
    BY <1>2
  <2> DEFINE g == [i \in 0 .. n + 1 |-> IF i <= n THEN f[i] ELSE Step(f, n + 1)]
  <2>2. \A i \in 0 .. n + 1 : g[i] = Step(g, i)
    <3>1. TAKE i \in 0 .. n + 1
    <3>2. CASE i = 0
      BY <2>1, <3>2
    <3>3. CASE i # 0
      <4>1. i - 1 \in 0 .. n /\ g[i - 1] = f[i - 1]
        BY <3>3
      <4>2. CASE i <= n
        <5>1. g[i] = f[i]
          BY <4>2
        <5>2. f[i] = Step(f, i)
          <6> HIDE DEF Step, g
          <6>1. i \in 0 .. n
            BY <4>2
          <6> QED
            BY <2>1, <6>1
        <5>3. Step(f, i) = Step(g, i)
          BY <4>1
        <5> QED
          BY <5>1, <5>2, <5>3
      <4>3. CASE i = n + 1
        BY <3>3, <4>1, <4>3
      <4> QED
        BY <4>2, <4>3
    <3> QED
      BY <3>2, <3>3
  <2>3. g = [i \in 0 .. n + 1 |-> Step(g, i)]
    <3> HIDE DEF Step
    <3> QED
      BY <2>2
  <2> QED
    BY <2>3
<1>3. bad = {}
  <2>1. SUFFICES ASSUME bad # {} PROVE FALSE
    OBVIOUS
  <2>2. bad \in SUBSET Nat
    OBVIOUS
  <2> HIDE DEF Upto
  <2>3. PICK n \in bad : \A m \in bad : n <= m
    BY <2>1, <2>2, LeastNumber
  <2>4. n # 0
    BY <1>1, <2>3
  <2>5. n - 1 \in 0 .. Len(s) /\ n - 1 \notin bad
    BY <2>3, <2>4
  <2>6. Upto(n - 1)
    BY <2>5
  <2>7. Upto((n - 1) + 1)
    BY <1>2, <2>5, <2>6
  <2>8. (n - 1) + 1 = n
    BY <2>5
  <2> QED
    BY <2>3, <2>7, <2>8
<1>4. k = [i \in 0 .. Len(s) |-> Step(k, i)]
  <2>1. Upto(Len(s))
    <3> HIDE DEF Upto
    <3> QED
      BY <1>3
  <2> QED
    BY <2>1
<1>5. /\ k[0] = <<>>
      /\ \A i \in 1 .. Len(s) :
            k[i] = IF s[i] \in S THEN Append(k[i - 1], s[i]) ELSE k[i - 1]
  <2> HIDE DEF k, Step
  <2>1. \A i \in 0 .. Len(s) : k[i] = Step(k, i)
    BY <1>4
  <2>2. k[0] = Step(k, 0)
    BY <1>0, <2>1
  <2>3. \A i \in 1 .. Len(s) : k[i] = Step(k, i)
    BY <1>0, <2>1
  <2> QED
    BY <1>0, <2>2, <2>3 DEF Step
<1>6. Kept(s, S) = k[Len(s)]
  BY DEF Kept
<1> HIDE DEF k
<1>7. \A i \in 0 .. Len(s) : k[i] \in Seq(T)
  <2> DEFINE odd == {i \in 0 .. Len(s) : k[i] \notin Seq(T)}
  <2>1. SUFFICES ASSUME odd # {} PROVE FALSE
    OBVIOUS
  <2>2. odd \in SUBSET Nat
    OBVIOUS
  <2>3. PICK n \in odd : \A m \in odd : n <= m
    BY <2>1, <2>2, LeastNumber
  <2>4. <<>> \in Seq(T)
    OBVIOUS
  <2>5. n # 0
    BY <1>5, <2>3, <2>4
  <2>6. n \in Nat /\ n - 1 \in 0 .. Len(s) /\ n \in 1 .. Len(s)
    BY <1>0, <2>3, <2>5
  <2>7. k[n - 1] \in Seq(T)
    BY <2>3, <2>6
  <2>8. s[n] \in T
    BY <1>0, <2>6
  <2>9. k[n] \in Seq(T)
    <3> HIDE DEF odd
    <3>1. k[n] = IF s[n] \in S THEN Append(k[n - 1], s[n]) ELSE k[n - 1]
      BY <1>5, <2>6
    <3>2. Append(k[n - 1], s[n]) \in Seq(T)
      BY <2>7, <2>8
    <3> QED
      BY <2>7, <3>1, <3>2
  <2> QED
    BY <2>3, <2>9
<1> QED
  BY <1>4, <1>5, <1>6, <1>7

(* A filter of nothing is nothing.                                         *)
LEMMA KeptNothing ==
    ASSUME NEW S
    PROVE  Kept(<<>>, S) = <<>>
<1>1. ASSUME NEW s \in Seq({}), Len(s) = 0
      PROVE  Kept(s, S) = <<>>
  <2>1. PICK k \in [0 .. Len(s) -> Seq({})] :
           /\ k[0] = <<>>
           /\ Kept(s, S) = k[Len(s)]
    BY KeptStepByStep
  <2> QED
    BY <1>1, <2>1
<1>2. <<>> \in Seq({}) /\ Len(<<>>) = 0
  OBVIOUS
<1> QED
  BY <1>1, <1>2

LEMMA ExecutingIsFinite ==
    ASSUME NEW label
    PROVE  IsFiniteSet(ExecutingAt(label)) /\ Cardinality(ExecutingAt(label)) \in Nat
<1>1. IsFiniteSet(Runs)
  BY BoundsAssumption, FS_Interval DEF Runs
<1>2. ExecutingAt(label) \subseteq Runs
  BY DEF ExecutingAt
<1> QED
  BY <1>1, <1>2, FS_Subset, FS_CardinalityType

(* Of what SlotsFollowRuns counts, the tasks' labels are all that matters. *)
LEMMA ExecutingByLabel == Executing = ExecutingAt(at)
  BY DEF Executing, ExecutingAt, Resting

(* drainQueue hands out a slot, if its caller left one free and a run for  *)
(* it; then nothing waits, or all slots are taken.                         *)
LEMMA DrainKeepsSlots ==
    ASSUME active \subseteq Runs,
           NEW queue, NEW count \in Nat, NEW label \in [Tasks -> Labels],
           Drain(queue, count, label),
           count = Cardinality(ExecutingAt(label)),
           count <= MaxConcurrentRuns,
           \A r \in ExecutingAt(label) : r \in executionStarted,
           \/ queue = <<>>
           \/ count = MaxConcurrentRuns
           \/ count = MaxConcurrentRuns - 1
           \/ \E r : queue = <<r>>
    PROVE  SlotsFollowRuns' /\ ExecutingRunsWereStarted'
<1> DEFINE startable == {i \in DOMAIN queue : Startable(queue[i])}
<1>0. MaxConcurrentRuns \in Nat \ {0}
  BY BoundsAssumption
<1>1. CASE /\ pending' = IF count = MaxConcurrentRuns THEN queue ELSE <<>>
           /\ runningCount' = count
           /\ at' = label
           /\ UNCHANGED executionStarted
  <2>1. Executing' = ExecutingAt(label)
    BY <1>1 DEF Executing, ExecutingAt, Resting
  <2> QED
    BY <1>1, <2>1 DEF SlotsFollowRuns, ExecutingRunsWereStarted, ExecutingAt
<1>2. ASSUME NEW i \in startable,
             count # MaxConcurrentRuns,
             pending' = SubSeq(queue, i + 1, Len(queue)),
             runningCount' = count + 1,
             executionStarted' = executionStarted \union {queue[i]},
             at' = [label EXCEPT ![<<queue[i], "main">>] = "preparing"]
      PROVE  SlotsFollowRuns' /\ ExecutingRunsWereStarted'
  <2> DEFINE q == queue[i]
  <2>1. q \in Runs /\ q \notin executionStarted
    BY <1>2 DEF Startable
  <2>2. q \notin ExecutingAt(label)
    BY <2>1
  <2>3. \A r \in Runs :
           at'[<<r, "main">>] = IF r = q THEN "preparing" ELSE label[<<r, "main">>]
    BY <1>2, <2>1 DEF Tasks
  <2> HIDE DEF q
  <2>4. ExecutingAt(at') = ExecutingAt(label) \union {q}
    BY <2>1, <2>3 DEF ExecutingAt, Resting
  <2>5. Executing' = ExecutingAt(at')
    BY DEF Executing, ExecutingAt, Resting
  <2>6. Cardinality(Executing') = count + 1
    BY <2>2, <2>4, <2>5, ExecutingIsFinite, FS_AddElement
  <2>7. pending' # <<>> => count + 1 = MaxConcurrentRuns
    <3>1. CASE queue = <<>>
      BY <1>2, <3>1
    <3>2. ASSUME NEW r, queue = <<r>>
          PROVE  pending' = <<>>
      <4>1. i = 1 /\ Len(queue) = 1
        BY <1>2, <3>2
      <4> QED
        BY <1>2, <3>2, <4>1
    <3> QED
      BY <1>0, <1>2, <3>1, <3>2
  <2>8. SlotsFollowRuns'
    BY <1>0, <1>2, <2>6, <2>7 DEF SlotsFollowRuns
  <2>9. ExecutingRunsWereStarted'
    BY <1>2, <2>4 DEF ExecutingRunsWereStarted, q
  <2> QED
    BY <2>8, <2>9
<1> QED
  BY <1>1, <1>2 DEF Drain


(* A task that goes on, without taking a slot or giving one back.          *)
LEMMA TaskKeepsSlots ==
    ASSUME WorkspaceInv, SlotInv,
           NEW t \in Tasks, NEW label \in Labels \ {"idle"},
           Goes(t, label),
           t[2] = "main" => (at[t] \in Resting <=> label \in Resting),
           \/ state' = state /\ (t[2] = "main" => at[t] # "idle")
           \/ \E next \in RunStates : state' = [state EXCEPT ![t[1]] = next],
           UNCHANGED <<runningCount, executionStarted>>,
           pending = <<>> => pending' = <<>>
    PROVE  SlotInv'
<1>0. t[1] \in Runs /\ t[2] \in {"main", "cancel"} /\ t = <<t[1], t[2]>>
  BY DEF Tasks
<1>1. \A r \in Runs :
         at'[<<r, "main">>] = IF t = <<r, "main">> THEN label ELSE at[<<r, "main">>]
  BY DEF Goes, WorkspaceInv, WorkspaceTypes, Tasks
<1>2. ExecutingAt(at') = ExecutingAt(at)
  BY <1>0, <1>1 DEF ExecutingAt
<1>3. Executing' = Executing
  BY <1>2, ExecutingByLabel DEF Executing, ExecutingAt, Resting
<1>4. SlotsFollowRuns'
  BY <1>3 DEF SlotInv, SlotsFollowRuns
<1>5. ExecutingRunsWereStarted'
  BY <1>2 DEF SlotInv, ExecutingRunsWereStarted
<1>6. "none" \notin RunStates
  BY DEF RunStates, TerminalStates
<1>7. NewRunsAreIdle'
  <2>1. CASE state' = state /\ (t[2] = "main" => at[t] # "idle")
    BY <1>0, <1>1, <2>1 DEF SlotInv, NewRunsAreIdle
  <2>2. ASSUME NEW next \in RunStates, state' = [state EXCEPT ![t[1]] = next]
        PROVE  NewRunsAreIdle'
    BY <1>0, <1>1, <1>6, <2>2 DEF SlotInv, NewRunsAreIdle
  <2> QED
    BY <2>1, <2>2
<1> QED
  BY <1>4, <1>5, <1>7 DEF SlotInv

(* Nothing that SlotInv speaks of changes.                                 *)
LEMMA OutsideKeepsSlots ==
    ASSUME SlotInv, UNCHANGED <<state, at, pending, runningCount, executionStarted>>
    PROVE  SlotInv'
  BY DEF SlotInv, SlotsFollowRuns, ExecutingRunsWereStarted, NewRunsAreIdle,
         Executing, ExecutingAt

(* The pieces of execute, between its first record and its last.           *)
LEMMA ExecuteKeepsSlots ==
    ASSUME WorkspaceInv, SlotInv, NEW r \in Runs,
           \/ Prepared(r)
           \/ NextRepository(r)
           \/ RepositoryAnalyzed(r)
           \/ Fails(r)
           \/ Materialize(r)
           \/ BecomeCurrent(r)
           \/ Leave(r)
           \/ CancellationRecorded(<<r, "main">>)
           \/ CancellationOver(r)
    PROVE  SlotInv'
<1> DEFINE t == <<r, "main">>
<1>1. t \in Tasks /\ t[1] = r /\ t[2] = "main"
  BY DEF Tasks
<1>2. at[t] \notin Resting
  BY DEF Prepared, NextRepository, RepositoryAnalyzed, Fails, Materialize,
         BecomeCurrent, Leave, CancellationRecorded, CancellationOver, Returned,
         Resting
<1>3. UNCHANGED <<pending, runningCount, executionStarted>>
  BY DEF Prepared, NextRepository, RepositoryAnalyzed, Fails, Materialize,
         BecomeCurrent, Leave, CancellationRecorded, CancellationOver,
         executeFrame, schedule
<1>4. state[r] \in RunStates
  BY <1>1, <1>2 DEF SlotInv, NewRunsAreIdle, Resting
<1>5. \/ state' = state
      \/ \E next \in RunStates : state' = [state EXCEPT ![r] = next]
  <2> USE DEF RunStates, TerminalStates, memory
  <2>1. CASE Prepared(r)
    BY <2>1 DEF Prepared, FinishCancelled, Transition, Record
  <2>2. CASE NextRepository(r)
    BY <2>2 DEF NextRepository, FinishCancelled, Transition, Record
  <2>3. CASE RepositoryAnalyzed(r)
    BY <1>4, <2>3 DEF RepositoryAnalyzed, Record
  <2>4. CASE Fails(r)
    BY <2>4 DEF Fails, FinishCancelled, Transition, Record
  <2>5. CASE Materialize(r)
    BY <2>5 DEF Materialize, Finalize
  <2>6. CASE BecomeCurrent(r) \/ Leave(r) \/ CancellationOver(r)
    BY <2>6 DEF BecomeCurrent, Leave, CancellationOver
  <2>7. CASE CancellationRecorded(<<r, "main">>)
    BY <2>7 DEF CancellationRecorded, Finalize
  <2> QED
    BY <2>1, <2>2, <2>3, <2>4, <2>5, <2>6, <2>7
<1>6. \E label \in Labels \ Resting : Goes(t, label)
  <2> USE DEF Labels, Resting
  <2>1. CASE Prepared(r)
    BY <2>1 DEF Prepared, FinishCancelled, Transition
  <2>2. CASE NextRepository(r)
    BY <2>2 DEF NextRepository, FinishCancelled, Transition
  <2>3. CASE RepositoryAnalyzed(r)
    BY <2>3 DEF RepositoryAnalyzed
  <2>4. CASE Fails(r)
    BY <2>4 DEF Fails, FinishCancelled, Transition
  <2>5. CASE Materialize(r)
    BY <2>5 DEF Materialize
  <2>6. CASE BecomeCurrent(r) \/ Leave(r) \/ CancellationOver(r)
    BY <2>6 DEF BecomeCurrent, Leave, CancellationOver
  <2>7. CASE CancellationRecorded(<<r, "main">>)
    BY <2>7 DEF CancellationRecorded
  <2> QED
    BY <2>1, <2>2, <2>3, <2>4, <2>5, <2>6, <2>7
<1>7. PICK label \in Labels \ Resting : Goes(t, label)
  BY <1>6
<1>8. label \in Labels \ {"idle"} /\ at[t] # "idle"
  BY <1>2 DEF Resting
<1> HIDE DEF t
<1> QED
  BY <1>1, <1>2, <1>3, <1>5, <1>7, <1>8, TaskKeepsSlots

(* Tasks that hold no slot, and cancel.                                    *)
LEMMA RestingKeepsSlots ==
    ASSUME WorkspaceInv, SlotInv, NEW r \in Runs,
           \/ Start(r)
           \/ StartFails(r)
           \/ ReconcileRun(r)
           \/ RunReconciled(r)
    PROVE  SlotInv'
<1> DEFINE t == <<r, "main">>
<1>1. t \in Tasks /\ t[1] = r /\ t[2] = "main"
  BY DEF Tasks
<1>2. UNCHANGED <<pending, runningCount, executionStarted>>
  BY DEF Start, StartFails, ReconcileRun, RunReconciled, schedule
<1>3. at[t] \in Resting
  BY <1>1 DEF Start, StartFails, ReconcileRun, RunReconciled, Idle, Returned,
              Resting, SlotInv, NewRunsAreIdle
<1>4. \/ state' = state /\ at[t] # "idle"
      \/ \E next \in RunStates : state' = [state EXCEPT ![r] = next]
  BY DEF Start, StartFails, ReconcileRun, RunReconciled, Returned, Record,
         RunStates, TerminalStates, memory
<1>5. PICK label \in {"queued", "done", "reconciling"} : Goes(t, label)
  BY DEF Start, StartFails, ReconcileRun, RunReconciled
<1>6. label \in Labels \ {"idle"} /\ label \in Resting
  BY DEF Labels, Resting
<1> HIDE DEF t
<1> QED
  BY <1>1, <1>2, <1>3, <1>4, <1>5, <1>6, TaskKeepsSlots

LEMMA CancelKeepsSlots ==
    ASSUME WorkspaceInv, SlotInv, NEW r \in Runs,
           \/ Cancel(r)
           \/ CancelRequested(r)
           \/ CancellationRecorded(<<r, "cancel">>)
           \/ CancelFails(r)
    PROVE  SlotInv'
<1> DEFINE t == <<r, "cancel">>
<1>1. t \in Tasks /\ t[1] = r /\ t[2] = "cancel"
  BY DEF Tasks
<1>2. UNCHANGED <<runningCount, executionStarted>>
  BY DEF Cancel, CancelRequested, CancellationRecorded, CancelFails, schedule
<1>3. pending = <<>> => pending' = <<>>
  BY KeptNothing
     DEF Cancel, CancelRequested, CancellationRecorded, CancelFails, schedule
<1>4. \/ state' = state
      \/ \E next \in RunStates : state' = [state EXCEPT ![r] = next]
  BY DEF Cancel, CancelRequested, CancellationRecorded, CancelFails, Record,
         Finalize, RunStates, TerminalStates, memory
<1>5. PICK label \in {"cancelling", "done", "cancelled", "finalizingCancelled"} :
         Goes(t, label)
  BY DEF Cancel, CancelRequested, CancellationRecorded, CancelFails
<1>6. label \in Labels \ {"idle"}
  BY DEF Labels
<1> HIDE DEF t
<1> QED
  BY <1>1, <1>2, <1>3, <1>4, <1>5, <1>6, TaskKeepsSlots


(* What drainQueue does to the states: the run it starts is preparing.     *)
LEMMA DrainStates ==
    ASSUME active \subseteq Runs, NewRunsAreIdle,
           NEW queue, NEW count, NEW label \in [Tasks -> Labels],
           Drain(queue, count, label),
           \A r \in Runs : at[<<r, "main">>] = "idle" => label[<<r, "main">>] = "idle"
    PROVE  NewRunsAreIdle'
<1>1. "preparing" \in RunStates /\ "none" \notin RunStates
  BY DEF RunStates, TerminalStates
<1>2. CASE at' = label /\ state' = state
  BY <1>2 DEF NewRunsAreIdle
<1>3. ASSUME NEW q \in active,
             at' = [label EXCEPT ![<<q, "main">>] = "preparing"],
             state' = [state EXCEPT ![q] = "preparing"]
      PROVE  NewRunsAreIdle'
  <2>1. \A r \in Runs : r # q => at'[<<r, "main">>] = label[<<r, "main">>]
    BY <1>3 DEF Tasks
  <2> QED
    BY <1>1, <1>3, <2>1 DEF NewRunsAreIdle
<1> QED
  BY <1>2, <1>3 DEF Drain, Startable, Record, memory

(* Its three callers: start enqueues a run, ...                            *)
LEMMA EnqueueKeepsSlots ==
    ASSUME WorkspaceInv, SlotInv, NEW r \in Runs, Enqueue(r)
    PROVE  SlotInv'
<1> DEFINE label == [at EXCEPT ![<<r, "main">>] = "pending"]
<1>1. /\ at[<<r, "main">>] = "queued"
      /\ Drain(Append(pending, r), runningCount, label)
  BY DEF Enqueue, Returned
<1>2. label \in [Tasks -> Labels]
  BY DEF WorkspaceInv, WorkspaceTypes, Labels
<1>3. \A q \in Runs :
         label[<<q, "main">>] = IF q = r THEN "pending" ELSE at[<<q, "main">>]
  BY DEF WorkspaceInv, WorkspaceTypes, Tasks
<1> HIDE DEF label
<1>4. ExecutingAt(label) = ExecutingAt(at)
  BY <1>1, <1>3 DEF ExecutingAt, Resting
<1>5. /\ runningCount = Cardinality(ExecutingAt(label))
      /\ runningCount \in Nat
      /\ runningCount <= MaxConcurrentRuns
      /\ \A q \in ExecutingAt(label) : q \in executionStarted
  BY <1>4, ExecutingByLabel, ExecutingIsFinite
     DEF SlotInv, SlotsFollowRuns, ExecutingRunsWereStarted
<1>6. runningCount = MaxConcurrentRuns \/ Append(pending, r) = <<r>>
  <2>1. Append(<<>>, r) = <<r>>
    OBVIOUS
  <2> QED
    BY <2>1 DEF SlotInv, SlotsFollowRuns
<1>7. active \subseteq Runs
  BY DEF WorkspaceInv, WorkspaceTypes
<1>8. SlotsFollowRuns' /\ ExecutingRunsWereStarted'
  BY <1>1, <1>2, <1>5, <1>6, <1>7, DrainKeepsSlots
<1>9. NewRunsAreIdle'
  BY <1>1, <1>2, <1>3, <1>7, DrainStates DEF SlotInv
<1> QED
  BY <1>8, <1>9 DEF SlotInv

(* ... a run that is over gives its slot back, ...                         *)
LEMMA ReleaseKeepsSlots ==
    ASSUME WorkspaceInv, SlotInv, NEW r \in Runs, Release(r)
    PROVE  SlotInv'
<1> DEFINE label == [at EXCEPT ![<<r, "main">>] = "done"]
<1>0. MaxConcurrentRuns \in Nat \ {0}
  BY BoundsAssumption
<1>1. /\ at[<<r, "main">>] = "over"
      /\ Drain(pending, runningCount - 1, label)
  BY DEF Release
<1>2. label \in [Tasks -> Labels]
  BY DEF WorkspaceInv, WorkspaceTypes, Labels
<1>3. \A q \in Runs :
         label[<<q, "main">>] = IF q = r THEN "done" ELSE at[<<q, "main">>]
  BY DEF WorkspaceInv, WorkspaceTypes, Tasks
<1> HIDE DEF label
<1>4. r \in ExecutingAt(at) /\ ExecutingAt(label) = ExecutingAt(at) \ {r}
  BY <1>1, <1>3 DEF ExecutingAt, Resting
<1>5. /\ runningCount \in Nat
      /\ Cardinality(ExecutingAt(label)) \in Nat
      /\ Cardinality(ExecutingAt(label)) = runningCount - 1
  BY <1>4, ExecutingByLabel, ExecutingIsFinite, FS_RemoveElement
     DEF SlotInv, SlotsFollowRuns
<1>6. \A q \in ExecutingAt(label) : q \in executionStarted
  BY <1>4 DEF SlotInv, ExecutingRunsWereStarted
<1>7. /\ runningCount - 1 <= MaxConcurrentRuns
      /\ pending = <<>> \/ runningCount - 1 = MaxConcurrentRuns - 1
  BY <1>0, <1>5 DEF SlotInv, SlotsFollowRuns
<1>8. active \subseteq Runs
  BY DEF WorkspaceInv, WorkspaceTypes
<1>9. SlotsFollowRuns' /\ ExecutingRunsWereStarted'
  BY <1>1, <1>2, <1>5, <1>6, <1>7, <1>8, DrainKeepsSlots
<1>10. NewRunsAreIdle'
  BY <1>1, <1>2, <1>3, <1>8, DrainStates DEF SlotInv
<1> QED
  BY <1>9, <1>10 DEF SlotInv

(* ... and a queued run is cancelled.                                      *)
LEMMA QueuedCancellationKeepsSlots ==
    ASSUME WorkspaceInv, SlotInv, NEW r \in Runs, QueuedCancellationOver(r)
    PROVE  SlotInv'
<1> DEFINE label == [at EXCEPT ![<<r, "cancel">>] = "done"]
<1>1. Drain(pending, runningCount, label)
  BY DEF QueuedCancellationOver
<1>2. label \in [Tasks -> Labels]
  BY DEF WorkspaceInv, WorkspaceTypes, Labels
<1>3. \A q \in Runs : label[<<q, "main">>] = at[<<q, "main">>]
  BY DEF WorkspaceInv, WorkspaceTypes, Tasks
<1>4. active \subseteq Runs /\ active' \subseteq active
  BY DEF WorkspaceInv, WorkspaceTypes, QueuedCancellationOver, Forget
<1> HIDE DEF label
<1>5. ExecutingAt(label) = ExecutingAt(at)
  BY <1>3 DEF ExecutingAt
<1>6. /\ runningCount = Cardinality(ExecutingAt(label))
      /\ runningCount \in Nat
      /\ runningCount <= MaxConcurrentRuns
      /\ \A q \in ExecutingAt(label) : q \in executionStarted
      /\ pending = <<>> \/ runningCount = MaxConcurrentRuns
  BY <1>5, ExecutingByLabel, ExecutingIsFinite
     DEF SlotInv, SlotsFollowRuns, ExecutingRunsWereStarted
<1>7. SlotsFollowRuns' /\ ExecutingRunsWereStarted'
  BY <1>1, <1>2, <1>4, <1>6, DrainKeepsSlots
<1>8. NewRunsAreIdle'
  BY <1>1, <1>2, <1>3, <1>4, DrainStates DEF SlotInv
<1> QED
  BY <1>7, <1>8 DEF SlotInv

LEMMA CrashKeepsSlots ==
    ASSUME SlotInv, Crash
    PROVE  SlotInv'
<1>1. /\ at' = [t \in Tasks |-> "idle"]
      /\ pending' = <<>>
      /\ runningCount' = 0
      /\ state' = state
  BY DEF Crash, memory
<1>2. \A r \in Runs : at'[<<r, "main">>] = "idle"
  BY <1>1 DEF Tasks
<1>3. ExecutingAt(at') = {} /\ Executing' = {}
  BY <1>2 DEF ExecutingAt, Executing, Resting
<1>4. SlotsFollowRuns'
  BY <1>1, <1>3, BoundsAssumption, FS_EmptySet DEF SlotsFollowRuns
<1> QED
  BY <1>1, <1>2, <1>3, <1>4 DEF SlotInv, ExecutingRunsWereStarted, NewRunsAreIdle

LEMMA SlotStep ==
    ASSUME WorkspaceInv, SlotInv, [Next]_vars
    PROVE  SlotInv'
<1>1. CASE \E r \in Runs : Enqueue(r)
  BY <1>1, EnqueueKeepsSlots
<1>2. CASE \E r \in Runs : Release(r)
  BY <1>2, ReleaseKeepsSlots
<1>3. CASE \E r \in Runs : QueuedCancellationOver(r)
  BY <1>3, QueuedCancellationKeepsSlots
<1>4. CASE \E r \in Runs : \/ Start(r)
                         \/ StartFails(r)
                         \/ ReconcileRun(r)
                         \/ RunReconciled(r)
  BY <1>4, RestingKeepsSlots
<1>5. CASE \E r \in Runs : \/ Prepared(r)
                         \/ NextRepository(r)
                         \/ RepositoryAnalyzed(r)
                         \/ Fails(r)
                         \/ Materialize(r)
                         \/ BecomeCurrent(r)
                         \/ Leave(r)
                         \/ CancellationRecorded(<<r, "main">>)
                         \/ CancellationOver(r)
  BY <1>5, ExecuteKeepsSlots
<1>6. CASE \E r \in Runs : \/ Cancel(r)
                         \/ CancelRequested(r)
                         \/ CancellationRecorded(<<r, "cancel">>)
                         \/ CancelFails(r)
  BY <1>6, CancelKeepsSlots
<1>7. CASE Crash
  BY <1>7, CrashKeepsSlots
<1>8. CASE \/ \E t \in Tasks : FileSystem(t)
           \/ \E s \in Subscribers : Stream(s) \/ \E r \in Runs : Subscribe(s, r)
           \/ \E r \in Runs : SelectCurrent(r)
           \/ Selection
           \/ Serve
           \/ UNCHANGED vars
  <2>1. UNCHANGED <<state, at, pending, runningCount, executionStarted>>
    BY <1>8
       DEF FileSystem, WriteManifest, RenameManifest, SerializeEvents, WriteEvents,
           RenameEvents, WriteIntegrity, WriteCurrent, RenameCurrent, Stream, Read,
           Check, Decide, Subscribe, SelectCurrent, Selection, WriteSelected,
           RenameSelected, Serve, vars, schedule, memory
  <2> QED
    BY <2>1, OutsideKeepsSlots
<1> QED
  BY <1>1, <1>2, <1>3, <1>4, <1>5, <1>6, <1>7, <1>8
     DEF Next, Execute, FinishCancel

LEMMA InitSlots == Init => SlotInv
<1> SUFFICES ASSUME Init PROVE SlotInv
  OBVIOUS
<1>1. /\ at = [t \in Tasks |-> "idle"]
      /\ pending = <<>>
      /\ runningCount = 0
      /\ state = [r \in Runs |-> "none"]
  BY DEF Init
<1>2. \A r \in Runs : at[<<r, "main">>] = "idle"
  BY <1>1 DEF Tasks
<1>3. ExecutingAt(at) = {} /\ Executing = {}
  BY <1>2 DEF ExecutingAt, Executing, Resting
<1>4. SlotsFollowRuns
  BY <1>1, <1>3, BoundsAssumption, FS_EmptySet DEF SlotsFollowRuns
<1> QED
  BY <1>1, <1>2, <1>3, <1>4 DEF SlotInv, ExecutingRunsWereStarted, NewRunsAreIdle

(* The two invariants, together.                                           *)
LEMMA SlotInvariant == Spec => [](WorkspaceInv /\ SlotInv)
<1>1. Init => WorkspaceInv /\ SlotInv
  BY InitWorkspace, InitSlots
<1>2. WorkspaceInv /\ SlotInv /\ [Next]_vars => (WorkspaceInv /\ SlotInv)'
  BY WorkspaceStep, SlotStep
<1> QED
  BY <1>1, <1>2, PTL DEF Spec

(* #runningCount is the number of runs whose execute has not settled, the  *)
(* host's limit holds, and no run waits beside a free slot, for any number *)
(* of runs and slots, through failures, cancellations and crashes.         *)
THEOREM SlotsAreCounted == Spec => []SlotsFollowRuns
<1>1. WorkspaceInv /\ SlotInv => SlotsFollowRuns
  BY DEF SlotInv
<1> QED
  BY <1>1, SlotInvariant, PTL


-----------------------------------------------------------------------------
(* Types.  What the types depend on beyond themselves: a run that a task   *)
(* works on has a last event, an analysis still has its repository to      *)
(* count, and a stream has a run.                                          *)

KnownRuns ==
    \A r \in Runs :
        /\ state[r] = "none" => r \notin active /\ at[<<r, "cancel">>] = "idle"
        /\ state[r] # "none" => events[r] # <<>>

AnalysesCount ==
    \A r \in Runs : at[<<r, "main">>] = "analysing" => completed[r] < RepositoryCount

StreamsHaveRuns ==
    \A s \in Subscribers : subscriber[s].stage # "idle" => subscriber[s].run \in Runs

IdleTasksDoNothing == \A t \in Tasks : at[t] = "idle" => io[t] = "none"

TypeInv ==
    /\ TypeOK
    /\ KnownRuns
    /\ IdleTasksDoNothing
    /\ AnalysesCount
    /\ StreamsHaveRuns

RecordTypes ==
    /\ state \in [Runs -> RunStates \union {"none"}]
    /\ events \in [Runs -> Seq(Event)]
    /\ io \in [Tasks -> Stages]
    /\ snapshot \in [Tasks -> Snapshot]
    /\ lines \in [Tasks -> Seq(Event)]

(* A filter of runs is a sequence of runs, and one of events of events.    *)
LEMMA KeptType ==
    ASSUME NEW T, NEW s \in Seq(T), NEW S
    PROVE  Kept(s, S) \in Seq(T)
<1>1. PICK k \in [0 .. Len(s) -> Seq(T)] : Kept(s, S) = k[Len(s)]
  BY KeptStepByStep
<1>2. Len(s) \in 0 .. Len(s)
  OBVIOUS
<1> QED
  BY <1>1, <1>2

(* transition and record, and drainQueue when it starts a run.             *)
LEMMA RecordKeepsTypes ==
    ASSUME RecordTypes, NEW t \in Tasks, NEW next \in RunStates, Record(t, next)
    PROVE  /\ RecordTypes'
           /\ events'[t[1]] # <<>>
           /\ \A r \in Runs : r # t[1] => events'[r] = events[r] /\ state'[r] = state[r]
           /\ state'[t[1]] = next
<1> DEFINE r     == t[1]
           event == [seq |-> Len(events[r]) + 1, state |-> next]
<1>1. r \in Runs
  BY DEF Tasks
<1>2. event \in Event /\ event \in Snapshot
  BY <1>1 DEF Event, Snapshot, RecordTypes
<1>3. /\ state' = [state EXCEPT ![r] = next]
      /\ events' = [events EXCEPT ![r] = Append(@, event)]
      /\ snapshot' = [snapshot EXCEPT ![t] = event]
      /\ io' = [io EXCEPT ![t] = "manifestWrite"]
      /\ lines' = lines
  BY DEF Record
<1> HIDE DEF event, r
<1>4. Append(events[r], event) \in Seq(Event) /\ Append(events[r], event) # <<>>
  <2>1. events[r] \in Seq(Event)
    BY <1>1 DEF RecordTypes
  <2> HIDE DEF Event
  <2> QED
    BY <1>2, <2>1, AppendProperties
<1>5. RecordTypes'
  BY <1>1, <1>2, <1>3, <1>4 DEF RecordTypes, Stages
<1> QED
  BY <1>1, <1>3, <1>4, <1>5 DEF r, RecordTypes

(* finalize writes the last event, if there is one.                        *)
LEMMA FinalizeKeepsTypes ==
    ASSUME RecordTypes, NEW t \in Tasks, events[t[1]] # <<>>, Finalize(t)
    PROVE  RecordTypes'
<1> DEFINE log == events[t[1]]
<1>1. log \in Seq(Event) /\ log # <<>>
  BY DEF RecordTypes, Tasks
<1> HIDE DEF log
<1>2. log[Len(log)] \in Snapshot
  BY <1>1 DEF Snapshot
<1>3. snapshot' = [snapshot EXCEPT ![t] = log[Len(log)]]
  BY DEF Finalize, log
<1> QED
  BY <1>2, <1>3 DEF Finalize, RecordTypes, Stages, memory

(* All that a step can do to the records that are to be written.           *)
RecordEffect ==
    \/ UNCHANGED <<memory, io, snapshot, lines>>
    \/ \E t \in Tasks, next \in RunStates : Record(t, next)
    \/ \E t \in Tasks : state[t[1]] # "none" /\ Finalize(t)
    \/ \E t \in Tasks, stage \in Stages :
          io' = [io EXCEPT ![t] = stage] /\ UNCHANGED <<memory, snapshot, lines>>
    \/ \E t \in Tasks : SerializeEvents(t) \/ WriteEvents(t)
    \/ \E r \in Runs : ReconcileRun(r)
    \/ Crash

LEMMA TaskRecords ==
    ASSUME WorkspaceInv, SlotInv, KnownRuns, NEW r \in Runs,
           Start(r) \/ Execute(r) \/ Cancel(r) \/ FinishCancel(r)
    PROVE  RecordEffect
<1> DEFINE t == <<r, "main">>
           c == <<r, "cancel">>
<1>1. t \in Tasks /\ c \in Tasks /\ t[1] = r /\ c[1] = r
  BY DEF Tasks
<1>2. /\ at[t] # "idle" => state[r] \in RunStates
      /\ at[c] # "idle" => state[r] # "none"
      /\ "none" \notin RunStates
  BY DEF SlotInv, NewRunsAreIdle, KnownRuns, RunStates, TerminalStates
<1>3. {"queued", "preparing", "running", "cancelling", "completed", "failed",
       "cancelled"} \subseteq RunStates
  BY DEF RunStates, TerminalStates
<1>4. {"none", "currentWrite"} \subseteq Stages
  BY DEF Stages
<1> HIDE DEF t, c
<1>5. CASE Start(r)
  BY <1>1, <1>3, <1>5 DEF Start, RecordEffect, t
<1>6. CASE Prepared(r)
  BY <1>1, <1>3, <1>6 DEF Prepared, FinishCancelled, Transition, RecordEffect, t
<1>7. CASE NextRepository(r)
  BY <1>1, <1>3, <1>4, <1>7
     DEF NextRepository, FinishCancelled, Transition, RecordEffect, t
<1>8. CASE RepositoryAnalyzed(r)
  BY <1>1, <1>2, <1>8 DEF RepositoryAnalyzed, RecordEffect, t
<1>9. CASE Fails(r)
  BY <1>1, <1>3, <1>9 DEF Fails, FinishCancelled, Transition, RecordEffect, t
<1>10. CASE Materialize(r)
  BY <1>1, <1>2, <1>10 DEF Materialize, Returned, RecordEffect, t
<1>11. CASE BecomeCurrent(r)
  BY <1>1, <1>4, <1>11 DEF BecomeCurrent, RecordEffect, t
<1>12. CASE CancellationRecorded(<<r, "main">>)
  BY <1>1, <1>2, <1>12 DEF CancellationRecorded, Returned, RecordEffect, t
<1>13. CASE CancellationRecorded(<<r, "cancel">>)
  BY <1>1, <1>2, <1>13 DEF CancellationRecorded, Returned, RecordEffect, c
<1>14. CASE Cancel(r) \/ CancelRequested(r)
  BY <1>1, <1>3, <1>14 DEF Cancel, CancelRequested, RecordEffect, c
<1>15. CASE StartFails(r) \/ Leave(r) \/ CancellationOver(r) \/ CancelFails(r)
  BY <1>15 DEF StartFails, Leave, CancellationOver, CancelFails, RecordEffect
<1>16. CASE Enqueue(r) \/ Release(r) \/ QueuedCancellationOver(r)
  <2>1. PICK queue, count, label : Drain(queue, count, label)
    BY <1>16 DEF Enqueue, Release, QueuedCancellationOver
  <2>2. active \subseteq Runs
    BY DEF WorkspaceInv, WorkspaceTypes
  <2>3. \/ UNCHANGED <<memory, io, snapshot, lines>>
        \/ \E q \in active : Record(<<q, "main">>, "preparing")
    BY <2>1 DEF Drain, Startable
  <2> QED
    BY <1>3, <2>2, <2>3 DEF RecordEffect, Tasks
<1> QED
  BY <1>5, <1>6, <1>7, <1>8, <1>9, <1>10, <1>11, <1>12, <1>13, <1>14, <1>15, <1>16
     DEF Execute, FinishCancel

LEMMA RecordStep ==
    ASSUME WorkspaceInv, SlotInv, KnownRuns, [Next]_vars
    PROVE  RecordEffect
<1>1. CASE \E r \in Runs : Start(r) \/ Execute(r) \/ Cancel(r) \/ FinishCancel(r)
  BY <1>1, TaskRecords
<1>2. ASSUME NEW t \in Tasks, FileSystem(t)
      PROVE  RecordEffect
  <2>1. CASE SerializeEvents(t) \/ WriteEvents(t)
    BY <2>1 DEF RecordEffect
  <2>2. CASE ~(SerializeEvents(t) \/ WriteEvents(t))
    <3>1. /\ \E stage \in Stages : io' = [io EXCEPT ![t] = stage]
          /\ UNCHANGED <<memory, snapshot, lines>>
      BY <1>2, <2>2
         DEF FileSystem, WriteManifest, RenameManifest, RenameEvents,
             WriteIntegrity, WriteCurrent, RenameCurrent, Stages
    <3> QED
      BY <3>1 DEF RecordEffect
  <2> QED
    BY <2>1, <2>2
<1>3. CASE \/ \E s \in Subscribers : Stream(s) \/ \E r \in Runs : Subscribe(s, r)
           \/ \E r \in Runs : SelectCurrent(r) \/ RunReconciled(r)
           \/ Selection
           \/ Serve
           \/ UNCHANGED vars
  <2>1. UNCHANGED <<memory, io, snapshot, lines>>
    BY <1>3
       DEF Stream, Read, Check, Decide, Subscribe, SelectCurrent, RunReconciled,
           Selection, WriteSelected, RenameSelected, Serve, vars
  <2> QED
    BY <2>1 DEF RecordEffect
<1>4. CASE Crash \/ \E r \in Runs : ReconcileRun(r)
  BY <1>4 DEF RecordEffect
<1> QED
  BY <1>1, <1>2, <1>3, <1>4 DEF Next


(* A run that was seen stays so, and has events.                           *)
LEMMA RecordEffectTypes ==
    ASSUME TypeInv, RecordEffect
    PROVE  /\ RecordTypes'
           /\ \A r \in Runs : state'[r] = "none" => state[r] = "none"
           /\ \A r \in Runs : state'[r] # "none" => events'[r] # <<>>
<1>0. RecordTypes /\ KnownRuns
  BY DEF TypeInv, TypeOK, RecordTypes
<1>1. CASE UNCHANGED <<memory, io, snapshot, lines>>
  BY <1>0, <1>1 DEF RecordTypes, KnownRuns, memory
<1>2. ASSUME NEW t \in Tasks, NEW next \in RunStates, Record(t, next)
      PROVE  /\ RecordTypes'
             /\ \A r \in Runs : state'[r] = "none" => state[r] = "none"
             /\ \A r \in Runs : state'[r] # "none" => events'[r] # <<>>
  <2>1. next # "none"
    BY DEF RunStates, TerminalStates
  <2>2. /\ RecordTypes'
        /\ events'[t[1]] # <<>>
        /\ \A r \in Runs : r # t[1] => events'[r] = events[r] /\ state'[r] = state[r]
        /\ state'[t[1]] = next
    BY <1>0, <1>2, RecordKeepsTypes
  <2> QED
    BY <1>0, <2>1, <2>2 DEF KnownRuns
<1>3. ASSUME NEW t \in Tasks, state[t[1]] # "none", Finalize(t)
      PROVE  RecordTypes' /\ UNCHANGED <<state, events>>
  <2>1. events[t[1]] # <<>>
    BY <1>0, <1>3 DEF KnownRuns, Tasks
  <2> QED
    BY <1>0, <1>3, <2>1, FinalizeKeepsTypes DEF Finalize, memory
<1>4. ASSUME NEW t \in Tasks, NEW stage \in Stages,
             io' = [io EXCEPT ![t] = stage], UNCHANGED <<memory, snapshot, lines>>
      PROVE  RecordTypes' /\ UNCHANGED <<state, events>>
  BY <1>0, <1>4 DEF RecordTypes, memory
<1>5. ASSUME NEW t \in Tasks, SerializeEvents(t) \/ WriteEvents(t)
      PROVE  RecordTypes' /\ UNCHANGED <<state, events>>
  <2>1. /\ \E stage \in Stages : io' = [io EXCEPT ![t] = stage]
        /\ \E log \in {events[t[1]], NoLog} : lines' = [lines EXCEPT ![t] = log]
        /\ UNCHANGED <<memory, snapshot>>
    BY <1>5 DEF SerializeEvents, WriteEvents, Stages
  <2>2. events[t[1]] \in Seq(Event) /\ NoLog \in Seq(Event)
    BY <1>0 DEF RecordTypes, Tasks, NoLog
  <2> QED
    BY <1>0, <2>1, <2>2 DEF RecordTypes, memory
<1>6. ASSUME NEW r \in Runs, ReconcileRun(r)
      PROVE  /\ RecordTypes'
             /\ \A q \in Runs : state'[q] = "none" => state[q] = "none"
             /\ \A q \in Runs : state'[q] # "none" => events'[q] # <<>>
  <2> DEFINE t     == <<r, "main">>
             event == [seq |-> manifest[r].seq + 1, state |-> "interrupted"]
  <2>1. t \in Tasks
    BY DEF Tasks
  <2>2. manifest[r].seq \in Nat
    BY DEF TypeInv, TypeOK, Snapshot, Event, Absent
  <2>3. "interrupted" \in RunStates /\ "interrupted" # "none"
    BY DEF RunStates, TerminalStates
  <2>4. event \in Event /\ event \in Snapshot
    BY <2>2, <2>3 DEF Event, Snapshot
  <2>5. /\ state' = [state EXCEPT ![r] = "interrupted"]
        /\ events' = [events EXCEPT ![r] = Append(eventLog[r], event)]
        /\ snapshot' = [snapshot EXCEPT ![t] = event]
        /\ io' = [io EXCEPT ![t] = "manifestWrite"]
        /\ lines' = lines
    BY <1>6 DEF ReconcileRun
  <2> HIDE DEF event, t
  <2>6. eventLog[r] \in Seq(Event)
    BY DEF TypeInv, TypeOK
  <2>7. Append(eventLog[r], event) \in Seq(Event) /\ Append(eventLog[r], event) # <<>>
    BY <2>4, <2>6, AppendProperties
  <2>8. RecordTypes'
    BY <1>0, <2>1, <2>3, <2>4, <2>5, <2>7 DEF RecordTypes, Stages
  <2> QED
    BY <1>0, <2>3, <2>5, <2>7, <2>8 DEF RecordTypes, KnownRuns
<1>7. CASE Crash
  <2>1. /\ UNCHANGED <<state, events>>
        /\ io' = [t \in Tasks |-> "none"]
        /\ snapshot' = [t \in Tasks |-> Absent]
        /\ lines' = [t \in Tasks |-> NoLog]
    BY <1>7 DEF Crash, memory
  <2>2. "none" \in Stages /\ Absent \in Snapshot /\ NoLog \in Seq(Event)
    BY DEF Stages, Snapshot, NoLog
  <2>3. RecordTypes'
    BY <1>0, <2>1, <2>2 DEF RecordTypes
  <2> QED
    BY <1>0, <2>1, <2>3 DEF KnownRuns
<1> QED
  BY <1>0, <1>1, <1>2, <1>3, <1>4, <1>5, <1>6, <1>7 DEF RecordEffect, KnownRuns

(* A task that moves is not idle any more.                                 *)
LEMMA MovedTask ==
    ASSUME at \in [Tasks -> Labels], io \in [Tasks -> Stages],
           NEW u \in Tasks, NEW t \in Tasks, NEW label \in Labels \ {"idle"},
           Goes(t, label),
           io' = io \/ \E stage \in Stages : io' = [io EXCEPT ![t] = stage],
           at'[u] = "idle"
    PROVE  at[u] = "idle" /\ io'[u] = io[u]
  BY DEF Goes

LEMMA DrainedTask ==
    ASSUME at \in [Tasks -> Labels], io \in [Tasks -> Stages], active \subseteq Runs,
           NEW u \in Tasks, NEW t \in Tasks, NEW label \in Labels \ {"idle"},
           NEW queue, NEW count,
           Drain(queue, count, [at EXCEPT ![t] = label]),
           at'[u] = "idle"
    PROVE  at[u] = "idle" /\ io'[u] = io[u]
<1> DEFINE next == [at EXCEPT ![t] = label]
<1>1. next \in [Tasks -> Labels] /\ (next[u] = "idle" => at[u] = "idle")
  OBVIOUS
<1>2. Drain(queue, count, next)
  OBVIOUS
<1> HIDE DEF next
<1>3. \/ at' = next /\ io' = io
      \/ \E q \in active :
            /\ at' = [next EXCEPT ![<<q, "main">>] = "preparing"]
            /\ io' = [io EXCEPT ![<<q, "main">>] = "manifestWrite"]
  BY <1>2 DEF Drain, Startable, Record
<1>4. ASSUME NEW q \in active,
             at' = [next EXCEPT ![<<q, "main">>] = "preparing"],
             io' = [io EXCEPT ![<<q, "main">>] = "manifestWrite"]
      PROVE  at[u] = "idle" /\ io'[u] = io[u]
  <2>1. <<q, "main">> \in Tasks
    BY DEF Tasks
  <2> QED
    BY <1>1, <1>4, <2>1
<1> QED
  BY <1>1, <1>3, <1>4

LEMMA IdleTaskStep ==
    ASSUME WorkspaceInv, TypeInv, [Next]_vars, ~Crash,
           NEW u \in Tasks, at'[u] = "idle"
    PROVE  at[u] = "idle" /\ io'[u] = io[u]
<1>1. /\ at \in [Tasks -> Labels]
      /\ io \in [Tasks -> Stages]
      /\ active \subseteq Runs
  BY DEF TypeInv, TypeOK
<1>2. ASSUME NEW r \in Runs,
             \/ Start(r)
             \/ StartFails(r)
             \/ Prepared(r)
             \/ NextRepository(r)
             \/ RepositoryAnalyzed(r)
             \/ Fails(r)
             \/ Materialize(r)
             \/ BecomeCurrent(r)
             \/ Leave(r)
             \/ CancellationRecorded(<<r, "main">>)
             \/ CancellationOver(r)
             \/ ReconcileRun(r)
             \/ RunReconciled(r)
      PROVE  at[u] = "idle" /\ io'[u] = io[u]
  <2> DEFINE t == <<r, "main">>
  <2>1. t \in Tasks
    BY DEF Tasks
  <2> HIDE DEF t
  <2>2. /\ \E label \in Labels \ {"idle"} : Goes(t, label)
        /\ io' = io \/ \E stage \in Stages : io' = [io EXCEPT ![t] = stage]
    <3> USE DEF Labels, Stages, t, Record, Finalize
    <3>1. CASE Start(r) \/ StartFails(r) \/ ReconcileRun(r) \/ RunReconciled(r)
      BY <3>1 DEF Start, StartFails, ReconcileRun, RunReconciled
    <3>2. CASE Prepared(r)
      BY <3>2 DEF Prepared, FinishCancelled, Transition
    <3>3. CASE NextRepository(r)
      BY <3>3 DEF NextRepository, FinishCancelled, Transition
    <3>4. CASE RepositoryAnalyzed(r)
      BY <3>4 DEF RepositoryAnalyzed
    <3>5. CASE Fails(r)
      BY <3>5 DEF Fails, FinishCancelled, Transition
    <3>6. CASE Materialize(r) \/ BecomeCurrent(r) \/ Leave(r)
      BY <3>6 DEF Materialize, BecomeCurrent, Leave
    <3>7. CASE CancellationRecorded(<<r, "main">>) \/ CancellationOver(r)
      BY <3>7 DEF CancellationRecorded, CancellationOver
    <3> QED
      BY <1>2, <3>1, <3>2, <3>3, <3>4, <3>5, <3>6, <3>7
  <2> QED
    BY <1>1, <2>1, <2>2, MovedTask
<1>3. ASSUME NEW r \in Runs,
             \/ Cancel(r)
             \/ CancelRequested(r)
             \/ CancellationRecorded(<<r, "cancel">>)
             \/ CancelFails(r)
      PROVE  at[u] = "idle" /\ io'[u] = io[u]
  <2> DEFINE t == <<r, "cancel">>
  <2>1. t \in Tasks
    BY DEF Tasks
  <2> HIDE DEF t
  <2>2. /\ \E label \in Labels \ {"idle"} : Goes(t, label)
        /\ io' = io \/ \E stage \in Stages : io' = [io EXCEPT ![t] = stage]
    BY <1>3
       DEF Cancel, CancelRequested, CancellationRecorded, CancelFails, Labels,
           Stages, t, Record, Finalize
  <2> QED
    BY <1>1, <2>1, <2>2, MovedTask
<1>4. ASSUME NEW r \in Runs, Enqueue(r) \/ Release(r) \/ QueuedCancellationOver(r)
      PROVE  at[u] = "idle" /\ io'[u] = io[u]
  <2>1. {<<r, "main">>, <<r, "cancel">>} \subseteq Tasks
    BY DEF Tasks
  <2>2. {"pending", "done"} \subseteq Labels \ {"idle"}
    BY DEF Labels
  <2>3. CASE Enqueue(r)
    <3>1. Drain(Append(pending, r), runningCount, [at EXCEPT ![<<r, "main">>] = "pending"])
      BY <2>3 DEF Enqueue
    <3> QED
      BY <1>1, <2>1, <2>2, <3>1, DrainedTask
  <2>4. CASE Release(r)
    <3>1. Drain(pending, runningCount - 1, [at EXCEPT ![<<r, "main">>] = "done"])
      BY <2>4 DEF Release
    <3> QED
      BY <1>1, <2>1, <2>2, <3>1, DrainedTask
  <2>5. CASE QueuedCancellationOver(r)
    <3>1. Drain(pending, runningCount, [at EXCEPT ![<<r, "cancel">>] = "done"])
      BY <2>5 DEF QueuedCancellationOver
    <3> QED
      BY <1>1, <2>1, <2>2, <3>1, DrainedTask
  <2> QED
    BY <1>4, <2>3, <2>4, <2>5
<1>5. ASSUME NEW t \in Tasks, FileSystem(t)
      PROVE  at[u] = "idle" /\ io'[u] = io[u]
  <2>1. io[t] # "none" /\ at' = at /\ \E stage \in Stages : io' = [io EXCEPT ![t] = stage]
    BY <1>5
       DEF FileSystem, WriteManifest, RenameManifest, SerializeEvents, WriteEvents,
           RenameEvents, WriteIntegrity, WriteCurrent, RenameCurrent, Stages
  <2> QED
    BY <1>1, <2>1 DEF TypeInv, IdleTasksDoNothing
<1>6. CASE \/ \E s \in Subscribers : Stream(s) \/ \E r \in Runs : Subscribe(s, r)
           \/ \E r \in Runs : SelectCurrent(r)
           \/ Selection
           \/ Serve
           \/ UNCHANGED vars
  BY <1>6
     DEF Stream, Read, Check, Decide, Subscribe, SelectCurrent, Selection,
         WriteSelected, RenameSelected, Serve, vars
<1> QED
  BY <1>2, <1>3, <1>4, <1>5, <1>6 DEF Next, Execute, FinishCancel

(* start is what makes a run active, and cancel begins with an active one. *)
LEMMA KnownStep ==
    ASSUME WorkspaceInv, SlotInv, TypeInv, [Next]_vars
    PROVE  RecordTypes' /\ KnownRuns'
<1>1. /\ RecordTypes'
      /\ \A r \in Runs : state'[r] = "none" => state[r] = "none"
      /\ \A r \in Runs : state'[r] # "none" => events'[r] # <<>>
  BY RecordStep, RecordEffectTypes DEF TypeInv
<1>2. SUFFICES ASSUME NEW q \in Runs, state'[q] = "none"
               PROVE  q \notin active' /\ at'[<<q, "cancel">>] = "idle"
  BY <1>1 DEF KnownRuns
<1>3. /\ state[q] = "none"
      /\ q \notin active
      /\ at[<<q, "cancel">>] = "idle"
      /\ at[<<q, "main">>] = "idle"
      /\ at \in [Tasks -> Labels]
      /\ active \subseteq Runs
      /\ "none" \notin RunStates
  BY <1>1, <1>2
     DEF TypeInv, KnownRuns, SlotInv, NewRunsAreIdle, WorkspaceInv, WorkspaceTypes,
         RunStates, TerminalStates
<1>4. ASSUME NEW r \in Runs, Start(r)
      PROVE  q \notin active' /\ at'[<<q, "cancel">>] = "idle"
  <2>1. state'[r] = "queued"
    BY <1>4 DEF Start, Record, TypeInv, TypeOK
  <2>2. r # q
    BY <1>2, <2>1
  <2> QED
    BY <1>3, <1>4, <2>2 DEF Start, Goes, Tasks
<1>5. ASSUME NEW r \in Runs, Enqueue(r) \/ Release(r) \/ QueuedCancellationOver(r)
      PROVE  q \notin active' /\ at'[<<q, "cancel">>] = "idle"
  <2>1. active' \subseteq active
    BY <1>5 DEF Enqueue, Release, QueuedCancellationOver, Forget
  <2>2. \E label \in [Tasks -> Labels] :
           /\ label[<<q, "cancel">>] = "idle"
           /\ at' = label \/ \E p \in active : at' = [label EXCEPT ![<<p, "main">>] = "preparing"]
    <3>1. CASE Enqueue(r)
      <4> DEFINE label == [at EXCEPT ![<<r, "main">>] = "pending"]
      <4>1. label \in [Tasks -> Labels] /\ label[<<q, "cancel">>] = "idle"
        BY <1>3 DEF Tasks, Labels
      <4>2. Drain(Append(pending, r), runningCount, label)
        BY <3>1 DEF Enqueue
      <4> HIDE DEF label
      <4> QED
        BY <4>1, <4>2 DEF Drain, Startable
    <3>2. CASE Release(r)
      <4> DEFINE label == [at EXCEPT ![<<r, "main">>] = "done"]
      <4>1. label \in [Tasks -> Labels] /\ label[<<q, "cancel">>] = "idle"
        BY <1>3 DEF Tasks, Labels
      <4>2. Drain(pending, runningCount - 1, label)
        BY <3>2 DEF Release
      <4> HIDE DEF label
      <4> QED
        BY <4>1, <4>2 DEF Drain, Startable
    <3>3. CASE QueuedCancellationOver(r)
      <4> DEFINE label == [at EXCEPT ![<<r, "cancel">>] = "done"]
      <4>1. at[<<r, "cancel">>] # "idle"
        BY <3>3 DEF QueuedCancellationOver, Returned
      <4>2. label \in [Tasks -> Labels] /\ label[<<q, "cancel">>] = "idle"
        BY <1>3, <4>1 DEF Tasks, Labels
      <4>3. Drain(pending, runningCount, label)
        BY <3>3 DEF QueuedCancellationOver
      <4> HIDE DEF label
      <4> QED
        BY <4>2, <4>3 DEF Drain, Startable
    <3> QED
      BY <1>5, <3>1, <3>2, <3>3
  <2> QED
    BY <1>3, <2>1, <2>2 DEF Tasks
<1>6. ASSUME NEW r \in Runs,
             \/ Cancel(r)
             \/ CancelRequested(r)
             \/ CancellationRecorded(<<r, "cancel">>)
             \/ CancelFails(r)
      PROVE  q \notin active' /\ at'[<<q, "cancel">>] = "idle"
  <2>1. active' = active
    BY <1>6 DEF Cancel, CancelRequested, CancellationRecorded, CancelFails, schedule
  <2>2. \E label : at' = [at EXCEPT ![<<r, "cancel">>] = label]
    BY <1>6 DEF Cancel, CancelRequested, CancellationRecorded, CancelFails, Goes
  <2>3. r \in active \/ at[<<r, "cancel">>] # "idle"
    <3>1. CASE Cancel(r)
      BY <3>1 DEF Cancel
    <3>2. CASE CancelRequested(r) \/ CancellationRecorded(<<r, "cancel">>)
      BY <3>2 DEF CancelRequested, CancellationRecorded, Returned
    <3>3. CASE CancelFails(r)
      BY <3>3 DEF CancelFails, TypeInv, IdleTasksDoNothing, Tasks
    <3> QED
      BY <1>6, <3>1, <3>2, <3>3
  <2> QED
    BY <1>3, <2>1, <2>2, <2>3 DEF Tasks
<1>7. ASSUME NEW r \in Runs,
             \/ StartFails(r)
             \/ Prepared(r)
             \/ NextRepository(r)
             \/ RepositoryAnalyzed(r)
             \/ Fails(r)
             \/ Materialize(r)
             \/ BecomeCurrent(r)
             \/ Leave(r)
             \/ CancellationRecorded(<<r, "main">>)
             \/ CancellationOver(r)
             \/ ReconcileRun(r)
             \/ RunReconciled(r)
      PROVE  q \notin active' /\ at'[<<q, "cancel">>] = "idle"
  <2>1. active' \subseteq active
    BY <1>7
       DEF StartFails, Prepared, NextRepository, RepositoryAnalyzed, Fails,
           Materialize, BecomeCurrent, Leave, CancellationRecorded,
           CancellationOver, ReconcileRun, RunReconciled, FinishCancelled,
           Transition, Forget, schedule
  <2>2. \E label : at' = [at EXCEPT ![<<r, "main">>] = label]
    BY <1>7
       DEF StartFails, Prepared, NextRepository, RepositoryAnalyzed, Fails,
           Materialize, BecomeCurrent, Leave, CancellationRecorded,
           CancellationOver, ReconcileRun, RunReconciled, FinishCancelled,
           Transition, Goes
  <2> QED
    BY <1>3, <2>1, <2>2 DEF Tasks
<1>8. CASE \/ \E t \in Tasks : FileSystem(t)
           \/ \E s \in Subscribers : Stream(s) \/ \E r \in Runs : Subscribe(s, r)
           \/ \E r \in Runs : SelectCurrent(r)
           \/ Selection
           \/ Serve
           \/ UNCHANGED vars
  <2>1. UNCHANGED <<active, at>>
    BY <1>8
       DEF FileSystem, WriteManifest, RenameManifest, SerializeEvents, WriteEvents,
           RenameEvents, WriteIntegrity, WriteCurrent, RenameCurrent, Stream, Read,
           Check, Decide, Subscribe, SelectCurrent, Selection, WriteSelected,
           RenameSelected, Serve, vars, schedule
  <2> QED
    BY <1>3, <2>1
<1>9. CASE Crash
  BY <1>9 DEF Crash, Tasks
<1> QED
  BY <1>4, <1>5, <1>6, <1>7, <1>8, <1>9 DEF Next, Execute, FinishCancel


LEMMA IdleStaysIdle ==
    ASSUME WorkspaceInv, TypeInv, [Next]_vars
    PROVE  IdleTasksDoNothing'
<1>1. CASE Crash
  BY <1>1 DEF Crash, IdleTasksDoNothing
<1>2. CASE ~Crash
  BY <1>2, IdleTaskStep DEF IdleTasksDoNothing, TypeInv
<1> QED
  BY <1>1, <1>2

ScheduleTypes ==
    /\ cancelled \subseteq Runs
    /\ executionStarted \subseteq Runs
    /\ completed \in [Runs -> 0 .. RepositoryCount]
    /\ pending \in Seq(Runs)

(* drainQueue takes runs from the queue in order, and leaves a queue.      *)
LEMMA DrainKeepsQueue ==
    ASSUME executionStarted \subseteq Runs, active \subseteq Runs,
           NEW queue \in Seq(Runs), NEW count, NEW label,
           Drain(queue, count, label)
    PROVE  pending' \in Seq(Runs) /\ executionStarted' \subseteq Runs
<1>1. CASE /\ pending' \in {queue, <<>>}
           /\ executionStarted' = executionStarted
  <2>1. <<>> \in Seq(Runs)
    OBVIOUS
  <2> QED
    BY <1>1, <2>1
<1>2. ASSUME NEW i \in DOMAIN queue,
             pending' = SubSeq(queue, i + 1, Len(queue)),
             executionStarted' = executionStarted \union {queue[i]}
      PROVE  pending' \in Seq(Runs) /\ executionStarted' \subseteq Runs
  <2>1. i \in 1 .. Len(queue) /\ Len(queue) \in Nat
    OBVIOUS
  <2>2. queue[i] \in Runs
    BY <2>1
  <2>3. \A j \in i + 1 .. Len(queue) : queue[j] \in Runs
    BY <2>1
  <2>4. SubSeq(queue, i + 1, Len(queue)) \in Seq(Runs)
    BY <2>1, <2>3, SubSeqProperties
  <2> QED
    BY <1>2, <2>2, <2>4
<1> QED
  BY <1>1, <1>2 DEF Drain

LEMMA ScheduleStep ==
    ASSUME WorkspaceInv, TypeInv, [Next]_vars
    PROVE  ScheduleTypes' /\ AnalysesCount'
<1>1. /\ ScheduleTypes
      /\ AnalysesCount
      /\ active \subseteq Runs
      /\ at \in [Tasks -> Labels]
      /\ RepositoryCount \in Nat \ {0}
  BY BoundsAssumption DEF TypeInv, TypeOK, ScheduleTypes
<1>2. ASSUME NEW r \in Runs, Enqueue(r) \/ Release(r) \/ QueuedCancellationOver(r)
      PROVE  ScheduleTypes' /\ AnalysesCount'
  <2>1. completed' = completed /\ cancelled' = cancelled
    BY <1>2 DEF Enqueue, Release, QueuedCancellationOver
  <2>2. pending \in Seq(Runs) /\ Append(pending, r) \in Seq(Runs)
    BY <1>1, AppendProperties DEF ScheduleTypes
  <2>3. ASSUME NEW queue \in Seq(Runs), NEW count, NEW label \in [Tasks -> Labels],
               Drain(queue, count, label),
               \A q \in Runs : label[<<q, "main">>] = "analysing" =>
                               at[<<q, "main">>] = "analysing"
        PROVE  ScheduleTypes' /\ AnalysesCount'
    <3>1. pending' \in Seq(Runs) /\ executionStarted' \subseteq Runs
      BY <1>1, <2>3, DrainKeepsQueue DEF ScheduleTypes
    <3>2. at' = label \/ \E p \in active : at' = [label EXCEPT ![<<p, "main">>] = "preparing"]
      BY <2>3 DEF Drain, Startable
    <3> QED
      BY <1>1, <2>1, <2>3, <3>1, <3>2 DEF ScheduleTypes, AnalysesCount, Tasks
  <2>4. CASE Enqueue(r)
    <3> DEFINE label == [at EXCEPT ![<<r, "main">>] = "pending"]
    <3>1. /\ label \in [Tasks -> Labels]
          /\ \A q \in Runs : label[<<q, "main">>] = "analysing" =>
                               at[<<q, "main">>] = "analysing"
      BY <1>1 DEF Tasks, Labels
    <3>2. Drain(Append(pending, r), runningCount, label)
      BY <2>4 DEF Enqueue
    <3> HIDE DEF label
    <3> QED
      BY <2>2, <2>3, <3>1, <3>2
  <2>5. CASE Release(r)
    <3> DEFINE label == [at EXCEPT ![<<r, "main">>] = "done"]
    <3>1. /\ label \in [Tasks -> Labels]
          /\ \A q \in Runs : label[<<q, "main">>] = "analysing" =>
                               at[<<q, "main">>] = "analysing"
      BY <1>1 DEF Tasks, Labels
    <3>2. Drain(pending, runningCount - 1, label)
      BY <2>5 DEF Release
    <3> HIDE DEF label
    <3> QED
      BY <2>2, <2>3, <3>1, <3>2
  <2>6. CASE QueuedCancellationOver(r)
    <3> DEFINE label == [at EXCEPT ![<<r, "cancel">>] = "done"]
    <3>1. /\ label \in [Tasks -> Labels]
          /\ \A q \in Runs : label[<<q, "main">>] = "analysing" =>
                               at[<<q, "main">>] = "analysing"
      BY <1>1 DEF Tasks, Labels
    <3>2. Drain(pending, runningCount, label)
      BY <2>6 DEF QueuedCancellationOver
    <3> HIDE DEF label
    <3> QED
      BY <2>2, <2>3, <3>1, <3>2
  <2> QED
    BY <1>2, <2>4, <2>5, <2>6
<1>3. ASSUME NEW r \in Runs, RepositoryAnalyzed(r)
      PROVE  ScheduleTypes' /\ AnalysesCount'
  <2>1. /\ at[<<r, "main">>] = "analysing"
        /\ completed' = [completed EXCEPT ![r] = @ + 1]
        /\ at' = [at EXCEPT ![<<r, "main">>] = "covering"]
        /\ UNCHANGED <<cancelled, executionStarted, pending>>
    BY <1>3 DEF RepositoryAnalyzed, Goes, executeFrame
  <2>2. completed[r] + 1 \in 0 .. RepositoryCount
    BY <1>1, <2>1 DEF AnalysesCount, ScheduleTypes
  <2> QED
    BY <1>1, <2>1, <2>2 DEF ScheduleTypes, AnalysesCount, Tasks
<1>4. ASSUME NEW r \in Runs,
             \/ Start(r)
             \/ StartFails(r)
             \/ Prepared(r)
             \/ NextRepository(r)
             \/ Fails(r)
             \/ Materialize(r)
             \/ BecomeCurrent(r)
             \/ Leave(r)
             \/ CancellationRecorded(<<r, "main">>)
             \/ CancellationOver(r)
             \/ ReconcileRun(r)
             \/ RunReconciled(r)
      PROVE  ScheduleTypes' /\ AnalysesCount'
  <2>1. UNCHANGED <<cancelled, executionStarted, completed, pending>>
    BY <1>4
       DEF Start, StartFails, Prepared, NextRepository, Fails, Materialize,
           BecomeCurrent, Leave, CancellationRecorded, CancellationOver,
           ReconcileRun, RunReconciled, executeFrame, schedule
  <2>2. \E label : /\ at' = [at EXCEPT ![<<r, "main">>] = label]
                   /\ label = "analysing" => completed[r] < RepositoryCount
    <3>1. CASE NextRepository(r)
      BY <3>1 DEF NextRepository, FinishCancelled, Transition, Goes
    <3>2. CASE Prepared(r) \/ Fails(r)
      BY <3>2 DEF Prepared, Fails, FinishCancelled, Transition, Goes
    <3>3. CASE Materialize(r) \/ BecomeCurrent(r) \/ Leave(r)
      BY <3>3 DEF Materialize, BecomeCurrent, Leave, Goes
    <3>4. CASE CancellationRecorded(<<r, "main">>) \/ CancellationOver(r)
      BY <3>4 DEF CancellationRecorded, CancellationOver, Goes
    <3>5. CASE Start(r) \/ StartFails(r) \/ ReconcileRun(r) \/ RunReconciled(r)
      BY <3>5 DEF Start, StartFails, ReconcileRun, RunReconciled, Goes
    <3> QED
      BY <1>4, <3>1, <3>2, <3>3, <3>4, <3>5
  <2> QED
    BY <1>1, <2>1, <2>2 DEF ScheduleTypes, AnalysesCount, Tasks
<1>5. ASSUME NEW r \in Runs,
             \/ Cancel(r)
             \/ CancelRequested(r)
             \/ CancellationRecorded(<<r, "cancel">>)
             \/ CancelFails(r)
      PROVE  ScheduleTypes' /\ AnalysesCount'
  <2>1. /\ UNCHANGED <<executionStarted, completed>>
        /\ cancelled' \in {cancelled, cancelled \union {r}}
        /\ pending' \in {pending, Kept(pending, Runs \ {r})}
        /\ \E label : at' = [at EXCEPT ![<<r, "cancel">>] = label]
    BY <1>5
       DEF Cancel, CancelRequested, CancellationRecorded, CancelFails, Goes, schedule
  <2>2. pending' \in Seq(Runs)
    BY <1>1, <2>1, KeptType DEF ScheduleTypes
  <2> QED
    BY <1>1, <2>1, <2>2 DEF ScheduleTypes, AnalysesCount, Tasks
<1>6. CASE Crash
  BY <1>1, <1>6 DEF Crash, ScheduleTypes, AnalysesCount, Tasks
<1>7. CASE \/ \E t \in Tasks : FileSystem(t)
           \/ \E s \in Subscribers : Stream(s) \/ \E r \in Runs : Subscribe(s, r)
           \/ \E r \in Runs : SelectCurrent(r)
           \/ Selection
           \/ Serve
           \/ UNCHANGED vars
  <2>1. UNCHANGED <<at, cancelled, executionStarted, completed, pending>>
    BY <1>7
       DEF FileSystem, WriteManifest, RenameManifest, SerializeEvents, WriteEvents,
           RenameEvents, WriteIntegrity, WriteCurrent, RenameCurrent, Stream, Read,
           Check, Decide, Subscribe, SelectCurrent, Selection, WriteSelected,
           RenameSelected, Serve, vars, schedule
  <2> QED
    BY <1>1, <2>1 DEF ScheduleTypes, AnalysesCount
<1> QED
  BY <1>2, <1>3, <1>4, <1>5, <1>6, <1>7 DEF Next, Execute, FinishCancel

FileTypes ==
    /\ manifest \in [Runs -> Snapshot]
    /\ eventLog \in [Runs -> Seq(Event)]
    /\ sealed \in [Runs -> Snapshot \X Seq(Event)]
    /\ manifestTmp \in [Runs -> Snapshot]
    /\ eventLogTmp \in [Runs -> Seq(Event)]
    /\ current \in [Engagements -> Runs \union {None}]
    /\ currentTmp \in [Engagements -> Runs \union {None}]

OperatorTypes ==
    /\ selecting \in [Engagements ->
          [run : Runs \union {None}, stage : {"none", "write", "rename"}]]
    /\ selections \in 0 .. MaxSelections

(* What is not a file operation leaves the files alone.                    *)
LEMMA MemoryStep ==
    ASSUME NEW r \in Runs,
           \/ Start(r)
           \/ Execute(r)
           \/ Cancel(r)
           \/ FinishCancel(r)
           \/ ReconcileRun(r)
           \/ RunReconciled(r)
    PROVE  UNCHANGED <<files, pointer, operator, host>>
<1>1. CASE \/ Start(r)
           \/ Cancel(r)
           \/ ReconcileRun(r)
           \/ RunReconciled(r)
           \/ Enqueue(r)
           \/ StartFails(r)
           \/ CancellationRecorded(<<r, "main">>)
           \/ CancellationOver(r)
           \/ Release(r)
           \/ FinishCancel(r)
  BY <1>1
     DEF Start, Cancel, ReconcileRun, RunReconciled, Enqueue, StartFails,
         CancellationRecorded, CancellationOver, Release, FinishCancel,
         CancelRequested, QueuedCancellationOver, CancelFails
<1>2. CASE \/ Prepared(r)
           \/ NextRepository(r)
           \/ RepositoryAnalyzed(r)
           \/ Fails(r)
           \/ Materialize(r)
           \/ BecomeCurrent(r)
           \/ Leave(r)
  BY <1>2
     DEF Prepared, NextRepository, RepositoryAnalyzed, Fails, Materialize,
         BecomeCurrent, Leave, executeFrame
<1> QED
  BY <1>1, <1>2 DEF Execute

LEMMA FileStep ==
    ASSUME TypeInv, [Next]_vars
    PROVE  FileTypes' /\ OperatorTypes'
<1>1. FileTypes /\ OperatorTypes
  BY DEF TypeInv, TypeOK, FileTypes, OperatorTypes
<1>2. ASSUME UNCHANGED <<files, pointer, operator>>
      PROVE  FileTypes' /\ OperatorTypes'
  BY <1>1, <1>2 DEF FileTypes, OperatorTypes, files, pointer, operator
<1>3. ASSUME NEW t \in Tasks, FileSystem(t)
      PROVE  FileTypes' /\ OperatorTypes'
  <2>1. /\ t[1] \in Runs
        /\ EngagementOf[t[1]] \in Engagements
        /\ snapshot[t] \in Snapshot
        /\ lines[t] \in Seq(Event)
        /\ NoLog \in Seq(Event)
        /\ Absent \in Snapshot
    BY BoundsAssumption DEF Tasks, TypeInv, TypeOK, NoLog, Snapshot
  <2> HIDE DEF Snapshot, Event
  <2>2. OperatorTypes'
    BY <1>1, <1>3
       DEF FileSystem, WriteManifest, RenameManifest, SerializeEvents, WriteEvents,
           RenameEvents, WriteIntegrity, WriteCurrent, RenameCurrent,
           OperatorTypes, operator
  <2>3. CASE WriteManifest(t)
    BY <1>1, <2>1, <2>2, <2>3 DEF WriteManifest, FileTypes, pointer
  <2>4. CASE RenameManifest(t)
    BY <1>1, <2>1, <2>2, <2>4 DEF RenameManifest, FileTypes, pointer
  <2>5. CASE SerializeEvents(t)
    BY <1>1, <2>1, <2>2, <2>5 DEF SerializeEvents, FileTypes, files, pointer
  <2>6. CASE WriteEvents(t)
    BY <1>1, <2>1, <2>2, <2>6 DEF WriteEvents, FileTypes, pointer
  <2>7. CASE RenameEvents(t)
    BY <1>1, <2>1, <2>2, <2>7 DEF RenameEvents, FileTypes, pointer
  <2>8. CASE WriteIntegrity(t)
    BY <1>1, <2>1, <2>2, <2>8 DEF WriteIntegrity, FileTypes, pointer
  <2>9. CASE WriteCurrent(t)
    BY <1>1, <2>1, <2>2, <2>9 DEF WriteCurrent, FileTypes, files
  <2>10. CASE RenameCurrent(t)
    BY <1>1, <2>1, <2>2, <2>10 DEF RenameCurrent, FileTypes, files, pointer
  <2> QED
    BY <1>3, <2>2, <2>3, <2>4, <2>5, <2>6, <2>7, <2>8, <2>9, <2>10 DEF FileSystem
<1>4. ASSUME NEW r \in Runs, SelectCurrent(r)
      PROVE  FileTypes' /\ OperatorTypes'
  BY <1>1, <1>4, BoundsAssumption
     DEF SelectCurrent, FileTypes, OperatorTypes, files, pointer
<1>5. CASE Selection
  <2>1. PICK e \in Engagements : WriteSelected(e) \/ RenameSelected(e)
    BY <1>5 DEF Selection
  <2>2. /\ selecting[e] \in [run : Runs \union {None}, stage : {"none", "write", "rename"}]
        /\ selecting[e].run \in Runs \union {None}
    BY <1>1 DEF OperatorTypes
  <2>3. OperatorTypes'
    BY <1>1, <2>1, <2>2 DEF WriteSelected, RenameSelected, OperatorTypes
  <2>4. FileTypes'
    BY <1>1, <2>1, <2>2 DEF WriteSelected, RenameSelected, FileTypes, files, pointer
  <2> QED
    BY <2>3, <2>4
<1>6. CASE \/ \E s \in Subscribers : Stream(s) \/ \E r \in Runs : Subscribe(s, r)
           \/ Serve
           \/ UNCHANGED vars
  BY <1>2, <1>6 DEF Stream, Read, Check, Decide, Subscribe, Serve, vars
<1>7. CASE Crash
  BY <1>1, <1>7 DEF Crash, FileTypes, OperatorTypes, files, pointer
<1>8. CASE \E r \in Runs : \/ Start(r)
                         \/ Execute(r)
                         \/ Cancel(r)
                         \/ FinishCancel(r)
                         \/ ReconcileRun(r)
                         \/ RunReconciled(r)
  BY <1>2, <1>8, MemoryStep
<1> QED
  BY <1>3, <1>4, <1>5, <1>6, <1>7, <1>8 DEF Next


ClientTypes ==
    /\ subscriber \in [Subscribers ->
          [run : Runs \union {None},
           stage : {"idle", "reading", "checking", "deciding", "waiting",
                    "ended", "lost"},
           saw : RunStates \union {"none"}]]
    /\ received \in [Subscribers -> Seq(Nat)]
    /\ StreamsHaveRuns

LEMMA NotifyKeepsClients ==
    ASSUME ClientTypes, NEW r, Notify(r)
    PROVE  ClientTypes'
  BY DEF ClientTypes, Notify, StreamsHaveRuns

(* The tasks do nothing to the streams but to notify them.                 *)
LEMMA TasksNotify ==
    ASSUME NEW r \in Runs,
           \/ Start(r)
           \/ Execute(r)
           \/ Cancel(r)
           \/ FinishCancel(r)
           \/ ReconcileRun(r)
           \/ RunReconciled(r)
    PROVE  UNCHANGED clients \/ Notify(r)
<1>1. CASE \/ Start(r)
           \/ Cancel(r)
           \/ ReconcileRun(r)
           \/ RunReconciled(r)
           \/ Enqueue(r)
           \/ StartFails(r)
           \/ CancellationRecorded(<<r, "main">>)
           \/ CancellationOver(r)
           \/ Release(r)
           \/ FinishCancel(r)
  BY <1>1
     DEF Start, Cancel, ReconcileRun, RunReconciled, Enqueue, StartFails,
         CancellationRecorded, CancellationOver, Release, FinishCancel,
         CancelRequested, QueuedCancellationOver, CancelFails, Forget
<1>2. CASE \/ Prepared(r)
           \/ NextRepository(r)
           \/ RepositoryAnalyzed(r)
           \/ Fails(r)
  BY <1>2
     DEF Prepared, NextRepository, RepositoryAnalyzed, Fails, FinishCancelled,
         Forget
<1>3. CASE Materialize(r) \/ BecomeCurrent(r) \/ Leave(r)
  BY <1>3 DEF Materialize, BecomeCurrent, Leave, Forget
<1> QED
  BY <1>1, <1>2, <1>3 DEF Execute

(* What a stream is given are the sequence numbers of events.              *)
LEMMA ReadKeepsTypes ==
    ASSUME TypeInv, NEW s \in Subscribers, Read(s)
    PROVE  ClientTypes'
<1> DEFINE r      == subscriber[s].run
           log    == IF r \in active THEN events[r] ELSE eventLog[r]
           last   == IF received[s] = <<>> THEN 0 ELSE received[s][Len(received[s])]
           unseen == Kept(log, {event \in Event : event.seq > last})
           given  == [i \in DOMAIN unseen |-> unseen[i].seq]
<1>1. ClientTypes
  BY DEF TypeInv, TypeOK, ClientTypes
<1>2. r \in Runs
  BY <1>1 DEF Read, ClientTypes, StreamsHaveRuns
<1>3. log \in Seq(Event)
  BY <1>2 DEF TypeInv, TypeOK
<1>4. /\ received' = [received EXCEPT ![s] = @ \o given]
      /\ subscriber' = [subscriber EXCEPT ![s].stage = "checking"]
  BY DEF Read
<1> HIDE DEF log, last
<1>5. unseen \in Seq(Event)
  BY <1>3, KeptType
<1> HIDE DEF unseen
<1>6. given \in Seq(Nat)
  <2>1. /\ DOMAIN unseen = 1 .. Len(unseen)
        /\ Len(unseen) \in Nat
        /\ \A i \in 1 .. Len(unseen) : unseen[i] \in Event
    BY <1>5
  <2>2. \A i \in 1 .. Len(unseen) : unseen[i].seq \in Nat
    BY <2>1 DEF Event
  <2> QED
    BY <2>1, <2>2, IsASeq
<1> HIDE DEF given
<1>7. received[s] \o given \in Seq(Nat)
  BY <1>1, <1>6, ConcatProperties DEF ClientTypes
<1>8. received' \in [Subscribers -> Seq(Nat)]
  BY <1>1, <1>4, <1>7 DEF ClientTypes
<1> QED
  BY <1>1, <1>2, <1>4, <1>8 DEF ClientTypes, StreamsHaveRuns

LEMMA ClientStep ==
    ASSUME TypeInv, [Next]_vars
    PROVE  ClientTypes'
<1>1. ClientTypes
  BY DEF TypeInv, TypeOK, ClientTypes
<1>2. ASSUME UNCHANGED clients
      PROVE  ClientTypes'
  BY <1>1, <1>2 DEF ClientTypes, StreamsHaveRuns, clients
<1>3. CASE \E r \in Runs : \/ Start(r)
                         \/ Execute(r)
                         \/ Cancel(r)
                         \/ FinishCancel(r)
                         \/ ReconcileRun(r)
                         \/ RunReconciled(r)
  BY <1>1, <1>2, <1>3, TasksNotify, NotifyKeepsClients
<1>4. ASSUME NEW s \in Subscribers, NEW r \in Runs, Subscribe(s, r)
      PROVE  ClientTypes'
  BY <1>1, <1>4 DEF Subscribe, ClientTypes, StreamsHaveRuns
<1>5. ASSUME NEW s \in Subscribers, Read(s)
      PROVE  ClientTypes'
  BY <1>5, ReadKeepsTypes
<1>6. ASSUME NEW s \in Subscribers, Check(s)
      PROVE  ClientTypes'
  <2> DEFINE r   == subscriber[s].run
             saw == IF r \in active THEN state[r] ELSE manifest[r].state
  <2>1. subscriber[s].run \in Runs
    BY <1>1, <1>6 DEF Check, ClientTypes, StreamsHaveRuns
  <2>2. saw \in RunStates \union {"none"}
    BY <2>1 DEF TypeInv, TypeOK, Snapshot, Event, Absent
  <2>3. /\ subscriber' = [subscriber EXCEPT ![s].saw = saw, ![s].stage = "deciding"]
        /\ received' = received
    BY <1>6 DEF Check
  <2> HIDE DEF saw, r
  <2>4. \A p \in Subscribers :
           subscriber'[p] = IF p = s
                            THEN [subscriber[s] EXCEPT !.saw = saw, !.stage = "deciding"]
                            ELSE subscriber[p]
    BY <1>1, <2>3 DEF ClientTypes
  <2>5. DOMAIN subscriber' = Subscribers
        /\ subscriber' = [p \in Subscribers |-> subscriber'[p]]
    BY <1>1, <2>3 DEF ClientTypes
  <2> QED
    BY <1>1, <2>1, <2>2, <2>3, <2>4, <2>5 DEF ClientTypes, StreamsHaveRuns
<1>7. ASSUME NEW s \in Subscribers, Decide(s)
      PROVE  ClientTypes'
  <2>1. PICK stage \in {"ended", "waiting"} :
           subscriber' = [subscriber EXCEPT ![s].stage = stage, ![s].saw = "none"]
    BY <1>7 DEF Decide
  <2>2. subscriber[s].run \in Runs /\ received' = received
    BY <1>1, <1>7 DEF Decide, ClientTypes, StreamsHaveRuns
  <2> QED
    BY <1>1, <2>1, <2>2 DEF ClientTypes, StreamsHaveRuns
<1>8. CASE Crash
  BY <1>1, <1>8 DEF Crash, ClientTypes, StreamsHaveRuns
<1>9. CASE \/ \E t \in Tasks : FileSystem(t)
           \/ \E r \in Runs : SelectCurrent(r)
           \/ Selection
           \/ Serve
           \/ UNCHANGED vars
  BY <1>2, <1>9
     DEF FileSystem, WriteManifest, RenameManifest, SerializeEvents, WriteEvents,
         RenameEvents, WriteIntegrity, WriteCurrent, RenameCurrent, SelectCurrent,
         Selection, WriteSelected, RenameSelected, Serve, vars
<1> QED
  BY <1>3, <1>4, <1>5, <1>6, <1>7, <1>8, <1>9 DEF Next, Stream

LEMMA HostStep ==
    ASSUME TypeInv, [Next]_vars
    PROVE  serving' \in BOOLEAN /\ crashes' \in 0 .. MaxCrashes
<1>1. serving \in BOOLEAN /\ crashes \in 0 .. MaxCrashes /\ MaxCrashes \in Nat
  BY BoundsAssumption DEF TypeInv, TypeOK
<1>2. CASE UNCHANGED host
  BY <1>1, <1>2 DEF host
<1>3. CASE Crash
  <2>1. serving' = FALSE /\ crashes < MaxCrashes /\ crashes' = crashes + 1
    BY <1>3 DEF Crash
  <2>2. crashes' \in 0 .. MaxCrashes
    BY <1>1, <2>1
  <2> QED
    BY <2>1, <2>2
<1>4. CASE Serve
  BY <1>1, <1>4 DEF Serve
<1>5. CASE \E r \in Runs : \/ Start(r)
                         \/ Execute(r)
                         \/ Cancel(r)
                         \/ FinishCancel(r)
                         \/ ReconcileRun(r)
                         \/ RunReconciled(r)
  BY <1>2, <1>5, MemoryStep
<1>6. CASE \/ \E t \in Tasks : FileSystem(t)
           \/ \E s \in Subscribers : Stream(s) \/ \E r \in Runs : Subscribe(s, r)
           \/ \E r \in Runs : SelectCurrent(r)
           \/ Selection
           \/ UNCHANGED vars
  BY <1>2, <1>6
     DEF FileSystem, WriteManifest, RenameManifest, SerializeEvents, WriteEvents,
         RenameEvents, WriteIntegrity, WriteCurrent, RenameCurrent, Stream, Read,
         Check, Decide, Subscribe, SelectCurrent, Selection, WriteSelected,
         RenameSelected, vars
<1> QED
  BY <1>3, <1>4, <1>5, <1>6 DEF Next

LEMMA TypeStep ==
    ASSUME WorkspaceInv, SlotInv, TypeInv, [Next]_vars
    PROVE  TypeInv'
<1>1. WorkspaceTypes' /\ SlotInv'
  BY WorkspaceStep, SlotStep DEF WorkspaceInv
<1>2. RecordTypes' /\ KnownRuns'
  BY KnownStep
<1>3. IdleTasksDoNothing'
  BY IdleStaysIdle
<1>4. ScheduleTypes' /\ AnalysesCount'
  BY ScheduleStep
<1>5. FileTypes' /\ OperatorTypes'
  BY FileStep
<1>6. ClientTypes'
  BY ClientStep
<1>7. serving' \in BOOLEAN /\ crashes' \in 0 .. MaxCrashes
  BY HostStep
<1>8. runningCount' \in 0 .. MaxConcurrentRuns
  <2>1. Executing' = ExecutingAt(at')
    BY DEF Executing, ExecutingAt, Resting
  <2>2. runningCount' = Cardinality(Executing') /\ runningCount' <= MaxConcurrentRuns
    BY <1>1 DEF SlotInv, SlotsFollowRuns
  <2>3. runningCount' \in Nat
    BY <2>1, <2>2, ExecutingIsFinite
  <2> QED
    BY <2>2, <2>3, BoundsAssumption
<1>9. TypeOK'
  BY <1>1, <1>2, <1>4, <1>5, <1>6, <1>7, <1>8
     DEF TypeOK, WorkspaceTypes, RecordTypes, ScheduleTypes, FileTypes,
         OperatorTypes, ClientTypes
<1> QED
  BY <1>2, <1>3, <1>4, <1>6, <1>9 DEF TypeInv, ClientTypes

LEMMA InitTypes == Init => TypeInv
<1> SUFFICES ASSUME Init PROVE TypeInv
  OBVIOUS
<1>1. /\ Absent \in Snapshot
      /\ NoLog \in Seq(Event)
      /\ NoLog \in Seq(Runs)
      /\ <<>> \in Seq(Runs)
      /\ <<>> \in Seq(Nat)
  BY DEF Snapshot, NoLog
<1>2. "none" \in Stages /\ "idle" \in Labels
  BY DEF Stages, Labels
<1>3. TypeOK
  BY <1>1, <1>2, BoundsAssumption DEF Init, TypeOK
<1>4. KnownRuns /\ IdleTasksDoNothing /\ AnalysesCount /\ StreamsHaveRuns
  BY DEF Init, KnownRuns, IdleTasksDoNothing, AnalysesCount, StreamsHaveRuns, Tasks
<1> QED
  BY <1>3, <1>4 DEF TypeInv

LEMMA TypeInvariant == Spec => [](WorkspaceInv /\ SlotInv /\ TypeInv)
<1>1. Init => WorkspaceInv /\ SlotInv /\ TypeInv
  BY InitWorkspace, InitSlots, InitTypes
<1>2. WorkspaceInv /\ SlotInv /\ TypeInv /\ [Next]_vars
        => (WorkspaceInv /\ SlotInv /\ TypeInv)'
  BY WorkspaceStep, SlotStep, TypeStep
<1> QED
  BY <1>1, <1>2, PTL DEF Spec

(* Every variable of the run manager keeps its type, the counters their    *)
(* bounds, and a finalize always finds an event to write.                  *)
THEOREM RunTypesHold == Spec => []TypeOK
<1>1. WorkspaceInv /\ SlotInv /\ TypeInv => TypeOK
  BY DEF TypeInv
<1> QED
  BY <1>1, TypeInvariant, PTL

-----------------------------------------------------------------------------
(* A run in the queue waits there, or was started.                         *)
Main(r)      == <<r, "main">>
Canceller(r) == <<r, "cancel">>

QueuedRunsWait ==
    \A i \in DOMAIN pending :
        pending[i] \in executionStarted \/ at[Main(pending[i])] = "pending"

LEMMA DrainKeepsWaiting ==
    ASSUME NEW queue \in Seq(Runs), NEW count, NEW label \in [Tasks -> Labels],
           Drain(queue, count, label),
           \A i \in DOMAIN queue :
              queue[i] \in executionStarted \/ label[Main(queue[i])] = "pending"
    PROVE  QueuedRunsWait'
<1>1. CASE /\ pending' \in {queue, <<>>}
           /\ executionStarted' = executionStarted
           /\ at' = label
  BY <1>1 DEF QueuedRunsWait
<1>2. ASSUME NEW i \in DOMAIN queue,
             pending' = SubSeq(queue, i + 1, Len(queue)),
             executionStarted' = executionStarted \union {queue[i]},
             at' = [label EXCEPT ![Main(queue[i])] = "preparing"]
      PROVE  QueuedRunsWait'
  <2>1. i \in 1 .. Len(queue) /\ Len(queue) \in Nat
    OBVIOUS
  <2>2. \A j \in DOMAIN pending' : \E k \in DOMAIN queue : pending'[j] = queue[k]
    <3>1. \A j \in i + 1 .. Len(queue) : queue[j] \in Runs
      BY <2>1
    <3>2. /\ Len(pending') = Len(queue) - i
          /\ pending' \in Seq(Runs)
          /\ \A j \in 1 .. Len(queue) - i : pending'[j] = queue[i + j]
      BY <1>2, <2>1, <3>1, SubSeqProperties
    <3>3. \A j \in 1 .. Len(queue) - i : i + j \in DOMAIN queue
      BY <2>1
    <3> QED
      BY <3>2, <3>3
  <2>3. ASSUME NEW q \in Runs, q \in executionStarted \/ label[Main(q)] = "pending"
        PROVE  q \in executionStarted' \/ at'[Main(q)] = "pending"
    <3>1. Main(q) \in Tasks /\ (Main(q) = Main(queue[i]) => q = queue[i])
      BY DEF Main, Tasks
    <3> QED
      BY <1>2, <2>3, <3>1
  <2> QED
    BY <2>2, <2>3 DEF QueuedRunsWait
<1> QED
  BY <1>1, <1>2 DEF Drain, Main

LEMMA WaitingStep ==
    ASSUME SlotInv, TypeInv, QueuedRunsWait, [Next]_vars
    PROVE  QueuedRunsWait'
<1>1. /\ pending \in Seq(Runs)
      /\ at \in [Tasks -> Labels]
      /\ \A i \in DOMAIN pending : pending[i] \in Runs
  BY DEF TypeInv, TypeOK
<1>2. ASSUME NEW t \in Tasks, NEW label,
             at' = [at EXCEPT ![t] = label], t[2] = "main" => at[t] # "pending",
             executionStarted' = executionStarted,
             pending' \in Seq({pending[i] : i \in DOMAIN pending})
      PROVE  QueuedRunsWait'
  <2>1. ASSUME NEW q \in Runs, at[Main(q)] = "pending"
        PROVE  at'[Main(q)] = "pending"
    BY <1>1, <1>2, <2>1 DEF Main, Tasks
  <2>2. \A i \in DOMAIN pending' : \E j \in DOMAIN pending : pending'[i] = pending[j]
    BY <1>2
  <2> QED
    BY <1>1, <1>2, <2>1, <2>2 DEF QueuedRunsWait
<1>3. pending \in Seq({pending[i] : i \in DOMAIN pending})
  BY <1>1
<1>4. ASSUME NEW r \in Runs,
             \/ Start(r)
             \/ StartFails(r)
             \/ Prepared(r)
             \/ NextRepository(r)
             \/ RepositoryAnalyzed(r)
             \/ Fails(r)
             \/ Materialize(r)
             \/ BecomeCurrent(r)
             \/ Leave(r)
             \/ CancellationRecorded(<<r, "main">>)
             \/ CancellationOver(r)
             \/ ReconcileRun(r)
             \/ RunReconciled(r)
      PROVE  QueuedRunsWait'
  <2>1. UNCHANGED <<pending, executionStarted>>
    BY <1>4
       DEF Start, StartFails, Prepared, NextRepository, RepositoryAnalyzed, Fails,
           Materialize, BecomeCurrent, Leave, CancellationRecorded,
           CancellationOver, ReconcileRun, RunReconciled, executeFrame, schedule
  <2>2. /\ at[Main(r)] # "pending"
        /\ \E label : at' = [at EXCEPT ![Main(r)] = label]
    <3> USE DEF Main, Returned, Goes
    <3>1. CASE Start(r)
      <4>1. at[Main(r)] = "idle"
        BY <3>1 DEF Start, SlotInv, NewRunsAreIdle
      <4>2. \E label : at' = [at EXCEPT ![Main(r)] = label]
        BY <3>1 DEF Start
      <4> QED
        BY <4>1, <4>2
    <3>2. CASE ReconcileRun(r)
      <4>1. at[Main(r)] \in {"idle", "done"}
        BY <3>2 DEF ReconcileRun, Idle, Tasks
      <4>2. \E label : at' = [at EXCEPT ![Main(r)] = label]
        BY <3>2 DEF ReconcileRun
      <4> QED
        BY <4>1, <4>2
    <3>3. CASE StartFails(r) \/ RunReconciled(r)
      BY <3>3 DEF StartFails, RunReconciled
    <3>4. CASE Prepared(r)
      BY <3>4 DEF Prepared, FinishCancelled, Transition
    <3>5. CASE NextRepository(r)
      BY <3>5 DEF NextRepository, FinishCancelled, Transition
    <3>6. CASE RepositoryAnalyzed(r)
      BY <3>6 DEF RepositoryAnalyzed
    <3>7. CASE Fails(r)
      BY <3>7 DEF Fails, FinishCancelled, Transition
    <3>8. CASE Materialize(r) \/ BecomeCurrent(r) \/ Leave(r)
      BY <3>8 DEF Materialize, BecomeCurrent, Leave
    <3>9. CASE CancellationRecorded(<<r, "main">>) \/ CancellationOver(r)
      BY <3>9 DEF CancellationRecorded, CancellationOver
    <3> QED
      BY <1>4, <3>1, <3>2, <3>3, <3>4, <3>5, <3>6, <3>7, <3>8, <3>9
  <2>3. Main(r) \in Tasks
    BY DEF Main, Tasks
  <2> QED
    BY <1>2, <1>3, <2>1, <2>2, <2>3
<1>5. ASSUME NEW r \in Runs,
             \/ Cancel(r)
             \/ CancelRequested(r)
             \/ CancellationRecorded(<<r, "cancel">>)
             \/ CancelFails(r)
      PROVE  QueuedRunsWait'
  <2>1. executionStarted' = executionStarted
    BY <1>5
       DEF Cancel, CancelRequested, CancellationRecorded, CancelFails, schedule
  <2>2. pending' = pending \/ pending' = Kept(pending, Runs \ {r})
    BY <1>5
       DEF Cancel, CancelRequested, CancellationRecorded, CancelFails, schedule
  <2>3. pending' \in Seq({pending[i] : i \in DOMAIN pending})
    BY <1>3, <2>2, KeptType
  <2>4. \E label : at' = [at EXCEPT ![Canceller(r)] = label]
    BY <1>5
       DEF Cancel, CancelRequested, CancellationRecorded, CancelFails, Goes,
           Canceller
  <2>5. Canceller(r) \in Tasks /\ Canceller(r)[2] # "main"
    BY DEF Canceller, Tasks
  <2> QED
    BY <1>2, <2>1, <2>3, <2>4, <2>5
<1>6. ASSUME NEW r \in Runs, Enqueue(r)
      PROVE  QueuedRunsWait'
  <2> DEFINE label == [at EXCEPT ![<<r, "main">>] = "pending"]
             queue == Append(pending, r)
  <2>1. label \in [Tasks -> Labels] /\ queue \in Seq(Runs)
    BY <1>1, AppendProperties DEF Labels
  <2>2. Drain(queue, runningCount, label)
    BY <1>6 DEF Enqueue
  <2>3. ASSUME NEW i \in DOMAIN queue
        PROVE  queue[i] \in executionStarted \/ label[Main(queue[i])] = "pending"
    <3>1. (i \in DOMAIN pending /\ queue[i] = pending[i]) \/ queue[i] = r
      BY <1>1, AppendProperties
    <3>2. <<r, "main">> \in Tasks
      BY DEF Tasks
    <3> QED
      BY <1>1, <3>1, <3>2 DEF QueuedRunsWait, Main, Tasks
  <2> HIDE DEF label, queue
  <2> QED
    BY <2>1, <2>2, <2>3, DrainKeepsWaiting
<1>7. ASSUME NEW r \in Runs, Release(r)
      PROVE  QueuedRunsWait'
  <2> DEFINE label == [at EXCEPT ![<<r, "main">>] = "done"]
  <2>1. label \in [Tasks -> Labels] /\ at[<<r, "main">>] = "over"
    BY <1>1, <1>7 DEF Labels, Release
  <2>2. Drain(pending, runningCount - 1, label)
    BY <1>7 DEF Release
  <2>3. ASSUME NEW i \in DOMAIN pending
        PROVE  pending[i] \in executionStarted \/ label[Main(pending[i])] = "pending"
    BY <1>1, <2>1 DEF QueuedRunsWait, Main, Tasks
  <2> HIDE DEF label
  <2> QED
    BY <1>1, <2>1, <2>2, <2>3, DrainKeepsWaiting
<1>8. ASSUME NEW r \in Runs, QueuedCancellationOver(r)
      PROVE  QueuedRunsWait'
  <2> DEFINE label == [at EXCEPT ![<<r, "cancel">>] = "done"]
  <2>1. label \in [Tasks -> Labels]
    BY <1>1 DEF Labels
  <2>2. Drain(pending, runningCount, label)
    BY <1>8 DEF QueuedCancellationOver
  <2>3. ASSUME NEW i \in DOMAIN pending
        PROVE  pending[i] \in executionStarted \/ label[Main(pending[i])] = "pending"
    BY <1>1 DEF QueuedRunsWait, Main, Tasks
  <2> HIDE DEF label
  <2> QED
    BY <1>1, <2>1, <2>2, <2>3, DrainKeepsWaiting
<1>9. CASE \/ \E t \in Tasks : FileSystem(t)
           \/ \E s \in Subscribers : Stream(s) \/ \E r \in Runs : Subscribe(s, r)
           \/ \E r \in Runs : SelectCurrent(r)
           \/ Selection
           \/ Serve
           \/ UNCHANGED vars
  <2>1. UNCHANGED <<pending, executionStarted, at>>
    BY <1>9
       DEF FileSystem, WriteManifest, RenameManifest, SerializeEvents, WriteEvents,
           RenameEvents, WriteIntegrity, WriteCurrent, RenameCurrent, Stream, Read,
           Check, Decide, Subscribe, SelectCurrent, Selection, WriteSelected,
           RenameSelected, Serve, vars, schedule
  <2> QED
    BY <2>1 DEF QueuedRunsWait
<1>10. CASE Crash
  BY <1>10 DEF Crash, QueuedRunsWait
<1> QED
  BY <1>4, <1>5, <1>6, <1>7, <1>8, <1>9, <1>10 DEF Next, Execute, FinishCancel

-----------------------------------------------------------------------------
(* What a step can do to one run, whichever action takes it: RunStep shows *)
(* that this is all, and the invariants below are shown from it.           *)

SameTask(t) ==
    at'[t] = at[t] /\ io'[t] = io[t] /\ snapshot'[t] = snapshot[t] /\ lines'[t] = lines[t]

SameRecord(q) == state'[q] = state[q] /\ events'[q] = events[q]

SameFiles(q) ==
    /\ manifest'[q] = manifest[q]
    /\ eventLog'[q] = eventLog[q]
    /\ sealed'[q] = sealed[q]
    /\ manifestTmp'[q] = manifestTmp[q]
    /\ eventLogTmp'[q] = eventLogTmp[q]

SameCancelled(q) == q \in cancelled' <=> q \in cancelled
SameActive(q)    == q \in active' <=> q \in active

SameRun(q) ==
    /\ SameTask(Main(q))
    /\ SameTask(Canceller(q))
    /\ SameRecord(q)
    /\ SameFiles(q)
    /\ SameCancelled(q)
    /\ SameActive(q)

(* What a task of the run does: it records an event, writes the run again, *)
(* or only goes on.                                                        *)
Recorded(q, t, next, label) ==
    LET event == [seq |-> Len(events[q]) + 1, state |-> next] IN
    /\ state'[q] = next
    /\ events'[q] = Append(events[q], event)
    /\ snapshot'[t] = event
    /\ lines'[t] = lines[t]
    /\ io'[t] = "manifestWrite"
    /\ at'[t] = label

Rewritten(q, t, label) ==
    /\ SameRecord(q)
    /\ snapshot'[t] = events[q][Len(events[q])]
    /\ lines'[t] = lines[t]
    /\ io'[t] = "manifestWrite"
    /\ at'[t] = label

Moved(q, t, label, stage) ==
    /\ SameRecord(q)
    /\ snapshot'[t] = snapshot[t]
    /\ lines'[t] = lines[t]
    /\ io'[t] = stage
    /\ at'[t] = label

MainEffect(q) ==
    LET m == Main(q) IN
    /\ SameTask(Canceller(q))
    /\ SameFiles(q)
    /\ SameCancelled(q)
    /\ \/ /\ serving
          /\ state[q] = "none"
          /\ at[m] = "idle"
          /\ Recorded(q, m, "queued", "queued")
          /\ q \in active'
       \/ /\ SameActive(q)
          /\ \/ Returned(m, "queued") /\ Moved(q, m, "pending", "returned")
             \/ /\ Returned(m, "queued") \/ at[m] = "pending"
                /\ q \notin cancelled
                /\ Recorded(q, m, "preparing", "preparing")
             \/ at[m] = "queued" /\ io[m] = "thrown" /\ Moved(q, m, "done", "thrown")
             \/ /\ Returned(m, "preparing")
                /\ q \notin cancelled
                /\ Recorded(q, m, "running", "running")
             \/ /\ Returned(m, "running") \/ Returned(m, "covering")
                /\ q \notin cancelled
                /\ \/ Moved(q, m, "analysing", "none")
                   \/ Recorded(q, m, "completed", "completing")
             \/ at[m] = "analysing" /\ Recorded(q, m, state[q], "covering")
             \/ /\ \/ at[m] = "analysing"
                   \/ /\ io[m] = "thrown"
                      /\ at[m] \in {"preparing", "running", "covering",
                                    "completing", "finalizing", "selecting"}
                /\ q \notin cancelled
                /\ Recorded(q, m, "failed", "failing")
             \/ Returned(m, "completing") /\ Rewritten(q, m, "finalizing")
             \/ Returned(m, "failing") /\ Rewritten(q, m, "finalizingFailed")
             \/ Returned(m, "finalizing") /\ Moved(q, m, "selecting", "currentWrite")
             \/ Returned(m, "cancelled") /\ Rewritten(q, m, "finalizingCancelled")
             \/ /\ \/ Returned(m, "finalizingCancelled")
                   \/ io[m] = "thrown" /\ at[m] \in {"cancelled", "finalizingCancelled"}
                /\ Moved(q, m, "over", io[m])
             \/ at[m] = "over" /\ Moved(q, m, "done", io[m])
             \/ Returned(m, "reconciling") /\ Moved(q, m, "done", "returned")
       \/ /\ q \notin active'
          /\ \/ /\ q \in cancelled
                /\ at[m] \in Working
                /\ Recorded(q, m, "cancelled", "cancelled")
             \/ /\ \/ Returned(m, "selecting")
                   \/ Returned(m, "finalizingFailed")
                   \/ io[m] = "thrown" /\ at[m] \in {"failing", "finalizingFailed"}
                /\ Moved(q, m, "over", io[m])

CancellerEffect(q) ==
    LET c == Canceller(q) IN
    /\ SameTask(Main(q))
    /\ SameFiles(q)
    /\ \/ /\ serving
          /\ q \in Cancellable
          /\ q \in active
          /\ ~Terminal(q)
          /\ q \in cancelled'
          /\ SameActive(q)
          /\ Recorded(q, c, "cancelling", "cancelling")
       \/ /\ SameCancelled(q)
          /\ SameActive(q)
          /\ \/ Returned(c, "cancelling") /\ Moved(q, c, "done", "returned")
             \/ Returned(c, "cancelling") /\ Recorded(q, c, "cancelled", "cancelled")
             \/ Returned(c, "cancelled") /\ Rewritten(q, c, "finalizingCancelled")
             \/ io[c] = "thrown" /\ at[c] # "done" /\ Moved(q, c, "done", "thrown")
       \/ /\ SameCancelled(q)
          /\ q \notin active'
          /\ Returned(c, "finalizingCancelled")
          /\ Moved(q, c, "done", "returned")

ReconcileEffect(q) ==
    LET m     == Main(q)
        event == [seq |-> manifest[q].seq + 1, state |-> "interrupted"]
    IN  /\ ~serving
        /\ at[m] \in {"idle", "done"}
        /\ at[Canceller(q)] \in {"idle", "done"}
        /\ Interrupted(q)
        /\ SameTask(Canceller(q))
        /\ SameFiles(q)
        /\ SameCancelled(q)
        /\ SameActive(q)
        /\ state'[q] = "interrupted"
        /\ events'[q] = Append(eventLog[q], event)
        /\ snapshot'[m] = event
        /\ lines'[m] = lines[m]
        /\ io'[m] = "manifestWrite"
        /\ at'[m] = "reconciling"

(* A task t of the run works on its files; u is the other one.             *)
FileEffect(q, t, u) ==
    /\ SameTask(u)
    /\ SameRecord(q)
    /\ SameCancelled(q)
    /\ SameActive(q)
    /\ at'[t] = at[t]
    /\ snapshot'[t] = snapshot[t]
    /\ \/ /\ io[t] = "manifestWrite"
          /\ io'[t] = "manifestRename"
          /\ manifestTmp'[q] = snapshot[t]
          /\ lines'[t] = lines[t]
          /\ manifest'[q] = manifest[q]
          /\ eventLog'[q] = eventLog[q]
          /\ sealed'[q] = sealed[q]
          /\ eventLogTmp'[q] = eventLogTmp[q]
       \/ /\ io[t] = "manifestRename"
          /\ manifestTmp[q] # Absent
          /\ io'[t] = "eventsCall"
          /\ manifest'[q] = manifestTmp[q]
          /\ manifestTmp'[q] = Absent
          /\ lines'[t] = lines[t]
          /\ eventLog'[q] = eventLog[q]
          /\ sealed'[q] = sealed[q]
          /\ eventLogTmp'[q] = eventLogTmp[q]
       \/ /\ io[t] = "eventsCall"
          /\ io'[t] = "eventsWrite"
          /\ lines'[t] = events[q]
          /\ SameFiles(q)
       \/ /\ io[t] = "eventsWrite"
          /\ io'[t] = "eventsRename"
          /\ eventLogTmp'[q] = lines[t]
          /\ lines'[t] = NoLog
          /\ manifest'[q] = manifest[q]
          /\ eventLog'[q] = eventLog[q]
          /\ sealed'[q] = sealed[q]
          /\ manifestTmp'[q] = manifestTmp[q]
       \/ /\ io[t] = "eventsRename"
          /\ eventLogTmp[q] # NoLog
          /\ io'[t] = IF IsFinalizing(t) THEN "integrity" ELSE "returned"
          /\ eventLog'[q] = eventLogTmp[q]
          /\ eventLogTmp'[q] = NoLog
          /\ lines'[t] = lines[t]
          /\ manifest'[q] = manifest[q]
          /\ sealed'[q] = sealed[q]
          /\ manifestTmp'[q] = manifestTmp[q]
       \/ /\ io[t] = "integrity"
          /\ io'[t] = "returned"
          /\ sealed'[q] = <<manifest[q], eventLog[q]>>
          /\ lines'[t] = lines[t]
          /\ manifest'[q] = manifest[q]
          /\ eventLog'[q] = eventLog[q]
          /\ manifestTmp'[q] = manifestTmp[q]
          /\ eventLogTmp'[q] = eventLogTmp[q]
       \/ /\ \/ io[t] = "manifestRename" /\ manifestTmp[q] = Absent
             \/ io[t] = "eventsRename" /\ eventLogTmp[q] = NoLog
             \/ io[t] = "currentRename" /\ currentTmp[EngagementOf[q]] = None
          /\ io'[t] = "thrown"
          /\ lines'[t] = lines[t]
          /\ SameFiles(q)
       \/ /\ \/ io[t] = "currentWrite" /\ io'[t] = "currentRename"
             \/ io[t] = "currentRename" /\ io'[t] = "returned"
          /\ lines'[t] = lines[t]
          /\ SameFiles(q)

RunEffect(q) ==
    \/ SameRun(q)
    \/ MainEffect(q)
    \/ CancellerEffect(q)
    \/ ReconcileEffect(q)
    \/ FileEffect(q, Main(q), Canceller(q))
    \/ FileEffect(q, Canceller(q), Main(q))

(* Functions of the runs and of the tasks: what a step must leave alone in *)
(* them is the rest of their domain.                                       *)
RunFunctions ==
    /\ at \in [Tasks -> Labels]
    /\ io \in [Tasks -> Stages]
    /\ snapshot \in [Tasks -> Snapshot]
    /\ lines \in [Tasks -> Seq(Event)]
    /\ state \in [Runs -> RunStates \union {"none"}]
    /\ events \in [Runs -> Seq(Event)]
    /\ manifest \in [Runs -> Snapshot]
    /\ eventLog \in [Runs -> Seq(Event)]
    /\ sealed \in [Runs -> Snapshot \X Seq(Event)]
    /\ manifestTmp \in [Runs -> Snapshot]
    /\ eventLogTmp \in [Runs -> Seq(Event)]

LEMMA TasksDiffer ==
    ASSUME NEW q \in Runs, NEW r \in Runs
    PROVE  /\ Main(q) \in Tasks /\ Canceller(q) \in Tasks
           /\ Main(q) = <<q, "main">> /\ Canceller(q) = <<q, "cancel">>
           /\ Main(q) # Canceller(r)
           /\ Main(q)[1] = q /\ Canceller(q)[1] = q
           /\ Main(q) = Main(r) => q = r
           /\ Canceller(q) = Canceller(r) => q = r
  BY DEF Main, Canceller, Tasks

(* A step of start or execute is one of its run, and of no other.          *)
LEMMA MainStep ==
    ASSUME RunFunctions, SlotInv, NEW q \in Runs, NEW r \in Runs,
           \/ Start(r)
           \/ StartFails(r)
           \/ Prepared(r)
           \/ NextRepository(r)
           \/ RepositoryAnalyzed(r)
           \/ Fails(r)
           \/ Materialize(r)
           \/ BecomeCurrent(r)
           \/ Leave(r)
           \/ CancellationRecorded(<<r, "main">>)
           \/ CancellationOver(r)
           \/ RunReconciled(r)
    PROVE  /\ q = r => MainEffect(q)
           /\ q # r => SameRun(q)
<1>1. SameFiles(q) /\ SameCancelled(q)
  BY DEF Start, StartFails, Prepared, NextRepository, RepositoryAnalyzed, Fails,
         Materialize, BecomeCurrent, Leave, CancellationRecorded, CancellationOver,
         RunReconciled, FinishCancelled, Transition, SameFiles, SameCancelled,
         executeFrame, files, schedule
<1>2. SameTask(Canceller(q))
  <2> USE TasksDiffer DEF RunFunctions, SameTask, Goes, Record, Finalize
  <2>1. CASE Start(r) \/ StartFails(r) \/ RunReconciled(r)
    BY <2>1 DEF Start, StartFails, RunReconciled
  <2>2. CASE Prepared(r)
    BY <2>2 DEF Prepared, FinishCancelled, Transition
  <2>3. CASE NextRepository(r)
    BY <2>3 DEF NextRepository, FinishCancelled, Transition
  <2>4. CASE RepositoryAnalyzed(r)
    BY <2>4 DEF RepositoryAnalyzed
  <2>5. CASE Fails(r)
    BY <2>5 DEF Fails, FinishCancelled, Transition
  <2>6. CASE Materialize(r)
    BY <2>6 DEF Materialize
  <2>7. CASE BecomeCurrent(r) \/ Leave(r)
    BY <2>7 DEF BecomeCurrent, Leave
  <2>8. CASE CancellationRecorded(<<r, "main">>) \/ CancellationOver(r)
    BY <2>8 DEF CancellationRecorded, CancellationOver
  <2> QED
    BY <2>1, <2>2, <2>3, <2>4, <2>5, <2>6, <2>7, <2>8
<1>3. ASSUME q # r
      PROVE  SameTask(Main(q)) /\ SameRecord(q) /\ SameActive(q)
  <2> USE <1>3, TasksDiffer
      DEF RunFunctions, SameTask, SameRecord, SameActive, Goes, Record, Finalize,
          Forget, memory, schedule
  <2>1. CASE Start(r) \/ StartFails(r) \/ RunReconciled(r)
    BY <2>1 DEF Start, StartFails, RunReconciled
  <2>2. CASE Prepared(r)
    BY <2>2 DEF Prepared, FinishCancelled, Transition
  <2>3. CASE NextRepository(r)
    BY <2>3 DEF NextRepository, FinishCancelled, Transition
  <2>4. CASE RepositoryAnalyzed(r)
    BY <2>4 DEF RepositoryAnalyzed
  <2>5. CASE Fails(r)
    BY <2>5 DEF Fails, FinishCancelled, Transition
  <2>6. CASE Materialize(r)
    BY <2>6 DEF Materialize
  <2>7. CASE BecomeCurrent(r) \/ Leave(r)
    BY <2>7 DEF BecomeCurrent, Leave
  <2>8. CASE CancellationRecorded(<<r, "main">>) \/ CancellationOver(r)
    BY <2>8 DEF CancellationRecorded, CancellationOver
  <2> QED
    BY <2>1, <2>2, <2>3, <2>4, <2>5, <2>6, <2>7, <2>8
<1>4. ASSUME q = r
      PROVE  MainEffect(q)
  <2> USE <1>1, <1>2, <1>4, TasksDiffer
      DEF RunFunctions, SameRecord, SameActive, Goes, Record, Finalize, Forget,
          memory, schedule, Recorded, Rewritten, Moved, MainEffect
  <2>1. CASE Start(r)
    BY <2>1 DEF Start, SlotInv, NewRunsAreIdle
  <2>2. CASE StartFails(r) \/ RunReconciled(r)
    <3>1. /\ SameActive(q)
          /\ \/ at[Main(q)] = "queued" /\ io[Main(q)] = "thrown" /\ Moved(q, Main(q), "done", "thrown")
             \/ Returned(Main(q), "reconciling") /\ Moved(q, Main(q), "done", "returned")
      BY <2>2 DEF StartFails, RunReconciled, Returned
    <3> QED
      BY <3>1
  <2>3. CASE Prepared(r)
    <3>1. CASE FinishCancelled(r)
      <4>1. /\ q \notin active'
            /\ q \in cancelled
            /\ at[Main(q)] \in Working
            /\ Recorded(q, Main(q), "cancelled", "cancelled")
        BY <2>3, <3>1 DEF Prepared, FinishCancelled, Returned, Working
      <4> QED
        BY <4>1
    <3>2. CASE Transition(r, "running", "running")
      <4>1. /\ SameActive(q)
            /\ Returned(Main(q), "preparing")
            /\ q \notin cancelled
            /\ Recorded(q, Main(q), "running", "running")
        BY <2>3, <3>2 DEF Prepared, Transition
      <4> QED
        BY <4>1
    <3> QED
      BY <2>3, <3>1, <3>2 DEF Prepared
  <2>4. CASE NextRepository(r)
    <3>0. Returned(Main(q), "running") \/ Returned(Main(q), "covering")
      BY <2>4 DEF NextRepository
    <3>1. CASE FinishCancelled(r)
      <4>1. /\ q \notin active'
            /\ q \in cancelled
            /\ at[Main(q)] \in Working
            /\ Recorded(q, Main(q), "cancelled", "cancelled")
        BY <3>0, <3>1 DEF FinishCancelled, Returned, Working
      <4> QED
        BY <4>1
    <3>2. CASE Transition(r, "completed", "completing")
      <4>1. /\ SameActive(q)
            /\ q \notin cancelled
            /\ Recorded(q, Main(q), "completed", "completing")
        BY <3>2 DEF Transition
      <4> QED
        BY <3>0, <4>1
    <3>3. CASE /\ r \notin cancelled
               /\ Goes(<<r, "main">>, "analysing")
               /\ io' = [io EXCEPT ![<<r, "main">>] = "none"]
               /\ UNCHANGED <<memory, snapshot, lines, active, byEngagement>>
      <4>1. /\ SameActive(q)
            /\ q \notin cancelled
            /\ Moved(q, Main(q), "analysing", "none")
        BY <3>3
      <4> QED
        BY <3>0, <4>1
    <3> QED
      BY <2>4, <3>1, <3>2, <3>3 DEF NextRepository
  <2>5. CASE RepositoryAnalyzed(r)
    <3>1. /\ SameActive(q)
          /\ at[Main(q)] = "analysing"
          /\ Recorded(q, Main(q), state[q], "covering")
      BY <2>5 DEF RepositoryAnalyzed
    <3> QED
      BY <3>1
  <2>6. CASE Fails(r)
    <3>1. CASE FinishCancelled(r)
      <4>1. /\ q \notin active'
            /\ q \in cancelled
            /\ at[Main(q)] \in Working
            /\ Recorded(q, Main(q), "cancelled", "cancelled")
        BY <2>6, <3>1 DEF Fails, FinishCancelled, Working
      <4> QED
        BY <4>1
    <3>2. CASE Transition(r, "failed", "failing")
      <4>1. /\ SameActive(q)
            /\ \/ at[Main(q)] = "analysing"
               \/ /\ io[Main(q)] = "thrown"
                  /\ at[Main(q)] \in {"preparing", "running", "covering",
                                    "completing", "finalizing", "selecting"}
            /\ q \notin cancelled
            /\ Recorded(q, Main(q), "failed", "failing")
        BY <2>6, <3>2 DEF Fails, Transition
      <4> QED
        BY <4>1
    <3> QED
      BY <2>6, <3>1, <3>2 DEF Fails
  <2>7. CASE Materialize(r)
    <3>1. /\ SameActive(q)
          /\ \/ Returned(Main(q), "completing") /\ Rewritten(q, Main(q), "finalizing")
             \/ Returned(Main(q), "failing") /\ Rewritten(q, Main(q), "finalizingFailed")
      BY <2>7 DEF Materialize
    <3> QED
      BY <3>1
  <2>8. CASE BecomeCurrent(r)
    BY <2>8 DEF BecomeCurrent
  <2>9. CASE Leave(r)
    BY <2>9 DEF Leave
  <2>10. CASE CancellationRecorded(<<r, "main">>)
    BY <2>10 DEF CancellationRecorded
  <2>11. CASE CancellationOver(r)
    BY <2>11 DEF CancellationOver
  <2> QED
    BY <2>1, <2>2, <2>3, <2>4, <2>5, <2>6, <2>7, <2>8, <2>9, <2>10, <2>11
<1> QED
  BY <1>1, <1>2, <1>3, <1>4 DEF SameRun

(* The same for cancel.                                                    *)
LEMMA CancellerStep ==
    ASSUME RunFunctions, NEW q \in Runs, NEW r \in Runs,
           \/ Cancel(r)
           \/ CancelRequested(r)
           \/ CancellationRecorded(<<r, "cancel">>)
           \/ CancelFails(r)
    PROVE  /\ q = r => CancellerEffect(q)
           /\ q # r => SameRun(q)
<1> USE TasksDiffer
<1>1. SameFiles(q) /\ SameActive(q)
  BY DEF Cancel, CancelRequested, CancellationRecorded, CancelFails, SameFiles,
         SameActive, files, schedule
<1>2. SameTask(Main(q))
  BY DEF RunFunctions, SameTask, Goes, Record, Finalize, Cancel, CancelRequested,
         CancellationRecorded, CancelFails
<1>3. ASSUME q # r
      PROVE  SameTask(Canceller(q)) /\ SameRecord(q) /\ SameCancelled(q)
  <2> USE <1>3
      DEF RunFunctions, SameTask, SameRecord, SameCancelled, Goes, Record,
          Finalize, memory, schedule
  <2>1. CASE Cancel(r)
    BY <2>1 DEF Cancel
  <2>2. CASE CancelRequested(r)
    BY <2>2 DEF CancelRequested
  <2>3. CASE CancellationRecorded(<<r, "cancel">>) \/ CancelFails(r)
    BY <2>3 DEF CancellationRecorded, CancelFails
  <2> QED
    BY <2>1, <2>2, <2>3
<1>4. ASSUME q = r
      PROVE  CancellerEffect(q)
  <2> USE <1>1, <1>2, <1>4
      DEF RunFunctions, SameRecord, SameCancelled, Goes, Record, Finalize, memory,
          schedule, Recorded, Rewritten, Moved
  <2>1. CASE Cancel(r)
    <3>1. /\ serving
          /\ q \in Cancellable
          /\ q \in active
          /\ ~Terminal(q)
          /\ q \in cancelled'
          /\ Recorded(q, Canceller(q), "cancelling", "cancelling")
      BY <2>1 DEF Cancel
    <3> QED
      BY <3>1 DEF CancellerEffect
  <2>2. CASE CancelRequested(r)
    <3>1. SameCancelled(q) /\ Returned(Canceller(q), "cancelling")
      BY <2>2 DEF CancelRequested
    <3>2. \/ Moved(q, Canceller(q), "done", "returned")
          \/ Recorded(q, Canceller(q), "cancelled", "cancelled")
      <4>1. CASE UNCHANGED <<memory, io, snapshot, lines>> /\ Goes(<<r, "cancel">>, "done")
        BY <3>1, <4>1 DEF Returned
      <4>2. CASE Record(<<r, "cancel">>, "cancelled") /\ Goes(<<r, "cancel">>, "cancelled")
        BY <4>2
      <4> QED
        BY <2>2, <4>1, <4>2 DEF CancelRequested
    <3> QED
      BY <3>1, <3>2 DEF CancellerEffect
  <2>3. CASE CancellationRecorded(<<r, "cancel">>)
    <3>1. /\ SameCancelled(q)
          /\ Returned(Canceller(q), "cancelled")
          /\ Rewritten(q, Canceller(q), "finalizingCancelled")
      BY <2>3 DEF CancellationRecorded
    <3> QED
      BY <3>1 DEF CancellerEffect
  <2>4. CASE CancelFails(r)
    <3>1. /\ SameCancelled(q)
          /\ io[Canceller(q)] = "thrown"
          /\ at[Canceller(q)] # "done"
          /\ Moved(q, Canceller(q), "done", "thrown")
      BY <2>4 DEF CancelFails
    <3> QED
      BY <3>1 DEF CancellerEffect
  <2> QED
    BY <2>1, <2>2, <2>3, <2>4
<1> QED
  BY <1>1, <1>2, <1>3, <1>4 DEF SameRun

LEMMA ReconcileStep ==
    ASSUME RunFunctions, NEW q \in Runs, NEW r \in Runs, ReconcileRun(r)
    PROVE  /\ q = r => ReconcileEffect(q)
           /\ q # r => SameRun(q)
<1> USE TasksDiffer
<1>1. SameFiles(q) /\ SameActive(q) /\ SameCancelled(q)
  BY DEF ReconcileRun, SameFiles, SameActive, SameCancelled, files, schedule
<1>2. SameTask(Canceller(q))
  BY DEF RunFunctions, SameTask, Goes, ReconcileRun
<1>3. ASSUME q # r
      PROVE  SameTask(Main(q)) /\ SameRecord(q)
  BY <1>3 DEF RunFunctions, SameTask, SameRecord, Goes, ReconcileRun
<1>4. ASSUME q = r
      PROVE  ReconcileEffect(q)
  <2>1. at[Main(q)] \in {"idle", "done"} /\ at[Canceller(q)] \in {"idle", "done"}
    BY DEF ReconcileRun, Idle
  <2> QED
    BY <1>1, <1>2, <1>4, <2>1 DEF RunFunctions, Goes, ReconcileRun, ReconcileEffect
<1> QED
  BY <1>1, <1>2, <1>3, <1>4 DEF SameRun

(* A file operation of a task t is one of its run, and of no other.        *)
LEMMA FileEffects ==
    ASSUME RunFunctions, NEW q \in Runs, NEW t \in Tasks, NEW u \in Tasks, t # u,
           t[1] = q, FileSystem(t)
    PROVE  FileEffect(q, t, u)
<1>1. /\ SameTask(u)
      /\ SameRecord(q)
      /\ SameCancelled(q)
      /\ SameActive(q)
      /\ at'[t] = at[t]
      /\ snapshot'[t] = snapshot[t]
  BY DEF RunFunctions, SameTask, SameRecord, SameCancelled, SameActive, FileSystem,
         WriteManifest, RenameManifest, SerializeEvents, WriteEvents, RenameEvents,
         WriteIntegrity, WriteCurrent, RenameCurrent, memory, schedule
<1> USE <1>1 DEF RunFunctions, SameFiles, files
<1>2. CASE WriteManifest(t)
  BY <1>2 DEF WriteManifest, FileEffect
<1>3. CASE RenameManifest(t)
  BY <1>3 DEF RenameManifest, FileEffect
<1>4. CASE SerializeEvents(t)
  BY <1>4 DEF SerializeEvents, FileEffect
<1>5. CASE WriteEvents(t)
  BY <1>5 DEF WriteEvents, FileEffect
<1>6. CASE RenameEvents(t)
  BY <1>6 DEF RenameEvents, FileEffect
<1>7. CASE WriteIntegrity(t)
  BY <1>7 DEF WriteIntegrity, FileEffect
<1>8. CASE WriteCurrent(t) \/ RenameCurrent(t)
  BY <1>8 DEF WriteCurrent, RenameCurrent, FileEffect
<1> QED
  BY <1>2, <1>3, <1>4, <1>5, <1>6, <1>7, <1>8 DEF FileSystem

LEMMA FileSystemStep ==
    ASSUME RunFunctions, NEW q \in Runs, NEW t \in Tasks, FileSystem(t)
    PROVE  /\ t = Main(q) => FileEffect(q, Main(q), Canceller(q))
           /\ t = Canceller(q) => FileEffect(q, Canceller(q), Main(q))
           /\ t[1] # q => SameRun(q)
<1>1. /\ Main(q) \in Tasks /\ Canceller(q) \in Tasks
      /\ Main(q) # Canceller(q)
      /\ Main(q)[1] = q /\ Canceller(q)[1] = q
  BY TasksDiffer
<1>2. CASE t = Main(q)
  BY <1>1, <1>2, FileEffects
<1>3. CASE t = Canceller(q)
  BY <1>1, <1>3, FileEffects
<1>4. ASSUME t[1] # q
      PROVE  SameRun(q)
  <2>0. t # Main(q) /\ t # Canceller(q) /\ t[1] \in Runs
    BY <1>1, <1>4 DEF Tasks
  <2>1. SameRecord(q) /\ SameCancelled(q) /\ SameActive(q)
    BY DEF SameRecord, SameCancelled, SameActive, FileSystem,
         WriteManifest, RenameManifest, SerializeEvents, WriteEvents, RenameEvents,
         WriteIntegrity, WriteCurrent, RenameCurrent, memory, schedule
  <2>2. SameTask(Main(q)) /\ SameTask(Canceller(q))
    BY <1>1, <2>0
       DEF RunFunctions, SameTask, FileSystem, WriteManifest, RenameManifest,
         SerializeEvents, WriteEvents, RenameEvents, WriteIntegrity, WriteCurrent,
         RenameCurrent
  <2>3. SameFiles(q)
    BY <1>4, <2>0
       DEF RunFunctions, SameFiles, FileSystem, WriteManifest, RenameManifest,
         SerializeEvents, WriteEvents, RenameEvents, WriteIntegrity, WriteCurrent,
         RenameCurrent, files
  <2> QED
    BY <2>1, <2>2, <2>3 DEF SameRun
<1> QED
  BY <1>1, <1>2, <1>3, <1>4

(* drainQueue starts at most one run, one that waits in the queue.         *)
LEMMA DrainEffect ==
    ASSUME RunFunctions, active \subseteq Runs, NEW q \in Runs,
           NEW queue \in Seq(Runs), NEW count, NEW label \in [Tasks -> Labels],
           Drain(queue, count, label),
           \A i \in DOMAIN queue :
              queue[i] \in executionStarted \/ label[Main(queue[i])] = "pending"
    PROVE  /\ at'[Canceller(q)] = label[Canceller(q)]
           /\ io'[Canceller(q)] = io[Canceller(q)]
           /\ snapshot'[Canceller(q)] = snapshot[Canceller(q)]
           /\ lines'[Canceller(q)] = lines[Canceller(q)]
           /\ \/ Moved(q, Main(q), label[Main(q)], io[Main(q)])
              \/ /\ label[Main(q)] = "pending"
                 /\ q \notin cancelled
                 /\ q \in active
                 /\ q \notin executionStarted
                 /\ Recorded(q, Main(q), "preparing", "preparing")
<1> USE TasksDiffer DEF RunFunctions
<1>1. CASE at' = label /\ UNCHANGED <<memory, io, snapshot, lines>>
  BY <1>1 DEF Moved, SameRecord, memory
<1>2. ASSUME NEW p \in Runs,
             p \in active, p \notin executionStarted, p \notin cancelled,
             label[Main(p)] = "pending",
             at' = [label EXCEPT ![Main(p)] = "preparing"],
             Record(Main(p), "preparing")
      PROVE  /\ at'[Canceller(q)] = label[Canceller(q)]
             /\ io'[Canceller(q)] = io[Canceller(q)]
             /\ snapshot'[Canceller(q)] = snapshot[Canceller(q)]
             /\ lines'[Canceller(q)] = lines[Canceller(q)]
             /\ q # p => Moved(q, Main(q), label[Main(q)], io[Main(q)])
             /\ q = p => Recorded(q, Main(q), "preparing", "preparing")
  <2>1. /\ at'[Canceller(q)] = label[Canceller(q)]
        /\ io'[Canceller(q)] = io[Canceller(q)]
        /\ snapshot'[Canceller(q)] = snapshot[Canceller(q)]
        /\ lines'[Canceller(q)] = lines[Canceller(q)]
    BY <1>2 DEF Record
  <2>2. ASSUME q # p
        PROVE  Moved(q, Main(q), label[Main(q)], io[Main(q)])
    BY <1>2, <2>2 DEF Record, Moved, SameRecord
  <2>3. ASSUME q = p
        PROVE  Recorded(q, Main(q), "preparing", "preparing")
    BY <1>2, <2>3 DEF Record, Recorded
  <2> QED
    BY <2>1, <2>2, <2>3
<1>3. ASSUME NEW i \in DOMAIN queue,
             Startable(queue[i]),
             at' = [label EXCEPT ![<<queue[i], "main">>] = "preparing"],
             Record(<<queue[i], "main">>, "preparing")
      PROVE  \E p \in Runs :
                /\ p \in active /\ p \notin executionStarted /\ p \notin cancelled
                /\ label[Main(p)] = "pending"
                /\ at' = [label EXCEPT ![Main(p)] = "preparing"]
                /\ Record(Main(p), "preparing")
  <2>1. queue[i] \in Runs
    OBVIOUS
  <2> QED
    BY <1>3, <2>1 DEF Startable
<1>4. CASE \E p \in Runs :
              /\ p \in active /\ p \notin executionStarted /\ p \notin cancelled
              /\ label[Main(p)] = "pending"
              /\ at' = [label EXCEPT ![Main(p)] = "preparing"]
              /\ Record(Main(p), "preparing")
  <2>1. PICK p \in Runs :
           /\ p \in active /\ p \notin executionStarted /\ p \notin cancelled
           /\ label[Main(p)] = "pending"
           /\ at' = [label EXCEPT ![Main(p)] = "preparing"]
           /\ Record(Main(p), "preparing")
    BY <1>4
  <2>2. CASE q = p
    BY <1>2, <2>1, <2>2
  <2>3. CASE q # p
    BY <1>2, <2>1, <2>3
  <2> QED
    BY <2>2, <2>3
<1>5. \/ at' = label /\ UNCHANGED <<memory, io, snapshot, lines>>
      \/ \E i \in DOMAIN queue :
            /\ Startable(queue[i])
            /\ at' = [label EXCEPT ![<<queue[i], "main">>] = "preparing"]
            /\ Record(<<queue[i], "main">>, "preparing")
  BY DEF Drain
<1> QED
  BY <1>1, <1>3, <1>4, <1>5

(* The pieces that end with drainQueue.                                    *)
LEMMA EnqueueEffect ==
    ASSUME RunFunctions, TypeInv, QueuedRunsWait, NEW q \in Runs, NEW r \in Runs,
           Enqueue(r)
    PROVE  MainEffect(q) \/ SameRun(q)
<1> DEFINE label == [at EXCEPT ![<<r, "main">>] = "pending"]
           queue == Append(pending, r)
<1>1. /\ label \in [Tasks -> Labels] /\ queue \in Seq(Runs)
      /\ active \subseteq Runs /\ pending \in Seq(Runs)
  BY AppendProperties DEF TypeInv, TypeOK, Labels
<1>2. Drain(queue, runningCount, label)
  BY DEF Enqueue
<1>3. ASSUME NEW i \in DOMAIN queue
      PROVE  queue[i] \in executionStarted \/ label[Main(queue[i])] = "pending"
  <2>1. (i \in DOMAIN pending /\ queue[i] = pending[i]) \/ queue[i] = r
    BY <1>1, AppendProperties
  <2>2. \A p \in Runs : label[Main(p)] = IF p = r THEN "pending" ELSE at[Main(p)]
    BY DEF RunFunctions, Main, Tasks
  <2> HIDE DEF label, queue
  <2>3. CASE i \in DOMAIN pending /\ queue[i] = pending[i]
    BY <1>1, <2>2, <2>3 DEF QueuedRunsWait
  <2> QED
    BY <2>1, <2>2, <2>3
<1>4. /\ label[Canceller(q)] = at[Canceller(q)]
      /\ label[Main(q)] = IF q = r THEN "pending" ELSE at[Main(q)]
  BY TasksDiffer DEF RunFunctions
<1>5. /\ SameFiles(q) /\ SameCancelled(q) /\ SameActive(q)
      /\ Returned(Main(r), "queued")
  BY DEF Enqueue, SameFiles, SameCancelled, SameActive, files, Main
<1> HIDE DEF label, queue
<1>6. /\ SameTask(Canceller(q))
      /\ \/ Moved(q, Main(q), label[Main(q)], io[Main(q)])
         \/ /\ label[Main(q)] = "pending"
            /\ q \notin cancelled
            /\ Recorded(q, Main(q), "preparing", "preparing")
  BY <1>1, <1>2, <1>3, <1>4, DrainEffect DEF SameTask
<1>7. CASE q = r
  BY <1>4, <1>5, <1>6, <1>7 DEF MainEffect, Returned
<1>8. CASE q # r
  BY <1>4, <1>5, <1>6, <1>8 DEF MainEffect, SameRun, Moved, SameTask
<1> QED
  BY <1>7, <1>8

LEMMA ReleaseEffect ==
    ASSUME RunFunctions, SlotInv, TypeInv, QueuedRunsWait,
           NEW q \in Runs, NEW r \in Runs, Release(r)
    PROVE  MainEffect(q) \/ SameRun(q)
<1> DEFINE label == [at EXCEPT ![<<r, "main">>] = "done"]
<1>1. /\ label \in [Tasks -> Labels] /\ pending \in Seq(Runs)
      /\ active \subseteq Runs /\ at[Main(r)] = "over"
  BY DEF TypeInv, TypeOK, Labels, Release, Main
<1>2. Drain(pending, runningCount - 1, label)
  BY DEF Release
<1>3. ASSUME NEW i \in DOMAIN pending
      PROVE  pending[i] \in executionStarted \/ label[Main(pending[i])] = "pending"
  BY <1>1 DEF RunFunctions, QueuedRunsWait, Main, Tasks
<1>4. /\ label[Canceller(q)] = at[Canceller(q)]
      /\ label[Main(q)] = IF q = r THEN "done" ELSE at[Main(q)]
  BY TasksDiffer DEF RunFunctions
<1>5. SameFiles(q) /\ SameCancelled(q) /\ SameActive(q)
  BY DEF Release, SameFiles, SameCancelled, SameActive, files
<1> HIDE DEF label
<1>6. /\ SameTask(Canceller(q))
      /\ \/ Moved(q, Main(q), label[Main(q)], io[Main(q)])
         \/ /\ label[Main(q)] = "pending"
            /\ q \notin cancelled
            /\ Recorded(q, Main(q), "preparing", "preparing")
  BY <1>1, <1>2, <1>3, <1>4, DrainEffect DEF SameTask
<1>7. CASE q = r
  BY <1>1, <1>4, <1>5, <1>6, <1>7 DEF MainEffect
<1>8. CASE q # r
  BY <1>4, <1>5, <1>6, <1>8 DEF MainEffect, SameRun, Moved, SameTask
<1> QED
  BY <1>7, <1>8

LEMMA QueuedCancellationEffect ==
    ASSUME RunFunctions, WorkspaceInv, TypeInv, QueuedRunsWait,
           NEW q \in Runs, NEW r \in Runs, QueuedCancellationOver(r)
    PROVE  MainEffect(q) \/ CancellerEffect(q) \/ SameRun(q)
<1> DEFINE label == [at EXCEPT ![<<r, "cancel">>] = "done"]
<1>1. /\ label \in [Tasks -> Labels] /\ pending \in Seq(Runs)
      /\ active \subseteq Runs
      /\ Returned(Canceller(r), "finalizingCancelled")
      /\ r \in cancelled
      /\ active' = active \ {r}
  BY DEF TypeInv, TypeOK, Labels, QueuedCancellationOver, Canceller, Returned,
         WorkspaceInv, QueuedCancellationsAreExclusive, Forget
<1>2. Drain(pending, runningCount, label)
  BY DEF QueuedCancellationOver
<1>3. /\ label[Main(q)] = at[Main(q)]
      /\ label[Canceller(q)] = IF q = r THEN "done" ELSE at[Canceller(q)]
  BY TasksDiffer DEF RunFunctions
<1>4. ASSUME NEW i \in DOMAIN pending
      PROVE  pending[i] \in executionStarted \/ label[Main(pending[i])] = "pending"
  BY <1>1 DEF RunFunctions, QueuedRunsWait, Main, Tasks
<1>5. SameFiles(q) /\ SameCancelled(q)
  BY DEF QueuedCancellationOver, SameFiles, SameCancelled, files
<1> HIDE DEF label
<1>6. /\ at'[Canceller(q)] = label[Canceller(q)]
      /\ io'[Canceller(q)] = io[Canceller(q)]
      /\ snapshot'[Canceller(q)] = snapshot[Canceller(q)]
      /\ lines'[Canceller(q)] = lines[Canceller(q)]
      /\ \/ Moved(q, Main(q), at[Main(q)], io[Main(q)])
         \/ /\ at[Main(q)] = "pending"
            /\ q \notin cancelled
            /\ Recorded(q, Main(q), "preparing", "preparing")
  BY <1>1, <1>2, <1>3, <1>4, DrainEffect
<1>7. CASE q = r
  <2>1. SameTask(Main(q)) /\ Moved(q, Canceller(q), "done", "returned") /\ q \notin active'
    BY <1>1, <1>3, <1>6, <1>7 DEF Moved, SameTask, Returned
  <2> QED
    BY <1>1, <1>5, <1>7, <2>1 DEF CancellerEffect
<1>8. CASE q # r
  <2>1. SameActive(q) /\ SameTask(Canceller(q))
    BY <1>1, <1>3, <1>6, <1>8 DEF SameActive, SameTask
  <2> QED
    BY <1>5, <1>6, <2>1 DEF MainEffect, SameRun, Moved, SameTask
<1> QED
  BY <1>7, <1>8

(* What any step but a crash does to a run.                                *)
LEMMA RunStep ==
    ASSUME WorkspaceInv, SlotInv, TypeInv, QueuedRunsWait, [Next]_vars, ~Crash,
           NEW q \in Runs
    PROVE  RunEffect(q)
<1>1. RunFunctions
  BY DEF TypeInv, TypeOK, RunFunctions
<1>2. CASE \E r \in Runs : \/ Enqueue(r)
                         \/ Release(r)
                         \/ QueuedCancellationOver(r)
  BY <1>1, <1>2, EnqueueEffect, ReleaseEffect, QueuedCancellationEffect DEF RunEffect
<1>3. CASE \E r \in Runs : \/ Start(r)
                         \/ StartFails(r)
                         \/ Prepared(r)
                         \/ NextRepository(r)
                         \/ RepositoryAnalyzed(r)
                         \/ Fails(r)
                         \/ Materialize(r)
                         \/ BecomeCurrent(r)
                         \/ Leave(r)
                         \/ CancellationRecorded(<<r, "main">>)
                         \/ CancellationOver(r)
                         \/ RunReconciled(r)
  BY <1>1, <1>3, MainStep DEF RunEffect
<1>4. CASE \E r \in Runs : \/ Cancel(r)
                         \/ CancelRequested(r)
                         \/ CancellationRecorded(<<r, "cancel">>)
                         \/ CancelFails(r)
  BY <1>1, <1>4, CancellerStep DEF RunEffect
<1>5. CASE \E r \in Runs : ReconcileRun(r)
  BY <1>1, <1>5, ReconcileStep DEF RunEffect
<1>6. ASSUME NEW t \in Tasks, FileSystem(t)
      PROVE  RunEffect(q)
  <2>1. t[1] = q => t = Main(q) \/ t = Canceller(q)
    BY DEF Main, Canceller, Tasks
  <2> QED
    BY <1>1, <1>6, <2>1, FileSystemStep DEF RunEffect
<1>7. CASE \/ \E s \in Subscribers : Stream(s) \/ \E r \in Runs : Subscribe(s, r)
           \/ \E r \in Runs : SelectCurrent(r)
           \/ Selection
           \/ Serve
           \/ UNCHANGED vars
  <2>1. UNCHANGED <<memory, at, io, snapshot, lines, files, cancelled, active>>
    BY <1>7
       DEF Stream, Read, Check, Decide, Subscribe, SelectCurrent, Selection,
           WriteSelected, RenameSelected, Serve, vars, schedule
  <2> QED
    BY <2>1
       DEF RunEffect, SameRun, SameTask, SameRecord, SameFiles, SameCancelled,
           SameActive, memory, files
<1> QED
  BY <1>2, <1>3, <1>4, <1>5, <1>6, <1>7 DEF Next, Execute, FinishCancel

-----------------------------------------------------------------------------
(* The pointer.  current.json gets the run that current.json.tmp holds, or *)
(* the one an operator selected, and both were chosen earlier: that they   *)
(* are valid when the pointer moves depends on the files of a completed    *)
(* run being left alone from then on.                                      *)

Ended   == {"completed", "failed"}
Settled == {"idle", "over", "done"}

(* Only a cancelled run has a task that cancels, and only execute's task   *)
(* writes the pointer.                                                     *)
TasksKeepToTheirWork(r) ==
    /\ at[Canceller(r)] # "idle" => r \in cancelled
    /\ at[Main(r)] \in {"over", "done"} => io[Main(r)] \in {"returned", "thrown"}
    /\ at[Canceller(r)] \in {"over", "done"} => io[Canceller(r)] \in {"returned", "thrown"}
    /\ io[Main(r)] \in {"currentWrite", "currentRename"} => at[Main(r)] = "selecting"
    /\ io[Canceller(r)] \notin {"currentWrite", "currentRename"}

(* A run that completed is not cancelled any more, and only execute's last *)
(* pieces follow.                                                          *)
EndedRunGoesOn(r) ==
    /\ state[r] \in Ended =>
          /\ r \notin cancelled
          /\ at[Main(r)] \in Settled \union {"completing", "finalizing", "selecting",
                                             "failing", "finalizingFailed"}
    /\ at[Main(r)] \in {"completing", "finalizing", "selecting"} => state[r] = "completed"

LastEventIsState(r) ==
    state[r] # "none" => events[r][Len(events[r])].state = state[r]

(* Nothing that says "completed" is in the hands of a task, or on disk,    *)
(* unless the run has completed.                                           *)
CompletedFilesAreOfEndedRun(r) ==
    /\ snapshot[Main(r)].state = "completed" => state[r] \in Ended
    /\ snapshot[Canceller(r)].state # "completed"
    /\ io[Main(r)] = "manifestRename" /\ manifestTmp[r].state = "completed"
          => state[r] \in Ended
    /\ io[Canceller(r)] = "manifestRename" => manifestTmp[r].state # "completed"
    /\ manifest[r].state = "completed" => state[r] \in Ended

(* finalize writes, renames and seals, in this order.                      *)
FinalizedInOrder(r) ==
    /\ at[Main(r)] = "finalizing" =>
          /\ snapshot[Main(r)].state = "completed"
          /\ io[Main(r)] = "manifestRename" => manifestTmp[r] = snapshot[Main(r)]
          /\ io[Main(r)] \in {"eventsCall", "eventsWrite", "eventsRename",
                              "integrity", "returned"}
                => manifest[r].state = "completed"
          /\ io[Main(r)] = "returned" => sealed[r] = <<manifest[r], eventLog[r]>>
    /\ at[Main(r)] = "selecting" =>
          /\ io[Main(r)] \in {"currentWrite", "currentRename", "returned", "thrown"}
          /\ Valid(r)

OrderedRun(r) ==
    /\ TasksKeepToTheirWork(r)
    /\ EndedRunGoesOn(r)
    /\ LastEventIsState(r)
    /\ CompletedFilesAreOfEndedRun(r)
    /\ FinalizedInOrder(r)

(* A run that may be in the way of the pointer.                            *)
Usable(r) ==
    /\ Valid(r)
    /\ \/ at[Main(r)] \in Settled
       \/ /\ at[Main(r)] = "selecting"
          /\ io[Main(r)] \in {"currentWrite", "currentRename", "returned"}

PointersAreUsable ==
    /\ \A e \in Engagements : currentTmp[e] # None =>
          EngagementOf[currentTmp[e]] = e /\ Usable(currentTmp[e])
    /\ \A e \in Engagements : selecting[e].stage # "none" =>
          /\ selecting[e].run \in Runs
          /\ EngagementOf[selecting[e].run] = e
          /\ Valid(selecting[e].run)
          /\ at[Main(selecting[e].run)] \in Settled

(* The inductive invariant.                                                *)
PointerInv ==
    /\ QueuedRunsWait
    /\ \A r \in Runs : OrderedRun(r)
    /\ PointersAreUsable

(* What the types say of one run.                                          *)
RunTypes(q) ==
    /\ events[q] \in Seq(Event)
    /\ eventLog[q] \in Seq(Event)
    /\ state[q] # "none" => events[q] # <<>>
    /\ at[Main(q)] = "idle" => io[Main(q)] = "none"
    /\ at[Canceller(q)] = "idle" => io[Canceller(q)] = "none"
    /\ state[q] = "none" => at[Main(q)] = "idle" /\ at[Canceller(q)] = "idle"

LEMMA TypesOfRun ==
    ASSUME SlotInv, TypeInv, NEW q \in Runs
    PROVE  RunTypes(q)
  BY TasksDiffer
     DEF SlotInv, NewRunsAreIdle, TypeInv, TypeOK, KnownRuns, IdleTasksDoNothing,
         RunTypes

(* The event that was recorded last.                                       *)
LEMMA LastAppended ==
    ASSUME NEW T, NEW log \in Seq(T), NEW event
    PROVE  /\ Append(log, event)[Len(Append(log, event))] = event
           /\ Len(Append(log, event)) = Len(log) + 1
  OBVIOUS

LEMMA RecordedLast ==
    ASSUME NEW q, NEW t, NEW next, NEW label, events[q] \in Seq(Event),
           Recorded(q, t, next, label)
    PROVE  events'[q][Len(events'[q])].state = next
<1> DEFINE event == [seq |-> Len(events[q]) + 1, state |-> next]
<1>1. events'[q] = Append(events[q], event)
  BY DEF Recorded
<1>2. event.state = next
  OBVIOUS
<1> HIDE DEF event
<1> QED
  BY <1>1, <1>2, LastAppended

LEMMA TasksKeepStep ==
    ASSUME NEW q \in Runs, RunTypes(q), OrderedRun(q), RunEffect(q)
    PROVE  TasksKeepToTheirWork(q)'
<1> USE DEF TasksKeepToTheirWork, OrderedRun, RunTypes
<1>1. CASE SameRun(q)
  BY <1>1 DEF SameRun, SameTask, SameCancelled
<1>2. CASE MainEffect(q)
  BY <1>2 DEF MainEffect, SameTask, SameCancelled, Returned, Recorded, Rewritten, Moved
<1>3. CASE CancellerEffect(q)
  BY <1>3
     DEF CancellerEffect, SameTask, SameCancelled, Returned, Recorded, Rewritten, Moved
<1>4. CASE ReconcileEffect(q)
  BY <1>4 DEF ReconcileEffect, SameTask, SameCancelled
<1>5. CASE FileEffect(q, Main(q), Canceller(q))
  BY <1>5 DEF FileEffect, SameTask, SameCancelled
<1>6. CASE FileEffect(q, Canceller(q), Main(q))
  BY <1>6 DEF FileEffect, SameTask, SameCancelled
<1> QED
  BY <1>1, <1>2, <1>3, <1>4, <1>5, <1>6 DEF RunEffect

LEMMA LastEventStep ==
    ASSUME NEW q \in Runs, RunTypes(q), OrderedRun(q), RunEffect(q)
    PROVE  LastEventIsState(q)'
<1> DEFINE P == events'[q][Len(events'[q])].state = state'[q]
<1>1. /\ \A t, next, label : Recorded(q, t, next, label) => P
      /\ \A t, label : Rewritten(q, t, label) => SameRecord(q)
      /\ \A t, label, stage : Moved(q, t, label, stage) => SameRecord(q)
  <2>1. ASSUME NEW t, NEW next, NEW label, Recorded(q, t, next, label)
        PROVE  P
    BY <2>1, RecordedLast DEF Recorded, RunTypes
  <2> QED
    BY <2>1 DEF Rewritten, Moved
<1> HIDE DEF P
<1>2. SameRecord(q) \/ P
  <2>1. CASE SameRun(q)
    BY <2>1 DEF SameRun
  <2>2. CASE MainEffect(q)
    BY <1>1, <2>2 DEF MainEffect
  <2>3. CASE CancellerEffect(q)
    BY <1>1, <2>3 DEF CancellerEffect
  <2>4. CASE ReconcileEffect(q)
    <3> DEFINE event == [seq |-> manifest[q].seq + 1, state |-> "interrupted"]
    <3>1. /\ events'[q] = Append(eventLog[q], event)
          /\ eventLog[q] \in Seq(Event)
          /\ event.state = "interrupted"
          /\ state'[q] = "interrupted"
      BY <2>4 DEF ReconcileEffect, RunTypes
    <3> HIDE DEF event
    <3> QED
      BY <3>1, LastAppended DEF P
  <2>5. CASE FileEffect(q, Main(q), Canceller(q)) \/ FileEffect(q, Canceller(q), Main(q))
    BY <2>5 DEF FileEffect
  <2> QED
    BY <2>1, <2>2, <2>3, <2>4, <2>5 DEF RunEffect
<1> QED
  BY <1>2 DEF P, SameRecord, LastEventIsState, OrderedRun

LEMMA EndedRunStep ==
    ASSUME NEW q \in Runs, RunTypes(q), OrderedRun(q), RunEffect(q)
    PROVE  EndedRunGoesOn(q)'
<1> USE DEF EndedRunGoesOn, TasksKeepToTheirWork, CompletedFilesAreOfEndedRun,
            OrderedRun, RunTypes, Ended, Settled
<1>1. CASE SameRun(q)
  BY <1>1 DEF SameRun, SameTask, SameRecord, SameCancelled
<1>2. CASE MainEffect(q)
  BY <1>2
     DEF MainEffect, SameTask, SameRecord, SameCancelled, Returned, Recorded,
         Rewritten, Moved, Working
<1>3. CASE CancellerEffect(q)
  BY <1>3
     DEF CancellerEffect, SameTask, SameRecord, SameCancelled, Returned, Recorded,
         Rewritten, Moved, Terminal, TerminalStates
<1>4. CASE ReconcileEffect(q)
  BY <1>4
     DEF ReconcileEffect, SameTask, SameCancelled, Interrupted, TerminalStates
<1>5. CASE FileEffect(q, Main(q), Canceller(q))
  BY <1>5 DEF FileEffect, SameTask, SameRecord, SameCancelled
<1>6. CASE FileEffect(q, Canceller(q), Main(q))
  BY <1>6 DEF FileEffect, SameTask, SameRecord, SameCancelled
<1> QED
  BY <1>1, <1>2, <1>3, <1>4, <1>5, <1>6 DEF RunEffect

LEMMA CompletedFilesStep ==
    ASSUME NEW q \in Runs, RunTypes(q), OrderedRun(q), RunEffect(q)
    PROVE  CompletedFilesAreOfEndedRun(q)'
<1> USE DEF EndedRunGoesOn, TasksKeepToTheirWork,
            CompletedFilesAreOfEndedRun, OrderedRun, RunTypes, Ended, Settled
<1>1. CASE SameRun(q)
  BY <1>1 DEF SameRun, SameTask, SameRecord, SameFiles
<1>2. CASE MainEffect(q)
  BY <1>2
     DEF MainEffect, SameTask, SameRecord, SameFiles, Returned, Recorded,
         Rewritten, Moved, Working, LastEventIsState
<1>3. CASE CancellerEffect(q)
  BY <1>3
     DEF CancellerEffect, SameTask, SameRecord, SameCancelled, SameFiles, Returned,
         Recorded, Rewritten, Moved, Terminal, TerminalStates, LastEventIsState
<1>4. CASE ReconcileEffect(q)
  BY <1>4
     DEF ReconcileEffect, SameTask, SameFiles, Interrupted, TerminalStates
<1>5. CASE FileEffect(q, Main(q), Canceller(q))
  BY <1>5 DEF FileEffect, SameTask, SameRecord, SameFiles, Absent
<1>6. CASE FileEffect(q, Canceller(q), Main(q))
  BY <1>6 DEF FileEffect, SameTask, SameRecord, SameFiles, Absent
<1> QED
  BY <1>1, <1>2, <1>3, <1>4, <1>5, <1>6 DEF RunEffect

LEMMA FinalizedStep ==
    ASSUME NEW q \in Runs, RunTypes(q), OrderedRun(q), RunEffect(q)
    PROVE  FinalizedInOrder(q)'
<1> USE DEF EndedRunGoesOn, LastEventIsState, TasksKeepToTheirWork,
            FinalizedInOrder, OrderedRun, RunTypes, Ended, Settled, Valid
<1>1. CASE SameRun(q)
  BY <1>1 DEF SameRun, SameTask, SameFiles
<1>2. CASE MainEffect(q)
  BY <1>2 DEF MainEffect, SameFiles, Returned, Recorded, Rewritten, Moved
<1>3. CASE CancellerEffect(q)
  BY <1>3 DEF CancellerEffect, SameTask, SameFiles
<1>4. CASE ReconcileEffect(q)
  BY <1>4 DEF ReconcileEffect
<1>5. CASE FileEffect(q, Main(q), Canceller(q))
  BY <1>5 DEF FileEffect, SameFiles, IsFinalizing
<1>6. CASE FileEffect(q, Canceller(q), Main(q))
  BY <1>6 DEF FileEffect, SameTask
<1> QED
  BY <1>1, <1>2, <1>3, <1>4, <1>5, <1>6 DEF RunEffect

(* A run the pointer may move to stays one, until its own rename finds     *)
(* that the pointer has moved.                                             *)
LEMMA UsableStep ==
    ASSUME NEW q \in Runs, RunTypes(q), OrderedRun(q), RunEffect(q), Usable(q)
    PROVE  /\ Valid(q)'
           /\ at[Main(q)] \in Settled => at'[Main(q)] \in Settled
           /\ \/ Usable(q)'
              \/ io[Main(q)] = "currentRename" /\ currentTmp[EngagementOf[q]] = None
<1> USE DEF EndedRunGoesOn, TasksKeepToTheirWork, CompletedFilesAreOfEndedRun,
            FinalizedInOrder, OrderedRun, RunTypes, Ended, Settled, Valid, Usable
<1>1. CASE SameRun(q)
  BY <1>1 DEF SameRun, SameTask, SameFiles
<1>2. CASE MainEffect(q)
  BY <1>2 DEF MainEffect, SameFiles, Returned, Recorded, Rewritten, Moved, Working
<1>3. CASE CancellerEffect(q)
  BY <1>3 DEF CancellerEffect, SameTask, SameFiles
<1>4. CASE ReconcileEffect(q)
  BY <1>4 DEF ReconcileEffect, Interrupted, TerminalStates
<1>5. CASE FileEffect(q, Main(q), Canceller(q))
  BY <1>5 DEF FileEffect, SameFiles
<1>6. CASE FileEffect(q, Canceller(q), Main(q))
  BY <1>6 DEF FileEffect, SameTask, SameFiles
<1> QED
  BY <1>1, <1>2, <1>3, <1>4, <1>5, <1>6 DEF RunEffect

(* A crash leaves the files, and nobody who works on them.                 *)
LEMMA CrashKeepsOrder ==
    ASSUME Crash, NEW q \in Runs, OrderedRun(q)
    PROVE  /\ OrderedRun(q)'
           /\ at'[Main(q)] = "idle"
           /\ Valid(q) => Valid(q)'
<1>1. /\ Main(q) \in Tasks /\ Canceller(q) \in Tasks
      /\ SameFiles(q) /\ SameRecord(q)
      /\ cancelled' = {}
      /\ at' = [t \in Tasks |-> "idle"]
      /\ io' = [t \in Tasks |-> "none"]
      /\ snapshot' = [t \in Tasks |-> Absent]
  BY TasksDiffer DEF Crash, SameFiles, SameRecord, files, memory
<1>2. /\ at'[Main(q)] = "idle" /\ at'[Canceller(q)] = "idle"
      /\ io'[Main(q)] = "none" /\ io'[Canceller(q)] = "none"
      /\ snapshot'[Main(q)] = Absent /\ snapshot'[Canceller(q)] = Absent
  BY <1>1
<1>3. TasksKeepToTheirWork(q)' /\ FinalizedInOrder(q)'
  BY <1>2 DEF TasksKeepToTheirWork, FinalizedInOrder
<1>4. EndedRunGoesOn(q)' /\ LastEventIsState(q)'
  BY <1>1, <1>2 DEF OrderedRun, EndedRunGoesOn, LastEventIsState, SameRecord, Settled
<1>5. CompletedFilesAreOfEndedRun(q)'
  BY <1>1, <1>2
     DEF OrderedRun, CompletedFilesAreOfEndedRun, SameRecord, SameFiles, Absent
<1> QED
  BY <1>1, <1>2, <1>3, <1>4, <1>5 DEF OrderedRun, Valid, SameFiles

(* Every step keeps the order of the writes of every run.                  *)
LEMMA OrderStep ==
    ASSUME WorkspaceInv, SlotInv, TypeInv, PointerInv, [Next]_vars, NEW q \in Runs
    PROVE  /\ OrderedRun(q)'
           /\ Usable(q) =>
                 /\ Valid(q)'
                 /\ at[Main(q)] \in Settled => at'[Main(q)] \in Settled
                 /\ \/ Usable(q)'
                    \/ io[Main(q)] = "currentRename" /\ currentTmp[EngagementOf[q]] = None
<1>1. OrderedRun(q) /\ QueuedRunsWait
  BY DEF PointerInv
<1>2. CASE Crash
  BY <1>1, <1>2, CrashKeepsOrder DEF Usable, Settled
<1>3. CASE ~Crash
  <2>1. RunEffect(q) /\ RunTypes(q)
    BY <1>1, <1>3, RunStep, TypesOfRun
  <2> QED
    BY <1>1, <2>1, TasksKeepStep, EndedRunStep, LastEventStep, CompletedFilesStep,
       FinalizedStep, UsableStep
       DEF OrderedRun
<1> QED
  BY <1>2, <1>3

(* Who writes current.json.tmp, and what an operator selects.              *)
LEMMA PointerStep ==
    ASSUME WorkspaceInv, SlotInv, TypeInv, PointerInv, [Next]_vars
    PROVE  PointersAreUsable'
<1> DEFINE Stays(q) ==
              /\ Valid(q)'
              /\ at[Main(q)] \in Settled => at'[Main(q)] \in Settled
              /\ \/ Usable(q)'
                 \/ io[Main(q)] = "currentRename" /\ currentTmp[EngagementOf[q]] = None
<1>1. \A q \in Runs : Usable(q) => Stays(q)
  BY OrderStep
<1> HIDE DEF Stays
<1>2. /\ PointersAreUsable
      /\ currentTmp \in [Engagements -> Runs \union {None}]
      /\ selecting \in [Engagements ->
            [run : Runs \union {None}, stage : {"none", "write", "rename"}]]
      /\ EngagementOf \in [Runs -> Engagements]
      /\ active \subseteq Runs
      /\ \A q \in Runs : OrderedRun(q)
  BY BoundsAssumption DEF PointerInv, TypeInv, TypeOK
<1>3. ASSUME NEW e \in Engagements, currentTmp[e] # None
      PROVE  \E q \in Runs : q = currentTmp[e] /\ EngagementOf[q] = e /\ Usable(q)'
  BY <1>1, <1>2, <1>3 DEF PointersAreUsable, Stays
<1>4. ASSUME NEW e \in Engagements, selecting[e].stage # "none"
      PROVE  \E q \in Runs : /\ q = selecting[e].run
                             /\ EngagementOf[q] = e
                             /\ Valid(q)'
                             /\ at'[Main(q)] \in Settled
  BY <1>1, <1>2, <1>4 DEF PointersAreUsable, Stays, Usable
<1>5. ASSUME currentTmp' = currentTmp, selecting' = selecting
      PROVE  PointersAreUsable'
  BY <1>2, <1>3, <1>4, <1>5 DEF PointersAreUsable
<1>6. ASSUME NEW t \in Tasks, WriteCurrent(t)
      PROVE  PointersAreUsable'
  <2>1. PICK q \in Runs : t = Main(q) \/ t = Canceller(q)
    BY DEF Tasks, Main, Canceller
  <2>2. t = Main(q) /\ at[t] = "selecting" /\ t[1] = q
    BY <1>2, <1>6, <2>1, TasksDiffer
       DEF WriteCurrent, OrderedRun, TasksKeepToTheirWork
  <2>3. Usable(q)
    BY <1>2, <1>6, <2>2 DEF WriteCurrent, OrderedRun, FinalizedInOrder, Usable
  <2>4. Usable(q)'
    BY <1>1, <1>6, <2>2, <2>3 DEF WriteCurrent, Stays
  <2>5. /\ currentTmp' = [currentTmp EXCEPT ![EngagementOf[q]] = q]
        /\ selecting' = selecting
    BY <1>6, <2>2 DEF WriteCurrent, operator
  <2> QED
    BY <1>2, <1>3, <1>4, <2>4, <2>5 DEF PointersAreUsable
<1>7. ASSUME NEW t \in Tasks, RenameCurrent(t)
      PROVE  PointersAreUsable'
  <2>1. /\ \E e : currentTmp' = [currentTmp EXCEPT ![e] = None] \/ currentTmp' = currentTmp
        /\ selecting' = selecting
    BY <1>7 DEF RenameCurrent, operator, pointer
  <2> QED
    BY <1>2, <1>3, <1>4, <2>1 DEF PointersAreUsable
<1>8. ASSUME NEW r \in Runs, SelectCurrent(r)
      PROVE  PointersAreUsable'
  <2>1. /\ r \notin active
        /\ Valid(r)
        /\ selecting' = [selecting EXCEPT ![EngagementOf[r]] = [run |-> r, stage |-> "write"]]
        /\ UNCHANGED <<at, files, currentTmp>>
    BY <1>8 DEF SelectCurrent, pointer
  <2>2. at[Main(r)] \in Settled
    BY <1>2, <2>1
       DEF OrderedRun, CompletedFilesAreOfEndedRun, EndedRunGoesOn, Valid,
           WorkspaceInv, WorkingRunsAreActive, Working, Main
  <2>3. Valid(r)' /\ at'[Main(r)] \in Settled
    BY <2>1, <2>2 DEF Valid, files
  <2> QED
    BY <1>2, <1>3, <1>4, <2>1, <2>3 DEF PointersAreUsable
<1>9. ASSUME NEW e \in Engagements, WriteSelected(e)
      PROVE  PointersAreUsable'
  <2>1. /\ selecting[e].stage = "write"
        /\ currentTmp' = [currentTmp EXCEPT ![e] = selecting[e].run]
        /\ selecting' = [selecting EXCEPT ![e].stage = "rename"]
        /\ UNCHANGED <<at, files>>
    BY <1>9 DEF WriteSelected
  <2>2. \E q \in Runs : q = selecting[e].run /\ EngagementOf[q] = e /\ Usable(q)'
    BY <1>4, <2>1 DEF Usable
  <2> QED
    BY <1>2, <1>3, <1>4, <2>1, <2>2 DEF PointersAreUsable
<1>10. ASSUME NEW e \in Engagements, RenameSelected(e)
      PROVE  PointersAreUsable'
  <2>1. /\ selecting' = [selecting EXCEPT ![e] = [run |-> None, stage |-> "none"]]
        /\ currentTmp' = currentTmp \/ currentTmp' = [currentTmp EXCEPT ![e] = None]
    BY <1>10 DEF RenameSelected, pointer
  <2> QED
    BY <1>2, <1>3, <1>4, <2>1 DEF PointersAreUsable
<1>11. CASE Crash
  <2>1. /\ selecting' = [e \in Engagements |-> [run |-> None, stage |-> "none"]]
        /\ currentTmp' = currentTmp
    BY <1>11 DEF Crash, pointer
  <2> QED
    BY <1>2, <1>3, <2>1 DEF PointersAreUsable
<1>12. CASE \E r \in Runs : \/ Start(r)
                          \/ Execute(r)
                          \/ Cancel(r)
                          \/ FinishCancel(r)
                          \/ ReconcileRun(r)
                          \/ RunReconciled(r)
  BY <1>5, <1>12, MemoryStep DEF pointer, operator
<1>13. CASE \/ \E t \in Tasks : FileSystem(t) /\ ~WriteCurrent(t) /\ ~RenameCurrent(t)
            \/ \E s \in Subscribers : Stream(s) \/ \E r \in Runs : Subscribe(s, r)
            \/ Serve
            \/ UNCHANGED vars
  BY <1>5, <1>13
     DEF FileSystem, WriteManifest, RenameManifest, SerializeEvents, WriteEvents,
         RenameEvents, WriteIntegrity, Stream, Read, Check, Decide, Subscribe,
         Serve, vars, pointer, operator
<1> QED
  BY <1>6, <1>7, <1>8, <1>9, <1>10, <1>11, <1>12, <1>13 DEF Next, Selection, FileSystem

LEMMA InitPointer == Init => PointerInv
<1> SUFFICES ASSUME Init PROVE PointerInv
  OBVIOUS
<1>1. QueuedRunsWait
  BY DEF Init, QueuedRunsWait
<1>2. ASSUME NEW r \in Runs
      PROVE  OrderedRun(r)
  <2>1. /\ at[Main(r)] = "idle" /\ at[Canceller(r)] = "idle"
        /\ io[Main(r)] = "none" /\ io[Canceller(r)] = "none"
        /\ snapshot[Main(r)] = Absent /\ snapshot[Canceller(r)] = Absent
        /\ state[r] = "none"
        /\ manifest[r] = Absent
    BY TasksDiffer DEF Init
  <2> QED
    BY <2>1
       DEF OrderedRun, TasksKeepToTheirWork, EndedRunGoesOn, LastEventIsState,
           CompletedFilesAreOfEndedRun, FinalizedInOrder, Ended, Absent
<1>3. PointersAreUsable
  BY DEF Init, PointersAreUsable
<1> QED
  BY <1>1, <1>2, <1>3 DEF PointerInv

LEMMA PointerInvariant == Spec => [](WorkspaceInv /\ SlotInv /\ TypeInv /\ PointerInv)
<1>1. Init => PointerInv
  BY InitPointer
<1>2. WorkspaceInv /\ SlotInv /\ TypeInv /\ PointerInv /\ [Next]_vars => PointerInv'
  BY OrderStep, PointerStep, WaitingStep DEF PointerInv
<1> QED
  BY <1>1, <1>2, TypeInvariant, PTL DEF Spec

(* current.json of a workspace moves only to a run that is valid then,     *)
(* whether execute or an operator moves it, and whatever a host that died  *)
(* left in current.json.tmp: setCurrent of the store renames whatever it   *)
(* finds there.                                                            *)
THEOREM CurrentIsValid == Spec => CurrentAdvancesToValidRuns
<1>1. ASSUME WorkspaceInv, SlotInv, TypeInv, PointerInv, [Next]_vars,
             NEW e \in Engagements, current'[e] # current[e]
      PROVE  Valid(current'[e])
  <2>0. /\ current \in [Engagements -> Runs \union {None}]
        /\ PointersAreUsable
    BY <1>1 DEF TypeInv, TypeOK, PointerInv
  <2>1. current'[e] = currentTmp[e] /\ currentTmp[e] # None
    <3>1. CASE \E t \in Tasks : RenameCurrent(t)
      BY <1>1, <2>0, <3>1 DEF RenameCurrent, pointer
    <3>2. CASE \E f \in Engagements : RenameSelected(f)
      BY <1>1, <2>0, <3>2 DEF RenameSelected, pointer
    <3>3. CASE \E r \in Runs : \/ Start(r)
                             \/ Execute(r)
                             \/ Cancel(r)
                             \/ FinishCancel(r)
                             \/ ReconcileRun(r)
                             \/ RunReconciled(r)
      BY <1>1, <3>3, MemoryStep DEF pointer
    <3>4. CASE \/ \E t \in Tasks : FileSystem(t) /\ ~RenameCurrent(t)
               \/ \E s \in Subscribers : Stream(s) \/ \E r \in Runs : Subscribe(s, r)
               \/ \E r \in Runs : SelectCurrent(r)
               \/ \E f \in Engagements : WriteSelected(f)
               \/ Crash
               \/ Serve
               \/ UNCHANGED vars
      BY <1>1, <3>4
         DEF FileSystem, WriteManifest, RenameManifest, SerializeEvents, WriteEvents,
             RenameEvents, WriteIntegrity, WriteCurrent, Stream, Read, Check, Decide,
             Subscribe, SelectCurrent, WriteSelected, Crash, Serve, vars, pointer
    <3> QED
      BY <1>1, <3>1, <3>2, <3>3, <3>4 DEF Next, Selection, FileSystem
  <2> QED
    BY <2>0, <2>1 DEF PointersAreUsable, Usable
<1>2. WorkspaceInv /\ SlotInv /\ TypeInv /\ PointerInv /\ [Next]_vars
        => [\A e \in Engagements : current'[e] # current[e] => Valid(current'[e])]_vars
  BY <1>1
<1> QED
  BY <1>2, PointerInvariant, PTL DEF Spec, CurrentAdvancesToValidRuns

-----------------------------------------------------------------------------
(* A run that nobody cancels has one task, and that task finds its files   *)
(* as it left them.  The rest is about such a run; other runs may be       *)
(* cancelled, of its workspace too.                                        *)

(* The task writes what was recorded last, and no rename of it fails but   *)
(* that of current.json, which an operator may have taken away.            *)
WritesAlone(r) ==
    /\ r \notin cancelled
    /\ at[Main(r)] \notin {"cancelling", "cancelled", "finalizingCancelled"}
    /\ io[Main(r)] = "thrown" => at[Main(r)] = "selecting"
    /\ at[Main(r)] # "idle" =>
          /\ state[r] # "none"
          /\ snapshot[Main(r)] = events[r][Len(events[r])]
          /\ io[Main(r)] = "manifestRename" => manifestTmp[r] = snapshot[Main(r)]
          /\ io[Main(r)] \notin {"none", "manifestWrite", "manifestRename"}
                => manifest[r] = snapshot[Main(r)]
          /\ io[Main(r)] = "eventsWrite" => lines[Main(r)] = events[r]
          /\ io[Main(r)] = "eventsRename" => eventLogTmp[r] = events[r]

(* The run goes from queued to an end, and is active until then.           *)
EndsTerminal(r) ==
    /\ at[Main(r)] \in {"over", "done"} =>
          io[Main(r)] = "returned" /\ state[r] \in {"completed", "failed", "interrupted"}
    /\ at[Main(r)] \in {"failing", "finalizingFailed"} => state[r] = "failed"
    /\ at[Main(r)] = "reconciling" => state[r] = "interrupted"
    /\ at[Main(r)] \in Working \union {"queued", "pending"} => r \in active
    /\ state[r] # "cancelled" /\ manifest[r].state # "cancelled"

(* A dead process left nothing in progress that was not reconciled before  *)
(* the host serves again.                                                  *)
ReconciledFirst(r) == serving /\ at[Main(r)] = "idle" => ~Interrupted(r)

Increasing(log) == \A i, j \in DOMAIN log : i < j => log[i].seq < log[j].seq
Numbered(log)   == \A i \in DOMAIN log : log[i].seq = i

(* The log on disk is not ahead of the manifest, by which reconcile        *)
(* numbers its event.                                                      *)
LogsAreOrdered(r) ==
    /\ state[r] = "none" => events[r] = NoLog /\ manifest[r] = Absent
    /\ at[Main(r)] \notin {"idle", "reconciling", "done"} => Numbered(events[r])
    /\ Increasing(events[r])
    /\ Increasing(eventLog[r])
    /\ \A i \in DOMAIN eventLog[r] : eventLog[r][i].seq <= manifest[r].seq
    /\ at[Main(r)] # "idle" => manifest[r].seq <= snapshot[Main(r)].seq

SoloRun(r) ==
    /\ WritesAlone(r)
    /\ EndsTerminal(r)
    /\ ReconciledFirst(r)
    /\ LogsAreOrdered(r)

SoloInv == \A r \in Runs \ Cancellable : SoloRun(r)

(* Such a run has only its main task.                                      *)
LEMMA NotCancelled ==
    ASSUME NEW q \in Runs \ Cancellable, RunTypes(q), OrderedRun(q), WritesAlone(q),
           RunEffect(q)
    PROVE  /\ at[Canceller(q)] = "idle" /\ io[Canceller(q)] = "none"
           /\ q \notin cancelled'
           /\ SameRun(q) \/ MainEffect(q) \/ ReconcileEffect(q)
                 \/ FileEffect(q, Main(q), Canceller(q))
<1>1. at[Canceller(q)] = "idle" /\ io[Canceller(q)] = "none" /\ q \notin cancelled
  BY DEF RunTypes, OrderedRun, TasksKeepToTheirWork, WritesAlone
<1>2. ~CancellerEffect(q)
  BY <1>1 DEF CancellerEffect, Returned
<1>3. ~FileEffect(q, Canceller(q), Main(q))
  BY <1>1 DEF FileEffect
<1>4. SameRun(q) \/ MainEffect(q) \/ ReconcileEffect(q)
         \/ FileEffect(q, Main(q), Canceller(q))
  BY <1>2, <1>3 DEF RunEffect
<1>5. SameCancelled(q)
  BY <1>4 DEF SameRun, MainEffect, ReconcileEffect, FileEffect
<1> QED
  BY <1>1, <1>4, <1>5 DEF SameCancelled

(* What was recorded is the last event, and no placeholder.                *)
LEMMA LastEvents ==
    ASSUME NEW q \in Runs, RunTypes(q), LastEventIsState(q)
    PROVE  /\ \A t, next, label : Recorded(q, t, next, label) =>
                 snapshot'[t] = events'[q][Len(events'[q])]
           /\ \A t, label : Rewritten(q, t, label) =>
                 SameRecord(q) /\ snapshot'[t] = events'[q][Len(events'[q])]
           /\ state[q] # "none" => events[q][Len(events[q])] # Absent /\ events[q] # NoLog
<1>1. ASSUME NEW t, NEW next, NEW label, Recorded(q, t, next, label)
      PROVE  snapshot'[t] = events'[q][Len(events'[q])]
  <2> DEFINE event == [seq |-> Len(events[q]) + 1, state |-> next]
  <2>1. events'[q] = Append(events[q], event) /\ snapshot'[t] = event
    BY <1>1 DEF Recorded
  <2> HIDE DEF event
  <2> QED
    BY <2>1, LastAppended DEF RunTypes
<1>2. \A t, label : Rewritten(q, t, label) =>
         SameRecord(q) /\ snapshot'[t] = events'[q][Len(events'[q])]
  BY DEF Rewritten, SameRecord
<1>3. state[q] # "none" => events[q][Len(events[q])] # Absent /\ events[q] # NoLog
  BY DEF RunTypes, LastEventIsState, Absent, NoLog
<1> QED
  BY <1>1, <1>2, <1>3

LEMMA WritesAloneStep ==
    ASSUME NEW q \in Runs \ Cancellable, RunTypes(q), OrderedRun(q), RunEffect(q),
           SoloRun(q)
    PROVE  WritesAlone(q)'
<1>0. /\ q \in Runs
      /\ LastEventIsState(q)
      /\ q \notin cancelled /\ q \notin cancelled'
      /\ WritesAlone(q)
      /\ SameRun(q) \/ MainEffect(q) \/ ReconcileEffect(q)
            \/ FileEffect(q, Main(q), Canceller(q))
  BY NotCancelled DEF OrderedRun, SoloRun, WritesAlone
<1>1. CASE SameRun(q)
  BY <1>0, <1>1 DEF SameRun, SameTask, SameRecord, SameFiles, WritesAlone
<1>2. CASE MainEffect(q)
  <2>1. state'[q] # "none"
    BY <1>0, <1>2 DEF MainEffect, Recorded, Rewritten, Moved, SameRecord, Returned,
                      WritesAlone, RunTypes
  <2>2. snapshot'[Main(q)] = events'[q][Len(events'[q])]
    BY <1>0, <1>2, LastEvents
       DEF MainEffect, Moved, SameRecord, Returned, WritesAlone
  <2> QED
    BY <1>0, <1>2, <2>1, <2>2
       DEF MainEffect, Recorded, Rewritten, Moved, SameRecord, SameFiles, Returned,
           WritesAlone
<1>3. CASE ReconcileEffect(q)
  <2> DEFINE event == [seq |-> manifest[q].seq + 1, state |-> "interrupted"]
  <2>1. /\ events'[q] = Append(eventLog[q], event)
        /\ eventLog[q] \in Seq(Event)
        /\ snapshot'[Main(q)] = event
        /\ state'[q] = "interrupted"
        /\ io'[Main(q)] = "manifestWrite"
        /\ at'[Main(q)] = "reconciling"
    BY <1>3 DEF ReconcileEffect, RunTypes
  <2> HIDE DEF event
  <2>2. snapshot'[Main(q)] = events'[q][Len(events'[q])]
    BY <2>1, LastAppended
  <2> QED
    BY <1>0, <2>1, <2>2 DEF WritesAlone
<1>4. CASE FileEffect(q, Main(q), Canceller(q))
  <2>1. state[q] # "none" => events[q][Len(events[q])] # Absent /\ events[q] # NoLog
    BY <1>0, LastEvents
  <2>2. at[Main(q)] # "idle"
    BY <1>4 DEF FileEffect, RunTypes
  <2> QED
    BY <1>0, <1>4, <2>1, <2>2
       DEF FileEffect, SameRecord, SameFiles, WritesAlone, IsFinalizing, OrderedRun,
           TasksKeepToTheirWork
<1> QED
  BY <1>0, <1>1, <1>2, <1>3, <1>4

LEMMA EndsTerminalStep ==
    ASSUME NEW q \in Runs \ Cancellable, RunTypes(q), OrderedRun(q), RunEffect(q),
           SoloRun(q)
    PROVE  EndsTerminal(q)'
<1>0. /\ LastEventIsState(q) /\ EndedRunGoesOn(q) /\ TasksKeepToTheirWork(q)
      /\ q \notin cancelled
      /\ WritesAlone(q) /\ EndsTerminal(q)
      /\ SameRun(q) \/ MainEffect(q) \/ ReconcileEffect(q)
            \/ FileEffect(q, Main(q), Canceller(q))
  BY NotCancelled DEF OrderedRun, SoloRun, WritesAlone
<1>1. CASE SameRun(q)
  BY <1>0, <1>1 DEF SameRun, SameTask, SameRecord, SameFiles, SameActive, EndsTerminal
<1>2. CASE MainEffect(q)
  BY <1>0, <1>2
     DEF MainEffect, Recorded, Rewritten, Moved, SameRecord, SameFiles, SameActive,
         Returned, WritesAlone, EndsTerminal, EndedRunGoesOn, Working
<1>3. CASE ReconcileEffect(q)
  BY <1>0, <1>3 DEF ReconcileEffect, SameFiles, EndsTerminal, Working
<1>4. CASE FileEffect(q, Main(q), Canceller(q))
  <2>1. at[Main(q)] # "idle"
    BY <1>4 DEF FileEffect, RunTypes
  <2>2. manifest'[q].state # "cancelled"
    BY <1>0, <1>4, <2>1
       DEF FileEffect, SameFiles, WritesAlone, EndsTerminal, LastEventIsState
  <2> QED
    BY <1>0, <1>4, <2>2 DEF FileEffect, SameRecord, SameActive, EndsTerminal
<1> QED
  BY <1>0, <1>1, <1>2, <1>3, <1>4

(* Only a death and Serve, which waits until no run is interrupted, change *)
(* whether the host serves.                                                *)
LEMMA ServingStep ==
    ASSUME [Next]_vars, ~Crash
    PROVE  Serve \/ UNCHANGED host
<1>1. CASE Serve
  BY <1>1
<1>2. CASE \E r \in Runs : \/ Start(r)
                         \/ Execute(r)
                         \/ Cancel(r)
                         \/ FinishCancel(r)
                         \/ ReconcileRun(r)
                         \/ RunReconciled(r)
  BY <1>2, MemoryStep
<1>3. CASE \/ \E t \in Tasks : FileSystem(t)
           \/ \E s \in Subscribers : Stream(s) \/ \E r \in Runs : Subscribe(s, r)
           \/ \E r \in Runs : SelectCurrent(r)
           \/ Selection
           \/ UNCHANGED vars
  BY <1>3
     DEF FileSystem, WriteManifest, RenameManifest, SerializeEvents, WriteEvents,
         RenameEvents, WriteIntegrity, WriteCurrent, RenameCurrent, Stream, Read,
         Check, Decide, Subscribe, SelectCurrent, Selection, WriteSelected,
         RenameSelected, vars
<1> QED
  BY <1>1, <1>2, <1>3 DEF Next

LEMMA ReconciledStep ==
    ASSUME NEW q \in Runs \ Cancellable, RunTypes(q), OrderedRun(q), RunEffect(q),
           SoloRun(q), [Next]_vars, ~Crash
    PROVE  ReconciledFirst(q)'
<1>1. SUFFICES ASSUME serving', at'[Main(q)] = "idle"
               PROVE  ~Interrupted(q)'
  BY DEF ReconciledFirst
<1>2. SameRun(q) \/ MainEffect(q) \/ ReconcileEffect(q)
         \/ FileEffect(q, Main(q), Canceller(q))
  BY NotCancelled DEF SoloRun
<1>3. at[Main(q)] = "idle" /\ manifest'[q] = manifest[q]
  BY <1>1, <1>2
     DEF SameRun, SameTask, SameFiles, MainEffect, Recorded, Rewritten, Moved,
         ReconcileEffect, FileEffect, RunTypes
<1> QED
  BY <1>1, <1>3, ServingStep DEF SoloRun, ReconciledFirst, Interrupted, Serve, host

(* Numbers of the events of a log.                                         *)
LEMMA EventNumbers ==
    ASSUME NEW log \in Seq(Event), NEW i \in DOMAIN log
    PROVE  log[i].seq \in Nat
<1>1. log[i] \in Event
  OBVIOUS
<1> QED
  BY <1>1 DEF Event

LEMMA AppendNumbered ==
    ASSUME NEW log \in Seq(Event), Numbered(log), NEW next
    PROVE  Numbered(Append(log, [seq |-> Len(log) + 1, state |-> next]))
<1> DEFINE event == [seq |-> Len(log) + 1, state |-> next]
           longer == Append(log, event)
<1>1. /\ Len(log) \in Nat
      /\ DOMAIN log = 1 .. Len(log)
      /\ DOMAIN longer = 1 .. Len(log) + 1
      /\ \A i \in 1 .. Len(log) : longer[i] = log[i]
      /\ longer[Len(log) + 1] = event
      /\ event.seq = Len(log) + 1
  OBVIOUS
<1> HIDE DEF longer, event
<1>2. Numbered(longer)
  BY <1>1 DEF Numbered
<1> QED
  BY <1>2 DEF longer, event

LEMMA AppendIncreasing ==
    ASSUME NEW log \in Seq(Event), Increasing(log), NEW n \in Nat,
           \A i \in DOMAIN log : log[i].seq <= n, NEW next
    PROVE  Increasing(Append(log, [seq |-> n + 1, state |-> next]))
<1> DEFINE event == [seq |-> n + 1, state |-> next]
           longer == Append(log, event)
<1>1. /\ Len(log) \in Nat
      /\ DOMAIN log = 1 .. Len(log)
      /\ DOMAIN longer = 1 .. Len(log) + 1
      /\ \A i \in 1 .. Len(log) : longer[i] = log[i]
      /\ longer[Len(log) + 1] = event
      /\ event.seq = n + 1
  OBVIOUS
<1> HIDE DEF longer, event
<1>2. \A i \in 1 .. Len(log) : log[i].seq \in Nat
  BY <1>1, EventNumbers
<1>3. Increasing(longer)
  BY <1>1, <1>2 DEF Increasing
<1> QED
  BY <1>3 DEF longer, event

LEMMA LastIsGreatest ==
    ASSUME NEW log \in Seq(Event), Increasing(log), NEW i \in DOMAIN log
    PROVE  log[i].seq <= log[Len(log)].seq
<1>1. i \in 1 .. Len(log) /\ Len(log) \in DOMAIN log
  OBVIOUS
<1> QED
  BY <1>1, EventNumbers DEF Increasing

(* What the types say of the numbers of one run.                           *)
NumberTypes(q) == manifest[q] \in Snapshot /\ snapshot[Main(q)] \in Snapshot

LEMMA TypesOfNumbers ==
    ASSUME TypeInv, NEW q \in Runs
    PROVE  NumberTypes(q)
  BY TasksDiffer DEF TypeInv, TypeOK, NumberTypes

LEMMA LogsStep ==
    ASSUME NEW q \in Runs \ Cancellable, RunTypes(q), NumberTypes(q), OrderedRun(q),
           RunEffect(q), SoloRun(q)
    PROVE  LogsAreOrdered(q)'
<1>0. /\ SameRun(q) \/ MainEffect(q) \/ ReconcileEffect(q)
            \/ FileEffect(q, Main(q), Canceller(q))
      /\ LogsAreOrdered(q) /\ WritesAlone(q) /\ EndsTerminal(q)
      /\ events[q] \in Seq(Event) /\ eventLog[q] \in Seq(Event)
      /\ manifest[q].seq \in Nat /\ snapshot[Main(q)].seq \in Nat
      /\ state[q] # "none" => events[q] # <<>>
  <2>1. manifest[q].seq \in Nat /\ snapshot[Main(q)].seq \in Nat
    BY DEF NumberTypes, Snapshot, Event, Absent
  <2> QED
    BY <2>1, NotCancelled DEF SoloRun, RunTypes
<1>1. CASE SameRun(q)
  BY <1>0, <1>1 DEF SameRun, SameTask, SameRecord, SameFiles, LogsAreOrdered
<1>2. CASE MainEffect(q)
  <2>1. SameFiles(q)
    BY <1>2 DEF MainEffect
  <2>2. ASSUME NEW next, NEW label, Recorded(q, Main(q), next, label),
               at[Main(q)] \notin {"idle", "reconciling", "done"} \/ state[q] = "none",
               next # "none"
        PROVE  LogsAreOrdered(q)'
    <3>1. Numbered(events[q])
      BY <1>0, <2>2 DEF LogsAreOrdered, Numbered, NoLog
    <3>2. Numbered(events'[q]) /\ Increasing(events'[q])
      <4>1. events'[q] = Append(events[q], [seq |-> Len(events[q]) + 1, state |-> next])
        BY <2>2 DEF Recorded
      <4>2. Numbered(events'[q])
        BY <1>0, <3>1, <4>1, AppendNumbered
      <4> QED
        BY <4>2 DEF Numbered, Increasing
    <3>3. manifest[q].seq <= Len(events[q])
      <4>1. CASE state[q] = "none"
        BY <1>0, <4>1 DEF LogsAreOrdered, NoLog, Absent
      <4>2. CASE state[q] # "none"
        <5>1. snapshot[Main(q)] = events[q][Len(events[q])]
          BY <1>0, <2>2, <4>2 DEF WritesAlone
        <5>2. Len(events[q]) \in DOMAIN events[q]
          BY <1>0, <4>2
        <5> QED
          BY <1>0, <2>2, <3>1, <4>2, <5>1, <5>2 DEF LogsAreOrdered, Numbered
      <4> QED
        BY <4>1, <4>2
    <3>4. /\ snapshot'[Main(q)].seq = Len(events[q]) + 1
          /\ state'[q] # "none"
          /\ Len(events[q]) \in Nat
      BY <1>0, <2>2 DEF Recorded
    <3>5. manifest'[q].seq <= snapshot'[Main(q)].seq
      BY <1>0, <2>1, <3>3, <3>4 DEF SameFiles
    <3> QED
      BY <1>0, <2>1, <3>2, <3>4, <3>5 DEF SameFiles, LogsAreOrdered
  <2>3. ASSUME NEW label, Rewritten(q, Main(q), label),
               at[Main(q)] \notin {"idle", "reconciling", "done"}
        PROVE  LogsAreOrdered(q)'
    <3>1. SameRecord(q) /\ snapshot'[Main(q)] = snapshot[Main(q)]
      BY <1>0, <2>3 DEF Rewritten, SameRecord, WritesAlone
    <3> QED
      BY <1>0, <2>1, <2>3, <3>1 DEF SameFiles, SameRecord, LogsAreOrdered
  <2>4. ASSUME NEW label, NEW stage, Moved(q, Main(q), label, stage),
               \/ at[Main(q)] \notin {"idle", "reconciling", "done"}
               \/ at[Main(q)] = "reconciling" /\ label = "done"
        PROVE  LogsAreOrdered(q)'
    <3>1. /\ SameRecord(q)
          /\ snapshot'[Main(q)] = snapshot[Main(q)]
          /\ at'[Main(q)] = label
      BY <2>4 DEF Moved
    <3> QED
      BY <1>0, <2>1, <2>4, <3>1 DEF SameFiles, SameRecord, LogsAreOrdered
  <2>5. \/ \E next, label :
              /\ Recorded(q, Main(q), next, label)
              /\ at[Main(q)] \notin {"idle", "reconciling", "done"} \/ state[q] = "none"
              /\ next # "none"
        \/ \E label :
              /\ Rewritten(q, Main(q), label)
              /\ at[Main(q)] \notin {"idle", "reconciling", "done"}
        \/ \E label, stage :
              /\ Moved(q, Main(q), label, stage)
              /\ \/ at[Main(q)] \notin {"idle", "reconciling", "done"}
                 \/ at[Main(q)] = "reconciling" /\ label = "done"
    BY <1>0, <1>2 DEF MainEffect, Returned, Working, RunTypes
  <2> QED
    BY <2>2, <2>3, <2>4, <2>5
<1>3. CASE ReconcileEffect(q)
  <2>1. /\ events'[q] = Append(eventLog[q], [seq |-> manifest[q].seq + 1,
                                             state |-> "interrupted"])
        /\ snapshot'[Main(q)].seq = manifest[q].seq + 1
        /\ at'[Main(q)] = "reconciling"
        /\ state'[q] = "interrupted"
        /\ SameFiles(q)
    BY <1>3 DEF ReconcileEffect
  <2>2. Increasing(events'[q])
    BY <1>0, <2>1, AppendIncreasing DEF LogsAreOrdered
  <2>3. manifest'[q].seq <= snapshot'[Main(q)].seq
    BY <1>0, <2>1 DEF SameFiles
  <2> QED
    BY <1>0, <2>1, <2>2, <2>3 DEF SameFiles, LogsAreOrdered
<1>4. CASE FileEffect(q, Main(q), Canceller(q))
  <2>1. /\ SameRecord(q)
        /\ at'[Main(q)] = at[Main(q)]
        /\ snapshot'[Main(q)] = snapshot[Main(q)]
        /\ at[Main(q)] # "idle"
    BY <1>4 DEF FileEffect, RunTypes
  <2>2. CASE manifest'[q] = manifest[q] /\ eventLog'[q] = eventLog[q]
    BY <1>0, <2>1, <2>2 DEF SameRecord, LogsAreOrdered
  <2>3. CASE /\ io[Main(q)] = "manifestRename"
             /\ manifest'[q] = manifestTmp[q]
             /\ eventLog'[q] = eventLog[q]
    <3>1. manifest'[q] = snapshot[Main(q)] /\ state[q] # "none"
      BY <1>0, <2>1, <2>3 DEF WritesAlone
    <3>2. \A i \in DOMAIN eventLog[q] : eventLog[q][i].seq \in Nat
      BY <1>0, EventNumbers
    <3>3. \A i \in DOMAIN eventLog[q] : eventLog[q][i].seq <= manifest'[q].seq
      BY <1>0, <2>1, <3>1, <3>2 DEF LogsAreOrdered
    <3> QED
      BY <1>0, <2>1, <2>3, <3>1, <3>3 DEF SameRecord, LogsAreOrdered
  <2>4. CASE /\ io[Main(q)] = "eventsRename"
             /\ manifest'[q] = manifest[q]
             /\ eventLog'[q] = eventLogTmp[q]
    <3>1. /\ eventLog'[q] = events[q]
          /\ manifest[q] = events[q][Len(events[q])]
          /\ state[q] # "none"
      BY <1>0, <2>1, <2>4 DEF WritesAlone
    <3>2. \A i \in DOMAIN eventLog'[q] : eventLog'[q][i].seq <= manifest'[q].seq
      BY <1>0, <2>4, <3>1, LastIsGreatest DEF LogsAreOrdered
    <3> QED
      BY <1>0, <2>1, <2>4, <3>1, <3>2 DEF SameRecord, LogsAreOrdered
  <2> QED
    BY <1>4, <2>2, <2>3, <2>4 DEF FileEffect, SameFiles
<1> QED
  BY <1>0, <1>1, <1>2, <1>3, <1>4

(* The same for a run that nobody cancels.                                 *)
LEMMA CrashKeepsSolo ==
    ASSUME Crash, NEW q \in Runs, SoloRun(q)
    PROVE  SoloRun(q)'
<1>1. /\ Main(q) \in Tasks
      /\ SameFiles(q) /\ SameRecord(q)
      /\ cancelled' = {} /\ ~serving'
      /\ at' = [t \in Tasks |-> "idle"]
      /\ io' = [t \in Tasks |-> "none"]
  BY TasksDiffer DEF Crash, SameFiles, SameRecord, files, memory
<1>2. at'[Main(q)] = "idle" /\ io'[Main(q)] = "none"
  BY <1>1
<1>3. WritesAlone(q)' /\ ReconciledFirst(q)'
  BY <1>1, <1>2 DEF WritesAlone, ReconciledFirst
<1>4. EndsTerminal(q)' /\ LogsAreOrdered(q)'
  BY <1>1, <1>2
     DEF SoloRun, EndsTerminal, LogsAreOrdered, SameFiles, SameRecord, Working
<1> QED
  BY <1>3, <1>4 DEF SoloRun

LEMMA SoloStep ==
    ASSUME WorkspaceInv, SlotInv, TypeInv, PointerInv, SoloInv, [Next]_vars
    PROVE  SoloInv'
<1> SUFFICES ASSUME NEW q \in Runs \ Cancellable
             PROVE  SoloRun(q)'
  BY DEF SoloInv
<1>1. SoloRun(q) /\ OrderedRun(q) /\ QueuedRunsWait
  BY DEF SoloInv, PointerInv
<1>2. CASE Crash
  BY <1>1, <1>2, CrashKeepsSolo
<1>3. CASE ~Crash
  <2>1. RunEffect(q) /\ RunTypes(q) /\ NumberTypes(q)
    BY <1>1, <1>3, RunStep, TypesOfRun, TypesOfNumbers
  <2> QED
    BY <1>1, <1>3, <2>1, WritesAloneStep, EndsTerminalStep, ReconciledStep, LogsStep
       DEF SoloRun
<1> QED
  BY <1>2, <1>3

LEMMA InitSolo == Init => SoloInv
<1> SUFFICES ASSUME Init, NEW q \in Runs
             PROVE  SoloRun(q)
  BY DEF SoloInv
<1>1. /\ at[Main(q)] = "idle" /\ io[Main(q)] = "none"
      /\ state[q] = "none" /\ events[q] = NoLog
      /\ manifest[q] = Absent /\ eventLog[q] = NoLog
      /\ cancelled = {}
  BY TasksDiffer DEF Init
<1>2. WritesAlone(q) /\ EndsTerminal(q) /\ ReconciledFirst(q)
  BY <1>1 DEF WritesAlone, EndsTerminal, ReconciledFirst, Interrupted, Absent, Working
<1>3. LogsAreOrdered(q)
  BY <1>1 DEF LogsAreOrdered, Increasing, NoLog
<1> QED
  BY <1>2, <1>3 DEF SoloRun

LEMMA SoloInvariant ==
    Spec => [](WorkspaceInv /\ SlotInv /\ TypeInv /\ PointerInv /\ SoloInv)
  BY InitSolo, SoloStep, PointerInvariant, PTL DEF Spec

(* REQ-WI-RUN-004: when the host serves, a persisted run that nobody works *)
(* on and that its clients do not cancel is terminal, whatever other runs  *)
(* are cancelled and however often the host died.                          *)
THEOREM UncancelledRunsAreTerminal == Spec => []InactiveRunsAreTerminal
<1>1. ASSUME TypeInv, PointerInv, SoloInv, NEW r \in Runs \ Cancellable, serving,
             manifest[r] # Absent, at[Main(r)] \in {"idle", "done"}
      PROVE  manifest[r].state \in TerminalStates
  <2>1. SoloRun(r) /\ OrderedRun(r)
    BY <1>1 DEF SoloInv, PointerInv
  <2>2. CASE at[Main(r)] = "idle"
    BY <1>1, <2>1, <2>2 DEF SoloRun, ReconciledFirst, Interrupted
  <2>3. CASE at[Main(r)] = "done"
    BY <2>1, <2>3
       DEF SoloRun, OrderedRun, EndsTerminal, WritesAlone, LastEventIsState,
           TerminalStates
  <2> QED
    BY <1>1, <2>2, <2>3
<1>2. WorkspaceInv /\ SlotInv /\ TypeInv /\ PointerInv /\ SoloInv => InactiveRunsAreTerminal
  BY <1>1 DEF InactiveRunsAreTerminal, Main
<1> QED
  BY <1>2, SoloInvariant, PTL

-----------------------------------------------------------------------------
(* Finished runs.  reconcile is the only one that goes on with a run whose *)
(* tasks are over, and it does so before anybody can cancel, with runs     *)
(* that say neither "completed" nor "cancelled".                           *)
ReconcilesAlone(r) ==
    at[Main(r)] = "reconciling" =>
        /\ ~serving
        /\ at[Canceller(r)] \in {"idle", "done"}
        /\ snapshot[Main(r)].state # "cancelled"
        /\ io[Main(r)] = "manifestRename" => manifestTmp[r].state # "cancelled"
        /\ manifest[r].state # "cancelled"

ReconcileInv == \A r \in Runs : ReconcilesAlone(r)

LEMMA ReconcileKept ==
    ASSUME WorkspaceInv, SlotInv, TypeInv, PointerInv, ReconcileInv, [Next]_vars
    PROVE  ReconcileInv'
<1> SUFFICES ASSUME NEW q \in Runs
             PROVE  ReconcilesAlone(q)'
  BY DEF ReconcileInv
<1>1. ReconcilesAlone(q) /\ OrderedRun(q) /\ QueuedRunsWait
  BY DEF ReconcileInv, PointerInv
<1>2. CASE Crash
  BY <1>2, TasksDiffer DEF Crash, ReconcilesAlone
<1>3. CASE ~Crash
  <2>1. RunEffect(q) /\ RunTypes(q)
    BY <1>1, <1>3, RunStep, TypesOfRun
  <2>2. at[Main(q)] = "reconciling" /\ ~serving => ~serving'
    BY <1>3, ServingStep, TasksDiffer DEF Serve, Idle, host
  <2>3. ~serving /\ ReconcileEffect(q) => ~serving'
    <3>1. SUFFICES ASSUME ReconcileEffect(q), Serve PROVE FALSE
      BY <1>3, ServingStep DEF host
    <3>2. at'[Main(q)] = at[Main(q)]
      BY <3>1 DEF Serve
    <3> QED
      BY <3>1, <3>2 DEF ReconcileEffect
  <2>4. CASE SameRun(q)
    BY <1>1, <2>2, <2>4 DEF SameRun, SameTask, SameFiles, ReconcilesAlone
  <2>5. CASE MainEffect(q)
    BY <1>1, <2>5 DEF MainEffect, Recorded, Rewritten, Moved, ReconcilesAlone
  <2>6. CASE CancellerEffect(q)
    <3>1. at[Main(q)] # "reconciling"
      BY <1>1, <2>1, <2>6
         DEF CancellerEffect, Returned, RunTypes, ReconcilesAlone
    <3> QED
      BY <2>6, <3>1 DEF CancellerEffect, SameTask, ReconcilesAlone
  <2>7. CASE ReconcileEffect(q)
    <3> DEFINE event == [seq |-> manifest[q].seq + 1, state |-> "interrupted"]
    <3>1. /\ snapshot'[Main(q)] = event
          /\ at'[Canceller(q)] = at[Canceller(q)]
          /\ at[Canceller(q)] \in {"idle", "done"}
          /\ io'[Main(q)] = "manifestWrite"
          /\ manifest'[q] = manifest[q]
          /\ manifest[q].state # "cancelled"
          /\ ~serving
      BY <2>7 DEF ReconcileEffect, SameTask, SameFiles, Interrupted, TerminalStates
    <3>2. event.state = "interrupted"
      OBVIOUS
    <3> HIDE DEF event
    <3> QED
      BY <2>3, <2>7, <3>1, <3>2 DEF ReconcilesAlone
  <2>8. CASE FileEffect(q, Main(q), Canceller(q))
    BY <1>1, <2>2, <2>8 DEF FileEffect, SameTask, SameFiles, ReconcilesAlone
  <2>9. CASE FileEffect(q, Canceller(q), Main(q))
    <3>1. at[Main(q)] # "reconciling"
      BY <1>1, <2>1, <2>9
         DEF FileEffect, RunTypes, ReconcilesAlone, OrderedRun, TasksKeepToTheirWork
    <3> QED
      BY <2>9, <3>1 DEF FileEffect, SameTask, ReconcilesAlone
  <2> QED
    BY <2>1, <2>4, <2>5, <2>6, <2>7, <2>8, <2>9 DEF RunEffect
<1> QED
  BY <1>2, <1>3

(* A finished run: what FinishedRunsAreImmutable is about.                 *)
Finished(r) ==
    /\ at[r, "main"] \in {"idle", "reconciling", "done"}
    /\ r \notin active
    /\ \/ manifest[r].state = "completed"
       \/ manifest[r].state = "cancelled" /\ CancelAtRest(r)
    /\ sealed[r] = <<manifest[r], eventLog[r]>>

(* None of its tasks is at work.                                           *)
LEMMA FinishedIsAtRest ==
    ASSUME PointerInv, ReconcileInv, NEW r \in Runs, Finished(r)
    PROVE  at[Main(r)] \in {"idle", "done"} /\ at[Canceller(r)] \in {"idle", "done"}
<1>1. OrderedRun(r) /\ ReconcilesAlone(r)
  BY DEF PointerInv, ReconcileInv
<1>2. CASE manifest[r].state = "completed"
  BY <1>1, <1>2
     DEF Finished, Main, OrderedRun, CompletedFilesAreOfEndedRun, EndedRunGoesOn,
         TasksKeepToTheirWork, Settled
<1>3. CASE manifest[r].state = "cancelled" /\ CancelAtRest(r)
  BY <1>1, <1>3 DEF Finished, CancelAtRest, ReconcilesAlone, Main, Canceller
<1> QED
  BY <1>2, <1>3 DEF Finished

(* REQ-WI-ART-003: the files of a completed run that execute has left do   *)
(* not change, whatever is cancelled meanwhile and however often the host  *)
(* dies and reconciles; and the same is true of a cancelled run, once its  *)
(* cancel() has returned.                                                  *)
THEOREM FinishedRunsStay == Spec => FinishedRunsAreImmutable
<1>1. ASSUME WorkspaceInv, SlotInv, TypeInv, PointerInv, ReconcileInv, [Next]_vars,
             NEW r \in Runs, Finished(r)
      PROVE  manifest'[r] = manifest[r] /\ eventLog'[r] = eventLog[r]
  <2>1. /\ OrderedRun(r) /\ QueuedRunsWait
        /\ at[Main(r)] \in {"idle", "done"}
        /\ at[Canceller(r)] \in {"idle", "done"}
    BY <1>1, FinishedIsAtRest DEF PointerInv
  <2>2. CASE Crash
    BY <2>2 DEF Crash, files
  <2>3. CASE ~Crash
    <3>1. RunEffect(r) /\ RunTypes(r)
      BY <1>1, <2>1, <2>3, RunStep, TypesOfRun
    <3> QED
      BY <2>1, <3>1
         DEF RunEffect, SameRun, MainEffect, CancellerEffect, ReconcileEffect,
             FileEffect, SameFiles, RunTypes, OrderedRun, TasksKeepToTheirWork
  <2> QED
    BY <2>2, <2>3
<1>2. WorkspaceInv /\ SlotInv /\ TypeInv /\ PointerInv /\ ReconcileInv /\ [Next]_vars
        => [\A r \in Runs :
               /\ at[r, "main"] \in {"idle", "reconciling", "done"}
               /\ r \notin active
               /\ \/ manifest[r].state = "completed"
                  \/ manifest[r].state = "cancelled" /\ CancelAtRest(r)
               /\ sealed[r] = <<manifest[r], eventLog[r]>>
               => manifest'[r] = manifest[r] /\ eventLog'[r] = eventLog[r]]_vars
  BY <1>1 DEF Finished
<1>3. Init => ReconcileInv
  BY TasksDiffer DEF Init, ReconcileInv, ReconcilesAlone
<1>4. WorkspaceInv /\ SlotInv /\ TypeInv /\ PointerInv /\ ReconcileInv /\ [Next]_vars
        => ReconcileInv'
  BY ReconcileKept
<1> QED
  BY <1>2, <1>3, <1>4, PointerInvariant, PTL DEF Spec, FinishedRunsAreImmutable

-----------------------------------------------------------------------------
(* The streams.                                                            *)
Quiet == {"idle", "over", "done", "reconciling"}

IncreasingNumbers(numbers) == \A i, j \in DOMAIN numbers : i < j => numbers[i] < numbers[j]

(* A stream of a run that nobody cancels: once it has ended, the run is at *)
(* rest, and it was started, so it stays at rest.                          *)
FollowsItsRun(s) ==
    LET r == subscriber[s].run IN
    /\ state[r] # "none"
    /\ subscriber[s].stage = "ended" => at[Main(r)] \in Quiet
    /\ IncreasingNumbers(received[s])

StreamInv ==
    \A s \in Subscribers :
        /\ subscriber[s].stage = "idle" => received[s] = <<>>
        /\ /\ subscriber[s].stage # "idle"
           /\ subscriber[s].run \notin Cancellable
           => FollowsItsRun(s)

(* A filter of a log in order is in order.                                 *)
LEMMA KeptIncreasing ==
    ASSUME NEW log \in Seq(Event), Increasing(log), NEW S
    PROVE  /\ Kept(log, S) \in Seq(Event)
           /\ Increasing(Kept(log, S))
           /\ \A i \in DOMAIN Kept(log, S) : Kept(log, S)[i] \in S
<1>1. PICK k \in [0 .. Len(log) -> Seq(Event)] :
         /\ k[0] = <<>>
         /\ \A i \in 1 .. Len(log) :
               k[i] = IF log[i] \in S THEN Append(k[i - 1], log[i]) ELSE k[i - 1]
         /\ Kept(log, S) = k[Len(log)]
  BY KeptStepByStep
<1> DEFINE Good(n) ==
              /\ Increasing(k[n])
              /\ \A i \in DOMAIN k[n] :
                    k[n][i] \in S /\ \E j \in 1 .. n : k[n][i] = log[j]
           bad == {n \in 0 .. Len(log) : ~Good(n)}
<1>2. Len(log) \in Nat
  OBVIOUS
<1>3. Good(0)
  BY <1>1 DEF Increasing
<1>4. ASSUME NEW n \in 1 .. Len(log), Good(n - 1)
      PROVE  Good(n)
  <2>1. /\ n - 1 \in 0 .. Len(log)
        /\ k[n - 1] \in Seq(Event)
        /\ k[n] = IF log[n] \in S THEN Append(k[n - 1], log[n]) ELSE k[n - 1]
    BY <1>1, <1>2
  <2>2. CASE log[n] \notin S
    BY <1>4, <2>1, <2>2
  <2>3. CASE log[n] \in S
    <3> DEFINE before == k[n - 1]
               after  == k[n]
    <3>1. /\ before \in Seq(Event)
          /\ after = Append(before, log[n])
      BY <2>1, <2>3
    <3>2. /\ Increasing(before)
          /\ \A i \in DOMAIN before :
                before[i] \in S /\ \E j \in 1 .. n - 1 : before[i] = log[j]
      BY <1>4
    <3>3. SUFFICES /\ Increasing(after)
                   /\ \A i \in DOMAIN after :
                         after[i] \in S /\ \E j \in 1 .. n : after[i] = log[j]
      OBVIOUS
    <3> HIDE DEF before, after
    <3>4. /\ Len(before) \in Nat
          /\ DOMAIN before = 1 .. Len(before)
          /\ DOMAIN after = 1 .. Len(before) + 1
          /\ \A i \in 1 .. Len(before) : after[i] = before[i]
          /\ after[Len(before) + 1] = log[n]
      BY <3>1
    <3>5. \A i \in 1 .. Len(before) : before[i].seq < log[n].seq
      <4>1. TAKE i \in 1 .. Len(before)
      <4>2. PICK j \in 1 .. n - 1 : before[i] = log[j]
        BY <3>2, <3>4
      <4>3. j \in DOMAIN log /\ n \in DOMAIN log /\ j < n
        BY <1>2
      <4> QED
        BY <4>2, <4>3 DEF Increasing
    <3>6. Increasing(after)
      BY <3>2, <3>4, <3>5 DEF Increasing
    <3>7. ASSUME NEW i \in DOMAIN after
          PROVE  after[i] \in S /\ \E j \in 1 .. n : after[i] = log[j]
      <4>1. CASE i \in 1 .. Len(before)
        <5>1. i \in DOMAIN before /\ after[i] = before[i]
          BY <3>4, <4>1
        <5>2. before[i] \in S /\ \E j \in 1 .. n - 1 : before[i] = log[j]
          BY <3>2, <5>1
        <5>3. \A j \in 1 .. n - 1 : j \in 1 .. n
          BY <1>2
        <5> QED
          BY <5>1, <5>2, <5>3
      <4>2. CASE i = Len(before) + 1
        BY <1>2, <2>3, <3>4, <4>2
      <4> QED
        BY <3>4, <4>1, <4>2
    <3> QED
      BY <3>6, <3>7
  <2> QED
    BY <2>2, <2>3
<1>5. bad = {}
  <2>1. SUFFICES ASSUME bad # {} PROVE FALSE
    OBVIOUS
  <2>2. bad \in SUBSET Nat
    OBVIOUS
  <2> HIDE DEF Good
  <2>3. PICK n \in bad : \A m \in bad : n <= m
    BY <2>1, <2>2, LeastNumber
  <2>4. n # 0
    BY <1>3, <2>3
  <2>5. n \in 1 .. Len(log) /\ n - 1 \in 0 .. Len(log) /\ n - 1 \notin bad
    BY <1>2, <2>3, <2>4
  <2>6. Good(n - 1)
    BY <2>5
  <2>7. Good(n)
    BY <1>4, <2>5, <2>6
  <2> QED
    BY <2>3, <2>7
<1>6. Good(Len(log)) /\ k[Len(log)] \in Seq(Event)
  <2> HIDE DEF Good
  <2>1. Len(log) \in 0 .. Len(log)
    BY <1>2
  <2> QED
    BY <1>5, <2>1
<1> QED
  BY <1>1, <1>6

(* What is read comes after what was received.                             *)
LEMMA ReadInOrder ==
    ASSUME NEW numbers \in Seq(Nat), IncreasingNumbers(numbers),
           NEW log \in Seq(Event), Increasing(log),
           NEW last, last = IF numbers = <<>> THEN 0 ELSE numbers[Len(numbers)],
           NEW unseen, unseen = Kept(log, {event \in Event : event.seq > last})
    PROVE  IncreasingNumbers(numbers \o [i \in DOMAIN unseen |-> unseen[i].seq])
<1> DEFINE given == [i \in DOMAIN unseen |-> unseen[i].seq]
           all   == numbers \o given
<1>1. /\ unseen \in Seq(Event)
      /\ Increasing(unseen)
      /\ \A i \in DOMAIN unseen : unseen[i].seq > last
  BY KeptIncreasing
<1>2. /\ given \in Seq(Nat)
      /\ Len(given) = Len(unseen)
      /\ \A i \in 1 .. Len(unseen) : given[i] = unseen[i].seq
  <2>1. DOMAIN unseen = 1 .. Len(unseen) /\ Len(unseen) \in Nat
    BY <1>1
  <2>2. \A i \in 1 .. Len(unseen) : unseen[i].seq \in Nat
    BY <1>1, <2>1, EventNumbers
  <2>3. given \in Seq(Nat)
    BY <2>1, <2>2, IsASeq
  <2> QED
    BY <2>1, <2>3
<1>3. /\ \A i, j \in 1 .. Len(given) : i < j => given[i] < given[j]
      /\ \A i \in 1 .. Len(given) : given[i] > last
      /\ Len(given) \in Nat
      /\ \A i \in 1 .. Len(given) : given[i] \in Nat
  <2>1. DOMAIN unseen = 1 .. Len(given) /\ Len(given) \in Nat
    BY <1>1, <1>2
  <2>2. \A i \in 1 .. Len(given) : given[i] = unseen[i].seq /\ given[i] \in Nat
    BY <1>2
  <2> HIDE DEF given
  <2> QED
    BY <1>1, <2>1, <2>2 DEF Increasing
<1> HIDE DEF given
<1>4. /\ Len(numbers) \in Nat
      /\ DOMAIN numbers = 1 .. Len(numbers)
      /\ DOMAIN all = 1 .. Len(numbers) + Len(given)
      /\ \A i \in 1 .. Len(numbers) : all[i] = numbers[i]
      /\ \A i \in 1 .. Len(given) : all[Len(numbers) + i] = given[i]
  <2>1. /\ all \in Seq(Nat)
        /\ Len(all) = Len(numbers) + Len(given)
        /\ \A i \in 1 .. Len(numbers) + Len(given) :
              all[i] = IF i <= Len(numbers) THEN numbers[i] ELSE given[i - Len(numbers)]
    <3>1. numbers \in Seq(Nat) /\ given \in Seq(Nat)
      BY <1>2
    <3> QED
      BY <3>1, ConcatProperties, Zenon
  <2>2. /\ Len(numbers) \in Nat /\ DOMAIN numbers = 1 .. Len(numbers)
        /\ DOMAIN all = 1 .. Len(all)
    BY <2>1
  <2>3. \A i \in 1 .. Len(given) :
           /\ Len(numbers) + i \in 1 .. Len(numbers) + Len(given)
           /\ ~(Len(numbers) + i <= Len(numbers))
           /\ (Len(numbers) + i) - Len(numbers) = i
    BY <1>3, <2>2
  <2>4. \A i \in 1 .. Len(numbers) : i \in 1 .. Len(numbers) + Len(given) /\ i <= Len(numbers)
    BY <1>3, <2>2
  <2> HIDE DEF all
  <2> QED
    BY <2>1, <2>2, <2>3, <2>4
<1>5. \A i \in 1 .. Len(numbers) : numbers[i] <= last /\ numbers[i] \in Nat /\ last \in Nat
  BY <1>4 DEF IncreasingNumbers
<1> HIDE DEF all
<1>6. ASSUME NEW i \in DOMAIN all, NEW j \in DOMAIN all, i < j
      PROVE  all[i] < all[j]
  <2>1. CASE j \in 1 .. Len(numbers)
    BY <1>4, <1>6, <2>1 DEF IncreasingNumbers
  <2>2. CASE j \notin 1 .. Len(numbers)
    <3>1. j - Len(numbers) \in 1 .. Len(given) /\ j = Len(numbers) + (j - Len(numbers))
      BY <1>3, <1>4, <2>2
    <3>2. all[j] = given[j - Len(numbers)]
      BY <1>4, <3>1
    <3>3. CASE i \in 1 .. Len(numbers)
      BY <1>3, <1>4, <1>5, <3>1, <3>2, <3>3
    <3>4. CASE i \notin 1 .. Len(numbers)
      <4>1. i - Len(numbers) \in 1 .. Len(given) /\ i = Len(numbers) + (i - Len(numbers))
        BY <1>3, <1>4, <3>4
      <4>2. all[i] = given[i - Len(numbers)]
        BY <1>4, <4>1
      <4>3. i - Len(numbers) < j - Len(numbers)
        BY <1>4, <1>6
      <4> QED
        BY <1>3, <3>1, <3>2, <4>1, <4>2, <4>3
    <3> QED
      BY <3>3, <3>4
  <2> QED
    BY <2>1, <2>2
<1>7. IncreasingNumbers(all)
  BY <1>6 DEF IncreasingNumbers
<1> QED
  BY <1>7 DEF all, given

(* A run that was started and is at rest stays there.                      *)
LEMMA QuietStays ==
    ASSUME WorkspaceInv, SlotInv, TypeInv, PointerInv, SoloInv, [Next]_vars,
           NEW q \in Runs \ Cancellable, state[q] # "none"
    PROVE  /\ state'[q] # "none"
           /\ at[Main(q)] \in Quiet => at'[Main(q)] \in Quiet
<1>1. SoloRun(q) /\ OrderedRun(q) /\ QueuedRunsWait
  BY DEF SoloInv, PointerInv
<1>2. CASE Crash
  BY <1>2, TasksDiffer DEF Crash, memory, Quiet
<1>3. CASE ~Crash
  <2>1. RunEffect(q) /\ RunTypes(q)
    BY <1>1, <1>3, RunStep, TypesOfRun
  <2>2. /\ SameRun(q) \/ MainEffect(q) \/ ReconcileEffect(q)
              \/ FileEffect(q, Main(q), Canceller(q))
        /\ WritesAlone(q)' /\ WritesAlone(q) /\ EndsTerminal(q)
    BY <1>1, <2>1, NotCancelled, WritesAloneStep DEF SoloRun
  <2>3. CASE SameRun(q)
    BY <2>3 DEF SameRun, SameTask, SameRecord
  <2>4. CASE MainEffect(q)
    BY <2>1, <2>2, <2>4
       DEF MainEffect, Recorded, Rewritten, Moved, SameRecord, Returned, Working,
           Quiet, RunTypes
  <2>5. CASE ReconcileEffect(q)
    BY <2>5 DEF ReconcileEffect, Quiet
  <2>6. CASE FileEffect(q, Main(q), Canceller(q))
    BY <2>6 DEF FileEffect, SameRecord
  <2> QED
    BY <2>2, <2>3, <2>4, <2>5, <2>6
<1> QED
  BY <1>2, <1>3

(* What a step does to a stream.                                           *)
Follows(s) ==
    /\ received'[s] = received[s]
    /\ subscriber'[s].run = subscriber[s].run
    /\ subscriber'[s].stage = "idle" <=> subscriber[s].stage = "idle"
    /\ subscriber'[s].stage = "ended" => subscriber[s].stage = "ended"

LEMMA StreamEffect ==
    ASSUME TypeInv, [Next]_vars, NEW s \in Subscribers
    PROVE  Follows(s) \/ Read(s) \/ Decide(s) \/ \E r \in Runs : Subscribe(s, r)
<1>1. /\ received \in [Subscribers -> Seq(Nat)]
      /\ DOMAIN subscriber = Subscribers
      /\ \A p \in Subscribers : DOMAIN subscriber[p] = {"run", "stage", "saw"}
  BY DEF TypeInv, TypeOK
<1>2. ASSUME UNCHANGED clients
      PROVE  Follows(s)
  BY <1>2 DEF Follows, clients
<1>3. CASE \E r \in Runs : \/ Start(r)
                         \/ Execute(r)
                         \/ Cancel(r)
                         \/ FinishCancel(r)
                         \/ ReconcileRun(r)
                         \/ RunReconciled(r)
  <2>1. ASSUME NEW r, Notify(r)
        PROVE  Follows(s)
    BY <1>1, <2>1 DEF Notify, Follows
  <2> QED
    BY <1>2, <1>3, <2>1, TasksNotify
<1>4. ASSUME NEW p \in Subscribers, NEW r \in Runs, Subscribe(p, r)
      PROVE  p = s \/ Follows(s)
  BY <1>1, <1>4 DEF Subscribe, Follows
<1>5. ASSUME NEW p \in Subscribers, Read(p)
      PROVE  p = s \/ Follows(s)
  <2>1. SUFFICES ASSUME p # s PROVE Follows(s)
    OBVIOUS
  <2>2. received'[s] = received[s] /\ subscriber'[s] = subscriber[s]
    BY <1>1, <1>5, <2>1 DEF Read
  <2> QED
    BY <2>2 DEF Follows
<1>6. ASSUME NEW p \in Subscribers, Check(p)
      PROVE  Follows(s)
  <2>1. CASE p # s
    BY <1>1, <1>6, <2>1 DEF Check, Follows
  <2>2. CASE p = s
    <3> DEFINE saw == IF subscriber[s].run \in active THEN state[subscriber[s].run]
                      ELSE manifest[subscriber[s].run].state
    <3>1. /\ subscriber' = [subscriber EXCEPT ![s].saw = saw, ![s].stage = "deciding"]
          /\ received' = received
          /\ subscriber[s].stage = "checking"
      BY <1>6, <2>2 DEF Check
    <3> HIDE DEF saw
    <3>2. subscriber'[s] = [subscriber[s] EXCEPT !.saw = saw, !.stage = "deciding"]
      BY <1>1, <3>1
    <3> QED
      BY <1>1, <3>1, <3>2 DEF Follows
  <2> QED
    BY <2>1, <2>2
<1>7. ASSUME NEW p \in Subscribers, Decide(p)
      PROVE  p = s \/ Follows(s)
  <2>1. SUFFICES ASSUME p # s PROVE Follows(s)
    OBVIOUS
  <2>2. received'[s] = received[s] /\ subscriber'[s] = subscriber[s]
    BY <1>1, <1>7, <2>1 DEF Decide
  <2> QED
    BY <2>2 DEF Follows
<1>8. CASE Crash
  BY <1>1, <1>8 DEF Crash, Follows
<1>9. CASE \/ \E t \in Tasks : FileSystem(t)
           \/ \E r \in Runs : SelectCurrent(r)
           \/ Selection
           \/ Serve
           \/ UNCHANGED vars
  BY <1>2, <1>9
     DEF FileSystem, WriteManifest, RenameManifest, SerializeEvents, WriteEvents,
         RenameEvents, WriteIntegrity, WriteCurrent, RenameCurrent, SelectCurrent,
         Selection, WriteSelected, RenameSelected, Serve, vars
<1> QED
  BY <1>3, <1>4, <1>5, <1>6, <1>7, <1>8, <1>9 DEF Next, Stream

(* Every step keeps the streams in step with their runs.                   *)
LEMMA StreamStep ==
    ASSUME WorkspaceInv, SlotInv, TypeInv, PointerInv, SoloInv, StreamInv, [Next]_vars
    PROVE  StreamInv'
<1>0. SUFFICES ASSUME NEW s \in Subscribers
               PROVE  /\ subscriber'[s].stage = "idle" => received'[s] = <<>>
                      /\ /\ subscriber'[s].stage # "idle"
                         /\ subscriber'[s].run \notin Cancellable
                         => FollowsItsRun(s)'
  BY DEF StreamInv
<1> DEFINE r == subscriber[s].run
<1>1. /\ subscriber[s].stage = "idle" => received[s] = <<>>
      /\ subscriber[s].stage # "idle" /\ r \notin Cancellable => FollowsItsRun(s)
      /\ subscriber[s].stage # "idle" => r \in Runs
      /\ received \in [Subscribers -> Seq(Nat)]
      /\ DOMAIN subscriber = Subscribers
      /\ DOMAIN subscriber[s] = {"run", "stage", "saw"}
  BY DEF StreamInv, TypeInv, TypeOK, StreamsHaveRuns
<1>2. ASSUME NEW q \in Runs \ Cancellable, state[q] # "none"
      PROVE  state'[q] # "none" /\ (at[Main(q)] \in Quiet => at'[Main(q)] \in Quiet)
  BY <1>2, QuietStays
<1>3. CASE Follows(s)
  BY <1>1, <1>2, <1>3 DEF Follows, FollowsItsRun
<1>4. ASSUME NEW q \in Runs, Subscribe(s, q)
      PROVE  /\ subscriber'[s].stage # "idle"
             /\ subscriber'[s].run \notin Cancellable => FollowsItsRun(s)'
  <2>1. /\ subscriber[s].stage = "idle"
        /\ received'[s] = <<>>
        /\ Known(q)
        /\ state' = state
        /\ subscriber' = [subscriber EXCEPT ![s].run = q, ![s].stage = "reading"]
    BY <1>1, <1>4 DEF Subscribe, memory
  <2>2. subscriber'[s] = [subscriber[s] EXCEPT !.run = q, !.stage = "reading"]
    BY <1>1, <2>1
  <2>3. subscriber'[s].run = q /\ subscriber'[s].stage = "reading"
    BY <1>1, <2>2
  <2>4. ASSUME q \notin Cancellable
        PROVE  state[q] # "none"
    BY <2>1, <2>4
       DEF Known, TypeInv, KnownRuns, SoloInv, SoloRun, LogsAreOrdered
  <2> QED
    BY <2>1, <2>3, <2>4 DEF FollowsItsRun, IncreasingNumbers
<1>5. ASSUME Read(s)
      PROVE  /\ subscriber'[s].stage # "idle"
             /\ subscriber'[s].run \notin Cancellable => FollowsItsRun(s)'
  <2> DEFINE log    == IF r \in active THEN events[r] ELSE eventLog[r]
             last   == IF received[s] = <<>> THEN 0 ELSE received[s][Len(received[s])]
             unseen == Kept(log, {event \in Event : event.seq > last})
  <2>1. /\ subscriber[s].stage = "reading"
        /\ received' = [received EXCEPT ![s] = @ \o [i \in DOMAIN unseen |-> unseen[i].seq]]
        /\ subscriber' = [subscriber EXCEPT ![s].stage = "checking"]
        /\ state' = state
    BY <1>5 DEF Read, memory
  <2>2. subscriber'[s].run = r /\ subscriber'[s].stage = "checking"
    BY <1>1, <2>1
  <2>3. ASSUME r \notin Cancellable
        PROVE  FollowsItsRun(s)'
    <3>1. r \in Runs \ Cancellable /\ FollowsItsRun(s)
      BY <1>1, <2>1, <2>3
    <3>2. log \in Seq(Event) /\ Increasing(log)
      <4>1. SoloRun(r) /\ events[r] \in Seq(Event) /\ eventLog[r] \in Seq(Event)
        BY <3>1 DEF SoloInv, TypeInv, TypeOK
      <4> QED
        BY <4>1 DEF SoloRun, LogsAreOrdered
    <3>3. received[s] \in Seq(Nat) /\ IncreasingNumbers(received[s])
      BY <1>1, <3>1 DEF FollowsItsRun
    <3> HIDE DEF log
    <3>4. IncreasingNumbers(received[s] \o [i \in DOMAIN unseen |-> unseen[i].seq])
      BY <3>2, <3>3, ReadInOrder
    <3> HIDE DEF unseen
    <3>5. IncreasingNumbers(received'[s])
      BY <1>1, <2>1, <3>4
    <3>6. state'[r] # "none"
      BY <2>1, <3>1 DEF FollowsItsRun
    <3> QED
      BY <2>2, <3>5, <3>6 DEF FollowsItsRun
  <2> QED
    BY <2>2, <2>3
<1>6. ASSUME Decide(s)
      PROVE  /\ subscriber'[s].stage # "idle"
             /\ subscriber'[s].run \notin Cancellable => FollowsItsRun(s)'
  <2>1. PICK stage \in {"ended", "waiting"} :
           /\ subscriber' = [subscriber EXCEPT ![s].stage = stage, ![s].saw = "none"]
           /\ stage = "ended" => r \notin active
    BY <1>6 DEF Decide
  <2>2. /\ subscriber[s].stage = "deciding"
        /\ received' = received /\ state' = state /\ at' = at
    BY <1>6 DEF Decide, memory
  <2>3. subscriber'[s] = [subscriber[s] EXCEPT !.stage = stage, !.saw = "none"]
    BY <1>1, <2>1
  <2>4. subscriber'[s].run = r /\ subscriber'[s].stage = stage
    BY <1>1, <2>3
  <2>5. ASSUME r \notin Cancellable, stage = "ended"
        PROVE  at[Main(r)] \in Quiet
    <3>1. r \in Runs \ Cancellable /\ r \notin active
      BY <1>1, <2>1, <2>2, <2>5
    <3>2. SoloRun(r) /\ at[Main(r)] \in Labels
      BY <3>1, TasksDiffer DEF SoloInv, TypeInv, TypeOK
    <3> QED
      BY <3>1, <3>2 DEF SoloRun, WritesAlone, EndsTerminal, Working, Labels, Quiet
  <2> QED
    BY <1>1, <2>2, <2>4, <2>5 DEF FollowsItsRun
<1> HIDE DEF r
<1> QED
  BY <1>3, <1>4, <1>5, <1>6, StreamEffect

LEMMA StreamInvariant ==
    Spec => [](WorkspaceInv /\ SlotInv /\ TypeInv /\ PointerInv /\ SoloInv /\ StreamInv)
<1>1. Init => StreamInv
  BY DEF Init, StreamInv
<1> QED
  BY <1>1, StreamStep, SoloInvariant, PTL DEF Spec

-----------------------------------------------------------------------------
(* The first host.  Until it dies every log of a run, in memory, in the    *)
(* hands of a task or on disk, is numbered from one, whoever wrote it: so  *)
(* what a subscriber reads goes on where it stopped, whether the run is    *)
(* still active or not, and cancelled or not.                              *)
NumberedRun(r) ==
    /\ Numbered(events[r])
    /\ Numbered(eventLog[r])
    /\ Numbered(eventLogTmp[r])
    /\ Numbered(lines[Main(r)])
    /\ Numbered(lines[Canceller(r)])

FromTheFirst(numbers) == \A i \in DOMAIN numbers : numbers[i] = i

FirstHostInv ==
    crashes = 0 =>
        /\ serving
        /\ \A r \in Runs : NumberedRun(r)
        /\ \A s \in Subscribers : FromTheFirst(received[s])

(* A step of a run keeps its logs numbered, unless it reconciles.          *)
LEMMA NumberedStep ==
    ASSUME NEW q \in Runs, RunTypes(q), RunEffect(q), serving, NumberedRun(q)
    PROVE  NumberedRun(q)'
<1>1. ASSUME NEW t, NEW next, NEW label, Recorded(q, t, next, label)
      PROVE  Numbered(events'[q])
  <2>1. events'[q] = Append(events[q], [seq |-> Len(events[q]) + 1, state |-> next])
    BY <1>1 DEF Recorded
  <2> QED
    BY <2>1, AppendNumbered DEF NumberedRun, RunTypes
<1>2. CASE SameRun(q)
  BY <1>2 DEF SameRun, SameTask, SameRecord, SameFiles, NumberedRun
<1>3. CASE MainEffect(q)
  <2>1. SameTask(Canceller(q)) /\ SameFiles(q)
    BY <1>3 DEF MainEffect
  <2>2. lines'[Main(q)] = lines[Main(q)]
    BY <1>3 DEF MainEffect, Recorded, Rewritten, Moved
  <2>3. \/ \E next, label : Recorded(q, Main(q), next, label)
        \/ events'[q] = events[q]
    BY <1>3 DEF MainEffect, Rewritten, Moved, SameRecord
  <2> QED
    BY <1>1, <2>1, <2>2, <2>3 DEF SameTask, SameFiles, NumberedRun
<1>4. CASE CancellerEffect(q)
  <2>1. SameTask(Main(q)) /\ SameFiles(q)
    BY <1>4 DEF CancellerEffect
  <2>2. lines'[Canceller(q)] = lines[Canceller(q)]
    BY <1>4 DEF CancellerEffect, Recorded, Rewritten, Moved
  <2>3. \/ \E next, label : Recorded(q, Canceller(q), next, label)
        \/ events'[q] = events[q]
    BY <1>4 DEF CancellerEffect, Rewritten, Moved, SameRecord
  <2> QED
    BY <1>1, <2>1, <2>2, <2>3 DEF SameTask, SameFiles, NumberedRun
<1>5. ~ReconcileEffect(q)
  BY DEF ReconcileEffect
<1>6. Numbered(NoLog)
  BY DEF Numbered, NoLog
<1>7. CASE FileEffect(q, Main(q), Canceller(q))
  BY <1>6, <1>7 DEF FileEffect, SameTask, SameRecord, SameFiles, NumberedRun
<1>8. CASE FileEffect(q, Canceller(q), Main(q))
  BY <1>6, <1>8 DEF FileEffect, SameTask, SameRecord, SameFiles, NumberedRun
<1> QED
  BY <1>2, <1>3, <1>4, <1>5, <1>7, <1>8 DEF RunEffect

(* Of a numbered log, the events after the n-th are those that follow n.   *)
LEMMA KeptNumbered ==
    ASSUME NEW log \in Seq(Event), Numbered(log), NEW n \in Nat,
           NEW S, \A i \in DOMAIN log : log[i] \in S <=> log[i].seq > n
    PROVE  /\ Kept(log, S) \in Seq(Event)
           /\ \A i \in DOMAIN Kept(log, S) : Kept(log, S)[i].seq = n + i
<1>0. /\ Len(log) \in Nat
      /\ \A i \in 1 .. Len(log) : log[i].seq = i /\ (log[i] \in S <=> i > n)
  BY DEF Numbered
<1>1. PICK k \in [0 .. Len(log) -> Seq(Event)] :
         /\ k[0] = <<>>
         /\ \A i \in 1 .. Len(log) :
               k[i] = IF log[i] \in S THEN Append(k[i - 1], log[i]) ELSE k[i - 1]
         /\ Kept(log, S) = k[Len(log)]
  BY KeptStepByStep
<1>2. /\ Len(log) \in Nat
      /\ \A i \in 1 .. Len(log) :
            /\ log[i].seq = i
            /\ k[i] = IF i > n THEN Append(k[i - 1], log[i]) ELSE k[i - 1]
  BY <1>0, <1>1
<1> DEFINE Follow(part) == \A i \in DOMAIN part : part[i].seq = n + i
           Good(m) == /\ Follow(k[m])
                      /\ Len(k[m]) = IF m <= n THEN 0 ELSE m - n
           bad     == {m \in 0 .. Len(log) : ~Good(m)}
<1>3. Good(0)
  BY <1>1
<1>4. ASSUME NEW m \in 1 .. Len(log), Good(m - 1)
      PROVE  Good(m)
  <2>1. /\ m - 1 \in 0 .. Len(log)
        /\ k[m - 1] \in Seq(Event)
        /\ k[m] = IF m > n THEN Append(k[m - 1], log[m]) ELSE k[m - 1]
    BY <1>1, <1>2
  <2>2. CASE m <= n
    <3>1. k[m] = k[m - 1] /\ m - 1 <= n
      BY <1>2, <2>1, <2>2
    <3> QED
      BY <1>4, <2>2, <3>1
  <2>3. CASE m > n
    <3> DEFINE before == k[m - 1]
               after  == k[m]
    <3>1. /\ before \in Seq(Event)
          /\ after = Append(before, log[m])
          /\ Follow(before)
          /\ Len(before) = m - 1 - n
          /\ log[m].seq = m
      BY <1>2, <1>4, <2>1, <2>3
    <3>2. SUFFICES Follow(after) /\ Len(after) = m - n
      BY <2>3
    <3> HIDE DEF before, after
    <3>3. /\ DOMAIN before = 1 .. Len(before)
          /\ DOMAIN after = 1 .. Len(before) + 1
          /\ Len(after) = Len(before) + 1
          /\ \A i \in 1 .. Len(before) : after[i] = before[i]
          /\ after[Len(before) + 1] = log[m]
      BY <3>1
    <3>4. Len(before) + 1 = m - n /\ n + (m - n) = m
      BY <3>1
    <3>5. ASSUME NEW i \in DOMAIN after
          PROVE  after[i].seq = n + i
      <4>1. CASE i \in 1 .. Len(before)
        BY <3>1, <3>3, <4>1
      <4>2. CASE i = Len(before) + 1
        BY <3>1, <3>3, <3>4, <4>2
      <4> QED
        BY <3>3, <4>1, <4>2
    <3>6. Follow(after)
      BY <3>5
    <3> QED
      BY <3>3, <3>4, <3>6
  <2> QED
    BY <1>2, <2>2, <2>3
<1>5. bad = {}
  <2>1. SUFFICES ASSUME bad # {} PROVE FALSE
    OBVIOUS
  <2>2. bad \in SUBSET Nat
    OBVIOUS
  <2> HIDE DEF Good
  <2>3. PICK m \in bad : \A l \in bad : m <= l
    BY <2>1, <2>2, LeastNumber
  <2>4. m # 0
    BY <1>3, <2>3
  <2>5. m \in 1 .. Len(log) /\ m - 1 \in 0 .. Len(log) /\ m - 1 \notin bad
    BY <1>2, <2>3, <2>4
  <2>6. Good(m - 1)
    BY <2>5
  <2>7. Good(m)
    BY <1>4, <2>5, <2>6
  <2> QED
    BY <2>3, <2>7
<1>6. Good(Len(log)) /\ k[Len(log)] \in Seq(Event)
  <2> HIDE DEF Good
  <2>1. Len(log) \in 0 .. Len(log)
    BY <1>2
  <2> QED
    BY <1>5, <2>1
<1> QED
  BY <1>1, <1>6

(* What is read goes on where it stopped.                                  *)
LEMMA ReadGoesOn ==
    ASSUME NEW numbers \in Seq(Nat), FromTheFirst(numbers),
           NEW log \in Seq(Event), Numbered(log),
           NEW last, last = IF numbers = <<>> THEN 0 ELSE numbers[Len(numbers)],
           NEW unseen, unseen = Kept(log, {event \in Event : event.seq > last})
    PROVE  FromTheFirst(numbers \o [i \in DOMAIN unseen |-> unseen[i].seq])
<1> DEFINE given == [i \in DOMAIN unseen |-> unseen[i].seq]
           all   == numbers \o given
<1>1. last = Len(numbers) /\ last \in Nat
  BY DEF FromTheFirst
<1>2. /\ unseen \in Seq(Event)
      /\ \A i \in DOMAIN unseen : unseen[i].seq = last + i
  <2> DEFINE S == {event \in Event : event.seq > last}
  <2>1. \A i \in DOMAIN log : log[i] \in S <=> log[i].seq > last
    OBVIOUS
  <2>2. unseen = Kept(log, S)
    OBVIOUS
  <2> HIDE DEF S
  <2>3. /\ Kept(log, S) \in Seq(Event)
        /\ \A i \in DOMAIN Kept(log, S) : Kept(log, S)[i].seq = last + i
    BY <1>1, <2>1, KeptNumbered, Zenon
  <2> QED
    BY <2>2, <2>3
<1>3. /\ given \in Seq(Nat)
      /\ Len(given) \in Nat
      /\ \A i \in 1 .. Len(given) : given[i] = last + i
  <2>1. DOMAIN unseen = 1 .. Len(unseen) /\ Len(unseen) \in Nat
    BY <1>2
  <2>2. \A i \in 1 .. Len(unseen) : unseen[i].seq \in Nat
    BY <1>2, <2>1, EventNumbers
  <2>3. given \in Seq(Nat) /\ Len(given) = Len(unseen)
    BY <2>1, <2>2, IsASeq
  <2> QED
    BY <1>2, <2>1, <2>3
<1> HIDE DEF given
<1>4. /\ all \in Seq(Nat)
      /\ Len(all) = Len(numbers) + Len(given)
      /\ \A i \in 1 .. Len(numbers) + Len(given) :
            all[i] = IF i <= Len(numbers) THEN numbers[i] ELSE given[i - Len(numbers)]
  BY <1>3, ConcatProperties, Zenon
<1>5. ASSUME NEW i \in 1 .. Len(numbers) + Len(given)
      PROVE  (IF i <= Len(numbers) THEN numbers[i] ELSE given[i - Len(numbers)]) = i
  <2>1. CASE i <= Len(numbers)
    BY <1>1, <2>1 DEF FromTheFirst
  <2>2. CASE ~(i <= Len(numbers))
    <3>1. i - Len(numbers) \in 1 .. Len(given) /\ Len(numbers) + (i - Len(numbers)) = i
      BY <1>1, <1>3, <2>2
    <3> QED
      BY <1>1, <1>3, <2>2, <3>1
  <2> QED
    BY <2>1, <2>2
<1> HIDE DEF all
<1>6. DOMAIN all = 1 .. Len(numbers) + Len(given)
  BY <1>4
<1>7. FromTheFirst(all)
  BY <1>4, <1>5, <1>6 DEF FromTheFirst
<1> QED
  BY <1>7 DEF all, given

LEMMA FirstHostStep ==
    ASSUME WorkspaceInv, SlotInv, TypeInv, PointerInv, FirstHostInv, [Next]_vars
    PROVE  FirstHostInv'
<1>1. SUFFICES ASSUME crashes' = 0
               PROVE  /\ serving'
                      /\ \A q \in Runs : NumberedRun(q)'
                      /\ \A s \in Subscribers : FromTheFirst(received'[s])
  BY DEF FirstHostInv
<1>2. ~Crash
  <2>1. crashes \in Nat
    BY BoundsAssumption DEF TypeInv, TypeOK
  <2> QED
    BY <1>1, <2>1 DEF Crash
<1>3. serving' /\ crashes = 0
  BY <1>1, <1>2, ServingStep DEF Serve, host, FirstHostInv
<1>4. /\ serving
      /\ \A q \in Runs : NumberedRun(q)
      /\ \A s \in Subscribers : FromTheFirst(received[s])
  BY <1>3 DEF FirstHostInv
<1>5. ASSUME NEW q \in Runs
      PROVE  NumberedRun(q)'
  BY <1>2, <1>4, RunStep, TypesOfRun, NumberedStep DEF PointerInv
<1>6. ASSUME NEW s \in Subscribers
      PROVE  FromTheFirst(received'[s])
  <2>1. CASE received'[s] = received[s]
    BY <1>4, <2>1
  <2>2. CASE Read(s)
    <3> DEFINE r      == subscriber[s].run
               log    == IF r \in active THEN events[r] ELSE eventLog[r]
               last   == IF received[s] = <<>> THEN 0 ELSE received[s][Len(received[s])]
               unseen == Kept(log, {event \in Event : event.seq > last})
    <3>1. received' = [received EXCEPT ![s] = @ \o [i \in DOMAIN unseen |-> unseen[i].seq]]
      BY <2>2 DEF Read
    <3>2. received \in [Subscribers -> Seq(Nat)] /\ r \in Runs
      BY <2>2 DEF Read, TypeInv, TypeOK, StreamsHaveRuns
    <3>3. log \in Seq(Event) /\ Numbered(log)
      BY <1>4, <3>2 DEF TypeInv, TypeOK, NumberedRun
    <3> HIDE DEF log, r
    <3>4. FromTheFirst(received[s] \o [i \in DOMAIN unseen |-> unseen[i].seq])
      BY <1>4, <3>2, <3>3, ReadGoesOn
    <3> HIDE DEF unseen
    <3> QED
      BY <3>1, <3>2, <3>4
  <2>3. CASE Decide(s) \/ \E r \in Runs : Subscribe(s, r)
    BY <1>4, <2>3 DEF Decide, Subscribe
  <2> QED
    BY <2>1, <2>2, <2>3, StreamEffect DEF Follows
<1> QED
  BY <1>3, <1>5, <1>6

LEMMA InitFirstHost == Init => FirstHostInv
<1> SUFFICES ASSUME Init PROVE FirstHostInv
  OBVIOUS
<1>1. ASSUME NEW r \in Runs
      PROVE  NumberedRun(r)
  <2>1. /\ events[r] = NoLog /\ eventLog[r] = NoLog /\ eventLogTmp[r] = NoLog
        /\ lines[Main(r)] = NoLog /\ lines[Canceller(r)] = NoLog
    BY TasksDiffer DEF Init
  <2> QED
    BY <2>1 DEF NumberedRun, Numbered, NoLog
<1>2. ASSUME NEW s \in Subscribers
      PROVE  FromTheFirst(received[s])
  BY DEF Init, FromTheFirst
<1> QED
  BY <1>1, <1>2 DEF Init, FirstHostInv

(* While the host lives a subscriber is given the events of its run from   *)
(* the first on, none skipped and none twice, from memory or from disk,    *)
(* whether the run is cancelled or not.  Across every death of the host,   *)
(* the events of a run that nobody cancels come in order, and its stream   *)
(* ends only after the last write of the run, whatever other runs are      *)
(* cancelled.                                                              *)
THEOREM StreamsFollow == Spec => []StreamsFollowTheirRun
<1>1. ASSUME TypeInv, FirstHostInv, NEW s \in Subscribers, crashes = 0
      PROVE  received[s] = [i \in 1 .. Len(received[s]) |-> i]
  <2>1. received[s] \in Seq(Nat) /\ FromTheFirst(received[s])
    BY <1>1 DEF TypeInv, TypeOK, FirstHostInv
  <2> QED
    BY <2>1 DEF FromTheFirst
<1>2. ASSUME StreamInv, NEW s \in Subscribers, subscriber[s].run \notin Cancellable
      PROVE  /\ IncreasingNumbers(received[s])
             /\ subscriber[s].stage = "ended" => at[Main(subscriber[s].run)] \in Quiet
  BY <1>2 DEF StreamInv, FollowsItsRun, IncreasingNumbers
<1>3. TypeInv /\ FirstHostInv /\ StreamInv => StreamsFollowTheirRun
  BY <1>1, <1>2 DEF StreamsFollowTheirRun, IncreasingNumbers, Main, Quiet
<1>4. WorkspaceInv /\ SlotInv /\ TypeInv /\ PointerInv /\ FirstHostInv /\ [Next]_vars
        => FirstHostInv'
  BY FirstHostStep
<1> QED
  BY <1>3, <1>4, InitFirstHost, StreamInvariant, PTL DEF Spec

=============================================================================
