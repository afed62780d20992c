-------------------------- MODULE IntelligenceRuns --------------------------
(***************************************************************************)
(* The run manager of workspace intelligence: manager.ts of                *)
(* packages/workspace-intelligence, with the files that artifact-store.ts  *)
(* keeps for a run.  JavaScript runs one piece of code at a time, from one *)
(* await to the next, so each such piece is one action; the file system    *)
(* operations the code awaits are actions of their own, and what else the  *)
(* process does in between is up to Next.                                  *)
(*                                                                         *)
(* A run has two tasks that may be writing its files: "main", which is     *)
(* start() and then execute(), and "cancel", which is cancel().            *)
(*                                                                         *)
(* Of the files of a run the model keeps the manifest, the event log and   *)
(* the integrity file, with the temporary files that writeAtomic renames;  *)
(* coverage.json, the report and the graph are written the same way and    *)
(* nobody here reads them.  integrity.json is written in one step, from    *)
(* the files as they are then.                                             *)
(***************************************************************************)
EXTENDS Integers, Sequences, FiniteSets

CONSTANTS
    Engagements,        \* workspaces
    MaxRuns,            \* bound: runs that are ever started; they are numbered
    EngagementOf,       \* bound: EngagementOf[r] is the workspace of run r
    MaxConcurrentRuns,  \* manager option: runs that may execute at once
    RepositoryCount,    \* bound: repositories of a run
    Cancellable,        \* bound: runs that clients cancel
    Subscribers,        \* bound: clients that subscribe, once each
    MaxSelections,      \* bound: how often operators select a current run
    MaxCrashes          \* bound: how often the host dies

Runs  == 1 .. MaxRuns
None  == 0              \* undefined, where a run is expected
Tasks == Runs \X {"main", "cancel"}

ASSUME BoundsAssumption ==
    /\ MaxRuns \in Nat
    /\ EngagementOf \in [Runs -> Engagements]
    /\ MaxConcurrentRuns \in Nat \ {0}
    /\ RepositoryCount \in Nat \ {0}
    /\ Cancellable \subseteq Runs
    /\ MaxSelections \in Nat
    /\ MaxCrashes \in Nat

VARIABLES
    \* The manager's memory.
    state,              \* active.run.state
    events,             \* active.events; eventSequence is that of the last one
    active,             \* #active
    byEngagement,       \* #activeByEngagement
    cancelled,          \* runs with active.cancelled
    executionStarted,   \* runs with active.executionStarted
    completed,          \* repositories done, by run
    pending,            \* #pendingRunIds
    runningCount,       \* #runningCount
    \* Tasks: what they do once their write is over, and how far that is.
    at,
    io,
    snapshot,           \* the run they were asked to write
    lines,              \* the event log they serialized
    \* Files.
    manifest,           \* manifest.json
    eventLog,           \* events.jsonl
    sealed,             \* what integrity.json has the digests of
    current,            \* current.json of a workspace
    manifestTmp,
    eventLogTmp,
    currentTmp,
    \* The world.
    subscriber,         \* where subscribe() is, and for which run
    received,           \* the sequence numbers a subscriber was given
    selecting,          \* setCurrent() of an operator, by workspace
    selections,
    serving,            \* reconcile() is over
    crashes

memory   == <<state, events>>
schedule == <<active, byEngagement, cancelled, executionStarted, completed,
              pending, runningCount>>
files    == <<manifest, eventLog, sealed, manifestTmp, eventLogTmp>>
pointer  == <<current, currentTmp>>
clients  == <<subscriber, received>>
operator == <<selecting, selections>>
host     == <<serving, crashes>>
vars     == <<memory, schedule, at, io, snapshot, lines, files, pointer,
              clients, operator, host>>

(* "completed" stands for "partial" too: which of the two it is depends on *)
(* the analyses alone, and both are valid.                                 *)
TerminalStates == {"completed", "failed", "cancelled", "interrupted"}
RunStates == TerminalStates \union {"queued", "preparing", "running", "cancelling"}

Event    == [seq : Nat, state : RunStates]
Absent   == [seq |-> 0, state |-> "none"]
Snapshot == Event \union {Absent}
NoLog    == <<>>

Labels == {"idle", "queued", "pending", "preparing", "running", "analysing",
    "covering", "completing", "finalizing", "selecting", "failing",
    "finalizingFailed", "cancelling", "cancelled", "finalizingCancelled",
    "reconciling", "over", "done"}
Stages == {"none", "manifestWrite", "manifestRename", "eventsCall",
    "eventsWrite", "eventsRename", "integrity", "currentWrite",
    "currentRename", "returned", "thrown"}

TypeOK ==
    /\ state \in [Runs -> RunStates \union {"none"}]
    /\ events \in [Runs -> Seq(Event)]
    /\ active \subseteq Runs
    /\ byEngagement \in [Engagements -> Runs \union {None}]
    /\ cancelled \subseteq Runs
    /\ executionStarted \subseteq Runs
    /\ completed \in [Runs -> 0 .. RepositoryCount]
    /\ pending \in Seq(Runs)
    /\ runningCount \in 0 .. MaxConcurrentRuns
    /\ at \in [Tasks -> Labels]
    /\ io \in [Tasks -> Stages]
    /\ snapshot \in [Tasks -> Snapshot]
    /\ lines \in [Tasks -> Seq(Event)]
    /\ manifest \in [Runs -> Snapshot]
    /\ eventLog \in [Runs -> Seq(Event)]
    /\ sealed \in [Runs -> Snapshot \X Seq(Event)]
    /\ current \in [Engagements -> Runs \union {None}]
    /\ manifestTmp \in [Runs -> Snapshot]
    /\ eventLogTmp \in [Runs -> Seq(Event)]
    /\ currentTmp \in [Engagements -> Runs \union {None}]
    /\ subscriber \in [Subscribers ->
          [run : Runs \union {None},
           stage : {"idle", "reading", "checking", "deciding", "waiting",
                    "ended", "lost"},
           saw : RunStates \union {"none"}]]
    /\ received \in [Subscribers -> Seq(Nat)]
    /\ selecting \in [Engagements ->
          [run : Runs \union {None}, stage : {"none", "write", "rename"}]]
    /\ selections \in 0 .. MaxSelections
    /\ serving \in BOOLEAN
    /\ crashes \in 0 .. MaxCrashes

Init ==
    /\ state = [r \in Runs |-> "none"]
    /\ events = [r \in Runs |-> NoLog]
    /\ active = {}
    /\ byEngagement = [e \in Engagements |-> None]
    /\ cancelled = {}
    /\ executionStarted = {}
    /\ completed = [r \in Runs |-> 0]
    /\ pending = <<>>
    /\ runningCount = 0
    /\ at = [t \in Tasks |-> "idle"]
    /\ io = [t \in Tasks |-> "none"]
    /\ snapshot = [t \in Tasks |-> Absent]
    /\ lines = [t \in Tasks |-> NoLog]
    /\ manifest = [r \in Runs |-> Absent]
    /\ eventLog = [r \in Runs |-> NoLog]
    /\ sealed = [r \in Runs |-> <<Absent, NoLog>>]
    /\ current = [e \in Engagements |-> None]
    /\ manifestTmp = [r \in Runs |-> Absent]
    /\ eventLogTmp = [r \in Runs |-> NoLog]
    /\ currentTmp = [e \in Engagements |-> None]
    /\ subscriber = [s \in Subscribers |->
          [run |-> None, stage |-> "idle", saw |-> "none"]]
    /\ received = [s \in Subscribers |-> <<>>]
    /\ selecting = [e \in Engagements |-> [run |-> None, stage |-> "none"]]
    /\ selections = 0
    /\ serving = TRUE
    /\ crashes = 0

-----------------------------------------------------------------------------
(* What the actions are built from.                                        *)

Terminal(r) == state[r] \in TerminalStates

(* filter: the elements of s that are in S, in their order.                *)
Kept(s, S) ==
    LET kept[i \in 0 .. Len(s)] ==
            IF i = 0 THEN <<>>
            ELSE IF s[i] \in S THEN Append(kept[i - 1], s[i])
            ELSE kept[i - 1]
    IN  kept[Len(s)]

(* The run a reader of the store takes for a valid artifact: isValid was   *)
(* written with its manifest, and verifyRun finds what was sealed.         *)
Valid(r) ==
    /\ manifest[r].state = "completed"
    /\ sealed[r] = <<manifest[r], eventLog[r]>>

(* transition and record, up to the first await of writeRun: the state,    *)
(* the next event, and the snapshot that is to be written.                 *)
Record(t, next) ==
    LET r     == t[1]
        event == [seq |-> Len(events[r]) + 1, state |-> next]
    IN  /\ state' = [state EXCEPT ![r] = next]
        /\ events' = [events EXCEPT ![r] = Append(@, event)]
        /\ snapshot' = [snapshot EXCEPT ![t] = event]
        /\ io' = [io EXCEPT ![t] = "manifestWrite"]
        /\ UNCHANGED lines

(* finalize, up to its first await: the run as it is now is written again. *)
Finalize(t) ==
    /\ snapshot' = [snapshot EXCEPT ![t] = events[t[1]][Len(events[t[1]])]]
    /\ io' = [io EXCEPT ![t] = "manifestWrite"]
    /\ UNCHANGED <<memory, lines>>

Goes(t, label) == at' = [at EXCEPT ![t] = label]

(* notify: every listener of the run is resolved, and forgotten.           *)
Notify(r) ==
    /\ subscriber' = [s \in Subscribers |->
           IF subscriber[s].run = r /\ subscriber[s].stage = "waiting"
           THEN [subscriber[s] EXCEPT !.stage = "reading"]
           ELSE subscriber[s]]
    /\ UNCHANGED received

(* Bug variant: the run stays in #activeByEngagement.                      *)
ForgetKeepsWorkspace(r) ==
    /\ active' = active \ {r}
    /\ Notify(r)
    /\ UNCHANGED byEngagement

(* The end of execute and of finishQueuedCancellation.                     *)
Forget(r) ==
    /\ active' = active \ {r}
    /\ byEngagement' = [byEngagement EXCEPT ![EngagementOf[r]] = None]
    /\ Notify(r)

Startable(r) == r \in active /\ r \notin executionStarted /\ r \notin cancelled

(* Bug variant: one run too many.                                          *)
DrainPastLimit(queue, count, label) ==
    LET startable == {i \in DOMAIN queue : Startable(queue[i])}
        full      == count > MaxConcurrentRuns
    IN  \/ /\ full \/ startable = {}
           /\ pending' = IF full THEN queue ELSE <<>>
           /\ runningCount' = count
           /\ at' = label
           /\ UNCHANGED <<memory, executionStarted, io, snapshot, lines>>
        \/ \E i \in startable :
              LET t == <<queue[i], "main">> IN
              /\ ~full
              /\ \A j \in startable : i <= j
              /\ pending' = SubSeq(queue, i + 1, Len(queue))
              /\ runningCount' = count + 1
              /\ executionStarted' = executionStarted \union {queue[i]}
              /\ at' = [label EXCEPT ![t] = "preparing"]
              /\ Record(t, "preparing")

(* drainQueue, with the queue and the count its caller has just made, and  *)
(* label for what the caller did to at.  SlotsFollowRuns says why one call *)
(* never starts two runs.                                                  *)
Drain(queue, count, label) ==
    LET startable == {i \in DOMAIN queue : Startable(queue[i])}
        full      == count = MaxConcurrentRuns
    IN  \/ /\ full \/ startable = {}
           /\ pending' = IF full THEN queue ELSE <<>>
           /\ runningCount' = count
           /\ at' = label
           /\ UNCHANGED <<memory, executionStarted, io, snapshot, lines>>
        \/ \E i \in startable :
              LET t == <<queue[i], "main">> IN
              /\ ~full
              /\ \A j \in startable : i <= j
              /\ pending' = SubSeq(queue, i + 1, Len(queue))
              /\ runningCount' = count + 1
              /\ executionStarted' = executionStarted \union {queue[i]}
              /\ at' = [label EXCEPT ![t] = "preparing"]
              /\ Record(t, "preparing")

-----------------------------------------------------------------------------
(* writeRun and finalize.  Two tasks of a run share its temporary files:   *)
(* the later write replaces the earlier, and the first rename leaves       *)
(* nothing for the second, which throws.                                   *)

WriteManifest(t) ==
    /\ io[t] = "manifestWrite"
    /\ manifestTmp' = [manifestTmp EXCEPT ![t[1]] = snapshot[t]]
    /\ io' = [io EXCEPT ![t] = "manifestRename"]
    /\ UNCHANGED <<memory, schedule, at, snapshot, lines, manifest, eventLog,
                   sealed, eventLogTmp, pointer, clients, operator, host>>

RenameManifest(t) ==
    LET r == t[1] IN
    /\ io[t] = "manifestRename"
    /\ \/ /\ manifestTmp[r] # Absent
          /\ manifest' = [manifest EXCEPT ![r] = manifestTmp[r]]
          /\ manifestTmp' = [manifestTmp EXCEPT ![r] = Absent]
          /\ io' = [io EXCEPT ![t] = "eventsCall"]
       \/ /\ manifestTmp[r] = Absent
          /\ io' = [io EXCEPT ![t] = "thrown"]
          /\ UNCHANGED <<manifest, manifestTmp>>
    /\ UNCHANGED <<memory, schedule, at, snapshot, lines, eventLog, sealed,
                   eventLogTmp, pointer, clients, operator, host>>

(* events is the live array: what is written is what it holds by now.      *)
SerializeEvents(t) ==
    /\ io[t] = "eventsCall"
    /\ lines' = [lines EXCEPT ![t] = events[t[1]]]
    /\ io' = [io EXCEPT ![t] = "eventsWrite"]
    /\ UNCHANGED <<memory, schedule, at, snapshot, files, pointer, clients,
                   operator, host>>

WriteEvents(t) ==
    /\ io[t] = "eventsWrite"
    /\ eventLogTmp' = [eventLogTmp EXCEPT ![t[1]] = lines[t]]
    /\ lines' = [lines EXCEPT ![t] = NoLog]
    /\ io' = [io EXCEPT ![t] = "eventsRename"]
    /\ UNCHANGED <<memory, schedule, at, snapshot, manifest, eventLog, sealed,
                   manifestTmp, pointer, clients, operator, host>>

IsFinalizing(t) ==
    at[t] \in {"finalizing", "finalizingFailed", "finalizingCancelled",
               "reconciling"}

RenameEvents(t) ==
    LET r == t[1] IN
    /\ io[t] = "eventsRename"
    /\ \/ /\ eventLogTmp[r] # NoLog
          /\ eventLog' = [eventLog EXCEPT ![r] = eventLogTmp[r]]
          /\ eventLogTmp' = [eventLogTmp EXCEPT ![r] = NoLog]
          /\ io' = [io EXCEPT ![t] = IF IsFinalizing(t) THEN "integrity"
                                     ELSE "returned"]
       \/ /\ eventLogTmp[r] = NoLog
          /\ io' = [io EXCEPT ![t] = "thrown"]
          /\ UNCHANGED <<eventLog, eventLogTmp>>
    /\ UNCHANGED <<memory, schedule, at, snapshot, lines, manifest, sealed,
                   manifestTmp, pointer, clients, operator, host>>

(* writeIntegrity seals what it finds in the files.                        *)
WriteIntegrity(t) ==
    LET r == t[1] IN
    /\ io[t] = "integrity"
    /\ sealed' = [sealed EXCEPT ![r] = <<manifest[r], eventLog[r]>>]
    /\ io' = [io EXCEPT ![t] = "returned"]
    /\ UNCHANGED <<memory, schedule, at, snapshot, lines, manifest, eventLog,
                   manifestTmp, eventLogTmp, pointer, clients, operator, host>>

(* setCurrent of the store, by the run that completed ...                  *)
WriteCurrent(t) ==
    /\ io[t] = "currentWrite"
    /\ currentTmp' = [currentTmp EXCEPT ![EngagementOf[t[1]]] = t[1]]
    /\ io' = [io EXCEPT ![t] = "currentRename"]
    /\ UNCHANGED <<memory, schedule, at, snapshot, lines, files, current,
                   clients, operator, host>>

RenameCurrent(t) ==
    LET e == EngagementOf[t[1]] IN
    /\ io[t] = "currentRename"
    /\ \/ /\ currentTmp[e] # None
          /\ current' = [current EXCEPT ![e] = currentTmp[e]]
          /\ currentTmp' = [currentTmp EXCEPT ![e] = None]
          /\ io' = [io EXCEPT ![t] = "returned"]
       \/ /\ currentTmp[e] = None
          /\ io' = [io EXCEPT ![t] = "thrown"]
          /\ UNCHANGED pointer
    /\ UNCHANGED <<memory, schedule, at, snapshot, lines, files, clients,
                   operator, host>>

(* Bug variant: the selected run is not verified.                          *)
SelectUnverified(r) ==
    LET e == EngagementOf[r] IN
    /\ serving
    /\ selections < MaxSelections
    /\ r \notin active
    /\ manifest[r] # Absent
    /\ selecting[e].stage = "none"
    /\ selecting' = [selecting EXCEPT ![e] = [run |-> r, stage |-> "write"]]
    /\ selections' = selections + 1
    /\ UNCHANGED <<memory, schedule, at, io, snapshot, lines, files, pointer,
                   clients, host>>

(* ... and by an operator, of a run that was found inactive and valid.     *)
SelectCurrent(r) ==
    LET e == EngagementOf[r] IN
    /\ serving
    /\ selections < MaxSelections
    /\ r \notin active
    /\ Valid(r)
    /\ selecting[e].stage = "none"
    /\ selecting' = [selecting EXCEPT ![e] = [run |-> r, stage |-> "write"]]
    /\ selections' = selections + 1
    /\ UNCHANGED <<memory, schedule, at, io, snapshot, lines, files, pointer,
                   clients, host>>

WriteSelected(e) ==
    /\ selecting[e].stage = "write"
    /\ currentTmp' = [currentTmp EXCEPT ![e] = selecting[e].run]
    /\ selecting' = [selecting EXCEPT ![e].stage = "rename"]
    /\ UNCHANGED <<memory, schedule, at, io, snapshot, lines, files, current,
                   clients, selections, host>>

RenameSelected(e) ==
    /\ selecting[e].stage = "rename"
    /\ selecting' = [selecting EXCEPT ![e] = [run |-> None, stage |-> "none"]]
    /\ IF currentTmp[e] = None
       THEN UNCHANGED pointer
       ELSE /\ current' = [current EXCEPT ![e] = currentTmp[e]]
            /\ currentTmp' = [currentTmp EXCEPT ![e] = None]
    /\ UNCHANGED <<memory, schedule, at, io, snapshot, lines, files, clients,
                   selections, host>>

-----------------------------------------------------------------------------
(* start.                                                                  *)

Returned(t, label) == at[t] = label /\ io[t] = "returned"

(* A second request for a workspace gets its active run, or is refused.    *)
Start(r) ==
    LET t == <<r, "main">>
        e == EngagementOf[r]
    IN  /\ serving
        /\ state[r] = "none"
        /\ byEngagement[e] = None
        /\ active' = active \union {r}
        /\ byEngagement' = [byEngagement EXCEPT ![e] = r]
        /\ Goes(t, "queued")
        /\ Record(t, "queued")
        /\ UNCHANGED <<cancelled, executionStarted, completed, pending,
                       runningCount, files, pointer, clients, operator, host>>

(* The queued run is written: start enqueues it and returns.               *)
Enqueue(r) ==
    LET t == <<r, "main">> IN
    /\ Returned(t, "queued")
    /\ Notify(r)
    /\ Drain(Append(pending, r), runningCount, [at EXCEPT ![t] = "pending"])
    /\ UNCHANGED <<active, byEngagement, cancelled, completed, files, pointer,
                   operator, host>>

(* start rejects, and leaves its run where it was.                         *)
StartFails(r) ==
    LET t == <<r, "main">> IN
    /\ at[t] = "queued"
    /\ io[t] = "thrown"
    /\ Goes(t, "done")
    /\ UNCHANGED <<memory, schedule, io, snapshot, lines, files, pointer,
                   clients, operator, host>>

-----------------------------------------------------------------------------
(* execute.                                                                *)

(* return this.finishCancelled(active), from inside the try: the promise   *)
(* is not awaited there, so the finally clause runs as soon as it exists.  *)
FinishCancelled(r) ==
    LET t == <<r, "main">> IN
    /\ r \in cancelled
    /\ Record(t, "cancelled")
    /\ Goes(t, "cancelled")
    /\ Forget(r)

Transition(r, next, label) ==
    LET t == <<r, "main">> IN
    /\ r \notin cancelled
    /\ Record(t, next)
    /\ Goes(t, label)
    /\ UNCHANGED <<active, byEngagement>>

(* What the pieces of execute leave alone.                                 *)
executeFrame == <<cancelled, executionStarted, pending, runningCount, files,
                  pointer, operator, host>>

Prepared(r) ==
    /\ Returned(<<r, "main">>, "preparing")
    /\ \/ FinishCancelled(r)
       \/ Transition(r, "running", "running") /\ Notify(r)
    /\ UNCHANGED <<completed, executeFrame>>

(* The head of the loop over the repositories, and what follows it.        *)
NextRepository(r) ==
    LET t == <<r, "main">> IN
    /\ Returned(t, "running") \/ Returned(t, "covering")
    /\ \/ FinishCancelled(r)
       \/ /\ r \notin cancelled
          /\ completed[r] < RepositoryCount
          /\ Goes(t, "analysing")
          /\ io' = [io EXCEPT ![t] = "none"]
          /\ Notify(r)
          /\ UNCHANGED <<memory, snapshot, lines, active, byEngagement>>
       \/ /\ completed[r] = RepositoryCount
          /\ Transition(r, "completed", "completing")
          /\ Notify(r)
    /\ UNCHANGED <<completed, executeFrame>>

RepositoryAnalyzed(r) ==
    LET t == <<r, "main">> IN
    /\ at[t] = "analysing"
    /\ completed' = [completed EXCEPT ![r] = @ + 1]
    /\ Record(t, state[r])
    /\ Goes(t, "covering")
    /\ UNCHANGED <<active, byEngagement, clients, executeFrame>>

(* The catch clause: an analysis or a write failed.                        *)
Fails(r) ==
    LET t == <<r, "main">> IN
    /\ \/ at[t] = "analysing"
       \/ /\ io[t] = "thrown"
          /\ at[t] \in {"preparing", "running", "covering", "completing",
                        "finalizing", "selecting"}
    /\ \/ FinishCancelled(r)
       \/ Transition(r, "failed", "failing") /\ UNCHANGED clients
    /\ UNCHANGED <<completed, executeFrame>>

(* The terminal state is written; the artifacts follow.                    *)
Materialize(r) ==
    LET t == <<r, "main">> IN
    /\ \/ Returned(t, "completing") /\ Goes(t, "finalizing")
       \/ Returned(t, "failing")    /\ Goes(t, "finalizingFailed")
    /\ Notify(r)
    /\ Finalize(t)
    /\ UNCHANGED <<active, byEngagement, completed, executeFrame>>

BecomeCurrent(r) ==
    LET t == <<r, "main">> IN
    /\ Returned(t, "finalizing")
    /\ Goes(t, "selecting")
    /\ io' = [io EXCEPT ![t] = "currentWrite"]
    /\ UNCHANGED <<memory, snapshot, lines, schedule, files, pointer, clients,
                   operator, host>>

(* The finally clause.  A write that fails in the catch clause gets here   *)
(* as well, and rejects execute's promise, which nobody handles.           *)
Leave(r) ==
    LET t == <<r, "main">> IN
    /\ \/ Returned(t, "selecting")
       \/ Returned(t, "finalizingFailed")
       \/ io[t] = "thrown" /\ at[t] \in {"failing", "finalizingFailed"}
    /\ Goes(t, "over")
    /\ Forget(r)
    /\ UNCHANGED <<memory, io, snapshot, lines, completed, executeFrame>>

(* finishCancelled goes on after its record, in either task.               *)
CancellationRecorded(t) ==
    /\ Returned(t, "cancelled")
    /\ Notify(t[1])
    /\ Goes(t, "finalizingCancelled")
    /\ Finalize(t)
    /\ UNCHANGED <<schedule, files, pointer, operator, host>>

CancellationOver(r) ==
    LET t == <<r, "main">> IN
    /\ \/ Returned(t, "finalizingCancelled")
       \/ io[t] = "thrown" /\ at[t] \in {"cancelled", "finalizingCancelled"}
    /\ Goes(t, "over")
    /\ UNCHANGED <<memory, schedule, io, snapshot, lines, files, pointer,
                   clients, operator, host>>

(* Bug variant: the slot is never given back.                              *)
ReleaseKeepsSlot(r) ==
    LET t == <<r, "main">> IN
    /\ at[t] = "over"
    /\ Drain(pending, runningCount, [at EXCEPT ![t] = "done"])
    /\ UNCHANGED <<active, byEngagement, cancelled, completed, files, pointer,
                   clients, operator, host>>

(* Once execute's promise is settled, its slot goes to the queue.          *)
Release(r) ==
    LET t == <<r, "main">> IN
    /\ at[t] = "over"
    /\ Drain(pending, runningCount - 1, [at EXCEPT ![t] = "done"])
    /\ UNCHANGED <<active, byEngagement, cancelled, completed, files, pointer,
                   clients, operator, host>>

-----------------------------------------------------------------------------
(* cancel.                                                                 *)

Cancel(r) ==
    LET t == <<r, "cancel">> IN
    /\ serving
    /\ r \in Cancellable \intersect active
    /\ ~Terminal(r)
    /\ r \notin cancelled
    /\ cancelled' = cancelled \union {r}
    /\ Goes(t, "cancelling")
    /\ Record(t, "cancelling")
    /\ UNCHANGED <<active, byEngagement, executionStarted, completed, pending,
                   runningCount, files, pointer, clients, operator, host>>

(* A run that executes sees the flag itself; a queued one is finished here.*)
CancelRequested(r) ==
    LET t == <<r, "cancel">> IN
    /\ Returned(t, "cancelling")
    /\ Notify(r)
    /\ \/ /\ r \in executionStarted
          /\ Goes(t, "done")
          /\ UNCHANGED <<memory, io, snapshot, lines, pending>>
       \/ /\ r \notin executionStarted
          /\ pending' = Kept(pending, Runs \ {r})
          /\ Goes(t, "cancelled")
          /\ Record(t, "cancelled")
    /\ UNCHANGED <<active, byEngagement, cancelled, executionStarted,
                   completed, runningCount, files, pointer, operator, host>>

QueuedCancellationOver(r) ==
    LET t == <<r, "cancel">> IN
    /\ Returned(t, "finalizingCancelled")
    /\ Forget(r)
    /\ Drain(pending, runningCount, [at EXCEPT ![t] = "done"])
    /\ UNCHANGED <<cancelled, completed, files, pointer, operator, host>>

(* cancel rejects, whatever it was about to do next.                       *)
CancelFails(r) ==
    LET t == <<r, "cancel">> IN
    /\ io[t] = "thrown"
    /\ at[t] # "done"
    /\ Goes(t, "done")
    /\ UNCHANGED <<memory, schedule, io, snapshot, lines, files, pointer,
                   clients, operator, host>>

-----------------------------------------------------------------------------
(* subscribe.                                                              *)

Known(r) == r \in active \/ manifest[r] # Absent

Subscribe(s, r) ==
    /\ serving
    /\ subscriber[s].stage = "idle"
    /\ Known(r)
    /\ subscriber' = [subscriber EXCEPT ![s].run = r, ![s].stage = "reading"]
    /\ UNCHANGED <<received, memory, schedule, at, io, snapshot, lines, files,
                   pointer, operator, host>>

(* Bug variant: the last event is delivered again.                         *)
ReadAgain(s) ==
    LET r     == subscriber[s].run
        log   == IF r \in active THEN events[r] ELSE eventLog[r]
        last  == IF received[s] = <<>> THEN 0 ELSE received[s][Len(received[s])]
        unseen == Kept(log, {event \in Event : event.seq >= last})
    IN  /\ subscriber[s].stage = "reading"
        /\ received' = [received EXCEPT ![s] =
                           @ \o [i \in DOMAIN unseen |-> unseen[i].seq]]
        /\ subscriber' = [subscriber EXCEPT ![s].stage = "checking"]
        /\ UNCHANGED <<memory, schedule, at, io, snapshot, lines, files,
                       pointer, operator, host>>

(* Everything after the last sequence number is delivered.                 *)
Read(s) ==
    LET r     == subscriber[s].run
        log   == IF r \in active THEN events[r] ELSE eventLog[r]
        last  == IF received[s] = <<>> THEN 0 ELSE received[s][Len(received[s])]
        unseen == Kept(log, {event \in Event : event.seq > last})
    IN  /\ subscriber[s].stage = "reading"
        /\ received' = [received EXCEPT ![s] =
                           @ \o [i \in DOMAIN unseen |-> unseen[i].seq]]
        /\ subscriber' = [subscriber EXCEPT ![s].stage = "checking"]
        /\ UNCHANGED <<memory, schedule, at, io, snapshot, lines, files,
                       pointer, operator, host>>

(* get takes the state of the run, and then awaits current.json.           *)
Check(s) ==
    LET r == subscriber[s].run IN
    /\ subscriber[s].stage = "checking"
    /\ subscriber' = [subscriber EXCEPT
           ![s].saw = IF r \in active THEN state[r] ELSE manifest[r].state,
           ![s].stage = "deciding"]
    /\ UNCHANGED <<received, memory, schedule, at, io, snapshot, lines, files,
                   pointer, operator, host>>

(* Bug variant: a terminal state ends the stream.                          *)
DecideOnState(s) ==
    LET over == subscriber[s].saw \in TerminalStates
    IN  /\ subscriber[s].stage = "deciding"
        /\ subscriber' = [subscriber EXCEPT
               ![s].stage = IF over THEN "ended" ELSE "waiting",
               ![s].saw = "none"]
        /\ UNCHANGED <<received, memory, schedule, at, io, snapshot, lines,
                       files, pointer, operator, host>>

(* With what it saw, the subscriber ends or waits for the next event.      *)
Decide(s) ==
    LET over == /\ subscriber[s].saw \in TerminalStates
                /\ subscriber[s].run \notin active
    IN  /\ subscriber[s].stage = "deciding"
        /\ subscriber' = [subscriber EXCEPT
               ![s].stage = IF over THEN "ended" ELSE "waiting",
               ![s].saw = "none"]
        /\ UNCHANGED <<received, memory, schedule, at, io, snapshot, lines,
                       files, pointer, operator, host>>

-----------------------------------------------------------------------------
(* The host dies and starts again.                                         *)

Idle == \A t \in Tasks : at[t] \in {"idle", "done"}

(* Memory, tasks and streams are gone; files stay, temporary ones as well. *)
Crash ==
    /\ crashes < MaxCrashes
    /\ crashes' = crashes + 1
    /\ serving' = FALSE
    /\ active' = {}
    /\ byEngagement' = [e \in Engagements |-> None]
    /\ cancelled' = {}
    /\ executionStarted' = {}
    /\ completed' = [r \in Runs |-> 0]
    /\ pending' = <<>>
    /\ runningCount' = 0
    /\ at' = [t \in Tasks |-> "idle"]
    /\ io' = [t \in Tasks |-> "none"]
    /\ snapshot' = [t \in Tasks |-> Absent]
    /\ lines' = [t \in Tasks |-> NoLog]
    /\ subscriber' = [s \in Subscribers |->
           IF subscriber[s].stage \in {"idle", "ended"} THEN subscriber[s]
           ELSE [run |-> subscriber[s].run, stage |-> "lost", saw |-> "none"]]
    /\ selecting' = [e \in Engagements |-> [run |-> None, stage |-> "none"]]
    /\ UNCHANGED <<memory, files, pointer, received, selections>>

(* Bug variants: queued runs are forgotten, ...                            *)
InterruptedNotQueued(r) ==
    /\ manifest[r] # Absent
    /\ manifest[r].state \notin TerminalStates \union {"queued"}

(* ... and terminal runs are reconciled as well.                           *)
InterruptedAnyState(r) == manifest[r] # Absent

Interrupted(r) == manifest[r] # Absent /\ manifest[r].state \notin TerminalStates

(* reconcile, before the service answers: one run after the other gets an  *)
(* event after the last of its manifest, and is finalized as interrupted.  *)
ReconcileRun(r) ==
    LET t     == <<r, "main">>
        event == [seq |-> manifest[r].seq + 1, state |-> "interrupted"]
    IN  /\ ~serving
        /\ Idle
        /\ Interrupted(r)
        /\ state' = [state EXCEPT ![r] = "interrupted"]
        /\ events' = [events EXCEPT ![r] = Append(eventLog[r], event)]
        /\ snapshot' = [snapshot EXCEPT ![t] = event]
        /\ io' = [io EXCEPT ![t] = "manifestWrite"]
        /\ Goes(t, "reconciling")
        /\ UNCHANGED <<schedule, lines, files, pointer, clients, operator, host>>

RunReconciled(r) ==
    LET t == <<r, "main">> IN
    /\ Returned(t, "reconciling")
    /\ Goes(t, "done")
    /\ UNCHANGED <<memory, schedule, io, snapshot, lines, files, pointer,
                   clients, operator, host>>

Serve ==
    /\ ~serving
    /\ Idle
    /\ \A r \in Runs : ~Interrupted(r)
    /\ serving' = TRUE
    /\ UNCHANGED <<memory, schedule, at, io, snapshot, lines, files, pointer,
                   clients, operator, crashes>>

-----------------------------------------------------------------------------
FileSystem(t) ==
    \/ WriteManifest(t)
    \/ RenameManifest(t)
    \/ SerializeEvents(t)
    \/ WriteEvents(t)
    \/ RenameEvents(t)
    \/ WriteIntegrity(t)
    \/ WriteCurrent(t)
    \/ RenameCurrent(t)

(* What start and execute do next.                                         *)
Execute(r) ==
    \/ Enqueue(r)
    \/ StartFails(r)
    \/ Prepared(r)
    \/ NextRepository(r)
    \/ RepositoryAnalyzed(r)
    \/ Fails(r)
    \/ Materialize(r)
    \/ BecomeCurrent(r)
    \/ Leave(r)
    \/ CancellationRecorded(<<r, "main">>)
    \/ CancellationOver(r)
    \/ Release(r)

(* What cancel does next.                                                  *)
FinishCancel(r) ==
    \/ CancelRequested(r)
    \/ CancellationRecorded(<<r, "cancel">>)
    \/ QueuedCancellationOver(r)
    \/ CancelFails(r)

Stream(s) == Read(s) \/ Check(s) \/ Decide(s)

Selection == \E e \in Engagements : WriteSelected(e) \/ RenameSelected(e)

Next ==
    \/ \E r \in Runs : Start(r) \/ Execute(r) \/ Cancel(r) \/ FinishCancel(r)
    \/ \E t \in Tasks : FileSystem(t)
    \/ \E s \in Subscribers : Stream(s) \/ \E r \in Runs : Subscribe(s, r)
    \/ \E r \in Runs : SelectCurrent(r) \/ ReconcileRun(r) \/ RunReconciled(r)
    \/ Selection
    \/ Crash
    \/ Serve

Spec == Init /\ [][Next]_vars

-----------------------------------------------------------------------------
(* Safety.                                                                 *)

(* REQ-WI-RUN-001: a workspace has one active run.  start, execute's       *)
(* finally clause and a queued cancellation keep the two maps in step.     *)
OneActiveRunPerWorkspace ==
    /\ \A r \in active : byEngagement[EngagementOf[r]] = r
    /\ \A e \in Engagements : byEngagement[e] # None => byEngagement[e] \in active

(* The runs whose execute has not settled yet.                             *)
Executing ==
    {r \in Runs : at[r, "main"] \notin {"idle", "queued", "pending",
                                        "reconciling", "done"}}

(* #runningCount is what it says, through failures, rejections and         *)
(* cancellations, never passes the host's limit, and no run waits in the   *)
(* queue beside a free slot.                                               *)
SlotsFollowRuns ==
    /\ Cardinality(Executing) = runningCount
    /\ runningCount <= MaxConcurrentRuns
    /\ pending # <<>> => runningCount = MaxConcurrentRuns

(* While the host lives a subscriber is given the events of its run from   *)
(* the first on, none skipped and none twice, whether they come from       *)
(* memory or, once the run is over, from disk.  Whatever the host did, the *)
(* events of a run that no client cancels come in order, and its stream    *)
(* stays "open until the worker has finalized" (manager.ts:720): it ends   *)
(* only after the last write of the run.  The stream of a cancelled run    *)
(* may end before: cancel() forgets the run while start() still writes.    *)
(* That all events have been given when it ends is StreamsAreComplete.     *)
StreamsFollowTheirRun ==
    \A s \in Subscribers :
        /\ crashes = 0 => received[s] = [i \in 1 .. Len(received[s]) |-> i]
        /\ subscriber[s].run \notin Cancellable =>
              /\ \A i, j \in DOMAIN received[s] :
                     i < j => received[s][i] < received[s][j]
              /\ subscriber[s].stage = "ended" =>
                     at[subscriber[s].run, "main"] \in
                         {"idle", "over", "done", "reconciling"}

(* A stream that ends has given every event on record.  It does not hold:  *)
(* subscribe() reads the events, and decides later that the run is over    *)
(* (manager.ts:719); what was recorded in between is never delivered.      *)
StreamsAreComplete ==
    \A s \in Subscribers :
        subscriber[s].stage = "ended" =>
            \A i \in DOMAIN eventLog[subscriber[s].run] :
                \E j \in DOMAIN received[s] :
                    received[s][j] = eventLog[subscriber[s].run][i].seq

(* REQ-WI-RUN-004: no persisted run that nobody works on is left queued or *)
(* in progress, however often the host died, also while it was             *)
(* reconciling.  Said of runs that no client cancels: the manifest of a    *)
(* cancelled run may be replaced, when all is over, by the "cancelling"    *)
(* that its cancel() had begun to write.                                   *)
InactiveRunsAreTerminal ==
    serving => \A r \in Runs \ Cancellable :
        /\ manifest[r] # Absent
        /\ r \notin active
        /\ \A task \in {"main", "cancel"} : at[r, task] \in {"idle", "done"}
        => manifest[r].state \in TerminalStates

(* cancel() has not been called, or is over.                               *)
CancelAtRest(r) == at[r, "cancel"] \in {"idle", "done"}

(* REQ-WI-ART-003: the files of a completed or a cancelled run, once       *)
(* sealed, never change: not by a cancellation that came too late, and not *)
(* by any number of restarts.  The exception is a cancelled run whose      *)
(* cancel() has not returned: see CancelledRunsAreImmutable.               *)
FinishedRunsAreImmutable ==
    [][\A r \in Runs :
          /\ at[r, "main"] \in {"idle", "reconciling", "done"}
          /\ r \notin active
          /\ \/ manifest[r].state = "completed"
             \/ manifest[r].state = "cancelled" /\ CancelAtRest(r)
          /\ sealed[r] = <<manifest[r], eventLog[r]>>
          => manifest'[r] = manifest[r] /\ eventLog'[r] = eventLog[r]]_vars

(* "Completed/partial/cancelled runs are immutable"                        *)
(* (docs/spec/25-workspace-intelligence.md:89): a cancelled run that is    *)
(* over and sealed keeps its manifest.  It does not hold: the "cancelling" *)
(* that cancel() still has to write replaces it (manager.ts:827).          *)
CancelledRunsAreImmutable ==
    [][\A r \in Runs :
          /\ at[r, "main"] \in {"idle", "reconciling", "done"}
          /\ r \notin active
          /\ manifest[r].state = "cancelled"
          /\ sealed[r] = <<manifest[r], eventLog[r]>>
          => manifest'[r] = manifest[r]]_vars

(* REQ-WI-ART-003: current.json moves only to a run that is valid then,    *)
(* whoever moves it, and whatever a dead process left in its way.          *)
CurrentAdvancesToValidRuns ==
    [][\A e \in Engagements : current'[e] # current[e] => Valid(current'[e])]_vars

-----------------------------------------------------------------------------
(* Liveness: file operations and analyses come back, and the event loop    *)
(* runs what they resolve.                                                 *)
Fairness ==
    /\ \A t \in Tasks : WF_vars(FileSystem(t))
    /\ \A r \in Runs : WF_vars(Execute(r)) /\ WF_vars(FinishCancel(r))
    /\ \A s \in Subscribers : WF_vars(Stream(s))
    /\ WF_vars(Selection)
    /\ WF_vars(\E r \in Runs : ReconcileRun(r) \/ RunReconciled(r))
    /\ WF_vars(Serve)

FairSpec == Spec /\ Fairness

(* cancel() was rejected, because a write of its threw: its temporary file *)
(* had been renamed by the other task of the run (manager.ts:691).         *)
CancelRejected(r) == at[r, "cancel"] = "done" /\ io[r, "cancel"] = "thrown"

(* Every active run ends and lets its workspace go, and with a limited     *)
(* number of slots every queued one gets its turn.  The exception is a     *)
(* cancelled run whose cancel() was rejected: nobody goes on with it then, *)
(* and it keeps its workspace until the host dies.                         *)
RunsEnd == \A r \in Runs : r \in active ~> r \notin active \/ CancelRejected(r)

(* Every stream ends, unless the host dies.  It does not hold: a stream    *)
(* that saw its run live and reads current.json while the run ends waits   *)
(* for a wake-up that has passed (manager.ts:725).                         *)
StreamsEnd ==
    \A s \in Subscribers :
        subscriber[s].stage # "idle" ~> subscriber[s].stage \in {"ended", "lost"}

=============================================================================
