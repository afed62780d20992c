------------------------- MODULE PluginLifecycleProofs -------------------------
(***************************************************************************)
(* What the plugin manager promises holds for any number of plugins,       *)
(* calls, failures and crashes.  The lock file follows the records however *)
(* calls overlap; what is said of a plugin is true, and it has its files   *)
(* while it is locked, until two calls change that plugin at once, and     *)
(* whatever calls do to other plugins.                                     *)
(***************************************************************************)
EXTENDS PluginLifecycle, TLAPS

-----------------------------------------------------------------------------
(* The queue of the lock store.                                            *)

(* A call waits for one write.                                             *)
WritersWait ==
    /\ \A i \in 1 .. Len(writes) : call[writes[i].by].at \in {"write", "erasing"}
    /\ \A i, j \in 1 .. Len(writes) : i # j => writes[i].by # writes[j].by

(* The last write that waits is of the records as they are now; a server   *)
(* that is down has neither writes nor calls.                              *)
QueueInv ==
    /\ PluginTypeOK
    /\ WritersWait
    /\ writes # <<>> => writes[Len(writes)].lock = records
    /\ server = "down" => writes = <<>> /\ \A c \in Calls : call[c] = Idle

(* What a move of a call changes, in the words of its fields.              *)
MovesTo(c, place, left) ==
    /\ call' \in [Calls -> CallStates]
    /\ call'[c].at = place
    /\ call'[c].kind = call[c].kind
    /\ call'[c].plugin = call[c].plugin
    /\ call'[c].left = left
    /\ \A d \in Calls : d # c => call'[d] = call[d]

LEMMA GotoMoves ==
    ASSUME PluginTypeOK, NEW c \in Calls, call[c].at # "idle",
           NEW place \in Places \ {"idle"}, Goto(c, place)
    PROVE  MovesTo(c, place, call[c].left)
<1>1. call[c] \in CallStates \ {Idle}
  BY DEF PluginTypeOK, CallStates, Idle
<1>2. [call[c] EXCEPT !.at = place] \in CallStates
  BY <1>1 DEF CallStates
<1>3. call' = [call EXCEPT ![c] = [call[c] EXCEPT !.at = place]]
  BY DEF Goto
<1>4. call'[c] = [call[c] EXCEPT !.at = place]
  BY <1>3 DEF PluginTypeOK
<1>5. /\ call' \in [Calls -> CallStates]
      /\ \A d \in Calls : d # c => call'[d] = call[d]
  BY <1>2, <1>3 DEF PluginTypeOK
<1> QED
  BY <1>1, <1>4, <1>5 DEF MovesTo, CallStates

LEMMA RemoveMoves ==
    ASSUME PluginTypeOK, NEW c \in Calls, NEW part, Remove(c, part)
    PROVE  \E place \in {call[c].at, "close", "rejected"} :
               /\ MovesTo(c, place, call[c].left \ {part})
               /\ place = call[c].at \/ At(c, "remove")
<1>1. call[c] \in CallStates \ {Idle}
  BY DEF PluginTypeOK, CallStates, Idle, Remove
<1>2. PICK place \in {call[c].at, "close", "rejected"} :
          /\ call' = [call EXCEPT ![c] = [call[c] EXCEPT !.left = call[c].left \ {part},
                                                         !.at = place]]
          /\ place = call[c].at \/ At(c, "remove")
  BY DEF Remove
<1>3. [call[c] EXCEPT !.left = call[c].left \ {part}, !.at = place] \in CallStates
  BY <1>1 DEF CallStates, Places, Idle
<1>4. call'[c] = [call[c] EXCEPT !.left = call[c].left \ {part}, !.at = place]
  BY <1>2 DEF PluginTypeOK
<1>5. /\ call' \in [Calls -> CallStates]
      /\ \A d \in Calls : d # c => call'[d] = call[d]
  BY <1>2, <1>3 DEF PluginTypeOK
<1> QED
  BY <1>1, <1>2, <1>4, <1>5 DEF MovesTo, CallStates

LEMMA WrittenMoves ==
    ASSUME PluginTypeOK, NEW c \in Calls, call[c].at # "idle", Written(c)
    PROVE  IF At(c, "erasing") THEN MovesTo(c, "remove", {"artifact", "directory"})
                               ELSE MovesTo(c, "audit", {})
<1>1. call[c] \in CallStates \ {Idle}
  BY DEF PluginTypeOK, CallStates, Idle
<1> DEFINE place == IF At(c, "erasing") THEN "remove" ELSE "audit"
           left  == IF At(c, "erasing") THEN {"artifact", "directory"} ELSE {}
<1>2. call' = [call EXCEPT ![c] = [call[c] EXCEPT !.at = place, !.left = left]]
  BY DEF Written, At
<1>3. [call[c] EXCEPT !.at = place, !.left = left] \in CallStates
  BY <1>1 DEF CallStates, Places, Idle
<1>4. call'[c] = [call[c] EXCEPT !.at = place, !.left = left]
  BY <1>2 DEF PluginTypeOK
<1>5. /\ call' \in [Calls -> CallStates]
      /\ \A d \in Calls : d # c => call'[d] = call[d]
  BY <1>2, <1>3 DEF PluginTypeOK
<1> QED
  BY <1>1, <1>4, <1>5 DEF MovesTo, CallStates

LEMMA QueueEntries ==
    ASSUME PluginTypeOK
    PROVE  /\ Len(writes) \in Nat
           /\ \A i \in 1 .. Len(writes) :
                  /\ writes[i] \in LockWrites
                  /\ writes[i].by \in Calls
                  /\ writes[i].lock \in Locks
<1>1. \A i \in 1 .. Len(writes) : writes[i] \in LockWrites
  BY DEF PluginTypeOK
<1> QED
  BY <1>1 DEF PluginTypeOK, LockWrites

(* The queue after a persist.                                              *)
LEMMA PersistQueues ==
    ASSUME PluginTypeOK, NEW c \in Calls, NEW next \in Locks, Persist(c, next)
    PROVE  /\ records' = next
           /\ writes' \in Seq(LockWrites)
           /\ Len(writes') = Len(writes) + 1
           /\ \A i \in 1 .. Len(writes) : writes'[i] = writes[i]
           /\ writes'[Len(writes')] = [lock |-> next, by |-> c]
           /\ writes' # <<>>
<1>1. [lock |-> next, by |-> c] \in LockWrites
  BY DEF LockWrites
<1> QED
  BY <1>1 DEF PluginTypeOK, Persist

(* The queue after a write.                                                *)
LEMMA WriteDequeues ==
    ASSUME PluginTypeOK, WriteLock
    PROVE  /\ Head(writes) \in LockWrites
           /\ Head(writes) = writes[1]
           /\ writes' \in Seq(LockWrites)
           /\ Len(writes) = Len(writes') + 1
           /\ \A i \in 1 .. Len(writes') : writes'[i] = writes[i + 1]
  BY DEF PluginTypeOK, WriteLock

(* A move that leaves records and writes alone, or persists, keeps it.     *)
LEMMA QuietMove ==
    ASSUME QueueInv, NEW c \in Calls, NEW place, NEW left, MovesTo(c, place, left), server # "down",
           place = call[c].at \/ call[c].at \notin {"write", "erasing"},
           UNCHANGED <<records, writes, lockFile, server, unread, crashes, disturbed>>,
           loaded' \in [Plugins -> {"no", "hooks", "hollow"}],
           staged' \subseteq Plugins, activated' \subseteq Plugins,
           failures' \in 0 .. MaxFailures
    PROVE  QueueInv'
<1>1. WritersWait'
  BY QueueEntries DEF QueueInv, MovesTo, WritersWait
<1> QED
  BY <1>1 DEF QueueInv, PluginTypeOK, MovesTo

LEMMA PersistingMove ==
    ASSUME QueueInv, NEW c \in Calls, NEW place, NEW left, MovesTo(c, place, left), server # "down",
           call[c].at \notin {"write", "erasing"}, place \in {"write", "erasing"},
           NEW next \in Locks, Persist(c, next),
           UNCHANGED <<lockFile, disk, server, unread, crashes, disturbed>>,
           loaded' \in [Plugins -> {"no", "hooks", "hollow"}],
           failures' \in 0 .. MaxFailures
    PROVE  QueueInv'
<1>1. PluginTypeOK
  BY DEF QueueInv
<1>2. /\ records' = next
      /\ writes' \in Seq(LockWrites)
      /\ Len(writes') = Len(writes) + 1
      /\ \A i \in 1 .. Len(writes) : writes'[i] = writes[i]
      /\ writes'[Len(writes')] = [lock |-> next, by |-> c]
  BY <1>1, PersistQueues
<1>3. WritersWait'
  <2>1. Len(writes) \in Nat /\ \A i \in 1 .. Len(writes) : writes[i].by \in Calls \ {c}
    BY QueueEntries DEF QueueInv, WritersWait
  <2>2. \A i \in 1 .. Len(writes') : i \in 1 .. Len(writes) \/ i = Len(writes')
    BY <1>2, <2>1
  <2>3. \A i \in 1 .. Len(writes) : writes'[i].by = writes[i].by
    BY <1>2
  <2>4. writes'[Len(writes')].by = c
    BY <1>2
  <2>5. \A i \in 1 .. Len(writes') : call'[writes'[i].by].at \in {"write", "erasing"}
    BY <2>1, <2>2, <2>3, <2>4 DEF QueueInv, WritersWait, MovesTo
  <2>6. ASSUME NEW i \in 1 .. Len(writes'), NEW j \in 1 .. Len(writes'), i # j
        PROVE  writes'[i].by # writes'[j].by
    <3>1. CASE i \in 1 .. Len(writes) /\ j \in 1 .. Len(writes)
      BY <2>3, <2>6, <3>1 DEF QueueInv, WritersWait
    <3>2. CASE i = Len(writes') \/ j = Len(writes')
      BY <2>1, <2>2, <2>3, <2>4, <2>6, <3>2
    <3> QED
      BY <2>2, <3>1, <3>2
  <2> QED
    BY <2>5, <2>6 DEF WritersWait
<1> QED
  BY <1>1, <1>2, <1>3 DEF QueueInv, PluginTypeOK, MovesTo, disk

(* Calls that wait for no write may change as they like.                   *)
LEMMA WritersKeepWaiting ==
    ASSUME QueueInv, UNCHANGED writes,
           \A d \in Calls : call[d].at \in {"write", "erasing"} => call'[d] = call[d]
    PROVE  WritersWait'
  BY QueueEntries DEF QueueInv, WritersWait

(* A call in progress means that the server lives, and is about a plugin.  *)
LEMMA CallsAreAlive ==
    ASSUME QueueInv, NEW c \in Calls, call[c].at # "idle"
    PROVE  /\ server # "down"
           /\ call[c].plugin \in Plugins
           /\ call[c].left \subseteq {"artifact", "directory"}
           /\ call[c].kind \in Kinds
  BY DEF QueueInv, PluginTypeOK, CallStates, Idle

(* The steps of a call.                                                    *)
LEMMA CallQueueStep ==
    ASSUME PluginsAssumption, QueueInv, NEW c \in Calls, HostStep(c) \/ PluginStep(c)
    PROVE  QueueInv'
<1>1. PluginTypeOK
  BY DEF QueueInv
<1>2. call[c].at # "idle"
  BY <1>1 DEF HostStep, PluginStep, At, GetRecord, Review, Stage, StageArtifact, CheckAbsent,
     Unpack, Place, Build, Record, LookLoaded, Entered, Release, Unload, Audit, Close, Remove, Lookup,
     Import, Enter, Dispose, Run, PluginTypeOK, CallStates, Idle
<1>3. /\ server # "down"
      /\ call[c].plugin \in Plugins
  BY <1>2, CallsAreAlive
<1>4. \A place \in Places \ {"idle"} :
          Goto(c, place) => MovesTo(c, place, call[c].left)
  BY <1>1, <1>2, GotoMoves
<1>5. /\ \A r \in {"none", "disabled", "enabled"} :
             [records EXCEPT ![call[c].plugin] = r] \in Locks
      /\ \A e \in {"no", "hooks", "hollow"} :
             [loaded EXCEPT ![call[c].plugin] = e] \in [Plugins -> {"no", "hooks", "hollow"}]
      /\ [loaded EXCEPT ![call[c].plugin] = IF @ = "no" THEN "hollow" ELSE @] \in
             [Plugins -> {"no", "hooks", "hollow"}]
      /\ loaded \in [Plugins -> {"no", "hooks", "hollow"}]
      /\ staged \subseteq Plugins /\ activated \subseteq Plugins
      /\ failures \in 0 .. MaxFailures
      /\ \A operation : Fails(operation) => failures' \in 0 .. MaxFailures
  BY <1>1, <1>3 DEF PluginTypeOK, Locks, Fails, PluginsAssumption
<1>6. ASSUME NEW place \in Places \ {"idle"}, Goto(c, place),
             UNCHANGED <<records, writes, lockFile, process>>,
             loaded' \in [Plugins -> {"no", "hooks", "hollow"}],
             staged' \subseteq Plugins, activated' \subseteq Plugins,
             failures' \in 0 .. MaxFailures,
             call[c].at \notin {"write", "erasing"}
      PROVE  QueueInv'
  BY <1>3, <1>4, <1>6, QuietMove DEF process
<1>7. ASSUME NEW place \in {"write", "erasing"}, Goto(c, place),
             call[c].at \notin {"write", "erasing"},
             NEW r \in {"none", "disabled", "enabled"},
             Persist(c, [records EXCEPT ![call[c].plugin] = r]),
             UNCHANGED <<lockFile, disk, process>>,
             loaded' \in [Plugins -> {"no", "hooks", "hollow"}],
             failures' \in 0 .. MaxFailures
      PROVE  QueueInv'
  BY <1>3, <1>4, <1>5, <1>7, PersistingMove DEF process, Places
<1>8. CASE GetRecord(c)
  BY <1>5, <1>6, <1>7, <1>8
     DEF GetRecord, Places, Reject, memory, disk, SwitchOn, SwitchOff, Erase, At
<1>9. CASE Review(c) \/ Stage(c)
  <2>1. /\ staged' \subseteq Plugins
        /\ Goto(c, "done") \/ Goto(c, "check") \/ Goto(c, "rejected")
    BY <1>3, <1>5, <1>9 DEF Review, Stage, StageArtifact, Reject
  <2> QED
    BY <1>5, <1>6, <1>9, <2>1 DEF Review, Stage, Places, memory, At
<1>10. CASE CheckAbsent(c)
  BY <1>5, <1>6, <1>7, <1>10
     DEF CheckAbsent, Places, Reject, memory, disk, SwitchOn, SwitchOff, Erase, At
<1>11. CASE Unpack(c)
  BY <1>5, <1>6, <1>7, <1>11
     DEF Unpack, Places, Reject, memory, disk, SwitchOn, SwitchOff, Erase, At
<1>12. CASE Place(c)
  BY <1>5, <1>6, <1>7, <1>12
     DEF Place, Places, Reject, memory, disk, SwitchOn, SwitchOff, Erase, At
<1>13. CASE Build(c)
  BY <1>5, <1>6, <1>7, <1>13
     DEF Build, Places, Reject, memory, disk, SwitchOn, SwitchOff, Erase, At
<1>14. CASE Record(c)
  BY <1>5, <1>6, <1>7, <1>14
     DEF Record, Places, Reject, memory, disk, SwitchOn, SwitchOff, Erase, At
<1>15. CASE LookLoaded(c)
  <2>1. CASE loaded[call[c].plugin] = "no"
    BY <1>5, <1>6, <1>15, <2>1 DEF LookLoaded, Places, memory, disk, At
  <2>2. CASE loaded[call[c].plugin] # "no"
    <3>1. loaded' \in [Plugins -> {"no", "hooks", "hollow"}]
      BY <1>5, <1>15, <2>2 DEF LookLoaded, SwitchOn
    <3> QED
      BY <1>5, <1>7, <1>15, <2>2, <3>1 DEF LookLoaded, SwitchOn, At
  <2> QED
    BY <2>1, <2>2
<1>16. CASE Entered(c)
  BY <1>5, <1>6, <1>7, <1>16
     DEF Entered, Places, Reject, memory, disk, SwitchOn, SwitchOff, Erase, At
<1>17. CASE Release(c)
  BY <1>5, <1>6, <1>7, <1>17
     DEF Release, Places, Reject, memory, disk, SwitchOn, SwitchOff, Erase, At
<1>18. CASE Unload(c)
  BY <1>5, <1>6, <1>7, <1>18
     DEF Unload, Places, Reject, memory, disk, SwitchOn, SwitchOff, Erase, At
<1>19. CASE Audit(c)
  BY <1>5, <1>6, <1>7, <1>19
     DEF Audit, Places, Reject, memory, disk, SwitchOn, SwitchOff, Erase, At
<1>20. CASE Close(c)
  BY <1>5, <1>6, <1>7, <1>20
     DEF Close, Places, Reject, memory, disk, SwitchOn, SwitchOff, Erase, At
<1>21. ASSUME NEW part \in {"artifact", "directory"}, Remove(c, part)
      PROVE  QueueInv'
  <2>1. PICK place \in {call[c].at, "close", "rejected"} :
            /\ MovesTo(c, place, call[c].left \ {part})
            /\ place = call[c].at \/ At(c, "remove")
    BY <1>1, <1>21, RemoveMoves
  <2> QED
    BY <1>3, <1>5, <1>21, <2>1, QuietMove DEF Remove, memory, process, disk, At
<1>22. CASE Lookup(c)
  BY <1>5, <1>6, <1>7, <1>22
     DEF Lookup, Places, Reject, memory, disk, SwitchOn, SwitchOff, Erase, At
<1>23. CASE Import(c)
  BY <1>5, <1>6, <1>7, <1>23
     DEF Import, Places, Reject, memory, disk, SwitchOn, SwitchOff, Erase, At
<1>24. CASE Enter(c)
  BY <1>5, <1>6, <1>7, <1>24
     DEF Enter, Places, Reject, memory, disk, SwitchOn, SwitchOff, Erase, At
<1>25. CASE Dispose(c)
  BY <1>5, <1>6, <1>7, <1>25
     DEF Dispose, Places, Reject, memory, disk, SwitchOn, SwitchOff, Erase, At
<1>26. CASE Run(c)
  BY <1>5, <1>6, <1>7, <1>26
     DEF Run, Places, Reject, memory, disk, SwitchOn, SwitchOff, Erase, At
<1> QED
  BY <1>8, <1>9, <1>10, <1>11, <1>12, <1>13, <1>14, <1>15, <1>16, <1>17, <1>18,
     <1>19, <1>20, <1>21, <1>22, <1>23, <1>24, <1>25, <1>26 DEF HostStep, PluginStep

LEMMA QueueStep ==
    ASSUME PluginsAssumption, QueueInv, [Next]_pluginVars
    PROVE  QueueInv'
<1>1. PluginTypeOK
  BY DEF QueueInv
<1>2. CASE UNCHANGED pluginVars
  BY <1>2, WritersKeepWaiting
     DEF QueueInv, PluginTypeOK, pluginVars, memory, disk, process
<1>3. CASE Start
  BY <1>1, <1>3, WritersKeepWaiting
     DEF QueueInv, PluginTypeOK, Start, disk, Fails, PluginsAssumption
<1>4. CASE Crash
  <2>1. writes' \in Seq(LockWrites) /\ call' \in [Calls -> CallStates]
    BY <1>4 DEF Crash, CallStates
  <2>2. Len(writes') = 0 /\ Locks # {} /\ [p \in Plugins |-> "none"] \in Locks
    BY <1>4 DEF Crash, Locks
  <2>3. WritersWait'
    BY <2>2 DEF WritersWait
  <2> QED
    BY <1>1, <1>4, <2>1, <2>2, <2>3
       DEF QueueInv, PluginTypeOK, Crash, disk, PluginsAssumption
<1>5. CASE WriteLock
  <2>1. /\ Head(writes) = writes[1]
        /\ writes' \in Seq(LockWrites)
        /\ Len(writes) = Len(writes') + 1
        /\ \A i \in 1 .. Len(writes') : writes'[i] = writes[i + 1]
    BY <1>1, <1>5, WriteDequeues
  <2> DEFINE c == writes[1].by
  <2>2. /\ c \in Calls
        /\ writes[1].lock \in Locks
        /\ server # "down"
        /\ call[c].at \in {"write", "erasing"}
    <3>1. 1 \in 1 .. Len(writes)
      BY <1>1, <2>1, QueueEntries
    <3> QED
      BY <1>1, <1>5, <3>1, QueueEntries DEF QueueInv, WriteLock, WritersWait
  <2>3. \E place, left : MovesTo(c, place, left)
    BY <1>1, <1>5, <2>1, <2>2, WrittenMoves, GotoMoves DEF WriteLock, Reject, Places
  <2>4. writes' # <<>> => writes'[Len(writes')].lock = records'
    BY <1>1, <1>5, <2>1, QueueEntries DEF QueueInv, WriteLock, memory
  <2>5. \A i \in 1 .. Len(writes') : writes'[i].by \in Calls \ {c}
    <3>1. \A i \in 1 .. Len(writes') : i + 1 \in 1 .. Len(writes) /\ 1 \in 1 .. Len(writes)
      BY <1>1, <2>1, QueueEntries
    <3> QED
      BY <1>1, <2>1, <3>1, QueueEntries DEF QueueInv, WritersWait
  <2>6. WritersWait'
    <3>1. \A i \in 1 .. Len(writes') :
              i + 1 \in 1 .. Len(writes) /\ writes'[i].by = writes[i + 1].by
      BY <1>1, <2>1, QueueEntries
    <3>2. \A i, j \in 1 .. Len(writes') : i # j => i + 1 # j + 1
      OBVIOUS
    <3> QED
      BY <2>3, <2>5, <3>1, <3>2 DEF QueueInv, WritersWait, MovesTo
  <2> QED
    BY <1>1, <1>5, <2>1, <2>2, <2>3, <2>4, <2>6
       DEF QueueInv, PluginTypeOK, WriteLock, memory, disk, process, Fails,
           PluginsAssumption, MovesTo
<1>6. ASSUME NEW p \in Plugins, LoadAtStart(p)
      PROVE  QueueInv'
  BY <1>1, <1>6, WritersKeepWaiting
     DEF QueueInv, PluginTypeOK, LoadAtStart, disk, Fails, PluginsAssumption
<1>7. ASSUME NEW c \in Calls, HostStep(c) \/ PluginStep(c)
      PROVE  QueueInv'
  BY <1>7, CallQueueStep
<1>8. ASSUME NEW c \in Calls, Answer(c)
      PROVE  QueueInv'
  <2>1. call' \in [Calls -> CallStates]
    BY <1>1, <1>8 DEF Answer, PluginTypeOK, CallStates
  <2> QED
    BY <1>1, <1>8, <2>1, WritersKeepWaiting
       DEF QueueInv, PluginTypeOK, Answer, memory, disk, process, Idle
<1>9. ASSUME NEW c \in Calls, NEW kind \in Kinds, NEW p \in Plugins, Begin(c, kind, p)
      PROVE  QueueInv'
  <2>1. call' \in [Calls -> CallStates]
    BY <1>1, <1>9 DEF Begin, PluginTypeOK, CallStates, Places
  <2> QED
    BY <1>1, <1>9, <2>1, WritersKeepWaiting
       DEF QueueInv, PluginTypeOK, Begin, At, memory, disk, process
<1> QED
  BY <1>2, <1>3, <1>4, <1>5, <1>6, <1>7, <1>8, <1>9 DEF Next

(* What waits is of the states the schema allows, and ends with the        *)
(* records, for any plugins, calls, failures and crashes.                  *)
LEMMA QueueInvHolds == ASSUME PluginsAssumption PROVE PluginSpec => []QueueInv
<1>1. Init => QueueInv
  <2>1. ASSUME Init
        PROVE  QueueInv
    <3>1. /\ [p \in Plugins |-> "none"] \in Locks
          /\ writes \in Seq(LockWrites) /\ Len(writes) = 0
          /\ call \in [Calls -> CallStates]
      BY <2>1 DEF Init, Locks, CallStates
    <3> QED
      BY <2>1, <3>1 DEF Init, QueueInv, PluginTypeOK, WritersWait, PluginsAssumption
  <2> QED
    BY <2>1
<1>2. QueueInv /\ [Next]_pluginVars => QueueInv'
  BY QueueStep
<1> QED
  BY <1>1, <1>2, PTL DEF PluginSpec

(* Every variable has values of its type: answers are answers to requests  *)
(* about plugins, and what waits in the queue is a lock file and its call. *)
THEOREM PluginTypesHold == ASSUME PluginsAssumption PROVE PluginSpec => []PluginTypeOK
<1>1. QueueInv => PluginTypeOK
  BY DEF QueueInv
<1> QED
  BY QueueInvHolds, <1>1, PTL

(* A persist leaves a write behind.                                        *)
LEMMA OnlyWritesEmptyTheQueue ==
    ASSUME QueueInv, [Next]_pluginVars, writes # <<>>, writes' = <<>>, server' # "down"
    PROVE  WriteLock
<1>1. PluginTypeOK
  BY DEF QueueInv
<1>2. \A c \in Calls, r \in {"none", "disabled", "enabled"} :
          ~ (call[c].at # "idle" /\ Persist(c, [records EXCEPT ![call[c].plugin] = r]))
  <2>1. ASSUME NEW c \in Calls, NEW r \in {"none", "disabled", "enabled"}, call[c].at # "idle",
               Persist(c, [records EXCEPT ![call[c].plugin] = r])
        PROVE  FALSE
    <3>1. [records EXCEPT ![call[c].plugin] = r] \in Locks
      BY <1>1, <2>1, CallsAreAlive DEF PluginTypeOK, Locks
    <3> QED
      BY <1>1, <2>1, <3>1, PersistQueues
  <2> QED
    BY <2>1
<1>3. ~ UNCHANGED writes
  OBVIOUS
<1>4. ASSUME NEW c \in Calls, HostStep(c) \/ PluginStep(c)
      PROVE  FALSE
  BY <1>2, <1>3, <1>4
     DEF HostStep, PluginStep, GetRecord, Review, Stage, CheckAbsent, Unpack, Place, Build, Record,
         LookLoaded, Entered, Release, Unload, Audit, Close, Remove, Lookup, Import, Enter,
         Dispose, Run, SwitchOn, SwitchOff, Erase, At, memory
<1> QED
  BY <1>3, <1>4
     DEF Next, pluginVars, memory, Start, LoadAtStart, Answer, Begin, Crash

(* However calls overlap and whatever fails, the file that the lock store  *)
(* has when its queue runs dry with a successful write is of the records   *)
(* at that moment: no change is lost to a write of an older one.           *)
THEOREM LockFileFollowsRecords ==
    ASSUME PluginsAssumption PROVE PluginSpec => LockFollowsRecords
<1> DEFINE Follows ==
        writes # <<>> /\ writes' = <<>> /\ server' # "down"
          /\ call'[Head(writes).by].at # "rejected" => lockFile' = records'
<1>1. QueueInv /\ [Next]_pluginVars => [Follows]_pluginVars
  <2>1. ASSUME QueueInv, [Next]_pluginVars, writes # <<>>, writes' = <<>>, server' # "down",
               call'[Head(writes).by].at # "rejected"
        PROVE  lockFile' = records'
    <3>1. WriteLock /\ PluginTypeOK
      BY <2>1, OnlyWritesEmptyTheQueue DEF QueueInv
    <3>2. Len(writes) = 1 /\ Head(writes) = writes[1] /\ Head(writes) \in LockWrites
      BY <2>1, <3>1, WriteDequeues
    <3>3. Head(writes).lock = records /\ Head(writes).by \in Calls
      BY <2>1, <3>2 DEF QueueInv, LockWrites
    <3>4. ~ Reject(Head(writes).by)
      <4>1. ASSUME Reject(Head(writes).by)
            PROVE  call'[Head(writes).by].at = "rejected"
        <5>1. call[Head(writes).by].at # "idle"
          BY <2>1, <3>2 DEF QueueInv, WritersWait
        <5> QED
          BY <3>1, <3>3, <4>1, <5>1, GotoMoves DEF Reject, MovesTo, Places
      <4> QED
        BY <2>1, <4>1
    <3> QED
      BY <3>1, <3>3, <3>4 DEF WriteLock, memory
  <2> QED
    BY <2>1
<1>2. PluginSpec => [][Follows]_pluginVars
  BY QueueInvHolds, <1>1, PTL DEF PluginSpec
<1> QED
  BY <1>2 DEF LockFollowsRecords

-----------------------------------------------------------------------------
(* Plugins that no two calls have changed at once.                         *)

Own(c)      == call[c].plugin
Calm(c)  == Own(c) \notin disturbed
Alone(c) == Changing(c) /\ Calm(c)

OneChangeAtATime ==
    \A c, d \in Calls : Alone(c) /\ Changing(d) /\ c # d => Own(c) # Own(d)

(* Where a call of each kind may be.                                       *)
PlacesOf(kind) ==
    CASE kind = "none"      -> {"idle"}
      [] kind = "review"    -> {"stage", "done", "rejected"}
      [] kind = "install"   -> {"stage", "check", "unpack", "place", "build", "record",
                                "write", "audit", "done", "rejected"}
      [] kind = "enable"    -> {"ready", "look", "import", "enter", "entered",
                                "write", "audit", "done", "rejected"}
      [] kind = "disable"   -> {"ready", "release", "dispose",
                                "write", "audit", "done", "rejected"}
      [] kind = "uninstall" -> {"ready", "unload", "release", "dispose", "write", "audit",
                                "erasing", "remove", "close", "done", "rejected"}
      [] kind = "invoke"    -> {"ready", "lookup", "run", "done", "rejected"}

PlacesFitKinds == \A c \in Calls : call[c].at \in PlacesOf(call[c].kind)

(* Only an uninstall removes, and only a failed one is not waited for.     *)
RemovalsAreWaitedFor ==
    \A c \in Calls :
        call[c].left # {} =>
            Is(c, "uninstall") /\ call[c].at \in {"remove", "rejected"}

(* A call goes on only after the start has succeeded, except of a review,  *)
(* which does not wait for the start.                                      *)
Early == {"idle", "ready", "stage", "check", "rejected"}

GoesOn(c) == (call[c].at \notin Early /\ ~Is(c, "review")) \/ call[c].left # {}

CallsFollowTheStart ==
    /\ \A c \in Calls : GoesOn(c) => server = "up"
    /\ \A p \in unread : server = "starting" /\ records[p] = "enabled"

(* What may be in the lock file now or later has its directory.            *)
RecordsHaveFiles ==
    \A p \in Plugins \ disturbed : p \notin activated =>
        /\ records[p] = "none" /\ lockFile[p] = "none"
        /\ \A i \in 1 .. Len(writes) : writes[i].lock[p] = "none"

LoadedIsRecorded ==
    \A p \in Plugins :
        /\ p \notin disturbed =>
              loaded[p] # "hollow" /\ (loaded[p] = "hooks" => records[p] # "none")
        /\ server = "down" => loaded[p] = "no"

(* What the disk holds of a call's plugin while the call is written and    *)
(* once it is.                                                             *)
OwnWriteIsLast(c) ==
    \A i, j \in 1 .. Len(writes) :
        writes[i].by = c /\ i <= j => writes[j].lock[Own(c)] = records[Own(c)]

OwnRecordIsWritten(c) ==
    /\ lockFile[Own(c)] = records[Own(c)]
    /\ \A i \in 1 .. Len(writes) : writes[i].lock[Own(c)] = records[Own(c)]

(* What the memory holds of it, from the change on.                        *)
Erased(c) ==
    \/ call[c].at \in {"erasing", "remove", "close"}
    \/ Is(c, "uninstall") /\ At(c, "done")
    \/ call[c].left # {}

OutcomeIs(c, record, entry) == records[Own(c)] = record /\ loaded[Own(c)] = entry

CallIsTrue(c) ==
    /\ call[c].at \in {"unpack", "place", "build", "record"} => records[Own(c)] = "none"
    /\ At(c, "record") => Own(c) \in activated
    /\ call[c].at \in {"look", "import", "enter", "entered", "release", "dispose"} =>
           records[Own(c)] # "none"
    /\ call[c].at \in {"write", "erasing"} => OwnWriteIsLast(c)
    /\ \/ call[c].at \in {"audit", "remove", "close"}
       \/ At(c, "done") /\ ~Is(c, "review")
       \/ call[c].left # {}
       => OwnRecordIsWritten(c)
    /\ call[c].at \in {"write", "audit", "done"} =>
           /\ Is(c, "enable") => OutcomeIs(c, "enabled", "hooks")
           /\ Is(c, "install") \/ Is(c, "disable") => OutcomeIs(c, "disabled", "no")
           /\ Is(c, "uninstall") /\ ~At(c, "done") => OutcomeIs(c, "disabled", "no")
    /\ At(c, "entered") => loaded[Own(c)] = "hooks"
    /\ At(c, "dispose") => loaded[Own(c)] = "no"
    /\ Erased(c) => OutcomeIs(c, "none", "no")
    /\ Erased(c) /\ call[c].at \notin {"erasing", "rejected"} =>
           /\ "artifact" \notin call[c].left => Own(c) \notin staged
           /\ "directory" \notin call[c].left => Own(c) \notin activated

CallsAreTrue == \A c \in Calls : Alone(c) => CallIsTrue(c)

SerialInv ==
    /\ QueueInv
    /\ OneChangeAtATime
    /\ PlacesFitKinds
    /\ RemovalsAreWaitedFor
    /\ CallsFollowTheStart
    /\ RecordsHaveFiles
    /\ LoadedIsRecorded
    /\ CallsAreTrue

(* A step of a call changes what is known of its own plugin only, and      *)
(* appends at most a write of the records as it leaves them.               *)
PrivateStep(c) ==
    /\ \A q \in Plugins : q # Own(c) =>
          /\ records'[q] = records[q] /\ loaded'[q] = loaded[q]
          /\ q \in staged' <=> q \in staged
          /\ q \in activated' <=> q \in activated
    /\ UNCHANGED <<lockFile, server, unread, disturbed>>
    /\ \/ UNCHANGED writes
       \/ /\ Len(writes') = Len(writes) + 1
          /\ \A i \in 1 .. Len(writes) : writes'[i] = writes[i]
          /\ writes'[Len(writes')] = [lock |-> records', by |-> c]

(* What a step changes nothing of stays true.                              *)
LEMMA UntouchedCallIsTrue ==
    ASSUME SerialInv, QueueInv', NEW c \in Calls, NEW d \in Calls, c # d,
           call'[d] = call[d], Alone(d), PrivateStep(c), Own(d) # Own(c)
    PROVE  CallIsTrue(d)'
<1> DEFINE p == Own(d)
<1>1. /\ CallIsTrue(d)
      /\ p \in Plugins
      /\ Len(writes) \in Nat /\ Len(writes') \in Nat
  <2>1. call[d].at # "idle"
    BY DEF SerialInv, PlacesFitKinds, PlacesOf, Alone, Changing, QueueInv, PluginTypeOK,
           CallStates, Idle, Kinds
  <2> QED
    BY <2>1, CallsAreAlive, QueueEntries DEF SerialInv, CallsAreTrue, QueueInv, Own, PluginTypeOK
<1>2. /\ records'[p] = records[p] /\ loaded'[p] = loaded[p]
      /\ p \in staged' <=> p \in staged
      /\ p \in activated' <=> p \in activated
      /\ Own(d)' = p
      /\ lockFile' = lockFile
  BY <1>1 DEF PrivateStep, Own
<1>3. OwnWriteIsLast(d) => OwnWriteIsLast(d)'
  BY <1>1, <1>2 DEF PrivateStep, OwnWriteIsLast
<1>4. OwnRecordIsWritten(d) => OwnRecordIsWritten(d)'
  BY <1>1, <1>2 DEF PrivateStep, OwnRecordIsWritten
<1> QED
  BY <1>1, <1>2, <1>3, <1>4 DEF CallIsTrue, OutcomeIs, Erased, At, Is

(* Where a call may go.                                                    *)
FitsCall(c, place, left) ==
    /\ place \in PlacesOf(call[c].kind)
    /\ left # {} => Is(c, "uninstall") /\ place \in {"remove", "rejected"}
    /\ \/ left = {} /\ (place \in Early \/ Is(c, "review"))
       \/ server = "up"

(* What a step has to leave of its own plugin.                             *)
LeavesFiles(p) ==
    /\ p \notin activated' =>
          /\ records'[p] = "none" /\ lockFile[p] = "none"
          /\ \A i \in 1 .. Len(writes) : writes[i].lock[p] = "none"
    /\ loaded'[p] # "hollow" /\ (loaded'[p] = "hooks" => records'[p] # "none")

LEMMA MoveKeepsPlaces ==
    ASSUME SerialInv, QueueInv', NEW c \in Calls, NEW place, NEW left,
           MovesTo(c, place, left), FitsCall(c, place, left),
           UNCHANGED <<server, disturbed>>
    PROVE  /\ OneChangeAtATime' /\ PlacesFitKinds' /\ RemovalsAreWaitedFor'
           /\ \A d \in Calls : GoesOn(d)' => server' = "up"
  BY DEF SerialInv, OneChangeAtATime, PlacesFitKinds, RemovalsAreWaitedFor,
         CallsFollowTheStart, GoesOn, MovesTo, FitsCall, Early, Alone, Calm, Changing, Own, Is, At

(* A call that changes its plugin keeps the invariant if what it leaves of *)
(* the plugin, and its own place, fit together, or if the plugin is        *)
(* disturbed anyway.                                                       *)
LEMMA ChangeIsSerial ==
    ASSUME SerialInv, QueueInv', NEW c \in Calls, NEW place, NEW left,
           MovesTo(c, place, left), FitsCall(c, place, left), Changing(c),
           PrivateStep(c), server = "up" \/ UNCHANGED records,
           Calm(c) => LeavesFiles(Own(c)) /\ CallIsTrue(c)'
    PROVE  SerialInv'
<1>1. /\ OneChangeAtATime' /\ PlacesFitKinds' /\ RemovalsAreWaitedFor'
      /\ CallsFollowTheStart'
  BY MoveKeepsPlaces DEF SerialInv, CallsFollowTheStart, PrivateStep, At
<1>2. Len(writes) \in Nat
  BY QueueEntries DEF SerialInv, QueueInv
<1>3. RecordsHaveFiles'
  <2>1. ASSUME NEW p \in Plugins \ disturbed, p \notin activated'
        PROVE  /\ records'[p] = "none" /\ lockFile'[p] = "none"
               /\ \A i \in 1 .. Len(writes) : writes[i].lock[p] = "none"
    BY <2>1 DEF SerialInv, RecordsHaveFiles, PrivateStep, LeavesFiles, Calm
  <2> QED
    BY <1>2, <2>1 DEF RecordsHaveFiles, PrivateStep
<1>4. LoadedIsRecorded'
  <2>1. server # "down"
    BY CallsAreAlive DEF Changing, SerialInv, PlacesFitKinds, PlacesOf, QueueInv, PluginTypeOK,
                     CallStates, Idle, Kinds
  <2> QED
    BY <2>1 DEF SerialInv, LoadedIsRecorded, PrivateStep, LeavesFiles, Calm
<1>5. ASSUME NEW d \in Calls, Alone(d)'
      PROVE  CallIsTrue(d)'
  <2>0. disturbed' = disturbed
    BY DEF PrivateStep
  <2>1. CASE d # c
    <3>1. call'[d] = call[d] /\ Alone(d) /\ Own(d) # Own(c)
      BY <1>5, <2>0, <2>1
         DEF MovesTo, Alone, Calm, Own, Changing, SerialInv, OneChangeAtATime
    <3> QED
      BY <2>1, <3>1, UntouchedCallIsTrue
  <2>2. CASE d = c
    BY <1>5, <2>0, <2>2 DEF MovesTo, Alone, Calm, Own
  <2> QED
    BY <2>1, <2>2
<1> QED
  BY <1>1, <1>3, <1>4, <1>5 DEF SerialInv, CallsAreTrue

(* So does a step that changes nothing but its call's place.               *)
LEMMA QuietMoveIsSerial ==
    ASSUME SerialInv, QueueInv', NEW c \in Calls, NEW place, NEW left,
           MovesTo(c, place, left), FitsCall(c, place, left),
           UNCHANGED <<records, loaded, writes, lockFile, disk, server, unread, disturbed>>,
           Alone(c) => CallIsTrue(c)'
    PROVE  SerialInv'
<1>1. /\ OneChangeAtATime' /\ PlacesFitKinds' /\ RemovalsAreWaitedFor'
      /\ CallsFollowTheStart'
  BY MoveKeepsPlaces DEF SerialInv, CallsFollowTheStart, At
<1>2. RecordsHaveFiles' /\ LoadedIsRecorded'
  BY DEF SerialInv, RecordsHaveFiles, LoadedIsRecorded, disk
<1>3. ASSUME NEW d \in Calls, Alone(d)'
      PROVE  CallIsTrue(d)'
  <2>1. CASE d # c
    <3>1. call'[d] = call[d] /\ Alone(d) /\ CallIsTrue(d)
      BY <1>3, <2>1 DEF MovesTo, Alone, Calm, Own, Changing, SerialInv, CallsAreTrue
    <3> QED
      BY <3>1
         DEF CallIsTrue, OutcomeIs, Erased, At, Is, Own, OwnWriteIsLast, OwnRecordIsWritten,
             disk
  <2>2. CASE d = c
    BY <1>3, <2>2 DEF MovesTo, Alone, Calm, Own, Changing
  <2> QED
    BY <2>1, <2>2
<1> QED
  BY <1>1, <1>2, <1>3 DEF SerialInv, CallsAreTrue

(* What is known of a call in progress.                                    *)
LEMMA CallFacts ==
    ASSUME SerialInv, NEW c \in Calls, call[c].at # "idle"
    PROVE  /\ server # "down"
           /\ Own(c) \in Plugins
           /\ call[c].kind \in Kinds
           /\ call[c].at \in PlacesOf(call[c].kind)
           /\ call[c].at \notin {"remove", "rejected"} => call[c].left = {}
           /\ GoesOn(c) => server = "up"
           /\ Changing(c) <=> call[c].kind # "invoke"
           /\ Alone(c) => Changing(c) /\ CallIsTrue(c)
           /\ \A place \in Places \ {"idle"} :
                  Goto(c, place) => MovesTo(c, place, call[c].left)
  BY CallsAreAlive, GotoMoves
     DEF SerialInv, QueueInv, PlacesFitKinds, RemovalsAreWaitedFor, CallsFollowTheStart,
         CallsAreTrue, Alone, Changing, Own, Kinds, GoesOn, Early, At

(* Steps that find out, and change nothing.                                *)
LEMMA QuietSteps ==
    ASSUME SerialInv, QueueInv', NEW c \in Calls,
           \/ GetRecord(c) \/ CheckAbsent(c) \/ Unpack(c) \/ Place(c) \/ Import(c)
           \/ Lookup(c) \/ Run(c) \/ Close(c)
    PROVE  SerialInv'
<1>1. call[c].at \notin {"idle", "remove", "rejected"}
  BY DEF GetRecord, CheckAbsent, Unpack, Place, Import, Lookup, Run, Close, At
<1>2. UNCHANGED <<records, loaded, writes, lockFile, disk, server, unread, disturbed>>
  BY DEF GetRecord, CheckAbsent, Unpack, Place, Import, Lookup, Run, Close, memory, process
<1>3. /\ Own(c) \in Plugins
      /\ call[c].kind \in Kinds
      /\ call[c].at \in PlacesOf(call[c].kind)
      /\ call[c].left = {}
      /\ call[c].at \notin Early /\ ~Is(c, "review") => server = "up"
      /\ Changing(c) <=> call[c].kind # "invoke"
      /\ Alone(c) => Changing(c) /\ CallIsTrue(c)
      /\ \A place \in Places \ {"idle"} : Goto(c, place) => MovesTo(c, place, {})
  BY <1>1, CallFacts DEF GoesOn
<1>4. ASSUME NEW place \in Places \ {"idle"}, Goto(c, place),
             place \in PlacesOf(call[c].kind),
             place \in Early \/ Is(c, "review") \/ server = "up",
             MovesTo(c, place, {}) /\ Alone(c) => CallIsTrue(c)'
      PROVE  SerialInv'
  BY <1>2, <1>3, <1>4, QuietMoveIsSerial DEF FitsCall
<1>5. CASE Reject(c)
  <2>1. MovesTo(c, "rejected", {}) => CallIsTrue(c)'
    BY DEF MovesTo, CallIsTrue, Erased, At, Is
  <2>2. "rejected" \in PlacesOf(call[c].kind)
    BY <1>3 DEF PlacesOf, Kinds
  <2> QED
    BY <1>4, <1>5, <2>1, <2>2 DEF Reject, Places, Early
<1> USE DEF At, Is
<1>6. CASE GetRecord(c)
  <2>1. CASE Is(c, "enable") /\ ~ Reject(c)
    <3>1. Goto(c, "look") /\ records[Own(c)] # "none"
      BY <1>6, <2>1 DEF GetRecord, Own
    <3>2. "look" \in PlacesOf(call[c].kind) /\ server = "up"
      BY <1>3, <1>6, <2>1, <3>1 DEF GetRecord, PlacesOf, Kinds, Early
    <3>3. MovesTo(c, "look", {}) /\ Alone(c) => CallIsTrue(c)'
      BY <1>2, <1>3, <1>6, <2>1, <3>1, <3>2
         DEF GetRecord, MovesTo, CallIsTrue, Erased, OutcomeIs, OwnRecordIsWritten, OwnWriteIsLast,
             Own, disk, PlacesOf, Kinds
    <3> QED
      BY <1>4, <3>1, <3>2, <3>3 DEF Places
  <2>2. CASE Is(c, "disable") /\ ~ Reject(c)
    <3>1. Goto(c, "release") /\ records[Own(c)] # "none"
      BY <1>6, <2>2 DEF GetRecord, Own
    <3>2. "release" \in PlacesOf(call[c].kind) /\ server = "up"
      BY <1>3, <1>6, <2>2, <3>1 DEF GetRecord, PlacesOf, Kinds, Early
    <3>3. MovesTo(c, "release", {}) /\ Alone(c) => CallIsTrue(c)'
      BY <1>2, <1>3, <1>6, <2>2, <3>1, <3>2
         DEF GetRecord, MovesTo, CallIsTrue, Erased, OutcomeIs, OwnRecordIsWritten, OwnWriteIsLast,
             Own, disk, PlacesOf, Kinds
    <3> QED
      BY <1>4, <3>1, <3>2, <3>3 DEF Places
  <2>3. CASE Is(c, "uninstall") /\ ~ Reject(c)
    <3>1. Goto(c, "unload") /\ records[Own(c)] # "none"
      BY <1>6, <2>3 DEF GetRecord, Own
    <3>2. "unload" \in PlacesOf(call[c].kind) /\ server = "up"
      BY <1>3, <1>6, <2>3, <3>1 DEF GetRecord, PlacesOf, Kinds, Early
    <3>3. MovesTo(c, "unload", {}) /\ Alone(c) => CallIsTrue(c)'
      BY <1>2, <1>3, <1>6, <2>3, <3>1, <3>2
         DEF GetRecord, MovesTo, CallIsTrue, Erased, OutcomeIs, OwnRecordIsWritten, OwnWriteIsLast,
             Own, disk, PlacesOf, Kinds
    <3> QED
      BY <1>4, <3>1, <3>2, <3>3 DEF Places
  <2>4. CASE Is(c, "invoke") /\ ~ Reject(c)
    <3>1. Goto(c, "lookup") /\ records[Own(c)] # "none"
      BY <1>6, <2>4 DEF GetRecord, Own
    <3>2. "lookup" \in PlacesOf(call[c].kind) /\ server = "up"
      BY <1>3, <1>6, <2>4, <3>1 DEF GetRecord, PlacesOf, Kinds, Early
    <3>3. MovesTo(c, "lookup", {}) /\ Alone(c) => CallIsTrue(c)'
      BY <1>2, <1>3, <1>6, <2>4, <3>1, <3>2
         DEF GetRecord, MovesTo, CallIsTrue, Erased, OutcomeIs, OwnRecordIsWritten, OwnWriteIsLast,
             Own, disk, PlacesOf, Kinds
    <3> QED
      BY <1>4, <3>1, <3>2, <3>3 DEF Places
  <2> QED
    BY <1>5, <1>6, <1>3, <2>1, <2>2, <2>3, <2>4 DEF GetRecord, PlacesOf, Kinds, Own
<1>7. CASE CheckAbsent(c)
  <2>1. CASE ~ Reject(c)
    <3>1. Goto(c, "unpack") /\ records[Own(c)] = "none"
      BY <1>7, <2>1 DEF CheckAbsent, Own
    <3>2. "unpack" \in PlacesOf(call[c].kind) /\ server = "up"
      BY <1>3, <1>7, <2>1, <3>1 DEF CheckAbsent, PlacesOf, Kinds, Early
    <3>3. MovesTo(c, "unpack", {}) /\ Alone(c) => CallIsTrue(c)'
      BY <1>2, <1>3, <1>7, <2>1, <3>1, <3>2
         DEF CheckAbsent, MovesTo, CallIsTrue, Erased, OutcomeIs, OwnRecordIsWritten,
             OwnWriteIsLast,
             Own, disk, PlacesOf, Kinds
    <3> QED
      BY <1>4, <3>1, <3>2, <3>3 DEF Places
  <2> QED
    BY <1>5, <1>7, <2>1 DEF CheckAbsent, PlacesOf, Kinds, Own
<1>8. CASE Unpack(c)
  <2>1. CASE ~ Reject(c)
    <3>1. Goto(c, "place")
      BY <1>8, <2>1 DEF Unpack, Own
    <3>2. "place" \in PlacesOf(call[c].kind) /\ server = "up"
      BY <1>3, <1>8, <2>1, <3>1 DEF Unpack, PlacesOf, Kinds, Early
    <3>3. MovesTo(c, "place", {}) /\ Alone(c) => CallIsTrue(c)'
      BY <1>2, <1>3, <1>8, <2>1, <3>1, <3>2
         DEF Unpack, MovesTo, CallIsTrue, Erased, OutcomeIs, OwnRecordIsWritten, OwnWriteIsLast,
             Own, disk, PlacesOf, Kinds
    <3> QED
      BY <1>4, <3>1, <3>2, <3>3 DEF Places
  <2> QED
    BY <1>5, <1>8, <2>1 DEF Unpack, PlacesOf, Kinds, Own
<1>9. CASE Place(c)
  <2>1. CASE Own(c) \in activated
    <3>1. Goto(c, "record")
      BY <1>9, <2>1 DEF Place, Own
    <3>2. "record" \in PlacesOf(call[c].kind) /\ server = "up"
      BY <1>3, <1>9, <2>1, <3>1 DEF Place, PlacesOf, Kinds, Early
    <3>3. MovesTo(c, "record", {}) /\ Alone(c) => CallIsTrue(c)'
      BY <1>2, <1>3, <1>9, <2>1, <3>1, <3>2
         DEF Place, MovesTo, CallIsTrue, Erased, OutcomeIs, OwnRecordIsWritten, OwnWriteIsLast,
             Own, disk, PlacesOf, Kinds
    <3> QED
      BY <1>4, <3>1, <3>2, <3>3 DEF Places
  <2>2. CASE Own(c) \notin activated
    <3>1. Goto(c, "build")
      BY <1>9, <2>2 DEF Place, Own
    <3>2. "build" \in PlacesOf(call[c].kind) /\ server = "up"
      BY <1>3, <1>9, <2>2, <3>1 DEF Place, PlacesOf, Kinds, Early
    <3>3. MovesTo(c, "build", {}) /\ Alone(c) => CallIsTrue(c)'
      BY <1>2, <1>3, <1>9, <2>2, <3>1, <3>2
         DEF Place, MovesTo, CallIsTrue, Erased, OutcomeIs, OwnRecordIsWritten, OwnWriteIsLast,
             Own, disk, PlacesOf, Kinds
    <3> QED
      BY <1>4, <3>1, <3>2, <3>3 DEF Places
  <2> QED
    BY <1>5, <1>9, <2>1, <2>2 DEF Place, PlacesOf, Kinds, Own
<1>10. CASE Import(c)
  <2>1. CASE ~ Reject(c)
    <3>1. Goto(c, "enter")
      BY <1>10, <2>1 DEF Import, Own
    <3>2. "enter" \in PlacesOf(call[c].kind) /\ server = "up"
      BY <1>3, <1>10, <2>1, <3>1 DEF Import, PlacesOf, Kinds, Early
    <3>3. MovesTo(c, "enter", {}) /\ Alone(c) => CallIsTrue(c)'
      BY <1>2, <1>3, <1>10, <2>1, <3>1, <3>2
         DEF Import, MovesTo, CallIsTrue, Erased, OutcomeIs, OwnRecordIsWritten, OwnWriteIsLast,
             Own, disk, PlacesOf, Kinds
    <3> QED
      BY <1>4, <3>1, <3>2, <3>3 DEF Places
  <2> QED
    BY <1>5, <1>10, <2>1 DEF Import, PlacesOf, Kinds, Own
<1>11. CASE Lookup(c)
  <2>1. CASE ~ Reject(c)
    <3>1. Goto(c, "run")
      BY <1>11, <2>1 DEF Lookup, Own
    <3>2. "run" \in PlacesOf(call[c].kind) /\ server = "up"
      BY <1>3, <1>11, <2>1, <3>1 DEF Lookup, PlacesOf, Kinds, Early
    <3>3. MovesTo(c, "run", {}) /\ Alone(c) => CallIsTrue(c)'
      BY <1>2, <1>3, <1>11, <2>1, <3>1, <3>2
         DEF Lookup, MovesTo, CallIsTrue, Erased, OutcomeIs, OwnRecordIsWritten, OwnWriteIsLast,
             Own, disk, PlacesOf, Kinds
    <3> QED
      BY <1>4, <3>1, <3>2, <3>3 DEF Places
  <2> QED
    BY <1>5, <1>11, <2>1 DEF Lookup, PlacesOf, Kinds, Own
<1>12. CASE Run(c)
  <2>1. CASE ~ Reject(c)
    <3>1. Goto(c, "done")
      BY <1>12, <2>1 DEF Run, Own
    <3>2. "done" \in PlacesOf(call[c].kind) /\ server = "up"
      BY <1>3, <1>12, <2>1, <3>1 DEF Run, PlacesOf, Kinds, Early
    <3>3. MovesTo(c, "done", {}) /\ Alone(c) => CallIsTrue(c)'
      BY <1>2, <1>3, <1>12, <2>1, <3>1, <3>2
         DEF Run, MovesTo, CallIsTrue, Erased, OutcomeIs, OwnRecordIsWritten, OwnWriteIsLast,
             Own, disk, PlacesOf, Kinds
    <3> QED
      BY <1>4, <3>1, <3>2, <3>3 DEF Places
  <2> QED
    BY <1>5, <1>12, <2>1 DEF Run, PlacesOf, Kinds, Own
<1>13. CASE Close(c)
  <2>1. CASE ~ Reject(c)
    <3>1. Goto(c, "done")
      BY <1>13, <2>1 DEF Close, Own
    <3>2. "done" \in PlacesOf(call[c].kind) /\ server = "up"
      BY <1>3, <1>13, <2>1, <3>1 DEF Close, PlacesOf, Kinds, Early
    <3>3. MovesTo(c, "done", {}) /\ Alone(c) => CallIsTrue(c)'
      BY <1>2, <1>3, <1>13, <2>1, <3>1, <3>2
         DEF Close, MovesTo, CallIsTrue, Erased, OutcomeIs, OwnRecordIsWritten, OwnWriteIsLast,
             Own, disk, PlacesOf, Kinds
    <3> QED
      BY <1>4, <3>1, <3>2, <3>3 DEF Places
  <2> QED
    BY <1>5, <1>13, <2>1 DEF Close, PlacesOf, Kinds, Own
<1> QED
  BY <1>6, <1>7, <1>8, <1>9, <1>10, <1>11, <1>12, <1>13

(* Steps that change the records, and queue them.                          *)
LEMMA PersistIsSerial ==
    ASSUME SerialInv, QueueInv', NEW c \in Calls,
           call[c].at \notin {"idle", "write", "erasing"}, Alone(c), server = "up",
           NEW r \in {"none", "disabled", "enabled"},
           Persist(c, [records EXCEPT ![Own(c)] = r]),
           NEW place \in {"write", "erasing"}, MovesTo(c, place, {}),
           place \in PlacesOf(call[c].kind),
           UNCHANGED <<disk, lockFile, server, unread, disturbed>>,
           \A q \in Plugins : q # Own(c) => loaded'[q] = loaded[q],
           r # "none" => Own(c) \in activated,
           place = "erasing" => r = "none" /\ loaded'[Own(c)] = "no",
           place = "write" =>
               IF Is(c, "enable") THEN r = "enabled" /\ loaded'[Own(c)] = "hooks"
                                  ELSE r = "disabled" /\ loaded'[Own(c)] = "no"
    PROVE  SerialInv'
<1>1. /\ PluginTypeOK /\ WritersWait
      /\ Own(c) \in Plugins
      /\ Len(writes) \in Nat
      /\ \A i \in 1 .. Len(writes) : writes[i].by # c
  BY CallFacts, QueueEntries DEF SerialInv, QueueInv, WritersWait
<1>2. [records EXCEPT ![Own(c)] = r] \in Locks
  BY <1>1 DEF PluginTypeOK, Locks
<1>3. /\ records' = [records EXCEPT ![Own(c)] = r]
      /\ Len(writes') = Len(writes) + 1
      /\ \A i \in 1 .. Len(writes) : writes'[i] = writes[i]
      /\ writes'[Len(writes')] = [lock |-> records', by |-> c]
  BY <1>1, <1>2, PersistQueues
<1>4. /\ records'[Own(c)] = r
      /\ \A q \in Plugins : q # Own(c) => records'[q] = records[q]
  BY <1>1, <1>3 DEF PluginTypeOK, Locks
<1>5. PrivateStep(c)
  BY <1>3, <1>4 DEF PrivateStep, disk
<1>6. OwnWriteIsLast(c)'
  <2>1. ASSUME NEW i \in 1 .. Len(writes'), writes'[i].by = c
        PROVE  i = Len(writes')
    BY <1>1, <1>3, <2>1
  <2>2. ASSUME NEW i \in 1 .. Len(writes'), NEW j \in 1 .. Len(writes'),
               writes'[i].by = c, i <= j
        PROVE  j = Len(writes')
    BY <1>1, <1>3, <2>1, <2>2
  <2>3. writes'[Len(writes')].lock = records'
    BY <1>3
  <2> QED
    BY <2>2, <2>3 DEF OwnWriteIsLast
<1>7. LeavesFiles(Own(c))
  BY <1>1, <1>4 DEF LeavesFiles, SerialInv, RecordsHaveFiles, disk, Alone, Calm
<1>8. CallIsTrue(c)'
  BY <1>4, <1>6 DEF CallIsTrue, MovesTo, Erased, OutcomeIs, At, Is, Own
<1> QED
  BY <1>5, <1>7, <1>8, ChangeIsSerial DEF FitsCall, Alone

(* Steps that change what is loaded or on disk, or the records.            *)
LEMMA ChangingSteps ==
    ASSUME SerialInv, QueueInv', NEW c \in Calls, Alone(c),
           \/ Review(c) \/ Stage(c) \/ Build(c) \/ Record(c)
           \/ LookLoaded(c) \/ Enter(c) \/ Entered(c)
           \/ Release(c) \/ Dispose(c) \/ Unload(c) \/ Audit(c)
    PROVE  SerialInv'
<1>1. call[c].at \notin {"idle", "remove", "write", "erasing", "rejected"}
  BY DEF Review, Stage, Build, Record, LookLoaded, Enter, Entered, Release, Dispose, Unload,
         Audit, At
<1>2. UNCHANGED <<lockFile, server, unread, disturbed>>
  BY DEF Review, Stage, Build, Record, LookLoaded, Enter, Entered, Release, Dispose, Unload, Audit,
         process
<1>3. /\ Own(c) \in Plugins
      /\ call[c].kind \in Kinds
      /\ call[c].at \in PlacesOf(call[c].kind)
      /\ call[c].at \notin Early /\ ~Is(c, "review") => server = "up"
      /\ Changing(c) <=> call[c].kind # "invoke"
      /\ Alone(c) => Changing(c) /\ CallIsTrue(c)
      /\ \A place \in Places \ {"idle"} : Goto(c, place) => MovesTo(c, place, {})
  BY <1>1, CallFacts DEF GoesOn
<1>4. /\ Changing(c) /\ CallIsTrue(c)
      /\ ~ At(c, "stage") => server = "up"
  BY <1>3 DEF Review, Stage, Build, Record, LookLoaded, Enter, Entered, Release, Dispose, Unload,
              Audit, At, Is, PlacesOf, Kinds, Early
<1>5. /\ loaded \in [Plugins -> {"no", "hooks", "hollow"}]
      /\ loaded[Own(c)] # "hollow"
      /\ loaded[Own(c)] = "hooks" => records[Own(c)] # "none"
      /\ records[Own(c)] # "none" => Own(c) \in activated
  BY <1>3 DEF SerialInv, QueueInv, PluginTypeOK, LoadedIsRecorded, RecordsHaveFiles, Alone,
              Calm
(* Every step may be refused, and then changes nothing ...                 *)
<1>6. CASE Reject(c) /\ UNCHANGED <<records, loaded, writes, disk>>
  <2>1. MovesTo(c, "rejected", {})
    BY <1>3, <1>6 DEF Reject, Places
  <2>2. FitsCall(c, "rejected", {})
    BY <1>3, <1>4 DEF FitsCall, Early, PlacesOf, Kinds, Changing
  <2>3. CallIsTrue(c)'
    BY <2>1 DEF MovesTo, CallIsTrue, Erased, At, Is
  <2> QED
    BY <1>2, <1>6, <2>1, <2>2, <2>3, QuietMoveIsSerial DEF disk
(* ... or moves on, leaving records and queue alone, or persists.          *)
<1>7. ASSUME NEW place \in Places \ {"idle"}, Goto(c, place),
             place \in PlacesOf(call[c].kind),
             place \in Early \/ Is(c, "review") \/ server = "up",
             place # "remove", UNCHANGED <<records, writes>>,
             \A q \in Plugins : q # Own(c) =>
                 /\ loaded'[q] = loaded[q]
                 /\ q \in staged' <=> q \in staged
                 /\ q \in activated' <=> q \in activated,
             activated \subseteq activated',
             loaded'[Own(c)] = "no" \/ (loaded'[Own(c)] = "hooks" /\ records[Own(c)] # "none"),
             MovesTo(c, place, {}) => CallIsTrue(c)'
      PROVE  SerialInv'
  <2>1. LeavesFiles(Own(c))
    BY <1>3, <1>7 DEF LeavesFiles, SerialInv, RecordsHaveFiles, Alone, Calm
  <2>2. PrivateStep(c)
    BY <1>2, <1>7 DEF PrivateStep
  <2> QED
    BY <1>3, <1>4, <1>7, <2>1, <2>2, ChangeIsSerial DEF FitsCall
<1>8. ASSUME NEW place \in {"write", "erasing"}, Goto(c, place), ~ At(c, "stage"),
             place \in PlacesOf(call[c].kind), UNCHANGED disk,
             NEW r \in {"none", "disabled", "enabled"},
             Persist(c, [records EXCEPT ![Own(c)] = r]),
             \A q \in Plugins : q # Own(c) => loaded'[q] = loaded[q],
             r # "none" => Own(c) \in activated,
             place = "erasing" => r = "none" /\ loaded'[Own(c)] = "no",
             place = "write" =>
                 IF Is(c, "enable") THEN r = "enabled" /\ loaded'[Own(c)] = "hooks"
                                    ELSE r = "disabled" /\ loaded'[Own(c)] = "no"
      PROVE  SerialInv'
  <2>1. MovesTo(c, place, {})
    BY <1>3, <1>8 DEF Places
  <2> QED
    BY <1>1, <1>2, <1>4, <1>8, <2>1, PersistIsSerial DEF disk
<1>9. CASE Review(c) \/ Stage(c)
  <2>1. PICK place \in {"done", "check", "rejected"} :
            /\ Goto(c, place)
            /\ place = "done" => Is(c, "review")
            /\ place = "check" => Is(c, "install")
    BY <1>9 DEF Review, Stage, StageArtifact, Reject
  <2>2. place \in PlacesOf(call[c].kind) /\ (place \in Early \/ Is(c, "review"))
    BY <1>3, <1>4, <1>9, <2>1 DEF Review, Stage, Is, At, PlacesOf, Kinds, Early
  <2>3. MovesTo(c, place, {}) => CallIsTrue(c)'
    BY <2>1 DEF MovesTo, CallIsTrue, Erased, At, Is
  <2>4. \A q \in Plugins : q # Own(c) => (q \in staged' <=> q \in staged)
    BY <1>9 DEF Review, Stage, StageArtifact, Own
  <2> QED
    BY <1>3, <1>5, <1>7, <1>9, <2>1, <2>2, <2>3, <2>4 DEF Review, Stage, Places, memory
<1>10. CASE Build(c)
  <2>1. CASE Goto(c, "record") /\ activated' = activated \union {call[c].plugin}
    <3>1. "record" \in PlacesOf(call[c].kind)
      BY <1>3, <1>10 DEF Build, At, PlacesOf, Kinds
    <3>2. records[Own(c)] = "none" /\ server = "up"
      BY <1>4, <1>10 DEF Build, CallIsTrue, At
    <3>3. MovesTo(c, "record", {}) => CallIsTrue(c)'
      BY <1>10, <2>1, <3>2 DEF Build, MovesTo, CallIsTrue, Erased, At, Is, Own, memory
    <3> QED
      BY <1>3, <1>5, <1>7, <1>10, <2>1, <3>1, <3>2, <3>3 DEF Build, Places, memory, Own
  <2> QED
    BY <1>6, <1>10, <2>1 DEF Build, memory, disk
<1>11. CASE Record(c)
  <2>1. "write" \in PlacesOf(call[c].kind) /\ Is(c, "install")
    BY <1>3, <1>11 DEF Record, At, Is, PlacesOf, Kinds
  <2>2. Own(c) \in activated /\ loaded[Own(c)] = "no"
    BY <1>3, <1>4, <1>5, <1>11 DEF Record, CallIsTrue, At
  <2>3. /\ Persist(c, [records EXCEPT ![Own(c)] = "disabled"])
        /\ Goto(c, "write")
        /\ loaded' = loaded /\ UNCHANGED disk
        /\ ~ At(c, "stage") /\ ~ Is(c, "enable")
    BY <1>11, <2>1 DEF Record, At, Is, Own
  <2> QED
    BY <1>8, <2>1, <2>2, <2>3
<1>12. CASE LookLoaded(c)
  <2>1. Is(c, "enable") /\ records[Own(c)] # "none"
    BY <1>3, <1>4, <1>12 DEF LookLoaded, At, Is, PlacesOf, Kinds, CallIsTrue
  <2>2. CASE loaded[Own(c)] = "no"
    <3>1. MovesTo(c, "import", {}) => CallIsTrue(c)'
      BY <1>12, <2>1, <2>2 DEF LookLoaded, MovesTo, CallIsTrue, Erased, At, Is, Own, memory
    <3> QED
      BY <1>4, <1>5, <1>7, <1>12, <2>1, <2>2, <3>1
         DEF LookLoaded, At, Is, PlacesOf, Places, Own, memory, disk
  <2>3. CASE loaded[Own(c)] # "no"
    <3>1. /\ Goto(c, "write") /\ Persist(c, [records EXCEPT ![Own(c)] = "enabled"])
          /\ loaded' = [loaded EXCEPT ![Own(c)] = IF @ = "no" THEN "hollow" ELSE @]
      BY <1>12, <2>3 DEF LookLoaded, SwitchOn, Own
    <3>2. loaded' = loaded /\ loaded[Own(c)] = "hooks"
      BY <1>3, <1>5, <2>3, <3>1
    <3>3. "write" \in PlacesOf(call[c].kind) /\ UNCHANGED disk /\ ~ At(c, "stage")
      BY <1>12, <2>1 DEF LookLoaded, At, Is, PlacesOf
    <3> QED
      BY <1>5, <1>8, <2>1, <3>1, <3>2, <3>3
  <2> QED
    BY <2>2, <2>3
<1>13. CASE Enter(c)
  <2>1. Is(c, "enable") /\ records[Own(c)] # "none"
    BY <1>3, <1>4, <1>13 DEF Enter, At, Is, PlacesOf, Kinds, CallIsTrue
  <2>2. CASE Goto(c, "entered") /\ loaded' = [loaded EXCEPT ![Own(c)] = "hooks"]
    <3>1. /\ loaded'[Own(c)] = "hooks"
          /\ \A q \in Plugins : q # Own(c) => loaded'[q] = loaded[q]
      BY <1>3, <1>5, <2>2
    <3>2. MovesTo(c, "entered", {}) => CallIsTrue(c)'
      BY <1>13, <2>1, <3>1 DEF Enter, MovesTo, CallIsTrue, Erased, At, Is, Own
    <3> QED
      BY <1>4, <1>7, <1>13, <2>1, <2>2, <3>1, <3>2
         DEF Enter, At, Is, PlacesOf, Places, disk
  <2> QED
    BY <1>6, <1>13, <2>2 DEF Enter, Own
<1>14. CASE Entered(c)
  <2>1. Is(c, "enable") /\ records[Own(c)] # "none" /\ loaded[Own(c)] = "hooks"
    BY <1>3, <1>4, <1>14 DEF Entered, At, Is, PlacesOf, Kinds, CallIsTrue
  <2>2. CASE Goto(c, "write") /\ SwitchOn(c)
    <3>1. /\ Persist(c, [records EXCEPT ![Own(c)] = "enabled"])
          /\ loaded' = [loaded EXCEPT ![Own(c)] = IF @ = "no" THEN "hollow" ELSE @]
      BY <2>2 DEF SwitchOn, Own
    <3>2. loaded' = loaded
      BY <1>5, <2>1, <3>1
    <3> QED
      BY <1>5, <1>8, <1>14, <2>1, <2>2, <3>1, <3>2 DEF Entered, At, Is, PlacesOf
  <2> QED
    BY <1>6, <1>14, <2>2 DEF Entered, memory
<1>15. CASE Release(c)
  <2>1. records[Own(c)] # "none" /\ call[c].kind \in {"disable", "uninstall"}
    BY <1>3, <1>4, <1>15 DEF Release, At, PlacesOf, Kinds, CallIsTrue
  <2>2. /\ loaded'[Own(c)] = "no"
        /\ \A q \in Plugins : q # Own(c) => loaded'[q] = loaded[q]
    BY <1>3, <1>5, <1>15 DEF Release, Own
  <2>3. CASE Goto(c, "dispose") /\ UNCHANGED <<records, writes>>
    <3>1. MovesTo(c, "dispose", {}) => CallIsTrue(c)'
      BY <2>1, <2>2, <2>3 DEF MovesTo, CallIsTrue, Erased, At, Is, Own
    <3> QED
      BY <1>4, <1>7, <1>15, <2>1, <2>2, <2>3, <3>1 DEF Release, At, PlacesOf, Places, disk
  <2>4. CASE SwitchOff(c)
    BY <1>5, <1>8, <1>15, <2>1, <2>2, <2>4 DEF Release, SwitchOff, At, Is, PlacesOf, Own
  <2> QED
    BY <1>5, <1>15, <2>3, <2>4 DEF Release, Own
<1>16. CASE Dispose(c)
  <2>1. /\ records[Own(c)] # "none" /\ loaded[Own(c)] = "no"
        /\ call[c].kind \in {"disable", "uninstall"}
    BY <1>3, <1>4, <1>16 DEF Dispose, At, PlacesOf, Kinds, CallIsTrue
  <2>2. CASE SwitchOff(c)
    BY <1>5, <1>8, <1>16, <2>1, <2>2 DEF Dispose, SwitchOff, At, Is, PlacesOf, Own
  <2> QED
    BY <1>6, <1>16, <2>2 DEF Dispose
<1>17. CASE Unload(c)
  <2>1. Is(c, "uninstall")
    BY <1>3, <1>17 DEF Unload, At, Is, PlacesOf, Kinds
  <2>2. CASE loaded[Own(c)] = "no" /\ Erase(c)
    BY <1>8, <1>17, <2>1, <2>2 DEF Unload, Erase, At, Is, PlacesOf, Own
  <2>3. CASE records[Own(c)] # "none" /\ Goto(c, "release") /\ UNCHANGED <<records, writes>>
    <3>1. MovesTo(c, "release", {}) => CallIsTrue(c)'
      BY <2>3 DEF MovesTo, CallIsTrue, Erased, At, Is, Own
    <3> QED
      BY <1>3, <1>4, <1>5, <1>7, <1>17, <2>1, <2>3, <3>1 DEF Unload, At, Is, PlacesOf, Places, disk
  <2> QED
    BY <1>6, <1>17, <2>2, <2>3 DEF Unload, Own
<1>18. CASE Audit(c)
  <2>1. CASE Is(c, "uninstall") /\ Erase(c)
    <3>1. loaded[Own(c)] = "no"
      BY <1>4, <1>18, <2>1 DEF Audit, At, Is, CallIsTrue, OutcomeIs
    <3> QED
      BY <1>8, <1>18, <2>1, <3>1 DEF Audit, Erase, At, Is, PlacesOf, Own
  <2>2. CASE ~ Is(c, "uninstall") /\ Goto(c, "done") /\ UNCHANGED <<records, writes>>
    <3>1. "done" \in PlacesOf(call[c].kind)
      BY <1>3, <1>18 DEF Audit, At, PlacesOf, Kinds
    <3>2. MovesTo(c, "done", {}) => CallIsTrue(c)'
      BY <1>4, <1>18, <2>2
         DEF Audit, MovesTo, CallIsTrue, Erased, At, Is, Own, OutcomeIs, OwnRecordIsWritten
    <3> QED
      BY <1>3, <1>4, <1>5, <1>7, <1>18, <2>2, <3>1, <3>2 DEF Audit, At, Places, disk
  <2> QED
    BY <1>6, <1>18, <2>1, <2>2 DEF Audit
<1> QED
  BY <1>9, <1>10, <1>11, <1>12, <1>13, <1>14, <1>15, <1>16, <1>17, <1>18

(* Removals, which go on when one of them has failed.                      *)
LEMMA RemovalIsSerial ==
    ASSUME SerialInv, QueueInv', NEW c \in Calls,
           NEW part \in {"artifact", "directory"}, Remove(c, part)
    PROVE  SerialInv'
<1>1. /\ call[c].at \in {"remove", "rejected"} /\ part \in call[c].left
      /\ Is(c, "uninstall") /\ server = "up"
  BY DEF Remove, SerialInv, RemovalsAreWaitedFor, CallsFollowTheStart, GoesOn
<1>2. /\ Own(c) \in Plugins
      /\ Changing(c)
      /\ Alone(c) => CallIsTrue(c)
      /\ call[c].left \subseteq {"artifact", "directory"}
  BY <1>1, CallFacts, CallsAreAlive DEF SerialInv, Is, At
<1> DEFINE gone == call[c].left \ {part}
           last == IF call[c].left = {part} THEN "close" ELSE "remove"
<1>3. PICK place \in {call[c].at, last, "rejected"} :
          /\ call' = [call EXCEPT ![c] = [call[c] EXCEPT !.left = gone, !.at = place]]
          /\ \/ /\ place = IF At(c, "remove") THEN last ELSE call[c].at
                /\ staged' = IF part = "artifact" THEN staged \ {Own(c)} ELSE staged
                /\ activated' = IF part = "directory" THEN activated \ {Own(c)}
                                                      ELSE activated
             \/ place = "rejected" /\ UNCHANGED disk
  BY <1>1 DEF Remove, Own, At
<1>4. /\ UNCHANGED <<records, loaded, writes, lockFile, server, unread, disturbed>>
      /\ \A q \in Plugins : q # Own(c) =>
            /\ q \in staged' <=> q \in staged
            /\ q \in activated' <=> q \in activated
  BY <1>3 DEF Remove, Own, memory, process, disk
<1>5. MovesTo(c, place, gone)
  <2>1. call[c] \in CallStates \ {Idle} /\ call \in [Calls -> CallStates]
    BY <1>1 DEF At, SerialInv, QueueInv, PluginTypeOK, Idle
  <2>2. call'[c] = [call[c] EXCEPT !.left = gone, !.at = place]
    BY <1>3, <2>1
  <2>3. [call[c] EXCEPT !.left = gone, !.at = place] \in CallStates
    BY <1>1, <2>1 DEF CallStates, Places, Idle
  <2> QED
    BY <1>3, <2>1, <2>2, <2>3 DEF MovesTo, CallStates
<1>6. FitsCall(c, place, gone)
  BY <1>1, <1>2, <1>3 DEF FitsCall, PlacesOf, Is, At
<1>7. PrivateStep(c)
  BY <1>4 DEF PrivateStep
<1>8. ASSUME Calm(c)
      PROVE  LeavesFiles(Own(c)) /\ CallIsTrue(c)'
  <2>1. CallIsTrue(c) /\ Erased(c) /\ call[c].left # {}
    BY <1>1, <1>2, <1>8 DEF Alone, Erased
  <2>2. OutcomeIs(c, "none", "no") /\ OwnRecordIsWritten(c)
    BY <2>1 DEF CallIsTrue
  <2>3. LeavesFiles(Own(c))
    BY <1>4, <2>2 DEF LeavesFiles, OutcomeIs, OwnRecordIsWritten
  <2>4. OutcomeIs(c, "none", "no")' /\ OwnRecordIsWritten(c)'
    BY <1>4, <1>5, <2>2 DEF OutcomeIs, OwnRecordIsWritten, MovesTo, Own
  <2>5. place # "rejected" =>
            /\ "artifact" \notin gone => Own(c) \notin staged'
            /\ "directory" \notin gone => Own(c) \notin activated'
    BY <1>1, <1>2, <1>3, <2>1 DEF CallIsTrue, At
  <2> QED
    BY <1>1, <1>3, <1>5, <2>3, <2>4, <2>5 DEF CallIsTrue, Erased, MovesTo, At, Is, Own
<1> QED
  BY <1>1, <1>2, <1>5, <1>6, <1>7, <1>8, ChangeIsSerial

(* A call about a disturbed plugin may leave of it what it likes: what is  *)
(* known of others, and where calls are, it does not touch.                *)
LEMMA DisturbedSteps ==
    ASSUME SerialInv, QueueInv', NEW c \in Calls, ~ Calm(c),
           \/ Review(c) \/ Stage(c) \/ Build(c) \/ Record(c)
           \/ LookLoaded(c) \/ Enter(c) \/ Entered(c)
           \/ Release(c) \/ Dispose(c) \/ Unload(c) \/ Audit(c)
    PROVE  SerialInv'
<1>1. call[c].at \notin {"idle", "remove", "write", "erasing", "rejected"}
  BY DEF Review, Stage, Build, Record, LookLoaded, Enter, Entered, Release, Dispose, Unload,
         Audit, At
<1>2. UNCHANGED <<lockFile, server, unread, disturbed>>
  BY DEF Review, Stage, Build, Record, LookLoaded, Enter, Entered, Release, Dispose, Unload,
         Audit, process
<1>3. /\ Own(c) \in Plugins
      /\ call[c].kind \in Kinds
      /\ call[c].at \in PlacesOf(call[c].kind)
      /\ call[c].at \notin Early /\ ~Is(c, "review") => server = "up"
      /\ Changing(c) <=> call[c].kind # "invoke"
      /\ \A place \in Places \ {"idle"} : Goto(c, place) => MovesTo(c, place, {})
  BY <1>1, CallFacts DEF GoesOn
<1>4. /\ Changing(c)
      /\ ~ At(c, "stage") => server = "up"
  BY <1>3 DEF Review, Stage, Build, Record, LookLoaded, Enter, Entered, Release, Dispose,
              Unload, Audit, At, Is, PlacesOf, Kinds, Early
<1>5. PluginTypeOK
  BY DEF SerialInv, QueueInv
<1>6. ASSUME NEW place \in Places \ {"idle"}, Goto(c, place),
             place \in PlacesOf(call[c].kind),
             place \in Early \/ Is(c, "review") \/ server = "up",
             server = "up" \/ UNCHANGED records, PrivateStep(c)
      PROVE  SerialInv'
  BY <1>3, <1>4, <1>6, ChangeIsSerial DEF FitsCall
(* It leaves records and queue alone ...                                   *)
<1>7. ASSUME NEW place \in Places \ {"idle"}, Goto(c, place),
             place \in PlacesOf(call[c].kind),
             place \in Early \/ Is(c, "review") \/ server = "up",
             UNCHANGED <<records, writes>>,
             \A q \in Plugins : q # Own(c) =>
                 /\ loaded'[q] = loaded[q]
                 /\ q \in staged' <=> q \in staged
                 /\ q \in activated' <=> q \in activated
      PROVE  SerialInv'
  <2>1. PrivateStep(c)
    BY <1>2, <1>7 DEF PrivateStep
  <2> QED
    BY <1>6, <1>7, <2>1
(* ... or persists.                                                        *)
<1>8. ASSUME NEW place \in {"write", "erasing"}, Goto(c, place), ~ At(c, "stage"),
             place \in PlacesOf(call[c].kind), UNCHANGED disk,
             NEW r \in {"none", "disabled", "enabled"},
             Persist(c, [records EXCEPT ![Own(c)] = r]),
             \A q \in Plugins : q # Own(c) => loaded'[q] = loaded[q]
      PROVE  SerialInv'
  <2>1. [records EXCEPT ![Own(c)] = r] \in Locks
    BY <1>3, <1>5 DEF PluginTypeOK, Locks
  <2>2. /\ records' = [records EXCEPT ![Own(c)] = r]
        /\ Len(writes') = Len(writes) + 1
        /\ \A i \in 1 .. Len(writes) : writes'[i] = writes[i]
        /\ writes'[Len(writes')] = [lock |-> records', by |-> c]
    BY <1>5, <1>8, <2>1, PersistQueues
  <2>3. \A q \in Plugins : q # Own(c) => records'[q] = records[q]
    BY <1>5, <2>2 DEF PluginTypeOK, Locks
  <2>4. PrivateStep(c)
    BY <1>2, <1>8, <2>2, <2>3 DEF PrivateStep, disk
  <2> QED
    BY <1>4, <1>6, <1>8, <2>4 DEF Places
<1>9. CASE Reject(c) /\ UNCHANGED <<records, writes, activated>>
           /\ \A q \in Plugins : q # Own(c) =>
                  loaded'[q] = loaded[q] /\ (q \in staged' <=> q \in staged)
  BY <1>3, <1>7, <1>9 DEF Reject, Places, Early, PlacesOf, Kinds
<1>10. loaded \in [Plugins -> {"no", "hooks", "hollow"}]
  BY <1>5 DEF PluginTypeOK
<1>11. CASE Review(c) \/ Stage(c)
  <2>1. PICK place \in {"done", "check", "rejected"} :
            /\ Goto(c, place)
            /\ place = "done" => Is(c, "review")
            /\ place = "check" => Is(c, "install")
    BY <1>11 DEF Review, Stage, StageArtifact, Reject
  <2>2. place \in PlacesOf(call[c].kind)
    BY <1>3, <2>1 DEF Is, PlacesOf, Kinds
  <2>3. \A q \in Plugins : q # Own(c) => (q \in staged' <=> q \in staged)
    BY <1>11 DEF Review, Stage, StageArtifact, Own
  <2>4. UNCHANGED <<records, loaded, writes, activated>>
    BY <1>11 DEF Review, Stage, memory
  <2> QED
    BY <1>2, <1>3, <1>4, <1>7, <2>1, <2>2, <2>3, <2>4 DEF Places, Early
<1>12. CASE Build(c)
  <2>1. CASE Goto(c, "record") /\ activated' = activated \union {Own(c)}
    BY <1>3, <1>4, <1>7, <1>12, <2>1 DEF Build, At, PlacesOf, Kinds, Places, memory
  <2> QED
    BY <1>9, <1>12, <2>1 DEF Build, memory, Own
<1>13. CASE Record(c)
  BY <1>3, <1>8, <1>13 DEF Record, At, PlacesOf, Kinds, Own
<1>14. CASE LookLoaded(c)
  <2>1. CASE Goto(c, "import") /\ UNCHANGED <<memory, writes>>
    BY <1>3, <1>4, <1>7, <1>14, <2>1
       DEF LookLoaded, At, PlacesOf, Kinds, Places, memory, disk
  <2>2. CASE Goto(c, "write") /\ SwitchOn(c)
    BY <1>3, <1>8, <1>10, <1>14, <2>2
       DEF LookLoaded, SwitchOn, At, PlacesOf, Kinds, Own
  <2> QED
    BY <1>14, <2>1, <2>2 DEF LookLoaded
<1>15. CASE Enter(c)
  <2>1. CASE Goto(c, "entered") /\ loaded' = [loaded EXCEPT ![Own(c)] = "hooks"]
    BY <1>3, <1>4, <1>7, <1>10, <1>15, <2>1 DEF Enter, At, PlacesOf, Kinds, Places, disk
  <2> QED
    BY <1>9, <1>15, <2>1 DEF Enter, disk, Own
<1>16. CASE Entered(c)
  <2>1. CASE Goto(c, "write") /\ SwitchOn(c)
    BY <1>3, <1>8, <1>10, <1>16, <2>1 DEF Entered, SwitchOn, At, PlacesOf, Kinds, Own
  <2> QED
    BY <1>9, <1>16, <2>1 DEF Entered, memory, disk
<1>17. CASE Release(c)
  <2>1. \A q \in Plugins : q # Own(c) => loaded'[q] = loaded[q]
    BY <1>10, <1>17 DEF Release, Own
  <2>2. call[c].kind \in {"disable", "uninstall"}
    BY <1>3, <1>17 DEF Release, At, PlacesOf, Kinds
  <2>3. CASE Goto(c, "dispose") /\ UNCHANGED <<records, writes>>
    BY <1>4, <1>7, <1>17, <2>1, <2>2, <2>3 DEF Release, At, PlacesOf, Places, disk
  <2>4. CASE SwitchOff(c)
    BY <1>8, <1>17, <2>1, <2>2, <2>4 DEF Release, SwitchOff, At, PlacesOf, Own
  <2> QED
    BY <1>9, <1>17, <2>1, <2>3, <2>4 DEF Release, disk
<1>18. CASE Dispose(c)
  <2>1. call[c].kind \in {"disable", "uninstall"}
    BY <1>3, <1>18 DEF Dispose, At, PlacesOf, Kinds
  <2>2. CASE SwitchOff(c)
    BY <1>8, <1>18, <2>1, <2>2 DEF Dispose, SwitchOff, At, PlacesOf, Own
  <2> QED
    BY <1>9, <1>18, <2>2 DEF Dispose, disk
<1>19. CASE Unload(c)
  <2>1. Is(c, "uninstall")
    BY <1>3, <1>19 DEF Unload, At, Is, PlacesOf, Kinds
  <2>2. CASE Erase(c)
    BY <1>8, <1>19, <2>1, <2>2 DEF Unload, Erase, At, Is, PlacesOf, Own
  <2>3. CASE Goto(c, "release") /\ UNCHANGED <<records, writes>>
    BY <1>4, <1>7, <1>19, <2>1, <2>3 DEF Unload, At, Is, PlacesOf, Places, disk
  <2> QED
    BY <1>9, <1>19, <2>2, <2>3 DEF Unload, disk
<1>20. CASE Audit(c)
  <2>1. CASE Is(c, "uninstall") /\ Erase(c)
    BY <1>8, <1>20, <2>1 DEF Audit, Erase, At, Is, PlacesOf, Own
  <2>2. CASE Goto(c, "done") /\ UNCHANGED <<records, writes>>
    BY <1>3, <1>4, <1>7, <1>20, <2>2 DEF Audit, At, PlacesOf, Kinds, Places, disk
  <2> QED
    BY <1>9, <1>20, <2>1, <2>2 DEF Audit, disk
<1> QED
  BY <1>11, <1>12, <1>13, <1>14, <1>15, <1>16, <1>17, <1>18, <1>19, <1>20

(* A lock file is written.                                                 *)
LEMMA WriteIsSerial ==
    ASSUME SerialInv, QueueInv', WriteLock
    PROVE  SerialInv'
<1>1. PluginTypeOK
  BY DEF SerialInv, QueueInv
<1>0. PICK c \in Calls : c = writes[1].by
  BY <1>1, WriteDequeues DEF LockWrites
<1>2. /\ Head(writes) = writes[1]
      /\ Len(writes) \in Nat /\ Len(writes') \in Nat
      /\ Len(writes) = Len(writes') + 1
      /\ \A i \in 1 .. Len(writes') : writes'[i] = writes[i + 1]
      /\ 1 \in 1 .. Len(writes)
      /\ c = writes[1].by
  BY <1>0, <1>1, WriteDequeues, QueueEntries
<1>3. call[c].at \in {"write", "erasing"}
  BY <1>2 DEF SerialInv, QueueInv, WritersWait
<1>4. /\ Own(c) \in Plugins
      /\ call[c].kind \in Kinds
      /\ call[c].at \in PlacesOf(call[c].kind)
      /\ call[c].left = {}
      /\ server = "up"
      /\ Changing(c) /\ (Alone(c) => CallIsTrue(c))
  BY <1>2, <1>3, CallFacts DEF GoesOn, Early, PlacesOf, Kinds, Is
<1>5. /\ UNCHANGED <<records, loaded, staged, activated, server, unread, disturbed>>
      /\ lockFile' = writes[1].lock \/ lockFile' = lockFile
  BY <1>2 DEF WriteLock, memory, disk, process
<1>6. \/ MovesTo(c, "rejected", {})
      \/ lockFile' = writes[1].lock /\ call[c].at = "write" /\ MovesTo(c, "audit", {})
      \/ lockFile' = writes[1].lock /\ call[c].at = "erasing"
         /\ MovesTo(c, "remove", {"artifact", "directory"})
  BY <1>1, <1>2, <1>3, <1>4, GotoMoves, WrittenMoves DEF WriteLock, Reject, Places, At
<1>7. PICK place \in {"rejected", "audit", "remove"}, left \in SUBSET {"artifact", "directory"} :
          MovesTo(c, place, left) /\ FitsCall(c, place, left)
  BY <1>3, <1>4, <1>6 DEF FitsCall, PlacesOf, Kinds, Is
<1>8. /\ OneChangeAtATime' /\ PlacesFitKinds' /\ RemovalsAreWaitedFor'
      /\ CallsFollowTheStart'
  BY <1>2, <1>5, <1>7, MoveKeepsPlaces DEF SerialInv, CallsFollowTheStart, At
<1>9. RecordsHaveFiles' /\ LoadedIsRecorded'
  <2>1. \A i \in 1 .. Len(writes') : i + 1 \in 1 .. Len(writes)
    BY <1>2
  <2> QED
    BY <1>2, <1>5, <2>1 DEF SerialInv, RecordsHaveFiles, LoadedIsRecorded
<1>10. ASSUME NEW d \in Calls, Alone(d)'
       PROVE  CallIsTrue(d)'
  <2>1. \A i \in 1 .. Len(writes') :
            i + 1 \in 1 .. Len(writes) /\ writes'[i] = writes[i + 1] /\ 1 <= i + 1
    BY <1>2
  <2>2. \A i, j \in 1 .. Len(writes') : i <= j => i + 1 <= j + 1
    OBVIOUS
  <2>3. CASE d # c
    <3>1. call'[d] = call[d] /\ CallIsTrue(d)
      BY <1>5, <1>7, <1>10, <2>3
         DEF MovesTo, Alone, Calm, Own, Changing, SerialInv, CallsAreTrue
    <3>2. Own(d)' = Own(d)
      BY <3>1 DEF Own
    <3>3. OwnWriteIsLast(d) => OwnWriteIsLast(d)'
      BY <1>5, <2>1, <2>2, <3>2 DEF OwnWriteIsLast
    <3>4. OwnRecordIsWritten(d) => OwnRecordIsWritten(d)'
      BY <1>2, <1>5, <2>1, <3>2 DEF OwnRecordIsWritten
    <3>5. /\ records' = records /\ loaded' = loaded
          /\ staged' = staged /\ activated' = activated
      BY <1>5
    <3> QED
      BY <3>1, <3>2, <3>3, <3>4, <3>5 DEF CallIsTrue, Erased, OutcomeIs, At, Is
  <2>4. CASE d = c
    <3>0. CallIsTrue(c)
      BY <1>4, <1>5, <1>7, <1>10, <2>4 DEF MovesTo, Alone, Calm, Own
    <3>1. CASE MovesTo(c, "rejected", {})
      BY <2>4, <3>1 DEF MovesTo, CallIsTrue, Erased, At, Is
    <3>2. ASSUME lockFile' = writes[1].lock
          PROVE  MovesTo(c, "audit", {}) \/ MovesTo(c, "remove", {"artifact", "directory"}) =>
                     OwnRecordIsWritten(c)'
      <4>1. OwnWriteIsLast(c)
        BY <1>3, <3>0 DEF CallIsTrue
      <4>2. \A j \in 1 .. Len(writes) : writes[j].lock[Own(c)] = records[Own(c)]
        BY <1>2, <4>1 DEF OwnWriteIsLast
      <4> QED
        BY <1>2, <1>5, <2>1, <3>2, <4>2 DEF OwnRecordIsWritten, MovesTo, Own
    <3>3. CASE lockFile' = writes[1].lock /\ call[c].at = "write" /\ MovesTo(c, "audit", {})
      BY <1>4, <1>5, <2>4, <3>0, <3>2, <3>3 DEF CallIsTrue, MovesTo, Erased, OutcomeIs, At, Is, Own
    <3>4. CASE lockFile' = writes[1].lock /\ call[c].at = "erasing"
               /\ MovesTo(c, "remove", {"artifact", "directory"})
      BY <1>4, <1>5, <2>4, <3>0, <3>2, <3>4 DEF CallIsTrue, MovesTo, Erased, OutcomeIs, At, Is, Own
    <3> QED
      BY <1>6, <3>1, <3>3, <3>4
  <2> QED
    BY <2>3, <2>4
<1> QED
  BY <1>8, <1>9, <1>10 DEF SerialInv, CallsAreTrue

(* The process starts, and dies.                                           *)
LEMMA ProcessIsSerial ==
    ASSUME SerialInv, QueueInv',
           Start \/ Crash \/ \E p \in Plugins : LoadAtStart(p)
    PROVE  SerialInv'
<1>1. PluginTypeOK /\ PluginTypeOK'
  BY DEF SerialInv, QueueInv
<1>2. ASSUME \A c \in Calls : call'[c] = Idle, Len(writes') = 0
      PROVE  /\ OneChangeAtATime' /\ PlacesFitKinds' /\ RemovalsAreWaitedFor'
             /\ CallsAreTrue'
             /\ \A c \in Calls : ~ GoesOn(c)'
  BY <1>2
     DEF OneChangeAtATime, PlacesFitKinds, PlacesOf, RemovalsAreWaitedFor, CallsAreTrue,
         Alone, Changing, Is, Idle, GoesOn, Early
<1>3. CASE Start
  <2>1. (\A c \in Calls : call'[c] = Idle) /\ Len(writes') = 0 /\ server = "down"
    BY <1>3 DEF Start, SerialInv, QueueInv
  <2>2. CallsFollowTheStart'
    BY <1>1, <1>2, <1>3, <2>1
       DEF Start, SerialInv, CallsFollowTheStart, PluginTypeOK
  <2>3. RecordsHaveFiles' /\ LoadedIsRecorded'
    BY <1>3, <2>1 DEF Start, SerialInv, RecordsHaveFiles, LoadedIsRecorded, disk
  <2> QED
    BY <1>2, <2>1, <2>2, <2>3 DEF SerialInv
<1>4. CASE Crash
  <2>1. (\A c \in Calls : call'[c] = Idle) /\ Len(writes') = 0
    BY <1>4 DEF Crash
  <2>2. CallsFollowTheStart' /\ RecordsHaveFiles' /\ LoadedIsRecorded'
    BY <1>2, <1>4, <2>1
       DEF Crash, SerialInv, CallsFollowTheStart, RecordsHaveFiles, LoadedIsRecorded, disk
  <2> QED
    BY <1>2, <2>1, <2>2 DEF SerialInv
<1>5. ASSUME NEW p \in Plugins, LoadAtStart(p)
      PROVE  SerialInv'
  <2>1. /\ server = "starting" /\ records[p] = "enabled"
        /\ server' \in {"up", "starting", "failed"}
        /\ unread' \subseteq unread /\ (unread' # {} => server' = "starting")
        /\ UNCHANGED <<records, writes, lockFile, staged, activated, call, disturbed>>
        /\ loaded' = [loaded EXCEPT ![p] = "hooks"] \/ loaded' = loaded
    BY <1>5 DEF LoadAtStart, SerialInv, CallsFollowTheStart, disk
  <2>2. \A c \in Calls : ~ GoesOn(c)'
    BY <2>1 DEF SerialInv, CallsFollowTheStart, GoesOn, Is
  <2>3. CallsAreTrue'
    <3>1. ASSUME NEW c \in Calls
          PROVE  CallIsTrue(c)'
      BY <2>1, <2>2 DEF GoesOn, Early, CallIsTrue, Erased, At, Is, SerialInv, PlacesFitKinds, PlacesOf
    <3> QED
      BY <3>1 DEF CallsAreTrue
  <2>4. CallsFollowTheStart'
    BY <2>1, <2>2 DEF SerialInv, CallsFollowTheStart
  <2>5. RecordsHaveFiles' /\ LoadedIsRecorded'
    BY <1>1, <2>1 DEF SerialInv, RecordsHaveFiles, LoadedIsRecorded, PluginTypeOK
  <2> QED
    BY <2>1, <2>3, <2>4, <2>5
       DEF SerialInv, OneChangeAtATime, PlacesFitKinds, RemovalsAreWaitedFor, Alone, Calm,
           Changing, Own, Is
<1> QED
  BY <1>3, <1>4, <1>5

(* Requests and answers.                                                   *)
LEMMA ClientIsSerial ==
    ASSUME SerialInv, QueueInv', NEW c \in Calls,
           Answer(c) \/ \E kind \in Kinds, p \in Plugins : Begin(c, kind, p)
    PROVE  SerialInv'
<1>1. PluginTypeOK /\ call[c] \in CallStates
  BY DEF SerialInv, QueueInv, PluginTypeOK
<1>2. /\ UNCHANGED <<records, loaded, writes, lockFile, staged, activated, server, unread>>
      /\ \A d \in Calls : d # c => call'[d] = call[d]
      /\ disturbed \subseteq disturbed'
  BY <1>1 DEF Answer, Begin, memory, disk, process, PluginTypeOK
<1>3. /\ call'[c].at \in Early /\ call'[c].left = {}
      /\ call'[c].at \in PlacesOf(call'[c].kind)
  BY <1>1 DEF Answer, Begin, PluginTypeOK, PlacesOf, Kinds, Idle, Early
<1>4. ASSUME NEW d \in Calls, d # c, Changing(c)', Changing(d), call'[c].plugin = Own(d)
      PROVE  Own(d) \in disturbed'
  <2>1. PICK kind \in Kinds, p \in Plugins : Begin(c, kind, p)
    BY <1>1, <1>4 DEF Answer, Changing, PluginTypeOK, Idle
  <2>2. call'[c].kind = kind /\ call'[c].plugin = p
    BY <1>1, <2>1 DEF Begin, PluginTypeOK
  <2> QED
    BY <1>4, <2>1, <2>2 DEF Begin, Changing, Own
<1>5. OneChangeAtATime'
  <2>1. ASSUME NEW d \in Calls, NEW e \in Calls, Alone(d)', Changing(e)', d # e
        PROVE  Own(d)' # Own(e)'
    <3>1. CASE d = c
      BY <1>2, <1>4, <2>1, <3>1 DEF Alone, Calm, Own, Changing
    <3>2. CASE e = c
      BY <1>2, <1>4, <2>1, <3>2 DEF Alone, Calm, Own, Changing
    <3>3. CASE d # c /\ e # c
      BY <1>2, <2>1, <3>3 DEF SerialInv, OneChangeAtATime, Alone, Calm, Own, Changing
    <3> QED
      BY <3>1, <3>2, <3>3
  <2> QED
    BY <2>1 DEF OneChangeAtATime
<1>6. PlacesFitKinds' /\ RemovalsAreWaitedFor' /\ CallsFollowTheStart'
  BY <1>2, <1>3
     DEF SerialInv, PlacesFitKinds, RemovalsAreWaitedFor, CallsFollowTheStart, GoesOn, Early, Is
<1>7. RecordsHaveFiles' /\ LoadedIsRecorded'
  BY <1>2 DEF SerialInv, RecordsHaveFiles, LoadedIsRecorded
<1>8. ASSUME NEW d \in Calls, Alone(d)'
      PROVE  CallIsTrue(d)'
  <2>1. CASE d = c
    BY <1>3, <2>1 DEF Early, CallIsTrue, Erased, At, Is
  <2>2. CASE d # c
    <3>1. call'[d] = call[d] /\ CallIsTrue(d)
      BY <1>2, <1>8, <2>2 DEF Alone, Calm, Own, Changing, SerialInv, CallsAreTrue
    <3> QED
      BY <1>2, <3>1
         DEF CallIsTrue, OutcomeIs, Erased, At, Is, Own, OwnWriteIsLast, OwnRecordIsWritten
  <2> QED
    BY <2>1, <2>2
<1> QED
  BY <1>5, <1>6, <1>7, <1>8 DEF SerialInv, CallsAreTrue

LEMMA SerialStep ==
    ASSUME PluginsAssumption, SerialInv, [Next]_pluginVars
    PROVE  SerialInv'
<1>1. QueueInv'
  BY QueueStep DEF SerialInv
<1>2. CASE UNCHANGED pluginVars
  BY <1>1, <1>2
     DEF SerialInv, pluginVars, memory, disk, process, OneChangeAtATime, PlacesFitKinds,
         RemovalsAreWaitedFor, CallsFollowTheStart, GoesOn, RecordsHaveFiles, LoadedIsRecorded,
         CallsAreTrue, CallIsTrue, OutcomeIs, Erased, At, Is, Own, Alone, Calm, Changing,
         OwnWriteIsLast,
         OwnRecordIsWritten
<1>3. CASE WriteLock
  BY <1>1, <1>3, WriteIsSerial
<1>4. CASE Start \/ Crash \/ \E p \in Plugins : LoadAtStart(p)
  BY <1>1, <1>4, ProcessIsSerial
<1>5. ASSUME NEW c \in Calls, HostStep(c) \/ PluginStep(c)
      PROVE  SerialInv'
  <2>1. CASE \/ Review(c) \/ Stage(c) \/ Build(c) \/ Record(c)
             \/ LookLoaded(c) \/ Enter(c) \/ Entered(c)
             \/ Release(c) \/ Dispose(c) \/ Unload(c) \/ Audit(c)
    <3>1. Changing(c)
      BY <2>1
         DEF Review, Stage, Build, Record, LookLoaded, Enter, Entered, Release, Dispose,
             Unload, Audit, At, SerialInv, PlacesFitKinds, PlacesOf, Changing
    <3> QED
      BY <1>1, <2>1, <3>1, ChangingSteps, DisturbedSteps DEF Alone
  <2> QED
    BY <1>1, <1>5, <2>1, QuietSteps, RemovalIsSerial DEF HostStep, PluginStep
<1>6. ASSUME NEW c \in Calls,
             Answer(c) \/ \E kind \in Kinds, p \in Plugins : Begin(c, kind, p)
      PROVE  SerialInv'
  BY <1>1, <1>6, ClientIsSerial
<1> QED
  BY <1>2, <1>3, <1>4, <1>5, <1>6 DEF Next

LEMMA SerialInvHolds ==
    ASSUME PluginsAssumption PROVE PluginSpec => []SerialInv
<1>1. Init /\ QueueInv => SerialInv
  BY DEF Init, SerialInv, OneChangeAtATime, PlacesFitKinds, PlacesOf, RemovalsAreWaitedFor,
         CallsFollowTheStart, GoesOn, RecordsHaveFiles, LoadedIsRecorded, CallsAreTrue, Alone,
         Changing, Idle, Early
<1>2. SerialInv /\ [Next]_pluginVars => SerialInv'
  BY SerialStep
<1> QED
  BY QueueInvHolds, <1>1, <1>2, PTL DEF PluginSpec

(* Whenever the server dies, in the middle of any calls about any plugins, *)
(* and whatever failed before, every plugin the lock file names has its    *)
(* activation directory, unless two calls have changed that plugin at once.*)
THEOREM FilesOutliveTheirRecords ==
    ASSUME PluginsAssumption PROVE PluginSpec => []LockedPluginsHaveFiles
<1>1. SerialInv => LockedPluginsHaveFiles
  BY DEF SerialInv, RecordsHaveFiles, LockedPluginsHaveFiles
<1> QED
  BY SerialInvHolds, <1>1, PTL

(* A successful answer is true of memory and of the disk, although calls   *)
(* about other plugins, which write the same lock file, go on and overlap  *)
(* beside it, unless two calls have changed this plugin at once.           *)
THEOREM AnswersAreTrue ==
    ASSUME PluginsAssumption PROVE PluginSpec => []SuccessIsDurable
<1>1. ASSUME SerialInv
      PROVE  SuccessIsDurable
  <2>1. ASSUME NEW c \in Calls, At(c, "done"), call[c].plugin \notin disturbed
        PROVE  AnswerIsTrue(c)
    <3>1. /\ Own(c) \in Plugins /\ call[c].left = {}
          /\ call[c].kind # "invoke" => CallIsTrue(c)
          /\ call[c].kind \in Kinds
      BY <1>1, <2>1, CallFacts DEF At, Alone, Calm, Own
    <3>2. CASE Is(c, "invoke") \/ Is(c, "review")
      BY <3>2 DEF AnswerIsTrue, Is
    <3>3. CASE ~ Is(c, "invoke") /\ ~ Is(c, "review")
      <4>1. CallIsTrue(c) /\ OwnRecordIsWritten(c)
        BY <2>1, <3>1, <3>3 DEF Is, CallIsTrue, At
      <4>2. Own(c) \notin activated => records[Own(c)] = "none"
        BY <1>1, <2>1, <3>1 DEF SerialInv, RecordsHaveFiles, Own
      <4> QED
        BY <2>1, <3>1, <4>1, <4>2
           DEF AnswerIsTrue, CallIsTrue, OutcomeIs, OwnRecordIsWritten, Erased, At, Is, Own
    <3> QED
      BY <3>2, <3>3
  <2> QED
    BY <2>1 DEF SuccessIsDurable
<1> QED
  BY SerialInvHolds, <1>1, PTL

================================================================================
