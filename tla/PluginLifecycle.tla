---------------------------- MODULE PluginLifecycle ----------------------------
(***************************************************************************)
(* The life of trusted plugins in the web server: review, install, enable, *)
(* disable, uninstall and invoke of apps/web-server/src/plugin-manager.ts, *)
(* over the lock file (plugin-lock-store.ts) and the artifact store        *)
(* (plugin-artifact-store.ts).                                             *)
(*                                                                         *)
(* A call is one request of a client, each action what the manager does    *)
(* between two awaits of it, so that calls interleave at every await.      *)
(* Writes of the lock file, the files of a plugin and the records of the   *)
(* audit log may fail; the server may die and start again from what is on  *)
(* disk.  A plugin's version, grant and contributions never change here    *)
(* (an installed plugin is not updated), so a record is whether its plugin *)
(* is enabled.                                                             *)
(***************************************************************************)
EXTENDS Naturals, Sequences, FiniteSets

CONSTANTS
    Plugins,
    None,           \* no plugin
    Calls,          \* requests that may be in flight at a time
    Failing,        \* the file operations that may fail
    MaxFailures,    \* bound on how many of them do
    MaxCrashes      \* bound on deaths of the server

ASSUME PluginsAssumption ==
    /\ None \notin Plugins
    /\ Failing \subseteq {"artifact", "lock", "audit", "removal"}
    /\ MaxFailures \in Nat
    /\ MaxCrashes \in Nat

VARIABLES
    records,    \* the manager's lock records, by plugin
    loaded,     \* its loaded plugins; "hollow" is an entry without hooks
    writes,     \* lock files waiting in the store's queue
    lockFile,   \* what plugins.lock.json says
    staged,     \* plugins whose verified artifact is on disk
    activated,  \* plugins whose activation directory is on disk
    server,     \* the state of the process
    unread,     \* enabled plugins a start has yet to load
    call,       \* what each request is doing
    failures,
    crashes,
    disturbed   \* history: plugins that two calls were changing at once

memory == <<records, loaded>>
disk   == <<staged, activated>>
process == <<server, unread, crashes, disturbed>>
pluginVars == <<memory, writes, lockFile, disk, process, call, failures>>

Locks == [Plugins -> {"none", "disabled", "enabled"}]

Kinds == {"review", "install", "enable", "disable", "uninstall", "invoke"}

Idle == [kind |-> "none", plugin |-> None, at |-> "idle", left |-> {}]

(* Where a call is; "done" and "rejected" are its answers.                 *)
Places == {"idle", "done", "rejected", "ready",
           "stage", "check", "unpack", "place", "build", "record",
           "look", "import", "enter", "entered",
           "unload", "release", "dispose", "erasing", "remove",
           "lookup", "run", "write", "audit", "close"}

CallStates ==
    {Idle} \union [kind : Kinds, plugin : Plugins, at : Places \ {"idle"},
                   left : SUBSET {"artifact", "directory"}]

LockWrites == [lock : Locks, by : Calls]

PluginTypeOK ==
    /\ records \in Locks
    /\ loaded \in [Plugins -> {"no", "hooks", "hollow"}]
    /\ writes \in Seq(LockWrites)
    /\ lockFile \in Locks
    /\ staged \subseteq Plugins
    /\ activated \subseteq Plugins
    /\ server \in {"down", "starting", "up", "failed"}
    /\ unread \subseteq Plugins
    /\ call \in [Calls -> CallStates]
    /\ failures \in 0 .. MaxFailures
    /\ crashes \in 0 .. MaxCrashes
    /\ disturbed \subseteq Plugins

-----------------------------------------------------------------------------
(* Moves of a call.                                                        *)

At(c, place) == call[c].at = place
Is(c, kind)  == call[c].kind = kind

Goto(c, place) == call' = [call EXCEPT ![c].at = place]
Reject(c)      == Goto(c, "rejected")

(* One more file operation fails.                                          *)
Fails(operation) ==
    /\ operation \in Failing
    /\ failures < MaxFailures
    /\ failures' = failures + 1

InProgress(c) == call[c].at \notin {"idle", "done", "rejected"}

(* Bug variant: what is queued is what the records were before the change. *)
PersistFirst(c, next) ==
    /\ records' = next
    /\ writes' = Append(writes, [lock |-> records, by |-> c])

(* persist: the records as they are now join the store's queue, and the    *)
(* call waits for its turn.                                                *)
Persist(c, next) ==
    /\ records' = next
    /\ writes' = Append(writes, [lock |-> next, by |-> c])

-----------------------------------------------------------------------------
(* Requests.  Nothing serializes them but what install does for itself: a  *)
(* client may change a plugin while another call still is changing it, or  *)
(* while a failed uninstall still removes files.                           *)

Changing(c) == call[c].kind \notin {"none", "invoke"}

Begin(c, kind, p) ==
    /\ server # "down"
    /\ At(c, "idle")
    /\ call' = [call EXCEPT ![c] =
           [kind |-> kind, plugin |-> p, left |-> {},
            at |-> IF kind \in {"review", "install"} THEN "stage" ELSE "ready"]]
    /\ disturbed' =
           IF kind # "invoke" /\ \E d \in Calls : Changing(d) /\ call[d].plugin = p
           THEN disturbed \union {p} ELSE disturbed
    /\ UNCHANGED <<memory, writes, lockFile, disk, server, unread, crashes, failures>>

(* The client has its answer, and what the call left running has ended.    *)
Answer(c) ==
    /\ call[c].at \in {"done", "rejected"}
    /\ call[c].left = {}
    /\ call' = [call EXCEPT ![c] = Idle]
    /\ UNCHANGED <<memory, writes, lockFile, disk, process, failures>>

(* Bug variant: `ready` settles only when the start has succeeded.         *)
GetRecordWhenUp(c) ==
    /\ At(c, "ready")
    /\ server = "up"
    /\ Goto(c, IF records[call[c].plugin] = "none" THEN "rejected"
               ELSE CASE Is(c, "enable")    -> "look"
                      [] Is(c, "disable")   -> "release"
                      [] Is(c, "uninstall") -> "unload"
                      [] OTHER              -> "lookup")
    /\ UNCHANGED <<memory, writes, lockFile, disk, process, failures>>

(* getRecord: after the start, of an installed plugin only.                *)
GetRecord(c) ==
    /\ At(c, "ready")
    /\ server \in {"up", "failed"}
    /\ LET next == CASE Is(c, "enable")    -> "look"
                     [] Is(c, "disable")   -> "release"
                     [] Is(c, "uninstall") -> "unload"
                     [] Is(c, "invoke")    -> "lookup"
                     [] OTHER              -> "rejected"
       IN  IF server = "up" /\ records[call[c].plugin] # "none"
           THEN Goto(c, next) ELSE Reject(c)
    /\ UNCHANGED <<memory, writes, lockFile, disk, process, failures>>

-----------------------------------------------------------------------------
(* installReview and install                                               *)

(* repository.stage puts the verified artifact of a plugin on disk; what   *)
(* is checked after that may refuse the call all the same.                 *)
StageArtifact(c, next) ==
    LET with == staged \union {call[c].plugin} IN
    \/ Goto(c, next) /\ staged' = with
    \/ Reject(c) /\ staged' \in {staged, with}

(* installReview, which takes turns with nothing that is about the plugin. *)
Review(c) ==
    /\ At(c, "stage") /\ Is(c, "review")
    /\ StageArtifact(c, "done")
    /\ UNCHANGED <<memory, writes, lockFile, activated, process, failures>>

(* serializePluginOperation: installs of one plugin take turns.            *)
Installing(c) == Is(c, "install") /\ InProgress(c) /\ ~At(c, "stage")

Stage(c) ==
    /\ At(c, "stage") /\ Is(c, "install")
    /\ \A d \in Calls : Installing(d) => call[d].plugin # call[c].plugin
    /\ StageArtifact(c, "check")
    /\ UNCHANGED <<memory, writes, lockFile, activated, process, failures>>

CheckAbsent(c) ==
    /\ At(c, "check")
    /\ server \in {"up", "failed"}
    /\ IF server = "up" /\ records[call[c].plugin] = "none"
       THEN Goto(c, "unpack") ELSE Reject(c)
    /\ UNCHANGED <<memory, writes, lockFile, disk, process, failures>>

(* activate reads the artifact and refuses what does not fit its target,   *)
(* its manifest or the grant; then it looks for the directory, and makes it*)
Unpack(c) ==
    /\ At(c, "unpack")
    /\ \/ call[c].plugin \in staged /\ Goto(c, "place")
       \/ Reject(c)
    /\ UNCHANGED <<memory, writes, lockFile, disk, process, failures>>

Place(c) ==
    /\ At(c, "place")
    /\ Goto(c, IF call[c].plugin \in activated THEN "record" ELSE "build")
    /\ UNCHANGED <<memory, writes, lockFile, disk, process, failures>>

Build(c) ==
    /\ At(c, "build")
    /\ \/ Goto(c, "record") /\ activated' = activated \union {call[c].plugin}
          /\ UNCHANGED failures
       \/ Reject(c) /\ Fails("artifact") /\ UNCHANGED activated
    /\ UNCHANGED <<memory, writes, lockFile, staged, process>>

Record(c) ==
    /\ At(c, "record")
    /\ Persist(c, [records EXCEPT ![call[c].plugin] = "disabled"])
    /\ Goto(c, "write")
    /\ UNCHANGED <<loaded, lockFile, disk, process, failures>>

-----------------------------------------------------------------------------
(* enable                                                                  *)

(* The record read before the load is written back, whatever became of it, *)
(* and so is the loaded entry: `{ ...loaded.get(pluginId)!, record }` of   *)
(* an entry that is gone has no hooks.                                     *)
SwitchOn(c) ==
    LET p == call[c].plugin IN
    /\ Persist(c, [records EXCEPT ![p] = "enabled"])
    /\ loaded' = [loaded EXCEPT ![p] = IF @ = "no" THEN "hollow" ELSE @]

LookLoaded(c) ==
    /\ At(c, "look")
    /\ IF loaded[call[c].plugin] = "no"
       THEN Goto(c, "import") /\ UNCHANGED <<memory, writes>>
       ELSE Goto(c, "write") /\ SwitchOn(c)
    /\ UNCHANGED <<lockFile, disk, process, failures>>

(* The module is read from the activation directory and its factory        *)
(* called; either may fail.                                                *)
Import(c) ==
    /\ At(c, "import")
    /\ \/ call[c].plugin \in activated /\ Goto(c, "enter")
       \/ Reject(c)
    /\ UNCHANGED <<memory, writes, lockFile, disk, process, failures>>

(* Its commands are compared with the reviewed ones before it is entered.  *)
Enter(c) ==
    /\ At(c, "enter")
    /\ \/ Goto(c, "entered") /\ loaded' = [loaded EXCEPT ![call[c].plugin] = "hooks"]
       \/ Reject(c) /\ UNCHANGED loaded
    /\ UNCHANGED <<records, writes, lockFile, disk, process, failures>>

(* load's own audit record comes between the load and the switch.          *)
Entered(c) ==
    /\ At(c, "entered")
    /\ \/ Goto(c, "write") /\ SwitchOn(c) /\ UNCHANGED failures
       \/ Reject(c) /\ Fails("audit") /\ UNCHANGED <<memory, writes>>
    /\ UNCHANGED <<lockFile, disk, process>>

-----------------------------------------------------------------------------
(* disable, and uninstall, which disables a loaded plugin first            *)

SwitchOff(c) ==
    /\ Persist(c, [records EXCEPT ![call[c].plugin] = "disabled"])
    /\ Goto(c, "write")

(* A hollow entry has no hooks to look for a dispose hook in.              *)
Release(c) ==
    LET p == call[c].plugin IN
    /\ At(c, "release")
    /\ loaded' = [loaded EXCEPT ![p] = "no"]
    /\ \/ loaded[p] = "hooks" /\ Goto(c, "dispose") /\ UNCHANGED <<records, writes>>
       \/ loaded[p] = "hollow" /\ Reject(c) /\ UNCHANGED <<records, writes>>
       \/ loaded[p] = "no" /\ SwitchOff(c)
    /\ UNCHANGED <<lockFile, disk, process, failures>>

(* A dispose hook may throw, which is put on record.                       *)
Dispose(c) ==
    /\ At(c, "dispose")
    /\ \/ SwitchOff(c) /\ UNCHANGED failures
       \/ Reject(c) /\ Fails("audit") /\ UNCHANGED <<records, writes>>
    /\ UNCHANGED <<loaded, lockFile, disk, process>>

(* Bug variant: an uninstall removes the files and writes no lock file.    *)
EraseUnsaved(c) ==
    /\ records' = [records EXCEPT ![call[c].plugin] = "none"]
    /\ call' = [call EXCEPT ![c].at = "remove", ![c].left = {"artifact", "directory"}]
    /\ UNCHANGED writes

Erase(c) ==
    /\ Persist(c, [records EXCEPT ![call[c].plugin] = "none"])
    /\ Goto(c, "erasing")

(* manager.disable reads the record once more.                             *)
Unload(c) ==
    LET p == call[c].plugin IN
    /\ At(c, "unload")
    /\ \/ loaded[p] = "no" /\ Erase(c)
       \/ loaded[p] # "no" /\ records[p] # "none" /\ Goto(c, "release")
          /\ UNCHANGED <<records, writes>>
       \/ loaded[p] # "no" /\ records[p] = "none" /\ Reject(c)
          /\ UNCHANGED <<records, writes>>
    /\ UNCHANGED <<loaded, lockFile, disk, process, failures>>

(* Two removals side by side.  The first failure is the call's answer, and *)
(* does not stop the other removal.                                        *)
Remove(c, part) ==
    LET p == call[c].plugin IN
    /\ part \in call[c].left
    /\ \/ /\ call' = [call EXCEPT ![c].left = @ \ {part},
                                  ![c].at = IF At(c, "remove") /\ call[c].left = {part}
                                            THEN "close" ELSE @]
          /\ staged' = IF part = "artifact" THEN staged \ {p} ELSE staged
          /\ activated' = IF part = "directory" THEN activated \ {p} ELSE activated
          /\ UNCHANGED failures
       \/ /\ call' = [call EXCEPT ![c].left = @ \ {part},
                                  ![c].at = IF At(c, "remove") THEN "rejected" ELSE @]
          /\ Fails("removal")
          /\ UNCHANGED disk
    /\ UNCHANGED <<memory, writes, lockFile, process>>

-----------------------------------------------------------------------------
(* The lock store's queue, and the end of a call.                          *)

(* Bug variant: an uninstall answers without waiting for the removals.     *)
WrittenAndOut(c) ==
    call' = [call EXCEPT
        ![c].at = IF @ = "erasing" THEN "close" ELSE "audit",
        ![c].left = IF At(c, "erasing") THEN {"artifact", "directory"} ELSE {}]

(* Where a call goes when its lock file is written.                        *)
Written(c) ==
    call' = [call EXCEPT
        ![c].at = IF @ = "erasing" THEN "remove" ELSE "audit",
        ![c].left = IF At(c, "erasing") THEN {"artifact", "directory"} ELSE {}]

(* Writes happen one after the other, and a failed one lets the next pass. *)
(* A write fails before or after the file is replaced.                     *)
WriteLock ==
    /\ writes # <<>>
    /\ writes' = Tail(writes)
    /\ \/ lockFile' = Head(writes).lock /\ Written(Head(writes).by) /\ UNCHANGED failures
       \/ lockFile' \in {lockFile, Head(writes).lock} /\ Reject(Head(writes).by)
          /\ Fails("lock")
    /\ UNCHANGED <<memory, disk, process>>

(* The record of the change is the last await of the call, except of an    *)
(* uninstall, which has disabled its plugin and goes on.                   *)
Audit(c) ==
    /\ At(c, "audit")
    /\ \/ Is(c, "uninstall") /\ Erase(c) /\ UNCHANGED failures
       \/ ~Is(c, "uninstall") /\ Goto(c, "done") /\ UNCHANGED <<records, writes, failures>>
       \/ Reject(c) /\ Fails("audit") /\ UNCHANGED <<records, writes>>
    /\ UNCHANGED <<loaded, lockFile, disk, process>>

Close(c) ==
    /\ At(c, "close")
    /\ \/ Goto(c, "done") /\ UNCHANGED failures
       \/ Reject(c) /\ Fails("audit")
    /\ UNCHANGED <<memory, writes, lockFile, disk, process>>

-----------------------------------------------------------------------------
(* invoke                                                                  *)

(* The loaded plugins are looked at once: this one for the command, all of *)
(* them for the hooks called before it.  A hollow one throws either way.   *)
Lookup(c) ==
    /\ At(c, "lookup")
    /\ IF /\ loaded[call[c].plugin] = "hooks"
          /\ \A p \in Plugins : loaded[p] # "hollow"
       THEN Goto(c, "run") ELSE Reject(c)
    /\ UNCHANGED <<memory, writes, lockFile, disk, process, failures>>

(* The command and the hooks after it; the command may throw.              *)
Run(c) ==
    /\ At(c, "run")
    /\ Goto(c, "done") \/ Reject(c)
    /\ UNCHANGED <<memory, writes, lockFile, disk, process, failures>>

-----------------------------------------------------------------------------
(* The process.                                                            *)

Init ==
    /\ records = [p \in Plugins |-> "none"]
    /\ loaded = [p \in Plugins |-> "no"]
    /\ writes = <<>>
    /\ lockFile = records
    /\ staged = {} /\ activated = {}
    /\ server = "down" /\ unread = {}
    /\ call = [c \in Calls |-> Idle]
    /\ failures = 0 /\ crashes = 0 /\ disturbed = {}

(* `ready`: the lock file becomes the records, and its enabled plugins are *)
(* loaded.  A lock file that cannot be read leaves no plugin manager.      *)
Start ==
    /\ server = "down"
    /\ \/ /\ records' = lockFile
          /\ unread' = {p \in Plugins : lockFile[p] = "enabled"}
          /\ server' = IF unread' = {} THEN "up" ELSE "starting"
          /\ UNCHANGED failures
       \/ server' = "failed" /\ Fails("lock") /\ UNCHANGED <<records, unread>>
    /\ UNCHANGED <<loaded, writes, lockFile, disk, crashes, disturbed, call>>

(* A plugin that does not load is put on record and left out; if the record*)
(* cannot be written either, the whole start has failed.                   *)
LoadAtStart(p) ==
    /\ p \in unread
    /\ \/ p \in activated /\ loaded' = [loaded EXCEPT ![p] = "hooks"]
       \/ UNCHANGED loaded
    /\ \/ /\ unread' = unread \ {p}
          /\ server' = IF unread' = {} THEN "up" ELSE "starting"
          /\ UNCHANGED failures
       \/ unread' = {} /\ server' = "failed" /\ Fails("audit")
    /\ UNCHANGED <<records, writes, lockFile, disk, crashes, disturbed, call>>

(* The process dies, and with it everything but the files.                 *)
Crash ==
    /\ server # "down"
    /\ crashes < MaxCrashes
    /\ crashes' = crashes + 1
    /\ server' = "down"
    /\ unread' = {}
    /\ records' = [p \in Plugins |-> "none"]
    /\ loaded' = [p \in Plugins |-> "no"]
    /\ writes' = <<>>
    /\ call' = [c \in Calls |-> Idle]
    /\ UNCHANGED <<lockFile, disk, failures, disturbed>>

(* Steps that wait for the manager and its files only, and those that wait *)
(* for the code of a plugin as well.                                       *)
HostStep(c) ==
    \/ GetRecord(c)
    \/ Review(c) \/ Stage(c) \/ CheckAbsent(c) \/ Unpack(c) \/ Place(c) \/ Build(c) \/ Record(c)
    \/ LookLoaded(c) \/ Entered(c)
    \/ Release(c) \/ Unload(c) \/ Audit(c) \/ Close(c)
    \/ \E part \in {"artifact", "directory"} : Remove(c, part)
    \/ Lookup(c)

PluginStep(c) == Import(c) \/ Enter(c) \/ Dispose(c) \/ Run(c)

Next ==
    \/ Start \/ Crash \/ WriteLock
    \/ \E p \in Plugins : LoadAtStart(p)
    \/ \E c \in Calls : HostStep(c) \/ PluginStep(c) \/ Answer(c)
    \/ \E c \in Calls, kind \in Kinds, p \in Plugins : Begin(c, kind, p)

PluginSpec == Init /\ [][Next]_pluginVars

FairPluginSpec ==
    /\ PluginSpec
    /\ WF_pluginVars(WriteLock)
    /\ \A c \in Calls : WF_pluginVars(HostStep(c)) /\ SF_pluginVars(Stage(c))

-----------------------------------------------------------------------------
(* Properties.                                                             *)

(* Whenever the queue of the lock store runs dry with a write that         *)
(* succeeded, the file holds the records as they are then, in whichever    *)
(* order the calls changed them and whatever writes failed before.         *)
LockFollowsRecords ==
    [][writes # <<>> /\ writes' = <<>> /\ server' # "down"
          /\ call'[Head(writes).by].at # "rejected" => lockFile' = records']_pluginVars

(* At any moment the server may die: no lock file on disk names a plugin   *)
(* whose activation directory is not there.  It holds of a plugin until    *)
(* two calls change it at once, a failed uninstall that still removes files*)
(* included (plugin-manager.ts:940 takes turns with nothing: its removal   *)
(* may meet the files of an install); whatever happens to other plugins,   *)
(* in the same lock file, does not matter.                                 *)
LockedPluginsHaveFiles ==
    \A p \in Plugins \ disturbed : lockFile[p] # "none" => p \in activated

(* What a call that succeeded has said of its plugin.                      *)
AnswerIsTrue(c) ==
    LET p == call[c].plugin IN
    CASE Is(c, "install")   -> lockFile[p] = "disabled" /\ loaded[p] = "no" /\ p \in activated
      [] Is(c, "enable")    -> lockFile[p] = "enabled" /\ loaded[p] = "hooks"
      [] Is(c, "disable")   -> lockFile[p] = "disabled" /\ loaded[p] = "no"
      [] Is(c, "uninstall") -> lockFile[p] = "none" /\ loaded[p] = "no"
                               /\ p \notin staged \union activated
      [] OTHER              -> TRUE

(* An answer of success is true of memory and of disk: a restart finds     *)
(* what the client was told.  This too holds of a plugin until two calls   *)
(* change it at once: an enable writes back what a disable beside it has   *)
(* taken away (plugin-manager.ts:909), a review or an install stages the   *)
(* artifact that an uninstall beside it removes (:817).                    *)
SuccessIsDurable ==
    \A c \in Calls :
        At(c, "done") /\ call[c].plugin \notin disturbed => AnswerIsTrue(c)

(* The code of the plugin runs, or is awaited, in this call.               *)
InPluginCode(c) == call[c].at \in {"import", "enter", "dispose", "run"}

(* No call waits for ever on the manager: it ends, or a plugin's own code  *)
(* keeps it, in the call or in the start it waits for.                     *)
CallsEnd ==
    \A c \in Calls :
        InProgress(c) ~> ~InProgress(c) \/ InPluginCode(c) \/ server = "starting"

(* No call is about the plugin.                                            *)
Resting(p) == \A c \in Calls : InProgress(c) => call[c].plugin # p

(* A plugin that no call is about, and whose record says it is disabled,   *)
(* has no code in the process (docs/spec/21-runtime-plugin-system.md:58).  *)
(* It does not hold: load enters the plugin and then records that it did,  *)
(* and an enable whose audit record fails ends there.                      *)
DisabledHasNoCode ==
    \A p \in Plugins :
        server = "up" /\ records[p] = "disabled" /\ Resting(p) => loaded[p] = "no"

(* A command of a loaded plugin is never refused for what happened to      *)
(* another plugin (docs/spec/21-runtime-plugin-system.md:451).  It does    *)
(* not hold: a disable between the load and the rest of an enable leaves a *)
(* hollow entry, and every invoke stumbles over it.                        *)
FailuresAreIsolated ==
    [][\A c \in Calls :
          At(c, "lookup") /\ call'[c].at = "rejected" =>
              loaded[call[c].plugin] # "hooks"]_pluginVars
=============================================================================
