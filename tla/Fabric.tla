------------------------------- MODULE Fabric -------------------------------
(***************************************************************************)
(* app.Fabric: how the state of the services gets to disk and back.  The    *)
(* state of a service is a version number: a service changes it and sends a *)
(* heartbeat, Fabric.sync notes it and, when its ticker fires, starts a     *)
(* goroutine that flushes the services that changed.  The process may be    *)
(* killed between any two steps and is then started again: its services are *)
(* started before Fabric.sync is, and stand at their first heartbeat.       *)
(*                                                                          *)
(* A service may also change its state and send no heartbeat: probe's       *)
(* handleScheduled and handleReverify, handleReply and forceReanimate of a   *)
(* shard.  Such a change waits for the next heartbeat of its service.        *)
(*                                                                          *)
(* A flush of a service is taken to end before its next one is started: the  *)
(* ticker leaves it a minute, and sync starts it without waiting.            *)
(***************************************************************************)
EXTENDS Startup

CONSTANTS
  Services,   \* the factories whose products have a state to save
  MaxChanges, \* bound of the version numbers
  MaxCrashes  \* bound of the times the process is killed

ASSUME FabricAssumption ==
  /\ Services \subseteq Factories
  /\ {MaxChanges, MaxCrashes} \subseteq Nat

VARIABLES
  live,     \* service -> version in memory
  announced, \* service -> last version that this process sent a heartbeat for
  beating,  \* services that stand at a heartbeat
  dirty,    \* services whose "flushed" is not after "updated"
  flushing, \* service -> pc of its flush goroutine
  db, bak,  \* service -> content of its file and of its backup
  durable,  \* service -> version of its last completed flush
  latest,   \* service -> last version number given out
  loaded,   \* services that loadState is done with
  failed,   \* services whose last flush failed
  refused,  \* services of which, since their last completed flush, the disk
            \* refused to rename the file or to take the whole of it
  crashes

flushVars == <<live, announced, beating, dirty, flushing, db, bak, durable, latest, loaded,
               failed, refused, crashes>>
vars == <<flushVars, startupVars>>

\* Of a file: it does not exist; it cannot be decoded.
None == -2
Partial == -1

Content == {None, Partial} \cup (0..MaxChanges)

PCs == {"none", "rename", "create", "encode"}

Init ==
  /\ StartupInit
  /\ loaded = {}
  /\ failed = {}
  /\ refused = {}
  /\ live = [s \in Services |-> 0]
  /\ announced = [s \in Services |-> 0]
  /\ beating = {}
  /\ dirty = {}
  /\ flushing = [s \in Services |-> "none"]
  /\ db = [s \in Services |-> None]
  /\ bak = [s \in Services |-> None]
  /\ durable = [s \in Services |-> 0]
  /\ latest = [s \in Services |-> 0]
  /\ crashes = 0

disk == <<db, bak, durable>>
rest == <<loaded, failed, refused, crashes, startupVars>>

\* The goroutine of a service changes its state; most changes call Heartbeat.
change(s) ==
  /\ s \in Started /\ s \notin beating /\ latest[s] < MaxChanges
  /\ live' = [live EXCEPT ![s] = latest[s] + 1]
  /\ latest' = [latest EXCEPT ![s] = @ + 1]
  /\ \/ beating' = beating \cup {s} /\ announced' = [announced EXCEPT ![s] = latest[s] + 1]
     \/ UNCHANGED <<beating, announced>>
  /\ UNCHANGED <<dirty, flushing, disk, rest>>

\* Fabric.sync receives it.
Heartbeat(s) ==
  /\ phase = "run" /\ s \in beating
  /\ beating' = beating \ {s}
  /\ dirty' = dirty \cup {s}
  /\ UNCHANGED <<live, announced, flushing, disk, latest, rest>>

\* Mutant of sync: everything is marked flushed, and one service is flushed.
syncOne ==
  /\ phase = "run" /\ dirty # {} /\ \A s \in dirty : flushing[s] = "none"
  /\ \E s \in dirty : flushing' = [flushing EXCEPT ![s] = "rename"]
  /\ dirty' = {}
  /\ UNCHANGED <<live, announced, beating, disk, latest, rest>>

\* syncTrigger fires.
sync ==
  /\ phase = "run" /\ dirty # {} /\ \A s \in dirty : flushing[s] = "none"
  /\ flushing' = [s \in Services |-> IF s \in dirty THEN "rename" ELSE flushing[s]]
  /\ dirty' = {}
  /\ UNCHANGED <<live, announced, beating, disk, latest, rest>>

flushAt(s, pc, next) == flushing[s] = pc /\ flushing' = [flushing EXCEPT ![s] = next]

\* The file becomes the backup.  If os.Rename fails, flush goes on with the
\* file where it is.
flushRename(s) ==
  /\ flushAt(s, "rename", "create")
  /\ \/ db[s] = None /\ UNCHANGED <<db, bak, refused>>
     \/ /\ db[s] # None
        /\ db' = [db EXCEPT ![s] = None] /\ bak' = [bak EXCEPT ![s] = db[s]]
        /\ UNCHANGED refused
     \/ /\ db[s] # None
        /\ refused' = refused \cup {s}
        /\ UNCHANGED <<db, bak>>
  /\ UNCHANGED <<live, announced, beating, dirty, durable, latest, loaded, failed, crashes,
                 startupVars>>

\* os.Create makes the file, or truncates it.
flushCreate(s) ==
  /\ flushAt(s, "create", "encode")
  /\ db' = [db EXCEPT ![s] = Partial]
  /\ UNCHANGED <<live, announced, beating, dirty, bak, durable, latest, rest>>

\* os.MkdirAll or os.Create fails: the goroutine ends, and the service stays
\* marked flushed.
flushFail(s) ==
  /\ flushAt(s, "rename", "none") \/ flushAt(s, "create", "none")
  /\ failed' = failed \cup {s}
  /\ UNCHANGED <<live, announced, beating, dirty, disk, latest, loaded, refused, crashes,
                 startupVars>>

\* The service answers with a snapshot when it does not stand at a heartbeat.
\* If Encode fails, it leaves what it wrote, and the service marked flushed.
flushEncode(s) ==
  /\ flushAt(s, "encode", "none") /\ s \notin beating
  /\ \/ /\ db' = [db EXCEPT ![s] = live[s]]
        /\ durable' = [durable EXCEPT ![s] = live[s]]
        /\ failed' = failed \ {s} /\ refused' = refused \ {s}
     \/ /\ failed' = failed \cup {s} /\ refused' = refused \cup {s}
        /\ UNCHANGED <<db, durable>>
  /\ UNCHANGED <<live, announced, beating, dirty, bak, latest, loaded, crashes, startupVars>>

\* Mutants of load: the backup is never looked at; errors are ignored.
loadOnly(s) == IF db[s] >= 0 THEN db[s] ELSE 0
loadUnchecked(s) == IF db[s] # None THEN db[s] ELSE 0

\* What load decodes; nothing to decode is the empty state.
load(s) == IF db[s] >= 0 THEN db[s] ELSE IF bak[s] >= 0 THEN bak[s] ELSE 0

\* One round of loadState, in any order; then the services are started.
loadState(s) ==
  /\ phase = "load" /\ s \in Services \ loaded
  /\ live' = [live EXCEPT ![s] = load(s)]
  /\ loaded' = loaded \cup {s}
  /\ UNCHANGED <<announced, beating, dirty, flushing, disk, latest, failed, refused, crashes,
                 startupVars>>

loadDone ==
  /\ phase = "load" /\ loaded = Services
  /\ phase' = "start"
  /\ UNCHANGED <<flushVars, In, indegree, queue, order, at>>

\* The process is killed, or has given up, and is started again.
Restart ==
  /\ crashes < MaxCrashes
  /\ crashes' = crashes + 1
  /\ live' = [s \in Services |-> 0]
  /\ announced' = [s \in Services |-> 0]
  /\ beating' = {}
  /\ dirty' = {}
  /\ flushing' = [s \in Services |-> "none"]
  /\ loaded' = {}
  /\ failed' = {}
  /\ Starting
  /\ UNCHANGED <<disk, latest, refused, In>>

startup == StartupNext /\ UNCHANGED flushVars

flush(s) == flushRename(s) \/ flushCreate(s) \/ flushFail(s) \/ flushEncode(s)

Next ==
  \/ \E s \in Services : change(s) \/ Heartbeat(s) \/ flush(s) \/ loadState(s)
  \/ sync
  \/ startup
  \/ loadDone
  \/ Restart

Spec == Init /\ [][Next]_vars

\* The ticker fires, and goroutines that can step do.
FairSpec ==
  /\ Spec
  /\ WF_vars(startup \/ loadDone \/ \E s \in Services : loadState(s))
  /\ WF_vars(sync)
  /\ \A s \in Services : WF_vars(Heartbeat(s)) /\ WF_vars(flush(s))
----------------------------------------------------------------------------
TypeOK ==
  /\ StartupTypeOK
  /\ loaded \subseteq Services
  /\ failed \subseteq Services /\ refused \subseteq Services
  /\ live \in [Services -> 0..MaxChanges]
  /\ announced \in [Services -> 0..MaxChanges]
  /\ beating \subseteq Services
  /\ dirty \subseteq Services
  /\ flushing \in [Services -> PCs]
  /\ db \in [Services -> Content]
  /\ bak \in [Services -> Content]
  /\ durable \in [Services -> 0..MaxChanges]
  /\ latest \in [Services -> 0..MaxChanges]
  /\ crashes \in 0..MaxCrashes

\* A restart brings back at least what the last completed flush of every
\* service wrote, wherever in a later flush the process was killed or failed to
\* create the file (README.md:11, "Intelligently stores state on disk across
\* restarts"); except for a service of which the disk refused a rename or a part
\* of the file since.
RestartKeepsFlushed ==
  [][\A s \in loaded' \ loaded : s \in refused \/ live'[s] >= durable[s]]_vars

\* A change that a heartbeat announces, and the silent ones before it, reach the
\* disk unless the process is killed first or the flush fails, which nothing
\* tries again before the next heartbeat: no such change falls between the
\* heartbeat, the ticker and a flush that is under way, also if the service sends
\* its heartbeat before Fabric.sync is running.
ChangesReachDisk ==
  \A s \in Services : \A n \in 1..MaxChanges :
    announced[s] = n ~> durable[s] >= n \/ announced[s] < n \/ s \in failed
=============================================================================
