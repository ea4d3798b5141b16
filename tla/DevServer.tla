----------------------------- MODULE DevServer -----------------------------
(***************************************************************************)
(* The development server (cmd/sonolus-go/devserver.go): a goroutine that  *)
(* recompiles on file events, the directory watches it adds, the published *)
(* snapshot behind an RWMutex, and the requests that read it while the     *)
(* sources are being edited.                                               *)
(*                                                                         *)
(* A directory has a version, raised by every edit in it.  The version of  *)
(* the engine's own directory says which directories the engine is         *)
(* compiled from and which hold the data of its development levels.  One   *)
(* compilation is a reading of the whole disk: what the separate loads of  *)
(* its modes may mix is the subject of Compiler.                           *)
(***************************************************************************)
EXTENDS Naturals, FiniteSets

CONSTANTS
  Dirs,            \* source directories
  Root,            \* the directory of the engine package
  MaxVersion,      \* bound on the edits of a directory
  Replaceable,     \* directories the user may remove and create again, once
  QueueSize,       \* events the watcher holds; one more overflows it
  Sources,         \* directories of Go and embed files, by version of Root
  LevelDirs,       \* directories of level data, by version of Root
  Bad,             \* <<directory, version>> that does not load
  Misfit,          \* <<version of Root, directory, version>>: a level its engine rejects
  Clients,
  Nothing

Versions == 0..MaxVersion
Snapshots == [Dirs -> Versions]

ASSUME DevServerAssumption ==
  /\ Root \in Dirs /\ MaxVersion \in Nat /\ Replaceable \subseteq Dirs /\ QueueSize \in Nat \ {0}
  /\ Sources \in [Versions -> SUBSET Dirs] /\ LevelDirs \in [Versions -> SUBSET Dirs]
  /\ \A v \in Versions : Root \in Sources[v]
  /\ Bad \subseteq Dirs \X Versions
  /\ Misfit \subseteq Versions \X Dirs \X Versions

VARIABLES
  disk,         \* version of each directory
  recreated,    \* directories removed and created again
  watches,      \* directories the operating system watches
  watched,      \* devServer.watched
  pending,      \* events not yet received from watcher.Events
  loop,         \* where the recompiling goroutine is
  read,         \* the disk as the compiler read it
  readLevels,   \* the disk as LoadDevelopment read it
  added,        \* watches added since the compiler read the disk
  served,       \* devServer.state
  locking,      \* the goroutine waits in s.mu.Lock()
  client,       \* where each request is
  first         \* the snapshot each request found when it got the lock

env == <<disk, recreated>>
requests == <<client, first>>
vars == <<disk, recreated, watches, watched, pending, loop, read, readLevels, added,
          served, locking, client, first>>

Init ==
  /\ disk = [d \in Dirs |-> 0] /\ recreated = {}
  /\ watches = {} /\ watched = {} /\ pending = 0
  /\ loop = "compile"
  /\ read = disk /\ readLevels = disk
  /\ added = {}
  /\ served = Nothing
  /\ locking = FALSE
  /\ client = [c \in Clients |-> "idle"] /\ first = [c \in Clients |-> Nothing]

-----------------------------------------------------------------------------
(* The file system and the watcher *)

\* An event for d is queued; a full queue drops it and reports an error,
\* which the goroutine only logs.
Notify(d) ==
  pending' = IF d \in watches /\ pending < QueueSize THEN pending + 1 ELSE pending

Edit(d) ==
  /\ disk[d] < MaxVersion
  /\ disk' = [disk EXCEPT ![d] = @ + 1]
  /\ Notify(d)
  /\ UNCHANGED <<recreated, watches, watched, loop, read, readLevels, added,
                 served, locking, requests>>

\* d is removed and created again, with new contents: its watch is gone.
Recreate(d) ==
  /\ disk[d] < MaxVersion /\ d \in Replaceable \ recreated
  /\ disk' = [disk EXCEPT ![d] = @ + 1]
  /\ recreated' = recreated \cup {d}
  /\ Notify(d)
  /\ watches' = watches \ {d}
  /\ UNCHANGED <<watched, loop, read, readLevels, added, served, locking, requests>>

-----------------------------------------------------------------------------
(* recompile *)

Loads(snapshot) == \A d \in Sources[snapshot[Root]] : <<d, snapshot[d]>> \notin Bad
Uses(engine, levels) ==
  Sources[engine[Root]] \cup Sources[levels[Root]] \cup LevelDirs[levels[Root]]

\* level.Validate of every level against the artifacts just compiled.
FitsServed(levels) == \* mutant: against the artifacts being served
  served # Nothing => \A d \in LevelDirs[levels[Root]] :
    <<served.engine[Root], d, levels[d]>> \notin Misfit
Fits(levels) ==
  \A d \in LevelDirs[levels[Root]] : <<read[Root], d, levels[d]>> \notin Misfit

\* An error is logged, the snapshot stays; the first recompile ends the server.
Abort == loop' = IF served = Nothing THEN "exited" ELSE "idle"

Peek == \* mutant: the event stays in the queue
  /\ loop = "idle" /\ pending > 0
  /\ loop' = "compile"
  /\ UNCHANGED <<env, watches, watched, pending, read, readLevels, added, served, locking, requests>>
Receive ==
  /\ loop = "idle" /\ pending > 0
  /\ pending' = pending - 1
  /\ loop' = "compile"
  /\ UNCHANGED <<env, watches, watched, read, readLevels, added, served, locking, requests>>

\* CompileAll and PackageArtifacts, up to the first watchFiles.
Compile ==
  /\ loop = "compile"
  /\ read' = disk /\ added' = {}
  /\ IF Loads(disk) THEN loop' = "watch" ELSE Abort
  /\ UNCHANGED <<env, watches, watched, pending, readLevels, served, locking, requests>>

\* watchFiles: the directories not in the map are added one by one.
SourceDirs == Sources[read[Root]]
DevelopmentSources == Sources[readLevels[Root]] \* mutant: the level data is forgotten
DevelopmentDirs == Sources[readLevels[Root]] \cup LevelDirs[readLevels[Root]]
Wanted == IF loop = "watch" THEN SourceDirs ELSE DevelopmentDirs

Watch(d) ==
  /\ loop \in {"watch", "watchLevels"}
  /\ d \in Wanted \ watched
  /\ watches' = watches \cup {d}
  /\ watched' = watched \cup {d}
  /\ added' = added \cup {d}
  /\ UNCHANGED <<env, pending, loop, read, readLevels, served, locking, requests>>

WatchFails ==
  /\ loop \in {"watch", "watchLevels"}
  /\ ~(Wanted \subseteq watched)
  /\ Abort
  /\ UNCHANGED <<env, watches, watched, pending, read, readLevels, added, served, locking, requests>>

\* LoadDevelopment, Validate and Package of every level, devserver.New.
Load ==
  /\ loop = "watch" /\ Wanted \subseteq watched
  /\ readLevels' = disk
  /\ IF /\ Loads(disk) /\ Fits(disk)
        /\ \A d \in LevelDirs[disk[Root]] : <<d, disk[d]>> \notin Bad
     THEN loop' = "watchLevels"
     ELSE Abort
  /\ UNCHANGED <<env, watches, watched, pending, read, added, served, locking, requests>>

\* s.mu.Lock(): from here on new readers wait.
Lock ==
  /\ loop = "watchLevels" /\ Wanted \subseteq watched
  /\ loop' = "publish" /\ locking' = TRUE
  /\ UNCHANGED <<env, watches, watched, pending, read, readLevels, added, served, requests>>

\* The lock is granted, the state replaced, and the readers that waited
\* are let in by the unlock.
NoUnlock == client \* mutant: the waiting readers stay outside
Unlock == [c \in Clients |-> IF client[c] = "blocked" THEN "reading" ELSE client[c]]
Admitted(snapshot) == [c \in Clients |-> IF client[c] = "blocked" THEN snapshot ELSE first[c]]
PublishDrain == \* mutant: the events of the recompilation are thrown away
  /\ loop = "publish"
  /\ \A c \in Clients : client[c] # "reading"
  /\ served' = [engine |-> read, levels |-> readLevels]
  /\ client' = Unlock /\ first' = Admitted(served')
  /\ locking' = FALSE /\ loop' = "idle" /\ pending' = 0
  /\ UNCHANGED <<env, watches, watched, read, readLevels, added>>
Publish ==
  /\ loop = "publish"
  /\ \A c \in Clients : client[c] # "reading"
  /\ served' = [engine |-> read, levels |-> readLevels]
  /\ client' = Unlock /\ first' = Admitted(served')
  /\ locking' = FALSE /\ loop' = "idle"
  /\ UNCHANGED <<env, watches, watched, pending, read, readLevels, added>>

RecompileLoop ==
  Receive \/ Compile \/ (\E d \in Dirs : Watch(d)) \/ WatchFails \/ Load \/ Lock \/ Publish

-----------------------------------------------------------------------------
(* Requests and console commands: s.mu.RLock(), the answer, s.mu.RUnlock(). *)

Ask(c) ==
  /\ client[c] = "idle" /\ served # Nothing
  /\ client' = [client EXCEPT ![c] = IF locking THEN "blocked" ELSE "reading"]
  /\ first' = [first EXCEPT ![c] = IF locking THEN Nothing ELSE served]
  /\ UNCHANGED <<env, watches, watched, pending, loop, read, readLevels, added, served, locking>>

Answered(c) ==
  /\ client[c] = "reading"
  /\ client' = [client EXCEPT ![c] = "idle"] /\ first' = [first EXCEPT ![c] = Nothing]
  /\ UNCHANGED <<env, watches, watched, pending, loop, read, readLevels, added, served, locking>>

Next ==
  \/ \E d \in Dirs : Edit(d) \/ Recreate(d)
  \/ RecompileLoop
  \/ \E c \in Clients : Ask(c) \/ Answered(c)

Spec == Init /\ [][Next]_vars

\* The goroutine runs, and the writing of a response ends: the client reads
\* it or its connection does not live for ever.
Fairness == WF_vars(RecompileLoop) /\ \A c \in Clients : WF_vars(Answered(c))
FairSpec == Spec /\ Fairness

-----------------------------------------------------------------------------
\* Type invariant.
TypeOK ==
  /\ disk \in Snapshots /\ read \in Snapshots /\ readLevels \in Snapshots
  /\ recreated \subseteq Replaceable
  /\ watches \subseteq Dirs /\ watched \subseteq Dirs /\ added \subseteq watched
  /\ pending \in 0..QueueSize
  /\ loop \in {"compile", "watch", "watchLevels", "publish", "idle", "exited"}
  /\ served = Nothing \/ served \in [engine : Snapshots, levels : Snapshots]
  /\ locking \in BOOLEAN
  /\ client \in [Clients -> {"idle", "blocked", "reading"}]
  /\ first \in [Clients -> {Nothing} \cup [engine : Snapshots, levels : Snapshots]]

(***************************************************************************)
(* Only complete successful snapshots are served (docs/cli.md:115): the    *)
(* engine compiled, and every level served with it was accepted by that    *)
(* engine, whatever was edited between the two readings of the disk; and a *)
(* request that reads the fields of the snapshot one by one finds the same *)
(* snapshot until it has answered.                                         *)
(***************************************************************************)
Accepted ==
  served # Nothing =>
    /\ Loads(served.engine) /\ Loads(served.levels)
    /\ \A d \in LevelDirs[served.levels[Root]] :
         <<served.engine[Root], d, served.levels[d]>> \notin Misfit
OneSnapshot == \A c \in Clients : client[c] = "reading" => first[c] = served
ServedIsComplete == Accepted /\ OneSnapshot

(***************************************************************************)
(* The Go, embed and level data files of the served snapshot are watched   *)
(* (docs/cli.md:115) whenever no recompilation is running or due, but for  *)
(* those in directories that were removed and created again.               *)
(***************************************************************************)
Quiet == loop = "idle" /\ pending = 0
SnapshotWatched ==
  Quiet /\ served # Nothing => Uses(served.engine, served.levels) \subseteq watches \cup recreated

(***************************************************************************)
(* No edit of a directory that was watched when the compiler last read the *)
(* disk is missed, not even when the queue of events overflows during a    *)
(* recompilation: the goroutine comes to rest only after reading it.       *)
(***************************************************************************)
EditsNoticed == Quiet => \A d \in watches \ added : read[d] = disk[d]

\* The goroutine comes to rest once the edits stop: nothing it does makes
\* an event, and no reader holds the lock for ever.
ComesToRest == <>[](Quiet \/ loop = "exited")

\* Every request is answered, although a waiting writer holds new readers
\* back and a slow reader holds the writer (devserver.go:82, 119).
RequestsAnswered == \A c \in Clients : client[c] # "idle" ~> client[c] = "idle"

=============================================================================
