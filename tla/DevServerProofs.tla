--------------------------- MODULE DevServerProofs ---------------------------
(***************************************************************************)
(* Proofs about DevServer for every set of directories and clients, every  *)
(* way the sources may depend on each other or fail, and every queue size. *)
(***************************************************************************)
EXTENDS DevServer, TLAPS

\* What the goroutine knows of the snapshot it is working on.
WorkOK ==
  /\ loop \in {"watch", "watchLevels", "publish"} => Loads(read)
  /\ loop \in {"watchLevels", "publish"} => Loads(readLevels) /\ Fits(readLevels)

\* An edit of a directory watched since before the last reading has an
\* event in the queue, unless the next reading is about to happen.
EditsQueued ==
  \A d \in watches \ added : read[d] # disk[d] => pending > 0 \/ loop = "compile"

IInv == TypeOK /\ WorkOK /\ ServedIsComplete /\ EditsQueued

LEMMA InitType == Init => TypeOK
<1> SUFFICES ASSUME Init PROVE TypeOK
  OBVIOUS
<1>1. 0 \in Versions /\ 0 \in 0..QueueSize
  BY DevServerAssumption DEF Versions
<1>2. [d \in Dirs |-> 0] \in Snapshots
  BY <1>1 DEF Snapshots
<1>3. [c \in Clients |-> "idle"] \in [Clients -> {"idle", "blocked", "reading"}]
  OBVIOUS
<1>4. [c \in Clients |-> Nothing] \in [Clients -> {Nothing} \cup [engine : Snapshots, levels : Snapshots]]
  OBVIOUS
<1> QED
  BY <1>1, <1>2, <1>3, <1>4 DEF Init, TypeOK

LEMMA TypeInductive == TypeOK /\ [Next]_vars => TypeOK'
<1> SUFFICES ASSUME TypeOK, [Next]_vars PROVE TypeOK'
  OBVIOUS
<1> USE DevServerAssumption DEF TypeOK, Snapshots, Versions
<1>1. ASSUME NEW d \in Dirs, Edit(d) PROVE TypeOK'
  BY <1>1 DEF Edit, Notify, requests
<1>2. ASSUME NEW d \in Dirs, Recreate(d) PROVE TypeOK'
  BY <1>2 DEF Recreate, Notify, requests
<1>3. CASE Receive
  BY <1>3 DEF Receive, env, requests
<1>4. CASE Compile
  BY <1>4 DEF Compile, Abort, env, requests
<1>5. ASSUME NEW d \in Dirs, Watch(d) PROVE TypeOK'
  BY <1>5 DEF Watch, env, requests
<1>6. CASE WatchFails
  BY <1>6 DEF WatchFails, Abort, env, requests
<1>7. CASE Load
  BY <1>7 DEF Load, Abort, env, requests
<1>8. CASE Lock
  BY <1>8 DEF Lock, env, requests
<1>9. CASE Publish
  BY <1>9 DEF Publish, Unlock, Admitted, env, requests
<1>10. ASSUME NEW c \in Clients, Ask(c) \/ Answered(c) PROVE TypeOK'
  BY <1>10 DEF Ask, Answered, env
<1>11. CASE UNCHANGED vars
  BY <1>11 DEF vars
<1> QED
  BY <1>1, <1>2, <1>3, <1>4, <1>5, <1>6, <1>7, <1>8, <1>9, <1>10, <1>11
     DEF Next, RecompileLoop

LEMMA WorkInductive == IInv /\ [Next]_vars => WorkOK' /\ ServedIsComplete'
<1> SUFFICES ASSUME IInv, [Next]_vars PROVE WorkOK' /\ ServedIsComplete'
  OBVIOUS
<1> USE DEF IInv, WorkOK, ServedIsComplete, Accepted, OneSnapshot, Loads, Fits
<1>1. ASSUME NEW d \in Dirs, Edit(d) \/ Recreate(d) PROVE WorkOK' /\ ServedIsComplete'
  BY <1>1 DEF Edit, Recreate, requests
<1>2. CASE Receive
  BY <1>2 DEF Receive, requests
<1>3. CASE Compile
  BY <1>3 DEF Compile, Abort, requests
<1>4. ASSUME NEW d \in Dirs, Watch(d) PROVE WorkOK' /\ ServedIsComplete'
  BY <1>4 DEF Watch, requests
<1>5. CASE WatchFails
  BY <1>5 DEF WatchFails, Abort, requests
<1>6. CASE Load
  BY <1>6 DEF Load, Abort, requests
<1>7. CASE Lock
  BY <1>7 DEF Lock, requests
<1>8. CASE Publish
  BY <1>8 DEF Publish, Unlock, Admitted
<1>9. ASSUME NEW c \in Clients, Ask(c) \/ Answered(c) PROVE WorkOK' /\ ServedIsComplete'
  <2>1. WorkOK' /\ Accepted'
    BY <1>9 DEF Ask, Answered
  <2>2. client \in [Clients -> {"idle", "blocked", "reading"}] /\ DOMAIN first = Clients
    BY DEF TypeOK
  <2>3. OneSnapshot'
    BY <1>9, <2>2 DEF Ask, Answered
  <2> QED
    BY <2>1, <2>3
<1>10. CASE UNCHANGED vars
  BY <1>10 DEF vars
<1> QED
  BY <1>1, <1>2, <1>3, <1>4, <1>5, <1>6, <1>7, <1>8, <1>9, <1>10 DEF Next, RecompileLoop

LEMMA QueueInductive == IInv /\ [Next]_vars => EditsQueued'
<1> SUFFICES ASSUME IInv, [Next]_vars PROVE EditsQueued'
  OBVIOUS
<1> USE DevServerAssumption DEF IInv, EditsQueued, TypeOK, Snapshots, Versions
<1>1. ASSUME NEW d \in Dirs, Edit(d) \/ Recreate(d) PROVE EditsQueued'
  <2>1. d \in watches => pending' > 0
    BY <1>1 DEF Edit, Recreate, Notify
  <2>2. pending > 0 => pending' > 0
    BY <1>1 DEF Edit, Recreate, Notify
  <2>3. watches' \subseteq watches /\ added' = added /\ read' = read /\ loop' = loop
    BY <1>1 DEF Edit, Recreate
  <2>4. \A e \in Dirs : e # d => disk'[e] = disk[e]
    BY <1>1 DEF Edit, Recreate
  <2> QED
    BY <2>1, <2>2, <2>3, <2>4
<1>2. CASE Receive
  BY <1>2 DEF Receive
<1>3. CASE Compile
  BY <1>3 DEF Compile, env
<1>4. ASSUME NEW d \in Dirs, Watch(d) PROVE EditsQueued'
  BY <1>4 DEF Watch, env
<1>5. CASE WatchFails
  BY <1>5 DEF WatchFails, env
<1>6. CASE Load
  BY <1>6 DEF Load, env
<1>7. CASE Lock
  BY <1>7 DEF Lock, env
<1>8. CASE Publish
  BY <1>8 DEF Publish, env
<1>9. ASSUME NEW c \in Clients, Ask(c) \/ Answered(c) PROVE EditsQueued'
  BY <1>9 DEF Ask, Answered, env
<1>10. CASE UNCHANGED vars
  BY <1>10 DEF vars
<1> QED
  BY <1>1, <1>2, <1>3, <1>4, <1>5, <1>6, <1>7, <1>8, <1>9, <1>10 DEF Next, RecompileLoop

LEMMA Invariance == Spec => []IInv
<1>1. Init => IInv
  BY InitType DEF Init, IInv, WorkOK, ServedIsComplete, Accepted, OneSnapshot, EditsQueued
<1>2. IInv /\ [Next]_vars => IInv'
  BY TypeInductive, WorkInductive, QueueInductive DEF IInv
<1> QED
  BY <1>1, <1>2, PTL DEF Spec

\* Every variable keeps its type, and the queue its bound.
THEOREM TypeCorrect == Spec => []TypeOK
<1>1. IInv => TypeOK
  BY DEF IInv
<1> QED
  BY <1>1, Invariance, PTL

\* recompile assigns s.state (devserver.go:83) only after every check of
\* the very artifacts and levels it assigns.  No request reads it meanwhile,
\* so each finds one snapshot from its lock to its unlock.
THEOREM OnlyCompleteServed == Spec => []ServedIsComplete
<1>1. IInv => ServedIsComplete
  BY DEF IInv
<1> QED
  BY <1>1, Invariance, PTL

\* One recompilation per event, each reading the whole disk, cannot miss an
\* edit of a watched directory, however small the event queue
\* (devserver.go:217-236).
THEOREM NoEditMissed == Spec => []EditsNoticed
<1>1. IInv => EditsNoticed
  BY DEF IInv, EditsQueued, EditsNoticed, Quiet
<1> QED
  BY <1>1, Invariance, PTL

-----------------------------------------------------------------------------
\* But for recreated directories the map of watchFiles is right, and it
\* covers what the goroutine is about to publish and what it published.
WatchOK ==
  /\ watched \subseteq watches \cup recreated
  /\ loop \in {"watchLevels", "publish"} => Sources[read[Root]] \subseteq watched
  /\ loop = "publish" => DevelopmentDirs \subseteq watched
  /\ served # Nothing => Uses(served.engine, served.levels) \subseteq watched

LEMMA WatchInductive ==
  ASSUME WatchOK, [Next]_vars
  PROVE  WatchOK'
<1> USE DEF WatchOK, DevelopmentDirs, Uses
<1>1. ASSUME NEW d \in Dirs, Edit(d) PROVE WatchOK'
  BY <1>1 DEF Edit
<1>2. ASSUME NEW d \in Dirs, Recreate(d) PROVE WatchOK'
  BY <1>2 DEF Recreate
<1>3. CASE Receive
  BY <1>3 DEF Receive, env
<1>4. CASE Compile
  BY <1>4 DEF Compile, Abort, env
<1>5. ASSUME NEW d \in Dirs, Watch(d) PROVE WatchOK'
  BY <1>5 DEF Watch, env
<1>6. CASE WatchFails
  BY <1>6 DEF WatchFails, Abort, env
<1>7. CASE Load
  BY <1>7 DEF Load, Abort, Wanted, SourceDirs, env
<1>8. CASE Lock
  BY <1>8 DEF Lock, Wanted, env
<1>9. CASE Publish
  BY <1>9 DEF Publish, env
<1>10. ASSUME NEW c \in Clients, Ask(c) \/ Answered(c) PROVE WatchOK'
  BY <1>10 DEF Ask, Answered, env
<1>11. CASE UNCHANGED vars
  BY <1>11 DEF vars
<1> QED
  BY <1>1, <1>2, <1>3, <1>4, <1>5, <1>6, <1>7, <1>8, <1>9, <1>10, <1>11
     DEF Next, RecompileLoop

\* Every directory of the served snapshot is watched (devserver.go:57, 79),
\* unless it was removed and created again.
THEOREM ServedIsWatched == Spec => []SnapshotWatched
<1>1. Init => WatchOK
  BY DEF Init, WatchOK
<1>2. WatchOK /\ [Next]_vars => WatchOK'
  BY WatchInductive
<1>3. WatchOK => SnapshotWatched
  BY DEF WatchOK, SnapshotWatched
<1> QED
  BY <1>1, <1>2, <1>3, PTL DEF Spec
=============================================================================
