---------------------------- MODULE EngineOutput ----------------------------
(***************************************************************************)
(* `sonolus-go build': compiling and packaging every target, then          *)
(* replacing dist/<name> of each with PackagedEngine.WriteAtomic           *)
(* (cmd/sonolus-go/cmd.go, internal/build/package.go), with several build  *)
(* processes, failing system calls, and processes killed at any step.      *)
(*                                                                         *)
(* The content of a directory is the set of files in it, each with the     *)
(* process that wrote it, so that a half-written or mixed directory can be *)
(* told from a package.  Staging and backup directories have unique names  *)
(* (os.MkdirTemp): one of each per process.                                *)
(***************************************************************************)
EXTENDS Naturals, FiniteSets

CONSTANTS
  Writers,    \* build processes
  Engines,    \* number of targets, written in the order of their names
  Files,      \* file names of a package
  PackageOf,  \* the files each process has a blob for
  Earlier,    \* a build that finished before these started
  OldFiles,   \* the files of its packages
  MaxFaults,  \* bound on renames that fail for an outside reason
  Absent

Package(w) == {<<f, w>> : f \in PackageOf[w]}
Old == {<<f, Earlier>> : f \in OldFiles}
Contents == SUBSET (Files \X (Writers \cup {Earlier}))
Targets == 1..Engines

ASSUME OutputAssumption ==
  /\ Engines \in Nat \ {0} /\ MaxFaults \in Nat
  /\ PackageOf \in [Writers -> (SUBSET Files) \ {{}}]
  /\ OldFiles \in (SUBSET Files) \ {{}}
  /\ Earlier \notin Writers
  /\ \A w \in Writers : Package(w) # Absent

VARIABLES
  out,     \* dist/<name> of each target
  stage,   \* .<name>-stage-* of each process
  backup,  \* .<name>-backup-* of each process
  pc,      \* where each process is
  target,  \* the target it is at
  faults   \* renames that have failed for an outside reason

vars == <<out, stage, backup, pc, target, faults>>

Init ==
  /\ out \in [Targets -> {Absent, Old}]
  /\ stage = [w \in Writers |-> Absent]
  /\ backup = [w \in Writers |-> Absent]
  /\ pc = [w \in Writers |-> "compiling"]
  /\ target = [w \in Writers |-> 1]
  /\ faults = 0

Goto(w, label) == pc' = [pc EXCEPT ![w] = label]
Dir(w) == out[target[w]]

\* cmdBuild compiles and packages every target before it writes the first.
AfterCompile(w) == IF target[w] = Engines THEN "staging" ELSE "compiling"

\* The loop over the targets, and the loop over the packages after it.
NextIndex(w) == IF target[w] = Engines THEN 1 ELSE target[w] + 1

CompileTarget(w) ==
  /\ pc[w] = "compiling"
  /\ Goto(w, AfterCompile(w))
  /\ target' = [target EXCEPT ![w] = NextIndex(w)]
  /\ UNCHANGED <<out, stage, backup, faults>>

CompileFails(w) ==
  /\ pc[w] = "compiling"
  /\ Goto(w, "failed")
  /\ UNCHANGED <<out, stage, backup, target, faults>>

\* defer os.RemoveAll(stage)
KeepStage(w) == stage \* mutant: the staging directory is not removed
RemoveStage(w) == [stage EXCEPT ![w] = Absent]

MakeStage(w) ==
  /\ pc[w] = "staging"
  /\ stage' = [stage EXCEPT ![w] = {}]
  /\ Goto(w, "writing")
  /\ UNCHANGED <<out, backup, target, faults>>

\* Write goes through a Go map: the files come in any order.
WriteFile(w) ==
  /\ pc[w] = "writing"
  /\ \E p \in Package(w) \ stage[w] : stage' = [stage EXCEPT ![w] = @ \cup {p}]
  /\ UNCHANGED <<out, backup, pc, target, faults>>

\* Whether Write has written every non-nil blob.
FirstFile(w) == stage[w] # {} \* mutant: the swap starts after the first file
AllWritten(w) == Package(w) \subseteq stage[w]

\* os.MkdirTemp for the backup, whose directory is removed again.
ReserveBackup(w) ==
  /\ pc[w] = "writing" /\ AllWritten(w)
  /\ backup' = [backup EXCEPT ![w] = {}]
  /\ Goto(w, "reserved")
  /\ UNCHANGED <<out, stage, target, faults>>

\* The empty backup directory is removed; does the output exist?
StatOutput(w) ==
  /\ pc[w] = "reserved"
  /\ backup' = [backup EXCEPT ![w] = Absent]
  /\ Goto(w, IF Dir(w) = Absent THEN "installing" ELSE "saving")
  /\ UNCHANGED <<out, stage, target, faults>>

\* MkdirAll, MkdirTemp, WriteFile or Stat returns an error.
PrepareFails(w) ==
  /\ pc[w] \in {"staging", "writing", "reserved"}
  /\ backup' = [backup EXCEPT ![w] = Absent]
  /\ Goto(w, "failing")
  /\ UNCHANGED <<out, stage, target, faults>>

\* os.Remove(backup) returns an error, before the removal of backup is deferred.
ReserveFails(w) ==
  /\ pc[w] = "reserved"
  /\ stage' = RemoveStage(w)
  /\ Goto(w, "failed")
  /\ UNCHANGED <<out, backup, target, faults>>

Fault == faults < MaxFaults /\ faults' = faults + 1

\* os.Rename(dir, backup): fails if another process has moved dir away.
SaveOld(w) ==
  /\ pc[w] = "saving" /\ Dir(w) # Absent
  /\ backup' = [backup EXCEPT ![w] = Dir(w)]
  /\ out' = [out EXCEPT ![target[w]] = Absent]
  /\ Goto(w, "installing")
  /\ UNCHANGED <<stage, target, faults>>

SaveFails(w) ==
  /\ pc[w] = "saving"
  /\ \/ Dir(w) = Absent /\ UNCHANGED faults
     \/ Fault
  /\ Goto(w, "failing")
  /\ UNCHANGED <<out, stage, backup, target>>

\* os.Rename(stage, dir): os.Rename refuses to replace a directory.
Install(w) ==
  /\ pc[w] = "installing" /\ Dir(w) = Absent
  /\ out' = [out EXCEPT ![target[w]] = stage[w]]
  /\ stage' = [stage EXCEPT ![w] = Absent]
  /\ Goto(w, "cleaning")
  /\ UNCHANGED <<backup, target, faults>>

InstallFails(w) ==
  /\ pc[w] = "installing"
  /\ \/ Dir(w) # Absent /\ UNCHANGED faults
     \/ Fault
  /\ Goto(w, "rollback")
  /\ UNCHANGED <<out, stage, backup, target>>

\* _ = os.Rename(backup, dir): its error is dropped.
NoRollback(w) == \* mutant: the output is not put back
  /\ pc[w] = "rollback"
  /\ Goto(w, "failing")
  /\ UNCHANGED <<out, stage, backup, target, faults>>
Rollback(w) ==
  /\ pc[w] = "rollback"
  /\ \/ /\ backup[w] # Absent /\ Dir(w) = Absent
        /\ out' = [out EXCEPT ![target[w]] = backup[w]]
        /\ backup' = [backup EXCEPT ![w] = Absent]
        /\ UNCHANGED faults
     \/ /\ backup[w] = Absent \/ Dir(w) # Absent
        /\ UNCHANGED <<out, backup, faults>>
     \/ Fault /\ UNCHANGED <<out, backup>>
  /\ Goto(w, "failing")
  /\ UNCHANGED <<stage, target>>

\* The deferred RemoveAll calls of an error return.
CleanUp(w) ==
  /\ pc[w] = "failing"
  /\ backup' = [backup EXCEPT ![w] = Absent]
  /\ stage' = RemoveStage(w)
  /\ Goto(w, "failed")
  /\ UNCHANGED <<out, target, faults>>

\* WriteAtomic returned nil: cmdBuild goes on with the next packaged target.
CompileNext(w) == "compiling" \* mutant: each target is compiled when its turn comes
NextTarget(w) == "staging"
Finish(w) ==
  /\ pc[w] = "cleaning"
  /\ backup' = [backup EXCEPT ![w] = Absent]
  /\ IF target[w] = Engines
     THEN Goto(w, "finished") /\ UNCHANGED target
     ELSE Goto(w, NextTarget(w)) /\ target' = [target EXCEPT ![w] = @ + 1]
  /\ UNCHANGED <<out, stage, faults>>

\* The process is killed: what is on disk stays, nothing deferred runs.
Kill(w) ==
  /\ pc[w] \notin {"finished", "failed", "killed"}
  /\ Goto(w, "killed")
  /\ UNCHANGED <<out, stage, backup, target, faults>>

Next ==
  \E w \in Writers :
    \/ CompileTarget(w) \/ CompileFails(w) \/ MakeStage(w) \/ WriteFile(w)
    \/ ReserveBackup(w) \/ StatOutput(w) \/ PrepareFails(w) \/ ReserveFails(w) \/ SaveOld(w) \/ SaveFails(w)
    \/ Install(w) \/ InstallFails(w) \/ Rollback(w) \/ CleanUp(w)
    \/ Finish(w) \/ Kill(w)

Spec == Init /\ [][Next]_vars

-----------------------------------------------------------------------------
Labels == {"compiling", "staging", "writing", "reserved", "saving", "installing", "rollback",
           "failing", "cleaning", "finished", "failed", "killed"}

\* Type invariant.
TypeOK ==
  /\ out \in [Targets -> {Absent} \cup Contents]
  /\ stage \in [Writers -> {Absent} \cup Contents]
  /\ backup \in [Writers -> {Absent} \cup Contents]
  /\ pc \in [Writers -> Labels]
  /\ target \in [Writers -> Targets]
  /\ faults \in 0..MaxFaults

Complete(content) == content = Old \/ \E w \in Writers : content = Package(w)

(***************************************************************************)
(* At every moment, whatever fails and whoever is killed, the output of a  *)
(* target is absent or one complete package, never a part or a mixture     *)
(* (package.go:138, "only after every file has been written").             *)
(***************************************************************************)
NoPartialOutput == \A e \in Targets : out[e] # Absent => Complete(out[e])

(***************************************************************************)
(* With at most one failing rename, an output that was there is never      *)
(* lost: a complete package is at dist/<name> or in the backup of a        *)
(* process at that target, also when processes collide or are killed       *)
(* between the two renames (package.go:161, 167).                           *)
(***************************************************************************)
Recoverable(e) ==
  \/ out[e] # Absent
  \/ \E w \in Writers : target[w] = e /\ backup[w] # Absent /\ Complete(backup[w])
OutputRecoverable == [][\A e \in Targets : Recoverable(e) => Recoverable(e)']_vars

\* A process that returned, with or without an error, left no staging
\* directory in dist and at most an empty backup directory
\* (package.go:148, 159).
NoLitter ==
  \A w \in Writers :
    pc[w] \in {"finished", "failed"} => stage[w] = Absent /\ backup[w] \in {Absent, {}}

\* "A compilation or serialization failure leaves no part of the new outputs"
\* (docs/cli.md:71): no output of a process that is still compiling or that
\* failed in it is visible, for none of its targets.
NothingBeforeAllCompile ==
  \A w \in Writers : pc[w] = "compiling" =>
    stage[w] = Absent /\ \A e \in Targets : out[e] = Absent \/ out[e] \cap Package(w) = {}
=============================================================================
