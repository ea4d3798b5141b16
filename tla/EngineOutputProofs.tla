------------------------- MODULE EngineOutputProofs -------------------------
(***************************************************************************)
(* Proofs about EngineOutput for every set of build processes, number of   *)
(* targets, set of package files and number of failing renames.            *)
(***************************************************************************)
EXTENDS EngineOutput, TLAPS

Dirs == {Absent} \cup Contents

\* The staging directory of a process, by where the process is.
StageOK ==
  \A w \in Writers :
    /\ pc[w] = "writing" => stage[w] \in SUBSET Package(w)
    /\ pc[w] \in {"reserved", "saving", "installing"} => stage[w] = Package(w)
    /\ pc[w] \in {"compiling", "staging", "cleaning", "finished", "failed"} => stage[w] = Absent

\* A backup that may be put back is a complete package.
BackupOK ==
  \A w \in Writers :
    /\ pc[w] \in {"installing", "rollback"} => backup[w] = Absent \/ Complete(backup[w])
    /\ pc[w] \in {"compiling", "staging", "writing", "saving", "finished"} => backup[w] = Absent
    /\ pc[w] \in {"reserved", "failed"} => backup[w] \in {Absent, {}}

\* No directory holds a file of a process that is still compiling.
Without(content, w) == content = Absent \/ content \cap Package(w) = {}
CompilingOK ==
  \A w \in Writers : pc[w] = "compiling" =>
    /\ \A e \in Targets : Without(out[e], w)
    /\ \A v \in Writers : Without(stage[v], w) /\ Without(backup[v], w)

IInv ==
  /\ TypeOK
  /\ NoPartialOutput
  /\ StageOK
  /\ BackupOK
  /\ CompilingOK

LEMMA PackageFacts ==
  /\ Old \in Contents
  /\ \A w \in Writers : Package(w) \in Contents /\ Package(w) \cap Old = {}
  /\ \A v, w \in Writers : v # w => Package(v) \cap Package(w) = {}
  /\ {} \in Contents /\ 1 \in Targets
<1>1. Old \in Contents
  BY OutputAssumption DEF Old, Contents
<1>2. ASSUME NEW w \in Writers
      PROVE  Package(w) \in Contents /\ Package(w) \cap Old = {}
  <2>1. PackageOf[w] \subseteq Files
    BY OutputAssumption
  <2>2. w # Earlier
    BY OutputAssumption
  <2> QED
    BY <2>1, <2>2 DEF Package, Old, Contents
<1>3. ASSUME NEW v \in Writers, NEW w \in Writers, v # w
      PROVE  Package(v) \cap Package(w) = {}
  BY <1>3 DEF Package
<1>4. {} \in Contents /\ 1 \in Targets
  BY OutputAssumption DEF Contents, Targets
<1> QED
  BY <1>1, <1>2, <1>3, <1>4

LEMMA InitIInv == Init => IInv
<1> SUFFICES ASSUME Init PROVE IInv
  OBVIOUS
<1> USE DEF Init
<1>1. TypeOK
  BY PackageFacts, OutputAssumption DEF TypeOK, Labels
<1>2. NoPartialOutput
  BY DEF NoPartialOutput, Complete
<1>3. StageOK /\ BackupOK
  BY DEF StageOK, BackupOK
<1>4. CompilingOK
  BY PackageFacts DEF CompilingOK, Without
<1> QED
  BY <1>1, <1>2, <1>3, <1>4 DEF IInv

\* A step of one process moves only that process, and only its own
\* directories and the target it is at.
LEMMA StepTypeOK == TypeOK /\ StageOK /\ [Next]_vars => TypeOK'
<1> SUFFICES ASSUME TypeOK, StageOK, [Next]_vars PROVE TypeOK'
  OBVIOUS
<1>1. CASE UNCHANGED vars
  BY <1>1 DEF TypeOK, vars
<1>2. ASSUME NEW w \in Writers,
             \/ CompileTarget(w) \/ CompileFails(w) \/ MakeStage(w) \/ WriteFile(w)
             \/ ReserveBackup(w) \/ StatOutput(w) \/ PrepareFails(w) \/ ReserveFails(w)
             \/ SaveOld(w) \/ SaveFails(w) \/ Install(w) \/ InstallFails(w)
             \/ Rollback(w) \/ CleanUp(w) \/ Finish(w) \/ Kill(w)
      PROVE  TypeOK'
  <2> USE DEF TypeOK
  <2>1. Absent \in Dirs /\ {} \in Dirs
    BY PackageFacts DEF Dirs
  <2>2. target[w] \in 1..Engines /\ out[target[w]] \in Dirs
    BY DEF Targets, Dirs
  <2>3. pc' \in [Writers -> Labels]
    BY <1>2 DEF Labels, Goto, AfterCompile, NextTarget, CompileTarget, CompileFails, MakeStage,
       WriteFile, ReserveBackup, StatOutput, PrepareFails, ReserveFails, SaveOld, SaveFails,
       Install, InstallFails, Rollback, CleanUp, Finish, Kill
  <2>4. target' \in [Writers -> Targets]
    <3>1. NextIndex(w) \in Targets
      BY <2>2, OutputAssumption DEF NextIndex, Targets
    <3>2. target[w] # Engines => target[w] + 1 \in Targets
      BY <2>2, OutputAssumption DEF Targets
    <3> QED
      BY <1>2, <3>1, <3>2 DEF CompileTarget, CompileFails, MakeStage,
         WriteFile, ReserveBackup, StatOutput, PrepareFails, ReserveFails, SaveOld, SaveFails,
         Install, InstallFails, Rollback, CleanUp, Finish, Kill
  <2>5. faults' \in 0..MaxFaults
    BY <1>2, OutputAssumption DEF Fault, CompileTarget, CompileFails, MakeStage,
       WriteFile, ReserveBackup, StatOutput, PrepareFails, ReserveFails, SaveOld, SaveFails,
       Install, InstallFails, Rollback, CleanUp, Finish, Kill
  <2>6. stage' \in [Writers -> Dirs]
    <3>1. CASE WriteFile(w)
      <4>1. stage[w] \in SUBSET Package(w) /\ Package(w) \in Contents
        BY <3>1, PackageFacts DEF WriteFile, StageOK
      <4>2. PICK p \in Package(w) : stage' = [stage EXCEPT ![w] = @ \cup {p}]
        BY <3>1 DEF WriteFile
      <4>3. stage[w] \cup {p} \in Dirs
        BY <4>1 DEF Dirs, Contents
      <4> QED
        BY <4>2, <4>3 DEF Dirs
    <3>2. CASE ~WriteFile(w)
      BY <1>2, <3>2, <2>1 DEF Dirs, RemoveStage, CompileTarget, CompileFails, MakeStage,
         ReserveBackup, StatOutput, PrepareFails, ReserveFails, SaveOld, SaveFails,
         Install, InstallFails, Rollback, CleanUp, Finish, Kill
    <3> QED
      BY <3>1, <3>2
  <2>7. backup' \in [Writers -> Dirs]
    BY <1>2, <2>1, <2>2 DEF Dirs, Dir, CompileTarget, CompileFails, MakeStage,
       WriteFile, ReserveBackup, StatOutput, PrepareFails, ReserveFails, SaveOld, SaveFails,
       Install, InstallFails, Rollback, CleanUp, Finish, Kill
  <2>8. out' \in [Targets -> Dirs]
    <3>1. stage[w] \in Dirs /\ backup[w] \in Dirs
      BY DEF Dirs
    <3> QED
      BY <1>2, <2>1, <2>2, <3>1 DEF Dirs, CompileTarget, CompileFails, MakeStage,
         WriteFile, ReserveBackup, StatOutput, PrepareFails, ReserveFails, SaveOld, SaveFails,
         Install, InstallFails, Rollback, CleanUp, Finish, Kill
  <2> QED
    BY <2>3, <2>4, <2>5, <2>6, <2>7, <2>8 DEF Dirs
<1> QED
  BY <1>1, <1>2 DEF Next

\* What a step does to the output directories.
LEMMA StepOut ==
  ASSUME TypeOK, StageOK, BackupOK, NEW e \in Targets, Next, out'[e] # out[e]
  PROVE  \/ out'[e] = Absent
         \/ \E w \in Writers : out'[e] = Package(w) /\ out'[e] = stage[w]
         \/ \E w \in Writers : out'[e] = backup[w] /\ Complete(backup[w])
<1>1. PICK w \in Writers : SaveOld(w) \/ Install(w) \/ Rollback(w)
  BY DEF Next, CompileTarget, CompileFails, MakeStage, WriteFile, ReserveBackup,
     StatOutput, PrepareFails, ReserveFails, SaveFails, InstallFails, CleanUp, Finish, Kill
<1>2. target[w] \in Targets
  BY DEF TypeOK
<1>3. CASE SaveOld(w)
  BY <1>2, <1>3 DEF SaveOld, TypeOK
<1>4. CASE Install(w)
  BY <1>2, <1>4 DEF Install, TypeOK, StageOK
<1>5. CASE Rollback(w)
  BY <1>2, <1>5 DEF Rollback, TypeOK, BackupOK
<1> QED
  BY <1>1, <1>3, <1>4, <1>5

LEMMA StepNoPartialOutput == IInv /\ [Next]_vars => NoPartialOutput'
<1> SUFFICES ASSUME IInv, [Next]_vars, NEW e \in Targets, out'[e] # Absent
             PROVE  Complete(out'[e])
  BY DEF NoPartialOutput, Complete, Package, Old, Targets
<1>1. CASE out'[e] = out[e]
  BY <1>1 DEF IInv, NoPartialOutput
<1>2. CASE out'[e] # out[e]
  <2>1. Next
    BY <1>2 DEF vars
  <2>2. \/ \E w \in Writers : out'[e] = Package(w)
        \/ \E w \in Writers : out'[e] = backup[w] /\ Complete(backup[w])
    BY <1>2, <2>1, StepOut DEF IInv
  <2> QED
    BY <2>2 DEF Complete
<1> QED
  BY <1>1, <1>2

LEMMA StepStageOK == IInv /\ [Next]_vars => StageOK'
<1> SUFFICES ASSUME IInv, [Next]_vars PROVE StageOK'
  OBVIOUS
<1> USE DEF IInv
<1>1. CASE UNCHANGED vars
  BY <1>1 DEF StageOK, vars, Package
<1>2. ASSUME NEW w \in Writers,
             \/ CompileTarget(w) \/ CompileFails(w) \/ MakeStage(w) \/ WriteFile(w)
             \/ ReserveBackup(w) \/ StatOutput(w) \/ PrepareFails(w) \/ ReserveFails(w)
             \/ SaveOld(w) \/ SaveFails(w) \/ Install(w) \/ InstallFails(w)
             \/ Rollback(w) \/ CleanUp(w) \/ Finish(w) \/ Kill(w)
      PROVE  StageOK'
  <2> SUFFICES ASSUME NEW v \in Writers
               PROVE  /\ pc'[v] = "writing" => stage'[v] \in SUBSET Package(v)
                      /\ pc'[v] \in {"reserved", "saving", "installing"} => stage'[v] = Package(v)
                      /\ pc'[v] \in {"compiling", "staging", "cleaning", "finished", "failed"}
                            => stage'[v] = Absent
    BY DEF StageOK, Package
  <2> USE DEF TypeOK, StageOK, Goto
  <2>1. CASE v # w
    BY <1>2, <2>1 DEF CompileTarget, CompileFails, MakeStage, RemoveStage,
       WriteFile, ReserveBackup, StatOutput, PrepareFails, ReserveFails, SaveOld, SaveFails,
       Install, InstallFails, Rollback, CleanUp, Finish, Kill
  <2>2. CASE v = w
    <3>1. CASE CompileTarget(w) \/ CompileFails(w) \/ MakeStage(w)
      BY <2>2, <3>1 DEF CompileTarget, CompileFails, MakeStage, AfterCompile
    <3>2. CASE WriteFile(w)
      <4>1. PICK p \in Package(w) : stage' = [stage EXCEPT ![w] = @ \cup {p}]
        BY <3>2 DEF WriteFile
      <4> QED
        BY <2>2, <3>2, <4>1 DEF WriteFile
    <3>3. CASE ReserveBackup(w)
      BY <2>2, <3>3 DEF ReserveBackup, AllWritten
    <3>4. CASE StatOutput(w) \/ PrepareFails(w) \/ ReserveFails(w)
      BY <2>2, <3>4 DEF StatOutput, PrepareFails, ReserveFails, RemoveStage
    <3>5. CASE SaveOld(w) \/ SaveFails(w) \/ Install(w) \/ InstallFails(w)
      BY <2>2, <3>5 DEF SaveOld, SaveFails, Install, InstallFails
    <3>6. CASE Rollback(w) \/ CleanUp(w) \/ Finish(w) \/ Kill(w)
      BY <2>2, <3>6 DEF Rollback, CleanUp, Finish, Kill, RemoveStage, NextTarget
    <3> QED
      BY <1>2, <3>1, <3>2, <3>3, <3>4, <3>5, <3>6
  <2> QED
    BY <2>1, <2>2
<1> QED
  BY <1>1, <1>2 DEF Next

LEMMA StepBackupOK == IInv /\ [Next]_vars => BackupOK'
<1> SUFFICES ASSUME IInv, [Next]_vars PROVE BackupOK'
  OBVIOUS
<1> USE DEF IInv
<1>1. CASE UNCHANGED vars
  BY <1>1 DEF BackupOK, vars, Complete, Package, Old
<1>2. ASSUME NEW w \in Writers,
             \/ CompileTarget(w) \/ CompileFails(w) \/ MakeStage(w) \/ WriteFile(w)
             \/ ReserveBackup(w) \/ StatOutput(w) \/ PrepareFails(w) \/ ReserveFails(w)
             \/ SaveOld(w) \/ SaveFails(w) \/ Install(w) \/ InstallFails(w)
             \/ Rollback(w) \/ CleanUp(w) \/ Finish(w) \/ Kill(w)
      PROVE  BackupOK'
  <2> SUFFICES ASSUME NEW v \in Writers
               PROVE  /\ pc'[v] \in {"installing", "rollback"}
                            => backup'[v] = Absent \/ Complete(backup'[v])
                      /\ pc'[v] \in {"compiling", "staging", "writing", "saving", "finished"}
                            => backup'[v] = Absent
                      /\ pc'[v] \in {"reserved", "failed"} => backup'[v] \in {Absent, {}}
    BY DEF BackupOK, Complete, Package, Old
  <2> USE DEF TypeOK, BackupOK, Goto
  <2>1. CASE v # w
    BY <1>2, <2>1 DEF CompileTarget, CompileFails, MakeStage,
       WriteFile, ReserveBackup, StatOutput, PrepareFails, ReserveFails, SaveOld, SaveFails,
       Install, InstallFails, Rollback, CleanUp, Finish, Kill
  <2>2. CASE v = w
    <3>1. CASE CompileTarget(w) \/ CompileFails(w) \/ MakeStage(w) \/ WriteFile(w)
      BY <2>2, <3>1 DEF CompileTarget, CompileFails, MakeStage, AfterCompile, WriteFile
    <3>2. CASE ReserveBackup(w) \/ StatOutput(w) \/ PrepareFails(w)
      BY <2>2, <3>2 DEF ReserveBackup, StatOutput, PrepareFails
    <3>3. CASE ReserveFails(w)
      BY <2>2, <3>3 DEF ReserveFails
    <3>4. CASE SaveOld(w)
      <4>1. Complete(out[target[w]])
        BY <3>4 DEF SaveOld, NoPartialOutput, Dir
      <4> QED
        BY <2>2, <3>4, <4>1 DEF SaveOld, Dir
    <3>5. CASE SaveFails(w) \/ Install(w) \/ InstallFails(w)
      BY <2>2, <3>5 DEF SaveFails, Install, InstallFails
    <3>6. CASE Rollback(w) \/ CleanUp(w) \/ Finish(w) \/ Kill(w)
      BY <2>2, <3>6 DEF Rollback, CleanUp, Finish, Kill, NextTarget
    <3> QED
      BY <1>2, <3>1, <3>2, <3>3, <3>4, <3>5, <3>6
  <2> QED
    BY <2>1, <2>2
<1> QED
  BY <1>1, <1>2 DEF Next

LEMMA StepCompilingOK == IInv /\ [Next]_vars => CompilingOK'
<1> SUFFICES ASSUME IInv, [Next]_vars, NEW w \in Writers, pc'[w] = "compiling"
             PROVE  /\ \A e \in Targets : Without(out'[e], w)
                    /\ \A v \in Writers : Without(stage'[v], w) /\ Without(backup'[v], w)
  BY DEF CompilingOK, Without, Package, Targets
<1> USE DEF IInv
<1>1. pc[w] = "compiling"
  BY DEF vars, Next, TypeOK, Goto, NextTarget, CompileTarget, CompileFails, MakeStage,
     WriteFile, ReserveBackup, StatOutput, PrepareFails, ReserveFails, SaveOld, SaveFails,
     Install, InstallFails, Rollback, CleanUp, Finish, Kill
<1>2. /\ \A e \in Targets : Without(out[e], w)
      /\ \A v \in Writers : Without(stage[v], w) /\ Without(backup[v], w)
  BY <1>1 DEF CompilingOK
<1>3. ASSUME NEW e \in Targets PROVE Without(out'[e], w)
  <2>1. CASE out'[e] = out[e]
    BY <1>2, <2>1
  <2>2. CASE out'[e] # out[e]
    <3>1. Next
      BY <2>2 DEF vars
    <3>2. \/ out'[e] = Absent
          \/ \E v \in Writers : out'[e] = stage[v]
          \/ \E v \in Writers : out'[e] = backup[v]
      BY <2>2, <3>1, StepOut
    <3> QED
      BY <1>2, <3>2 DEF Without
  <2> QED
    BY <2>1, <2>2
<1>4. ASSUME NEW v \in Writers PROVE Without(stage'[v], w)
  <2>1. CASE WriteFile(v)
    <3>1. v # w /\ stage[v] \in SUBSET Package(v)
      BY <1>1, <2>1 DEF WriteFile, StageOK
    <3>2. PICK p \in Package(v) : stage' = [stage EXCEPT ![v] = @ \cup {p}]
      BY <2>1 DEF WriteFile
    <3>3. stage'[v] \in SUBSET Package(v)
      BY <3>1, <3>2 DEF TypeOK
    <3>4. Package(v) \cap Package(w) = {}
      BY <3>1, PackageFacts
    <3> QED
      BY <3>3, <3>4 DEF Without
  <2>2. CASE ~WriteFile(v)
    <3>1. stage'[v] \in {stage[v], Absent, {}}
      BY <2>2 DEF vars, Next, TypeOK, RemoveStage, CompileTarget, CompileFails, MakeStage,
         WriteFile, ReserveBackup, StatOutput, PrepareFails, ReserveFails, SaveOld, SaveFails,
         Install, InstallFails, Rollback, CleanUp, Finish, Kill
    <3> QED
      BY <1>2, <3>1 DEF Without
  <2> QED
    BY <2>1, <2>2
<1>5. ASSUME NEW v \in Writers PROVE Without(backup'[v], w)
  <2>1. backup'[v] \in {backup[v], Absent, {}, out[target[v]]}
    BY DEF vars, Next, TypeOK, Dir, CompileTarget, CompileFails, MakeStage,
       WriteFile, ReserveBackup, StatOutput, PrepareFails, ReserveFails, SaveOld, SaveFails,
       Install, InstallFails, Rollback, CleanUp, Finish, Kill
  <2>2. target[v] \in Targets
    BY DEF TypeOK
  <2> QED
    BY <1>2, <2>1, <2>2 DEF Without
<1> QED
  BY <1>3, <1>4, <1>5

LEMMA Invariance == Spec => []IInv
<1>1. IInv /\ [Next]_vars => IInv'
  BY StepTypeOK, StepNoPartialOutput, StepStageOK, StepBackupOK, StepCompilingOK DEF IInv
<1> QED
  BY <1>1, InitIInv, PTL DEF Spec

\* Every directory and label keeps its type, for all instances.
THEOREM TypeCorrect == Spec => []TypeOK
<1>1. IInv => TypeOK
  BY DEF IInv
<1> QED
  BY <1>1, Invariance, PTL

(***************************************************************************)
(* Whatever fails or is killed, in any number, each output directory is    *)
(* absent or one whole package: WriteAtomic installs only staged packages  *)
(* whose files are all written, and puts back only what was installed      *)
(* (package.go:139-173).                                                   *)
(***************************************************************************)
THEOREM OutputsAreWhole == Spec => []NoPartialOutput
<1>1. IInv => NoPartialOutput
  BY DEF IInv
<1> QED
  BY <1>1, Invariance, PTL

\* The deferred removals of WriteAtomic (package.go:148, 159) run on every
\* return, so no staged package and no saved output stays behind.
THEOREM NothingLeftBehind == Spec => []NoLitter
<1>1. IInv => NoLitter
  BY DEF IInv, StageOK, BackupOK, NoLitter
<1> QED
  BY <1>1, Invariance, PTL

\* The first loop of cmdBuild (cmd.go:92-106) ends before anything of the
\* process can be seen in an output, so a compile failure changes nothing.
THEOREM CompileBeforeWrite == Spec => []NothingBeforeAllCompile
<1>1. IInv => NothingBeforeAllCompile
  BY DEF IInv, StageOK, CompilingOK, Without, NothingBeforeAllCompile
<1> QED
  BY <1>1, Invariance, PTL
-----------------------------------------------------------------------------
(* What was there can be recovered, if at most one rename fails.           *)

\* A process that holds a package of e and will put something at e, or never
\* move again: none fails to while there are no more failing renames.
Holder(u, e) ==
  /\ target[u] = e /\ backup[u] # Absent /\ Complete(backup[u])
  /\ pc[u] \in {"installing", "killed"} \/ (pc[u] = "rollback" /\ faults = MaxFaults)
Held(e) == out[e] # Absent \/ \E u \in Writers : Holder(u, e)
HolderOK == \A e \in Targets : Recoverable(e) => Held(e)

LEMMA NoPackageIsEmpty ==
  /\ ~Complete({})
  /\ \A w \in Writers : Package(w) # Absent
<1>1. ASSUME NEW w \in Writers
      PROVE  Package(w) # {} /\ Package(w) \in Contents
  <2>1. PICK f \in PackageOf[w] : TRUE
    BY OutputAssumption
  <2>2. <<f, w>> \in Package(w)
    BY DEF Package
  <2> QED
    BY <2>2, PackageFacts
<1>2. Old # {}
  BY OutputAssumption DEF Old
<1> QED
  BY <1>1, <1>2, OutputAssumption DEF Complete

LEMMA StepHeld ==
  ASSUME MaxFaults <= 1, IInv, IInv', NEW e \in Targets, Held(e), [Next]_vars
  PROVE  Held(e)'
<1>1. CASE UNCHANGED vars
  BY <1>1 DEF Held, Holder, vars, Complete, Package, Old
<1>2. ASSUME NEW w \in Writers,
             \/ CompileTarget(w) \/ CompileFails(w) \/ MakeStage(w) \/ WriteFile(w)
             \/ ReserveBackup(w) \/ StatOutput(w) \/ PrepareFails(w) \/ ReserveFails(w)
             \/ SaveOld(w) \/ SaveFails(w) \/ Install(w) \/ InstallFails(w)
             \/ Rollback(w) \/ CleanUp(w) \/ Finish(w) \/ Kill(w)
      PROVE  Held(e)'
  <2> SUFFICES ASSUME out'[e] = Absent
               PROVE  \E u \in Writers : Holder(u, e)'
    BY DEF Held
  <2> USE DEF IInv, TypeOK
  <2>1. CASE out[e] # Absent
    <3>1. SaveOld(w) /\ target[w] = e
      <4>1. ~Install(w)
        BY <2>1, NoPackageIsEmpty DEF Install, StageOK
      <4>2. ~Rollback(w)
        BY <2>1 DEF Rollback, Dir
      <4> QED
        BY <1>2, <2>1, <4>1, <4>2 DEF CompileTarget, CompileFails, MakeStage, WriteFile, ReserveBackup,
           StatOutput, PrepareFails, ReserveFails, SaveOld, SaveFails, InstallFails, CleanUp, Finish, Kill
    <3>2. backup'[w] = out[e] /\ pc'[w] = "installing" /\ target'[w] = e
      BY <3>1 DEF SaveOld, Dir, Goto
    <3>3. Complete(out[e])
      BY <2>1 DEF NoPartialOutput
    <3>4. Holder(w, e)'
      BY <2>1, <3>2, <3>3 DEF Holder, Complete, Package, Old
    <3> QED
      BY <3>4
  <2>2. ASSUME out[e] = Absent, NEW u \in Writers, Holder(u, e)
        PROVE  Holder(u, e)'
    <3>1. CASE u # w
      <4>1. target'[u] = target[u] /\ backup'[u] = backup[u] /\ pc'[u] = pc[u]
        BY <1>2, <3>1 DEF Goto, CompileTarget, CompileFails, MakeStage,
           WriteFile, ReserveBackup, StatOutput, PrepareFails, ReserveFails, SaveOld, SaveFails,
           Install, InstallFails, Rollback, CleanUp, Finish, Kill
      <4>2. faults' = faults \/ (faults < MaxFaults /\ faults' = faults + 1)
        BY <1>2 DEF Fault, CompileTarget, CompileFails, MakeStage,
           WriteFile, ReserveBackup, StatOutput, PrepareFails, ReserveFails, SaveOld, SaveFails,
           Install, InstallFails, Rollback, CleanUp, Finish, Kill
      <4>3. faults = MaxFaults => faults' = MaxFaults
        BY <4>2, OutputAssumption
      <4>4. Complete(backup[u]) /\ backup'[u] = backup[u] => Complete(backup[u])'
        BY DEF Complete, Package, Old
      <4> QED
        BY <2>2, <4>1, <4>3, <4>4 DEF Holder
    <3>2. CASE u = w
      <4>1. target[w] = e /\ backup[w] # Absent /\ Complete(backup[w])
        BY <2>2, <3>2 DEF Holder
      <4>2. InstallFails(w) \/ Kill(w)
        <5>1. ~Install(w)
          BY <4>1, NoPackageIsEmpty DEF Install, StageOK
        <5>2. ~Rollback(w)
          <6>1. Rollback(w) => faults = MaxFaults
            BY <2>2, <3>2 DEF Rollback, Holder
          <6> QED
            BY <2>2, <4>1, <6>1, OutputAssumption DEF Rollback, Fault, Dir
        <5> QED
          BY <1>2, <2>2, <3>2, <5>1, <5>2 DEF Holder, CompileTarget, CompileFails, MakeStage, WriteFile,
             ReserveBackup, StatOutput, PrepareFails, ReserveFails, SaveOld, SaveFails, CleanUp, Finish
      <4>3. target'[w] = e /\ backup'[w] = backup[w]
        BY <4>1, <4>2 DEF InstallFails, Kill
      <4>4. CASE Kill(w)
        BY <3>2, <4>1, <4>3, <4>4 DEF Holder, Kill, Goto, Complete, Package, Old
      <4>5. CASE InstallFails(w)
        <5>1. pc'[w] = "rollback" /\ faults < MaxFaults /\ faults' = faults + 1
          BY <2>2, <4>1, <4>5 DEF InstallFails, Fault, Dir, Goto
        <5>2. faults' = MaxFaults
          BY <5>1, OutputAssumption
        <5> QED
          BY <3>2, <4>1, <4>3, <5>1, <5>2 DEF Holder, Complete, Package, Old
      <4> QED
        BY <4>2, <4>4, <4>5
    <3> QED
      BY <3>1, <3>2
  <2> QED
    BY <2>1, <2>2 DEF Held
<1> QED
  BY <1>1, <1>2 DEF Next

\* A package that comes to be at hand again has been put out.
LEMMA StepUnheld ==
  ASSUME IInv, NEW e \in Targets, ~Recoverable(e), [Next]_vars, Recoverable(e)'
  PROVE  Held(e)'
<1>1. CASE UNCHANGED vars
  BY <1>1 DEF Recoverable, vars, Complete, Package, Old
<1>2. ASSUME NEW w \in Writers,
             \/ CompileTarget(w) \/ CompileFails(w) \/ MakeStage(w) \/ WriteFile(w)
             \/ ReserveBackup(w) \/ StatOutput(w) \/ PrepareFails(w) \/ ReserveFails(w)
             \/ SaveOld(w) \/ SaveFails(w) \/ Install(w) \/ InstallFails(w)
             \/ Rollback(w) \/ CleanUp(w) \/ Finish(w) \/ Kill(w)
      PROVE  out'[e] # Absent
  <2> SUFFICES ASSUME NEW u \in Writers, target'[u] = e, backup'[u] # Absent, Complete(backup'[u])
               PROVE  FALSE
    BY DEF Recoverable, Complete, Package, Old
  <2> USE DEF IInv, TypeOK
  <2>1. target[u] # e \/ backup[u] = Absent \/ ~Complete(backup[u])
    BY DEF Recoverable
  <2>2. u = w
    BY <1>2, <2>1 DEF CompileTarget, CompileFails, MakeStage,
       WriteFile, ReserveBackup, StatOutput, PrepareFails, ReserveFails, SaveOld, SaveFails,
       Install, InstallFails, Rollback, CleanUp, Finish, Kill
  <2>3. out[e] = Absent
    BY DEF Recoverable
  <2>4. CASE SaveOld(w)
    BY <2>2, <2>3, <2>4 DEF SaveOld, Dir
  <2>5. CASE CompileTarget(w)
    BY <2>2, <2>5 DEF CompileTarget, BackupOK
  <2>6. CASE ReserveBackup(w)
    BY <2>2, <2>6, NoPackageIsEmpty DEF ReserveBackup
  <2> QED
    BY <1>2, <2>1, <2>2, <2>4, <2>5, <2>6 DEF CompileFails, MakeStage,
       WriteFile, StatOutput, PrepareFails, ReserveFails, SaveFails,
       Install, InstallFails, Rollback, CleanUp, Finish, Kill
<1> QED
  BY <1>1, <1>2 DEF Next, Held

(***************************************************************************)
(* An output that was there stays at hand through any number of builds     *)
(* that collide or are killed (package.go:161-172), if no more than one    *)
(* rename fails for a reason of its own.                                   *)
(***************************************************************************)
THEOREM OutputsAreRecoverable == MaxFaults <= 1 /\ Spec => OutputRecoverable
<1> SUFFICES ASSUME MaxFaults <= 1 PROVE Spec => OutputRecoverable
  OBVIOUS
<1>1. Init => HolderOK
  BY DEF Init, HolderOK, Recoverable, Held
<1>2. IInv /\ IInv' /\ HolderOK /\ [Next]_vars => HolderOK'
  <2> SUFFICES ASSUME IInv, IInv', HolderOK, [Next]_vars, NEW e \in Targets, Recoverable(e)'
               PROVE  Held(e)'
    BY DEF HolderOK, Targets
  <2> QED
    BY StepHeld, StepUnheld DEF HolderOK
<1>3. IInv /\ IInv' /\ HolderOK /\ [Next]_vars =>
        [\A e \in Targets : Recoverable(e) => Recoverable(e)']_vars
  <2> SUFFICES ASSUME IInv, IInv', HolderOK, [Next]_vars, NEW e \in Targets, Recoverable(e)
               PROVE  Recoverable(e)'
    OBVIOUS
  <2>1. Held(e)'
    BY StepHeld DEF HolderOK
  <2> QED
    BY <2>1 DEF Held, Holder, Recoverable
<1> QED
  BY <1>1, <1>2, <1>3, Invariance, PTL DEF Spec, OutputRecoverable
=============================================================================
