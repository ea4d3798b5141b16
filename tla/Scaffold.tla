------------------------------ MODULE Scaffold ------------------------------
(***************************************************************************)
(* Creation of projects (internal/scaffold): "mod init" and "init" put the *)
(* files of a template into a directory, "work init" a go.work beside it.  *)
(* An existing directory is looked at and then written file by file, what  *)
(* was created is removed after an error; a new one is written under       *)
(* another name and renamed.  Several commands run at once, in one         *)
(* directory, while its user makes files of his own; any call of the       *)
(* operating system may fail and a command may be killed.                  *)
(***************************************************************************)
EXTENDS Naturals, Sequences, FiniteSets, SequencesExt

CONSTANTS Commands,   \* running commands
          ModuleFiles, EngineFiles,   \* the files of the templates, in sorted order
          MaxFaults,  \* bound on failing calls and kills
          MaxEdits    \* bound on files and directories the user makes

ASSUME NamesAssumption ==
  /\ MaxFaults \in Nat /\ MaxEdits \in Nat
  /\ "target" \notin Commands /\ "parent" \notin Commands
  /\ "user" \notin Commands /\ "nobody" \notin Commands
  /\ ModuleFiles \in Seq(STRING) /\ ModuleFiles # <<>>
  /\ EngineFiles \in Seq(STRING) /\ EngineFiles # <<>>

VARIABLES
  kind,      \* what each command does: "module", "engine" or "work"
  pc,        \* its next step
  next,      \* index of the file it creates or writes next
  created,   \* paths it has created, in order
  into,      \* directory it writes to
  found,     \* what findModuleRoot has seen of go.mod and go.sum
  dirs,      \* directories that exist
  file,      \* who made the file at a path, and whether it has its content
  above,     \* the module files in the directories above: "none", "whole" or "broken"
  faults, edits

vars == <<kind, pc, next, created, into, found, dirs, file, above, faults, edits>>
local == <<kind, next, created, into, found>>
disk == <<dirs, file, above>>

\* A directory is the target, the one above it, or the staging directory of
\* a command; .vscode is the only one inside them.
Roots == {"target", "parent"} \cup Commands
Top(d) == <<d>>
Inner(d) == <<d, ".vscode">>
Names == Range(ModuleFiles) \cup Range(EngineFiles) \cup {"go.work", "source"}
Paths == Roots \X Names
Dir(path) == IF path[2] = "settings.json" THEN Inner(path[1]) ELSE Top(path[1])
NoFile == [by |-> "nobody", whole |-> FALSE]
Exists(path) == file[path] # NoFile
Holds(d) == {path[2] : path \in {p \in Paths : Dir(p) = Top(d) /\ Exists(p)}} \cup (IF Inner(d) \in dirs THEN {".vscode"} ELSE {})

Template(c) ==
  CASE kind[c] = "module" -> ModuleFiles
    [] kind[c] = "engine" -> EngineFiles
    [] OTHER -> <<"go.work">>
Path(c) == <<into[c], Template(c)[next[c]]>>
Goto(c, label) == pc' = [pc EXCEPT ![c] = label]
Ended == {"done", "failed", "killed"}

---------------------------------------------------------------------------
(* What is there before anybody starts.                                    *)

Put(paths) == [p \in Paths |-> IF p \in paths THEN [by |-> "user", whole |-> TRUE] ELSE NoFile]
AModule == {<<"target", n>> : n \in Range(ModuleFiles)}

Init ==
  /\ kind \in [Commands -> {"module", "engine", "work"}]
  /\ \/ dirs = {Top("parent")} /\ file = Put({})
     \/ dirs = {Top("parent"), Top("target")} /\ file \in {Put({}), Put({<<"target", "source">>})}
     \/ dirs = {Top("parent"), Top("target"), Inner("target")} /\ file = Put(AModule)
  /\ above \in {"none", "whole", "broken"}
  /\ pc = [c \in Commands |-> "start"]
  /\ next = [c \in Commands |-> 1]
  /\ created = [c \in Commands |-> <<>>]
  /\ into = [c \in Commands |-> "target"]
  /\ found = [c \in Commands |-> {}]
  /\ faults = 0 /\ edits = 0

---------------------------------------------------------------------------
(* Before the first file.                                                  *)

\* The target is looked for; "work init" writes to the current directory,
\* which is there.
Inspect(c) ==
  /\ pc[c] = "start"
  /\ Goto(c, CASE kind[c] = "module" -> IF Top("target") \in dirs THEN "validate" ELSE "stage"
               [] kind[c] = "engine" -> IF Top("target") \in dirs THEN "find go.mod" ELSE "above"
               [] OTHER -> "module")
  /\ UNCHANGED <<local, disk, faults, edits>>

\* work init reads the go.mod of the module it will name.
ReadModule(c) ==
  /\ pc[c] = "module"
  /\ LET mod == <<"target", "go.mod">>
     IN IF Top("target") \in dirs /\ Exists(mod) /\ file[mod].whole
        THEN into' = [into EXCEPT ![c] = "parent"] /\ Goto(c, "mkdir")
        ELSE Goto(c, "failed") /\ UNCHANGED into
  /\ UNCHANGED <<kind, next, created, found, disk, faults, edits>>

\* findModuleRoot: one Stat for go.mod, one for go.sum, then go.mod is read.
FindFile(c, label, name, then) ==
  /\ pc[c] = label
  /\ found' = [found EXCEPT ![c] = @ \cup {n \in {name} : Exists(<<"target", n>>)}]
  /\ Goto(c, then)
  /\ UNCHANGED <<kind, next, created, into, disk, faults, edits>>
FindMod(c) == FindFile(c, "find go.mod", "go.mod", "find go.sum")
FindSum(c) == FindFile(c, "find go.sum", "go.sum", "root")

FindRoot(c) ==
  /\ pc[c] = "root"
  /\ Goto(c, IF found[c] = {} THEN "above"
             ELSE IF Cardinality(found[c]) = 2 /\ file[<<"target", "go.mod">>].whole THEN "validate"
             ELSE "failed")
  /\ UNCHANGED <<local, disk, faults, edits>>

FindAbove(c) ==
  /\ pc[c] = "above"
  /\ Goto(c, IF above # "whole" THEN "failed" ELSE IF found[c] = {} /\ Top("target") \notin dirs THEN "stage" ELSE "validate")
  /\ UNCHANGED <<local, disk, faults, edits>>

\* The names that may be in the directory already.
Allowed(c) == IF kind[c] = "engine" /\ found[c] # {} THEN {".gitignore", ".vscode", "go.mod", "go.sum"} ELSE {}

Validate(c) ==
  /\ pc[c] = "validate"
  /\ Goto(c, IF Top("target") \in dirs /\ Holds("target") \subseteq Allowed(c) THEN "mkdir" ELSE "failed")
  /\ UNCHANGED <<local, disk, faults, edits>>

\* writeNewDirectory: a directory of a new name beside the target.
Stage(c) ==
  /\ pc[c] = "stage"
  /\ dirs' = dirs \cup {Top(c)}
  /\ into' = [into EXCEPT ![c] = c]
  /\ Goto(c, "mkdir")
  /\ UNCHANGED <<kind, next, created, found, file, above, faults, edits>>

---------------------------------------------------------------------------
(* writeFiles.                                                             *)

\* MkdirAll makes the target again if it has gone.
MakeDirectory(c) ==
  /\ pc[c] = "mkdir"
  /\ dirs' = dirs \cup {Top(into[c]), Dir(Path(c))}
  /\ Goto(c, "create")
  /\ UNCHANGED <<local, file, above, faults, edits>>

\* Mutant: a file that is there is opened all the same.
CreateOrTruncate(c) ==
  /\ pc[c] = "create"
  /\ IF Dir(Path(c)) \in dirs
     THEN /\ file' = [file EXCEPT ![Path(c)] = [by |-> c, whole |-> FALSE]]
          /\ created' = [created EXCEPT ![c] = Append(@, Path(c))]
          /\ Goto(c, "write")
     ELSE Goto(c, "rollback") /\ UNCHANGED <<file, created>>
  /\ UNCHANGED <<kind, next, into, found, dirs, above, faults, edits>>

Create(c) ==
  /\ pc[c] = "create"
  /\ IF Dir(Path(c)) \in dirs /\ ~Exists(Path(c))
     THEN /\ file' = [file EXCEPT ![Path(c)] = [by |-> c, whole |-> FALSE]]
          /\ created' = [created EXCEPT ![c] = Append(@, Path(c))]
          /\ Goto(c, "write")
     ELSE Goto(c, "rollback") /\ UNCHANGED <<file, created>>
  /\ UNCHANGED <<kind, next, into, found, dirs, above, faults, edits>>

\* Mutant: the last file is forgotten.
WriteAllButOne(c) ==
  /\ pc[c] = "write"
  /\ file' = [file EXCEPT ![Path(c)].whole = TRUE]
  /\ next' = [next EXCEPT ![c] = @ + 1]
  /\ Goto(c, IF next[c] + 1 < Len(Template(c)) THEN "mkdir" ELSE IF into[c] = c THEN "lookup" ELSE "done")
  /\ UNCHANGED <<kind, created, into, found, dirs, above, faults, edits>>

Write(c) ==
  /\ pc[c] = "write"
  /\ file' = [file EXCEPT ![Path(c)].whole = TRUE]
  /\ next' = [next EXCEPT ![c] = @ + 1]
  /\ Goto(c, IF next[c] < Len(Template(c)) THEN "mkdir" ELSE IF into[c] = c THEN "lookup" ELSE "done")
  /\ UNCHANGED <<kind, created, into, found, dirs, above, faults, edits>>

\* Mutant: the first file stays.
RollbackButLast(c) ==
  /\ pc[c] = "rollback"
  /\ IF Len(created[c]) > 1
     THEN /\ file' = [file EXCEPT ![Last(created[c])] = NoFile]
          /\ created' = [created EXCEPT ![c] = Front(@)]
          /\ UNCHANGED <<dirs, pc>>
     ELSE /\ dirs' = dirs \ {d \in {Inner(into[c])} : kind[c] = "module" /\ ~Exists(<<into[c], "settings.json">>)}
          /\ Goto(c, IF into[c] = c THEN "unstage" ELSE "failed")
          /\ UNCHANGED <<file, created>>
  /\ UNCHANGED <<kind, next, into, found, above, faults, edits>>


\* The files go in the reverse of the order in which they came.
Rollback(c) ==
  /\ pc[c] = "rollback"
  /\ IF created[c] # <<>>
     THEN /\ file' = [file EXCEPT ![Last(created[c])] = NoFile]
          /\ created' = [created EXCEPT ![c] = Front(@)]
          /\ UNCHANGED <<dirs, pc>>
     ELSE /\ dirs' = dirs \ {d \in {Inner(into[c])} : kind[c] = "module" /\ ~Exists(<<into[c], "settings.json">>)}
          /\ Goto(c, IF into[c] = c THEN "unstage" ELSE "failed")
          /\ UNCHANGED <<file, created>>
  /\ UNCHANGED <<kind, next, into, found, above, faults, edits>>

---------------------------------------------------------------------------
(* os.Rename looks whether the new name is a directory, then asks the      *)
(* system, which would put the directory in the place of an empty one.     *)

Lookup(c) ==
  /\ pc[c] = "lookup"
  /\ Goto(c, IF Top("target") \in dirs THEN "unstage" ELSE "rename")
  /\ UNCHANGED <<local, disk, faults, edits>>

Rename(c) ==
  /\ pc[c] = "rename"
  /\ IF Top("target") \in dirs /\ Holds("target") # {}
     THEN Goto(c, "unstage") /\ UNCHANGED <<dirs, file>>
     ELSE /\ dirs' = (dirs \ {Top(c), Inner(c)}) \cup {Top("target")} \cup {d \in {Inner("target")} : Inner(c) \in dirs}
          /\ file' = [p \in Paths |-> IF p[1] = "target" THEN file[<<c, p[2]>>] ELSE IF p[1] = c THEN NoFile ELSE file[p]]
          /\ Goto(c, "done")
  /\ UNCHANGED <<local, above, faults, edits>>

\* The deferred RemoveAll.
Unstage(c) ==
  /\ pc[c] = "unstage"
  /\ dirs' = dirs \ {Top(c), Inner(c)}
  /\ file' = [p \in Paths |-> IF p[1] = c THEN NoFile ELSE file[p]]
  /\ Goto(c, "failed")
  /\ UNCHANGED <<local, above, faults, edits>>

---------------------------------------------------------------------------
(* Failing calls, kills, and the user.                                     *)

\* A call fails: before there is a directory of its own or a file the
\* command ends, later it takes back what it did.
Fault(c) ==
  /\ faults < MaxFaults /\ faults' = faults + 1
  /\ pc[c] \notin Ended \cup {"rollback", "unstage"}
  /\ Goto(c, CASE pc[c] \in {"mkdir", "create", "write"} -> "rollback"
               [] pc[c] \in {"lookup", "rename"} -> "unstage"
               [] OTHER -> "failed")
  /\ UNCHANGED <<local, disk, edits>>

Kill(c) ==
  /\ faults < MaxFaults /\ faults' = faults + 1
  /\ pc[c] \notin Ended
  /\ Goto(c, "killed")
  /\ UNCHANGED <<local, disk, edits>>

UserFile(name) ==
  /\ edits < MaxEdits /\ edits' = edits + 1
  /\ Dir(<<"target", name>>) \in dirs /\ ~Exists(<<"target", name>>)
  /\ file' = [file EXCEPT ![<<"target", name>>] = [by |-> "user", whole |-> TRUE]]
  /\ UNCHANGED <<local, pc, dirs, above, faults>>

UserDirectory ==
  /\ edits < MaxEdits /\ edits' = edits + 1
  /\ \E d \in {Top("target"), Inner("target")} \ dirs :
       /\ d = Top("target") \/ Top("target") \in dirs
       /\ dirs' = dirs \cup {d}
  /\ UNCHANGED <<local, pc, file, above, faults>>

---------------------------------------------------------------------------
Step(c) ==
  \/ Inspect(c) \/ ReadModule(c) \/ FindMod(c) \/ FindSum(c) \/ FindRoot(c) \/ FindAbove(c)
  \/ Validate(c) \/ Stage(c) \/ MakeDirectory(c) \/ Create(c) \/ Write(c) \/ Rollback(c)
  \/ Lookup(c) \/ Rename(c) \/ Unstage(c)

Next ==
  \/ \E c \in Commands : Step(c) \/ Fault(c) \/ Kill(c)
  \/ UserDirectory
  \/ \E name \in Names \ {"go.work"} : UserFile(name)

Spec == Init /\ [][Next]_vars

---------------------------------------------------------------------------
(* Properties. *)

\* A command that reports success has made all its files and nobody has
\* taken one back; one that reports an error has left none, not even in
\* its staging directory.
AllOrNothing ==
  \A c \in Commands :
    /\ pc[c] = "done" => \A n \in Range(Template(c)) :
                           file[<<IF kind[c] = "work" THEN "parent" ELSE "target", n>>] = [by |-> c, whole |-> TRUE]
    /\ pc[c] = "failed" => Top(c) \notin dirs /\ \A p \in Paths : file[p].by # c

\* A new directory appears with all its files or not at all, whenever the
\* command is killed and whoever makes a directory of that name meanwhile.
NewDirectoryWhole ==
  \A c \in Commands :
    (into[c] = c /\ \E p \in Paths : p[1] = "target" /\ file[p].by = c) =>
      \A n \in Range(Template(c)) : file[<<"target", n>>] = [by |-> c, whole |-> TRUE]

\* What the user or a finished command has put there is never replaced or
\* removed: neither by an open, nor a rollback, nor a rename.
NothingOverwritten ==
  [][\A p \in Paths :
       (file[p].by = "user" \/ \E c \in Commands : file[p].by = c /\ pc[c] = "done" /\ p[1] # c) => file'[p] = file[p]]_vars
=============================================================================
