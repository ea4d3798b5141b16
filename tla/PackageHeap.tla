----------------------------- MODULE PackageHeap -----------------------------
(***************************************************************************)
(* What Go promises of the objects of a package and of the singleton of a  *)
(* level: every object exists once, has its initial value before the first *)
(* statement runs, and keeps what it was given last, however it is         *)
(* reached.  No addresses, no tags, no initialization.                     *)
(*                                                                         *)
(* A Cell is struct{ value }, a Node struct{ link *Cell; shape Shape;      *)
(* value }; both implement the interface Shape, whose method yields the    *)
(* value, and ten more for a Node.  The singleton is struct{ target *Cell; *)
(* mark Cell }.  Fields an object does not have hold "nil" and 0.          *)
(***************************************************************************)
EXTENDS Integers

CONSTANTS
  Objects,  \* the names of the objects, "mark" of the singleton among them
  Nodes,    \* those that are Nodes
  Numbers   \* the numbers statements assign

VARIABLES
  heap,     \* heap[o] = [value, link, shape]; the link of "mark" is the target
  reply     \* of the last statement: [statement, ended, value]

Cells == Objects \ Nodes

\* Pointer expressions, and the object one points to.
References == {<<"nil">>} \cup {<<"var", o>> : o \in Objects} \cup {<<"link", o>> : o \in Objects} \cup {<<"cast", o>> : o \in Nodes}
Target(ref) ==
  CASE ref[1] = "nil" -> "nil"
    [] ref[1] = "var" -> ref[2]
    [] ref[1] = "link" -> heap[ref[2]].link
    [] ref[1] = "cast" -> IF heap[ref[2]].shape \in Cells THEN heap[ref[2]].shape ELSE "nil"

Answer(s, value) == reply' = [statement |-> s, ended |-> FALSE, value |-> value]

\* A statement that uses a nil pointer ends the callback and changes nothing.
Ends(s, object) ==
  /\ object = "nil"
  /\ reply' = [statement |-> s, ended |-> TRUE, value |-> 0]
  /\ UNCHANGED heap

Get(ref) ==
  /\ Target(ref) # "nil"
  /\ Answer(<<"get", ref>>, heap[Target(ref)].value)
  /\ UNCHANGED heap
Set(ref, v) ==
  /\ Target(ref) # "nil"
  /\ heap' = [heap EXCEPT ![Target(ref)].value = v]
  /\ Answer(<<"set", ref, v>>, 0)
SetLink(o, ref) ==
  /\ heap' = [heap EXCEPT ![o].link = Target(ref)]
  /\ Answer(<<"link", o, ref>>, 0)
SetShape(o, ref) ==
  /\ heap' = [heap EXCEPT ![o].shape = Target(ref)]
  /\ Answer(<<"shape", o, ref>>, 0)
CopyShape(o, other) ==
  /\ heap' = [heap EXCEPT ![o].shape = heap[other].shape]
  /\ Answer(<<"copy", o, other>>, 0)
CallShape(o) ==
  LET on == heap[o].shape
  IN /\ on # "nil"
     /\ Answer(<<"call", o>>, heap[on].value + IF on \in Nodes THEN 10 ELSE 0)
     /\ UNCHANGED heap
Compare(ref, other) ==
  /\ Answer(<<"equal", ref, other>>, IF Target(ref) = Target(other) THEN 1 ELSE 0)
  /\ UNCHANGED heap

\* One statement: which, is in the reply.
Does(kind) ==
  \/ kind = "get" /\ \E ref \in References : Get(ref) \/ Ends(<<"get", ref>>, Target(ref))
  \/ kind = "set" /\ \E ref \in References, v \in Numbers : Set(ref, v) \/ Ends(<<"set", ref, v>>, Target(ref))
  \/ kind = "link" /\ \E o \in Objects, ref \in References : SetLink(o, ref)
  \/ kind = "shape" /\ \E o \in Nodes, ref \in References : SetShape(o, ref)
  \/ kind = "copy" /\ \E o, other \in Nodes : CopyShape(o, other)
  \/ kind = "call" /\ \E o \in Nodes : CallShape(o) \/ Ends(<<"call", o>>, heap[o].shape)
  \/ kind = "equal" /\ \E ref, other \in References : Compare(ref, other)
Next == Does(reply'.statement[1])
=============================================================================
