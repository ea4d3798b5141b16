----------------------------- MODULE LinkedSort -----------------------------
(***************************************************************************)
(* The code the frontend emits for SortLinkedEntities and                  *)
(* SortDoublyLinkedEntities (internal/compiler/frontend/lower.go): a       *)
(* bottom-up merge sort that cuts runs off a list of entities and appends  *)
(* them again, by writing the links only.  One step is one basic block or  *)
(* the few blocks that follow each other without a loop.                   *)
(*                                                                         *)
(* The callables of the program are arrays here: next and previous are the *)
(* links of the entities, less is what the comparator answers.             *)
(***************************************************************************)
EXTENDS Integers, Sequences, FiniteSets, SequencesExt

CONSTANTS
  Entities,     \* entity indices, from 0 on
  Comparators   \* the relations between entities that the comparator may be

EntitiesFromZero == IsFiniteSet(Entities) /\ Entities = 0..Cardinality(Entities) - 1

ASSUME LinkedSortAssumption ==
  EntitiesFromZero /\ Comparators \subseteq SUBSET (Entities \X Entities)

Nil == -1
Refs == Entities \cup {Nil}

VARIABLES
  size,            \* the entities in the list are those below
  next, previous,  \* the links of every entity
  less,            \* pairs the comparator calls less
  doubly,          \* whether the previous links are written too
  block,           \* the block being executed
  local            \* the locals of the emitted code

listVars == <<size, next, previous, less, doubly, block, local>>

Valid(ref) == ref >= 0
Goto(label, locals) == block' = label /\ local' = locals
OnlyLocals == UNCHANGED <<size, next, previous, less, doubly>>
SetNext(ref, value) ==
  /\ next' = [next EXCEPT ![ref] = value]
  /\ UNCHANGED <<size, previous, less, doubly>>

Locals(head) ==
  [result |-> head, width |-> 1, current |-> Nil, newHead |-> Nil, tail |-> Nil,
   merges |-> 0, left |-> Nil, right |-> Nil, rest |-> Nil, end |-> Nil, count |-> 0]

\* A list of the first n entities in the order of their indices; what is not
\* in it points into it, and the previous links are what an earlier order left.
ListOf(n) == [e \in Entities |-> IF e + 1 < n THEN e + 1 ELSE IF e < n THEN Nil ELSE 0]

ListInit ==
  /\ size \in 0..Cardinality(Entities)
  /\ next = ListOf(size)
  /\ local = Locals(IF size = 0 THEN Nil ELSE 0)
  /\ previous = [e \in Entities |-> e]
  /\ less \in Comparators
  /\ doubly \in BOOLEAN
  /\ block = "pass"

-----------------------------------------------------------------------------
\* A pass over the list in runs of the width.
ListPass ==
  /\ block = "pass"
  /\ IF Valid(local.result)
     THEN Goto("outer", [local EXCEPT !.current = local.result, !.newHead = Nil,
                                      !.tail = Nil, !.merges = 0])
     ELSE Goto("done", local)
  /\ OnlyLocals

\* The next two runs, if the list has more.
Outer ==
  /\ block = "outer"
  /\ IF Valid(local.current)
     THEN Goto("left", [local EXCEPT !.merges = @ + 1, !.left = local.current,
                                     !.end = local.current, !.count = 1])
     ELSE Goto("finish", local)
  /\ OnlyLocals

WithinRun == local.count < local.width /\ Valid(next[local.end])
Advance == Goto(block, [local EXCEPT !.end = next[local.end], !.count = @ + 1])

\* The left run is walked to its end and cut there.
SplitLeft ==
  /\ block = "left"
  /\ IF WithinRun
     THEN Advance /\ OnlyLocals
     ELSE LET right == next[local.end]
          IN /\ SetNext(local.end, Nil)
             /\ IF Valid(right)
                THEN Goto("right", [local EXCEPT !.right = right, !.end = right, !.count = 1])
                ELSE Goto("merge", [local EXCEPT !.right = Nil, !.rest = Nil])

\* mutant: the link is read after the run was cut off
SplitRightCutFirst ==
  /\ block = "right"
  /\ IF WithinRun
     THEN Advance /\ OnlyLocals
     ELSE SetNext(local.end, Nil) /\ Goto("merge", [local EXCEPT !.rest = next'[local.end]])
\* So is the right run, if there is one; the rest of the list is kept.
SplitRight ==
  /\ block = "right"
  /\ IF WithinRun
     THEN Advance /\ OnlyLocals
     ELSE SetNext(local.end, Nil) /\ Goto("merge", [local EXCEPT !.rest = next[local.end]])

\* mutant: the right one of two equal ones goes first
RightUnlessGreater ==
  Valid(local.right) /\ (Valid(local.left) => <<local.left, local.right>> \notin less)
RightFirst == Valid(local.right) /\ (Valid(local.left) => <<local.right, local.left>> \in less)

Appended(run) ==
  LET chosen == local[run]
      moved == [local EXCEPT ![run] = next[chosen], !.tail = chosen,
                             !.newHead = IF Valid(local.tail) THEN @ ELSE chosen]
  IN /\ IF Valid(local.tail) THEN SetNext(local.tail, chosen) ELSE OnlyLocals
     /\ IF Valid(moved.left) \/ Valid(moved.right)
        THEN Goto("merge", moved)
        ELSE Goto("outer", [moved EXCEPT !.current = local.rest])

Merge == block = "merge" /\ Appended(IF RightFirst THEN "right" ELSE "left")

\* The list ends at the tail.  One merge was the whole list.
Doubled == 2 * local.width
Finish ==
  /\ block = "finish"
  /\ IF Valid(local.tail) THEN SetNext(local.tail, Nil) ELSE OnlyLocals
  /\ IF local.merges > 1
     THEN Goto("pass", [local EXCEPT !.result = local.newHead, !.width = Doubled])
     ELSE Goto("done", [local EXCEPT !.result = local.newHead])

\* The previous links, from the head on: current follows the list, tail is
\* the entity before it.
\* mutant: the previous links are written without a setter for them
DoneAlways ==
  /\ block = "done"
  /\ Goto("previous", [local EXCEPT !.current = local.result, !.tail = Nil])
  /\ OnlyLocals
ListDone ==
  /\ block = "done"
  /\ IF doubly THEN Goto("previous", [local EXCEPT !.current = local.result, !.tail = Nil])
               ELSE Goto("returned", local)
  /\ OnlyLocals

SetPrevious ==
  /\ block = "previous"
  /\ IF Valid(local.current)
     THEN /\ previous' = [previous EXCEPT ![local.current] = local.tail]
          /\ Goto("previous", [local EXCEPT !.tail = local.current,
                                            !.current = next[local.current]])
     ELSE Goto("returned", local) /\ UNCHANGED previous
  /\ UNCHANGED <<size, next, less, doubly>>

ListNext == ListPass \/ Outer \/ SplitLeft \/ SplitRight \/ Merge \/ Finish \/ ListDone \/ SetPrevious

ListSpec == ListInit /\ [][ListNext]_listVars /\ WF_listVars(ListNext)

-----------------------------------------------------------------------------
Members == 0..size - 1

\* The entities from ref to last along the links, as far as a list could go.
ChainTo(ref, last) ==
  LET Walk[n \in 0..Cardinality(Entities)] ==
        IF n = 0 THEN <<>>
        ELSE LET chain == Walk[n - 1]
                 end == chain[Len(chain)]
                 reached == IF chain = <<>> THEN ref ELSE IF end = last THEN Nil ELSE next[end]
             IN IF Valid(reached) THEN Append(chain, reached) ELSE chain
  IN Walk[Cardinality(Entities)]

ChainFrom(ref) == ChainTo(ref, Nil)

\* From the new head to the tail; what the tail still points to is not merged.
Merged == IF Valid(local.tail) THEN ChainTo(local.newHead, local.tail) ELSE <<>>

\* What the locals of a block hold the list by.
Held ==
  CASE block \in {"outer", "finish"} -> Merged \o ChainFrom(local.current)
    [] block = "left"  -> Merged \o ChainFrom(local.left)
    [] block = "right" -> Merged \o ChainFrom(local.left) \o ChainFrom(local.right)
    [] block = "merge" -> Merged \o ChainFrom(local.left) \o ChainFrom(local.right)
                            \o ChainFrom(local.rest)
    [] OTHER           -> ChainFrom(local.result)

(***************************************************************************)
(* Whatever the comparator answers, the list is held in full at every      *)
(* block, every entity once: what is merged, the runs that were cut off    *)
(* and the rest are apart and are all of it ("only the links are           *)
(* rearranged", docs/dsl-reference.md:374).                                *)
(***************************************************************************)
NothingLost == IsInjective(Held) /\ ToSet(Held) = Members

\* Equal entities have the same lesser and the same greater ones.
WeakOrder ==
  /\ \A a, b \in Members : <<a, b>> \in less => <<b, a>> \notin less
  /\ \A a, b, c \in Members :
       <<a, c>> \in less => <<a, b>> \in less \/ <<b, c>> \in less

(***************************************************************************)
(* What is returned is the head of the list in the order of a comparator   *)
(* that is a strict weak order, equal entities as they were ("stable",     *)
(* docs/dsl-reference.md:374), and for SortDoublyLinkedEntities the        *)
(* previous links run through the same list backwards.                     *)
(***************************************************************************)
SortedBothWays ==
  block = "returned" =>
    LET chain == ChainFrom(local.result)
    IN /\ WeakOrder => \A i, j \in DOMAIN chain : i < j =>
            /\ <<chain[j], chain[i]>> \notin less
            /\ <<chain[i], chain[j]>> \notin less => chain[i] < chain[j]
       /\ doubly => \A i \in DOMAIN chain :
            previous[chain[i]] = IF i = 1 THEN Nil ELSE chain[i - 1]

(***************************************************************************)
(* The links of an entity that is not in the list are never written, and   *)
(* without a setter for them no previous link is.                          *)
(***************************************************************************)
OnlyListWritten ==
  [][/\ \A e \in Entities \ Members : next'[e] = next[e] /\ previous'[e] = previous[e]
     /\ ~doubly => UNCHANGED previous]_listVars

(***************************************************************************)
(* The sort returns, for every comparator: the width doubles until one     *)
(* merge was the whole list.  The callback runs the code to its end, so    *)
(* the next block is always executed.                                      *)
(***************************************************************************)
Returns == <>(block = "returned")
=============================================================================
