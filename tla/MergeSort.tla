----------------------------- MODULE MergeSort -----------------------------
(***************************************************************************)
(* The merge sort emitted for VarArray.SortFunc on capacities above 16     *)
(* (internal/compiler/frontend/container_sort.go): bottom-up runs, merged  *)
(* in place by cutting both runs, rotating the middle and merging the two  *)
(* halves, the smaller first and the other on a stack of fixed size.       *)
(*                                                                         *)
(* An element is <<key, original index>>; only the key is compared.  One   *)
(* step is one basic block of the emitted code, a search probe or a whole  *)
(* rotation (three reversals).                                             *)
(***************************************************************************)
EXTENDS Integers, Sequences, FiniteSets

CONSTANTS
  Keys,      \* what the comparator looks at, with its order
  Capacity,  \* capacity of the array, positive
  Log        \* bits.Len(Capacity)

ASSUME MergeSortAssumption ==
  /\ Keys \subseteq Int
  /\ Capacity \in Nat \ {0} /\ Log \in Nat
  /\ 2 ^ (Log - 1) <= Capacity /\ Capacity < 2 ^ Log

\* Arithmetic that the provers do not know: they take powers as given.
ASSUME PowersAssumption ==
  \A k \in 0..Log : 2 ^ k \in Nat /\ 2 ^ (k + 1) = 2 * 2 ^ k

VARIABLES
  cells,   \* the elements, by index from 0
  pc,      \* the block
  width,   \* length of the runs of this pass
  start,   \* first index of the pair of runs being merged
  merge,   \* the merge at hand: first, middle, end
  stack,   \* merges put off
  cut      \* the cuts of the split and the interval being searched

vars == <<cells, pc, width, start, merge, stack, cut>>

Size == Cardinality(DOMAIN cells)
StackCapacity == Log + 1
Less(i, j) == cells[i][1] < cells[j][1]
Half(n) == n \div 2
Lesser(m, n) == IF m <= n THEN m ELSE n
Triple(a, m, e) == [first |-> a, middle |-> m, end |-> e]

NoCut == [one |-> 0, two |-> 0, low |-> 0, high |-> 0, left |-> TRUE]

Init ==
  /\ \E size \in 0..Capacity : \E key \in [0..size - 1 -> Keys] :
       cells = [i \in 0..size - 1 |-> <<key[i], i>>]
  /\ pc = "passes"
  /\ width = 1 /\ start = 0
  /\ merge = Triple(0, 0, 0) /\ stack = <<>> /\ cut = NoCut

\* The next pass, of runs of this width; none if one run is all.
Pass ==
  /\ pc = "passes"
  /\ pc' = IF width < Size THEN "runs" ELSE "done"
  /\ start' = 0
  /\ UNCHANGED <<cells, width, merge, stack, cut>>

\* The next two runs; a run without a second is left as it is.
Run ==
  /\ pc = "runs"
  /\ IF start + width < Size
     THEN /\ merge' = Triple(start, start + width, Lesser(start + 2 * width, Size))
          /\ pc' = "work"
          /\ UNCHANGED width
     ELSE pc' = "passes" /\ width' = 2 * width /\ UNCHANGED merge
  /\ UNCHANGED <<cells, start, stack, cut>>

Unordered ==
  /\ merge.first < merge.middle /\ merge.middle < merge.end
  /\ Less(merge.middle, merge.middle - 1)

Swapped ==
  [cells EXCEPT ![merge.first] = cells[merge.middle], ![merge.middle] = cells[merge.first]]

\* Nothing to do, two elements to swap, or two runs to cut.
Inspect ==
  /\ pc = "work"
  /\ IF ~Unordered THEN pc' = "pop" /\ UNCHANGED cells
     ELSE IF merge.end - merge.first = 2
     THEN cells' = Swapped /\ pc' = "pop"
     ELSE pc' = "split" /\ UNCHANGED cells
  /\ UNCHANGED <<width, start, merge, stack, cut>>

\* The longer run is cut in the middle, the other searched for that pivot.
Split ==
  /\ pc = "split"
  /\ pc' = "search"
  /\ cut' =
       IF merge.middle - merge.first > merge.end - merge.middle
       THEN [one |-> merge.first + Half(merge.middle - merge.first), two |-> 0,
             low |-> merge.middle, high |-> merge.end, left |-> TRUE]
       ELSE [one |-> 0, two |-> merge.middle + Half(merge.end - merge.middle),
             low |-> merge.first, high |-> merge.middle, left |-> FALSE]
  /\ UNCHANGED <<cells, width, start, merge, stack>>

\* Whether the probe lies before the cut: a pivot from the left run is
\* looked up from below, one from the right run from above.
BeforeOrEqual(probe) == \* mutant: both are looked up from above
  IF cut.left THEN ~Less(cut.one, probe) ELSE ~Less(cut.two, probe)
Before(probe) == IF cut.left THEN Less(probe, cut.one) ELSE ~Less(cut.two, probe)

Narrowed(low) == low \* mutant: the probe stays in the interval
Above(low) == low + 1
Probe == cut.low + Half(cut.high - cut.low)
Search ==
  /\ pc = "search"
  /\ IF cut.low < cut.high
     THEN /\ cut' = IF Before(Probe) THEN [cut EXCEPT !.low = Above(Probe)]
                                     ELSE [cut EXCEPT !.high = Probe]
          /\ UNCHANGED pc
     ELSE /\ cut' = IF cut.left THEN [cut EXCEPT !.two = cut.low]
                                ELSE [cut EXCEPT !.one = cut.low]
          /\ pc' = "rotate"
  /\ UNCHANGED <<cells, width, start, merge, stack>>

NewMiddle == cut.one + (cut.two - merge.middle)

\* Reverse [one, middle), [middle, two) and then the whole.
Reversed(contents, first, last) ==
  [i \in DOMAIN contents |->
     IF first <= i /\ i < last THEN contents[first + last - 1 - i] ELSE contents[i]]
Rotated(contents) ==
  Reversed(Reversed(Reversed(contents, cut.one, merge.middle), merge.middle, cut.two),
           cut.one, cut.two)

Rotate ==
  /\ pc = "rotate"
  /\ cells' = IF cut.one < merge.middle /\ merge.middle < cut.two THEN Rotated(cells) ELSE cells
  /\ pc' = "choose"
  /\ UNCHANGED <<width, start, merge, stack, cut>>

\* The smaller half is merged next, the larger one put off.
LeftIsLarger == merge.end - NewMiddle <= NewMiddle - merge.first \* mutant: the larger half first
LeftIsSmaller == NewMiddle - merge.first <= merge.end - NewMiddle
LeftPart == Triple(merge.first, cut.one, NewMiddle)
RightPart == Triple(NewMiddle, cut.two, merge.end)
Choose ==
  /\ pc = "choose"
  /\ IF LeftIsSmaller THEN stack' = Append(stack, RightPart) /\ merge' = LeftPart
                      ELSE stack' = Append(stack, LeftPart) /\ merge' = RightPart
  /\ pc' = "work"
  /\ UNCHANGED <<cells, width, start, cut>>

\* The last merge put off, or the next pair of runs.
Pop ==
  /\ pc = "pop"
  /\ IF stack # <<>>
     THEN /\ merge' = stack[Len(stack)]
          /\ stack' = SubSeq(stack, 1, Len(stack) - 1)
          /\ pc' = "work"
          /\ UNCHANGED start
     ELSE start' = start + 2 * width /\ pc' = "runs" /\ UNCHANGED <<merge, stack>>
  /\ UNCHANGED <<cells, width, cut>>

Done == pc = "done" /\ UNCHANGED vars

Next ==
  Pass \/ Run \/ Inspect \/ Split \/ Search \/ Rotate \/ Choose \/ Pop \/ Done

Spec == Init /\ [][Next]_vars
FairSpec == Spec /\ WF_vars(Next)

-----------------------------------------------------------------------------
(***************************************************************************)
(* The sort is stable (container_sort.go:12, docs/dsl-reference.md:376),   *)
(* and no step on the way ever exchanges equal elements.                   *)
(***************************************************************************)
EqualsInOrder ==
  \A i, j \in DOMAIN cells : i < j /\ cells[i][1] = cells[j][1] => cells[i][2] < cells[j][2]

(***************************************************************************)
(* No step loses or doubles an element, and at the end the keys ascend.    *)
(***************************************************************************)
Sorted ==
  /\ {cells[i][2] : i \in DOMAIN cells} = DOMAIN cells
  /\ pc = "done" => \A i, j \in DOMAIN cells : i < j => cells[i][1] <= cells[j][1]

\* Both: at the end the array is in order, and all along what compares
\* equal stays in the order it had.
SortedStably == Sorted /\ EqualsInOrder

(***************************************************************************)
(* "Processing the smaller subproblem first bounds the pending stack by    *)
(* log2(capacity)" (container_sort.go:13), less than the space it has      *)
(* (container_sort.go:50).                                                 *)
(***************************************************************************)
StackFits == 2 ^ Len(stack) <= Capacity /\ Len(stack) <= StackCapacity

\* Every sort ends.
Terminates == <>(pc = "done")
=============================================================================
