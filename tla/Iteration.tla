----------------------------- MODULE Iteration -----------------------------
(***************************************************************************)
(* FoldLeft for long sequences and large states: TLC recurs only as deep   *)
(* as the logarithm of the length, and has every state before it goes on.  *)
(***************************************************************************)
EXTENDS Integers, Sequences

Iterate(Op(_, _), base, seq) ==
  LET RECURSIVE From(_, _, _), After(_, _, _)
      From(acc, i, j) ==
        IF i < j THEN After(From(acc, i, (i + j) \div 2), (i + j) \div 2 + 1, j)
        ELSE IF i = j THEN Op(acc, seq[i]) ELSE acc
      After(acc, i, j) == IF acc \in {} THEN acc ELSE From(acc, i, j)  \* \in evaluates acc
  IN From(base, 1, Len(seq))

\* The sequences of the elements, one after the other.
FlatMap(Of(_), seq) == Iterate(LAMBDA all, e : all \o Of(e), <<>>, seq)
=============================================================================
