----------------------------- MODULE SortsProofs -----------------------------
(***************************************************************************)
(* Proofs about the two sorts.  The array sort, for every capacity, every  *)
(* set of keys and every array: what it leaves is in order, nothing is     *)
(* lost, equal elements never pass each other, and the merges put off fit  *)
(* on the stack.  The sort of a linked list, for every number of entities, *)
(* every comparator and every length of the list: no entity is lost, links *)
(* outside the list are not written, and a strict weak order leaves the    *)
(* list stably sorted with its previous links running backwards.           *)
(***************************************************************************)
EXTENDS MergeSort, LinkedSort, FiniteSetTheorems, SequenceTheorems, WellFoundedInduction, TLAPS

-----------------------------------------------------------------------------
(* The inductive invariant. *)

SortBlocks == {"passes", "runs", "work", "split", "search", "rotate", "choose", "pop", "done"}
Merges == [first : Nat, middle : Nat, end : Nat]
Cuts == [one : Nat, two : Nat, low : Nat, high : Nat, left : BOOLEAN]

\* The elements of an array of n, by their index.
Contents(c, n) ==
  /\ DOMAIN c = 0..n - 1
  /\ \A i \in 0..n - 1 : c[i][1] \in Int /\ c[i][2] \in 0..n - 1

TypeOK ==
  /\ Size \in 0..Capacity
  /\ Contents(cells, Size)
  /\ pc \in SortBlocks
  /\ width \in Nat \ {0}
  /\ start \in Nat
  /\ merge \in Merges
  /\ stack \in Seq(Merges)
  /\ cut \in Cuts

\* Every element is somewhere.
AllThere(c) == \A k \in DOMAIN c : \E i \in DOMAIN c : c[i][2] = k
\* Equal elements are in their original order.
Stable(c) ==
  \A i, j \in DOMAIN c : i < j /\ c[i][1] = c[j][1] => c[i][2] < c[j][2]
Ascends(c, i, j) == c[i][1] <= c[j][1]

\* Ends of runs of a width, and what lies in different runs.
Multiple(p, w) == \E m \in 0..p : p = m * w
Separated(i, j, w) == \E m \in 0..j : i < m * w /\ m * w <= j

\* The blocks between two runs taken up and the next two.
Active == pc \in {"work", "split", "search", "rotate", "choose", "pop"}
Merging == pc \in {"work", "split", "search", "rotate"}  \* the merge is still to be done
Holding == Merging \/ pc = "choose"                      \* the merge is in use
RegionEnd == Lesser(start + 2 * width, Size)

RunsOK ==
  /\ pc \in {"passes", "runs", "done"} => stack = <<>>
  /\ pc = "runs" => Multiple(start, 2 * width)
  /\ Active => Multiple(start, 2 * width) /\ start + width < Size

\* What is below has been merged, what is above has not.
RunsOrdered(c, low, high, w) ==
  \A i, j \in DOMAIN c : i < j =>
    /\ j < low /\ ~Separated(i, j, 2 * w) => Ascends(c, i, j)
    /\ high <= i /\ ~Separated(i, j, w) => Ascends(c, i, j)

Crosses(P, i, j) == P.first <= i /\ i < P.middle /\ P.middle <= j /\ j < P.end
\* An element of the left run of a merge that is still to be done, and one of its right run.
Awaits(i, j) ==
  \/ \E k \in DOMAIN stack : Crosses(stack[k], i, j)
  \/ Merging /\ Crosses(merge, i, j)
  \/ pc = "choose" /\ (Crosses(LeftPart, i, j) \/ Crosses(RightPart, i, j))

OrderOK ==
  /\ pc = "passes" => RunsOrdered(cells, 0, 0, width)
  /\ pc = "runs" => RunsOrdered(cells, start, start, width)
  /\ Active => RunsOrdered(cells, start, RegionEnd, width)
  /\ Active => \A i, j \in start..RegionEnd - 1 : i < j => Ascends(cells, i, j) \/ Awaits(i, j)
  /\ pc = "done" => \A i, j \in DOMAIN cells : i < j => Ascends(cells, i, j)

Inside(P, low, high) ==
  low <= P.first /\ P.first <= P.middle /\ P.middle <= P.end /\ P.end <= high
Apart(P, Q) == P.end <= Q.first \/ Q.end <= P.first

PutOffOK ==
  /\ \A k \in DOMAIN stack : Inside(stack[k], start, RegionEnd)
  /\ \A k, l \in DOMAIN stack : k # l => Apart(stack[k], stack[l])
  /\ Holding => Inside(merge, start, RegionEnd) /\ \A k \in DOMAIN stack : Apart(stack[k], merge)

\* The cut parts what is less from what is not.
LeftSearch ==
  /\ merge.first < cut.one /\ cut.one < merge.middle
  /\ merge.middle <= cut.low /\ cut.low <= cut.high /\ cut.high <= merge.end
  /\ \A x \in merge.middle..cut.low - 1 : cells[x][1] < cells[cut.one][1]
  /\ \A x \in cut.high..merge.end - 1 : cells[cut.one][1] <= cells[x][1]
RightSearch ==
  /\ merge.middle < cut.two /\ cut.two < merge.end
  /\ merge.first <= cut.low /\ cut.low <= cut.high /\ cut.high <= merge.middle
  /\ \A x \in merge.first..cut.low - 1 : cells[x][1] <= cells[cut.two][1]
  /\ \A x \in cut.high..merge.middle - 1 : cells[cut.two][1] < cells[x][1]
CutsInside ==
  /\ merge.first <= cut.one /\ cut.one <= merge.middle
  /\ merge.middle <= cut.two /\ cut.two <= merge.end
  /\ merge.first < NewMiddle /\ NewMiddle < merge.end
\* Between the cuts every element of the right run is less than every one of
\* the left run; the rest is in order across the runs.
Parted(c, first, one, middle, two, end) ==
  /\ \A x \in one..middle - 1, y \in middle..two - 1 : c[y][1] < c[x][1]
  /\ \A x \in first..one - 1, y \in two..end - 1 : c[x][1] <= c[y][1]

CutOK ==
  /\ pc \in {"split", "search", "rotate", "choose"} =>
       merge.first < merge.middle /\ merge.middle < merge.end /\ merge.end - merge.first > 2
  /\ pc = "search" => IF cut.left THEN LeftSearch ELSE RightSearch
  /\ pc \in {"rotate", "choose"} => CutsInside
  /\ pc = "rotate" => Parted(cells, merge.first, cut.one, merge.middle, cut.two, merge.end)

\* Every merge put off is at most half of the one it was cut from.
Length(P) == P.end - P.first
StackOK ==
  /\ Len(stack) <= Log
  /\ 2 ^ Len(stack) <= Capacity
  /\ \A k \in DOMAIN stack : Length(stack[k]) * 2 ^ (k - 1) <= Size
  /\ Holding => Length(merge) * 2 ^ Len(stack) <= Size

Inv ==
  /\ TypeOK
  /\ AllThere(cells)
  /\ Stable(cells)
  /\ RunsOK
  /\ OrderOK
  /\ PutOffOK
  /\ CutOK
  /\ StackOK

-----------------------------------------------------------------------------
(* Multiples of a width. *)

LEMMA MultipleZero == \A w \in Nat : Multiple(0, w)
BY DEF Multiple

LEMMA MultipleNext ==
  ASSUME NEW p \in Nat, NEW w \in Nat \ {0}, Multiple(p, w)
  PROVE  Multiple(p + w, w)
<1>1. PICK m \in 0..p : p = m * w  BY DEF Multiple
<1>2. p + w = (m + 1) * w  BY <1>1
<1>3. m + 1 \in 0..p + w  BY <1>1
<1> QED  BY <1>2, <1>3 DEF Multiple

\* A product is at least each positive factor.
LEMMA ProductBound ==
  ASSUME NEW m \in Nat \ {0}, NEW w \in Nat
  PROVE  m * w >= w
<1>1. PICK k \in Nat : m = k + 1
  <2>1. m - 1 \in Nat /\ m = (m - 1) + 1  OBVIOUS
  <2> QED  BY <2>1
<1>2. m * w = k * w + w  BY <1>1
<1>3. k * w >= 0  BY <1>1
<1> QED  BY <1>2, <1>3

\* A multiple of the width separates what is below from what is not.
LEMMA SeparatedAt ==
  ASSUME NEW p \in Nat, NEW w \in Nat \ {0}, Multiple(p, w),
         NEW i \in Nat, NEW j \in Nat, i < p, p <= j
  PROVE  Separated(i, j, w)
<1>1. PICK m \in 0..p : p = m * w  BY DEF Multiple
<1> QED  BY <1>1 DEF Separated

\* All that lies below the width is one run.
LEMMA FirstRun ==
  ASSUME NEW w \in Nat \ {0}, NEW i \in Nat, NEW j \in Nat, j < w
  PROVE  ~Separated(i, j, w)
<1> SUFFICES ASSUME NEW m \in 0..j, i < m * w, m * w <= j
             PROVE  FALSE
  BY DEF Separated
<1>1. m # 0
  <2>1. 0 * w = 0  OBVIOUS
  <2> QED  BY <2>1
<1>2. m * w >= w  BY <1>1, ProductBound
<1> QED  BY <1>2

LEMMA BetweenNeighbours ==
  ASSUME NEW m \in Nat, NEW n \in Nat, NEW w \in Nat \ {0},
         m * w < n * w, n * w < (m + 2) * w
  PROVE  n = m + 1
<1>1. n > m
  <2>1. SUFFICES ASSUME n <= m PROVE FALSE  OBVIOUS
  <2>2. (m - n) * w >= 0  BY <2>1
  <2>3. m * w = n * w + (m - n) * w  OBVIOUS
  <2> QED  BY <2>2, <2>3
<1>2. n < m + 2
  <2>1. SUFFICES ASSUME n >= m + 2 PROVE FALSE  OBVIOUS
  <2>2. (n - (m + 2)) * w >= 0  BY <2>1
  <2>3. n * w = (m + 2) * w + (n - (m + 2)) * w  OBVIOUS
  <2> QED  BY <2>2, <2>3
<1> QED  BY <1>1, <1>2

\* Two runs from a multiple of twice the width meet in the middle only.
LEMMA OnlyMiddle ==
  ASSUME NEW p \in Nat, NEW w \in Nat \ {0}, Multiple(p, 2 * w),
         NEW i \in Nat, NEW j \in Nat, p <= i, j < p + 2 * w, Separated(i, j, w)
  PROVE  i < p + w /\ p + w <= j
<1>1. PICK m \in 0..p : p = m * (2 * w)  BY DEF Multiple
<1>2. PICK n \in 0..j : i < n * w /\ n * w <= j  BY DEF Separated
<1>3. 2 * m \in Nat /\ n \in Nat  OBVIOUS
<1>4. (2 * m) * w = p  BY <1>1
<1>5. (2 * m + 2) * w = p + 2 * w  BY <1>4
<1>6. (2 * m) * w < n * w /\ n * w < (2 * m + 2) * w  BY <1>2, <1>4, <1>5
<1>7. n = 2 * m + 1  BY <1>3, <1>6, BetweenNeighbours
<1>8. n * w = p + w  BY <1>4, <1>7
<1> QED  BY <1>2, <1>8

-----------------------------------------------------------------------------
(* Two neighbouring stretches change places: what a rotation does, and a   *)
(* swap of two neighbours.                                                 *)

Source(i, a, m, e) ==
  IF a <= i /\ i < a + (e - m) THEN i + (m - a)
  ELSE IF a + (e - m) <= i /\ i < e THEN i - (e - m) ELSE i
Exchanged(c, d, a, m, e) ==
  /\ DOMAIN d = DOMAIN c
  /\ \A i \in DOMAIN c : d[i] = c[Source(i, a, m, e)]

LEMMA RotatedExchanges ==
  ASSUME NEW n \in Nat, NEW c, DOMAIN c = 0..n - 1, merge \in Merges, cut \in Cuts,
         cut.one <= merge.middle, merge.middle <= cut.two, cut.two <= n
  PROVE  Exchanged(c, Rotated(c), cut.one, merge.middle, cut.two)
<1> DEFINE a == cut.one
           m == merge.middle
           e == cut.two
           c1 == Reversed(c, a, m)
           c2 == Reversed(c1, m, e)
           c3 == Reversed(c2, a, e)
<1>0. a \in Nat /\ m \in Nat /\ e \in Nat /\ a <= m /\ m <= e /\ e <= n
  BY DEF Merges, Cuts
<1>1. Rotated(c) = c3  BY DEF Rotated
<1> HIDE DEF a, m, e
<1>2. /\ DOMAIN c1 = 0..n - 1
      /\ \A i \in 0..n - 1 : c1[i] = c[IF a <= i /\ i < m THEN a + m - 1 - i ELSE i]
  BY DEF Reversed
<1> HIDE DEF c1
<1>3. /\ DOMAIN c2 = 0..n - 1
      /\ \A i \in 0..n - 1 : c2[i] = c1[IF m <= i /\ i < e THEN m + e - 1 - i ELSE i]
  BY <1>2 DEF Reversed
<1> HIDE DEF c2
<1>4. /\ DOMAIN c3 = 0..n - 1
      /\ \A i \in 0..n - 1 : c3[i] = c2[IF a <= i /\ i < e THEN a + e - 1 - i ELSE i]
  BY <1>3 DEF Reversed
<1> HIDE DEF c3
<1>5. ASSUME NEW i \in 0..n - 1
      PROVE  c3[i] = c[Source(i, a, m, e)]
  <2>1. CASE a <= i /\ i < a + (e - m)
    <3>0. a + e - 1 - i \in 0..n - 1 /\ a <= i /\ i < e  BY <1>0, <2>1
    <3>1. c3[i] = c2[a + e - 1 - i] /\ a + e - 1 - i \in 0..n - 1
      BY <1>4, <3>0
    <3>2. m <= a + e - 1 - i /\ a + e - 1 - i < e  BY <1>0, <2>1
    <3>3. c2[a + e - 1 - i] = c1[m + e - 1 - (a + e - 1 - i)]  BY <1>3, <3>1, <3>2
    <3>4. m + e - 1 - (a + e - 1 - i) = i + (m - a)  BY <1>0
    <3>5. i + (m - a) \in 0..n - 1 /\ m <= i + (m - a)  BY <1>0, <2>1
    <3>6. c1[i + (m - a)] = c[i + (m - a)]
      <4>1. ~(i + (m - a) < m)  BY <1>0, <3>5
      <4> QED  BY <1>2, <3>5, <4>1
    <3> QED  BY <2>1, <3>1, <3>3, <3>4, <3>6 DEF Source
  <2>2. CASE a + (e - m) <= i /\ i < e
    <3>1. c3[i] = c2[a + e - 1 - i] /\ a + e - 1 - i \in 0..n - 1
      BY <1>0, <1>4, <2>2
    <3>2. PICK k \in 0..n - 1 : k = a + e - 1 - i /\ a <= k /\ k < m
      BY <1>0, <2>2, <3>1
    <3>3. ~(m <= k /\ k < e)  BY <1>0, <3>2
    <3>4. c2[k] = c1[k]  BY <1>3, <3>3
    <3>5. c1[k] = c[a + m - 1 - k]  BY <1>2, <3>2
    <3>6. a + m - 1 - k = i - (e - m)  BY <1>0, <3>2
    <3>7. ~(a <= i /\ i < a + (e - m))  BY <1>0, <2>2
    <3> QED  BY <2>2, <3>1, <3>2, <3>4, <3>5, <3>6, <3>7 DEF Source
  <2>3. CASE ~(a <= i /\ i < e)
    <3>1. c3[i] = c2[i]  BY <1>4, <2>3
    <3>2. c2[i] = c1[i]  BY <1>0, <1>3, <2>3
    <3>3. c1[i] = c[i]  BY <1>0, <1>2, <2>3
    <3>4. Source(i, a, m, e) = i  BY <1>0, <2>3 DEF Source
    <3> QED  BY <3>1, <3>2, <3>3, <3>4
  <2> QED  BY <1>0, <2>1, <2>2, <2>3
<1> QED  BY <1>1, <1>4, <1>5 DEF Exchanged, a, m, e

LEMMA SwappedExchanges ==
  ASSUME NEW n \in Nat, DOMAIN cells = 0..n - 1, merge \in Merges,
         merge.middle = merge.first + 1, merge.end = merge.first + 2, merge.end <= n
  PROVE  Exchanged(cells, Swapped, merge.first, merge.middle, merge.end)
<1> DEFINE a == merge.first
<1>1. a \in Nat /\ merge.middle = a + 1 /\ merge.end = a + 2 /\ a + 2 <= n  BY DEF Merges
<1>2. DOMAIN Swapped = DOMAIN cells  BY DEF Swapped
<1>3. ASSUME NEW i \in 0..n - 1
      PROVE  Swapped[i] = cells[Source(i, a, a + 1, a + 2)]
  <2>1. Swapped[i] = IF i = a + 1 THEN cells[a] ELSE IF i = a THEN cells[a + 1] ELSE cells[i]
    BY <1>1 DEF Swapped
  <2>2. Source(i, a, a + 1, a + 2) = IF i = a + 1 THEN a ELSE IF i = a THEN a + 1 ELSE i
    BY <1>1 DEF Source
  <2> QED  BY <2>1, <2>2
<1> QED  BY <1>1, <1>2, <1>3 DEF Exchanged

LEMMA SourceInside ==
  ASSUME NEW a \in Nat, NEW m \in Nat, NEW e \in Nat, a <= m, m <= e, NEW i \in Nat
  PROVE  /\ Source(i, a, m, e) \in Nat
         /\ a <= i /\ i < e => a <= Source(i, a, m, e) /\ Source(i, a, m, e) < e
         /\ ~(a <= i /\ i < e) => Source(i, a, m, e) = i
BY DEF Source

\* An exchange loses nothing.
LEMMA ExchangeKeeps ==
  ASSUME NEW n \in Nat, NEW c, NEW d, Contents(c, n), AllThere(c),
         NEW a \in Nat, NEW m \in Nat, NEW e \in Nat, a <= m, m <= e, e <= n,
         Exchanged(c, d, a, m, e)
  PROVE  Contents(d, n) /\ AllThere(d)
<1>1. DOMAIN c = 0..n - 1 /\ DOMAIN d = 0..n - 1  BY DEF Contents, Exchanged
<1>2. \A i \in 0..n - 1 : Source(i, a, m, e) \in 0..n - 1  BY DEF Source
<1>3. \A i \in 0..n - 1 : d[i] = c[Source(i, a, m, e)]  BY <1>1 DEF Exchanged
<1>4. Contents(d, n)  BY <1>1, <1>2, <1>3 DEF Contents
<1>5. ASSUME NEW k \in 0..n - 1
      PROVE  \E i \in 0..n - 1 : d[i][2] = k
  <2>1. PICK p \in 0..n - 1 : c[p][2] = k  BY <1>1 DEF AllThere
  <2> DEFINE i == IF a <= p /\ p < m THEN p + (e - m)
                  ELSE IF m <= p /\ p < e THEN p - (m - a) ELSE p
  <2>2. i \in 0..n - 1  OBVIOUS
  <2>3. Source(i, a, m, e) = p
    <3>1. CASE a <= p /\ p < m  BY <3>1 DEF Source
    <3>2. CASE m <= p /\ p < e  BY <3>2 DEF Source
    <3>3. CASE ~(a <= p /\ p < e)  BY <3>3 DEF Source
    <3> QED  BY <3>1, <3>2, <3>3
  <2> QED  BY <1>3, <2>1, <2>2, <2>3
<1> QED  BY <1>1, <1>4, <1>5 DEF AllThere

\* Nor do equal elements pass each other, if what goes to the left is less.
LEMMA ExchangeStable ==
  ASSUME NEW n \in Nat, NEW c, NEW d, Contents(c, n), Stable(c),
         NEW a \in Nat, NEW m \in Nat, NEW e \in Nat, a <= m, m <= e, e <= n,
         Exchanged(c, d, a, m, e),
         \A x \in a..m - 1, y \in m..e - 1 : c[y][1] < c[x][1]
  PROVE  Stable(d)
<1> DEFINE s(i) == Source(i, a, m, e)
<1>1. DOMAIN c = 0..n - 1 /\ DOMAIN d = 0..n - 1  BY DEF Contents, Exchanged
<1> SUFFICES ASSUME NEW i \in 0..n - 1, NEW j \in 0..n - 1, i < j, d[i][1] = d[j][1]
             PROVE  d[i][2] < d[j][2]
  BY <1>1 DEF Stable
<1>2. s(i) \in 0..n - 1 /\ s(j) \in 0..n - 1  BY DEF Source
<1>3. d[i] = c[s(i)] /\ d[j] = c[s(j)]  BY <1>1 DEF Exchanged
<1>4. s(i) < s(j) \/ (s(j) \in a..m - 1 /\ s(i) \in m..e - 1)  BY DEF Source
<1>5. CASE s(i) < s(j)  BY <1>1, <1>2, <1>3, <1>5 DEF Stable
<1>6. CASE s(j) \in a..m - 1 /\ s(i) \in m..e - 1
  <2>1. c[s(i)][1] < c[s(j)][1]  BY <1>6
  <2>2. c[s(i)][1] \in Int /\ c[s(j)][1] \in Int  BY <1>2 DEF Contents
  <2> QED  BY <1>3, <2>1, <2>2
<1> QED  BY <1>4, <1>5, <1>6

\* Two runs that were cut, parted by the cuts and rotated are in order but
\* for the runs of either half.
LEMMA ExchangeOrders ==
  ASSUME NEW n \in Nat, NEW c, NEW d, Contents(c, n),
         NEW first \in Nat, NEW one \in Nat, NEW middle \in Nat, NEW two \in Nat, NEW end \in Nat,
         first <= one, one <= middle, middle <= two, two <= end, end <= n,
         Exchanged(c, d, one, middle, two),
         Parted(c, first, one, middle, two, end),
         \A i, j \in first..middle - 1 : i < j => Ascends(c, i, j),
         \A i, j \in middle..end - 1 : i < j => Ascends(c, i, j),
         NEW i \in first..end - 1, NEW j \in first..end - 1, i < j
  PROVE  \/ Ascends(d, i, j)
         \/ i < one /\ one <= j /\ j < one + (two - middle)
         \/ one + (two - middle) <= i /\ i < two /\ two <= j
<1> DEFINE s(k) == Source(k, one, middle, two)
           new == one + (two - middle)
<1>0. new \in Nat /\ one <= new /\ new <= two  OBVIOUS
<1>1. DOMAIN c = 0..n - 1 /\ DOMAIN d = 0..n - 1  BY DEF Contents, Exchanged
<1>2. s(i) \in 0..n - 1 /\ s(j) \in 0..n - 1  BY DEF Source
<1>3. d[i] = c[s(i)] /\ d[j] = c[s(j)]  BY <1>1 DEF Exchanged
<1>4. c[s(i)][1] \in Int /\ c[s(j)][1] \in Int  BY <1>2 DEF Contents
<1>5. CASE j < new
  <2>1. CASE j < one  BY <1>3, <1>5, <2>1 DEF Source, Ascends
  <2>2. CASE one <= i
    <3>1. s(i) = i + (middle - one) /\ s(j) = j + (middle - one)  BY <1>5, <2>2 DEF Source
    <3>2. Ascends(c, s(i), s(j))  BY <1>5, <2>2, <3>1
    <3> QED  BY <1>3, <3>2 DEF Ascends
  <2> QED  BY <1>5, <2>1, <2>2
<1>6. CASE new <= i
  <2>1. CASE two <= i  BY <1>3, <2>1 DEF Source, Ascends
  <2>2. CASE j < two
    <3>1. s(i) = i - (two - middle) /\ s(j) = j - (two - middle)  BY <1>6, <2>2 DEF Source
    <3>2. Ascends(c, s(i), s(j))  BY <1>6, <2>2, <3>1
    <3> QED  BY <1>3, <3>2 DEF Ascends
  <2> QED  BY <1>6, <2>1, <2>2
<1>7. CASE i < new /\ new <= j
  <2>1. s(i) \in first..one - 1 \/ s(i) \in middle..two - 1  BY <1>7 DEF Source
  <2>2. s(j) \in one..middle - 1 \/ s(j) \in two..end - 1  BY <1>7 DEF Source
  <2>3. CASE s(i) \in first..one - 1 /\ s(j) \in one..middle - 1
    BY <1>3, <2>3 DEF Ascends
  <2>4. CASE s(i) \in first..one - 1 /\ s(j) \in two..end - 1
    BY <1>3, <2>4 DEF Ascends, Parted
  <2>5. CASE s(i) \in middle..two - 1 /\ s(j) \in one..middle - 1
    <3>1. c[s(i)][1] < c[s(j)][1]  BY <2>5 DEF Parted
    <3> QED  BY <1>3, <1>4, <3>1 DEF Ascends
  <2>6. CASE s(i) \in middle..two - 1 /\ s(j) \in two..end - 1
    BY <1>3, <2>6 DEF Ascends
  <2> QED  BY <2>1, <2>2, <2>3, <2>4, <2>5, <2>6
<1> QED  BY <1>0, <1>5, <1>6, <1>7

-----------------------------------------------------------------------------
(* What the invariant says of the blocks.                                  *)

LEMMA SizeKept == ASSUME DOMAIN cells' = DOMAIN cells PROVE Size' = Size
BY DEF Size

LEMMA RegionFacts ==
  ASSUME TypeOK, RunsOK, Active
  PROVE  /\ RegionEnd \in Nat /\ RegionEnd <= Size /\ RegionEnd <= start + 2 * width
         /\ RegionEnd = start + 2 * width \/ RegionEnd = Size
         /\ start + width < RegionEnd
         /\ start \in Nat /\ width \in Nat \ {0} /\ Size \in Nat
BY DEF TypeOK, RunsOK, RegionEnd, Lesser

LEMMA MergeFacts ==
  ASSUME TypeOK, RunsOK, PutOffOK, Holding
  PROVE  /\ merge.first \in Nat /\ merge.middle \in Nat /\ merge.end \in Nat
         /\ start <= merge.first /\ merge.first <= merge.middle
         /\ merge.middle <= merge.end /\ merge.end <= RegionEnd /\ merge.end <= Size
<1>1. Active  BY DEF Holding, Merging, Active
<1>2. merge \in Merges /\ Inside(merge, start, RegionEnd)  BY DEF TypeOK, PutOffOK
<1> QED  BY <1>1, <1>2, RegionFacts DEF Merges, Inside

\* The runs to be merged are in order.
LEMMA WithinRuns ==
  ASSUME TypeOK, RunsOK, OrderOK, PutOffOK, Merging
  PROVE  /\ \A i, j \in merge.first..merge.middle - 1 : i < j => Ascends(cells, i, j)
         /\ \A i, j \in merge.middle..merge.end - 1 : i < j => Ascends(cells, i, j)
<1>1. Active /\ Holding /\ pc # "choose"  BY DEF Active, Holding, Merging
<1>2. /\ merge.first \in Nat /\ merge.middle \in Nat /\ merge.end \in Nat
      /\ start <= merge.first /\ merge.first <= merge.middle
      /\ merge.middle <= merge.end /\ merge.end <= RegionEnd
  BY <1>1, MergeFacts
<1>3. start \in Nat /\ RegionEnd \in Nat  BY <1>1, RegionFacts
<1>4. ASSUME NEW i \in merge.first..merge.end - 1, NEW j \in merge.first..merge.end - 1, i < j,
             ~Crosses(merge, i, j)
      PROVE  Ascends(cells, i, j)
  <2>1. i \in start..RegionEnd - 1 /\ j \in start..RegionEnd - 1  BY <1>2, <1>3
  <2>2. Ascends(cells, i, j) \/ Awaits(i, j)  BY <1>1, <1>4, <2>1 DEF OrderOK
  <2>3. ASSUME NEW k \in DOMAIN stack, Crosses(stack[k], i, j) PROVE FALSE
    <3>1. stack[k] \in Merges  BY DEF TypeOK
    <3>2. Apart(stack[k], merge)  BY <1>1 DEF PutOffOK
    <3>3. /\ stack[k].first \in Nat /\ stack[k].middle \in Nat /\ stack[k].end \in Nat
      BY <3>1 DEF Merges
    <3> QED  BY <1>2, <2>3, <3>2, <3>3 DEF Apart, Crosses
  <2> QED  BY <1>1, <1>4, <2>2, <2>3 DEF Awaits
<1> QED  BY <1>2, <1>4 DEF Crosses

\* The two elements that are swapped are neighbours, the second less than the first.
LEMMA SwapFacts ==
  ASSUME TypeOK, RunsOK, PutOffOK, pc = "work", Unordered, merge.end - merge.first = 2
  PROVE  /\ merge.middle = merge.first + 1 /\ merge.end = merge.first + 2
         /\ Exchanged(cells, Swapped, merge.first, merge.middle, merge.end)
         /\ Parted(cells, merge.first, merge.first, merge.middle, merge.end, merge.end)
<1>1. Holding  BY DEF Holding, Merging
<1>2. /\ merge.first \in Nat /\ merge.middle \in Nat /\ merge.end \in Nat /\ merge.end <= Size
  BY <1>1, MergeFacts
<1>3. merge.middle = merge.first + 1 /\ merge.end = merge.first + 2
  BY <1>2 DEF Unordered
<1>4. merge \in Merges /\ Size \in Nat /\ DOMAIN cells = 0..Size - 1
  BY DEF TypeOK, Contents
<1>5. Exchanged(cells, Swapped, merge.first, merge.middle, merge.end)
  BY <1>2, <1>3, <1>4, SwappedExchanges
<1>6. cells[merge.middle][1] < cells[merge.first][1]
  BY <1>2, <1>3 DEF Unordered, Less
<1>7. Parted(cells, merge.first, merge.first, merge.middle, merge.end, merge.end)
  BY <1>2, <1>3, <1>6 DEF Parted
<1> QED  BY <1>3, <1>5, <1>7

\* The rotation exchanges what lies between the cuts, also when it is skipped.
LEMMA RotateFacts ==
  ASSUME TypeOK, RunsOK, PutOffOK, CutOK, Rotate
  PROVE  /\ merge.first <= cut.one /\ cut.one <= merge.middle
         /\ merge.middle <= cut.two /\ cut.two <= merge.end /\ merge.end <= Size
         /\ cut.one \in Nat /\ cut.two \in Nat
         /\ Exchanged(cells, cells', cut.one, merge.middle, cut.two)
         /\ Parted(cells, merge.first, cut.one, merge.middle, cut.two, merge.end)
<1>1. pc = "rotate" /\ Holding  BY DEF Rotate, Holding, Merging
<1>2. /\ merge.first \in Nat /\ merge.middle \in Nat /\ merge.end \in Nat /\ merge.end <= Size
  BY <1>1, MergeFacts
<1>3. CutsInside /\ Parted(cells, merge.first, cut.one, merge.middle, cut.two, merge.end)
  BY <1>1 DEF CutOK
<1>4. merge \in Merges /\ cut \in Cuts /\ Size \in Nat /\ DOMAIN cells = 0..Size - 1
  BY DEF TypeOK, Contents
<1>5. cut.one \in Nat /\ cut.two \in Nat  BY <1>4 DEF Cuts
<1>6. /\ merge.first <= cut.one /\ cut.one <= merge.middle
      /\ merge.middle <= cut.two /\ cut.two <= merge.end /\ cut.two <= Size
  BY <1>2, <1>3, <1>4, <1>5 DEF CutsInside
<1>7. CASE cut.one < merge.middle /\ merge.middle < cut.two
  <2>1. cells' = Rotated(cells)  BY <1>7 DEF Rotate
  <2>2. Exchanged(cells, Rotated(cells), cut.one, merge.middle, cut.two)
    BY <1>4, <1>6, RotatedExchanges
  <2> QED  BY <1>2, <1>3, <1>5, <1>6, <2>1, <2>2
<1>8. CASE ~(cut.one < merge.middle /\ merge.middle < cut.two)
  <2>1. cells' = cells  BY <1>8 DEF Rotate
  <2>2. \A i \in DOMAIN cells : Source(i, cut.one, merge.middle, cut.two) = i
    BY <1>2, <1>4, <1>5, <1>6, <1>8 DEF Source
  <2> QED  BY <1>2, <1>3, <1>5, <1>6, <2>1, <2>2 DEF Exchanged
<1> QED  BY <1>7, <1>8

\* What a step does to the array.
LEMMA CellsStep ==
  ASSUME TypeOK, RunsOK, PutOffOK, CutOK, [Next]_vars
  PROVE  \/ cells' = cells
         \/ \E a, m, e \in Nat :
              /\ a <= m /\ m <= e /\ e <= Size
              /\ Exchanged(cells, cells', a, m, e)
              /\ \A x \in a..m - 1, y \in m..e - 1 : cells[y][1] < cells[x][1]
<1>1. CASE Inspect /\ cells' # cells
  <2>1. pc = "work" /\ Unordered /\ merge.end - merge.first = 2 /\ cells' = Swapped
    BY <1>1 DEF Inspect
  <2>2. Holding  BY <2>1 DEF Holding, Merging
  <2> QED  BY <2>1, <2>2, SwapFacts, MergeFacts DEF Parted
<1>2. CASE Rotate
  <2>1. Holding  BY <1>2 DEF Rotate, Holding, Merging
  <2>2. merge.middle \in Nat /\ merge.end \in Nat /\ Size \in Nat  BY <2>1, MergeFacts DEF TypeOK
  <2>3. /\ cut.one \in Nat /\ cut.two \in Nat /\ cut.one <= merge.middle
        /\ merge.middle <= cut.two /\ cut.two <= merge.end /\ merge.end <= Size
        /\ Exchanged(cells, cells', cut.one, merge.middle, cut.two)
        /\ Parted(cells, merge.first, cut.one, merge.middle, cut.two, merge.end)
    BY <1>2, RotateFacts
  <2>4. cut.two <= Size  BY <2>2, <2>3
  <2>5. \A x \in cut.one..merge.middle - 1, y \in merge.middle..cut.two - 1 :
          cells[y][1] < cells[x][1]
    BY <2>3 DEF Parted
  <2> QED  BY <2>2, <2>3, <2>4, <2>5
<1>3. CASE ~Rotate /\ ~(Inspect /\ cells' # cells)
  BY <1>3 DEF Next, Pass, Run, Split, Search, Choose, Pop, Done, vars
<1> QED  BY <1>1, <1>2, <1>3

LEMMA ContentsStep ==
  ASSUME TypeOK, AllThere(cells), Stable(cells), RunsOK, PutOffOK, CutOK, [Next]_vars
  PROVE  /\ DOMAIN cells' = DOMAIN cells /\ Size' = Size
         /\ Contents(cells', Size) /\ AllThere(cells') /\ Stable(cells')
<1>0. Size \in Nat /\ Contents(cells, Size)  BY DEF TypeOK
<1>1. CASE cells' = cells
  BY <1>0, <1>1, SizeKept
<1>2. ASSUME NEW a \in Nat, NEW m \in Nat, NEW e \in Nat, a <= m, m <= e, e <= Size,
             Exchanged(cells, cells', a, m, e),
             \A x \in a..m - 1, y \in m..e - 1 : cells[y][1] < cells[x][1]
      PROVE  /\ DOMAIN cells' = DOMAIN cells
             /\ Contents(cells', Size) /\ AllThere(cells') /\ Stable(cells')
  <2>1. Contents(cells', Size) /\ AllThere(cells')  BY <1>0, <1>2, ExchangeKeeps
  <2>2. Stable(cells')  BY <1>0, <1>2, ExchangeStable
  <2>3. DOMAIN cells' = DOMAIN cells  BY <1>2 DEF Exchanged
  <2> QED  BY <2>1, <2>2, <2>3
<1> QED  BY <1>1, <1>2, CellsStep, SizeKept

-----------------------------------------------------------------------------
(* Every step keeps the invariant, conjunct by conjunct.                   *)

LEMMA HalfFacts == \A n \in Nat : Half(n) \in Nat /\ 2 * Half(n) <= n /\ n <= 2 * Half(n) + 1
BY DEF Half

LEMMA ProbeFacts ==
  ASSUME cut \in Cuts, cut.low < cut.high
  PROVE  Probe \in Nat /\ cut.low <= Probe /\ Probe < cut.high
<1>1. cut.low \in Nat /\ cut.high \in Nat  BY DEF Cuts
<1>2. cut.high - cut.low \in Nat /\ cut.high - cut.low > 0  BY <1>1
<1>3. Half(cut.high - cut.low) \in Nat /\ Half(cut.high - cut.low) < cut.high - cut.low
  BY <1>2, HalfFacts
<1> QED  BY <1>1, <1>3 DEF Probe

LEMMA CutsFacts ==
  ASSUME TypeOK, RunsOK, PutOffOK, CutOK, pc \in {"rotate", "choose"}
  PROVE  /\ merge.first \in Nat /\ merge.middle \in Nat /\ merge.end \in Nat
         /\ cut.one \in Nat /\ cut.two \in Nat /\ NewMiddle \in Nat
         /\ start <= merge.first /\ merge.first <= cut.one /\ cut.one <= merge.middle
         /\ merge.middle <= cut.two /\ cut.two <= merge.end /\ merge.end <= RegionEnd
         /\ cut.one <= NewMiddle /\ NewMiddle <= cut.two
         /\ merge.first < NewMiddle /\ NewMiddle < merge.end
<1>1. Holding /\ CutsInside  BY DEF Holding, Merging, CutOK
<1>2. cut.one \in Nat /\ cut.two \in Nat  BY DEF TypeOK, Cuts
<1> QED  BY <1>1, <1>2, MergeFacts DEF CutsInside, NewMiddle

LEMMA PartsFacts ==
  ASSUME TypeOK, RunsOK, PutOffOK, CutOK, pc = "choose"
  PROVE  LeftPart \in Merges /\ RightPart \in Merges
BY CutsFacts DEF LeftPart, RightPart, Triple, Merges

LEMMA TypeStep ==
  ASSUME Inv, [Next]_vars
  PROVE  TypeOK'
<1> USE DEF Inv
<1>1. Size' = Size /\ Contents(cells', Size)  BY ContentsStep
<1>2. Size' \in 0..Capacity /\ Contents(cells', Size')  BY <1>1 DEF TypeOK
<1>3. CASE UNCHANGED vars  BY <1>2, <1>3 DEF TypeOK, vars
<1>4. CASE Pass  BY <1>2, <1>4 DEF TypeOK, Pass, SortBlocks
<1>5. CASE Run
  <2>1. CASE start + width < Size
    <3>1. merge' \in Merges  BY <1>5, <2>1 DEF Run, Triple, Merges, TypeOK, Lesser
    <3> QED  BY <1>2, <1>5, <2>1, <3>1 DEF TypeOK, Run, SortBlocks
  <2>2. CASE ~(start + width < Size)
    BY <1>2, <1>5, <2>2 DEF TypeOK, Run, SortBlocks
  <2> QED  BY <2>1, <2>2
<1>6. CASE Inspect  BY <1>2, <1>6 DEF TypeOK, Inspect, SortBlocks
<1>7. CASE Split
  <2>1. Holding  BY <1>7 DEF Split, Holding, Merging
  <2>2. /\ merge.first \in Nat /\ merge.middle \in Nat /\ merge.end \in Nat
        /\ merge.first <= merge.middle /\ merge.middle <= merge.end
    BY <2>1, MergeFacts
  <2>3. Half(merge.middle - merge.first) \in Nat /\ Half(merge.end - merge.middle) \in Nat
    <3>1. merge.middle - merge.first \in Nat /\ merge.end - merge.middle \in Nat  BY <2>2
    <3> QED  BY <3>1, HalfFacts
  <2>4. cut' \in Cuts  BY <1>7, <2>2, <2>3 DEF Split, Cuts
  <2> QED  BY <1>2, <1>7, <2>4 DEF TypeOK, Split, SortBlocks
<1>8. CASE Search
  <2>1. cut \in Cuts  BY DEF TypeOK
  <2>2. cut' \in Cuts
    <3>1. CASE cut.low < cut.high
      <4>1. Probe \in Nat /\ Above(Probe) \in Nat  BY <2>1, <3>1, ProbeFacts DEF Above
      <4>2. cut' = [cut EXCEPT !.low = Above(Probe)] \/ cut' = [cut EXCEPT !.high = Probe]
        BY <1>8, <3>1 DEF Search
      <4> QED  BY <2>1, <4>1, <4>2 DEF Cuts
    <3>2. CASE ~(cut.low < cut.high)
      <4>1. cut' = [cut EXCEPT !.two = cut.low] \/ cut' = [cut EXCEPT !.one = cut.low]
        BY <1>8, <3>2 DEF Search
      <4> QED  BY <2>1, <4>1 DEF Cuts
    <3> QED  BY <3>1, <3>2
  <2>3. pc' \in SortBlocks  BY <1>8 DEF Search, SortBlocks
  <2> QED  BY <1>2, <1>8, <2>2, <2>3 DEF TypeOK, Search
<1>9. CASE Rotate  BY <1>2, <1>9 DEF TypeOK, Rotate, SortBlocks
<1>10. CASE Choose
  <2>1. LeftPart \in Merges /\ RightPart \in Merges  BY <1>10, PartsFacts DEF Choose
  <2>2. stack \in Seq(Merges)  BY DEF TypeOK
  <2>3. stack' \in Seq(Merges) /\ merge' \in Merges
    <3>1. Append(stack, LeftPart) \in Seq(Merges) /\ Append(stack, RightPart) \in Seq(Merges)
      BY <2>1, <2>2, AppendProperties
    <3> QED  BY <1>10, <2>1, <3>1 DEF Choose
  <2> QED  BY <1>2, <1>10, <2>3 DEF TypeOK, Choose, SortBlocks
<1>11. CASE Pop
  <2>1. CASE stack # <<>>
    <3>1. stack \in Seq(Merges)  BY DEF TypeOK
    <3>2. stack[Len(stack)] \in Merges /\ Len(stack) \in Nat \ {0}  BY <2>1, <3>1
    <3>3. SubSeq(stack, 1, Len(stack) - 1) \in Seq(Merges)  BY <3>1, <3>2
    <3> QED  BY <1>2, <1>11, <2>1, <3>2, <3>3 DEF TypeOK, Pop, SortBlocks
  <2>2. CASE stack = <<>>
    BY <1>2, <1>11, <2>2 DEF TypeOK, Pop, SortBlocks
  <2> QED  BY <2>1, <2>2
<1>12. CASE Done  BY <1>2, <1>12 DEF TypeOK, Done, vars
<1> QED
  BY <1>3, <1>4, <1>5, <1>6, <1>7, <1>8, <1>9, <1>10, <1>11, <1>12 DEF Next

LEMMA RunsStep ==
  ASSUME Inv, [Next]_vars
  PROVE  RunsOK'
<1> USE DEF Inv
<1>1. Size' = Size  BY ContentsStep
<1>2. TypeOK  OBVIOUS
<1>3. CASE UNCHANGED vars  BY <1>1, <1>3 DEF RunsOK, Active, vars
<1>4. CASE Pass
  <2>1. Multiple(0, 2 * width)  BY MultipleZero DEF TypeOK
  <2> QED  BY <1>1, <1>4, <2>1 DEF RunsOK, Active, Pass
<1>5. CASE Run  BY <1>1, <1>5 DEF RunsOK, Active, Run
<1>6. CASE Inspect  BY <1>1, <1>6 DEF RunsOK, Active, Inspect
<1>7. CASE Split  BY <1>1, <1>7 DEF RunsOK, Active, Split
<1>8. CASE Search  BY <1>1, <1>8 DEF RunsOK, Active, Search
<1>9. CASE Rotate  BY <1>1, <1>9 DEF RunsOK, Active, Rotate
<1>10. CASE Choose  BY <1>1, <1>10 DEF RunsOK, Active, Choose
<1>11. CASE Pop
  <2>1. CASE stack # <<>>  BY <1>1, <1>11, <2>1 DEF RunsOK, Active, Pop
  <2>2. CASE stack = <<>>
    <3>1. start \in Nat /\ 2 * width \in Nat \ {0} /\ Multiple(start, 2 * width)
      BY <1>11 DEF TypeOK, RunsOK, Active, Pop
    <3>2. Multiple(start + 2 * width, 2 * width)  BY <3>1, MultipleNext
    <3> QED  BY <1>11, <2>2, <3>2 DEF RunsOK, Active, Pop
  <2> QED  BY <2>1, <2>2
<1>12. CASE Done  BY <1>1, <1>12 DEF RunsOK, Active, Done, vars
<1> QED
  BY <1>3, <1>4, <1>5, <1>6, <1>7, <1>8, <1>9, <1>10, <1>11, <1>12 DEF Next

LEMMA PutOffStep ==
  ASSUME Inv, [Next]_vars
  PROVE  PutOffOK'
<1> USE DEF Inv
<1>1. Size' = Size  BY ContentsStep
<1>2. TypeOK  OBVIOUS
<1>3. ASSUME UNCHANGED <<width, start, merge, stack>>, Holding' => Holding
      PROVE  PutOffOK'
  <2>1. RegionEnd' = RegionEnd  BY <1>1, <1>3 DEF RegionEnd
  <2> QED  BY <1>3, <2>1 DEF PutOffOK, Inside
<1>4. CASE UNCHANGED vars  BY <1>3, <1>4 DEF vars, Holding, Merging
<1>5. CASE Pass
  <2>1. stack' = <<>> /\ ~Holding'  BY <1>5 DEF Pass, RunsOK, Holding, Merging
  <2> QED  BY <2>1 DEF PutOffOK
<1>6. CASE Run
  <2>1. stack' = <<>>  BY <1>6 DEF Run, RunsOK
  <2>2. CASE start + width < Size
    <3>1. /\ merge' = Triple(start, start + width, RegionEnd)
          /\ start' = start /\ width' = width
      BY <1>6, <2>2 DEF Run, RegionEnd
    <3>2. RegionEnd' = RegionEnd  BY <1>1, <3>1 DEF RegionEnd
    <3>3. /\ start + width <= RegionEnd /\ RegionEnd \in Nat
          /\ start \in Nat /\ width \in Nat
      BY <2>2 DEF RegionEnd, Lesser, TypeOK
    <3>4. Inside(merge', start', RegionEnd')  BY <3>1, <3>2, <3>3 DEF Inside, Triple
    <3> QED  BY <2>1, <3>4 DEF PutOffOK
  <2>3. CASE ~(start + width < Size)
    <3>1. ~Holding'  BY <1>6, <2>3 DEF Run, Holding, Merging
    <3> QED  BY <2>1, <3>1 DEF PutOffOK
  <2> QED  BY <2>2, <2>3
<1>7. CASE Inspect  BY <1>3, <1>7 DEF Inspect, Holding, Merging
<1>8. CASE Split  BY <1>3, <1>8 DEF Split, Holding, Merging
<1>9. CASE Search  BY <1>3, <1>9 DEF Search, Holding, Merging
<1>10. CASE Rotate  BY <1>3, <1>10 DEF Rotate, Holding, Merging
<1>11. CASE Choose
  <2>1. pc = "choose" /\ Holding  BY <1>11 DEF Choose, Holding
  <2>2. /\ merge.first \in Nat /\ merge.middle \in Nat /\ merge.end \in Nat
        /\ cut.one \in Nat /\ cut.two \in Nat /\ NewMiddle \in Nat
        /\ start <= merge.first /\ merge.first <= cut.one
        /\ cut.two <= merge.end /\ merge.end <= RegionEnd
        /\ cut.one <= NewMiddle /\ NewMiddle <= cut.two
    BY <2>1, CutsFacts
  <2>3. start \in Nat /\ RegionEnd \in Nat
    BY <2>1, RegionFacts DEF Active
  <2>4. Inside(LeftPart, start, RegionEnd) /\ Inside(RightPart, start, RegionEnd)
    BY <2>2, <2>3 DEF Inside, LeftPart, RightPart, Triple
  <2>5. Apart(LeftPart, RightPart) /\ Apart(RightPart, LeftPart)
    BY <2>2 DEF Apart, LeftPart, RightPart, Triple
  <2>6. ASSUME NEW k \in DOMAIN stack
        PROVE  /\ Apart(stack[k], LeftPart) /\ Apart(stack[k], RightPart)
               /\ Apart(LeftPart, stack[k]) /\ Apart(RightPart, stack[k])
    <3>1. Apart(stack[k], merge)  BY <2>1 DEF PutOffOK
    <3>2. stack[k] \in Merges  BY DEF TypeOK
    <3>3. stack[k].first \in Nat /\ stack[k].end \in Nat  BY <3>2 DEF Merges
    <3> QED  BY <2>2, <3>1, <3>3 DEF Apart, LeftPart, RightPart, Triple
  <2>7. RegionEnd' = RegionEnd /\ start' = start  BY <1>1, <1>11 DEF Choose, RegionEnd
  <2>8. ASSUME NEW P \in {LeftPart, RightPart}, NEW Q \in {LeftPart, RightPart},
               P # Q \/ LeftPart = RightPart, stack' = Append(stack, P), merge' = Q
        PROVE  PutOffOK'
    <3>1. stack \in Seq(Merges) /\ P \in Merges
      BY <2>1, PartsFacts DEF TypeOK
    <3>2. DOMAIN stack = 1..Len(stack) /\ Len(stack) \in Nat  BY <3>1
    <3>3. /\ DOMAIN stack' = 1..Len(stack) + 1
          /\ \A k \in DOMAIN stack : stack'[k] = stack[k]
          /\ stack'[Len(stack) + 1] = P
      BY <2>8, <3>1, <3>2, AppendProperties
    <3>4. \A k \in DOMAIN stack' : k \in DOMAIN stack \/ k = Len(stack) + 1  BY <3>2, <3>3
    <3>5. \A k \in DOMAIN stack' : Inside(stack'[k], start, RegionEnd)
      BY <2>4, <2>8, <3>3, <3>4 DEF PutOffOK
    <3>6. \A k \in DOMAIN stack' : Inside(stack'[k], start', RegionEnd')
      BY <2>7, <3>5
    <3>7. \A k, l \in DOMAIN stack' : k # l => Apart(stack'[k], stack'[l])
      BY <2>6, <2>8, <3>3, <3>4 DEF PutOffOK
    <3>8. Apart(P, Q)  BY <2>5, <2>8 DEF Apart
    <3>9. \A k \in DOMAIN stack' : Apart(stack'[k], merge')
      BY <2>6, <2>8, <3>3, <3>4, <3>8
    <3>10. Inside(merge', start', RegionEnd')  BY <2>4, <2>7, <2>8
    <3> QED  BY <3>6, <3>7, <3>9, <3>10 DEF PutOffOK
  <2>9. CASE LeftIsSmaller
    <3>1. stack' = Append(stack, RightPart) /\ merge' = LeftPart  BY <1>11, <2>9 DEF Choose
    <3> QED  BY <2>8, <3>1
  <2>10. CASE ~LeftIsSmaller
    <3>1. stack' = Append(stack, LeftPart) /\ merge' = RightPart  BY <1>11, <2>10 DEF Choose
    <3> QED  BY <2>8, <3>1
  <2> QED  BY <2>9, <2>10
<1>12. CASE Pop
  <2>1. CASE stack # <<>>
    <3>1. /\ merge' = stack[Len(stack)] /\ stack' = SubSeq(stack, 1, Len(stack) - 1)
          /\ start' = start /\ width' = width
      BY <1>12, <2>1 DEF Pop
    <3>2. stack \in Seq(Merges)  BY DEF TypeOK
    <3>3. Len(stack) \in Nat \ {0} /\ DOMAIN stack = 1..Len(stack)  BY <2>1, <3>2
    <3>4. /\ DOMAIN stack' = 1..Len(stack) - 1
          /\ \A k \in DOMAIN stack' : stack'[k] = stack[k]
      BY <3>1, <3>2, <3>3
    <3>5. RegionEnd' = RegionEnd  BY <1>1, <3>1 DEF RegionEnd
    <3>6. DOMAIN stack' \subseteq DOMAIN stack /\ Len(stack) \in DOMAIN stack \ DOMAIN stack'
      BY <3>3, <3>4
    <3>7. \A k \in DOMAIN stack' : Inside(stack'[k], start', RegionEnd')
      BY <3>1, <3>4, <3>5, <3>6 DEF PutOffOK
    <3>8. \A k, l \in DOMAIN stack' : k # l => Apart(stack'[k], stack'[l])
      BY <3>4, <3>6 DEF PutOffOK
    <3>9. Inside(merge', start', RegionEnd') /\ \A k \in DOMAIN stack' : Apart(stack'[k], merge')
      BY <3>1, <3>4, <3>5, <3>6 DEF PutOffOK
    <3> QED  BY <3>7, <3>8, <3>9 DEF PutOffOK
  <2>2. CASE stack = <<>>
    <3>1. stack' = <<>> /\ ~Holding'  BY <1>12, <2>2 DEF Pop, Holding, Merging
    <3> QED  BY <3>1 DEF PutOffOK
  <2> QED  BY <2>1, <2>2
<1>13. CASE Done  BY <1>3, <1>13 DEF Done, vars, Holding, Merging
<1> QED
  BY <1>4, <1>5, <1>6, <1>7, <1>8, <1>9, <1>10, <1>11, <1>12, <1>13 DEF Next

LEMMA SplitSearches ==
  ASSUME Inv, Split
  PROVE  IF cut'.left THEN LeftSearch' ELSE RightSearch'
<1> USE DEF Inv
<1>1. pc = "split" /\ Holding  BY DEF Split, Holding, Merging
<1>2. /\ merge.first \in Nat /\ merge.middle \in Nat /\ merge.end \in Nat
      /\ merge.first < merge.middle /\ merge.middle < merge.end /\ merge.end - merge.first > 2
  BY <1>1, MergeFacts DEF CutOK
<1> DEFINE l == merge.middle - merge.first
           r == merge.end - merge.middle
<1>3. l \in Nat /\ r \in Nat /\ l > 0 /\ r > 0 /\ l + r > 2  BY <1>2
<1> HIDE DEF l, r
<1>4. CASE l > r
  <2>1. cut' = [one |-> merge.first + Half(l), two |-> 0, low |-> merge.middle,
                high |-> merge.end, left |-> TRUE]
    BY <1>4 DEF Split, l, r
  <2>2. Half(l) \in Nat /\ 0 < Half(l) /\ Half(l) < l  BY <1>3, <1>4, HalfFacts
  <2>3. merge' = merge /\ cells' = cells  BY DEF Split
  <2>4. LeftSearch'  BY <1>2, <1>3, <2>1, <2>2, <2>3 DEF LeftSearch, l
  <2> QED  BY <2>1, <2>4
<1>5. CASE ~(l > r)
  <2>1. cut' = [one |-> 0, two |-> merge.middle + Half(r), low |-> merge.first,
                high |-> merge.middle, left |-> FALSE]
    BY <1>5 DEF Split, l, r
  <2>2. Half(r) \in Nat /\ 0 < Half(r) /\ Half(r) < r  BY <1>3, <1>5, HalfFacts
  <2>3. merge' = merge /\ cells' = cells  BY DEF Split
  <2>4. RightSearch'  BY <1>2, <1>3, <2>1, <2>2, <2>3 DEF RightSearch, r
  <2> QED  BY <2>1, <2>4
<1> QED  BY <1>4, <1>5

\* What a probe rules out, everything on its side does: the run is in order.
LEMMA SearchNarrows ==
  ASSUME Inv, Search, cut.low < cut.high
  PROVE  IF cut'.left THEN LeftSearch' ELSE RightSearch'
<1> USE DEF Inv
<1>1. pc = "search" /\ Holding /\ Merging /\ merge' = merge /\ cells' = cells
  BY DEF Search, Holding, Merging
<1>2. /\ merge.first \in Nat /\ merge.middle \in Nat /\ merge.end \in Nat /\ merge.end <= Size
      /\ Size \in Nat
  BY <1>1, MergeFacts DEF TypeOK
<1>3. cut \in Cuts  BY DEF TypeOK
<1>4. Probe \in Nat /\ cut.low <= Probe /\ Probe < cut.high  BY <1>3, ProbeFacts
<1>5. /\ cut.one \in Nat /\ cut.two \in Nat /\ cut.low \in Nat /\ cut.high \in Nat
      /\ cut.left \in BOOLEAN
  BY <1>3 DEF Cuts
<1>6. \A i \in 0..Size - 1 : cells[i][1] \in Int  BY DEF TypeOK, Contents
<1>7. \/ /\ Before(Probe)
         /\ cut' = [cut EXCEPT !.low = Probe + 1]
      \/ /\ ~Before(Probe)
         /\ cut' = [cut EXCEPT !.high = Probe]
  BY DEF Search, Above
<1>8. /\ cut'.left = cut.left /\ cut'.one = cut.one /\ cut'.two = cut.two
      /\ \/ Before(Probe) /\ cut'.low = Probe + 1 /\ cut'.high = cut.high
         \/ ~Before(Probe) /\ cut'.low = cut.low /\ cut'.high = Probe
  BY <1>3, <1>7 DEF Cuts
<1>9. /\ \A i, j \in merge.first..merge.middle - 1 : i < j => cells[i][1] <= cells[j][1]
      /\ \A i, j \in merge.middle..merge.end - 1 : i < j => cells[i][1] <= cells[j][1]
  BY <1>1, WithinRuns DEF Ascends
<1>10. CASE cut.left
  <2>1. LeftSearch  BY <1>1, <1>10 DEF CutOK
  <2>2. /\ merge.first < cut.one /\ cut.one < merge.middle
        /\ merge.middle <= cut.low /\ cut.high <= merge.end
    BY <2>1 DEF LeftSearch
  <2>3. Probe \in merge.middle..merge.end - 1 /\ cut.one \in 0..Size - 1  BY <1>2, <1>4, <1>5, <2>2
  <2>4. CASE Before(Probe)
    <3>1. cells[Probe][1] < cells[cut.one][1]  BY <1>10, <2>4 DEF Before, Less
    <3>2. ASSUME NEW x \in merge.middle..Probe PROVE cells[x][1] < cells[cut.one][1]
      <4>1. x = Probe \/ cells[x][1] <= cells[Probe][1]  BY <1>2, <1>4, <1>9, <2>3
      <4>2. x \in 0..Size - 1 /\ Probe \in 0..Size - 1  BY <1>2, <2>3
      <4>3. cells[x][1] \in Int /\ cells[Probe][1] \in Int /\ cells[cut.one][1] \in Int
        BY <1>6, <2>3, <4>2
      <4> QED  BY <3>1, <4>1, <4>3
    <3>3. cut'.low = Probe + 1 /\ cut'.high = cut.high  BY <1>8, <2>4
    <3>4. LeftSearch'
      BY <1>1, <1>2, <1>4, <1>5, <1>8, <2>1, <3>2, <3>3 DEF LeftSearch
    <3> QED  BY <1>8, <1>10, <3>4
  <2>5. CASE ~Before(Probe)
    <3>1. ~(cells[Probe][1] < cells[cut.one][1])  BY <1>10, <2>5 DEF Before, Less
    <3>2. ASSUME NEW x \in Probe..merge.end - 1 PROVE cells[cut.one][1] <= cells[x][1]
      <4>1. x = Probe \/ cells[Probe][1] <= cells[x][1]  BY <1>2, <1>4, <1>9, <2>3
      <4>2. x \in 0..Size - 1 /\ Probe \in 0..Size - 1  BY <1>2, <1>4, <2>3
      <4>3. cells[x][1] \in Int /\ cells[Probe][1] \in Int /\ cells[cut.one][1] \in Int
        BY <1>6, <2>3, <4>2
      <4> QED  BY <3>1, <4>1, <4>3
    <3>3. cut'.low = cut.low /\ cut'.high = Probe  BY <1>8, <2>5
    <3>4. LeftSearch'
      BY <1>1, <1>2, <1>4, <1>5, <1>8, <2>1, <3>2, <3>3 DEF LeftSearch
    <3> QED  BY <1>8, <1>10, <3>4
  <2> QED  BY <2>4, <2>5
<1>11. CASE ~cut.left
  <2>1. RightSearch  BY <1>1, <1>11 DEF CutOK
  <2>2. /\ merge.middle < cut.two /\ cut.two < merge.end
        /\ merge.first <= cut.low /\ cut.high <= merge.middle
    BY <2>1 DEF RightSearch
  <2>3. /\ Probe \in merge.first..merge.middle - 1 /\ cut.two \in 0..Size - 1
        /\ merge.middle <= Size
    BY <1>2, <1>4, <1>5, <2>2
  <2>4. CASE Before(Probe)
    <3>1. ~(cells[cut.two][1] < cells[Probe][1])  BY <1>11, <2>4 DEF Before, Less
    <3>2. ASSUME NEW x \in merge.first..Probe PROVE cells[x][1] <= cells[cut.two][1]
      <4>1. x = Probe \/ cells[x][1] <= cells[Probe][1]  BY <1>2, <1>4, <1>9, <2>3
      <4>2. x \in 0..Size - 1 /\ Probe \in 0..Size - 1  BY <1>2, <2>3
      <4>3. cells[x][1] \in Int /\ cells[Probe][1] \in Int /\ cells[cut.two][1] \in Int
        BY <1>6, <2>3, <4>2
      <4> QED  BY <3>1, <4>1, <4>3
    <3>3. cut'.low = Probe + 1 /\ cut'.high = cut.high  BY <1>8, <2>4
    <3>4. RightSearch'
      BY <1>1, <1>2, <1>4, <1>5, <1>8, <2>1, <3>2, <3>3 DEF RightSearch
    <3> QED  BY <1>8, <1>11, <3>4
  <2>5. CASE ~Before(Probe)
    <3>1. cells[cut.two][1] < cells[Probe][1]  BY <1>11, <2>5 DEF Before, Less
    <3>2. ASSUME NEW x \in Probe..merge.middle - 1 PROVE cells[cut.two][1] < cells[x][1]
      <4>1. x = Probe \/ cells[Probe][1] <= cells[x][1]  BY <1>2, <1>4, <1>9, <2>3
      <4>2. x \in 0..Size - 1 /\ Probe \in 0..Size - 1  BY <1>2, <1>4, <2>3
      <4>3. cells[x][1] \in Int /\ cells[Probe][1] \in Int /\ cells[cut.two][1] \in Int
        BY <1>6, <2>3, <4>2
      <4> QED  BY <3>1, <4>1, <4>3
    <3>3. cut'.low = cut.low /\ cut'.high = Probe  BY <1>8, <2>5
    <3>4. RightSearch'
      BY <1>1, <1>2, <1>4, <1>5, <1>8, <2>1, <3>2, <3>3 DEF RightSearch
    <3> QED  BY <1>8, <1>11, <3>4
  <2> QED  BY <2>4, <2>5
<1> QED  BY <1>10, <1>11

\* The end of the search is the other cut, and the cuts part the runs.
LEMMA SearchEnds ==
  ASSUME Inv, Search, ~(cut.low < cut.high)
  PROVE  /\ CutsInside'
         /\ Parted(cells', merge'.first, cut'.one, merge'.middle, cut'.two, merge'.end)
<1> USE DEF Inv
<1>1. pc = "search" /\ Holding /\ Merging /\ merge' = merge /\ cells' = cells
  BY DEF Search, Holding, Merging
<1>2. /\ merge.first \in Nat /\ merge.middle \in Nat /\ merge.end \in Nat /\ merge.end <= Size
      /\ Size \in Nat
      /\ merge.first < merge.middle /\ merge.middle < merge.end
  BY <1>1, MergeFacts DEF TypeOK, CutOK
<1>3. cut \in Cuts  BY DEF TypeOK
<1>4. /\ cut.one \in Nat /\ cut.two \in Nat /\ cut.low \in Nat /\ cut.high \in Nat
      /\ cut.left \in BOOLEAN
  BY <1>3 DEF Cuts
<1>5. \A i \in 0..Size - 1 : cells[i][1] \in Int  BY DEF TypeOK, Contents
<1>6. /\ \A i, j \in merge.first..merge.middle - 1 : i < j => cells[i][1] <= cells[j][1]
      /\ \A i, j \in merge.middle..merge.end - 1 : i < j => cells[i][1] <= cells[j][1]
  BY <1>1, WithinRuns DEF Ascends
<1>7. CASE cut.left
  <2>1. LeftSearch  BY <1>1, <1>7 DEF CutOK
  <2>2. cut' = [cut EXCEPT !.two = cut.low]  BY <1>7 DEF Search
  <2>3. cut'.two = cut.low /\ cut'.one = cut.one  BY <1>3, <2>2 DEF Cuts
  <2>4. /\ merge.first < cut.one /\ cut.one < merge.middle
        /\ merge.middle <= cut.low /\ cut.low = cut.high /\ cut.low <= merge.end
    BY <1>2, <1>4, <2>1 DEF LeftSearch
  <2>5. CutsInside'  BY <1>1, <1>2, <1>4, <2>3, <2>4 DEF CutsInside, NewMiddle
  <2>6. ASSUME NEW x \in cut.one..merge.middle - 1, NEW y \in merge.middle..cut.low - 1
        PROVE  cells[y][1] < cells[x][1]
    <3>1. cells[y][1] < cells[cut.one][1]  BY <2>1 DEF LeftSearch
    <3>2. x = cut.one \/ cells[cut.one][1] <= cells[x][1]  BY <1>2, <1>4, <1>6, <2>4
    <3>3. cells[x][1] \in Int /\ cells[y][1] \in Int /\ cells[cut.one][1] \in Int
      BY <1>2, <1>4, <1>5, <2>4
    <3> QED  BY <3>1, <3>2, <3>3
  <2>7. ASSUME NEW x \in merge.first..cut.one - 1, NEW y \in cut.low..merge.end - 1
        PROVE  cells[x][1] <= cells[y][1]
    <3>1. cells[cut.one][1] <= cells[y][1]  BY <2>1, <2>4 DEF LeftSearch
    <3>2. cells[x][1] <= cells[cut.one][1]  BY <1>2, <1>4, <1>6, <2>4
    <3>3. cells[x][1] \in Int /\ cells[y][1] \in Int /\ cells[cut.one][1] \in Int
      BY <1>2, <1>4, <1>5, <2>4
    <3> QED  BY <3>1, <3>2, <3>3
  <2> QED  BY <1>1, <2>3, <2>5, <2>6, <2>7 DEF Parted
<1>8. CASE ~cut.left
  <2>1. RightSearch  BY <1>1, <1>8 DEF CutOK
  <2>2. cut' = [cut EXCEPT !.one = cut.low]  BY <1>8 DEF Search
  <2>3. cut'.one = cut.low /\ cut'.two = cut.two  BY <1>3, <2>2 DEF Cuts
  <2>4. /\ merge.middle < cut.two /\ cut.two < merge.end
        /\ merge.first <= cut.low /\ cut.low = cut.high /\ cut.low <= merge.middle
    BY <1>2, <1>4, <2>1 DEF RightSearch
  <2>5. CutsInside'  BY <1>1, <1>2, <1>4, <2>3, <2>4 DEF CutsInside, NewMiddle
  <2>6. ASSUME NEW x \in cut.low..merge.middle - 1, NEW y \in merge.middle..cut.two - 1
        PROVE  cells[y][1] < cells[x][1]
    <3>1. cells[cut.two][1] < cells[x][1]  BY <2>1, <2>4 DEF RightSearch
    <3>2. cells[y][1] <= cells[cut.two][1]  BY <1>2, <1>4, <1>6, <2>4
    <3>3. cells[x][1] \in Int /\ cells[y][1] \in Int /\ cells[cut.two][1] \in Int
      BY <1>2, <1>4, <1>5, <2>4
    <3> QED  BY <3>1, <3>2, <3>3
  <2>7. ASSUME NEW x \in merge.first..cut.low - 1, NEW y \in cut.two..merge.end - 1
        PROVE  cells[x][1] <= cells[y][1]
    <3>1. cells[x][1] <= cells[cut.two][1]  BY <2>1 DEF RightSearch
    <3>2. y = cut.two \/ cells[cut.two][1] <= cells[y][1]  BY <1>2, <1>4, <1>6, <2>4
    <3>3. cells[x][1] \in Int /\ cells[y][1] \in Int /\ cells[cut.two][1] \in Int
      BY <1>2, <1>4, <1>5, <2>4
    <3> QED  BY <3>1, <3>2, <3>3
  <2> QED  BY <1>1, <2>3, <2>5, <2>6, <2>7 DEF Parted
<1> QED  BY <1>7, <1>8

LEMMA CutStep ==
  ASSUME Inv, [Next]_vars
  PROVE  CutOK'
<1> USE DEF Inv
<1>1. CASE UNCHANGED vars
  BY <1>1 DEF vars, CutOK, LeftSearch, RightSearch, CutsInside, NewMiddle
<1>2. CASE Pass  BY <1>2 DEF Pass, CutOK
<1>3. CASE Run  BY <1>3 DEF Run, CutOK
<1>4. CASE Inspect
  <2>1. CASE pc' = "split"
    <3>1. Unordered /\ merge.end - merge.first # 2 /\ merge' = merge /\ pc = "work"
      BY <1>4, <2>1 DEF Inspect
    <3>2. merge.first \in Nat /\ merge.middle \in Nat /\ merge.end \in Nat
      BY <3>1, MergeFacts DEF Holding, Merging
    <3>3. /\ merge.first < merge.middle /\ merge.middle < merge.end
          /\ merge.end - merge.first > 2
      BY <3>1, <3>2 DEF Unordered
    <3> QED  BY <2>1, <3>1, <3>3 DEF CutOK
  <2>2. CASE pc' # "split"
    <3>1. pc' = "pop"  BY <1>4, <2>2 DEF Inspect
    <3> QED  BY <3>1 DEF CutOK
  <2> QED  BY <2>1, <2>2
<1>5. CASE Split
  <2>1. /\ pc' = "search" /\ merge' = merge /\ pc = "split"  BY <1>5 DEF Split
  <2>2. IF cut'.left THEN LeftSearch' ELSE RightSearch'  BY <1>5, SplitSearches
  <2> QED  BY <2>1, <2>2 DEF CutOK
<1>6. CASE Search
  <2>1. merge' = merge /\ pc = "search"  BY <1>6 DEF Search
  <2>2. CASE cut.low < cut.high
    <3>1. pc' = "search"  BY <1>6, <2>2 DEF Search
    <3>2. IF cut'.left THEN LeftSearch' ELSE RightSearch'  BY <1>6, <2>2, SearchNarrows
    <3> QED  BY <2>1, <3>1, <3>2 DEF CutOK
  <2>3. CASE ~(cut.low < cut.high)
    <3>1. pc' = "rotate"  BY <1>6, <2>3 DEF Search
    <3>2. /\ CutsInside'
          /\ Parted(cells', merge'.first, cut'.one, merge'.middle, cut'.two, merge'.end)
      BY <1>6, <2>3, SearchEnds
    <3> QED  BY <2>1, <3>1, <3>2 DEF CutOK
  <2> QED  BY <2>2, <2>3
<1>7. CASE Rotate
  <2>1. pc = "rotate" /\ pc' = "choose" /\ merge' = merge /\ cut' = cut  BY <1>7 DEF Rotate
  <2>2. CutsInside'  BY <2>1 DEF CutOK, CutsInside, NewMiddle
  <2> QED  BY <2>1, <2>2 DEF CutOK
<1>8. CASE Choose  BY <1>8 DEF Choose, CutOK
<1>9. CASE Pop  BY <1>9 DEF Pop, CutOK
<1>10. CASE Done
  BY <1>10 DEF Done, vars, CutOK
<1> QED
  BY <1>1, <1>2, <1>3, <1>4, <1>5, <1>6, <1>7, <1>8, <1>9, <1>10 DEF Next

\* A merge with nothing out of order at its middle is done.
LEMMA OrderedMerge ==
  ASSUME Inv, pc = "work", ~Unordered, NEW i, NEW j, Crosses(merge, i, j),
         i \in Nat, j \in Nat
  PROVE  Ascends(cells, i, j)
<1> USE DEF Inv
<1>1. Holding /\ Merging  BY DEF Holding, Merging
<1>2. /\ merge.first \in Nat /\ merge.middle \in Nat /\ merge.end \in Nat /\ merge.end <= Size
      /\ Size \in Nat
  BY <1>1, MergeFacts DEF TypeOK
<1>3. /\ merge.first <= i /\ i < merge.middle /\ merge.middle <= j /\ j < merge.end
  BY DEF Crosses
<1> DEFINE m == merge.middle
<1>4. ~(cells[m][1] < cells[m - 1][1])  BY <1>2, <1>3 DEF Unordered, Less
<1>5. i = m - 1 \/ cells[i][1] <= cells[m - 1][1]
  BY <1>1, <1>2, <1>3, WithinRuns DEF Ascends
<1>6. j = m \/ cells[m][1] <= cells[j][1]
  BY <1>1, <1>2, <1>3, WithinRuns DEF Ascends
<1>7. i \in 0..Size - 1 /\ j \in 0..Size - 1 /\ m \in 0..Size - 1 /\ m - 1 \in 0..Size - 1
  BY <1>2, <1>3
<1>8. /\ cells[i][1] \in Int /\ cells[j][1] \in Int /\ cells[m][1] \in Int /\ cells[m - 1][1] \in Int
  BY <1>7 DEF TypeOK, Contents
<1> HIDE DEF m
<1> QED  BY <1>4, <1>5, <1>6, <1>8 DEF Ascends

\* As long as the array and the region stay, what still awaits a merge must go on to.
LEMMA OrderKept ==
  ASSUME Inv, Active, Active', UNCHANGED <<cells, width, start>>,
         \A i, j \in Nat : Awaits(i, j) => Ascends(cells, i, j) \/ Awaits(i, j)'
  PROVE  OrderOK'
<1> USE DEF Inv
<1>1. Size' = Size  BY SizeKept
<1>2. RegionEnd' = RegionEnd  BY <1>1 DEF RegionEnd
<1>3. pc' \notin {"passes", "runs", "done"}  BY DEF Active
<1>4. RunsOrdered(cells', start', RegionEnd', width')  BY <1>2 DEF OrderOK
<1>5. start \in Nat /\ RegionEnd \in Nat  BY RegionFacts
<1>6. ASSUME NEW i \in start..RegionEnd - 1, NEW j \in start..RegionEnd - 1, i < j
      PROVE  Ascends(cells', i, j) \/ Awaits(i, j)'
  <2>1. i \in Nat /\ j \in Nat  BY <1>5
  <2>2. Ascends(cells, i, j) \/ Awaits(i, j)  BY <1>6 DEF OrderOK
  <2> QED  BY <2>1, <2>2
<1> QED  BY <1>2, <1>3, <1>4, <1>6 DEF OrderOK

\* After an exchange between parted cuts only the two halves still await a merge.
LEMMA ExchangedOrder ==
  ASSUME Inv, Merging, NEW one \in Nat, NEW two \in Nat,
         merge.first <= one, one <= merge.middle, merge.middle <= two, two <= merge.end,
         Exchanged(cells, cells', one, merge.middle, two),
         Parted(cells, merge.first, one, merge.middle, two, merge.end)
  PROVE  /\ RunsOrdered(cells', start, RegionEnd, width)
         /\ \A i, j \in start..RegionEnd - 1 : i < j =>
              \/ Ascends(cells', i, j)
              \/ \E k \in DOMAIN stack : Crosses(stack[k], i, j)
              \/ /\ merge.first <= i /\ i < one
                 /\ one <= j /\ j < one + (two - merge.middle)
              \/ /\ one + (two - merge.middle) <= i /\ i < two
                 /\ two <= j /\ j < merge.end
<1> USE DEF Inv
<1>1. Holding /\ Active /\ pc # "choose"  BY DEF Holding, Merging, Active
<1>2. /\ merge.first \in Nat /\ merge.middle \in Nat /\ merge.end \in Nat /\ merge.end <= Size
      /\ start <= merge.first /\ merge.first <= merge.middle /\ merge.middle <= merge.end
      /\ merge.end <= RegionEnd
  BY <1>1, MergeFacts
<1>3. start \in Nat /\ RegionEnd \in Nat /\ RegionEnd <= Size /\ Size \in Nat
  BY <1>1, RegionFacts
<1>4. Contents(cells, Size) /\ DOMAIN cells = 0..Size - 1 /\ DOMAIN cells' = 0..Size - 1
  BY DEF TypeOK, Contents, Exchanged
<1> DEFINE s(i) == Source(i, one, merge.middle, two)
<1>5. \A i \in 0..Size - 1 : cells'[i] = cells[s(i)]  BY <1>4 DEF Exchanged
<1>6. \A i \in Nat : /\ s(i) \in Nat
                     /\ one <= i /\ i < two => one <= s(i) /\ s(i) < two
                     /\ ~(one <= i /\ i < two) => s(i) = i
  BY <1>2, SourceInside
<1> HIDE DEF s
<1>7. \A i \in Nat : i < merge.first \/ merge.end <= i => s(i) = i
  BY <1>2, <1>6
<1>8. \A i \in Nat : merge.first <= i /\ i < merge.end =>
                       s(i) \in Nat /\ merge.first <= s(i) /\ s(i) < merge.end
  BY <1>2, <1>6
<1>9. RunsOrdered(cells', start, RegionEnd, width)
  <2>1. RunsOrdered(cells, start, RegionEnd, width)  BY <1>1 DEF OrderOK
  <2>2. ASSUME NEW i \in 0..Size - 1, NEW j \in 0..Size - 1, i < j, j < start \/ RegionEnd <= i
        PROVE  Ascends(cells', i, j) = Ascends(cells, i, j)
    <3>1. s(i) = i /\ s(j) = j  BY <1>2, <1>3, <1>7, <2>2
    <3> QED  BY <1>5, <3>1 DEF Ascends
  <2> QED  BY <1>4, <2>1, <2>2 DEF RunsOrdered
<1>10. ASSUME NEW i \in start..RegionEnd - 1, NEW j \in start..RegionEnd - 1, i < j,
              ~(merge.first <= i /\ j < merge.end)
       PROVE  Ascends(cells', i, j) \/ \E k \in DOMAIN stack : Crosses(stack[k], i, j)
  <2>1. i \in 0..Size - 1 /\ j \in 0..Size - 1 /\ i \in Nat /\ j \in Nat  BY <1>3
  <2>2. cells'[i] = cells[s(i)] /\ cells'[j] = cells[s(j)]  BY <1>5, <2>1
  <2>3. s(i) \in start..RegionEnd - 1 /\ s(j) \in start..RegionEnd - 1 /\ s(i) < s(j)
    BY <1>2, <1>3, <1>7, <1>8, <1>10, <2>1
  <2>4. Ascends(cells, s(i), s(j)) \/ Awaits(s(i), s(j))  BY <1>1, <2>3 DEF OrderOK
  <2>5. ~Crosses(merge, s(i), s(j))
    BY <1>2, <1>3, <1>7, <1>8, <1>10, <2>1 DEF Crosses
  <2>6. ASSUME NEW k \in DOMAIN stack, Crosses(stack[k], s(i), s(j))
        PROVE  Crosses(stack[k], i, j)
    <3>1. stack[k] \in Merges  BY DEF TypeOK
    <3>2. /\ stack[k].first \in Nat /\ stack[k].middle \in Nat /\ stack[k].end \in Nat
      BY <3>1 DEF Merges
    <3>3. Apart(stack[k], merge) /\ Inside(stack[k], start, RegionEnd)  BY <1>1 DEF PutOffOK
    <3>4. s(i) \in Nat /\ s(j) \in Nat  BY <1>6, <2>1
    <3>5. ~(merge.first <= s(i) /\ s(i) < merge.end)
      BY <1>2, <2>6, <3>2, <3>3, <3>4 DEF Apart, Crosses, Inside
    <3>6. ~(merge.first <= s(j) /\ s(j) < merge.end)
      BY <1>2, <2>6, <3>2, <3>3, <3>4 DEF Apart, Crosses, Inside
    <3>7. s(i) = i /\ s(j) = j  BY <1>2, <1>7, <1>8, <2>1, <3>5, <3>6
    <3> QED  BY <2>6, <3>7
  <2> QED  BY <1>1, <2>2, <2>4, <2>5, <2>6 DEF Awaits, Ascends
<1>11. ASSUME NEW i \in merge.first..merge.end - 1, NEW j \in merge.first..merge.end - 1, i < j
       PROVE  \/ Ascends(cells', i, j)
              \/ i < one /\ one <= j /\ j < one + (two - merge.middle)
              \/ one + (two - merge.middle) <= i /\ i < two /\ two <= j
  <2>1. /\ \A p, q \in merge.first..merge.middle - 1 : p < q => Ascends(cells, p, q)
        /\ \A p, q \in merge.middle..merge.end - 1 : p < q => Ascends(cells, p, q)
    BY WithinRuns
  <2> DEFINE first == merge.first  middle == merge.middle  end == merge.end
  <2>2. /\ Size \in Nat /\ first \in Nat /\ middle \in Nat /\ end \in Nat
        /\ first <= one /\ one <= middle /\ middle <= two /\ two <= end /\ end <= Size
        /\ Contents(cells, Size) /\ Exchanged(cells, cells', one, middle, two)
        /\ Parted(cells, first, one, middle, two, end)
        /\ i \in first..end - 1 /\ j \in first..end - 1 /\ i < j
    BY <1>2, <1>3, <1>4, <1>11
  <2>3. /\ \A p, q \in first..middle - 1 : p < q => Ascends(cells, p, q)
        /\ \A p, q \in middle..end - 1 : p < q => Ascends(cells, p, q)
    BY <2>1
  <2> HIDE DEF first, middle, end, Inv
  <2>4. \/ Ascends(cells', i, j)
        \/ i < one /\ one <= j /\ j < one + (two - middle)
        \/ one + (two - middle) <= i /\ i < two /\ two <= j
    BY <2>2, <2>3, ExchangeOrders
  <2> QED  BY <2>4 DEF middle
<1> QED  BY <1>2, <1>3, <1>9, <1>10, <1>11

\* The two runs taken up are in order, each by itself.
LEMMA RunOrder ==
  ASSUME Inv, Run
  PROVE  OrderOK'
<1> USE DEF Inv
<1>1. pc = "runs" /\ cells' = cells /\ start' = start /\ Size' = Size /\ stack' = <<>>
  BY SizeKept DEF Run, RunsOK
<1>2. RunsOrdered(cells, start, start, width) /\ Multiple(start, 2 * width)
  BY <1>1 DEF OrderOK, RunsOK
<1>3. start \in Nat /\ width \in Nat \ {0} /\ Size \in Nat /\ DOMAIN cells = 0..Size - 1
  BY DEF TypeOK, Contents
<1>4. CASE start + width < Size
  <2>1. /\ merge' = Triple(start, start + width, RegionEnd)
        /\ pc' = "work" /\ width' = width
    BY <1>1, <1>4 DEF Run, RegionEnd
  <2>2. RegionEnd' = RegionEnd  BY <1>1, <2>1 DEF RegionEnd
  <2>3. /\ RegionEnd \in Nat /\ start <= RegionEnd /\ RegionEnd <= Size
        /\ RegionEnd <= start + 2 * width
    BY <1>3, <1>4 DEF RegionEnd, Lesser
  <2>4. RunsOrdered(cells, start, RegionEnd, width)
    BY <1>2, <1>3, <2>3 DEF RunsOrdered
  <2>5. ASSUME NEW i \in start..RegionEnd - 1, NEW j \in start..RegionEnd - 1, i < j
        PROVE  Ascends(cells, i, j) \/ Crosses(merge', i, j)
    <3>1. i \in DOMAIN cells /\ j \in DOMAIN cells /\ start <= i /\ j < start + 2 * width
          /\ i \in Nat /\ j \in Nat
      BY <1>3, <2>3
    <3>2. CASE Separated(i, j, width)
      <4>1. i < start + width /\ start + width <= j  BY <1>2, <1>3, <3>1, <3>2, OnlyMiddle
      <4> QED  BY <2>1, <2>3, <4>1 DEF Crosses, Triple
    <3>3. CASE ~Separated(i, j, width)
      BY <1>2, <2>5, <3>1, <3>3 DEF RunsOrdered
    <3> QED  BY <3>2, <3>3
  <2>6. \A i, j \in start'..RegionEnd' - 1 : i < j => Ascends(cells', i, j) \/ Awaits(i, j)'
    BY <1>1, <2>1, <2>2, <2>5 DEF Awaits, Merging
  <2>7. RunsOrdered(cells', start', RegionEnd', width')  BY <1>1, <2>1, <2>2, <2>4
  <2> QED  BY <2>1, <2>6, <2>7 DEF OrderOK, Active
<1>5. CASE ~(start + width < Size)
  <2>1. pc' = "passes" /\ width' = 2 * width  BY <1>5 DEF Run
  <2>2. ASSUME NEW i \in 0..Size - 1, NEW j \in 0..Size - 1, i < j, ~Separated(i, j, 2 * width)
        PROVE  Ascends(cells, i, j)
    <3>1. i \in Nat /\ j \in Nat /\ i \in DOMAIN cells /\ j \in DOMAIN cells  BY <1>3
    <3>2. CASE j < start  BY <1>2, <2>2, <3>1, <3>2 DEF RunsOrdered
    <3>3. CASE start <= i
      <4>1. ~Separated(i, j, width)
        <5>1. SUFFICES ASSUME Separated(i, j, width) PROVE FALSE  OBVIOUS
        <5>2. j < start + 2 * width /\ j < start + width  BY <1>3, <1>5
        <5> QED  BY <1>2, <1>3, <3>1, <3>3, <5>1, <5>2, OnlyMiddle
      <4> QED  BY <1>2, <2>2, <3>1, <3>3, <4>1 DEF RunsOrdered
    <3>4. CASE i < start /\ start <= j
      <4>1. 2 * width \in Nat \ {0}  BY <1>3
      <4>2. Separated(i, j, 2 * width)  BY <1>2, <1>3, <3>1, <3>4, <4>1, SeparatedAt
      <4> QED  BY <2>2, <4>2
    <3> QED  BY <1>3, <3>1, <3>2, <3>3, <3>4
  <2>3. RunsOrdered(cells', 0, 0, width')
    BY <1>1, <1>3, <2>1, <2>2 DEF RunsOrdered
  <2> QED  BY <2>1, <2>3 DEF OrderOK, Active
<1> QED  BY <1>4, <1>5

\* With nothing put off the region is one run of twice the width.
LEMMA PopOrder ==
  ASSUME Inv, Pop
  PROVE  OrderOK'
<1> USE DEF Inv
<1>1. pc = "pop" /\ Active /\ cells' = cells /\ width' = width  BY DEF Pop, Active
<1>2. CASE stack # <<>>
  <2>1. /\ pc' = "work" /\ start' = start /\ merge' = stack[Len(stack)]
        /\ stack' = SubSeq(stack, 1, Len(stack) - 1)
    BY <1>2 DEF Pop
  <2>2. stack \in Seq(Merges)  BY DEF TypeOK
  <2>3. Len(stack) \in Nat \ {0} /\ DOMAIN stack = 1..Len(stack)  BY <1>2, <2>2
  <2>4. /\ DOMAIN stack' = 1..Len(stack) - 1
        /\ \A k \in DOMAIN stack' : stack'[k] = stack[k]
    BY <2>1, <2>2, <2>3
  <2>5. \A k \in DOMAIN stack : stack[k] = merge' \/ (k \in DOMAIN stack' /\ stack'[k] = stack[k])
    BY <2>1, <2>3, <2>4
  <2>6. ASSUME NEW i \in Nat, NEW j \in Nat, Awaits(i, j)
        PROVE  Awaits(i, j)'
    <3>1. PICK k \in DOMAIN stack : Crosses(stack[k], i, j)
      BY <1>1, <2>6 DEF Awaits, Merging
    <3>2. Crosses(merge', i, j) \/ \E l \in DOMAIN stack' : Crosses(stack'[l], i, j)
      BY <2>5, <3>1
    <3> QED  BY <2>1, <3>2 DEF Awaits, Merging
  <2>7. Active'  BY <2>1 DEF Active
  <2> QED  BY <1>1, <2>1, <2>6, <2>7, OrderKept
<1>3. CASE stack = <<>>
  <2>1. pc' = "runs" /\ start' = start + 2 * width  BY <1>3 DEF Pop
  <2>2. /\ RegionEnd \in Nat /\ RegionEnd <= Size
        /\ RegionEnd = start + 2 * width \/ RegionEnd = Size
        /\ RegionEnd <= start + 2 * width
        /\ start \in Nat /\ width \in Nat \ {0} /\ Size \in Nat
    BY <1>1, RegionFacts
  <2>3. DOMAIN cells = 0..Size - 1  BY DEF TypeOK, Contents
  <2>4. RunsOrdered(cells, start, RegionEnd, width) /\ Multiple(start, 2 * width)
    BY <1>1 DEF OrderOK, RunsOK
  <2>5. \A i, j \in start..RegionEnd - 1 : i < j => Ascends(cells, i, j)
    BY <1>1, <1>3 DEF OrderOK, Awaits, Merging
  <2>6. ASSUME NEW i \in 0..Size - 1, NEW j \in 0..Size - 1, i < j,
               j < start + 2 * width, ~Separated(i, j, 2 * width)
        PROVE  Ascends(cells, i, j)
    <3>1. CASE j < start  BY <2>3, <2>4, <2>6, <3>1 DEF RunsOrdered
    <3>2. CASE start <= i  BY <2>2, <2>5, <2>6, <3>2
    <3>3. CASE i < start /\ start <= j
      <4>1. 2 * width \in Nat \ {0} /\ i \in Nat /\ j \in Nat  BY <2>2
      <4>2. Separated(i, j, 2 * width)  BY <2>2, <2>4, <3>3, <4>1, SeparatedAt
      <4> QED  BY <2>6, <4>2
    <3> QED  BY <2>2, <3>1, <3>2, <3>3
  <2>7. ASSUME NEW i \in 0..Size - 1, NEW j \in 0..Size - 1, i < j,
               start + 2 * width <= i, ~Separated(i, j, width)
        PROVE  Ascends(cells, i, j)
    <3>1. RegionEnd <= i /\ i \in DOMAIN cells /\ j \in DOMAIN cells  BY <2>2, <2>3, <2>7
    <3> QED  BY <2>4, <2>7, <3>1 DEF RunsOrdered
  <2>8. RunsOrdered(cells', start', start', width')
    BY <1>1, <2>1, <2>3, <2>6, <2>7 DEF RunsOrdered
  <2> QED  BY <2>1, <2>8 DEF OrderOK, Active
<1> QED  BY <1>2, <1>3

LEMMA PassOrder ==
  ASSUME Inv, Pass
  PROVE  OrderOK'
<1> USE DEF Inv
<1>1. pc = "passes" /\ cells' = cells /\ width' = width /\ start' = 0  BY DEF Pass
<1>2. RunsOrdered(cells, 0, 0, width)  BY <1>1 DEF OrderOK
<1>3. CASE width < Size
  <2>1. pc' = "runs"  BY <1>3 DEF Pass
  <2> QED  BY <1>1, <1>2, <2>1 DEF OrderOK, Active
<1>4. CASE ~(width < Size)
  <2>1. pc' = "done"  BY <1>4 DEF Pass
  <2>2. width \in Nat \ {0} /\ Size \in Nat /\ DOMAIN cells = 0..Size - 1
    BY DEF TypeOK, Contents
  <2>3. ASSUME NEW i \in DOMAIN cells, NEW j \in DOMAIN cells, i < j
        PROVE  Ascends(cells, i, j)
    <3>1. i \in Nat /\ j \in Nat /\ j < width  BY <1>4, <2>2
    <3>2. ~Separated(i, j, width)  BY <2>2, <3>1, FirstRun
    <3> QED  BY <1>2, <2>3, <3>1, <3>2 DEF RunsOrdered
  <2> QED  BY <1>1, <2>1, <2>3 DEF OrderOK, Active
<1> QED  BY <1>3, <1>4

LEMMA InspectOrder ==
  ASSUME Inv, Inspect
  PROVE  OrderOK'
<1> USE DEF Inv
<1>1. /\ pc = "work" /\ Active /\ Active' /\ Merging
      /\ UNCHANGED <<width, start, merge, stack, cut>>
  BY DEF Inspect, Active, Merging
<1>2. CASE ~Unordered
  <2>1. pc' = "pop" /\ cells' = cells  BY <1>2 DEF Inspect
  <2>2. ASSUME NEW i \in Nat, NEW j \in Nat, Awaits(i, j)
        PROVE  Ascends(cells, i, j) \/ Awaits(i, j)'
    BY <1>1, <1>2, <2>2, OrderedMerge DEF Awaits
  <2> QED  BY <1>1, <2>1, <2>2, OrderKept
<1>3. CASE Unordered /\ merge.end - merge.first = 2
  <2>1. pc' = "pop" /\ cells' = Swapped  BY <1>3 DEF Inspect
  <2>2. /\ merge.middle = merge.first + 1 /\ merge.end = merge.first + 2
        /\ Exchanged(cells, cells', merge.first, merge.middle, merge.end)
        /\ Parted(cells, merge.first, merge.first, merge.middle, merge.end, merge.end)
    BY <1>1, <1>3, <2>1, SwapFacts
  <2>3. merge.first \in Nat /\ merge.middle \in Nat /\ merge.end \in Nat
    BY <1>1, MergeFacts DEF Holding
  <2>4. Size' = Size /\ RegionEnd' = RegionEnd  BY <1>1, ContentsStep DEF RegionEnd, Next
  <2>5. /\ RunsOrdered(cells', start, RegionEnd, width)
        /\ \A i, j \in start..RegionEnd - 1 : i < j =>
             \/ Ascends(cells', i, j)
             \/ \E k \in DOMAIN stack : Crosses(stack[k], i, j)
             \/ /\ merge.first <= i /\ i < merge.first
                /\ merge.first <= j /\ j < merge.first + (merge.end - merge.middle)
             \/ /\ merge.first + (merge.end - merge.middle) <= i /\ i < merge.end
                /\ merge.end <= j /\ j < merge.end
    <3>1. merge.first <= merge.middle /\ merge.middle <= merge.end
          /\ merge.first <= merge.first /\ merge.end <= merge.end
      BY <2>2, <2>3
    <3> QED  BY <1>1, <2>2, <2>3, <3>1, ExchangedOrder
  <2>6. start \in Nat /\ RegionEnd \in Nat  BY <1>1, RegionFacts
  <2>7. \A i, j \in start..RegionEnd - 1 : i < j =>
          Ascends(cells', i, j) \/ \E k \in DOMAIN stack : Crosses(stack[k], i, j)
    BY <2>3, <2>5, <2>6
  <2>8. \A i, j \in start..RegionEnd - 1 : i < j => Ascends(cells', i, j) \/ Awaits(i, j)'
    BY <1>1, <2>7 DEF Awaits
  <2> QED  BY <1>1, <2>1, <2>4, <2>5, <2>8 DEF OrderOK
<1>4. CASE Unordered /\ merge.end - merge.first # 2
  <2>1. pc' = "split" /\ cells' = cells  BY <1>4 DEF Inspect
  <2>2. \A i, j \in Nat : Awaits(i, j) => Awaits(i, j)'  BY <1>1, <2>1 DEF Awaits, Merging
  <2> QED  BY <1>1, <2>1, <2>2, OrderKept
<1> QED  BY <1>2, <1>3, <1>4

LEMMA RotateOrder ==
  ASSUME Inv, Rotate
  PROVE  OrderOK'
<1> USE DEF Inv
<1>1. /\ pc = "rotate" /\ pc' = "choose" /\ Active /\ Active' /\ Merging
      /\ UNCHANGED <<width, start, merge, stack, cut>>
  BY DEF Rotate, Active, Merging
<1>2. Size' = Size /\ RegionEnd' = RegionEnd  BY <1>1, ContentsStep DEF RegionEnd, Next
<1>3. /\ merge.first <= cut.one /\ cut.one <= merge.middle
      /\ merge.middle <= cut.two /\ cut.two <= merge.end
      /\ cut.one \in Nat /\ cut.two \in Nat
      /\ Exchanged(cells, cells', cut.one, merge.middle, cut.two)
      /\ Parted(cells, merge.first, cut.one, merge.middle, cut.two, merge.end)
  BY RotateFacts
<1>4. /\ RunsOrdered(cells', start, RegionEnd, width)
      /\ \A i, j \in start..RegionEnd - 1 : i < j =>
           \/ Ascends(cells', i, j)
           \/ \E k \in DOMAIN stack : Crosses(stack[k], i, j)
           \/ /\ merge.first <= i /\ i < cut.one
              /\ cut.one <= j /\ j < cut.one + (cut.two - merge.middle)
           \/ /\ cut.one + (cut.two - merge.middle) <= i /\ i < cut.two
              /\ cut.two <= j /\ j < merge.end
  BY <1>1, <1>3, ExchangedOrder
<1>5. \A i, j \in start..RegionEnd - 1 : i < j => Ascends(cells', i, j) \/ Awaits(i, j)'
  BY <1>1, <1>4 DEF Awaits, Crosses, LeftPart, RightPart, NewMiddle, Triple
<1> QED  BY <1>1, <1>2, <1>4, <1>5 DEF OrderOK

LEMMA ChooseOrder ==
  ASSUME Inv, Choose
  PROVE  OrderOK'
<1> USE DEF Inv
<1>1. /\ pc = "choose" /\ pc' = "work" /\ Active /\ Active' /\ Merging'
      /\ UNCHANGED <<cells, width, start, cut>>
  BY DEF Choose, Active, Merging
<1>2. stack \in Seq(Merges) /\ LeftPart \in Merges /\ RightPart \in Merges
  BY <1>1, PartsFacts DEF TypeOK
<1>3. PICK P \in {LeftPart, RightPart}, Q \in {LeftPart, RightPart} :
        /\ stack' = Append(stack, P) /\ merge' = Q
        /\ {P, Q} = {LeftPart, RightPart}
  BY DEF Choose
<1>4. DOMAIN stack = 1..Len(stack) /\ Len(stack) \in Nat  BY <1>2
<1>5. /\ DOMAIN stack' = 1..Len(stack) + 1
      /\ \A k \in DOMAIN stack : stack'[k] = stack[k]
      /\ stack'[Len(stack) + 1] = P
  BY <1>2, <1>3, <1>4, AppendProperties
<1>6. ASSUME NEW i \in Nat, NEW j \in Nat, Awaits(i, j)
      PROVE  Awaits(i, j)'
  <2>1. CASE \E k \in DOMAIN stack : Crosses(stack[k], i, j)
    <3>1. \E k \in DOMAIN stack' : Crosses(stack'[k], i, j)  BY <1>4, <1>5, <2>1
    <3> QED  BY <3>1 DEF Awaits
  <2>2. CASE Crosses(P, i, j)
    <3>1. Len(stack) + 1 \in DOMAIN stack' /\ Crosses(stack'[Len(stack) + 1], i, j)
      BY <1>4, <1>5, <2>2
    <3> QED  BY <3>1 DEF Awaits
  <2>3. CASE Crosses(Q, i, j)  BY <1>1, <1>3, <2>3 DEF Awaits
  <2> QED  BY <1>1, <1>3, <1>6, <2>1, <2>2, <2>3 DEF Awaits, Merging
<1> QED  BY <1>1, <1>6, OrderKept

LEMMA OrderStep ==
  ASSUME Inv, [Next]_vars
  PROVE  OrderOK'
<1> USE DEF Inv
<1>1. ASSUME UNCHANGED vars PROVE OrderOK'
  BY <1>1, SizeKept
     DEF vars, OrderOK, Active, Merging, Awaits, RegionEnd, LeftPart, RightPart, NewMiddle
<1>2. ASSUME Active, Active', Merging, Merging', UNCHANGED <<cells, width, start, merge, stack>>
      PROVE  OrderOK'
  <2>1. \A i, j \in Nat : Awaits(i, j) => Awaits(i, j)'  BY <1>2 DEF Awaits, Merging
  <2> QED  BY <1>2, <2>1, OrderKept
<1>3. CASE Split  BY <1>2, <1>3 DEF Split, Active, Merging
<1>4. CASE Search  BY <1>2, <1>4 DEF Search, Active, Merging
<1>5. CASE Done  BY <1>1, <1>5 DEF Done
<1> QED
  BY <1>1, <1>3, <1>4, <1>5, PassOrder, RunOrder, InspectOrder, RotateOrder, ChooseOrder, PopOrder
     DEF Next

LEMMA ProductMonotone ==
  ASSUME NEW a \in Nat, NEW b \in Nat, NEW p \in Nat, a <= b
  PROVE  a * p <= b * p
<1>1. (b - a) * p >= 0  OBVIOUS
<1>2. b * p = a * p + (b - a) * p  OBVIOUS
<1> QED  BY <1>1, <1>2

LEMMA ProductTwice ==
  ASSUME NEW a \in Nat, NEW p \in Nat
  PROVE  a * (2 * p) = (2 * a) * p
OBVIOUS

\* Taking the smaller half on doubles how often it fits into the array.
LEMMA ChooseStack ==
  ASSUME Inv, Choose
  PROVE  StackOK'
<1> USE DEF Inv
<1>1. pc = "choose" /\ Holding /\ Size' = Size  BY SizeKept DEF Choose, Holding
<1>2. /\ merge.first \in Nat /\ merge.middle \in Nat /\ merge.end \in Nat /\ NewMiddle \in Nat
      /\ cut.one \in Nat /\ cut.two \in Nat
      /\ merge.first < NewMiddle /\ NewMiddle < merge.end
  BY <1>1, CutsFacts
<1>3. PICK P \in {LeftPart, RightPart}, Q \in {LeftPart, RightPart} :
        /\ stack' = Append(stack, P) /\ merge' = Q
        /\ Length(P) \in Nat /\ Length(Q) \in Nat \ {0}
        /\ 2 * Length(Q) <= Length(merge) /\ Length(P) <= Length(merge)
  <2>1. CASE LeftIsSmaller
    <3>1. stack' = Append(stack, RightPart) /\ merge' = LeftPart  BY <2>1 DEF Choose
    <3>2. /\ Length(RightPart) \in Nat /\ Length(LeftPart) \in Nat \ {0}
          /\ 2 * Length(LeftPart) <= Length(merge) /\ Length(RightPart) <= Length(merge)
      BY <1>2, <2>1 DEF LeftIsSmaller, LeftPart, RightPart, Triple, Length
    <3> QED  BY <3>1, <3>2
  <2>2. CASE ~LeftIsSmaller
    <3>1. stack' = Append(stack, LeftPart) /\ merge' = RightPart  BY <2>2 DEF Choose
    <3>2. /\ Length(LeftPart) \in Nat /\ Length(RightPart) \in Nat \ {0}
          /\ 2 * Length(RightPart) <= Length(merge) /\ Length(LeftPart) <= Length(merge)
      BY <1>2, <2>2 DEF LeftIsSmaller, LeftPart, RightPart, Triple, Length
    <3> QED  BY <3>1, <3>2
  <2> QED  BY <2>1, <2>2
<1> DEFINE L == Len(stack)
           p == 2 ^ L
<1>4. stack \in Seq(Merges) /\ L \in Nat /\ DOMAIN stack = 1..L  BY DEF TypeOK
<1>5. L \in 0..Log /\ p \in Nat /\ 2 ^ (L + 1) = 2 * p
  <2>1. L \in 0..Log  BY <1>4, MergeSortAssumption DEF StackOK
  <2> QED  BY <2>1, PowersAssumption
<1>6. /\ DOMAIN stack' = 1..L + 1 /\ Len(stack') = L + 1
      /\ \A k \in DOMAIN stack : stack'[k] = stack[k]
      /\ stack'[L + 1] = P
  <2>1. P \in Merges  BY <1>1, PartsFacts
  <2> QED  BY <1>3, <1>4, <2>1, AppendProperties
<1>7. Length(merge) \in Nat /\ Length(merge) * p <= Size /\ Size \in Nat /\ Size <= Capacity
  BY <1>1, <1>2 DEF StackOK, Length, TypeOK
<1> HIDE DEF p, L
<1>8. Length(P) * p <= Size
  <2>1. Length(P) * p <= Length(merge) * p  BY <1>3, <1>5, <1>7, ProductMonotone
  <2>2. Length(P) * p \in Int /\ Length(merge) * p \in Int  BY <1>3, <1>5, <1>7
  <2> QED  BY <1>7, <2>1, <2>2
<1>9. Length(Q) * (2 * p) <= Size
  <2> DEFINE q == Length(Q)
  <2>1. q \in Nat /\ 2 * q \in Nat /\ 2 * q <= Length(merge)  BY <1>3
  <2> HIDE DEF q
  <2>2. (2 * q) * p <= Length(merge) * p  BY <1>5, <1>7, <2>1, ProductMonotone
  <2>3. q * (2 * p) = (2 * q) * p  BY <1>5, <2>1, ProductTwice
  <2>4. (2 * q) * p \in Int /\ Length(merge) * p \in Int  BY <1>5, <1>7, <2>1
  <2>5. q * (2 * p) <= Size  BY <1>7, <2>2, <2>3, <2>4
  <2> QED  BY <2>5 DEF q
<1>10. 2 * p <= Capacity
  <2>1. 2 * p \in Nat  BY <1>5
  <2>2. Length(Q) * (2 * p) >= 2 * p  BY <1>3, <2>1, ProductBound
  <2>3. Length(Q) * (2 * p) \in Int  BY <1>3, <2>1
  <2>4. 2 * p <= Size  BY <1>7, <1>9, <2>1, <2>2, <2>3
  <2> QED  BY <1>7, <2>1, <2>4, MergeSortAssumption
<1>11. L + 1 <= Log
  <2>1. SUFFICES ASSUME L = Log PROVE FALSE  BY <1>5, MergeSortAssumption
  <2>2. p = 2 ^ Log  BY <2>1 DEF p
  <2>3. Capacity < p  BY <2>2, MergeSortAssumption
  <2> QED  BY <1>5, <1>10, <2>3, MergeSortAssumption
<1>12. \A k \in DOMAIN stack' : Length(stack'[k]) * 2 ^ (k - 1) <= Size
  <2>1. ASSUME NEW k \in DOMAIN stack PROVE Length(stack'[k]) * 2 ^ (k - 1) <= Size
    <3>1. stack'[k] = stack[k]  BY <1>6
    <3> QED  BY <3>1 DEF StackOK
  <2>2. Length(stack'[L + 1]) * 2 ^ ((L + 1) - 1) <= Size
    <3>1. (L + 1) - 1 = L  BY <1>5
    <3>2. 2 ^ ((L + 1) - 1) = p  BY <3>1 DEF p
    <3> QED  BY <1>6, <1>8, <3>2
  <2>3. \A k \in DOMAIN stack' : k \in DOMAIN stack \/ k = L + 1  BY <1>4, <1>5, <1>6
  <2> QED  BY <2>1, <2>2, <2>3
<1>13. Len(stack') <= Log /\ 2 ^ Len(stack') <= Capacity
  BY <1>5, <1>6, <1>10, <1>11
<1>14. Length(merge') * 2 ^ Len(stack') <= Size  BY <1>3, <1>5, <1>6, <1>9
<1> QED  BY <1>1, <1>12, <1>13, <1>14 DEF StackOK

LEMMA PopStack ==
  ASSUME Inv, Pop
  PROVE  StackOK'
<1> USE DEF Inv
<1>1. pc = "pop" /\ Size' = Size  BY SizeKept DEF Pop
<1>2. CASE stack = <<>>
  <2>1. stack' = stack /\ ~Holding'  BY <1>2 DEF Pop, Holding, Merging
  <2> QED  BY <1>1, <2>1 DEF StackOK
<1>3. CASE stack # <<>>
  <2> DEFINE L == Len(stack)
  <2>1. stack \in Seq(Merges) /\ L \in Nat \ {0} /\ DOMAIN stack = 1..L
    BY <1>3 DEF TypeOK
  <2>2. merge' = stack[L] /\ stack' = SubSeq(stack, 1, L - 1)  BY <1>3 DEF Pop
  <2>3. /\ Len(stack') = L - 1 /\ DOMAIN stack' = 1..L - 1
        /\ \A k \in DOMAIN stack' : stack'[k] = stack[k]
    BY <2>1, <2>2
  <2>4. L - 1 \in 0..Log /\ L <= Log /\ L = (L - 1) + 1
    BY <2>1, MergeSortAssumption DEF StackOK
  <2>5. 2 ^ L = 2 * 2 ^ (L - 1) /\ 2 ^ (L - 1) \in Nat
    <3>1. 2 ^ ((L - 1) + 1) = 2 * 2 ^ (L - 1)  BY <2>4, PowersAssumption
    <3>2. 2 ^ ((L - 1) + 1) = 2 ^ L  BY <2>4
    <3> QED  BY <2>4, <3>1, <3>2, PowersAssumption
  <2>6. 2 ^ L <= Capacity  BY DEF StackOK
  <2>7. 2 ^ Len(stack') <= Capacity  BY <2>3, <2>5, <2>6, MergeSortAssumption
  <2>8. Len(stack') <= Log  BY <2>3, <2>4, MergeSortAssumption
  <2>9. DOMAIN stack' \subseteq DOMAIN stack /\ L \in DOMAIN stack  BY <2>1, <2>3
  <2>10. \A k \in DOMAIN stack' : Length(stack'[k]) * 2 ^ (k - 1) <= Size
    BY <2>3, <2>9 DEF StackOK
  <2>11. Length(merge') * 2 ^ Len(stack') <= Size  BY <2>2, <2>3, <2>9 DEF StackOK
  <2> QED  BY <1>1, <2>7, <2>8, <2>10, <2>11 DEF StackOK
<1> QED  BY <1>2, <1>3

LEMMA StackStep ==
  ASSUME Inv, [Next]_vars
  PROVE  StackOK'
<1> USE DEF Inv
<1>1. Size' = Size  BY ContentsStep
<1>2. ASSUME UNCHANGED <<merge, stack>>, Holding' => Holding
      PROVE  StackOK'
  BY <1>1, <1>2 DEF StackOK
<1>3. CASE UNCHANGED vars  BY <1>2, <1>3 DEF vars, Holding, Merging
<1>4. CASE Pass  BY <1>2, <1>4 DEF Pass, Holding, Merging
<1>5. CASE Run
  <2>1. stack' = stack /\ stack = <<>>  BY <1>5 DEF Run, RunsOK
  <2>2. CASE start + width < Size
    <3>1. merge' = Triple(start, start + width, RegionEnd)  BY <1>5, <2>2 DEF Run, RegionEnd
    <3>2. /\ start \in Nat /\ width \in Nat /\ Size \in Nat
          /\ RegionEnd \in Nat /\ RegionEnd <= Size /\ start <= RegionEnd
      BY <2>2 DEF RegionEnd, Lesser, TypeOK
    <3>3. Length(merge') \in Nat /\ Length(merge') <= Size
      BY <3>1, <3>2 DEF Length, Triple
    <3>4. Len(stack') = 0 /\ 2 ^ 0 = 1  BY <2>1
    <3>5. Length(merge') * 2 ^ Len(stack') <= Size  BY <3>2, <3>3, <3>4
    <3> QED  BY <1>1, <2>1, <3>5 DEF StackOK
  <2>3. CASE ~(start + width < Size)
    BY <1>2, <1>5, <2>3 DEF Run, Holding, Merging
  <2> QED  BY <2>2, <2>3
<1>6. CASE Inspect  BY <1>2, <1>6 DEF Inspect, Holding, Merging
<1>7. CASE Split  BY <1>2, <1>7 DEF Split, Holding, Merging
<1>8. CASE Search  BY <1>2, <1>8 DEF Search, Holding, Merging
<1>9. CASE Rotate  BY <1>2, <1>9 DEF Rotate, Holding, Merging
<1>10. CASE Done  BY <1>2, <1>10 DEF Done, vars, Holding, Merging
<1> QED
  BY <1>3, <1>4, <1>5, <1>6, <1>7, <1>8, <1>9, <1>10, ChooseStack, PopStack DEF Next

-----------------------------------------------------------------------------
(* The theorems.                                                           *)

LEMMA InitInv == Init => Inv
<1> SUFFICES ASSUME Init PROVE Inv  OBVIOUS
<1>1. PICK n \in 0..Capacity : \E key \in [0..n - 1 -> Keys] :
        cells = [i \in 0..n - 1 |-> <<key[i], i>>]
  BY DEF Init
<1>2. n \in Nat  BY MergeSortAssumption
<1> PICK key \in [0..n - 1 -> Keys] : cells = [i \in 0..n - 1 |-> <<key[i], i>>]
  BY <1>1
<1>3. DOMAIN cells = 0..n - 1  OBVIOUS
<1>4. Size = n
  <2>1. Cardinality(0..n - 1) = n
    <3>1. 0 \in Int /\ n - 1 \in Int  BY <1>2
    <3> QED  BY <1>2, <3>1, FS_Interval
  <2> QED  BY <1>3, <2>1 DEF Size
<1>5. \A i \in 0..n - 1 : cells[i][1] \in Int /\ cells[i][2] = i
  BY MergeSortAssumption
<1>6. /\ pc = "passes" /\ width = 1 /\ start = 0 /\ merge = Triple(0, 0, 0)
      /\ stack = <<>> /\ cut = NoCut
  BY DEF Init
<1>7. TypeOK
  <2>1. Contents(cells, Size)  BY <1>3, <1>4, <1>5 DEF Contents
  <2>2. merge \in Merges /\ cut \in Cuts /\ stack \in Seq(Merges)
    BY <1>6 DEF Triple, NoCut, Merges, Cuts
  <2> QED  BY <1>4, <1>6, <2>1, <2>2 DEF TypeOK, SortBlocks
<1>8. AllThere(cells)  BY <1>3, <1>5 DEF AllThere
<1>9. Stable(cells)  BY <1>3, <1>5 DEF Stable
<1>10. RunsOK  BY <1>6 DEF RunsOK, Active
<1>11. OrderOK
  <2>1. ASSUME NEW i \in 0..n - 1, NEW j \in 0..n - 1, i < j
        PROVE  Separated(i, j, 1)
    <3>1. j \in 0..j /\ i < j * 1 /\ j * 1 <= j  BY <1>2, <2>1
    <3> QED  BY <3>1 DEF Separated
  <2>2. RunsOrdered(cells, 0, 0, 1)  BY <1>2, <1>3, <2>1 DEF RunsOrdered
  <2> QED  BY <1>6, <2>2 DEF OrderOK, Active
<1>12. PutOffOK  BY <1>6 DEF PutOffOK, Holding, Merging
<1>13. CutOK  BY <1>6 DEF CutOK
<1>14. StackOK
  <2>1. Len(stack) = 0 /\ DOMAIN stack = {}  BY <1>6
  <2>2. 2 ^ 0 = 1  OBVIOUS
  <2>3. ~Holding  BY <1>6 DEF Holding, Merging
  <2> QED  BY <2>1, <2>2, <2>3, MergeSortAssumption DEF StackOK
<1> QED  BY <1>7, <1>8, <1>9, <1>10, <1>11, <1>12, <1>13, <1>14 DEF Inv

LEMMA InvStep == Inv /\ [Next]_vars => Inv'
<1> SUFFICES ASSUME Inv, [Next]_vars PROVE Inv'  OBVIOUS
<1>1. AllThere(cells') /\ Stable(cells')  BY ContentsStep DEF Inv
<1> QED  BY <1>1, TypeStep, RunsStep, OrderStep, PutOffStep, CutStep, StackStep DEF Inv

\* The array sort keeps its inductive invariant: what is done is in order, what
\* is not awaits a merge at hand or put off, and the cuts part the runs.
THEOREM MergeSortInvariant == Spec => []Inv
BY InitInv, InvStep, PTL DEF Spec

\* The array that the emitted sort leaves is a rearrangement of the one it was
\* given, in ascending order, whatever its capacity and its elements.
LEMMA MergeSortSorts == Spec => []Sorted
<1>1. Inv => Sorted
  <2> SUFFICES ASSUME Inv PROVE Sorted  OBVIOUS
  <2>1. \A i \in DOMAIN cells : cells[i][2] \in DOMAIN cells
    BY DEF Inv, TypeOK, Contents
  <2>2. {cells[i][2] : i \in DOMAIN cells} = DOMAIN cells
    BY <2>1 DEF Inv, AllThere
  <2>3. pc = "done" => \A i, j \in DOMAIN cells : i < j => cells[i][1] <= cells[j][1]
    BY DEF Inv, OrderOK, Ascends
  <2> QED  BY <2>2, <2>3 DEF Sorted
<1> QED  BY <1>1, MergeSortInvariant, PTL

\* At no step does an element pass one that is equal to it: the sort is stable.
LEMMA MergeSortStable == Spec => []EqualsInOrder
<1>1. Inv => EqualsInOrder  BY DEF Inv, Stable, EqualsInOrder
<1> QED  BY <1>1, MergeSortInvariant, PTL

\* What the array sort leaves is in order, and what is equal as it was.
THEOREM MergeSortSortsStably == Spec => []SortedStably
<1>1. Sorted /\ EqualsInOrder => SortedStably  BY DEF SortedStably
<1> QED  BY <1>1, MergeSortSorts, MergeSortStable, PTL

\* The stack of merges put off never outgrows what is reserved for the capacity.
THEOREM MergeSortStack == Spec => []StackFits
<1>1. Inv => StackFits
  <2> SUFFICES ASSUME Inv PROVE StackFits  OBVIOUS
  <2>1. Len(stack) <= Log /\ 2 ^ Len(stack) <= Capacity  BY DEF Inv, StackOK
  <2>2. Len(stack) \in Nat  BY DEF Inv, TypeOK
  <2> QED  BY <2>1, <2>2, MergeSortAssumption DEF StackFits, StackCapacity
<1> QED  BY <1>1, MergeSortInvariant, PTL

-----------------------------------------------------------------------------
(***************************************************************************)
(* The vocabulary of the invariant.  Its operators take what they speak of *)
(* as parameters: the links, the comparator, the locals, and the sequences *)
(* of entities that the links are claimed to form.                         *)
(***************************************************************************)
Elems(q) == {q[i] : i \in 1..Len(q)}
Distinct(q) == \A i, j \in 1..Len(q) : q[i] = q[j] => i = j

\* The links run through q from ref on, and a closed q ends there.
Linked(links, ref, q) ==
  /\ ref = IF q = <<>> THEN Nil ELSE q[1]
  /\ \A i \in 1..Len(q) - 1 : links[q[i]] = q[i + 1]
Closed(links, q) == q # <<>> => links[q[Len(q)]] = Nil
ListAt(links, ref, q) == Linked(links, ref, q) /\ Closed(links, q)

LastOf(q) == IF q = <<>> THEN Nil ELSE q[Len(q)]

\* What is merged, the two runs and the rest share out the entities.
Shares(entities, m, l, r, c) ==
  /\ m \in Seq(entities) /\ l \in Seq(entities) /\ r \in Seq(entities) /\ c \in Seq(entities)
  /\ Distinct(m) /\ Distinct(l) /\ Distinct(r) /\ Distinct(c)
  /\ Elems(m) \cap Elems(l) = {} /\ Elems(m) \cap Elems(r) = {} /\ Elems(m) \cap Elems(c) = {}
  /\ Elems(l) \cap Elems(r) = {} /\ Elems(l) \cap Elems(c) = {} /\ Elems(r) \cap Elems(c) = {}
  /\ Elems(m) \cup Elems(l) \cup Elems(r) \cup Elems(c) = entities

Weak(entities, lesser) ==
  /\ \A a, b \in entities : <<a, b>> \in lesser => <<b, a>> \notin lesser
  /\ \A a, b, c \in entities : <<a, c>> \in lesser => <<a, b>> \in lesser \/ <<b, c>> \in lesser

\* The order a stable sort has to establish, and what is in it.
Precedes(lesser, a, b) == <<b, a>> \notin lesser /\ (<<a, b>> \notin lesser => a < b)
Ordered(lesser, q) == \A i, j \in 1..Len(q) : i < j => Precedes(lesser, q[i], q[j])

\* A run of width w ends after n entities.  Within a run the entities are in
\* the order, from one run to a later one they are as they were.
Cut(n, w) == \E k \in Nat : n = k * w
CutBetween(i, j, w) == \E n \in i..j - 1 : Cut(n, w)
Runs(lesser, q, w) ==
  \A i, j \in 1..Len(q) : i < j =>
    IF CutBetween(i, j, w) THEN q[i] < q[j] ELSE Precedes(lesser, q[i], q[j])
Below(p, q) == \A i \in 1..Len(p), j \in 1..Len(q) : p[i] < q[j]

\* The first f entities of m are of finished merges.
AfterPrefix(lesser, m, f, q) ==
  \A i \in 1..Len(m), j \in 1..Len(q) :
    IF i <= f THEN m[i] < q[j] ELSE Precedes(lesser, m[i], q[j])

-----------------------------------------------------------------------------
(***************************************************************************)
(* The shape of the list at the blocks.                                    *)
(***************************************************************************)
\* The list is whole.
WholeAt(entities, links, ref, q) ==
  Shares(entities, q, <<>>, <<>>, <<>>) /\ ListAt(links, ref, q)

MergedAt(links, loc, m) == Linked(links, loc.newHead, m) /\ loc.tail = LastOf(m)

\* Between two merges: m is merged in runs of twice the width, c is left.
OuterOrder(lesser, loc, m, c) ==
  /\ Runs(lesser, m, 2 * loc.width) /\ Runs(lesser, c, loc.width) /\ Below(m, c)
  /\ c # <<>> => Cut(Len(m), 2 * loc.width)

OuterAt(entities, lesser, links, loc, m, c) ==
  /\ Shares(entities, m, <<>>, <<>>, c)
  /\ MergedAt(links, loc, m) /\ ListAt(links, loc.current, c)
  /\ loc.merges = 0 => m = <<>>
  /\ loc.merges = 1 => Len(m) <= 2 * loc.width
  /\ Weak(entities, lesser) => OuterOrder(lesser, loc, m, c)

\* The run that is walked begins c, and end is its last entity so far.
Walking(loc, c) ==
  /\ loc.count \in 1..Len(c) /\ loc.count <= loc.width
  /\ loc.end = c[loc.count]

LeftAt(entities, lesser, links, loc, m, c) ==
  /\ Shares(entities, m, <<>>, <<>>, c)
  /\ MergedAt(links, loc, m) /\ ListAt(links, loc.left, c)
  /\ Walking(loc, c)
  /\ loc.merges >= 1 /\ (loc.merges = 1 => m = <<>>)
  /\ Weak(entities, lesser) => OuterOrder(lesser, loc, m, c)

RightAt(entities, lesser, links, loc, m, l, c) ==
  /\ Shares(entities, m, l, <<>>, c)
  /\ MergedAt(links, loc, m) /\ ListAt(links, loc.left, l) /\ ListAt(links, loc.right, c)
  /\ Walking(loc, c)
  /\ Len(l) = loc.width
  /\ loc.merges >= 1 /\ (loc.merges = 1 => m = <<>>)
  /\ Weak(entities, lesser) =>
       /\ OuterOrder(lesser, loc, m, c)
       /\ Ordered(lesser, l) /\ Below(m, l) /\ Below(l, c)

\* Within a merge: the runs l and r go behind the f entities merged before.
MergeOrder(lesser, loc, f, m, l, r, c) ==
  /\ Runs(lesser, m, 2 * loc.width) /\ Runs(lesser, c, loc.width)
  /\ Cut(f, 2 * loc.width)
  /\ c # <<>> => Len(m) + Len(l) + Len(r) = f + 2 * loc.width
  /\ AfterPrefix(lesser, m, f, l) /\ AfterPrefix(lesser, m, f, r)
  /\ Below(m, c) /\ Below(l, c) /\ Below(r, c) /\ Below(l, r)
  /\ Ordered(lesser, l) /\ Ordered(lesser, r)

\* Before and after an entity is appended: in the latter case both runs may be used up.
MergeShape(entities, lesser, links, loc, f, m, l, r, c) ==
  /\ Shares(entities, m, l, r, c)
  /\ MergedAt(links, loc, m)
  /\ ListAt(links, loc.left, l) /\ ListAt(links, loc.right, r) /\ ListAt(links, loc.rest, c)
  /\ f \in 0..Len(m) /\ Len(m) + Len(l) + Len(r) <= f + 2 * loc.width
  /\ loc.merges >= 1 /\ (loc.merges = 1 => f = 0)
  /\ Weak(entities, lesser) => MergeOrder(lesser, loc, f, m, l, r, c)

MergeAt(entities, lesser, links, loc, f, m, l, r, c) ==
  MergeShape(entities, lesser, links, loc, f, m, l, r, c) /\ (l # <<>> \/ r # <<>>)

\* The previous links of the first n entities run backwards.
BackTo(before, q, n) == \A i \in 1..n : before[q[i]] = IF i = 1 THEN Nil ELSE q[i - 1]

PreviousAt(before, loc, q) ==
  \E n \in 0..Len(q) :
    /\ loc.current = IF n < Len(q) THEN q[n + 1] ELSE Nil
    /\ loc.tail = IF n = 0 THEN Nil ELSE q[n]
    /\ BackTo(before, q, n)

-----------------------------------------------------------------------------
(***************************************************************************)
(* The inductive invariant: at every block there are sequences of which    *)
(* the locals hold the list.                                               *)
(***************************************************************************)
LocalTypes ==
  [result : Refs, width : Nat \ {0}, current : Refs, newHead : Refs, tail : Refs,
   merges : Nat, left : Refs, right : Refs, rest : Refs, end : Refs, count : Nat]

Blocks == {"pass", "outer", "left", "right", "merge", "finish", "done", "previous", "returned"}

TypeInv ==
  /\ size \in 0..Cardinality(Entities)
  /\ next \in [Entities -> Refs] /\ previous \in [Entities -> Refs]
  /\ doubly \in BOOLEAN /\ block \in Blocks
  /\ local \in LocalTypes

WholeInv ==
  block \in {"pass", "done", "previous", "returned"} =>
    \E q \in Seq(Members) :
      /\ WholeAt(Members, next, local.result, q)
      /\ Weak(Members, less) => IF block = "pass" THEN Runs(less, q, local.width) ELSE Ordered(less, q)
      /\ block = "previous" => doubly /\ PreviousAt(previous, local, q)
      /\ block = "returned" /\ doubly => BackTo(previous, q, Len(q))

OuterInv ==
  block \in {"outer", "finish"} =>
    \E m, c \in Seq(Members) :
      OuterAt(Members, less, next, local, m, c) /\ (block = "finish" => c = <<>>)

LeftInv ==
  block = "left" => \E m, c \in Seq(Members) : LeftAt(Members, less, next, local, m, c)

RightInv ==
  block = "right" => \E m, l, c \in Seq(Members) : RightAt(Members, less, next, local, m, l, c)

MergeInv ==
  block = "merge" =>
    \E m, l, r, c \in Seq(Members) : \E f \in Nat :
      MergeAt(Members, less, next, local, f, m, l, r, c)

ListInv == TypeInv /\ WholeInv /\ OuterInv /\ LeftInv /\ RightInv /\ MergeInv

-----------------------------------------------------------------------------
(***************************************************************************)
(* Sequences of distinct entities.                                         *)
(***************************************************************************)
LEMMA ElemsIn ==
  ASSUME NEW S, NEW q \in Seq(S)
  PROVE  /\ Len(q) \in Nat /\ (q = <<>> <=> Len(q) = 0)
         /\ \A i \in 1..Len(q) : q[i] \in S /\ q[i] \in Elems(q)
         /\ Elems(q) \subseteq S
<1>1. Len(q) \in Nat /\ (q = <<>> <=> Len(q) = 0)
  BY EmptySeq, LenProperties
<1>2. \A i \in 1..Len(q) : q[i] \in S
  BY ElementOfSeq
<1> QED
  BY <1>1, <1>2 DEF Elems

LEMMA OfNone ==
  /\ Len(<<>>) = 0 /\ Elems(<<>>) = {} /\ Distinct(<<>>) /\ LastOf(<<>>) = Nil
  /\ \A S : <<>> \in Seq(S)
BY DEF Elems, Distinct, LastOf

LEMMA OfTail ==
  ASSUME NEW S, NEW q \in Seq(S), q # <<>>, Distinct(q)
  PROVE  /\ Tail(q) \in Seq(S) /\ Len(Tail(q)) = Len(q) - 1 /\ Len(q) >= 1
         /\ \A i \in 1..Len(q) - 1 : Tail(q)[i] = q[i + 1]
         /\ Distinct(Tail(q))
         /\ q[1] \in S /\ Elems(q) = {q[1]} \cup Elems(Tail(q)) /\ q[1] \notin Elems(Tail(q))
<1>1. /\ Tail(q) \in Seq(S) /\ Len(Tail(q)) = Len(q) - 1
      /\ \A i \in 1..Len(q) - 1 : Tail(q)[i] = q[i + 1]
  BY HeadTailProperties, LenProperties
<1>2. Len(q) \in Nat /\ Len(q) >= 1
  BY ElemsIn
<1>3. q[1] \in S
  BY <1>2, ElemsIn
<1>4. Distinct(Tail(q))
  BY <1>1, <1>2 DEF Distinct
<1>5. \A i \in 2..Len(q) : i - 1 \in 1..Len(q) - 1 /\ q[i] = Tail(q)[i - 1]
  BY <1>1, <1>2
<1>6. Elems(q) \subseteq {q[1]} \cup Elems(Tail(q))
  BY <1>1, <1>2, <1>5 DEF Elems
<1>7. {q[1]} \cup Elems(Tail(q)) \subseteq Elems(q)
  BY <1>1, <1>2 DEF Elems
<1>8. q[1] \notin Elems(Tail(q))
  BY <1>1, <1>2 DEF Elems, Distinct
<1> QED
  BY <1>1, <1>2, <1>3, <1>4, <1>6, <1>7, <1>8

LEMMA OfAppend ==
  ASSUME NEW S, NEW q \in Seq(S), NEW e \in S, Distinct(q), e \notin Elems(q)
  PROVE  /\ Append(q, e) \in Seq(S) /\ Len(Append(q, e)) = Len(q) + 1 /\ Len(q) \in Nat
         /\ \A i \in 1..Len(q) : Append(q, e)[i] = q[i]
         /\ Append(q, e)[Len(q) + 1] = e
         /\ Append(q, e) # <<>> /\ LastOf(Append(q, e)) = e
         /\ Distinct(Append(q, e)) /\ Elems(Append(q, e)) = Elems(q) \cup {e}
<1> DEFINE p == Append(q, e)
<1>1. /\ p \in Seq(S) /\ Len(p) = Len(q) + 1 /\ Len(q) \in Nat
      /\ \A i \in 1..Len(q) : p[i] = q[i]
      /\ p[Len(q) + 1] = e
  BY AppendProperties, ElemsIn
<1>2. p # <<>>
  BY <1>1, ElemsIn
<1> HIDE DEF p
<1>3. \A i \in 1..Len(q) : q[i] # e
  BY DEF Elems
<1>4. \A i \in 1..Len(q) + 1 : p[i] = IF i <= Len(q) THEN q[i] ELSE e
  BY <1>1
<1>5. Distinct(p)
  BY <1>1, <1>3, <1>4 DEF Distinct
<1>6. Elems(p) = Elems(q) \cup {e}
  BY <1>1, <1>4 DEF Elems
<1> QED
  BY <1>1, <1>2, <1>5, <1>6 DEF p, LastOf

RunOf(q, n) == SubSeq(q, 1, n)
RestOf(q, n) == SubSeq(q, n + 1, Len(q))

LEMMA OfSplit ==
  ASSUME NEW S, NEW q \in Seq(S), Distinct(q), NEW n \in 1..Len(q)
  PROVE  /\ RunOf(q, n) \in Seq(S) /\ RestOf(q, n) \in Seq(S)
         /\ Len(RunOf(q, n)) = n /\ Len(RestOf(q, n)) = Len(q) - n /\ Len(q) \in Nat
         /\ \A i \in 1..n : RunOf(q, n)[i] = q[i]
         /\ \A i \in 1..Len(q) - n : RestOf(q, n)[i] = q[n + i]
         /\ Distinct(RunOf(q, n)) /\ Distinct(RestOf(q, n))
         /\ Elems(q) = Elems(RunOf(q, n)) \cup Elems(RestOf(q, n))
         /\ Elems(RunOf(q, n)) \cap Elems(RestOf(q, n)) = {}
<1> DEFINE a == RunOf(q, n)
           b == RestOf(q, n)
<1>1. Len(q) \in Nat
  BY ElemsIn
<1>2. a \in Seq(S) /\ Len(a) = n /\ \A i \in 1..n : a[i] = q[i]
  BY <1>1, SubSeqProperties, ElementOfSeq DEF RunOf
<1>3. b \in Seq(S) /\ Len(b) = Len(q) - n /\ \A i \in 1..Len(q) - n : b[i] = q[n + i]
  <2>1. \A i \in n + 1..Len(q) : q[i] \in S
    BY <1>1, ElementOfSeq
  <2> QED
    BY <1>1, <2>1, SubSeqProperties DEF RestOf
<1> HIDE DEF a, b
<1>4. Distinct(a) /\ Distinct(b)
  <2>1. Distinct(a)
    BY <1>1, <1>2 DEF Distinct
  <2>2. \A i \in 1..Len(q) - n : n + i \in 1..Len(q)
    BY <1>1
  <2>3. \A i, j \in 1..Len(q) - n : b[i] = b[j] => n + i = n + j
    BY <1>3, <2>2 DEF Distinct
  <2>4. Distinct(b)
    BY <1>1, <1>3, <2>3 DEF Distinct
  <2> QED
    BY <2>1, <2>4
<1>5. \A i \in n + 1..Len(q) : i - n \in 1..Len(b) /\ q[i] = b[i - n]
  BY <1>1, <1>3
<1>6. Elems(q) \subseteq Elems(a) \cup Elems(b)
  <2> SUFFICES ASSUME NEW i \in 1..Len(q) PROVE q[i] \in Elems(a) \cup Elems(b)
    BY DEF Elems
  <2>1. CASE i <= n
    BY <1>1, <1>2, <2>1 DEF Elems
  <2>2. CASE i > n
    BY <1>1, <1>5, <2>2 DEF Elems
  <2> QED
    BY <1>1, <2>1, <2>2
<1>7. Elems(a) \cup Elems(b) \subseteq Elems(q)
  <2>1. \A i \in 1..Len(a) : i \in 1..Len(q) /\ a[i] = q[i]
    BY <1>1, <1>2
  <2>2. \A i \in 1..Len(b) : n + i \in 1..Len(q) /\ b[i] = q[n + i]
    BY <1>1, <1>3
  <2> QED
    BY <2>1, <2>2 DEF Elems
<1>8. Elems(a) \cap Elems(b) = {}
  <2>1. \A i \in 1..n : i \in 1..Len(q) /\ a[i] = q[i]
    BY <1>1, <1>2
  <2>2. \A j \in 1..Len(b) : n + j \in 1..Len(q) /\ b[j] = q[n + j]
    BY <1>1, <1>3
  <2>3. \A i \in 1..n, j \in 1..Len(b) : i # n + j
    BY <1>1, <1>3
  <2>4. \A i \in 1..n, j \in 1..Len(b) : a[i] # b[j]
    BY <2>1, <2>2, <2>3 DEF Distinct
  <2> QED
    BY <1>2, <2>4 DEF Elems
<1> QED
  BY <1>1, <1>2, <1>3, <1>4, <1>6, <1>7, <1>8 DEF a, b

-----------------------------------------------------------------------------
(***************************************************************************)
(* The links of a list under the writes of the code.                       *)
(***************************************************************************)
LEMMA ListFrame ==
  ASSUME NEW S, NEW T, NEW links \in [S -> T], NEW q \in Seq(S), NEW ref, NEW e \in S, NEW v,
         ListAt(links, ref, q), e \notin Elems(q)
  PROVE  ListAt([links EXCEPT ![e] = v], ref, q)
<1>1. \A i \in 1..Len(q) : q[i] # e /\ q[i] \in S
  BY ElemsIn
<1>2. Len(q) \in Nat /\ (q = <<>> <=> Len(q) = 0)
  BY ElemsIn
<1> QED
  BY <1>1, <1>2 DEF ListAt, Linked, Closed

\* What the last entity of a sequence points to is not part of its links.
LEMMA LinkedFrame ==
  ASSUME NEW S, NEW T, NEW links \in [S -> T], NEW q \in Seq(S), NEW ref, NEW e \in S, NEW v,
         Linked(links, ref, q), Distinct(q), e \notin Elems(q) \/ e = LastOf(q)
  PROVE  Linked([links EXCEPT ![e] = v], ref, q)
<1>1. Len(q) \in Nat /\ (q = <<>> <=> Len(q) = 0)
  BY ElemsIn
<1>2. \A i \in 1..Len(q) - 1 : q[i] \in S /\ q[i] # e
  BY <1>1, ElemsIn DEF LastOf, Distinct
<1> QED
  BY <1>2 DEF Linked

LEMMA ListTail ==
  ASSUME NEW S, NEW q \in Seq(S), Distinct(q), q # <<>>, NEW links, NEW ref, ListAt(links, ref, q)
  PROVE  ref = q[1] /\ ListAt(links, links[ref], Tail(q))
<1>1. /\ Tail(q) \in Seq(S) /\ Len(Tail(q)) = Len(q) - 1 /\ Len(q) >= 1 /\ Len(q) \in Nat
      /\ \A i \in 1..Len(q) - 1 : Tail(q)[i] = q[i + 1]
  BY OfTail, ElemsIn
<1>2. ref = q[1]
  BY DEF ListAt, Linked
<1>3. CASE Len(q) = 1
  <2>1. Tail(q) = <<>>
    BY <1>1, <1>3, ElemsIn
  <2>2. links[ref] = Nil
    BY <1>2, <1>3 DEF ListAt, Closed
  <2> QED
    BY <1>2, <2>1, <2>2, OfNone DEF ListAt, Linked, Closed
<1>4. CASE Len(q) # 1
  <2>1. Tail(q) # <<>>
    <3>1. Len(Tail(q)) # 0
      BY <1>1, <1>4
    <3> QED
      BY <3>1, OfNone
  <2>2. links[ref] = Tail(q)[1]
    BY <1>1, <1>2, <1>4 DEF ListAt, Linked
  <2>3. \A i \in 1..Len(Tail(q)) - 1 : links[Tail(q)[i]] = Tail(q)[i + 1]
    BY <1>1 DEF ListAt, Linked
  <2>4. links[Tail(q)[Len(Tail(q))]] = Nil
    BY <1>1, <1>4 DEF ListAt, Closed
  <2> QED
    BY <1>2, <2>1, <2>2, <2>3, <2>4 DEF ListAt, Linked, Closed
<1> QED
  BY <1>3, <1>4

\* Cutting a list after n entities leaves two.
LEMMA ListSplit ==
  ASSUME NEW S, NEW T, NEW links \in [S -> T], NEW q \in Seq(S), Distinct(q), NEW ref,
         ListAt(links, ref, q), NEW n \in 1..Len(q)
  PROVE  LET ended == [links EXCEPT ![q[n]] = Nil]
         IN ListAt(ended, ref, RunOf(q, n)) /\ ListAt(ended, links[q[n]], RestOf(q, n))
<1> DEFINE a == RunOf(q, n)
           b == RestOf(q, n)
           ended == [links EXCEPT ![q[n]] = Nil]
<1>1. /\ a \in Seq(S) /\ b \in Seq(S)
      /\ Len(a) = n /\ Len(b) = Len(q) - n /\ Len(q) \in Nat
      /\ \A i \in 1..n : a[i] = q[i]
      /\ \A i \in 1..Len(q) - n : b[i] = q[n + i]
  BY OfSplit
<1>2. q # <<>> /\ a # <<>> /\ (b = <<>> <=> Len(q) = n)
  BY <1>1, ElemsIn
<1>3. \A i \in 1..Len(q) : q[i] \in S /\ ended[q[i]] = IF i = n THEN Nil ELSE links[q[i]]
  BY ElemsIn DEF Distinct
<1>4. /\ ref = q[1]
      /\ \A i \in 1..Len(q) - 1 : links[q[i]] = q[i + 1]
      /\ links[q[Len(q)]] = Nil
  BY <1>2 DEF ListAt, Linked, Closed
<1> HIDE DEF a, b, ended
<1>5. ListAt(ended, ref, a)
  <2>1. ref = a[1] /\ ended[a[Len(a)]] = Nil
    BY <1>1, <1>3, <1>4
  <2>2. \A i \in 1..Len(a) - 1 : ended[a[i]] = a[i + 1]
    BY <1>1, <1>3, <1>4
  <2> QED
    BY <1>2, <2>1, <2>2 DEF ListAt, Linked, Closed
<1>6. ListAt(ended, links[q[n]], b)
  <2>1. CASE n = Len(q)
    BY <1>1, <1>2, <1>4, <2>1, OfNone DEF ListAt, Linked, Closed
  <2>2. CASE n # Len(q)
    <3>1. links[q[n]] = b[1] /\ b # <<>>
      BY <1>1, <1>2, <1>4, <2>2
    <3>2. ASSUME NEW i \in 1..Len(b) - 1 PROVE ended[b[i]] = b[i + 1]
      <4>1. /\ b[i] = q[n + i] /\ b[i + 1] = q[n + i + 1]
            /\ n + i \in 1..Len(q) - 1 /\ n + i \in 1..Len(q) /\ n + i # n
        BY <1>1
      <4> QED
        BY <1>3, <1>4, <4>1
    <3>3. ended[b[Len(b)]] = Nil
      <4>1. Len(b) \in 1..Len(q) - n /\ n + Len(b) = Len(q) /\ Len(q) \in 1..Len(q)
        BY <1>1, <2>2
      <4>2. b[Len(b)] = q[Len(q)]
        BY <1>1, <4>1
      <4>3. ended[q[Len(q)]] = Nil
        BY <1>3, <1>4, <2>2, <4>1
      <4> QED
        BY <4>2, <4>3
    <3> QED
      BY <3>1, <3>2, <3>3 DEF ListAt, Linked, Closed
  <2> QED
    BY <2>1, <2>2
<1> QED
  BY <1>5, <1>6 DEF a, b, ended

-----------------------------------------------------------------------------
(***************************************************************************)
(* How the entities are shared out.                                        *)
(***************************************************************************)
LEMMA SwapRuns ==
  ASSUME NEW E, NEW m, NEW l, NEW r, NEW c, Shares(E, m, l, r, c)
  PROVE  Shares(E, m, r, l, c)
BY DEF Shares

LEMMA TakeLeft ==
  ASSUME NEW E, NEW m, NEW l, NEW r, NEW c, Shares(E, m, l, r, c), l # <<>>
  PROVE  Shares(E, Append(m, l[1]), Tail(l), r, c)
<1>1. /\ m \in Seq(E) /\ l \in Seq(E) /\ Distinct(m) /\ Distinct(l) /\ Elems(m) \cap Elems(l) = {}
  BY DEF Shares
<1>2. /\ Tail(l) \in Seq(E) /\ Distinct(Tail(l)) /\ l[1] \in E
      /\ Elems(l) = {l[1]} \cup Elems(Tail(l)) /\ l[1] \notin Elems(Tail(l))
  BY <1>1, OfTail
<1>3. l[1] \notin Elems(m)
  BY <1>1, <1>2
<1>4. /\ Append(m, l[1]) \in Seq(E) /\ Distinct(Append(m, l[1]))
      /\ Elems(Append(m, l[1])) = Elems(m) \cup {l[1]}
  BY <1>1, <1>2, <1>3, OfAppend
<1> QED
  BY <1>2, <1>4 DEF Shares

LEMMA TakeRight ==
  ASSUME NEW E, NEW m, NEW l, NEW r, NEW c, Shares(E, m, l, r, c), r # <<>>
  PROVE  Shares(E, Append(m, r[1]), l, Tail(r), c)
BY SwapRuns, TakeLeft

LEMMA CutRun ==
  ASSUME NEW E, NEW m, NEW l, NEW c, Shares(E, m, l, <<>>, c), NEW n \in 1..Len(c)
  PROVE  Shares(E, m, l, RunOf(c, n), RestOf(c, n))
<1>1. c \in Seq(E) /\ Distinct(c)
  BY DEF Shares
<1>2. /\ RunOf(c, n) \in Seq(E) /\ RestOf(c, n) \in Seq(E)
      /\ Distinct(RunOf(c, n)) /\ Distinct(RestOf(c, n))
      /\ Elems(c) = Elems(RunOf(c, n)) \cup Elems(RestOf(c, n))
      /\ Elems(RunOf(c, n)) \cap Elems(RestOf(c, n)) = {}
  BY <1>1, OfSplit
<1> DEFINE a == RunOf(c, n)
           b == RestOf(c, n)
<1> HIDE DEF a, b
<1>3. /\ a \in Seq(E) /\ b \in Seq(E) /\ Distinct(a) /\ Distinct(b)
      /\ Elems(c) = Elems(a) \cup Elems(b) /\ Elems(a) \cap Elems(b) = {}
  BY <1>2 DEF a, b
<1>4. /\ m \in Seq(E) /\ l \in Seq(E) /\ Distinct(m) /\ Distinct(l)
      /\ Elems(m) \cap Elems(l) = {} /\ Elems(m) \cap Elems(c) = {} /\ Elems(l) \cap Elems(c) = {}
      /\ Elems(m) \cup Elems(l) \cup Elems(c) = E
  BY OfNone DEF Shares
<1>5. Shares(E, m, l, a, b)
  BY <1>3, <1>4 DEF Shares
<1> QED
  BY <1>5 DEF a, b

-----------------------------------------------------------------------------
(***************************************************************************)
(* Where runs end.                                                         *)
(***************************************************************************)
LEMMA CutZero == ASSUME NEW w \in Nat PROVE Cut(0, w)
BY DEF Cut

LEMMA CutAdd ==
  ASSUME NEW w \in Nat, NEW n \in Nat, Cut(n, w) PROVE Cut(n + w, w)
<1>1. PICK k \in Nat : n = k * w
  BY DEF Cut
<1>2. k + 1 \in Nat /\ n + w = (k + 1) * w
  BY <1>1
<1> QED
  BY <1>2 DEF Cut

LEMMA CutSub ==
  ASSUME NEW w \in Nat \ {0}, NEW n \in Nat, Cut(n + w, w) PROVE Cut(n, w)
<1>1. PICK k \in Nat : n + w = k * w
  BY DEF Cut
<1>2. k # 0
  BY <1>1
<1>3. k - 1 \in Nat /\ (k - 1) * w = k * w - w
  BY <1>2
<1>4. n = (k - 1) * w
  BY <1>1, <1>3
<1> QED
  BY <1>3, <1>4 DEF Cut

\* Two ends of runs are a whole run apart.
LEMMA CutsApart ==
  ASSUME NEW w \in Nat \ {0}, NEW a \in Nat, NEW b \in Nat, Cut(a, w), Cut(b, w), a < b
  PROVE  a + w <= b
<1>1. PICK i \in Nat : a = i * w
  BY DEF Cut
<1>2. PICK j \in Nat : b = j * w
  BY DEF Cut
<1>3. i < j
  <2>1. SUFFICES ASSUME j <= i PROVE FALSE
    OBVIOUS
  <2>2. i - j \in Nat
    BY <2>1
  <2>3. (i - j) * w \in Nat /\ (i - j) * w = i * w - j * w
    BY <2>2
  <2> QED
    BY <1>1, <1>2, <2>3
<1>4. j - i - 1 \in Nat
  BY <1>3
<1>5. (j - i - 1) * w \in Nat /\ (j - i - 1) * w = j * w - i * w - w
  BY <1>4
<1> QED
  BY <1>1, <1>2, <1>5

LEMMA NoCutWithin ==
  ASSUME NEW w \in Nat \ {0}, NEW a \in Nat, Cut(a, w), NEW i \in Nat, NEW j \in Nat,
         a < i, j <= a + w
  PROVE  ~CutBetween(i, j, w)
<1> SUFFICES ASSUME NEW n \in i..j - 1, Cut(n, w) PROVE FALSE
  BY DEF CutBetween
<1>1. n \in Nat /\ a < n /\ n < a + w
  OBVIOUS
<1> QED
  BY <1>1, CutsApart

-----------------------------------------------------------------------------
(***************************************************************************)
(* Runs: the first one is cut off, a merge adds one, and the list is in    *)
(* order when there is one.                                                *)
(***************************************************************************)
LEMMA RunsOfFirst ==
  ASSUME NEW S, NEW lesser, NEW q \in Seq(S), NEW w \in Nat \ {0}, Runs(lesser, q, w), Len(q) <= w
  PROVE  Ordered(lesser, q)
<1> SUFFICES ASSUME NEW i \in 1..Len(q), NEW j \in 1..Len(q), i < j
             PROVE  Precedes(lesser, q[i], q[j])
  BY DEF Ordered
<1>1. Len(q) \in Nat
  BY ElemsIn
<1>2. i \in Nat /\ j \in Nat /\ 0 < i /\ j <= 0 + w /\ Cut(0, w)
  BY <1>1, CutZero
<1>3. ~CutBetween(i, j, w)
  BY <1>2, NoCutWithin
<1> QED
  BY <1>3 DEF Runs

LEMMA RunsSplit ==
  ASSUME NEW S, NEW lesser, NEW q \in Seq(S), NEW w \in Nat \ {0}, Distinct(q), Runs(lesser, q, w),
         NEW n \in 1..Len(q), n <= w, n = w \/ n = Len(q)
  PROVE  /\ Ordered(lesser, RunOf(q, n))
         /\ Runs(lesser, RestOf(q, n), w)
         /\ Below(RunOf(q, n), RestOf(q, n))
<1> DEFINE a == RunOf(q, n)
           b == RestOf(q, n)
<1>1. /\ a \in Seq(S) /\ b \in Seq(S) /\ Len(a) = n /\ Len(b) = Len(q) - n /\ Len(q) \in Nat
      /\ \A i \in 1..n : a[i] = q[i]
      /\ \A i \in 1..Len(q) - n : b[i] = q[n + i]
  BY OfSplit
<1> HIDE DEF a, b
<1>2. Ordered(lesser, a)
  <2>1. \A i, j \in 1..Len(a) : i < j => ~CutBetween(i, j, w)
    <3> SUFFICES ASSUME NEW i \in 1..Len(a), NEW j \in 1..Len(a), i < j
                 PROVE  ~CutBetween(i, j, w)
      OBVIOUS
    <3>1. i \in Nat /\ j \in Nat /\ 0 < i /\ j <= 0 + w /\ Cut(0, w)
      BY <1>1, CutZero
    <3> QED
      BY <3>1, NoCutWithin
  <2>2. \A i \in 1..Len(a) : i \in 1..Len(q) /\ a[i] = q[i]
    BY <1>1
  <2> QED
    BY <2>1, <2>2 DEF Ordered, Runs
<1>3. CASE n = w
  <2>1. Runs(lesser, b, w)
    <3> SUFFICES ASSUME NEW i \in 1..Len(b), NEW j \in 1..Len(b), i < j
                 PROVE  IF CutBetween(i, j, w) THEN b[i] < b[j] ELSE Precedes(lesser, b[i], b[j])
      BY DEF Runs
    <3>1. /\ b[i] = q[n + i] /\ b[j] = q[n + j] /\ n + i < n + j
          /\ n + i \in 1..Len(q) /\ n + j \in 1..Len(q) /\ i \in Nat /\ j \in Nat /\ n \in Nat
      BY <1>1
    <3>2. IF CutBetween(n + i, n + j, w) THEN b[i] < b[j] ELSE Precedes(lesser, b[i], b[j])
      BY <3>1 DEF Runs
    <3>3. CutBetween(i, j, w) => CutBetween(n + i, n + j, w)
      <4> SUFFICES ASSUME NEW x \in i..j - 1, Cut(x, w) PROVE CutBetween(n + i, n + j, w)
        BY DEF CutBetween
      <4>1. x \in Nat /\ x + w \in n + i..n + j - 1
        BY <1>3, <3>1
      <4>2. Cut(x + w, w)
        BY <4>1, CutAdd
      <4> QED
        BY <4>1, <4>2 DEF CutBetween
    <3>4. CutBetween(n + i, n + j, w) => CutBetween(i, j, w)
      <4> SUFFICES ASSUME NEW x \in n + i..n + j - 1, Cut(x, w) PROVE CutBetween(i, j, w)
        BY DEF CutBetween
      <4>1. x - w \in Nat /\ x - w \in i..j - 1 /\ (x - w) + w = x
        BY <1>3, <3>1
      <4>2. Cut(x - w, w)
        BY <4>1, CutSub
      <4> QED
        BY <4>1, <4>2 DEF CutBetween
    <3> QED
      BY <3>2, <3>3, <3>4
  <2>2. Below(a, b)
    <3> SUFFICES ASSUME NEW i \in 1..Len(a), NEW j \in 1..Len(b) PROVE a[i] < b[j]
      BY DEF Below
    <3>1. /\ a[i] = q[i] /\ b[j] = q[n + j] /\ i < n + j
          /\ i \in 1..Len(q) /\ n + j \in 1..Len(q) /\ n \in i..(n + j) - 1
      BY <1>1
    <3>2. Cut(n, w)
      <4>1. Cut(0 + w, w)
        BY CutZero, CutAdd
      <4> QED
        BY <1>3, <4>1
    <3>3. CutBetween(i, n + j, w)
      BY <3>1, <3>2 DEF CutBetween
    <3> QED
      BY <3>1, <3>3 DEF Runs
  <2> QED
    BY <1>2, <2>1, <2>2 DEF a, b
<1>4. CASE n = Len(q)
  <2>1. Len(b) = 0
    BY <1>1, <1>4
  <2>2. Runs(lesser, b, w) /\ Below(a, b)
    BY <2>1 DEF Runs, Below
  <2> QED
    BY <1>2, <2>2 DEF a, b
<1> QED
  BY <1>3, <1>4

LEMMA BelowSplit ==
  ASSUME NEW S, NEW q \in Seq(S), Distinct(q), NEW n \in 1..Len(q), NEW p, Below(p, q)
  PROVE  Below(p, RunOf(q, n)) /\ Below(p, RestOf(q, n))
<1> DEFINE a == RunOf(q, n)
           b == RestOf(q, n)
<1>1. /\ Len(a) = n /\ Len(b) = Len(q) - n /\ Len(q) \in Nat
      /\ \A i \in 1..n : a[i] = q[i]
      /\ \A i \in 1..Len(q) - n : b[i] = q[n + i]
  BY OfSplit
<1> HIDE DEF a, b
<1>2. \A i \in 1..Len(a) : i \in 1..Len(q) /\ a[i] = q[i]
  BY <1>1
<1>3. \A i \in 1..Len(b) : n + i \in 1..Len(q) /\ b[i] = q[n + i]
  BY <1>1
<1>4. Below(p, a) /\ Below(p, b)
  BY <1>2, <1>3 DEF Below
<1> QED
  BY <1>4 DEF a, b

\* One entity more goes into the run that is being merged.
LEMMA RunsAppend ==
  ASSUME NEW S, NEW lesser, NEW m \in Seq(S), NEW e \in S, NEW w \in Nat \ {0}, NEW f \in 0..Len(m),
         Runs(lesser, m, w), Cut(f, w), Len(m) < f + w,
         \A i \in 1..Len(m) : IF i <= f THEN m[i] < e ELSE Precedes(lesser, m[i], e)
  PROVE  Runs(lesser, Append(m, e), w)
<1> DEFINE p == Append(m, e)
<1>1. /\ Len(p) = Len(m) + 1 /\ Len(m) \in Nat
      /\ \A i \in 1..Len(m) : p[i] = m[i]
      /\ p[Len(m) + 1] = e
  BY AppendProperties, ElemsIn
<1> HIDE DEF p
<1> SUFFICES ASSUME NEW i \in 1..Len(p), NEW j \in 1..Len(p), i < j
             PROVE  IF CutBetween(i, j, w) THEN p[i] < p[j] ELSE Precedes(lesser, p[i], p[j])
  BY DEF Runs, p
<1>2. CASE j <= Len(m)
  <2>1. i \in 1..Len(m) /\ j \in 1..Len(m) /\ p[i] = m[i] /\ p[j] = m[j]
    BY <1>1, <1>2
  <2> QED
    BY <2>1 DEF Runs
<1>3. CASE j = Len(m) + 1
  <2>1. i \in 1..Len(m) /\ p[i] = m[i] /\ p[j] = e
    BY <1>1, <1>3
  <2>2. CASE i <= f
    <3>1. f \in i..j - 1
      BY <1>1, <1>3, <2>2
    <3> QED
      BY <2>1, <2>2, <3>1 DEF CutBetween
  <2>3. CASE ~(i <= f)
    <3>1. f \in Nat /\ i \in Nat /\ j \in Nat /\ f < i /\ j <= f + w
      BY <1>1, <1>3, <2>3
    <3>2. ~CutBetween(i, j, w)
      BY <3>1, NoCutWithin
    <3> QED
      BY <2>1, <2>3, <3>2
  <2> QED
    BY <2>2, <2>3
<1> QED
  BY <1>1, <1>2, <1>3

LEMMA PrecedesTransitive ==
  ASSUME NEW E \in SUBSET Nat, NEW lesser, Weak(E, lesser),
         NEW a \in E, NEW b \in E, NEW c \in E, Precedes(lesser, a, b), Precedes(lesser, b, c)
  PROVE  Precedes(lesser, a, c)
<1>1. <<c, a>> \notin lesser
  BY DEF Weak, Precedes
<1>2. ASSUME <<a, c>> \notin lesser PROVE a < c
  <2>1. <<a, b>> \notin lesser /\ <<b, c>> \notin lesser
    BY <1>2 DEF Weak, Precedes
  <2>2. a < b /\ b < c
    BY <2>1 DEF Precedes
  <2> QED
    BY <2>2
<1> QED
  BY <1>1, <1>2 DEF Precedes

-----------------------------------------------------------------------------
(***************************************************************************)
(* One step of a merge.                                                    *)
(***************************************************************************)
Appending(links, m, e) == IF m = <<>> THEN links ELSE [links EXCEPT ![LastOf(m)] = e]

LEMMA LinkNext ==
  ASSUME NEW S, NEW T, NEW links \in [S -> T], NEW m \in Seq(S), Distinct(m), NEW head,
         Linked(links, head, m), NEW e \in S, e \notin Elems(m)
  PROVE  Linked(Appending(links, m, e), IF m = <<>> THEN e ELSE head, Append(m, e))
<1> DEFINE p == Append(m, e)
           after == Appending(links, m, e)
<1>1. /\ Len(p) = Len(m) + 1 /\ Len(m) \in Nat /\ p # <<>>
      /\ \A i \in 1..Len(m) : p[i] = m[i]
      /\ p[Len(m) + 1] = e
  BY OfAppend
<1> HIDE DEF p
<1>2. CASE m = <<>>
  <2>1. Len(m) = 0
    BY <1>2, OfNone
  <2> QED
    BY <1>1, <1>2, <2>1 DEF Linked, p
<1>3. CASE m # <<>>
  <2>1. Len(m) # 0 /\ LastOf(m) = m[Len(m)]
    BY <1>3, ElemsIn DEF LastOf
  <2>2. \A i \in 1..Len(m) : m[i] \in S /\ after[m[i]] = IF i = Len(m) THEN e ELSE links[m[i]]
    BY <1>1, <1>3, <2>1, ElemsIn DEF Appending, Distinct
  <2> HIDE DEF after
  <2>3. head = p[1]
    BY <1>1, <1>3, <2>1 DEF Linked
  <2>4. ASSUME NEW i \in 1..Len(p) - 1 PROVE after[p[i]] = p[i + 1]
    <3>1. i \in 1..Len(m) /\ p[i] = m[i]
      BY <1>1
    <3>2. CASE i = Len(m)
      BY <1>1, <2>2, <3>1, <3>2
    <3>3. CASE i # Len(m)
      <4>1. links[m[i]] = m[i + 1] /\ p[i + 1] = m[i + 1]
        BY <1>1, <3>1, <3>3 DEF Linked
      <4> QED
        BY <2>2, <3>1, <3>3, <4>1
    <3> QED
      BY <3>2, <3>3
  <2>5. Linked(after, head, p)
    BY <1>1, <2>3, <2>4 DEF Linked
  <2> QED
    BY <1>3, <2>5 DEF p, after
<1> QED
  BY <1>2, <1>3

LEMMA ListBeside ==
  ASSUME NEW S, NEW T, NEW links \in [S -> T], NEW m \in Seq(S), NEW q \in Seq(S), NEW ref, NEW e,
         ListAt(links, ref, q), Elems(m) \cap Elems(q) = {}
  PROVE  ListAt(Appending(links, m, e), ref, q)
<1>1. CASE m = <<>>
  BY <1>1 DEF Appending
<1>2. CASE m # <<>>
  <2>1. LastOf(m) \in S /\ LastOf(m) \in Elems(m)
    BY <1>2, ElemsIn DEF LastOf
  <2>2. LastOf(m) \notin Elems(q)
    BY <2>1
  <2>3. ListAt([links EXCEPT ![LastOf(m)] = e], ref, q)
    BY <2>1, <2>2, ListFrame
  <2> QED
    BY <1>2, <2>3 DEF Appending
<1> QED
  BY <1>1, <1>2

\* The order of what is merged when the first of l goes next: r is the other run.
LEMMA OrderTakes ==
  ASSUME NEW E \in SUBSET Nat, NEW lesser, Weak(E, lesser), NEW w \in Nat \ {0},
         NEW m \in Seq(E), NEW l \in Seq(E), NEW r \in Seq(E), NEW c \in Seq(E), NEW f \in 0..Len(m),
         Distinct(l), l # <<>>, Distinct(m), l[1] \notin Elems(m),
         Runs(lesser, m, w), Cut(f, w), Len(m) + Len(l) + Len(r) <= f + w,
         AfterPrefix(lesser, m, f, l), AfterPrefix(lesser, m, f, r),
         Below(m, c), Below(l, c), Ordered(lesser, l), Ordered(lesser, r),
         r # <<>> => Precedes(lesser, l[1], r[1])
  PROVE  /\ Runs(lesser, Append(m, l[1]), w)
         /\ AfterPrefix(lesser, Append(m, l[1]), f, Tail(l))
         /\ AfterPrefix(lesser, Append(m, l[1]), f, r)
         /\ Below(Append(m, l[1]), c) /\ Below(Tail(l), c) /\ Ordered(lesser, Tail(l))
<1> DEFINE e == l[1]
           p == Append(m, e)
           t == Tail(l)
<1>1. /\ t \in Seq(E) /\ Len(t) = Len(l) - 1 /\ Len(l) >= 1 /\ Len(l) \in Nat /\ e \in E
      /\ \A i \in 1..Len(l) - 1 : t[i] = l[i + 1]
  BY OfTail, ElemsIn
<1>2. /\ Len(p) = Len(m) + 1 /\ Len(m) \in Nat
      /\ \A i \in 1..Len(m) : p[i] = m[i]
      /\ p[Len(m) + 1] = e
  BY <1>1, OfAppend
<1>3. \A i \in 1..Len(m) : IF i <= f THEN m[i] < e ELSE Precedes(lesser, m[i], e)
  BY <1>1 DEF AfterPrefix
<1>4. Runs(lesser, p, w)
  <2>1. Len(m) < f + w
    BY <1>1, <1>2, ElemsIn
  <2> QED
    BY <1>1, <1>3, <2>1, RunsAppend
<1> HIDE DEF e, p, t
<1>5. \A i \in 1..Len(t) : i + 1 \in 1..Len(l) /\ t[i] = l[i + 1]
  BY <1>1
<1>6. \A j \in 1..Len(t) : Precedes(lesser, e, t[j])
  <2>1. \A j \in 1..Len(t) : 1 \in 1..Len(l) /\ 1 < j + 1
    BY <1>1
  <2> QED
    BY <1>5, <2>1 DEF Ordered, e
<1>7. \A j \in 1..Len(r) : Precedes(lesser, e, r[j])
  <2> SUFFICES ASSUME NEW j \in 1..Len(r) PROVE Precedes(lesser, e, r[j])
    OBVIOUS
  <2>1. Len(r) \in Nat /\ r # <<>> /\ 1 \in 1..Len(r)
    BY ElemsIn
  <2>2. Precedes(lesser, e, r[1])
    BY <2>1 DEF e
  <2>3. CASE j = 1
    BY <2>2, <2>3
  <2>4. CASE j # 1
    <3>1. Precedes(lesser, r[1], r[j])
      BY <2>1, <2>4 DEF Ordered
    <3>2. r[1] \in E /\ r[j] \in E
      BY <2>1, ElemsIn
    <3> QED
      BY <1>1, <2>2, <3>1, <3>2, PrecedesTransitive
  <2> QED
    BY <2>3, <2>4
<1>8. AfterPrefix(lesser, p, f, t)
  <2> SUFFICES ASSUME NEW i \in 1..Len(p), NEW j \in 1..Len(t)
               PROVE  IF i <= f THEN p[i] < t[j] ELSE Precedes(lesser, p[i], t[j])
    BY DEF AfterPrefix
  <2>1. CASE i \in 1..Len(m)
    BY <1>2, <1>5, <2>1 DEF AfterPrefix
  <2>2. CASE i = Len(m) + 1
    BY <1>2, <1>6, <2>2
  <2>3. i \in 1..Len(m) \/ i = Len(m) + 1
    BY <1>2
  <2> QED
    BY <2>1, <2>2, <2>3
<1>9. AfterPrefix(lesser, p, f, r)
  <2> SUFFICES ASSUME NEW i \in 1..Len(p), NEW j \in 1..Len(r)
               PROVE  IF i <= f THEN p[i] < r[j] ELSE Precedes(lesser, p[i], r[j])
    BY DEF AfterPrefix
  <2>1. CASE i \in 1..Len(m)
    BY <1>2, <2>1 DEF AfterPrefix
  <2>2. CASE i = Len(m) + 1
    BY <1>2, <1>7, <2>2
  <2> QED
    BY <1>2, <2>1, <2>2
<1>10. Below(p, c)
  <2> SUFFICES ASSUME NEW i \in 1..Len(p), NEW j \in 1..Len(c) PROVE p[i] < c[j]
    BY DEF Below
  <2>1. CASE i \in 1..Len(m)
    BY <1>2, <2>1 DEF Below
  <2>2. CASE i = Len(m) + 1
    BY <1>1, <1>2, <2>2 DEF Below, e
  <2> QED
    BY <1>2, <2>1, <2>2
<1>11. Below(t, c)
  BY <1>5 DEF Below
<1>12. Ordered(lesser, t)
  <2> SUFFICES ASSUME NEW i \in 1..Len(t), NEW j \in 1..Len(t), i < j PROVE Precedes(lesser, t[i], t[j])
    BY DEF Ordered
  <2>1. i + 1 < j + 1
    BY <1>1
  <2> QED
    BY <1>5, <2>1 DEF Ordered
<1> QED
  BY <1>4, <1>8, <1>9, <1>10, <1>11, <1>12 DEF e, p, t

-----------------------------------------------------------------------------
(***************************************************************************)
(* The steps.  Each leads to a block whose clause of the invariant it      *)
(* establishes; the other clauses are about other blocks.                  *)
(***************************************************************************)
LEMMA Typed ==
  ASSUME EntitiesFromZero, TypeInv
  PROVE  /\ size \in Nat /\ Members \subseteq Entities /\ Entities \subseteq Nat
         /\ Members \in SUBSET Nat
         /\ \A e \in Entities : Valid(e) /\ e # Nil
         /\ ~Valid(Nil)
         /\ \A ref \in Refs : Valid(ref) <=> ref # Nil
<1>1. Cardinality(Entities) \in Nat
  BY FS_CardinalityType DEF EntitiesFromZero
<1>2. size \in Nat /\ Members \subseteq Entities /\ Entities \subseteq Nat
  BY <1>1 DEF TypeInv, Members, EntitiesFromZero
<1> QED
  BY <1>2 DEF Valid, Nil, Refs

LEMMA IntoWhole ==
  ASSUME TypeInv', block' \in {"pass", "done", "previous", "returned"}, NEW q \in Seq(Members'),
         WholeAt(Members', next', local'.result, q),
         Weak(Members', less') =>
           IF block' = "pass" THEN Runs(less', q, local'.width) ELSE Ordered(less', q),
         block' = "previous" => doubly' /\ PreviousAt(previous', local', q),
         block' = "returned" /\ doubly' => BackTo(previous', q, Len(q))
  PROVE  ListInv'
<1>1. WholeInv'
  BY DEF WholeInv
<1> QED
  BY <1>1 DEF ListInv, OuterInv, LeftInv, RightInv, MergeInv

LEMMA IntoOuter ==
  ASSUME TypeInv', block' \in {"outer", "finish"}, NEW m \in Seq(Members'), NEW c \in Seq(Members'),
         OuterAt(Members', less', next', local', m, c), block' = "finish" => c = <<>>
  PROVE  ListInv'
<1>1. OuterInv'
  BY DEF OuterInv
<1> QED
  BY <1>1 DEF ListInv, WholeInv, LeftInv, RightInv, MergeInv

LEMMA IntoLeft ==
  ASSUME TypeInv', block' = "left", NEW m \in Seq(Members'), NEW c \in Seq(Members'),
         LeftAt(Members', less', next', local', m, c)
  PROVE  ListInv'
<1>1. LeftInv'
  BY DEF LeftInv
<1> QED
  BY <1>1 DEF ListInv, WholeInv, OuterInv, RightInv, MergeInv

LEMMA IntoRight ==
  ASSUME TypeInv', block' = "right",
         NEW m \in Seq(Members'), NEW l \in Seq(Members'), NEW c \in Seq(Members'),
         RightAt(Members', less', next', local', m, l, c)
  PROVE  ListInv'
<1>1. RightInv'
  BY DEF RightInv
<1> QED
  BY <1>1 DEF ListInv, WholeInv, OuterInv, LeftInv, MergeInv

LEMMA IntoMerge ==
  ASSUME TypeInv', block' = "merge", NEW f \in Nat,
         NEW m \in Seq(Members'), NEW l \in Seq(Members'), NEW r \in Seq(Members'), NEW c \in Seq(Members'),
         MergeAt(Members', less', next', local', f, m, l, r, c)
  PROVE  ListInv'
<1>1. MergeInv'
  BY DEF MergeInv
<1> QED
  BY <1>1 DEF ListInv, WholeInv, OuterInv, LeftInv, RightInv

-----------------------------------------------------------------------------
LEMMA InitListInv == EntitiesFromZero /\ ListInit => ListInv
<1> SUFFICES ASSUME EntitiesFromZero, ListInit PROVE ListInv
  OBVIOUS
<1>1. Cardinality(Entities) \in Nat /\ Entities = 0..Cardinality(Entities) - 1
  BY FS_CardinalityType DEF EntitiesFromZero
<1>2. /\ size \in 0..Cardinality(Entities) /\ size \in Nat
      /\ next = ListOf(size) /\ previous = [e \in Entities |-> e] /\ doubly \in BOOLEAN
      /\ block = "pass" /\ local = Locals(IF size = 0 THEN Nil ELSE 0)
  BY <1>1 DEF ListInit
<1>3. TypeInv
  <2>1. next \in [Entities -> Refs]
    BY <1>1, <1>2 DEF ListOf, Refs
  <2>2. previous \in [Entities -> Refs]
    BY <1>2 DEF Refs
  <2>3. (IF size = 0 THEN Nil ELSE 0) \in Refs
    BY <1>1, <1>2 DEF Refs
  <2>4. local \in LocalTypes
    BY <1>2, <2>3 DEF Locals, LocalTypes, Refs
  <2> QED
    BY <1>2, <2>1, <2>2, <2>4 DEF TypeInv, Blocks
<1> DEFINE q == [i \in 1..size |-> i - 1]
<1>4. q \in Seq(Members) /\ Len(q) = size /\ \A i \in 1..size : q[i] = i - 1
  <2>1. \A i \in 1..size : i - 1 \in Members
    BY <1>2 DEF Members
  <2>2. q \in Seq(Members)
    BY <1>2, <2>1, IsASeq
  <2> QED
    BY <1>2, <2>2, LenProperties
<1> HIDE DEF q
<1>5. WholeAt(Members, next, local.result, q)
  <2>1. Distinct(q)
    BY <1>4 DEF Distinct
  <2>2. Elems(q) = Members
    <3>1. \A e \in Members : e + 1 \in 1..size /\ q[e + 1] = e
      BY <1>2, <1>4 DEF Members
    <3> QED
      BY <1>4, <3>1, ElemsIn DEF Elems
  <2>3. ListAt(next, local.result, q)
    <3>1. q = <<>> <=> size = 0
      BY <1>4, ElemsIn
    <3>2. \A i \in 1..size : next[i - 1] = IF i < size THEN i ELSE Nil
      BY <1>1, <1>2 DEF ListOf
    <3>3. local.result = IF size = 0 THEN Nil ELSE 0
      BY <1>2 DEF Locals
    <3> QED
      BY <1>2, <1>4, <3>1, <3>2, <3>3 DEF ListAt, Linked, Closed
  <2> QED
    BY <1>4, <2>1, <2>2, <2>3, OfNone DEF WholeAt, Shares
<1>6. Runs(less, q, local.width)
  <2>1. local.width = 1
    BY <1>2 DEF Locals
  <2>2. \A i, j \in 1..Len(q) : i < j => q[i] < q[j] /\ CutBetween(i, j, 1)
    <3> SUFFICES ASSUME NEW i \in 1..Len(q), NEW j \in 1..Len(q), i < j
                 PROVE  q[i] < q[j] /\ CutBetween(i, j, 1)
      OBVIOUS
    <3>1. i \in Nat /\ i = i * 1 /\ i \in i..j - 1
      BY <1>2, <1>4
    <3>2. Cut(i, 1)
      BY <3>1 DEF Cut
    <3> QED
      BY <1>4, <3>1, <3>2 DEF CutBetween
  <2> QED
    BY <2>1, <2>2 DEF Runs
<1>7. WholeInv
  BY <1>2, <1>4, <1>5, <1>6 DEF WholeInv
<1> QED
  BY <1>2, <1>3, <1>7 DEF ListInv, OuterInv, LeftInv, RightInv, MergeInv

LEMMA PassInv == ASSUME EntitiesFromZero, ListInv, ListPass PROVE ListInv'
<1>1. block = "pass" /\ OnlyLocals /\ UNCHANGED <<size, next, previous, less, doubly>>
  BY DEF ListPass, OnlyLocals
<1>2. TypeInv /\ local \in LocalTypes /\ local.result \in Refs /\ local.width \in Nat \ {0}
  BY DEF ListInv, TypeInv, LocalTypes
<1>3. PICK q \in Seq(Members) :
        /\ WholeAt(Members, next, local.result, q)
        /\ Weak(Members, less) => Runs(less, q, local.width)
  BY <1>1 DEF ListInv, WholeInv
<1>4. Members' = Members
  BY <1>1 DEF Members
<1>5. CASE Valid(local.result)
  <2>1. /\ block' = "outer"
        /\ local' = [local EXCEPT !.current = local.result, !.newHead = Nil, !.tail = Nil, !.merges = 0]
    BY <1>1, <1>5 DEF ListPass, Goto
  <2>2. TypeInv'
    <3>1. local' \in LocalTypes
      BY <1>2, <2>1 DEF LocalTypes, Refs
    <3> QED
      BY <1>1, <1>2, <2>1, <3>1 DEF TypeInv, Blocks
  <2>3. /\ local'.current = local.result /\ local'.newHead = Nil /\ local'.tail = Nil
        /\ local'.merges = 0 /\ local'.width = local.width
    BY <1>2, <2>1 DEF LocalTypes
  <2>4. Shares(Members, <<>>, <<>>, <<>>, q) /\ ListAt(next, local'.current, q)
    BY <1>3, <2>3, OfNone DEF WholeAt, Shares
  <2>5. MergedAt(next, local', <<>>)
    BY <2>3, OfNone DEF MergedAt, Linked
  <2>6. Weak(Members, less) => OuterOrder(less, local', <<>>, q)
    <3>1. Runs(less, <<>>, 2 * local.width) /\ Below(<<>>, q)
      BY OfNone DEF Runs, Below
    <3>2. Cut(Len(<<>>), 2 * local.width)
      BY <1>2, CutZero, OfNone
    <3> QED
      BY <1>3, <2>3, <3>1, <3>2 DEF OuterOrder
  <2>7. OuterAt(Members, less, next, local', <<>>, q)
    BY <2>3, <2>4, <2>5, <2>6 DEF OuterAt
  <2> QED
    BY <1>1, <1>4, <2>1, <2>2, <2>7, IntoOuter, OfNone
<1>6. CASE ~Valid(local.result)
  <2>1. block' = "done" /\ local' = local
    BY <1>1, <1>6 DEF ListPass, Goto
  <2>2. TypeInv'
    BY <1>1, <1>2, <2>1 DEF TypeInv, Blocks
  <2>3. q = <<>>
    <3>1. q # <<>> => local.result = q[1] /\ q[1] \in Members
      BY <1>3, ElemsIn DEF WholeAt, ListAt, Linked
    <3> QED
      BY <1>2, <1>6, <3>1, Typed
  <2>4. Ordered(less, q)
    BY <2>3, OfNone DEF Ordered
  <2> QED
    BY <1>1, <1>3, <1>4, <2>1, <2>2, <2>4, IntoWhole
<1> QED
  BY <1>5, <1>6

LEMMA OuterStep == ASSUME EntitiesFromZero, ListInv, Outer PROVE ListInv'
<1>1. block = "outer" /\ UNCHANGED <<size, next, previous, less, doubly>>
  BY DEF Outer, OnlyLocals
<1>2. /\ TypeInv /\ local \in LocalTypes /\ local.current \in Refs
      /\ local.width \in Nat \ {0} /\ local.merges \in Nat
  BY DEF ListInv, TypeInv, LocalTypes
<1>3. PICK m \in Seq(Members) : \E c \in Seq(Members) : OuterAt(Members, less, next, local, m, c)
  BY <1>1 DEF ListInv, OuterInv
<1>4. PICK c \in Seq(Members) : OuterAt(Members, less, next, local, m, c)
  BY <1>3
<1>5. Members' = Members
  BY <1>1 DEF Members
<1>6. local.current = IF c = <<>> THEN Nil ELSE c[1]
  BY <1>4 DEF OuterAt, ListAt, Linked
<1>7. Len(c) \in Nat /\ (c # <<>> => c[1] \in Members /\ Len(c) >= 1)
  BY ElemsIn
<1>8. CASE Valid(local.current)
  <2>1. c # <<>> /\ local.current = c[1]
    BY <1>2, <1>6, <1>8, Typed
  <2>2. /\ block' = "left"
        /\ local' = [local EXCEPT !.merges = @ + 1, !.left = local.current,
                                  !.end = local.current, !.count = 1]
    BY <1>1, <1>8 DEF Outer, Goto
  <2>3. TypeInv'
    <3>1. local.merges + 1 \in Nat /\ 1 \in Nat
      BY <1>2
    <3> DEFINE next1 == local.merges + 1
    <3>2. local' = [local EXCEPT !.merges = next1, !.left = local.current,
                                 !.end = local.current, !.count = 1]
      BY <2>2
    <3> HIDE DEF next1
    <3>3. local' \in LocalTypes
      BY <1>2, <3>1, <3>2 DEF LocalTypes, next1
    <3> QED
      BY <1>1, <1>2, <2>2, <3>3 DEF TypeInv, Blocks
  <2>4. /\ local'.left = local.current /\ local'.end = local.current /\ local'.count = 1
        /\ local'.merges = local.merges + 1 /\ local'.width = local.width
        /\ local'.newHead = local.newHead /\ local'.tail = local.tail
    BY <1>2, <2>2 DEF LocalTypes
  <2>5. Walking(local', c)
    BY <1>2, <1>7, <2>1, <2>4 DEF Walking
  <2>6. local'.merges >= 1 /\ (local'.merges = 1 => m = <<>>)
    BY <1>2, <1>4, <2>4 DEF OuterAt
  <2>7. LeftAt(Members, less, next, local', m, c)
    BY <1>4, <2>4, <2>5, <2>6 DEF OuterAt, LeftAt, MergedAt, OuterOrder
  <2> QED
    BY <1>1, <1>5, <2>2, <2>3, <2>7, IntoLeft
<1>9. CASE ~Valid(local.current)
  <2>1. c = <<>>
    BY <1>2, <1>6, <1>7, <1>9, Typed
  <2>2. block' = "finish" /\ local' = local
    BY <1>1, <1>9 DEF Outer, Goto
  <2>3. TypeInv'
    BY <1>1, <1>2, <2>2 DEF TypeInv, Blocks
  <2> QED
    BY <1>1, <1>4, <1>5, <2>1, <2>2, <2>3, IntoOuter
<1> QED
  BY <1>8, <1>9

-----------------------------------------------------------------------------
\* Where a run is cut: after count entities, because it has its width or
\* because the list ends there.
LEMMA RunEnds ==
  ASSUME EntitiesFromZero, TypeInv, NEW c \in Seq(Members), NEW ref,
         ListAt(next, ref, c), Walking(local, c)
  PROVE  /\ c # <<>> /\ Len(c) \in Nat /\ local.count \in 1..Len(c) /\ local.end \in Members
         /\ local.end = c[local.count]
         /\ next[local.end] = IF local.count = Len(c) THEN Nil ELSE c[local.count + 1]
         /\ WithinRun <=> local.count < local.width /\ local.count < Len(c)
         /\ ~WithinRun => local.count = local.width \/ local.count = Len(c)
<1>1. Len(c) \in Nat /\ \A i \in 1..Len(c) : c[i] \in Members
  BY ElemsIn
<1>2. local.count \in 1..Len(c) /\ local.count <= local.width /\ local.end = c[local.count]
  BY DEF Walking
<1>3. c # <<>>
  BY <1>1, <1>2, ElemsIn
<1>4. next[local.end] = IF local.count = Len(c) THEN Nil ELSE c[local.count + 1]
  BY <1>1, <1>2, <1>3 DEF ListAt, Linked, Closed
<1>5. Valid(next[local.end]) <=> local.count < Len(c)
  <2>1. CASE local.count = Len(c)
    BY <1>2, <1>4, <2>1, Typed
  <2>2. CASE local.count # Len(c)
    <3>1. local.count + 1 \in 1..Len(c)
      BY <1>1, <1>2, <2>2
    <3>2. c[local.count + 1] \in Entities
      BY <1>1, <3>1, Typed
    <3> QED
      BY <1>1, <1>2, <1>4, <2>2, <3>2, Typed
  <2> QED
    BY <2>1, <2>2
<1>6. local.width \in Nat /\ local.count \in Nat
  BY DEF TypeInv, LocalTypes
<1> QED
  BY <1>1, <1>2, <1>3, <1>4, <1>5, <1>6 DEF WithinRun

\* Walking on: one entity further along the same run.
LEMMA WalkOn ==
  ASSUME EntitiesFromZero, TypeInv, NEW c \in Seq(Members), NEW ref,
         ListAt(next, ref, c), Walking(local, c), WithinRun, Advance
  PROVE  /\ block' = block /\ local' \in LocalTypes
         /\ Walking(local', c)
         /\ local'.width = local.width /\ local'.merges = local.merges
         /\ local'.newHead = local.newHead /\ local'.tail = local.tail
         /\ local'.left = local.left /\ local'.right = local.right
<1>1. local \in LocalTypes /\ local.count \in Nat
  BY DEF TypeInv, LocalTypes
<1>2. /\ Len(c) \in Nat /\ local.count \in 1..Len(c) /\ local.count < local.width /\ local.count < Len(c)
      /\ next[local.end] = c[local.count + 1]
  BY RunEnds
<1>3. c[local.count + 1] \in Refs
  BY <1>2, ElemsIn, Typed DEF Refs
<1> DEFINE further == c[local.count + 1]
           more == local.count + 1
<1>4. block' = block /\ local' = [local EXCEPT !.end = further, !.count = more]
  BY <1>2 DEF Advance, Goto
<1>5. more \in Nat /\ further \in Refs
  BY <1>1, <1>3
<1> HIDE DEF further, more
<1>6. /\ local' \in LocalTypes /\ local'.end = further /\ local'.count = more
      /\ local'.width = local.width /\ local'.merges = local.merges
      /\ local'.newHead = local.newHead /\ local'.tail = local.tail
      /\ local'.left = local.left /\ local'.right = local.right
  BY <1>1, <1>4, <1>5 DEF LocalTypes
<1>7. more \in 1..Len(c) /\ more <= local.width
  <2>1. local.width \in Nat
    BY DEF TypeInv, LocalTypes
  <2> QED
    BY <1>2, <2>1 DEF more
<1> QED
  BY <1>4, <1>6, <1>7 DEF Walking, further, more

\* Setting a link within the list keeps the types.
LEMMA LinkTyped ==
  ASSUME TypeInv, NEW e \in Entities, NEW v \in Refs, SetNext(e, v), block' \in Blocks, local' \in LocalTypes
  PROVE  TypeInv'
BY DEF TypeInv, SetNext

LEMMA SplitLeftStep == ASSUME EntitiesFromZero, ListInv, SplitLeft PROVE ListInv'
<1>1. block = "left"
  BY DEF SplitLeft
<1>2. /\ TypeInv /\ local \in LocalTypes /\ local.width \in Nat \ {0} /\ local.count \in Nat
      /\ next \in [Entities -> Refs]
  BY DEF ListInv, TypeInv, LocalTypes
<1>3. PICK m \in Seq(Members) : \E c \in Seq(Members) : LeftAt(Members, less, next, local, m, c)
  BY <1>1 DEF ListInv, LeftInv
<1>4. PICK c \in Seq(Members) : LeftAt(Members, less, next, local, m, c)
  BY <1>3
<1>5. /\ Shares(Members, m, <<>>, <<>>, c) /\ MergedAt(next, local, m)
      /\ ListAt(next, local.left, c) /\ Walking(local, c)
      /\ local.merges >= 1 /\ (local.merges = 1 => m = <<>>)
      /\ Weak(Members, less) => OuterOrder(less, local, m, c)
  BY <1>4 DEF LeftAt
<1>6. CASE WithinRun
  <2>1. Advance /\ UNCHANGED <<size, next, previous, less, doubly>>
    BY <1>1, <1>6 DEF SplitLeft, OnlyLocals
  <2>2. /\ block' = block /\ local' \in LocalTypes /\ Walking(local', c)
        /\ local'.width = local.width /\ local'.merges = local.merges
        /\ local'.newHead = local.newHead /\ local'.tail = local.tail
        /\ local'.left = local.left
    BY <1>2, <1>5, <1>6, <2>1, WalkOn
  <2>3. TypeInv'
    BY <1>2, <2>1, <2>2 DEF TypeInv
  <2>4. LeftAt(Members, less, next, local', m, c)
    BY <1>5, <2>2 DEF LeftAt, MergedAt, OuterOrder
  <2>5. Members' = Members
    BY <2>1 DEF Members
  <2> QED
    BY <1>1, <2>1, <2>2, <2>3, <2>4, <2>5, IntoLeft
<1>7. CASE ~WithinRun
  <2> DEFINE n == local.count
             a == RunOf(c, n)
             b == RestOf(c, n)
             right == next[local.end]
  <2>1. /\ c # <<>> /\ Len(c) \in Nat /\ n \in 1..Len(c) /\ local.end \in Members /\ local.end = c[n]
        /\ right = IF n = Len(c) THEN Nil ELSE c[n + 1]
        /\ n = local.width \/ n = Len(c)
        /\ n <= local.width
    BY <1>2, <1>5, <1>7, RunEnds DEF Walking
  <2>2. /\ SetNext(local.end, Nil)
        /\ IF Valid(right)
           THEN Goto("right", [local EXCEPT !.right = right, !.end = right, !.count = 1])
           ELSE Goto("merge", [local EXCEPT !.right = Nil, !.rest = Nil])
    BY <1>1, <1>7 DEF SplitLeft
  <2>3. /\ local.end \in Entities /\ next' = [next EXCEPT ![local.end] = Nil]
        /\ UNCHANGED <<size, previous, less, doubly>> /\ Members' = Members
    BY <1>2, <2>1, <2>2, Typed DEF SetNext, Members
  <2>4. /\ m \in Seq(Members) /\ m \in Seq(Entities) /\ c \in Seq(Entities)
        /\ Distinct(m) /\ Distinct(c) /\ Elems(m) \cap Elems(c) = {}
    <3>1. Seq(Members) \subseteq Seq(Entities)
      BY <1>2, Typed, SeqMonotonic
    <3> QED
      BY <1>5, <3>1 DEF Shares
  <2>5. /\ a \in Seq(Members) /\ b \in Seq(Members)
        /\ Len(a) = n /\ Len(b) = Len(c) - n
        /\ \A i \in 1..n : a[i] = c[i]
        /\ \A i \in 1..Len(c) - n : b[i] = c[n + i]
    <3> HIDE DEF n
    <3>1. n \in 1..Len(c) /\ c \in Seq(Members) /\ Distinct(c)
      BY <2>1, <2>4
    <3> QED
      BY <3>1, OfSplit
  <2>6. ListAt(next', local.left, a) /\ ListAt(next', right, b)
    BY <1>2, <1>5, <2>1, <2>3, <2>4, ListSplit
  <2>7. Linked(next', local.newHead, m) /\ local.tail = LastOf(m)
    <3>1. local.end \in Elems(c)
      BY <2>1 DEF Elems
    <3>2. local.end \notin Elems(m)
      BY <2>4, <3>1
    <3> QED
      BY <1>2, <1>5, <2>3, <2>4, <3>2, LinkedFrame DEF MergedAt
  <2>8. Shares(Members, m, a, <<>>, b)
    BY <1>5, <2>1, CutRun, SwapRuns
  <2>9. Weak(Members, less) =>
          /\ OuterOrder(less, local, m, b) /\ Ordered(less, a) /\ Below(m, a) /\ Below(a, b)
          /\ Cut(Len(m), 2 * local.width)
    <3> SUFFICES ASSUME Weak(Members, less)
                 PROVE  /\ OuterOrder(less, local, m, b) /\ Ordered(less, a) /\ Below(m, a) /\ Below(a, b)
                        /\ Cut(Len(m), 2 * local.width)
      OBVIOUS
    <3>1. /\ Runs(less, m, 2 * local.width) /\ Runs(less, c, local.width) /\ Below(m, c)
          /\ Cut(Len(m), 2 * local.width)
      BY <1>5, <2>1 DEF OuterOrder
    <3>2. Ordered(less, a) /\ Runs(less, b, local.width) /\ Below(a, b)
      BY <1>2, <2>1, <2>4, <3>1, RunsSplit
    <3>3. Below(m, a) /\ Below(m, b)
      BY <2>1, <2>4, <3>1, BelowSplit
    <3> QED
      BY <3>1, <3>2, <3>3 DEF OuterOrder
  <2> HIDE DEF a, b
  <2>10. CASE Valid(right)
    <3>1. n # Len(c) /\ n = local.width
      BY <1>2, <2>1, <2>10, Typed
    <3>2. b # <<>> /\ Len(b) >= 1 /\ right = b[1] /\ right \in Refs
      <4>1. Len(b) >= 1 /\ Len(b) # 0
        BY <2>1, <2>5, <3>1
      <4>2. right = b[1]
        BY <2>1, <2>5, <3>1
      <4>3. b # <<>>
        BY <4>1, OfNone
      <4>4. b[1] \in Refs
        BY <1>2, <2>5, <4>1, ElemsIn, Typed DEF Refs
      <4> QED
        BY <4>1, <4>2, <4>3, <4>4
    <3> HIDE DEF right, n
    <3>3. block' = "right" /\ local' = [local EXCEPT !.right = right, !.end = right, !.count = 1]
      BY <2>2, <2>10 DEF Goto
    <3>4. /\ local' \in LocalTypes
          /\ local'.right = right /\ local'.end = right /\ local'.count = 1
          /\ local'.width = local.width /\ local'.merges = local.merges
          /\ local'.newHead = local.newHead /\ local'.tail = local.tail /\ local'.left = local.left
      BY <1>2, <3>2, <3>3 DEF LocalTypes
    <3>5. Walking(local', b)
      BY <1>2, <2>5, <3>2, <3>4, ElemsIn DEF Walking
    <3>6. RightAt(Members, less, next', local', m, a, b)
      BY <1>5, <2>5, <2>6, <2>7, <2>8, <2>9, <3>1, <3>4, <3>5 DEF RightAt, MergedAt, OuterOrder
    <3>7. TypeInv'
      BY <1>2, <2>2, <2>3, <3>3, <3>4, LinkTyped DEF Blocks, Refs
    <3> QED
      BY <2>3, <2>5, <3>3, <3>6, <3>7, IntoRight
  <2>11. CASE ~Valid(right)
    <3>1. n = Len(c) /\ right = Nil
      <4>1. n # Len(c) => n + 1 \in 1..Len(c) /\ c[n + 1] \in Entities
        BY <2>1, <2>4, ElemsIn
      <4> QED
        BY <1>2, <2>1, <2>11, <4>1, Typed
    <3>2. b = <<>>
      BY <2>1, <2>5, <3>1, ElemsIn
    <3>3. block' = "merge" /\ local' = [local EXCEPT !.right = Nil, !.rest = Nil]
      BY <2>2, <2>11 DEF Goto
    <3>4. /\ local' \in LocalTypes
          /\ local'.right = Nil /\ local'.rest = Nil
          /\ local'.width = local.width /\ local'.merges = local.merges
          /\ local'.newHead = local.newHead /\ local'.tail = local.tail /\ local'.left = local.left
      BY <1>2, <3>3 DEF LocalTypes, Refs
    <3>5. ListAt(next', Nil, <<>>)
      BY <2>6, <3>1, <3>2
    <3>6. Len(m) \in Nat /\ a # <<>> /\ Len(a) <= local.width /\ Len(a) \in Nat
      BY <1>2, <2>1, <2>5, ElemsIn
    <3>7. /\ Len(m) \in 0..Len(m)
          /\ Len(m) + Len(a) + Len(<<>>) <= Len(m) + 2 * local.width
      BY <1>2, <3>6, OfNone
    <3>8. Weak(Members, less) => MergeOrder(less, local', Len(m), m, a, <<>>, <<>>)
      <4> SUFFICES ASSUME Weak(Members, less)
                   PROVE  MergeOrder(less, local', Len(m), m, a, <<>>, <<>>)
        OBVIOUS
      <4>1. AfterPrefix(less, m, Len(m), a)
        BY <2>9, <3>6 DEF AfterPrefix, Below
      <4>2. /\ AfterPrefix(less, m, Len(m), <<>>) /\ Below(m, <<>>) /\ Below(a, <<>>)
            /\ Below(<<>>, <<>>) /\ Ordered(less, <<>>) /\ Runs(less, <<>>, local.width)
        BY OfNone DEF AfterPrefix, Below, Ordered, Runs
      <4> QED
        BY <2>9, <3>4, <4>1, <4>2 DEF MergeOrder, OuterOrder
    <3>9. MergeAt(Members, less, next', local', Len(m), m, a, <<>>, <<>>)
      <4>1. local'.merges >= 1 /\ (local'.merges = 1 => Len(m) = 0)
        BY <1>5, <3>4, OfNone
      <4>2. Shares(Members, m, a, <<>>, <<>>) /\ ListAt(next', local'.left, a)
            /\ ListAt(next', local'.right, <<>>) /\ ListAt(next', local'.rest, <<>>)
        BY <2>6, <2>8, <3>2, <3>4, <3>5
      <4>3. MergedAt(next', local', m)
        BY <2>7, <3>4 DEF MergedAt
      <4> QED
        BY <3>4, <3>6, <3>7, <3>8, <4>1, <4>2, <4>3 DEF MergeAt, MergeShape
    <3>10. TypeInv'
      BY <1>2, <2>2, <2>3, <3>3, <3>4, LinkTyped DEF Blocks, Refs
    <3>11. <<>> \in Seq(Members)
      BY OfNone
    <3> QED
      BY <2>3, <2>5, <3>3, <3>6, <3>9, <3>10, <3>11, IntoMerge
  <2> QED
    BY <2>10, <2>11
<1> QED
  BY <1>6, <1>7

LEMMA SplitRightStep == ASSUME EntitiesFromZero, ListInv, SplitRight PROVE ListInv'
<1>1. block = "right"
  BY DEF SplitRight
<1>2. /\ TypeInv /\ local \in LocalTypes /\ local.width \in Nat \ {0} /\ local.count \in Nat
      /\ next \in [Entities -> Refs]
  BY DEF ListInv, TypeInv, LocalTypes
<1>3. PICK m \in Seq(Members) :
        \E l, c \in Seq(Members) : RightAt(Members, less, next, local, m, l, c)
  BY <1>1 DEF ListInv, RightInv
<1>4. PICK l \in Seq(Members) : \E c \in Seq(Members) : RightAt(Members, less, next, local, m, l, c)
  BY <1>3
<1>5. PICK c \in Seq(Members) : RightAt(Members, less, next, local, m, l, c)
  BY <1>4
<1>6. /\ Shares(Members, m, l, <<>>, c) /\ MergedAt(next, local, m)
      /\ ListAt(next, local.left, l) /\ ListAt(next, local.right, c) /\ Walking(local, c)
      /\ Len(l) = local.width
      /\ local.merges >= 1 /\ (local.merges = 1 => m = <<>>)
      /\ Weak(Members, less) =>
           OuterOrder(less, local, m, c) /\ Ordered(less, l) /\ Below(m, l) /\ Below(l, c)
  BY <1>5 DEF RightAt
<1>7. CASE WithinRun
  <2>1. Advance /\ UNCHANGED <<size, next, previous, less, doubly>>
    BY <1>1, <1>7 DEF SplitRight, OnlyLocals
  <2>2. /\ block' = block /\ local' \in LocalTypes /\ Walking(local', c)
        /\ local'.width = local.width /\ local'.merges = local.merges
        /\ local'.newHead = local.newHead /\ local'.tail = local.tail
        /\ local'.left = local.left /\ local'.right = local.right
    BY <1>2, <1>6, <1>7, <2>1, WalkOn
  <2>3. TypeInv'
    BY <1>2, <2>1, <2>2 DEF TypeInv
  <2>4. RightAt(Members, less, next, local', m, l, c)
    BY <1>6, <2>2 DEF RightAt, MergedAt, OuterOrder
  <2>5. Members' = Members
    BY <2>1 DEF Members
  <2> QED
    BY <1>1, <2>1, <2>2, <2>3, <2>4, <2>5, IntoRight
<1>8. CASE ~WithinRun
  <2> DEFINE n == local.count
             a == RunOf(c, n)
             b == RestOf(c, n)
             after == next[local.end]
  <2>1. /\ c # <<>> /\ Len(c) \in Nat /\ n \in 1..Len(c) /\ local.end \in Members /\ local.end = c[n]
        /\ n = local.width \/ n = Len(c)
        /\ n <= local.width
    BY <1>2, <1>6, <1>8, RunEnds DEF Walking
  <2>2. SetNext(local.end, Nil) /\ block' = "merge" /\ local' = [local EXCEPT !.rest = after]
    BY <1>1, <1>8 DEF SplitRight, Goto
  <2>3. /\ local.end \in Entities /\ next' = [next EXCEPT ![local.end] = Nil]
        /\ UNCHANGED <<size, previous, less, doubly>> /\ Members' = Members
        /\ after \in Refs
    BY <1>2, <2>1, <2>2, Typed DEF SetNext, Members
  <2>4. /\ Seq(Members) \subseteq Seq(Entities)
        /\ Distinct(m) /\ Distinct(l) /\ Distinct(c)
        /\ Elems(m) \cap Elems(c) = {} /\ Elems(l) \cap Elems(c) = {}
    BY <1>2, <1>6, Typed, SeqMonotonic DEF Shares
  <2>5. a \in Seq(Members) /\ b \in Seq(Members) /\ Len(a) = n /\ Len(b) = Len(c) - n
    <3> HIDE DEF n
    <3> QED
      BY <2>1, <2>4, OfSplit
  <2>6. ListAt(next', local.right, a) /\ ListAt(next', after, b)
    BY <1>2, <1>6, <2>1, <2>3, <2>4, ListSplit
  <2>7. local.end \notin Elems(m) /\ local.end \notin Elems(l)
    <3>1. local.end \in Elems(c)
      BY <2>1 DEF Elems
    <3> QED
      BY <2>4, <3>1
  <2>8. Linked(next', local.newHead, m) /\ local.tail = LastOf(m)
    BY <1>2, <1>6, <2>3, <2>4, <2>7, LinkedFrame DEF MergedAt
  <2>9. ListAt(next', local.left, l)
    BY <1>2, <1>6, <2>3, <2>4, <2>7, ListFrame
  <2>10. Shares(Members, m, l, a, b)
    BY <1>6, <2>1, CutRun
  <2>11. /\ local' \in LocalTypes /\ local'.rest = after
         /\ local'.width = local.width /\ local'.merges = local.merges
         /\ local'.newHead = local.newHead /\ local'.tail = local.tail
         /\ local'.left = local.left /\ local'.right = local.right
    <3> HIDE DEF after
    <3> QED
      BY <1>2, <2>2, <2>3 DEF LocalTypes
  <2>12. TypeInv'
    BY <1>2, <2>2, <2>3, <2>11, LinkTyped DEF Blocks, Refs
  <2>13. /\ Len(m) \in Nat /\ Len(l) \in Nat /\ local.width \in Nat /\ Len(a) \in Nat
         /\ a # <<>> /\ Len(a) <= local.width
         /\ b # <<>> => Len(a) = local.width
    BY <1>2, <2>1, <2>5, ElemsIn
  <2>14. Weak(Members, less) =>
           /\ Runs(less, m, 2 * local.width) /\ Cut(Len(m), 2 * local.width)
           /\ Runs(less, b, local.width) /\ Ordered(less, l) /\ Ordered(less, a)
           /\ Below(m, l) /\ Below(m, a) /\ Below(m, b) /\ Below(l, a) /\ Below(l, b) /\ Below(a, b)
    <3> SUFFICES ASSUME Weak(Members, less)
                 PROVE  /\ Runs(less, m, 2 * local.width) /\ Cut(Len(m), 2 * local.width)
                        /\ Runs(less, b, local.width) /\ Ordered(less, l) /\ Ordered(less, a)
                        /\ Below(m, l) /\ Below(m, a) /\ Below(m, b)
                        /\ Below(l, a) /\ Below(l, b) /\ Below(a, b)
      OBVIOUS
    <3>1. /\ Runs(less, m, 2 * local.width) /\ Runs(less, c, local.width) /\ Below(m, c)
          /\ Cut(Len(m), 2 * local.width) /\ Ordered(less, l) /\ Below(m, l) /\ Below(l, c)
      BY <1>6, <2>1 DEF OuterOrder
    <3>2. Ordered(less, a) /\ Runs(less, b, local.width) /\ Below(a, b)
      BY <1>2, <2>1, <2>4, <3>1, RunsSplit
    <3>3. Below(m, a) /\ Below(m, b) /\ Below(l, a) /\ Below(l, b)
      BY <2>1, <2>4, <3>1, BelowSplit
    <3> QED
      BY <3>1, <3>2, <3>3
  <2> HIDE DEF n, a, b, after
  <2>15. Weak(Members, less) => MergeOrder(less, local', Len(m), m, l, a, b)
    <3> SUFFICES ASSUME Weak(Members, less) PROVE MergeOrder(less, local', Len(m), m, l, a, b)
      OBVIOUS
    <3>1. AfterPrefix(less, m, Len(m), l) /\ AfterPrefix(less, m, Len(m), a)
      BY <2>13, <2>14 DEF AfterPrefix, Below
    <3>2. b # <<>> => Len(m) + Len(l) + Len(a) = Len(m) + 2 * local'.width
      BY <1>6, <2>11, <2>13
    <3> QED
      BY <2>11, <2>14, <3>1, <3>2 DEF MergeOrder
  <2>16. MergeAt(Members, less, next', local', Len(m), m, l, a, b)
    <3>1. local'.merges >= 1 /\ (local'.merges = 1 => Len(m) = 0)
      BY <1>6, <2>11, OfNone
    <3>2. /\ Len(m) \in 0..Len(m)
          /\ Len(m) + Len(l) + Len(a) <= Len(m) + 2 * local'.width
      BY <1>6, <2>11, <2>13
    <3>3. /\ MergedAt(next', local', m) /\ ListAt(next', local'.left, l)
          /\ ListAt(next', local'.right, a) /\ ListAt(next', local'.rest, b)
      BY <2>6, <2>8, <2>9, <2>11 DEF MergedAt
    <3> QED
      BY <2>10, <2>13, <2>15, <3>1, <3>2, <3>3 DEF MergeAt, MergeShape
  <2> QED
    BY <2>2, <2>3, <2>5, <2>12, <2>13, <2>16, IntoMerge
<1> QED
  BY <1>7, <1>8

-----------------------------------------------------------------------------
\* The first entity x[1] of the chosen run is appended to m.
LEMMA AppendedTo ==
  ASSUME EntitiesFromZero, TypeInv, block = "merge", NEW run \in {"left", "right"}, Appended(run),
         NEW m \in Seq(Members), NEW x \in Seq(Members), Distinct(m), Distinct(x),
         x # <<>>, Elems(m) \cap Elems(x) = {},
         MergedAt(next, local, m), ListAt(next, local[run], x)
  PROVE  /\ next' = Appending(next, m, x[1]) /\ UNCHANGED <<size, previous, less, doubly>>
         /\ MergedAt(next', local', Append(m, x[1]))
         /\ ListAt(next', local'[run], Tail(x))
         /\ local'.rest = local.rest /\ local'.width = local.width /\ local'.merges = local.merges
         /\ \A other \in {"left", "right"} \ {run} : local'[other] = local[other]
         /\ TypeInv'
         /\ IF Valid(local'.left) \/ Valid(local'.right)
            THEN block' = "merge" ELSE block' = "outer" /\ local'.current = local.rest
<1> DEFINE chosen == local[run]
           following == next[chosen]
           head == IF Valid(local.tail) THEN local.newHead ELSE chosen
           moved == [local EXCEPT ![run] = following, !.tail = chosen, !.newHead = head]
<1>1. local \in LocalTypes /\ next \in [Entities -> Refs]
  BY DEF TypeInv
<1>2. /\ IF Valid(local.tail) THEN SetNext(local.tail, chosen) ELSE OnlyLocals
      /\ IF Valid(moved.left) \/ Valid(moved.right)
         THEN block' = "merge" /\ local' = moved
         ELSE block' = "outer" /\ local' = [moved EXCEPT !.current = local.rest]
  BY <1>1 DEF Appended, Goto, LocalTypes
<1>3. x[1] \in Members /\ x[1] \in Entities /\ x[1] \in Elems(x) /\ Tail(x) \in Seq(Members)
      /\ Elems(Tail(x)) \subseteq Elems(x)
  BY OfTail, ElemsIn, Typed
<1>4. /\ Seq(Members) \subseteq Seq(Entities) /\ m \in Seq(Entities) /\ x \in Seq(Entities)
      /\ Tail(x) \in Seq(Entities)
  BY <1>3, Typed, SeqMonotonic
<1>5. chosen = x[1] /\ ListAt(next, following, Tail(x))
  BY ListTail
<1>6. /\ m = <<>> => local.tail = Nil
      /\ m # <<>> => local.tail = LastOf(m) /\ LastOf(m) \in Entities
  <2>1. m # <<>> => LastOf(m) \in Members
    BY ElemsIn DEF LastOf
  <2> QED
    BY <2>1, OfNone, Typed DEF MergedAt
<1>7. Valid(local.tail) <=> m # <<>>
  BY <1>6, Typed
<1>8. next' = Appending(next, m, x[1]) /\ UNCHANGED <<size, previous, less, doubly>>
  BY <1>2, <1>5, <1>6, <1>7 DEF Appending, SetNext, OnlyLocals
<1>9. head = IF m = <<>> THEN x[1] ELSE local.newHead
  BY <1>5, <1>7
<1>10. chosen \in Refs /\ following \in Refs /\ head \in Refs
  BY <1>1, <1>3, <1>5, <1>9 DEF LocalTypes, Refs
<1> HIDE DEF chosen, following, head
<1>11. /\ moved \in LocalTypes /\ moved[run] = following /\ moved.tail = chosen /\ moved.newHead = head
       /\ moved.rest = local.rest /\ moved.width = local.width /\ moved.merges = local.merges
       /\ \A other \in {"left", "right"} \ {run} : moved[other] = local[other]
  BY <1>1, <1>10 DEF LocalTypes
<1> HIDE DEF moved
<1>12. /\ local' \in LocalTypes /\ local'[run] = following /\ local'.tail = chosen /\ local'.newHead = head
       /\ local'.rest = local.rest /\ local'.width = local.width /\ local'.merges = local.merges
       /\ \A other \in {"left", "right"} \ {run} : local'[other] = local[other]
       /\ local'.left = moved.left /\ local'.right = moved.right
       /\ ~(Valid(moved.left) \/ Valid(moved.right)) => local'.current = local.rest
  <2>1. local.rest \in Refs
    BY <1>1 DEF LocalTypes
  <2> QED
    BY <1>2, <1>11, <2>1 DEF LocalTypes
<1>13. TypeInv'
  <2>1. next' \in [Entities -> Refs]
    BY <1>1, <1>3, <1>8 DEF Appending, Refs
  <2> QED
    BY <1>2, <1>8, <1>12, <2>1 DEF TypeInv, Blocks
<1>14. MergedAt(next', local', Append(m, x[1]))
  <2>1. x[1] \notin Elems(m)
    BY <1>3
  <2>2. Linked(next', head, Append(m, x[1]))
    BY <1>1, <1>3, <1>4, <1>8, <1>9, <2>1, LinkNext DEF MergedAt
  <2>3. LastOf(Append(m, x[1])) = x[1]
    BY <1>3, <2>1, OfAppend
  <2> QED
    BY <1>5, <1>12, <2>2, <2>3 DEF MergedAt
<1>15. ListAt(next', local'[run], Tail(x))
  BY <1>1, <1>3, <1>4, <1>5, <1>8, <1>12, ListBeside
<1> QED
  BY <1>2, <1>8, <1>12, <1>13, <1>14, <1>15

\* After the entity was appended: the merge goes on, or the next one follows.
LEMMA MergeEnds ==
  ASSUME EntitiesFromZero, TypeInv, TypeInv', UNCHANGED <<size, less>>,
         IF Valid(local'.left) \/ Valid(local'.right)
         THEN block' = "merge" ELSE block' = "outer" /\ local'.current = local'.rest,
         NEW m \in Seq(Members), NEW l \in Seq(Members), NEW r \in Seq(Members), NEW c \in Seq(Members),
         NEW f \in Nat, MergeShape(Members, less, next', local', f, m, l, r, c)
  PROVE  ListInv'
<1>1. Members' = Members
  BY DEF Members
<1>2. /\ Shares(Members, m, l, r, c) /\ MergedAt(next', local', m)
      /\ ListAt(next', local'.left, l) /\ ListAt(next', local'.right, r) /\ ListAt(next', local'.rest, c)
      /\ f \in 0..Len(m) /\ Len(m) + Len(l) + Len(r) <= f + 2 * local'.width
      /\ local'.merges >= 1 /\ (local'.merges = 1 => f = 0)
      /\ Weak(Members, less) => MergeOrder(less, local', f, m, l, r, c)
  BY DEF MergeShape
<1>3. (Valid(local'.left) <=> l # <<>>) /\ (Valid(local'.right) <=> r # <<>>)
  <2>1. /\ l # <<>> => local'.left \in Entities
        /\ r # <<>> => local'.right \in Entities
    BY <1>2, ElemsIn, Typed DEF ListAt, Linked
  <2> QED
    BY <1>2, <2>1, Typed DEF ListAt, Linked
<1>4. CASE l # <<>> \/ r # <<>>
  <2>1. MergeAt(Members, less, next', local', f, m, l, r, c)
    BY <1>4 DEF MergeAt
  <2> QED
    BY <1>1, <1>3, <1>4, <2>1, IntoMerge
<1>5. CASE l = <<>> /\ r = <<>>
  <2>1. block' = "outer" /\ local'.current = local'.rest
    BY <1>3, <1>5
  <2>2. local'.width \in Nat /\ local'.merges \in Nat /\ Len(m) \in Nat /\ Len(m) <= f + 2 * local'.width
    <3>1. local'.width \in Nat /\ local'.merges \in Nat
      BY DEF TypeInv, LocalTypes
    <3>2. Len(m) \in Nat /\ Len(l) = 0 /\ Len(r) = 0
      BY <1>5, ElemsIn
    <3> QED
      BY <1>2, <3>1, <3>2
  <2>3. Weak(Members, less) => OuterOrder(less, local', m, c)
    <3> SUFFICES ASSUME Weak(Members, less) PROVE OuterOrder(less, local', m, c)
      OBVIOUS
    <3>1. MergeOrder(less, local', f, m, l, r, c)
      BY <1>2
    <3>2. ASSUME c # <<>> PROVE Cut(Len(m), 2 * local'.width)
      <4>1. Len(m) = f + 2 * local'.width /\ Cut(f, 2 * local'.width)
        BY <1>5, <2>2, <3>1, <3>2, OfNone DEF MergeOrder
      <4>2. 2 * local'.width \in Nat
        BY <2>2
      <4> QED
        BY <4>1, <4>2, CutAdd
    <3> QED
      BY <3>1, <3>2 DEF MergeOrder, OuterOrder
  <2>4. Shares(Members, m, <<>>, <<>>, c)
    BY <1>2, <1>5
  <2>5. OuterAt(Members, less, next', local', m, c)
    BY <1>2, <2>1, <2>2, <2>3, <2>4 DEF OuterAt
  <2> QED
    BY <1>1, <2>1, <2>5, IntoOuter
<1> QED
  BY <1>4, <1>5

LEMMA MergeStep == ASSUME EntitiesFromZero, ListInv, Merge PROVE ListInv'
<1>1. block = "merge" /\ Appended(IF RightFirst THEN "right" ELSE "left")
  BY DEF Merge
<1>2. TypeInv /\ local \in LocalTypes /\ local.width \in Nat \ {0}
  BY DEF ListInv, TypeInv, LocalTypes
<1>3. PICK m \in Seq(Members) :
        \E l, r, c \in Seq(Members) : \E f \in Nat : MergeAt(Members, less, next, local, f, m, l, r, c)
  BY <1>1 DEF ListInv, MergeInv
<1>4. PICK l \in Seq(Members) :
        \E r, c \in Seq(Members) : \E f \in Nat : MergeAt(Members, less, next, local, f, m, l, r, c)
  BY <1>3
<1>5. PICK r \in Seq(Members) :
        \E c \in Seq(Members) : \E f \in Nat : MergeAt(Members, less, next, local, f, m, l, r, c)
  BY <1>4
<1>6. PICK c \in Seq(Members) : \E f \in Nat : MergeAt(Members, less, next, local, f, m, l, r, c)
  BY <1>5
<1>7. PICK f \in Nat : MergeAt(Members, less, next, local, f, m, l, r, c)
  BY <1>6
<1>8. /\ Shares(Members, m, l, r, c) /\ MergedAt(next, local, m)
      /\ ListAt(next, local.left, l) /\ ListAt(next, local.right, r) /\ ListAt(next, local.rest, c)
      /\ l # <<>> \/ r # <<>>
      /\ f \in 0..Len(m) /\ Len(m) + Len(l) + Len(r) <= f + 2 * local.width
      /\ local.merges >= 1 /\ (local.merges = 1 => f = 0)
      /\ Weak(Members, less) => MergeOrder(less, local, f, m, l, r, c)
  BY <1>7 DEF MergeAt, MergeShape
<1>9. /\ l # <<>> => local.left = l[1] /\ l[1] \in Members /\ Valid(local.left)
      /\ r # <<>> => local.right = r[1] /\ r[1] \in Members /\ Valid(local.right)
      /\ l = <<>> => ~Valid(local.left)
      /\ r = <<>> => ~Valid(local.right)
  <2>1. /\ l # <<>> => l[1] \in Members /\ l[1] \in Entities
        /\ r # <<>> => r[1] \in Members /\ r[1] \in Entities
    BY <1>2, ElemsIn, Typed
  <2>2. /\ local.left = IF l = <<>> THEN Nil ELSE l[1]
        /\ local.right = IF r = <<>> THEN Nil ELSE r[1]
    BY <1>8 DEF ListAt, Linked
  <2>3. ~Valid(Nil) /\ \A e \in Entities : Valid(e)
    BY <1>2, Typed
  <2> QED
    BY <2>1, <2>2, <2>3
<1>10. /\ Members \in SUBSET Nat /\ Seq(Members) \subseteq Seq(Entities) /\ next \in [Entities -> Refs]
       /\ Len(m) \in Nat /\ Len(l) \in Nat /\ Len(r) \in Nat /\ 2 * local.width \in Nat \ {0}
  BY <1>2, Typed, SeqMonotonic, ElemsIn DEF TypeInv
<1>11. /\ Distinct(m) /\ Distinct(l) /\ Distinct(r)
       /\ Elems(m) \cap Elems(l) = {} /\ Elems(m) \cap Elems(r) = {} /\ Elems(m) \cap Elems(c) = {}
       /\ Elems(l) \cap Elems(r) = {}
  BY <1>8 DEF Shares
<1>12. CASE RightFirst
  <2> DEFINE p == Append(m, r[1])
             t == Tail(r)
  <2>1. r # <<>> /\ r[1] \in Members /\ (l # <<>> => <<r[1], l[1]>> \in less)
    BY <1>9, <1>12 DEF RightFirst
  <2>2. /\ next' = Appending(next, m, r[1]) /\ UNCHANGED <<size, previous, less, doubly>>
        /\ MergedAt(next', local', p) /\ ListAt(next', local'.right, t)
        /\ local'.rest = local.rest /\ local'.width = local.width /\ local'.merges = local.merges
        /\ local'.left = local.left
        /\ TypeInv'
        /\ IF Valid(local'.left) \/ Valid(local'.right)
           THEN block' = "merge" ELSE block' = "outer" /\ local'.current = local.rest
    BY <1>1, <1>2, <1>8, <1>11, <1>12, <2>1, AppendedTo
  <2>3. ListAt(next', local'.left, l) /\ ListAt(next', local'.rest, c)
    BY <1>8, <1>10, <1>11, <2>2, ListBeside
  <2>4. Shares(Members, p, l, t, c)
    BY <1>8, <2>1, TakeRight
  <2>5. r[1] \notin Elems(m)
    BY <1>11, <2>1, OfTail
  <2>6. /\ p \in Seq(Members) /\ Len(p) = Len(m) + 1 /\ t \in Seq(Members) /\ Len(t) = Len(r) - 1
        /\ \A i \in 1..Len(t) : i + 1 \in 1..Len(r) /\ t[i] = r[i + 1]
    BY <1>10, <1>11, <2>1, <2>5, OfTail, OfAppend
  <2>7. ASSUME Weak(Members, less) PROVE MergeOrder(less, local', f, p, l, t, c)
    <3>1. /\ Runs(less, m, 2 * local.width) /\ Runs(less, c, local.width)
          /\ Cut(f, 2 * local.width)
          /\ c # <<>> => Len(m) + Len(l) + Len(r) = f + 2 * local.width
          /\ AfterPrefix(less, m, f, l) /\ AfterPrefix(less, m, f, r)
          /\ Below(m, c) /\ Below(l, c) /\ Below(r, c) /\ Below(l, r)
          /\ Ordered(less, l) /\ Ordered(less, r)
      BY <1>8, <2>7 DEF MergeOrder
    <3>2. l # <<>> => Precedes(less, r[1], l[1])
      BY <1>9, <2>1, <2>7 DEF Weak, Precedes
    <3>3. Len(m) + Len(r) + Len(l) <= f + 2 * local.width
      BY <1>8, <1>10
    <3>4. /\ Runs(less, p, 2 * local.width) /\ AfterPrefix(less, p, f, t) /\ AfterPrefix(less, p, f, l)
          /\ Below(p, c) /\ Below(t, c) /\ Ordered(less, t)
      BY <1>8, <1>10, <1>11, <2>1, <2>5, <2>7, <3>1, <3>2, <3>3, OrderTakes
    <3>5. Below(l, t)
      BY <2>6, <3>1 DEF Below
    <3>6. c # <<>> => Len(p) + Len(l) + Len(t) = f + 2 * local.width
      BY <1>10, <2>6, <3>1
    <3> HIDE DEF p, t
    <3> QED
      BY <2>2, <3>1, <3>4, <3>5, <3>6 DEF MergeOrder
  <2>8. /\ f \in 0..Len(p) /\ Len(p) + Len(l) + Len(t) <= f + 2 * local'.width
    BY <1>8, <1>10, <2>2, <2>6
  <2> HIDE DEF p, t
  <2>9. MergeShape(Members, less, next', local', f, p, l, t, c)
    BY <1>8, <2>2, <2>3, <2>4, <2>7, <2>8 DEF MergeShape
  <2> QED
    BY <1>2, <2>2, <2>6, <2>9, MergeEnds
<1>13. CASE ~RightFirst
  <2> DEFINE p == Append(m, l[1])
             t == Tail(l)
  <2>1. l # <<>> /\ l[1] \in Members /\ (r # <<>> => <<r[1], l[1]>> \notin less)
    BY <1>8, <1>9, <1>13 DEF RightFirst
  <2>2. /\ next' = Appending(next, m, l[1]) /\ UNCHANGED <<size, previous, less, doubly>>
        /\ MergedAt(next', local', p) /\ ListAt(next', local'.left, t)
        /\ local'.rest = local.rest /\ local'.width = local.width /\ local'.merges = local.merges
        /\ local'.right = local.right
        /\ TypeInv'
        /\ IF Valid(local'.left) \/ Valid(local'.right)
           THEN block' = "merge" ELSE block' = "outer" /\ local'.current = local.rest
    BY <1>1, <1>2, <1>8, <1>11, <1>13, <2>1, AppendedTo
  <2>3. ListAt(next', local'.right, r) /\ ListAt(next', local'.rest, c)
    BY <1>8, <1>10, <1>11, <2>2, ListBeside
  <2>4. Shares(Members, p, t, r, c)
    BY <1>8, <2>1, TakeLeft
  <2>5. l[1] \notin Elems(m)
    BY <1>11, <2>1, OfTail
  <2>6. /\ p \in Seq(Members) /\ Len(p) = Len(m) + 1 /\ t \in Seq(Members) /\ Len(t) = Len(l) - 1
        /\ \A i \in 1..Len(t) : i + 1 \in 1..Len(l) /\ t[i] = l[i + 1]
    BY <1>10, <1>11, <2>1, <2>5, OfTail, OfAppend
  <2>7. ASSUME Weak(Members, less) PROVE MergeOrder(less, local', f, p, t, r, c)
    <3>1. /\ Runs(less, m, 2 * local.width) /\ Runs(less, c, local.width)
          /\ Cut(f, 2 * local.width)
          /\ c # <<>> => Len(m) + Len(l) + Len(r) = f + 2 * local.width
          /\ AfterPrefix(less, m, f, l) /\ AfterPrefix(less, m, f, r)
          /\ Below(m, c) /\ Below(l, c) /\ Below(r, c) /\ Below(l, r)
          /\ Ordered(less, l) /\ Ordered(less, r)
      BY <1>8, <2>7 DEF MergeOrder
    <3>2. ASSUME r # <<>> PROVE Precedes(less, l[1], r[1])
      <4>1. l[1] < r[1]
        <5>1. 1 \in 1..Len(l) /\ 1 \in 1..Len(r)
          BY <2>1, <3>2, ElemsIn
        <5> QED
          BY <3>1, <5>1 DEF Below
      <4> QED
        BY <2>1, <3>2, <4>1 DEF Precedes
    <3>3. /\ Runs(less, p, 2 * local.width) /\ AfterPrefix(less, p, f, t) /\ AfterPrefix(less, p, f, r)
          /\ Below(p, c) /\ Below(t, c) /\ Ordered(less, t)
      BY <1>8, <1>10, <1>11, <2>1, <2>5, <2>7, <3>1, <3>2, OrderTakes
    <3>4. Below(t, r)
      BY <2>6, <3>1 DEF Below
    <3>5. c # <<>> => Len(p) + Len(t) + Len(r) = f + 2 * local.width
      BY <1>10, <2>6, <3>1
    <3> HIDE DEF p, t
    <3> QED
      BY <2>2, <3>1, <3>3, <3>4, <3>5 DEF MergeOrder
  <2>8. /\ f \in 0..Len(p) /\ Len(p) + Len(t) + Len(r) <= f + 2 * local'.width
    BY <1>8, <1>10, <2>2, <2>6
  <2> HIDE DEF p, t
  <2>9. MergeShape(Members, less, next', local', f, p, t, r, c)
    BY <1>8, <2>2, <2>3, <2>4, <2>7, <2>8 DEF MergeShape
  <2> QED
    BY <1>2, <2>2, <2>6, <2>9, MergeEnds
<1> QED
  BY <1>12, <1>13

LEMMA FinishStep == ASSUME EntitiesFromZero, ListInv, Finish PROVE ListInv'
<1>1. /\ block = "finish"
      /\ IF Valid(local.tail) THEN SetNext(local.tail, Nil) ELSE OnlyLocals
      /\ IF local.merges > 1
         THEN block' = "pass" /\ local' = [local EXCEPT !.result = local.newHead, !.width = Doubled]
         ELSE block' = "done" /\ local' = [local EXCEPT !.result = local.newHead]
  BY DEF Finish, Goto
<1>2. /\ TypeInv /\ local \in LocalTypes /\ local.width \in Nat \ {0} /\ local.merges \in Nat
      /\ local.newHead \in Refs /\ next \in [Entities -> Refs] /\ Nil \in Refs
  BY DEF ListInv, TypeInv, LocalTypes, Refs
<1>3. PICK q \in Seq(Members) : \E c \in Seq(Members) :
        OuterAt(Members, less, next, local, q, c) /\ c = <<>>
  BY <1>1 DEF ListInv, OuterInv
<1>4. /\ Shares(Members, q, <<>>, <<>>, <<>>) /\ MergedAt(next, local, q)
      /\ local.merges = 0 => q = <<>>
      /\ local.merges = 1 => Len(q) <= 2 * local.width
      /\ Weak(Members, less) => Runs(less, q, 2 * local.width)
  BY <1>3 DEF OuterAt, OuterOrder
<1>5. Distinct(q) /\ Seq(Members) \subseteq Seq(Entities) /\ Len(q) \in Nat /\ q \in Seq(Entities)
  BY <1>2, <1>4, Typed, SeqMonotonic, ElemsIn DEF Shares
<1>6. /\ q = <<>> => local.tail = Nil
      /\ q # <<>> => local.tail = LastOf(q) /\ LastOf(q) \in Entities
  BY <1>2, <1>4, <1>5, ElemsIn, OfNone DEF LastOf, MergedAt
<1>7. Valid(local.tail) <=> q # <<>>
  BY <1>2, <1>6, Typed
<1>8. /\ next' = IF q = <<>> THEN next ELSE [next EXCEPT ![LastOf(q)] = Nil]
      /\ UNCHANGED <<size, previous, less, doubly>>
  BY <1>1, <1>6, <1>7 DEF SetNext, OnlyLocals
<1>9. Linked(next', local.newHead, q) /\ Closed(next', q)
  <2>1. CASE q = <<>>
    BY <1>4, <1>8, <2>1 DEF MergedAt, Closed
  <2>2. CASE q # <<>>
    <3>1. next' = [next EXCEPT ![LastOf(q)] = Nil] /\ LastOf(q) \in Entities
      BY <1>6, <1>8, <2>2
    <3>2. Linked(next', local.newHead, q)
      BY <1>2, <1>4, <1>5, <3>1, LinkedFrame DEF MergedAt
    <3>3. Closed(next', q)
      BY <1>2, <2>2, <3>1 DEF Closed, LastOf
    <3> QED
      BY <3>2, <3>3
  <2> QED
    BY <2>1, <2>2
<1>10. Members' = Members
  BY <1>8 DEF Members
<1>11. next' \in [Entities -> Refs]
  BY <1>2, <1>6, <1>8
<1> DEFINE w == Doubled
<1>12. w \in Nat \ {0} /\ w = 2 * local.width
  BY <1>2 DEF Doubled
<1> HIDE DEF w
<1>13. CASE local.merges > 1
  <2>1. block' = "pass" /\ local' = [local EXCEPT !.result = local.newHead, !.width = w]
    BY <1>1, <1>13 DEF w
  <2>2. local' \in LocalTypes /\ local'.result = local.newHead /\ local'.width = w
    BY <1>2, <1>12, <2>1 DEF LocalTypes
  <2>3. TypeInv'
    BY <1>2, <1>8, <1>11, <2>1, <2>2 DEF TypeInv, Blocks
  <2>4. WholeAt(Members, next', local'.result, q)
    BY <1>4, <1>9, <2>2 DEF WholeAt, ListAt
  <2>5. Weak(Members, less) => Runs(less, q, local'.width)
    BY <1>4, <1>12, <2>2
  <2> QED
    BY <1>8, <1>10, <2>1, <2>3, <2>4, <2>5, IntoWhole
<1>14. CASE ~(local.merges > 1)
  <2>1. block' = "done" /\ local' = [local EXCEPT !.result = local.newHead]
    BY <1>1, <1>14
  <2>2. local' \in LocalTypes /\ local'.result = local.newHead
    BY <1>2, <2>1 DEF LocalTypes
  <2>3. TypeInv'
    BY <1>2, <1>8, <1>11, <2>1, <2>2 DEF TypeInv, Blocks
  <2>4. WholeAt(Members, next', local'.result, q)
    BY <1>4, <1>9, <2>2 DEF WholeAt, ListAt
  <2>5. Len(q) <= w
    <3>1. local.merges = 0 \/ local.merges = 1
      BY <1>2, <1>14
    <3>2. q = <<>> => Len(q) = 0
      BY OfNone
    <3> QED
      BY <1>4, <1>12, <3>1, <3>2
  <2>6. Weak(Members, less) => Ordered(less, q)
    BY <1>4, <1>12, <2>5, RunsOfFirst
  <2> QED
    BY <1>8, <1>10, <2>1, <2>3, <2>4, <2>6, IntoWhole
<1> QED
  BY <1>13, <1>14

LEMMA DoneStep == ASSUME EntitiesFromZero, ListInv, ListDone PROVE ListInv'
<1>1. /\ block = "done" /\ UNCHANGED <<size, next, previous, less, doubly>>
      /\ IF doubly
         THEN block' = "previous" /\ local' = [local EXCEPT !.current = local.result, !.tail = Nil]
         ELSE block' = "returned" /\ local' = local
  BY DEF ListDone, Goto, OnlyLocals
<1>2. TypeInv /\ local \in LocalTypes /\ local.result \in Refs /\ Nil \in Refs /\ doubly \in BOOLEAN
  BY DEF ListInv, TypeInv, LocalTypes, Refs
<1>3. PICK q \in Seq(Members) :
        WholeAt(Members, next, local.result, q) /\ (Weak(Members, less) => Ordered(less, q))
  BY <1>1 DEF ListInv, WholeInv
<1>4. Members' = Members
  BY <1>1 DEF Members
<1>5. CASE doubly
  <2>1. block' = "previous" /\ local' = [local EXCEPT !.current = local.result, !.tail = Nil]
    BY <1>1, <1>5
  <2>2. /\ local' \in LocalTypes /\ local'.result = local.result
        /\ local'.current = local.result /\ local'.tail = Nil
    BY <1>2, <2>1 DEF LocalTypes
  <2>3. TypeInv'
    BY <1>1, <1>2, <2>1, <2>2 DEF TypeInv, Blocks
  <2>4. PreviousAt(previous, local', q)
    <3>1. local.result = IF q = <<>> THEN Nil ELSE q[1]
      BY <1>3 DEF WholeAt, ListAt, Linked
    <3>2. Len(q) \in Nat /\ (q = <<>> <=> Len(q) = 0)
      BY ElemsIn
    <3>3. local'.current = IF 0 < Len(q) THEN q[0 + 1] ELSE Nil
      BY <2>2, <3>1, <3>2
    <3>4. BackTo(previous, q, 0)
      BY DEF BackTo
    <3> QED
      BY <2>2, <3>2, <3>3, <3>4 DEF PreviousAt
  <2> QED
    BY <1>1, <1>3, <1>4, <1>5, <2>1, <2>2, <2>3, <2>4, IntoWhole
<1>6. CASE ~doubly
  <2>1. block' = "returned" /\ local' = local
    BY <1>1, <1>6
  <2>2. TypeInv'
    BY <1>1, <1>2, <2>1 DEF TypeInv, Blocks
  <2> QED
    BY <1>1, <1>3, <1>4, <1>6, <2>1, <2>2, IntoWhole
<1> QED
  BY <1>5, <1>6

LEMMA SetPreviousStep == ASSUME EntitiesFromZero, ListInv, SetPrevious PROVE ListInv'
<1>1. block = "previous" /\ UNCHANGED <<size, next, less, doubly>>
  BY DEF SetPrevious
<1>2. /\ TypeInv /\ local \in LocalTypes /\ local.current \in Refs /\ local.tail \in Refs
      /\ previous \in [Entities -> Refs] /\ next \in [Entities -> Refs]
  BY DEF ListInv, TypeInv, LocalTypes
<1>3. PICK q \in Seq(Members) :
        /\ WholeAt(Members, next, local.result, q) /\ (Weak(Members, less) => Ordered(less, q))
        /\ doubly /\ PreviousAt(previous, local, q)
  BY <1>1 DEF ListInv, WholeInv
<1>4. PICK n \in 0..Len(q) :
        /\ local.current = IF n < Len(q) THEN q[n + 1] ELSE Nil
        /\ local.tail = IF n = 0 THEN Nil ELSE q[n]
        /\ BackTo(previous, q, n)
  BY <1>3 DEF PreviousAt
<1>5. Members' = Members
  BY <1>1 DEF Members
<1>6. /\ Len(q) \in Nat /\ (q = <<>> <=> Len(q) = 0) /\ Distinct(q)
      /\ \A i \in 1..Len(q) : q[i] \in Members /\ q[i] \in Entities
  BY <1>2, <1>3, ElemsIn, Typed DEF WholeAt, Shares
<1>7. Valid(local.current) <=> n < Len(q)
  <2>1. n < Len(q) => n + 1 \in 1..Len(q)
    BY <1>6
  <2> QED
    BY <1>2, <1>4, <1>6, <2>1, Typed
<1>8. CASE Valid(local.current)
  <2> DEFINE e == q[n + 1]
             following == next[e]
  <2>1. n + 1 \in 1..Len(q) /\ local.current = e /\ e \in Entities
    BY <1>4, <1>6, <1>7, <1>8
  <2>2. /\ previous' = [previous EXCEPT ![e] = local.tail]
        /\ block' = "previous"
        /\ local' = [local EXCEPT !.tail = e, !.current = following]
    BY <1>8, <2>1 DEF SetPrevious, Goto
  <2>3. following = IF n + 1 < Len(q) THEN q[n + 2] ELSE Nil
    BY <1>3, <1>6, <2>1 DEF WholeAt, ListAt, Linked, Closed
  <2>4. following \in Refs /\ e \in Refs
    BY <1>2, <2>1 DEF Refs
  <2>5. \A i \in 1..Len(q) : q[i] = e => i = n + 1
    BY <1>6, <2>1 DEF Distinct
  <2> HIDE DEF e, following
  <2>6. /\ local' \in LocalTypes /\ local'.tail = e /\ local'.current = following
        /\ local'.result = local.result
    BY <1>2, <2>2, <2>4 DEF LocalTypes
  <2>7. TypeInv'
    <3>1. previous' \in [Entities -> Refs]
      BY <1>2, <2>2
    <3> QED
      BY <1>1, <1>2, <2>2, <2>6, <3>1 DEF TypeInv, Blocks
  <2>8. BackTo(previous', q, n + 1)
    <3> SUFFICES ASSUME NEW i \in 1..n + 1
                 PROVE  previous'[q[i]] = IF i = 1 THEN Nil ELSE q[i - 1]
      BY DEF BackTo
    <3>1. i \in 1..Len(q)
      BY <1>6, <2>1
    <3>2. CASE i = n + 1
      <4>1. q[i] = e /\ previous'[e] = local.tail
        BY <1>2, <2>1, <2>2, <3>2 DEF e
      <4>2. local.tail = IF i = 1 THEN Nil ELSE q[i - 1]
        BY <1>4, <3>2
      <4> QED
        BY <4>1, <4>2
    <3>3. CASE i # n + 1
      <4>1. i \in 1..n /\ q[i] # e /\ q[i] \in Entities
        BY <1>6, <2>5, <3>1, <3>3
      <4> QED
        BY <1>2, <1>4, <2>2, <4>1 DEF BackTo
    <3> QED
      BY <3>2, <3>3
  <2>9. PreviousAt(previous', local', q)
    <3>1. n + 1 \in 0..Len(q) /\ n + 1 # 0 /\ (n + 1) + 1 = n + 2
      BY <2>1
    <3>2. local'.current = IF n + 1 < Len(q) THEN q[(n + 1) + 1] ELSE Nil
      BY <2>3, <2>6, <3>1
    <3>3. local'.tail = IF n + 1 = 0 THEN Nil ELSE q[n + 1]
      BY <2>6, <3>1 DEF e
    <3> QED
      BY <2>8, <3>1, <3>2, <3>3 DEF PreviousAt
  <2> QED
    BY <1>1, <1>3, <1>5, <2>2, <2>6, <2>7, <2>9, IntoWhole
<1>9. CASE ~Valid(local.current)
  <2>1. block' = "returned" /\ local' = local /\ UNCHANGED previous
    BY <1>9 DEF SetPrevious, Goto
  <2>2. TypeInv'
    BY <1>1, <1>2, <2>1 DEF TypeInv, Blocks
  <2>3. n = Len(q)
    BY <1>4, <1>6, <1>7, <1>9
  <2> QED
    BY <1>1, <1>3, <1>4, <1>5, <2>1, <2>2, <2>3, IntoWhole
<1> QED
  BY <1>8, <1>9

LEMMA NextListInv == EntitiesFromZero /\ ListInv /\ [ListNext]_listVars => ListInv'
<1> SUFFICES ASSUME EntitiesFromZero, ListInv, [ListNext]_listVars PROVE ListInv'
  OBVIOUS
<1>1. CASE ListPass
  BY <1>1, PassInv
<1>2. CASE Outer
  BY <1>2, OuterStep
<1>3. CASE SplitLeft
  BY <1>3, SplitLeftStep
<1>4. CASE SplitRight
  BY <1>4, SplitRightStep
<1>5. CASE Merge
  BY <1>5, MergeStep
<1>6. CASE Finish
  BY <1>6, FinishStep
<1>7. CASE ListDone
  BY <1>7, DoneStep
<1>8. CASE SetPrevious
  BY <1>8, SetPreviousStep
<1>9. CASE UNCHANGED listVars
  BY <1>9 DEF listVars, ListInv, TypeInv, WholeInv, OuterInv, LeftInv, RightInv, MergeInv, Members
<1> QED
  BY <1>1, <1>2, <1>3, <1>4, <1>5, <1>6, <1>7, <1>8, <1>9 DEF ListNext

(***************************************************************************)
(* The inductive invariant holds of every execution.                       *)
(***************************************************************************)
THEOREM ListInvariant == ListSpec => []ListInv
<1>1. ListInit => ListInv
  BY InitListInv, LinkedSortAssumption
<1>2. ListInv /\ [ListNext]_listVars => ListInv'
  BY NextListInv, LinkedSortAssumption
<1> QED
  BY <1>1, <1>2, PTL DEF ListSpec

-----------------------------------------------------------------------------
(***************************************************************************)
(* Reading the list.  The recursive function of ChainTo is the unique      *)
(* solution of its equation, and that is what the links run through.       *)
(***************************************************************************)
LEMMA LeastNumber ==
  ASSUME NEW T, T \subseteq Nat, T # {}
  PROVE  \E n \in T : \A m \in T : n <= m
<1> DEFINE LessThan == {pair \in Nat \X Nat : pair[1] < pair[2]}
<1>1. IsWellFoundedOn(LessThan, Nat)
  BY NatLessThanWellFounded DEF OpToRel
<1>2. \A x, y \in Nat : <<y, x>> \in LessThan <=> y < x
  OBVIOUS
<1> HIDE DEF LessThan
<1>3. PICK n \in T : \A m \in T : ~(<<m, n>> \in LessThan)
  BY <1>1, WFMin
<1>4. ASSUME NEW m \in T PROVE n <= m
  <2>1. m \in Nat /\ n \in Nat
    OBVIOUS
  <2>2. ~(m < n)
    BY <1>2, <1>3, <2>1
  <2> QED
    BY <2>1, <2>2
<1> QED
  BY <1>4

Longer(links, ref, last, chain) ==
  LET end == chain[Len(chain)]
      reached == IF chain = <<>> THEN ref ELSE IF end = last THEN Nil ELSE links[end]
  IN IF Valid(reached) THEN Append(chain, reached) ELSE chain
WalkStep(links, ref, last, f, n) == IF n = 0 THEN <<>> ELSE Longer(links, ref, last, f[n - 1])

\* The first n of q, as far as there are so many.
FirstOf(q, n) == SubSeq(q, 1, IF n <= Len(q) THEN n ELSE Len(q))

LEMMA OneLonger ==
  ASSUME NEW links, NEW ref, NEW last, NEW q \in Seq(Nat), Distinct(q), Linked(links, ref, q),
         IF q = <<>> \/ last # LastOf(q) THEN last = Nil /\ Closed(links, q) ELSE TRUE,
         NEW n \in Nat, n # 0
  PROVE  FirstOf(q, n) = Longer(links, ref, last, FirstOf(q, n - 1))
<1> DEFINE before == FirstOf(q, n - 1)
           after == FirstOf(q, n)
<1>1. Len(q) \in Nat /\ (q = <<>> <=> Len(q) = 0) /\ \A i \in 1..Len(q) : q[i] \in Nat
  BY ElemsIn
<1>2. ASSUME NEW k \in 0..Len(q)
      PROVE  /\ SubSeq(q, 1, k) \in Seq(Nat) /\ Len(SubSeq(q, 1, k)) = k
             /\ \A i \in 1..k : SubSeq(q, 1, k)[i] = q[i]
  BY <1>1, SubSeqProperties
<1>3. CASE n <= Len(q)
  <2>1. /\ before \in Seq(Nat) /\ Len(before) = n - 1 /\ \A i \in 1..n - 1 : before[i] = q[i]
        /\ after \in Seq(Nat) /\ Len(after) = n /\ \A i \in 1..n : after[i] = q[i]
    <3>1. before = SubSeq(q, 1, n - 1) /\ after = SubSeq(q, 1, n)
      BY <1>1, <1>3 DEF FirstOf
    <3>2. n - 1 \in 0..Len(q) /\ n \in 0..Len(q)
      BY <1>1, <1>3
    <3> QED
      BY <1>2, <3>1, <3>2
  <2>2. q[n] \in Nat /\ q # <<>> /\ n \in 1..Len(q)
    BY <1>1, <1>3
  <2> HIDE DEF before, after
  <2>3. after = Append(before, q[n])
    <3>1. /\ Append(before, q[n]) \in Seq(Nat) /\ Len(Append(before, q[n])) = n
          /\ \A i \in 1..n - 1 : Append(before, q[n])[i] = q[i]
          /\ Append(before, q[n])[n] = q[n]
      BY <2>1, <2>2, AppendProperties
    <3>2. \A i \in 1..n : Append(before, q[n])[i] = after[i]
      <4>1. \A i \in 1..n : i \in 1..n - 1 \/ i = n
        OBVIOUS
      <4> QED
        BY <2>1, <3>1, <4>1
    <3> QED
      BY <2>1, <3>1, <3>2, SeqEqual
  <2>4. CASE n = 1
    <3>1. before = <<>> /\ ref = q[1]
      BY <1>1, <2>1, <2>2, <2>4, EmptySeq DEF Linked
    <3> QED
      BY <2>2, <2>3, <2>4, <3>1 DEF Longer, Valid, before, after
  <2>5. CASE n # 1
    <3>1. n - 1 \in 1..Len(q) - 1 /\ n - 1 \in 1..Len(q) /\ n - 1 # Len(q) /\ (n - 1) + 1 = n
      BY <1>1, <1>3, <2>5
    <3>2. before # <<>> /\ before[Len(before)] = q[n - 1]
      BY <2>1, <3>1, EmptySeq
    <3>3. links[q[n - 1]] = q[n]
      BY <3>1 DEF Linked
    <3>4. q[n - 1] # last
      <4>1. q[n - 1] # LastOf(q)
        BY <1>1, <2>2, <3>1 DEF LastOf, Distinct
      <4>2. q[n - 1] # Nil
        BY <1>1, <3>1 DEF Nil
      <4> QED
        BY <4>1, <4>2
    <3> QED
      BY <2>2, <2>3, <3>2, <3>3, <3>4 DEF Longer, Valid, before, after
  <2> QED
    BY <2>4, <2>5
<1>4. CASE ~(n <= Len(q))
  <2>1. after = before /\ before \in Seq(Nat) /\ Len(before) = Len(q)
        /\ \A i \in 1..Len(q) : before[i] = q[i]
    <3>1. before = SubSeq(q, 1, Len(q)) /\ after = SubSeq(q, 1, Len(q))
      BY <1>1, <1>4 DEF FirstOf
    <3>2. Len(q) \in 0..Len(q)
      BY <1>1
    <3> QED
      BY <1>2, <3>1, <3>2
  <2> HIDE DEF before, after
  <2>2. CASE q = <<>>
    <3>1. before = <<>> /\ ref = Nil
      BY <1>1, <2>1, <2>2, EmptySeq DEF Linked
    <3> QED
      BY <2>1, <3>1 DEF Longer, Valid, Nil, before, after
  <2>3. CASE q # <<>>
    <3>1. before # <<>> /\ before[Len(before)] = LastOf(q) /\ LastOf(q) = q[Len(q)]
      BY <1>1, <2>1, <2>3, EmptySeq DEF LastOf
    <3>2. LastOf(q) = last \/ links[LastOf(q)] = Nil
      BY <2>3, <3>1 DEF Closed
    <3> QED
      BY <2>1, <3>1, <3>2 DEF Longer, Valid, Nil, before, after
  <2> QED
    BY <2>2, <2>3
<1> QED
  BY <1>3, <1>4

\* What runs from ref to last, or from ref to the end, is what ChainTo reads.
LEMMA ChainIs ==
  ASSUME EntitiesFromZero, NEW ref, NEW last, NEW q \in Seq(Entities), Distinct(q),
         Linked(next, ref, q),
         IF q = <<>> \/ last # LastOf(q) THEN last = Nil /\ Closed(next, q) ELSE TRUE
  PROVE  ChainTo(ref, last) = q
<1> DEFINE K == Cardinality(Entities)
           F == [n \in 0..K |-> FirstOf(q, n)]
           Solves(f) == f = [n \in 0..K |-> WalkStep(next, ref, last, f, n)]
<1>1. K \in Nat /\ Entities \subseteq Nat
  BY FS_CardinalityType DEF EntitiesFromZero
<1>2. q \in Seq(Nat) /\ Len(q) \in Nat
  BY <1>1, SeqMonotonic, ElemsIn
<1>3. Len(q) <= K
  <2> SUFFICES ASSUME K < Len(q) PROVE FALSE
    BY <1>1, <1>2
  <2>1. IsFiniteSet(1..Len(q)) /\ Cardinality(1..Len(q)) = Len(q)
    <3>1. 1 \in Int /\ Len(q) \in Int /\ ~(1 > Len(q)) /\ Len(q) - 1 + 1 = Len(q)
      BY <1>1, <1>2
    <3> QED
      BY <3>1, FS_Interval
  <2>2. q \in [1..Len(q) -> Entities]
    BY LenProperties
  <2>3. \E i, j \in 1..Len(q) : i # j /\ q[i] = q[j]
    BY <2>1, <2>2, FS_PigeonHole DEF EntitiesFromZero
  <2> QED
    BY <2>3 DEF Distinct
<1>4. FirstOf(q, 0) = <<>> /\ FirstOf(q, K) = q
  <2>1. FirstOf(q, 0) = SubSeq(q, 1, 0) /\ FirstOf(q, K) = SubSeq(q, 1, Len(q))
    BY <1>1, <1>2, <1>3 DEF FirstOf
  <2>2. SubSeq(q, 1, 0) = <<>>
    BY <1>2, SubSeqEmpty
  <2>3. SubSeq(q, 1, Len(q)) = q
    BY <1>2, SubSeqFull
  <2> QED
    BY <2>1, <2>2, <2>3
<1>5. Solves(F)
  <2>1. ASSUME NEW n \in 0..K PROVE F[n] = WalkStep(next, ref, last, F, n)
    <3>1. CASE n = 0
      BY <1>4, <3>1 DEF WalkStep
    <3>2. CASE n # 0
      <4>1. n \in Nat /\ n - 1 \in 0..K /\ F[n] = FirstOf(q, n) /\ F[n - 1] = FirstOf(q, n - 1)
        BY <1>1, <3>2
      <4>2. FirstOf(q, n) = Longer(next, ref, last, FirstOf(q, n - 1))
        BY <1>2, <3>2, <4>1, OneLonger
      <4> QED
        BY <3>2, <4>1, <4>2 DEF WalkStep
    <3> QED
      BY <3>1, <3>2
  <2>2. F = [n \in 0..K |-> F[n]]
    OBVIOUS
  <2> HIDE DEF F
  <2> QED
    BY <2>1, <2>2
<1>6. ASSUME NEW f, Solves(f) PROVE f[K] = F[K]
  <2> DEFINE T == {n \in 0..K : f[n] # F[n]}
  <2>1. \A n \in 0..K : f[n] = WalkStep(next, ref, last, f, n) /\ F[n] = WalkStep(next, ref, last, F, n)
    BY <1>5, <1>6
  <2> HIDE DEF F
  <2>2. T = {}
    <3> SUFFICES ASSUME T # {} PROVE FALSE
      OBVIOUS
    <3>1. T \subseteq Nat
      OBVIOUS
    <3>2. PICK n \in T : \A m \in T : n <= m
      BY <3>1, LeastNumber
    <3>3. n \in 0..K /\ f[n] # F[n]
      OBVIOUS
    <3>4. n # 0
      BY <2>1, <3>3 DEF WalkStep
    <3>5. n - 1 \in 0..K /\ n - 1 \notin T
      BY <1>1, <3>2, <3>3, <3>4
    <3>6. f[n - 1] = F[n - 1]
      BY <3>5
    <3> QED
      BY <2>1, <3>3, <3>4, <3>6 DEF WalkStep
  <2>3. K \in 0..K
    BY <1>1
  <2> QED
    BY <2>2, <2>3
<1>7. ChainTo(ref, last) = (CHOOSE f : Solves(f))[K]
  BY DEF ChainTo, WalkStep, Longer
<1>8. Solves(CHOOSE f : Solves(f))
  BY <1>5
<1>9. F[K] = q
  BY <1>1, <1>4
<1> HIDE DEF F, Solves, K
<1> QED
  BY <1>6, <1>7, <1>8, <1>9

LEMMA ListRead ==
  ASSUME EntitiesFromZero, TypeInv, NEW ref, NEW q \in Seq(Members), Distinct(q), ListAt(next, ref, q)
  PROVE  ChainFrom(ref) = q
<1>1. q \in Seq(Entities)
  BY Typed, SeqMonotonic
<1>2. Linked(next, ref, q) /\ Closed(next, q)
  BY DEF ListAt
<1> QED
  BY <1>1, <1>2, ChainIs DEF ChainFrom

LEMMA MergedRead ==
  ASSUME EntitiesFromZero, TypeInv, NEW m \in Seq(Members), Distinct(m), MergedAt(next, local, m)
  PROVE  Merged = m
<1>1. m \in Seq(Entities)
  BY Typed, SeqMonotonic
<1>2. Linked(next, local.newHead, m) /\ local.tail = LastOf(m)
  BY DEF MergedAt
<1>3. CASE m = <<>>
  BY <1>2, <1>3, OfNone, Typed DEF Merged
<1>4. CASE m # <<>>
  <2>1. LastOf(m) \in Entities
    BY <1>1, <1>4, ElemsIn DEF LastOf
  <2>2. Valid(local.tail)
    BY <1>2, <2>1, Typed
  <2>3. ChainTo(local.newHead, local.tail) = m
    BY <1>1, <1>2, <1>4, ChainIs
  <2> QED
    BY <2>2, <2>3 DEF Merged
<1> QED
  BY <1>3, <1>4

LEMMA OfConcat ==
  ASSUME NEW S, NEW p \in Seq(S), NEW q \in Seq(S), Distinct(p), Distinct(q), Elems(p) \cap Elems(q) = {}
  PROVE  p \o q \in Seq(S) /\ Distinct(p \o q) /\ Elems(p \o q) = Elems(p) \cup Elems(q)
<1> DEFINE pq == p \o q
<1>1. /\ pq \in Seq(S) /\ Len(pq) = Len(p) + Len(q) /\ Len(p) \in Nat /\ Len(q) \in Nat
      /\ \A i \in 1..Len(p) + Len(q) : pq[i] = IF i <= Len(p) THEN p[i] ELSE q[i - Len(p)]
  BY ConcatProperties, ElemsIn
<1> HIDE DEF pq
<1>2. \A i \in 1..Len(pq) :
        \/ i \in 1..Len(p) /\ pq[i] = p[i]
        \/ i - Len(p) \in 1..Len(q) /\ pq[i] = q[i - Len(p)]
  BY <1>1
<1>3. Distinct(pq)
  <2> SUFFICES ASSUME NEW i \in 1..Len(pq), NEW j \in 1..Len(pq), pq[i] = pq[j] PROVE i = j
    BY DEF Distinct
  <2>1. i \in Nat /\ j \in Nat
    BY <1>1
  <2>2. CASE i \in 1..Len(p) /\ pq[i] = p[i] /\ j \in 1..Len(p) /\ pq[j] = p[j]
    BY <2>2 DEF Distinct
  <2>3. CASE /\ i - Len(p) \in 1..Len(q) /\ pq[i] = q[i - Len(p)]
             /\ j - Len(p) \in 1..Len(q) /\ pq[j] = q[j - Len(p)]
    <3>1. i - Len(p) = j - Len(p)
      BY <2>3 DEF Distinct
    <3> QED
      BY <1>1, <2>1, <3>1
  <2>4. CASE \/ /\ i \in 1..Len(p) /\ pq[i] = p[i]
                /\ j - Len(p) \in 1..Len(q) /\ pq[j] = q[j - Len(p)]
             \/ /\ j \in 1..Len(p) /\ pq[j] = p[j]
                /\ i - Len(p) \in 1..Len(q) /\ pq[i] = q[i - Len(p)]
    BY <2>4 DEF Elems
  <2> QED
    BY <1>2, <2>2, <2>3, <2>4
<1>4. Elems(pq) \subseteq Elems(p) \cup Elems(q)
  BY <1>2 DEF Elems
<1>5. Elems(p) \cup Elems(q) \subseteq Elems(pq)
  <2>1. \A i \in 1..Len(p) : i \in 1..Len(pq) /\ pq[i] = p[i]
    BY <1>1
  <2>2. ASSUME NEW i \in 1..Len(q) PROVE i + Len(p) \in 1..Len(pq) /\ pq[i + Len(p)] = q[i]
    <3>1. i + Len(p) \in 1..Len(p) + Len(q) /\ ~(i + Len(p) <= Len(p)) /\ (i + Len(p)) - Len(p) = i
      BY <1>1
    <3> QED
      BY <1>1, <3>1
  <2> QED
    BY <2>1, <2>2 DEF Elems
<1> QED
  BY <1>1, <1>3, <1>4, <1>5 DEF pq

InOne(m, l, r, c) == ((m \o l) \o r) \o c

\* Sequences that share out the entities, one after the other, are all of them.
LEMMA SharedInOne ==
  ASSUME NEW E, NEW m, NEW l, NEW r, NEW c, Shares(E, m, l, r, c)
  PROVE  IsInjective(InOne(m, l, r, c)) /\ ToSet(InOne(m, l, r, c)) = E
<1>1. /\ m \in Seq(E) /\ l \in Seq(E) /\ r \in Seq(E) /\ c \in Seq(E)
      /\ Distinct(m) /\ Distinct(l) /\ Distinct(r) /\ Distinct(c)
      /\ Elems(m) \cap Elems(l) = {} /\ (Elems(m) \cup Elems(l)) \cap Elems(r) = {}
      /\ ((Elems(m) \cup Elems(l)) \cup Elems(r)) \cap Elems(c) = {}
      /\ ((Elems(m) \cup Elems(l)) \cup Elems(r)) \cup Elems(c) = E
  BY DEF Shares
<1> DEFINE two == m \o l
           three == two \o r
           all == InOne(m, l, r, c)
<1>2. all = three \o c
  BY DEF InOne
<1> HIDE DEF all
<1>3. two \in Seq(E) /\ Distinct(two) /\ Elems(two) = Elems(m) \cup Elems(l)
  BY <1>1, OfConcat
<1> HIDE DEF two
<1>4. three \in Seq(E) /\ Distinct(three) /\ Elems(three) = Elems(two) \cup Elems(r)
  BY <1>1, <1>3, OfConcat
<1> HIDE DEF three
<1>5. all \in Seq(E) /\ Distinct(all) /\ Elems(all) = Elems(three) \cup Elems(c)
  BY <1>1, <1>2, <1>3, <1>4, OfConcat
<1>6. Elems(all) = E
  BY <1>1, <1>3, <1>4, <1>5
<1>7. DOMAIN all = 1..Len(all)
  BY <1>5, LenProperties
<1> QED
  <2>1. IsInjective(all) /\ ToSet(all) = E
    BY <1>5, <1>6, <1>7 DEF IsInjective, ToSet, Distinct, Elems
  <2> QED
    BY <2>1 DEF all

LEMMA HeldInFull == ASSUME EntitiesFromZero, ListInv PROVE NothingLost
<1>1. TypeInv /\ block \in Blocks
  BY DEF ListInv, TypeInv
<1>2. ASSUME NEW q \in Seq(Members) PROVE q \o <<>> = q /\ <<>> \o q = q
  BY ConcatEmptySeq
<1>3. CASE block \in {"pass", "done", "previous", "returned"}
  <2>1. PICK q \in Seq(Members) : WholeAt(Members, next, local.result, q)
    BY <1>3 DEF ListInv, WholeInv
  <2>2. Shares(Members, q, <<>>, <<>>, <<>>) /\ Distinct(q) /\ ListAt(next, local.result, q)
    BY <2>1 DEF WholeAt, Shares
  <2>3. Held = q
    BY <1>1, <1>3, <2>2, ListRead DEF Held
  <2>4. Held = InOne(q, <<>>, <<>>, <<>>)
    BY <1>2, <2>3 DEF InOne
  <2> QED
    <3>1. IsInjective(Held) /\ ToSet(Held) = Members
      BY <2>2, <2>4, SharedInOne
    <3> QED
      BY <3>1 DEF NothingLost
<1>4. CASE block \in {"outer", "finish"}
  <2>1. PICK m \in Seq(Members) : \E c \in Seq(Members) : OuterAt(Members, less, next, local, m, c)
    BY <1>4 DEF ListInv, OuterInv
  <2>2. PICK c \in Seq(Members) : OuterAt(Members, less, next, local, m, c)
    BY <2>1
  <2>3. /\ Shares(Members, m, <<>>, <<>>, c) /\ Distinct(m) /\ Distinct(c)
        /\ MergedAt(next, local, m) /\ ListAt(next, local.current, c)
    BY <2>2 DEF OuterAt, Shares
  <2>4. Held = m \o c
    BY <1>1, <1>4, <2>3, ListRead, MergedRead DEF Held
  <2>5. Held = InOne(m, <<>>, <<>>, c)
    BY <1>2, <2>4 DEF InOne
  <2> QED
    <3>1. IsInjective(Held) /\ ToSet(Held) = Members
      BY <2>3, <2>5, SharedInOne
    <3> QED
      BY <3>1 DEF NothingLost
<1>5. CASE block = "left"
  <2>1. PICK m \in Seq(Members) : \E c \in Seq(Members) : LeftAt(Members, less, next, local, m, c)
    BY <1>5 DEF ListInv, LeftInv
  <2>2. PICK c \in Seq(Members) : LeftAt(Members, less, next, local, m, c)
    BY <2>1
  <2>3. /\ Shares(Members, m, <<>>, <<>>, c) /\ Distinct(m) /\ Distinct(c)
        /\ MergedAt(next, local, m) /\ ListAt(next, local.left, c)
    BY <2>2 DEF LeftAt, Shares
  <2>4. Held = m \o c
    BY <1>1, <1>5, <2>3, ListRead, MergedRead DEF Held
  <2>5. Held = InOne(m, <<>>, <<>>, c)
    BY <1>2, <2>4 DEF InOne
  <2> QED
    <3>1. IsInjective(Held) /\ ToSet(Held) = Members
      BY <2>3, <2>5, SharedInOne
    <3> QED
      BY <3>1 DEF NothingLost
<1>6. CASE block = "right"
  <2>1. PICK m \in Seq(Members) :
          \E l, c \in Seq(Members) : RightAt(Members, less, next, local, m, l, c)
    BY <1>6 DEF ListInv, RightInv
  <2>2. PICK l \in Seq(Members) : \E c \in Seq(Members) : RightAt(Members, less, next, local, m, l, c)
    BY <2>1
  <2>3. PICK c \in Seq(Members) : RightAt(Members, less, next, local, m, l, c)
    BY <2>2
  <2>4. /\ Shares(Members, m, l, <<>>, c) /\ Distinct(m) /\ Distinct(l) /\ Distinct(c)
        /\ Elems(m) \cap Elems(l) = {}
        /\ MergedAt(next, local, m) /\ ListAt(next, local.left, l) /\ ListAt(next, local.right, c)
    BY <2>3 DEF RightAt, Shares
  <2>5. Held = (m \o l) \o c
    BY <1>1, <1>6, <2>4, ListRead, MergedRead DEF Held
  <2>6. m \o l \in Seq(Members)
    BY <2>4, OfConcat
  <2>7. Held = InOne(m, l, <<>>, c)
    BY <1>2, <2>5, <2>6 DEF InOne
  <2> QED
    <3>1. IsInjective(Held) /\ ToSet(Held) = Members
      BY <2>4, <2>7, SharedInOne
    <3> QED
      BY <3>1 DEF NothingLost
<1>7. CASE block = "merge"
  <2>1. PICK m \in Seq(Members) :
          \E l, r, c \in Seq(Members) : \E f \in Nat : MergeAt(Members, less, next, local, f, m, l, r, c)
    BY <1>7 DEF ListInv, MergeInv
  <2>2. PICK l \in Seq(Members) :
          \E r, c \in Seq(Members) : \E f \in Nat : MergeAt(Members, less, next, local, f, m, l, r, c)
    BY <2>1
  <2>3. PICK r \in Seq(Members) :
          \E c \in Seq(Members) : \E f \in Nat : MergeAt(Members, less, next, local, f, m, l, r, c)
    BY <2>2
  <2>4. PICK c \in Seq(Members) : \E f \in Nat : MergeAt(Members, less, next, local, f, m, l, r, c)
    BY <2>3
  <2>5. /\ Shares(Members, m, l, r, c) /\ Distinct(m) /\ Distinct(l) /\ Distinct(r) /\ Distinct(c)
        /\ MergedAt(next, local, m) /\ ListAt(next, local.left, l) /\ ListAt(next, local.right, r)
        /\ ListAt(next, local.rest, c)
    BY <2>4 DEF MergeAt, MergeShape, Shares
  <2>6. Held = InOne(m, l, r, c)
    BY <1>1, <1>7, <2>5, ListRead, MergedRead DEF Held, InOne
  <2> QED
    <3>1. IsInjective(Held) /\ ToSet(Held) = Members
      BY <2>5, <2>6, SharedInOne
    <3> QED
      BY <3>1 DEF NothingLost
<1> QED
  BY <1>1, <1>3, <1>4, <1>5, <1>6, <1>7 DEF Blocks

(***************************************************************************)
(* Whatever the comparator answers, every block of the emitted code holds  *)
(* the whole list, every entity of it once.                                *)
(***************************************************************************)
THEOREM NeverLost == ListSpec => []NothingLost
<1>1. ListInv => NothingLost
  BY HeldInFull, LinkedSortAssumption
<1> QED
  BY <1>1, ListInvariant, PTL

LEMMA ReturnsSorted == ASSUME EntitiesFromZero, ListInv PROVE SortedBothWays
<1> SUFFICES ASSUME block = "returned" PROVE SortedBothWays
  BY DEF SortedBothWays
<1>1. TypeInv /\ Members \in SUBSET Nat
  BY Typed DEF ListInv
<1>2. PICK q \in Seq(Members) :
        /\ WholeAt(Members, next, local.result, q)
        /\ Weak(Members, less) => Ordered(less, q)
        /\ doubly => BackTo(previous, q, Len(q))
  BY DEF ListInv, WholeInv
<1>3. Distinct(q) /\ ListAt(next, local.result, q)
  BY <1>2 DEF WholeAt, Shares
<1>4. ChainFrom(local.result) = q /\ DOMAIN q = 1..Len(q)
  BY <1>1, <1>3, ListRead, LenProperties
<1>5. WeakOrder => \A i, j \in DOMAIN q : i < j =>
        <<q[j], q[i]>> \notin less /\ (<<q[i], q[j]>> \notin less => q[i] < q[j])
  BY <1>2, <1>4 DEF WeakOrder, Weak, Ordered, Precedes
<1>6. doubly => \A i \in DOMAIN q : previous[q[i]] = IF i = 1 THEN Nil ELSE q[i - 1]
  BY <1>2, <1>4 DEF BackTo
<1> QED
  BY <1>4, <1>5, <1>6 DEF SortedBothWays

(***************************************************************************)
(* What is returned is in the order of a strict weak order, equal entities *)
(* as they were, and the previous links run through it backwards.          *)
(***************************************************************************)
THEOREM Sorts == ListSpec => []SortedBothWays
<1>1. ListInv => SortedBothWays
  BY ReturnsSorted, LinkedSortAssumption
<1> QED
  BY <1>1, ListInvariant, PTL

\* The entity whose link a step writes is one of the list.
LEMMA WritesList ==
  ASSUME EntitiesFromZero, ListInv, [ListNext]_listVars
  PROVE  /\ \A e \in Entities \ Members : next'[e] = next[e] /\ previous'[e] = previous[e]
         /\ ~doubly => UNCHANGED previous
<1> DEFINE Kept == /\ \A e \in Entities \ Members : next'[e] = next[e] /\ previous'[e] = previous[e]
                   /\ ~doubly => UNCHANGED previous
<1> SUFFICES Kept
  OBVIOUS
<1>1. TypeInv /\ next \in [Entities -> Refs] /\ previous \in [Entities -> Refs]
  BY DEF ListInv, TypeInv
<1>2. ASSUME OnlyLocals PROVE Kept
  BY <1>2 DEF OnlyLocals
<1>3. ASSUME NEW e \in Members, NEW v, SetNext(e, v) PROVE Kept
  BY <1>1, <1>3 DEF SetNext
<1> HIDE DEF Kept
<1>4. ASSUME NEW c \in Seq(Members), Walking(local, c) PROVE local.end \in Members
  BY <1>4, ElemsIn DEF Walking
<1>5. ASSUME NEW m \in Seq(Members), MergedAt(next, local, m), Valid(local.tail)
      PROVE  local.tail \in Members
  <2>1. m # <<>>
    BY <1>1, <1>5, OfNone, Typed DEF MergedAt
  <2> QED
    BY <1>5, <2>1, ElemsIn DEF MergedAt, LastOf
<1>6. CASE ListPass \/ Outer \/ ListDone
  BY <1>2, <1>6 DEF ListPass, Outer, ListDone
<1>7. CASE SplitLeft
  <2>1. PICK m \in Seq(Members) : \E c \in Seq(Members) : LeftAt(Members, less, next, local, m, c)
    BY <1>7 DEF SplitLeft, ListInv, LeftInv
  <2>2. local.end \in Members
    BY <1>4, <2>1 DEF LeftAt
  <2>3. OnlyLocals \/ SetNext(local.end, Nil)
    BY <1>7 DEF SplitLeft
  <2> QED
    BY <1>2, <1>3, <2>2, <2>3
<1>8. CASE SplitRight
  <2>1. PICK m \in Seq(Members) :
          \E l, c \in Seq(Members) : RightAt(Members, less, next, local, m, l, c)
    BY <1>8 DEF SplitRight, ListInv, RightInv
  <2>2. local.end \in Members
    BY <1>4, <2>1 DEF RightAt
  <2>3. OnlyLocals \/ SetNext(local.end, Nil)
    BY <1>8 DEF SplitRight
  <2> QED
    BY <1>2, <1>3, <2>2, <2>3
<1>9. CASE Merge
  <2>1. PICK m \in Seq(Members) :
          \E l, r, c \in Seq(Members) : \E f \in Nat : MergeAt(Members, less, next, local, f, m, l, r, c)
    BY <1>9 DEF Merge, ListInv, MergeInv
  <2>2. Valid(local.tail) => local.tail \in Members
    BY <1>5, <2>1 DEF MergeAt, MergeShape
  <2>3. IF Valid(local.tail) THEN \E v : SetNext(local.tail, v) ELSE OnlyLocals
    BY <1>9 DEF Merge, Appended
  <2> QED
    BY <1>2, <1>3, <2>2, <2>3
<1>10. CASE Finish
  <2>1. PICK m \in Seq(Members) : \E c \in Seq(Members) : OuterAt(Members, less, next, local, m, c)
    BY <1>10 DEF Finish, ListInv, OuterInv
  <2>2. Valid(local.tail) => local.tail \in Members
    BY <1>5, <2>1 DEF OuterAt
  <2>3. IF Valid(local.tail) THEN SetNext(local.tail, Nil) ELSE OnlyLocals
    BY <1>10 DEF Finish
  <2> QED
    BY <1>2, <1>3, <2>2, <2>3
<1>11. CASE SetPrevious
  <2>1. /\ block = "previous" /\ UNCHANGED <<next, doubly>>
        /\ IF Valid(local.current) THEN previous' = [previous EXCEPT ![local.current] = local.tail]
                                   ELSE UNCHANGED previous
    BY <1>11 DEF SetPrevious
  <2>2. PICK q \in Seq(Members) : doubly /\ PreviousAt(previous, local, q)
    BY <2>1 DEF ListInv, WholeInv
  <2>3. Valid(local.current) => local.current \in Members
    <3>1. PICK n \in 0..Len(q) : local.current = IF n < Len(q) THEN q[n + 1] ELSE Nil
      BY <2>2 DEF PreviousAt
    <3>2. Len(q) \in Nat /\ \A i \in 1..Len(q) : q[i] \in Members
      BY ElemsIn
    <3>3. n < Len(q) => n + 1 \in 1..Len(q)
      BY <3>2
    <3> QED
      BY <1>1, <3>1, <3>2, <3>3, Typed
  <2> QED
    BY <1>1, <2>1, <2>2, <2>3 DEF Kept
<1>12. CASE UNCHANGED listVars
  BY <1>12 DEF listVars, Kept
<1> QED
  BY <1>6, <1>7, <1>8, <1>9, <1>10, <1>11, <1>12 DEF ListNext

(***************************************************************************)
(* Links of an entity outside the list are never written, and previous     *)
(* links only when there is a setter for them.                             *)
(***************************************************************************)
THEOREM OthersUntouched == ListSpec => OnlyListWritten
<1>1. ListInv /\ [ListNext]_listVars =>
        [/\ \A e \in Entities \ Members : next'[e] = next[e] /\ previous'[e] = previous[e]
         /\ ~doubly => UNCHANGED previous]_listVars
  BY WritesList, LinkedSortAssumption
<1> QED
  BY <1>1, ListInvariant, PTL DEF ListSpec, OnlyListWritten
=============================================================================
