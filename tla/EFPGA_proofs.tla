------------------------------ MODULE EFPGA_proofs ------------------------------
(***************************************************************************)
(* Proofs about EFPGA, for a device of any size, functions of any shapes   *)
(* and any sequence of add, remove and search: every cell of the device is  *)
(* in exactly one block, that of a mapped function or a free one, and the   *)
(* device implements Fabric.                                               *)
(*                                                                         *)
(* The algorithms of AllocationTable are loops over lists, written as      *)
(* recursive functions.  Induction over the natural numbers comes from     *)
(* their order being well-founded; it gives each loop a history, the       *)
(* values of its variable before each pass, and that the recursive         *)
(* function follows it.  max_blocks goes on until a pass makes no new       *)
(* block: that it ends, and with blocks of free cells, is shown from the    *)
(* finite set of blocks that lie in none of its list, which each pass       *)
(* makes smaller.                                                          *)
(***************************************************************************)
EXTENDS EFPGA, FiniteSetTheorems, SequenceTheorems, WellFoundedInduction, TLAPS

-----------------------------------------------------------------------------
(* Induction, and the history of a loop *)

\* The order of the natural numbers, whose being well-founded is what induction rests on.
LessThan == { p \in Nat \X Nat : p[1] < p[2] }

\* Induction, for a set of numbers.
LEMMA Induction ==
    ASSUME NEW S, 0 \in S, \A n \in Nat : n \in S => n + 1 \in S
    PROVE  Nat \subseteq S
  <1>1. IsWellFoundedOn(LessThan, Nat)
    <2>1. LessThan = OpToRel(<, Nat)
      BY DEF LessThan, OpToRel
    <2> QED BY <2>1, NatLessThanWellFounded
  <1> DEFINE T == Nat \ S
  <1>2. SUFFICES ASSUME T # {} PROVE FALSE
    OBVIOUS
  <1>3. PICK x \in T : \A y \in T : ~(<<y, x>> \in LessThan)
    BY <1>1, <1>2, WFMin
  <1>4. x \in Nat /\ x - 1 \in Nat /\ x - 1 \in T
    BY <1>3
  <1>5. <<x - 1, x>> \in LessThan
    BY <1>4 DEF LessThan
  <1> QED BY <1>3, <1>4, <1>5

\* The same below a bound.
LEMMA InductionUpTo ==
    ASSUME NEW N \in Nat, NEW S, 0 \in S, \A n \in 0 .. N : n \in S /\ n < N => n + 1 \in S
    PROVE  0 .. N \subseteq S
  <1> DEFINE T == { n \in Nat : n <= N => n \in S }
  <1>1. 0 \in T /\ \A n \in Nat : n \in T => n + 1 \in T
    OBVIOUS
  <1>2. Nat \subseteq T
    BY <1>1, Induction
  <1> QED BY <1>2

\* A loop has a history, the values of its variable before each of its passes.
IsHistory(h, n, X, base, step) ==
    /\ h \in [0 .. n -> X] /\ h[0] = base
    /\ \A i \in 1 .. n : h[i] = step[i][h[i - 1]]

LEMMA HistoryUnique ==
    ASSUME NEW X, NEW base, NEW step, NEW m \in Nat, NEW n \in Nat, m <= n,
           NEW g, NEW h, IsHistory(g, m, X, base, step), IsHistory(h, n, X, base, step)
    PROVE  \A i \in 0 .. m : g[i] = h[i]
  <1> DEFINE S == { i \in 0 .. m : g[i] = h[i] }
  <1>1. 0 \in S
    BY DEF IsHistory
  <1>2. ASSUME NEW i \in 0 .. m, i \in S, i < m PROVE i + 1 \in S
    <2>1. i + 1 \in 1 .. m /\ i + 1 \in 1 .. n /\ (i + 1) - 1 = i
      BY <1>2
    <2> QED BY <1>2, <2>1 DEF IsHistory
  <1>3. 0 .. m \subseteq S
    BY <1>1, <1>2, InductionUpTo
  <1> QED BY <1>3

LEMMA HistoryExists ==
    ASSUME NEW X, NEW base \in X, NEW step \in [Nat -> [X -> X]], NEW n \in Nat
    PROVE  \E h : IsHistory(h, n, X, base, step)
  <1> DEFINE S == { k \in Nat : \E h : IsHistory(h, k, X, base, step) }
  <1>1. 0 \in S
    <2>1. IsHistory([i \in 0 .. 0 |-> base], 0, X, base, step)
      BY DEF IsHistory
    <2> QED BY <2>1
  <1>2. ASSUME NEW k \in Nat, k \in S PROVE k + 1 \in S
    <2>1. PICK h : IsHistory(h, k, X, base, step)
      BY <1>2
    <2> DEFINE g == [i \in 0 .. k + 1 |-> IF i <= k THEN h[i] ELSE step[k + 1][h[k]]]
    <2>2. h[k] \in X /\ step[k + 1][h[k]] \in X
      BY <2>1 DEF IsHistory
    <2>3. g \in [0 .. k + 1 -> X] /\ g[0] = base
      BY <2>1, <2>2 DEF IsHistory
    <2>4. ASSUME NEW i \in 1 .. k + 1 PROVE g[i] = step[i][g[i - 1]]
      <3>1. CASE i <= k
        <4>1. i \in 1 .. k /\ i - 1 \in 0 .. k /\ g[i] = h[i] /\ g[i - 1] = h[i - 1]
          BY <3>1
        <4> QED BY <2>1, <4>1 DEF IsHistory
      <3>2. CASE i = k + 1
        BY <3>2
      <3> QED BY <3>1, <3>2
    <2>5. IsHistory(g, k + 1, X, base, step)
      BY <2>3, <2>4 DEF IsHistory
    <2> QED BY <2>5
  <1>3. Nat \subseteq S
    BY <1>1, <1>2, Induction
  <1> QED BY <1>3

-----------------------------------------------------------------------------
(* Lists of blocks and the cells they have *)

\* The blocks that have cells.
Rects == { b \in Block : b.top <= b.bottom /\ b.left <= b.right }

Grid == Nat \X Nat

\* The cells of the blocks of a list, and that no cell is in two of them.
Covered(list) == UNION { Cells(list[i]) : i \in DOMAIN list }
Apart(list)   == \A i, j \in DOMAIN list : i # j => Cells(list[i]) \cap Cells(list[j]) = {}

\* The list consists of blocks that have each cell of C once, and no other.
Exact(list, C) == list \in Seq(Rects) /\ Apart(list) /\ Covered(list) = C

\* A cell is in a block if its row and column are.
LEMMA CellIn ==
    ASSUME NEW b \in Block
    PROVE  /\ Cells(b) \subseteq Grid
           /\ \A r, c \in Nat : <<r, c>> \in Cells(b) <=>
                 b.top <= r /\ r <= b.bottom /\ b.left <= c /\ c <= b.right
           /\ b.top \in Nat /\ b.left \in Nat /\ b.bottom \in Nat /\ b.right \in Nat
  <1>1. b.top \in Nat /\ b.left \in Nat /\ b.bottom \in Nat /\ b.right \in Nat
    BY DEF Block
  <1>2. Cells(b) \subseteq Grid
    BY <1>1 DEF Cells, Grid
  <1> QED BY <1>1, <1>2 DEF Cells

LEMMA CoveredHas ==
    ASSUME NEW list, NEW x
    PROVE  x \in Covered(list) <=> \E i \in DOMAIN list : x \in Cells(list[i])
  BY DEF Covered

LEMMA AppendExact ==
    ASSUME NEW list, NEW C, Exact(list, C), NEW b \in Rects, Cells(b) \cap C = {}
    PROVE  Exact(Append(list, b), C \cup Cells(b))
  <1> DEFINE l == Append(list, b)
             n == Len(list)
  <1>1. /\ list \in Seq(Rects) /\ l \in Seq(Rects) /\ n \in Nat
        /\ DOMAIN list = 1 .. n /\ DOMAIN l = 1 .. n + 1
        /\ \A i \in 1 .. n : l[i] = list[i]
        /\ l[n + 1] = b
    BY AppendProperties, LenProperties DEF Exact
  <1> HIDE DEF l, n
  <1>2. Apart(l)
    <2>1. SUFFICES ASSUME NEW i \in 1 .. n + 1, NEW j \in 1 .. n + 1, i # j
                   PROVE  Cells(l[i]) \cap Cells(l[j]) = {}
      BY <1>1 DEF Apart
    <2>2. CASE i <= n /\ j <= n
      <3>1. i \in 1 .. n /\ j \in 1 .. n
        BY <1>1, <2>2
      <3> QED BY <1>1, <2>1, <3>1 DEF Exact, Apart
    <2>3. CASE i = n + 1
      <3>1. j \in 1 .. n
        BY <1>1, <2>1, <2>3
      <3>2. Cells(list[j]) \subseteq C
        BY <1>1, <3>1 DEF Exact, Covered
      <3> QED BY <1>1, <2>3, <3>1, <3>2
    <2>4. CASE j = n + 1
      <3>1. i \in 1 .. n
        BY <1>1, <2>1, <2>4
      <3>2. Cells(list[i]) \subseteq C
        BY <1>1, <3>1 DEF Exact, Covered
      <3> QED BY <1>1, <2>4, <3>1, <3>2
    <2> QED BY <1>1, <2>2, <2>3, <2>4
  <1>3. Covered(l) = C \cup Cells(b)
    <2>1. \A x : x \in Covered(l) <=> x \in Covered(list) \/ x \in Cells(b)
      <3>1. 1 .. n + 1 = (1 .. n) \cup {n + 1}
        BY <1>1
      <3> QED BY <1>1, <3>1, CoveredHas
    <2> QED BY <2>1 DEF Exact
  <1> QED BY <1>1, <1>2, <1>3 DEF Exact, l

LEMMA EmptyExact == Exact(<<>>, {})
  BY DEF Exact, Apart, Covered

\* Two lists one behind the other.
LEMMA ConcatExact ==
    ASSUME NEW a, NEW A, NEW b, NEW B, Exact(a, A), Exact(b, B), A \cap B = {}
    PROVE  Exact(a \o b, A \cup B)
  <1> DEFINE l == a \o b
             m == Len(a)
             n == Len(b)
  <1>1. /\ a \in Seq(Rects) /\ b \in Seq(Rects) /\ l \in Seq(Rects) /\ m \in Nat /\ n \in Nat
        /\ DOMAIN a = 1 .. m /\ DOMAIN b = 1 .. n /\ DOMAIN l = 1 .. m + n
        /\ \A i \in 1 .. m + n : l[i] = IF i <= m THEN a[i] ELSE b[i - m]
    BY ConcatProperties, LenProperties DEF Exact
  <1> HIDE DEF l, m, n
  <1>2. \A i \in 1 .. m + n : \/ i \in 1 .. m /\ l[i] = a[i] /\ Cells(l[i]) \subseteq A
                              \/ i - m \in 1 .. n /\ l[i] = b[i - m] /\ Cells(l[i]) \subseteq B
    BY <1>1 DEF Exact, Covered
  <1>3. Apart(l)
    <2>1. SUFFICES ASSUME NEW i \in 1 .. m + n, NEW j \in 1 .. m + n, i # j
                   PROVE  Cells(l[i]) \cap Cells(l[j]) = {}
      BY <1>1 DEF Apart
    <2>2. CASE i \in 1 .. m /\ l[i] = a[i] /\ j \in 1 .. m /\ l[j] = a[j]
      BY <1>1, <2>1, <2>2 DEF Exact, Apart
    <2>3. CASE i - m \in 1 .. n /\ l[i] = b[i - m] /\ j - m \in 1 .. n /\ l[j] = b[j - m]
      <3>1. i - m # j - m
        BY <1>1, <2>1
      <3> QED BY <1>1, <2>3, <3>1 DEF Exact, Apart
    <2> QED BY <1>2, <2>2, <2>3
  <1>4. Covered(l) = A \cup B
    <2>1. \A x \in Covered(l) : x \in A \cup B
      BY <1>1, <1>2, CoveredHas
    <2>2. ASSUME NEW x \in A PROVE x \in Covered(l)
      <3>1. PICK i \in 1 .. m : x \in Cells(a[i])
        BY <1>1, CoveredHas DEF Exact
      <3>2. i \in 1 .. m + n /\ l[i] = a[i]
        BY <1>1
      <3> QED BY <1>1, <3>1, <3>2, CoveredHas
    <2>3. ASSUME NEW x \in B PROVE x \in Covered(l)
      <3>1. PICK i \in 1 .. n : x \in Cells(b[i])
        BY <1>1, CoveredHas DEF Exact
      <3>2. i + m \in 1 .. m + n /\ (i + m) - m = i /\ ~(i + m <= m)
        BY <1>1
      <3>3. l[i + m] = b[i]
        BY <1>1, <3>2
      <3> QED BY <1>1, <3>1, <3>2, <3>3, CoveredHas
    <2> QED BY <2>1, <2>2, <2>3
  <1> QED BY <1>1, <1>3, <1>4 DEF Exact, l

\* One block less.
LEMMA RemoveExact ==
    ASSUME NEW list, NEW C, Exact(list, C), NEW k \in DOMAIN list
    PROVE  Exact(RemoveAt(list, k), C \ Cells(list[k]))
  <1> DEFINE l == RemoveAt(list, k)
             n == Len(list)
  <1>1. list \in Seq(Rects) /\ n \in Nat /\ DOMAIN list = 1 .. n /\ k \in 1 .. n
    BY LenProperties DEF Exact
  <1>2. /\ l \in Seq(Rects) /\ DOMAIN l = 1 .. n - 1
        /\ \A i \in 1 .. n - 1 : l[i] = IF i < k THEN list[i] ELSE list[i + 1]
    <2> DEFINE p == SubSeq(list, 1, k - 1)
               q == SubSeq(list, k + 1, n)
    <2>1. p \in Seq(Rects) /\ Len(p) = k - 1 /\ \A i \in 1 .. k - 1 : p[i] = list[i]
      BY <1>1, SubSeqProperties
    <2>2. q \in Seq(Rects) /\ Len(q) = n - k /\ \A i \in 1 .. n - k : q[i] = list[k + i]
      BY <1>1, SubSeqProperties
    <2>3. l = p \o q
      BY DEF RemoveAt
    <2> HIDE DEF p, q, l, n
    <2>4. /\ l \in Seq(Rects) /\ Len(l) = n - 1
          /\ \A i \in 1 .. n - 1 : l[i] = IF i <= k - 1 THEN p[i] ELSE q[i - (k - 1)]
      <3>1. /\ p \o q \in Seq(Rects) /\ Len(p \o q) = Len(p) + Len(q)
            /\ \A i \in 1 .. Len(p) + Len(q) : (p \o q)[i] = IF i <= Len(p) THEN p[i] ELSE q[i - Len(p)]
        BY <2>1, <2>2, ConcatProperties
      <3>2. Len(p) + Len(q) = n - 1
        BY <1>1, <2>1, <2>2
      <3> QED BY <2>1, <2>3, <3>1, <3>2
    <2>5. ASSUME NEW i \in 1 .. n - 1 PROVE l[i] = IF i < k THEN list[i] ELSE list[i + 1]
      <3>1. CASE i < k
        BY <1>1, <2>1, <2>4, <3>1
      <3>2. CASE ~(i < k)
        <4>1. i - (k - 1) \in 1 .. n - k /\ k + (i - (k - 1)) = i + 1
          BY <1>1, <3>2
        <4>2. q[i - (k - 1)] = list[i + 1]
          BY <2>2, <4>1
        <4>3. ~(i <= k - 1)
          BY <1>1, <3>2
        <4> QED BY <2>4, <3>2, <4>2, <4>3
      <3> QED BY <3>1, <3>2
    <2> QED BY <1>1, <2>4, <2>5, LenProperties
  <1> HIDE DEF l, n
  <1> DEFINE old(i) == IF i < k THEN i ELSE i + 1
  <1>3. \A i \in 1 .. n - 1 : old(i) \in 1 .. n /\ old(i) # k /\ l[i] = list[old(i)]
    BY <1>1, <1>2
  <1>4. Apart(l)
    <2>1. SUFFICES ASSUME NEW i \in 1 .. n - 1, NEW j \in 1 .. n - 1, i # j
                   PROVE  Cells(l[i]) \cap Cells(l[j]) = {}
      BY <1>2 DEF Apart
    <2>2. old(i) # old(j)
      BY <1>1, <2>1
    <2> HIDE DEF old
    <2> QED BY <1>1, <1>3, <2>2 DEF Exact, Apart
  <1>5. Covered(l) = C \ Cells(list[k])
    <2>1. ASSUME NEW x \in Covered(l) PROVE x \in C \ Cells(list[k])
      <3>1. PICK i \in 1 .. n - 1 : x \in Cells(l[i])
        BY <1>2, CoveredHas
      <3>2. old(i) \in 1 .. n /\ old(i) # k /\ x \in Cells(list[old(i)])
        BY <1>3, <3>1
      <3> HIDE DEF old
      <3> QED BY <1>1, <3>2, CoveredHas DEF Exact, Apart
    <2>2. ASSUME NEW x \in C \ Cells(list[k]) PROVE x \in Covered(l)
      <3>1. PICK i \in 1 .. n : x \in Cells(list[i])
        BY <1>1, CoveredHas DEF Exact
      <3>2. CASE i < k
        <4>1. i \in 1 .. n - 1 /\ l[i] = list[i]
          BY <1>1, <1>2, <3>2
        <4> QED BY <1>2, <3>1, <4>1, CoveredHas
      <3>3. CASE i > k
        <4>1. i - 1 \in 1 .. n - 1 /\ l[i - 1] = list[i]
          BY <1>1, <1>2, <3>3
        <4> QED BY <1>2, <3>1, <4>1, CoveredHas
      <3> QED BY <1>1, <2>2, <3>1, <3>2, <3>3
    <2> QED BY <2>1, <2>2
  <1> QED BY <1>2, <1>4, <1>5 DEF Exact, l

-----------------------------------------------------------------------------
(* Minima and joining two blocks *)

\* The smallest of a set of numbers.
LEMMA MinIn ==
    ASSUME NEW T, T \subseteq Nat, T # {}
    PROVE  Min(T) \in T /\ \A x \in T : Min(T) <= x
  <1>1. IsWellFoundedOn(LessThan, Nat)
    <2>1. LessThan = OpToRel(<, Nat)
      BY DEF LessThan, OpToRel
    <2> QED BY <2>1, NatLessThanWellFounded
  <1>2. PICK m \in T : \A x \in T : ~(<<x, m>> \in LessThan)
    BY <1>1, WFMin
  <1>3. \A x \in T : m <= x
    <2>1. SUFFICES ASSUME NEW x \in T, x < m PROVE FALSE
      OBVIOUS
    <2>2. <<x, m>> \in LessThan
      BY <2>1 DEF LessThan
    <2> QED BY <1>2, <2>2
  <1> QED BY <1>3 DEF Min

\* The largest of a set of numbers that are not larger than n.
LEMMA MaxIn ==
    ASSUME NEW n \in Nat, NEW T, T \subseteq 0 .. n, T # {}
    PROVE  Max(T) \in T /\ \A x \in T : Max(T) >= x
  <1> DEFINE U == { x \in Nat : x <= n /\ n - x \in T }
  <1>1. U \subseteq Nat /\ U # {}
    <2>1. PICK t \in T : TRUE
      OBVIOUS
    <2>2. n - t \in U
      <3>1. t \in Nat /\ n - t \in Nat /\ n - t <= n /\ n - (n - t) = t
        BY <2>1
      <3> QED BY <2>1, <3>1
    <2> QED BY <2>2
  <1>2. Min(U) \in U /\ \A x \in U : Min(U) <= x
    BY <1>1, MinIn
  <1> DEFINE m == Min(U)
  <1> HIDE DEF m
  <1>3. n - m \in T /\ m \in Nat
    BY <1>2 DEF m
  <1>4. ASSUME NEW x \in T PROVE n - m >= x
    <2>1. x \in Nat /\ n - x \in Nat /\ n - x <= n /\ n - (n - x) = x
      OBVIOUS
    <2>2. n - x \in U
      BY <2>1
    <2>3. m <= n - x
      BY <1>2, <2>2 DEF m
    <2> QED BY <1>3, <2>1, <2>3
  <1> QED BY <1>3, <1>4 DEF Max

LEMMA MinOfTwo ==
    ASSUME NEW a \in Nat, NEW b \in Nat
    PROVE  /\ Min({a, b}) = IF a <= b THEN a ELSE b
           /\ Max({a, b}) = IF a <= b THEN b ELSE a
  <1>1. Min({a, b}) \in {a, b} /\ \A x \in {a, b} : Min({a, b}) <= x
    BY DEF Min
  <1>2. Max({a, b}) \in {a, b} /\ \A x \in {a, b} : Max({a, b}) >= x
    BY DEF Max
  <1> QED BY <1>1, <1>2

-----------------------------------------------------------------------------

\* A block made of two that share a whole side has the cells of both.
LEMMA BoundsOfTwo ==
    ASSUME NEW a \in Rects, NEW b \in Rects, Confining(a, b)
    PROVE  Bounds(a, b) \in Rects /\ Cells(Bounds(a, b)) = Cells(a) \cup Cells(b)
  <1> DEFINE d == Bounds(a, b)
  <1>1. /\ a \in Block /\ a.top <= a.bottom /\ a.left <= a.right
        /\ b \in Block /\ b.top <= b.bottom /\ b.left <= b.right
    BY DEF Rects
  <1>2. /\ a.top \in Nat /\ a.left \in Nat /\ a.bottom \in Nat /\ a.right \in Nat
        /\ b.top \in Nat /\ b.left \in Nat /\ b.bottom \in Nat /\ b.right \in Nat
    BY <1>1, CellIn
  <1>3. d = [top    |-> IF a.top <= b.top THEN a.top ELSE b.top,
             left   |-> IF a.left <= b.left THEN a.left ELSE b.left,
             bottom |-> IF a.bottom <= b.bottom THEN b.bottom ELSE a.bottom,
             right  |-> IF a.right <= b.right THEN b.right ELSE a.right]
    BY <1>2, MinOfTwo DEF Bounds, Rect
  <1> HIDE DEF d
  <1>4. /\ d.top = IF a.top <= b.top THEN a.top ELSE b.top
        /\ d.left = IF a.left <= b.left THEN a.left ELSE b.left
        /\ d.bottom = IF a.bottom <= b.bottom THEN b.bottom ELSE a.bottom
        /\ d.right = IF a.right <= b.right THEN b.right ELSE a.right
    BY <1>3
  <1>5. d \in Rects
    <2>1. d \in Block
      BY <1>2, <1>3 DEF Block
    <2> QED BY <1>1, <1>2, <1>4, <2>1 DEF Rects
  <1>6. ASSUME NEW r \in Nat, NEW c \in Nat
        PROVE  <<r, c>> \in Cells(d) <=> <<r, c>> \in Cells(a) \/ <<r, c>> \in Cells(b)
    <2>1. d \in Block
      BY <1>5 DEF Rects
    <2>2. /\ <<r, c>> \in Cells(a) <=> a.top <= r /\ r <= a.bottom /\ a.left <= c /\ c <= a.right
          /\ <<r, c>> \in Cells(b) <=> b.top <= r /\ r <= b.bottom /\ b.left <= c /\ c <= b.right
          /\ <<r, c>> \in Cells(d) <=> d.top <= r /\ r <= d.bottom /\ d.left <= c /\ c <= d.right
      BY <1>1, <2>1, CellIn
    <2>3. CASE SameColumns(a, b) /\ (a.top = b.bottom + 1 \/ a.bottom = b.top - 1)
      BY <1>1, <1>2, <1>4, <2>2, <2>3 DEF SameColumns
    <2>4. CASE SameRows(a, b) /\ (a.left = b.right + 1 \/ a.right = b.left - 1)
      BY <1>1, <1>2, <1>4, <2>2, <2>4 DEF SameRows
    <2> QED BY <2>3, <2>4 DEF Confining
  <1>7. Cells(d) \subseteq Grid /\ Cells(a) \subseteq Grid /\ Cells(b) \subseteq Grid
    BY <1>1, <1>5, CellIn DEF Rects
  <1>8. \A x \in Grid : x \in Cells(d) <=> x \in Cells(a) \/ x \in Cells(b)
    BY <1>6 DEF Grid
  <1> QED BY <1>5, <1>7, <1>8 DEF d

\* merge keeps the cells.
LEMMA JoinedExact ==
    ASSUME NEW merged, NEW C, Exact(merged, C), NEW s \in Rects, Cells(s) \cap C = {}
    PROVE  Exact(Joined(merged, s), C \cup Cells(s))
  <1> DEFINE I == { i \in 1 .. Len(merged) : Confining(s, merged[i]) }
             at == IF I # {} THEN Min(I) ELSE 0
  <1>1. Joined(merged, s) = IF at = 0 THEN Append(merged, s)
                            ELSE Append(RemoveAt(merged, at), Bounds(s, merged[at]))
    BY DEF Joined, SelectInSeq
  <1>2. merged \in Seq(Rects) /\ Len(merged) \in Nat /\ DOMAIN merged = 1 .. Len(merged)
    BY LenProperties DEF Exact
  <1>3. at = 0 \/ at \in I
    <2>1. I \subseteq Nat
      OBVIOUS
    <2> QED BY <2>1, MinIn
  <1> HIDE DEF at
  <1>4. CASE at = 0
    BY <1>1, <1>4, AppendExact
  <1>5. CASE at # 0
    <2>1. at \in DOMAIN merged /\ Confining(s, merged[at]) /\ merged[at] \in Rects
      BY <1>2, <1>3, <1>5
    <2> DEFINE b == merged[at]
    <2>2. Exact(RemoveAt(merged, at), C \ Cells(b)) /\ Cells(b) \subseteq C
      BY <2>1, RemoveExact DEF Exact, Covered
    <2>3. Bounds(s, b) \in Rects /\ Cells(Bounds(s, b)) = Cells(s) \cup Cells(b)
      BY <2>1, BoundsOfTwo
    <2> HIDE DEF b
    <2>4. Cells(Bounds(s, b)) \cap (C \ Cells(b)) = {}
          /\ (C \ Cells(b)) \cup Cells(Bounds(s, b)) = C \cup Cells(s)
      BY <2>2, <2>3
    <2>5. Exact(Append(RemoveAt(merged, at), Bounds(s, b)), (C \ Cells(b)) \cup Cells(Bounds(s, b)))
      BY <2>2, <2>3, <2>4, AppendExact
    <2> QED BY <1>1, <1>5, <2>4, <2>5 DEF b
  <1> QED BY <1>4, <1>5

-----------------------------------------------------------------------------
(* One pass of merge *)

\* A recursive function whose values follow a history is that history.
LEMMA Follows ==
    ASSUME NEW n \in Nat, NEW f, NEW h, f[0] = h[0],
           \A i \in 1 .. n : f[i - 1] = h[i - 1] => f[i] = h[i]
    PROVE  f[n] = h[n]
  <1> DEFINE S == { i \in 0 .. n : f[i] = h[i] }
  <1>1. 0 \in S
    OBVIOUS
  <1>2. ASSUME NEW i \in 0 .. n, i \in S, i < n PROVE i + 1 \in S
    <2>1. i + 1 \in 1 .. n /\ (i + 1) - 1 = i
      BY <1>2
    <2> QED BY <1>2, <2>1
  <1>3. 0 .. n \subseteq S
    BY <1>1, <1>2, InductionUpTo
  <1> QED BY <1>3

\* The cells of the first n blocks of a list.
Before(list, n) == UNION { Cells(list[j]) : j \in 1 .. n }

\* A pass of merge keeps the cells.
LEMMA PassExact ==
    ASSUME NEW list, NEW C, Exact(list, C)
    PROVE  Exact(Pass(list), C)
  <1> DEFINE n == Len(list)
             X == Seq(Rects)
             next(i, m) == IF i \in 1 .. n /\ Joined(m, list[i]) \in X THEN Joined(m, list[i]) ELSE m
             step == [i \in Nat |-> [m \in X |-> next(i, m)]]
  <1>1. list \in Seq(Rects) /\ n \in Nat /\ DOMAIN list = 1 .. n
    BY LenProperties DEF Exact
  <1>2. step \in [Nat -> [X -> X]] /\ <<>> \in X
    OBVIOUS
  <1>3. PICK h : IsHistory(h, n, X, <<>>, step)
    BY <1>1, <1>2, HistoryExists
  <1> HIDE DEF n
  <1>4. ASSUME NEW i \in 0 .. n, Exact(h[i], Before(list, i)), i < n
        PROVE  /\ h[i + 1] = Joined(h[i], list[i + 1])
               /\ Exact(h[i + 1], Before(list, i + 1))
    <2>1. i + 1 \in 1 .. n /\ (i + 1) - 1 = i /\ i + 1 \in Nat
      BY <1>1, <1>4
    <2>2. list[i + 1] \in Rects /\ Before(list, i + 1) = Before(list, i) \cup Cells(list[i + 1])
      <3>1. 1 .. i + 1 = 1 .. i \cup {i + 1}
        BY <2>1
      <3> QED BY <1>1, <2>1, <3>1 DEF Before
    <2>3. Cells(list[i + 1]) \cap Before(list, i) = {}
      <3>1. \A j \in 1 .. i : j \in 1 .. n /\ j # i + 1
        BY <1>1, <2>1
      <3>2. \A j \in 1 .. i : Cells(list[i + 1]) \cap Cells(list[j]) = {}
        BY <1>1, <2>1, <3>1 DEF Exact, Apart
      <3> QED BY <3>2 DEF Before
    <2>4. Exact(Joined(h[i], list[i + 1]), Before(list, i + 1))
      BY <1>4, <2>2, <2>3, JoinedExact
    <2>5. h[i + 1] = step[i + 1][h[i]] /\ h[i] \in X
      BY <1>3, <1>4, <2>1 DEF IsHistory, Exact
    <2>6. h[i + 1] = Joined(h[i], list[i + 1])
      BY <2>1, <2>4, <2>5 DEF Exact
    <2> QED BY <2>4, <2>6
  <1>5. \A i \in 0 .. n : Exact(h[i], Before(list, i))
    <2> DEFINE S == { i \in 0 .. n : Exact(h[i], Before(list, i)) }
    <2>1. 0 \in S
      <3>1. Before(list, 0) = {} /\ h[0] = <<>>
        BY <1>3 DEF Before, IsHistory
      <3>2. Exact(h[0], Before(list, 0))
        BY <3>1, EmptyExact
      <3> QED BY <1>1, <3>2
    <2>2. \A i \in 0 .. n : i \in S /\ i < n => i + 1 \in S
      BY <1>1, <1>4
    <2>3. 0 .. n \subseteq S
      BY <1>1, <2>1, <2>2, InductionUpTo
    <2> QED BY <2>3
  <1>6. ASSUME NEW i \in 1 .. n PROVE h[i] = Joined(h[i - 1], list[i])
    <2>1. i - 1 \in 0 .. n /\ i - 1 < n /\ (i - 1) + 1 = i
      BY <1>1
    <2> QED BY <1>4, <1>5, <2>1
  <1> DEFINE eq(f) == [i \in 0 .. n |-> IF i = 0 THEN <<>> ELSE Joined(f[i - 1], list[i])]
             merged == CHOOSE f : f = eq(f)
  <1>7. h = eq(h)
    <2>1. DOMAIN h = 0 .. n /\ h[0] = <<>>
      BY <1>3 DEF IsHistory
    <2>2. h = [i \in 0 .. n |-> h[i]]
      BY <1>3 DEF IsHistory
    <2>3. \A i \in 0 .. n : h[i] = IF i = 0 THEN <<>> ELSE Joined(h[i - 1], list[i])
      BY <1>1, <1>6, <2>1
    <2> QED BY <2>2, <2>3
  <1>8. merged = eq(merged)
    BY <1>7
  <1>9. Pass(list) = merged[n]
    BY DEF Pass, n
  <1> HIDE DEF merged, step
  <1>10. merged[n] = h[n]
    <2>1. merged[0] = h[0]
      BY <1>1, <1>3, <1>8 DEF IsHistory
    <2>2. ASSUME NEW i \in 1 .. n, merged[i - 1] = h[i - 1] PROVE merged[i] = h[i]
      BY <1>1, <1>6, <1>8, <2>2
    <2> QED BY <1>1, <2>1, <2>2, Follows
  <1>11. Before(list, n) = C
    BY <1>1 DEF Before, Exact, Covered
  <1> QED BY <1>1, <1>5, <1>9, <1>10, <1>11

-----------------------------------------------------------------------------
(* merge, and lists put together *)

\* merge keeps the cells.
LEMMA MergeExact ==
    ASSUME NEW list, NEW C, Exact(list, C)
    PROVE  Exact(Merge(list), C)
  <1> DEFINE n == Len(list)
             X == { l \in Seq(Rects) : Exact(l, C) }
             step == [i \in Nat |-> [m \in X |-> Pass(m)]]
             eq(f) == [i \in 0 .. n |-> IF i = 0 THEN list ELSE Pass(f[i - 1])]
             passes == CHOOSE f : f = eq(f)
  <1>1. n \in Nat
    BY LenProperties DEF Exact
  <1>2. Merge(list) = passes[n]
    BY DEF Merge
  <1>3. \A m \in X : Pass(m) \in X
    BY PassExact DEF Exact
  <1>4. list \in X /\ step \in [Nat -> [X -> X]]
    BY <1>3 DEF Exact
  <1> HIDE DEF n, X
  <1>5. PICK h : IsHistory(h, n, X, list, step)
    BY <1>1, <1>4, HistoryExists
  <1>6. h \in [0 .. n -> X] /\ h[0] = list
    BY <1>5 DEF IsHistory
  <1>7. ASSUME NEW i \in 1 .. n PROVE h[i] = Pass(h[i - 1])
    <2>1. i \in Nat /\ i - 1 \in 0 .. n
      BY <1>1
    <2>2. h[i - 1] \in X
      BY <1>6, <2>1
    <2>3. step[i][h[i - 1]] = Pass(h[i - 1])
      BY <2>1, <2>2
    <2> HIDE DEF step
    <2> QED BY <1>5, <2>3 DEF IsHistory
  <1>8. h = eq(h)
    <2>1. h = [i \in 0 .. n |-> h[i]]
      BY <1>6
    <2>2. \A i \in 0 .. n : h[i] = IF i = 0 THEN list ELSE Pass(h[i - 1])
      BY <1>1, <1>6, <1>7
    <2> QED BY <2>1, <2>2
  <1>9. passes = eq(passes)
    BY <1>8
  <1> HIDE DEF passes, step
  <1>10. passes[n] = h[n]
    <2>1. passes[0] = h[0]
      BY <1>1, <1>6, <1>9
    <2>2. ASSUME NEW i \in 1 .. n, passes[i - 1] = h[i - 1] PROVE passes[i] = h[i]
      BY <1>1, <1>7, <1>9, <2>2
    <2> QED BY <1>1, <2>1, <2>2, Follows
  <1>11. h[n] \in X
    BY <1>1, <1>6
  <1> QED BY <1>2, <1>10, <1>11 DEF X

-----------------------------------------------------------------------------

\* What FlattenSeq puts together, list by list.
LEMMA FlattenIs ==
    ASSUME NEW S, NEW seqs \in Seq(Seq(S))
    PROVE  \E h \in [0 .. Len(seqs) -> Seq(S)] :
              /\ h[0] = <<>>
              /\ \A i \in 1 .. Len(seqs) : h[i] = h[i - 1] \o seqs[i]
              /\ FlattenSeq(seqs) = h[Len(seqs)]
  <1> DEFINE n == Len(seqs)
             X == Seq(S)
             step == [i \in Nat |-> [m \in X |-> IF i \in 1 .. n THEN m \o seqs[i] ELSE m]]
  <1>1. n \in Nat /\ \A i \in 1 .. n : seqs[i] \in X
    BY LenProperties
  <1>2. \A m \in X, i \in 1 .. n : m \o seqs[i] \in X
    BY <1>1, ConcatProperties
  <1> HIDE DEF n
  <1>3. step \in [Nat -> [X -> X]] /\ <<>> \in X
    BY <1>2
  <1> HIDE DEF X
  <1>4. PICK h : IsHistory(h, n, X, <<>>, step)
    BY <1>1, <1>3, HistoryExists
  <1>5. h \in [0 .. n -> X] /\ h[0] = <<>>
    BY <1>4 DEF IsHistory
  <1>6. ASSUME NEW i \in 1 .. n PROVE h[i] = h[i - 1] \o seqs[i]
    <2>1. i \in Nat /\ i - 1 \in 0 .. n
      BY <1>1
    <2>2. h[i - 1] \in X
      BY <1>5, <2>1
    <2>3. step[i][h[i - 1]] = h[i - 1] \o seqs[i]
      BY <2>1, <2>2
    <2> HIDE DEF step
    <2> QED BY <1>4, <2>3 DEF IsHistory
  <1> HIDE DEF step
  <1>7. CASE n = 0
    <2>1. FlattenSeq(seqs) = seqs
      BY <1>7 DEF FlattenSeq, n
    <2>2. seqs = <<>>
      BY <1>7, EmptySeq DEF n
    <2> QED BY <1>5, <1>6, <1>7, <2>1, <2>2 DEF n, X
  <1>8. CASE n # 0
    <2> DEFINE eq(f) == [i \in 1 .. n |-> IF i = 1 THEN seqs[1] ELSE f[i - 1] \o seqs[i]]
               flatten == CHOOSE f : f = eq(f)
               g == [i \in 1 .. n |-> h[i]]
    <2>1. FlattenSeq(seqs) = flatten[n]
      BY <1>8 DEF FlattenSeq, n
    <2>2. h[1] = seqs[1]
      <3>1. 1 \in 1 .. n /\ 1 - 1 = 0
        BY <1>1, <1>8
      <3>2. h[1] = h[0] \o seqs[1] /\ seqs[1] \in Seq(S)
        BY <1>1, <1>6, <3>1 DEF X
      <3>3. <<>> \o seqs[1] = seqs[1]
        BY <3>2
      <3> QED BY <1>5, <3>2, <3>3
    <2>3. g = eq(g)
      <3>1. \A i \in 1 .. n : h[i] = IF i = 1 THEN seqs[1] ELSE g[i - 1] \o seqs[i]
        <4>1. SUFFICES ASSUME NEW i \in 1 .. n, i # 1 PROVE h[i] = g[i - 1] \o seqs[i]
          BY <2>2
        <4>2. i - 1 \in 1 .. n
          BY <1>1, <4>1
        <4>3. g[i - 1] = h[i - 1]
          BY <4>2
        <4> QED BY <1>6, <4>3
      <3> QED BY <3>1
    <2>4. flatten = eq(flatten)
      BY <2>3
    <2> HIDE DEF flatten
    <2>5. flatten[n] = h[n]
      <3> DEFINE f == [i \in 0 .. n |-> IF i = 0 THEN <<>> ELSE flatten[i]]
      <3>1. f[0] = h[0] /\ f[n] = flatten[n]
        BY <1>1, <1>5, <1>8
      <3>2. ASSUME NEW i \in 1 .. n, f[i - 1] = h[i - 1] PROVE f[i] = h[i]
        <4>1. CASE i = 1
          BY <1>1, <2>2, <2>4, <4>1
        <4>2. CASE i # 1
          <5>1. i - 1 \in 1 .. n /\ i \in 0 .. n /\ i # 0 /\ i - 1 \in 0 .. n /\ i - 1 # 0
            BY <1>1, <4>2
          <5>2. f[i - 1] = flatten[i - 1] /\ f[i] = flatten[i]
            BY <5>1
          <5>3. flatten[i] = flatten[i - 1] \o seqs[i]
            BY <2>4, <4>2
          <5> QED BY <1>6, <3>2, <5>2, <5>3
        <4> QED BY <4>1, <4>2
      <3> HIDE DEF f
      <3>3. f[n] = h[n]
        BY <1>1, <3>1, <3>2, Follows
      <3> QED BY <3>1, <3>3
    <2> QED BY <1>5, <1>6, <2>1, <2>5 DEF n, X
  <1> QED BY <1>7, <1>8

-----------------------------------------------------------------------------
(* Lists put together cover what each of them covers *)

\* A list of one block.
LEMMA OneExact ==
    ASSUME NEW b \in Rects
    PROVE  Exact(<<b>>, Cells(b))
  <1>1. <<b>> \in Seq(Rects) /\ DOMAIN <<b>> = {1} /\ <<b>>[1] = b
    OBVIOUS
  <1>2. Apart(<<b>>)
    BY <1>1 DEF Apart
  <1>3. Covered(<<b>>) = Cells(b)
    BY <1>1 DEF Covered
  <1> QED BY <1>1, <1>2, <1>3 DEF Exact

\* What the first i of some sets have.
UpTo(part, i) == UNION { part[j] : j \in 1 .. i }

\* The next of them adds what it has.
LEMMA UpToNext ==
    ASSUME NEW part, NEW i \in Nat
    PROVE  UpTo(part, i + 1) = UpTo(part, i) \cup part[i + 1]
  <1>1. 1 .. i + 1 = 1 .. i \cup {i + 1}
    OBVIOUS
  <1> QED BY <1>1 DEF UpTo

\* Before the first there is nothing.
LEMMA UpToNone == ASSUME NEW part PROVE UpTo(part, 0) = {}
  BY DEF UpTo

\* Lists put together have what each of them has.
LEMMA FlattenHas ==
    ASSUME NEW S, NEW seqs \in Seq(Seq(S))
    PROVE  /\ FlattenSeq(seqs) \in Seq(S)
           /\ ToSet(FlattenSeq(seqs)) = UNION { ToSet(seqs[i]) : i \in DOMAIN seqs }
  <1> DEFINE n == Len(seqs)
  <1>1. n \in Nat /\ DOMAIN seqs = 1 .. n /\ \A i \in 1 .. n : seqs[i] \in Seq(S)
    BY LenProperties
  <1>2. PICK h \in [0 .. n -> Seq(S)] :
              /\ h[0] = <<>>
              /\ \A i \in 1 .. n : h[i] = h[i - 1] \o seqs[i]
              /\ FlattenSeq(seqs) = h[n]
    BY FlattenIs
  <1> HIDE DEF n
  <1> DEFINE has == [i \in 1 .. n |-> ToSet(seqs[i])]
             T == { i \in 0 .. n : ToSet(h[i]) = UpTo(has, i) }
  <1>3. 0 \in T
    <2>1. ToSet(h[0]) = {}
      BY <1>2 DEF ToSet
    <2>2. ToSet(h[0]) = UpTo(has, 0)
      BY <2>1, UpToNone
    <2>3. 0 \in 0 .. n
      BY <1>1
    <2> HIDE DEF has
    <2> QED BY <2>2, <2>3
  <1>4. ASSUME NEW i \in 0 .. n, i \in T, i < n PROVE i + 1 \in T
    <2>1. i \in Nat /\ i + 1 \in 1 .. n /\ (i + 1) - 1 = i /\ i + 1 \in 0 .. n
      BY <1>1, <1>4
    <2>2. h[i + 1] = h[i] \o seqs[i + 1] /\ h[i] \in Seq(S) /\ seqs[i + 1] \in Seq(S)
      BY <1>1, <1>2, <2>1
    <2> DEFINE a == h[i]
               b == seqs[i + 1]
               p == Len(a)
               q == Len(b)
               l == a \o b
    <2>3. /\ p \in Nat /\ q \in Nat /\ DOMAIN a = 1 .. p /\ DOMAIN b = 1 .. q /\ DOMAIN l = 1 .. p + q
          /\ \A k \in 1 .. p + q : l[k] = IF k <= p THEN a[k] ELSE b[k - p]
      BY <2>2, ConcatProperties, LenProperties
    <2> HIDE DEF a, b, p, q, l
    <2>4. ToSet(l) = ToSet(a) \cup ToSet(b)
      <3>1. ASSUME NEW k \in 1 .. p + q PROVE l[k] \in ToSet(a) \cup ToSet(b)
        <4>1. CASE k <= p
          <5>1. k \in 1 .. p
            BY <2>3, <4>1
          <5>2. l[k] = a[k]
            BY <2>3, <4>1
          <5> QED BY <2>3, <5>1, <5>2 DEF ToSet
        <4>2. CASE ~(k <= p)
          <5>1. k - p \in 1 .. q
            BY <2>3, <4>2
          <5> QED BY <2>3, <4>2, <5>1 DEF ToSet
        <4> QED BY <4>1, <4>2
      <3>2. ASSUME NEW k \in 1 .. p PROVE a[k] \in ToSet(l)
        <4>1. k \in 1 .. p + q /\ l[k] = a[k]
          BY <2>3
        <4> QED BY <2>3, <4>1 DEF ToSet
      <3>3. ASSUME NEW k \in 1 .. q PROVE b[k] \in ToSet(l)
        <4>1. k + p \in 1 .. p + q /\ ~(k + p <= p) /\ (k + p) - p = k
          BY <2>3
        <4>2. l[k + p] = b[k]
          BY <2>3, <4>1
        <4> QED BY <2>3, <4>1, <4>2 DEF ToSet
      <3>4. ToSet(l) \subseteq ToSet(a) \cup ToSet(b)
        <4>1. ASSUME NEW x \in ToSet(l) PROVE x \in ToSet(a) \cup ToSet(b)
          <5>1. PICK k \in 1 .. p + q : x = l[k]
            BY <2>3 DEF ToSet
          <5> QED BY <3>1, <5>1
        <4> QED BY <4>1
      <3>5. ToSet(a) \subseteq ToSet(l) /\ ToSet(b) \subseteq ToSet(l)
        BY <2>3, <3>2, <3>3 DEF ToSet
      <3> QED BY <3>4, <3>5
    <2>5. UpTo(has, i + 1) = UpTo(has, i) \cup ToSet(seqs[i + 1])
      BY <2>1, UpToNext
    <2>6. ToSet(h[i + 1]) = ToSet(h[i]) \cup ToSet(seqs[i + 1])
      BY <2>2, <2>4 DEF a, b, l
    <2>7. ToSet(h[i]) = UpTo(has, i)
      BY <1>4
    <2>8. ToSet(h[i + 1]) = UpTo(has, i + 1)
      BY <2>5, <2>6, <2>7
    <2> QED BY <2>1, <2>8
  <1>5. 0 .. n \subseteq T
    <2> HIDE DEF T
    <2> QED BY <1>1, <1>3, <1>4, InductionUpTo
  <1>6. UpTo(has, n) = UNION { ToSet(seqs[i]) : i \in 1 .. n }
    BY DEF UpTo
  <1>7. ToSet(h[n]) = UpTo(has, n)
    <2>1. n \in T
      BY <1>1, <1>5
    <2> QED BY <2>1
  <1>8. FlattenSeq(seqs) \in Seq(S) /\ ToSet(FlattenSeq(seqs)) = UpTo(has, n)
    <2> HIDE DEF has
    <2> QED BY <1>1, <1>2, <1>7
  <1> QED BY <1>1, <1>6, <1>8

\* Lists that cover disjoint parts, put together.
LEMMA FlattenExact ==
    ASSUME NEW seqs \in Seq(Seq(Rects)), NEW part,
           \A i \in DOMAIN seqs : Exact(seqs[i], part[i]),
           \A i, j \in DOMAIN seqs : i # j => part[i] \cap part[j] = {}
    PROVE  Exact(FlattenSeq(seqs), UNION { part[i] : i \in DOMAIN seqs })
  <1> DEFINE n == Len(seqs)
  <1>1. n \in Nat /\ DOMAIN seqs = 1 .. n
    BY LenProperties
  <1>2. PICK h \in [0 .. n -> Seq(Rects)] :
              /\ h[0] = <<>>
              /\ \A i \in 1 .. n : h[i] = h[i - 1] \o seqs[i]
              /\ FlattenSeq(seqs) = h[n]
    BY FlattenIs
  <1> HIDE DEF n
  <1> DEFINE T == { i \in 0 .. n : Exact(h[i], UpTo(part, i)) }
  <1>3. 0 \in T
    <2>1. UpTo(part, 0) = {}
      BY UpToNone
    <2>2. Exact(h[0], UpTo(part, 0))
      BY <1>2, <2>1, EmptyExact
    <2> QED BY <1>1, <2>2
  <1>4. ASSUME NEW i \in 0 .. n, i \in T, i < n PROVE i + 1 \in T
    <2>1. i \in Nat /\ i + 1 \in 1 .. n /\ (i + 1) - 1 = i /\ i + 1 \in 0 .. n
      BY <1>1, <1>4
    <2>2. h[i + 1] = h[i] \o seqs[i + 1] /\ Exact(seqs[i + 1], part[i + 1])
      BY <1>1, <1>2, <2>1
    <2>3. UpTo(part, i + 1) = UpTo(part, i) \cup part[i + 1]
      BY <2>1, UpToNext
    <2>4. UpTo(part, i) \cap part[i + 1] = {}
      <3>1. \A j \in 1 .. i : j \in 1 .. n /\ j # i + 1
        BY <1>1, <2>1
      <3>2. \A j \in 1 .. i : part[j] \cap part[i + 1] = {}
        BY <1>1, <2>1, <3>1
      <3> QED BY <3>2 DEF UpTo
    <2>5. Exact(h[i], UpTo(part, i))
      BY <1>4
    <2>6. Exact(h[i] \o seqs[i + 1], UpTo(part, i) \cup part[i + 1])
      BY <2>2, <2>4, <2>5, ConcatExact
    <2>7. Exact(h[i + 1], UpTo(part, i + 1))
      BY <2>2, <2>3, <2>6
    <2> QED BY <2>1, <2>7
  <1>5. 0 .. n \subseteq T
    <2> HIDE DEF T
    <2> QED BY <1>1, <1>3, <1>4, InductionUpTo
  <1>6. UpTo(part, n) = UNION { part[i] : i \in DOMAIN seqs }
    BY <1>1 DEF UpTo
  <1>7. Exact(h[n], UpTo(part, n))
    <2>1. n \in T
      BY <1>1, <1>5
    <2> QED BY <2>1
  <1> QED BY <1>1, <1>2, <1>6, <1>7

-----------------------------------------------------------------------------
(* add and remove *)

\* A block given by its bounds.
LEMMA RectIn ==
    ASSUME NEW t \in Nat, NEW l \in Nat, NEW b \in Nat, NEW r \in Nat, t <= b, l <= r
    PROVE  /\ Rect(t, l, b, r) \in Rects
           /\ \A x, y \in Nat : <<x, y>> \in Cells(Rect(t, l, b, r)) <=>
                 t <= x /\ x <= b /\ l <= y /\ y <= r
  <1> DEFINE d == Rect(t, l, b, r)
  <1>1. d \in Block /\ d.top = t /\ d.left = l /\ d.bottom = b /\ d.right = r
    BY DEF Rect, Block
  <1> HIDE DEF d
  <1>2. d \in Rects
    BY <1>1 DEF Rects
  <1> QED BY <1>1, <1>2, CellIn DEF d

\* What Cut keeps of a block are its cells outside the one that is occupied.
LEMMA CutExact ==
    ASSUME NEW f \in Rects, NEW o \in Rects, ~Disjoint(f, o)
    PROVE  Exact(Cut(f, o), Cells(f) \ Cells(o))
  <1>1. /\ f \in Block /\ f.top <= f.bottom /\ f.left <= f.right
        /\ o \in Block /\ o.top <= o.bottom /\ o.left <= o.right
    BY DEF Rects
  <1>2. /\ f.top \in Nat /\ f.left \in Nat /\ f.bottom \in Nat /\ f.right \in Nat
        /\ o.top \in Nat /\ o.left \in Nat /\ o.bottom \in Nat /\ o.right \in Nat
    BY <1>1, CellIn
  <1>3. f.top <= o.bottom /\ f.left <= o.right /\ f.bottom >= o.top /\ f.right >= o.left
    BY <1>2 DEF Disjoint
  <1> DEFINE upper == f.top < o.top
             left  == f.left < o.left
             lower == f.bottom > o.bottom
             right == f.right > o.right
             top   == IF upper THEN o.top ELSE f.top
             from  == IF left THEN o.left ELSE f.left
             to    == IF lower THEN o.bottom ELSE f.bottom
             U == Rect(f.top, f.left, o.top - 1, f.right)
             L == Rect(top, f.left, f.bottom, o.left - 1)
             D == Rect(o.bottom + 1, from, f.bottom, f.right)
             R == Rect(top, o.right + 1, to, f.right)
             a == IF upper THEN <<U>> ELSE <<>>
             b == IF left THEN <<L>> ELSE <<>>
             c == IF lower THEN <<D>> ELSE <<>>
             d == IF right THEN <<R>> ELSE <<>>
             A == IF upper THEN Cells(U) ELSE {}
             B == IF left THEN Cells(L) ELSE {}
             C == IF lower THEN Cells(D) ELSE {}
             E == IF right THEN Cells(R) ELSE {}
  <1>4. Cut(f, o) = a \o b \o c \o d
    BY DEF Cut
  <1>5. top \in Nat /\ top <= f.bottom /\ top <= to /\ to \in Nat /\ from \in Nat /\ from <= f.right
    BY <1>1, <1>2, <1>3
  <1>6. /\ top = IF f.top < o.top THEN o.top ELSE f.top
        /\ from = IF f.left < o.left THEN o.left ELSE f.left
        /\ to = IF f.bottom > o.bottom THEN o.bottom ELSE f.bottom
    OBVIOUS
  <1> HIDE DEF top, from, to
  <1>7. Exact(a, A) /\ A \subseteq Grid
        /\ \A x, y \in Nat : <<x, y>> \in A <=>
              f.top < o.top /\ f.top <= x /\ x <= o.top - 1 /\ f.left <= y /\ y <= f.right
    <2>1. CASE upper
      <3> DEFINE e == o.top - 1
      <3>1. /\ e \in Nat /\ f.top <= e /\ f.left <= f.right
            /\ f.top \in Nat /\ f.left \in Nat /\ f.right \in Nat
        BY <1>1, <1>2, <2>1
      <3>0. U = Rect(f.top, f.left, e, f.right)
        OBVIOUS
      <3> HIDE DEF e, U
      <3>2. /\ U \in Rects
            /\ \A x, y \in Nat : <<x, y>> \in Cells(U) <=>
                  f.top <= x /\ x <= e /\ f.left <= y /\ y <= f.right
        BY ONLY <3>0, <3>1, RectIn
      <3> QED BY <2>1, <3>2, OneExact, CellIn DEF Rects, e
    <2>2. CASE ~upper
      BY <2>2, EmptyExact
    <2> QED BY <2>1, <2>2
  <1>8. Exact(b, B) /\ B \subseteq Grid
        /\ \A x, y \in Nat : <<x, y>> \in B <=>
              f.left < o.left /\ top <= x /\ x <= f.bottom /\ f.left <= y /\ y <= o.left - 1
    <2>1. CASE left
      <3>1. /\ o.left - 1 \in Nat /\ f.left <= o.left - 1 /\ top <= f.bottom
            /\ top \in Nat /\ f.left \in Nat /\ f.bottom \in Nat
        BY <1>1, <1>2, <1>5, <2>1
      <3>2. /\ L \in Rects
            /\ \A x, y \in Nat : <<x, y>> \in Cells(L) <=>
                  top <= x /\ x <= f.bottom /\ f.left <= y /\ y <= o.left - 1
        BY ONLY <3>1, RectIn
      <3> HIDE DEF L
      <3> QED BY <2>1, <3>2, OneExact, CellIn DEF Rects
    <2>2. CASE ~left
      BY <2>2, EmptyExact
    <2> QED BY <2>1, <2>2
  <1>9. Exact(c, C) /\ C \subseteq Grid
        /\ \A x, y \in Nat : <<x, y>> \in C <=>
              f.bottom > o.bottom /\ o.bottom + 1 <= x /\ x <= f.bottom /\ from <= y /\ y <= f.right
    <2>1. CASE lower
      <3>1. o.bottom + 1 \in Nat /\ o.bottom + 1 <= f.bottom
        BY <1>2, <2>1
      <3>2. /\ D \in Rects
            /\ \A x, y \in Nat : <<x, y>> \in Cells(D) <=>
                  o.bottom + 1 <= x /\ x <= f.bottom /\ from <= y /\ y <= f.right
        BY <1>1, <1>2, <1>5, <3>1, RectIn
      <3> HIDE DEF D
      <3> QED BY <2>1, <3>2, OneExact, CellIn DEF Rects
    <2>2. CASE ~lower
      BY <2>2, EmptyExact
    <2> QED BY <2>1, <2>2
  <1>10. Exact(d, E) /\ E \subseteq Grid
        /\ \A x, y \in Nat : <<x, y>> \in E <=>
              f.right > o.right /\ top <= x /\ x <= to /\ o.right + 1 <= y /\ y <= f.right
    <2>1. CASE right
      <3> DEFINE e == o.right + 1
      <3>1. /\ e \in Nat /\ e <= f.right /\ top <= to
            /\ top \in Nat /\ to \in Nat /\ f.right \in Nat
        BY <1>1, <1>2, <1>5, <2>1
      <3>0. R = Rect(top, e, to, f.right)
        OBVIOUS
      <3> HIDE DEF e, R
      <3>2. /\ R \in Rects
            /\ \A x, y \in Nat : <<x, y>> \in Cells(R) <=>
                  top <= x /\ x <= to /\ e <= y /\ y <= f.right
        BY ONLY <3>0, <3>1, RectIn
      <3> QED BY <2>1, <3>2, OneExact, CellIn DEF Rects, e
    <2>2. CASE ~right
      BY <2>2, EmptyExact
    <2> QED BY <2>1, <2>2
  <1>11. \A x, y \in Nat :
           /\ <<x, y>> \in Cells(f) <=> f.top <= x /\ x <= f.bottom /\ f.left <= y /\ y <= f.right
           /\ <<x, y>> \in Cells(o) <=> o.top <= x /\ x <= o.bottom /\ o.left <= y /\ y <= o.right
    BY <1>1, CellIn
  <1>12. Cells(f) \subseteq Grid /\ Cells(o) \subseteq Grid
    BY <1>1, CellIn
  <1> HIDE DEF a, b, c, d, A, B, C, E
  <1>13. ASSUME NEW x \in Nat, NEW y \in Nat
         PROVE  /\ ~(<<x, y>> \in A /\ <<x, y>> \in B)
                /\ ~(<<x, y>> \in A \cup B /\ <<x, y>> \in C)
                /\ ~(<<x, y>> \in A \cup B \cup C /\ <<x, y>> \in E)
                /\ <<x, y>> \in A \cup B \cup C \cup E <=> <<x, y>> \in Cells(f) \ Cells(o)
    <2>1. (<<x, y>> \in A <=>
             f.top < o.top /\ f.top <= x /\ x <= o.top - 1 /\ f.left <= y /\ y <= f.right)
          /\ (<<x, y>> \in B <=>
             f.left < o.left /\ top <= x /\ x <= f.bottom /\ f.left <= y /\ y <= o.left - 1)
          /\ (<<x, y>> \in C <=>
             f.bottom > o.bottom /\ o.bottom + 1 <= x /\ x <= f.bottom /\ from <= y /\ y <= f.right)
          /\ (<<x, y>> \in E <=>
             f.right > o.right /\ top <= x /\ x <= to /\ o.right + 1 <= y /\ y <= f.right)
      BY <1>7, <1>8, <1>9, <1>10
    <2>2. ~(<<x, y>> \in A /\ <<x, y>> \in B)
      BY <1>2, <1>6, <2>1
    <2>3. ~(<<x, y>> \in A /\ <<x, y>> \in C) /\ ~(<<x, y>> \in B /\ <<x, y>> \in C)
      BY <1>1, <1>2, <1>3, <1>6, <2>1
    <2>4. ~(<<x, y>> \in A /\ <<x, y>> \in E) /\ ~(<<x, y>> \in B /\ <<x, y>> \in E)
          /\ ~(<<x, y>> \in C /\ <<x, y>> \in E)
      BY <1>1, <1>2, <1>3, <1>6, <2>1
    <2>5. <<x, y>> \in A \/ <<x, y>> \in B \/ <<x, y>> \in C \/ <<x, y>> \in E
          <=> <<x, y>> \in Cells(f) /\ <<x, y>> \notin Cells(o)
      BY <1>1, <1>2, <1>3, <1>6, <1>11, <2>1
    <2> QED BY <2>2, <2>3, <2>4, <2>5
  <1>14. /\ A \cap B = {} /\ (A \cup B) \cap C = {} /\ (A \cup B \cup C) \cap E = {}
         /\ A \cup B \cup C \cup E = Cells(f) \ Cells(o)
    <2>1. \A p \in Grid : /\ ~(p \in A /\ p \in B)
                          /\ ~(p \in A \cup B /\ p \in C)
                          /\ ~(p \in A \cup B \cup C /\ p \in E)
                          /\ p \in A \cup B \cup C \cup E <=> p \in Cells(f) \ Cells(o)
      BY <1>13 DEF Grid
    <2>2. A \subseteq Grid /\ B \subseteq Grid /\ C \subseteq Grid /\ E \subseteq Grid
      BY <1>7, <1>8, <1>9, <1>10
    <2> QED BY <1>12, <2>1, <2>2
  <1>15. Exact(a \o b, A \cup B)
    BY <1>7, <1>8, <1>14, ConcatExact
  <1>16. Exact(a \o b \o c, A \cup B \cup C)
    BY <1>9, <1>14, <1>15, ConcatExact
  <1>17. Exact(a \o b \o c \o d, A \cup B \cup C \cup E)
    BY <1>10, <1>14, <1>16, ConcatExact
  <1> QED BY <1>4, <1>14, <1>17

\* Blocks that Disjoint tells apart have no cell in common.
LEMMA DisjointCells ==
    ASSUME NEW a \in Rects, NEW b \in Rects
    PROVE  Disjoint(a, b) <=> Cells(a) \cap Cells(b) = {}
  <1>1. /\ a \in Block /\ a.top <= a.bottom /\ a.left <= a.right
        /\ b \in Block /\ b.top <= b.bottom /\ b.left <= b.right
    BY DEF Rects
  <1>2. /\ a.top \in Nat /\ a.left \in Nat /\ a.bottom \in Nat /\ a.right \in Nat
        /\ b.top \in Nat /\ b.left \in Nat /\ b.bottom \in Nat /\ b.right \in Nat
    BY <1>1, CellIn
  <1>3. \A x, y \in Nat :
           /\ <<x, y>> \in Cells(a) <=> a.top <= x /\ x <= a.bottom /\ a.left <= y /\ y <= a.right
           /\ <<x, y>> \in Cells(b) <=> b.top <= x /\ x <= b.bottom /\ b.left <= y /\ y <= b.right
    BY <1>1, CellIn
  <1>4. ASSUME Disjoint(a, b) PROVE Cells(a) \cap Cells(b) = {}
    <2>1. \A x, y \in Nat : ~(<<x, y>> \in Cells(a) /\ <<x, y>> \in Cells(b))
      <3>1. SUFFICES ASSUME NEW x \in Nat, NEW y \in Nat, <<x, y>> \in Cells(a), <<x, y>> \in Cells(b)
                     PROVE  FALSE
        OBVIOUS
      <3>2. /\ a.top <= x /\ x <= a.bottom /\ a.left <= y /\ y <= a.right
            /\ b.top <= x /\ x <= b.bottom /\ b.left <= y /\ y <= b.right
        BY <1>3, <3>1
      <3> QED BY <1>2, <1>4, <3>2 DEF Disjoint
    <2>2. Cells(a) \subseteq Nat \X Nat
      BY <1>1, CellIn DEF Grid
    <2> QED BY <2>1, <2>2
  <1>5. ASSUME ~Disjoint(a, b) PROVE Cells(a) \cap Cells(b) # {}
    <2> DEFINE x == IF a.top <= b.top THEN b.top ELSE a.top
               y == IF a.left <= b.left THEN b.left ELSE a.left
    <2>1. /\ x \in Nat /\ a.top <= x /\ x <= a.bottom /\ b.top <= x /\ x <= b.bottom
          /\ y \in Nat /\ a.left <= y /\ y <= a.right /\ b.left <= y /\ y <= b.right
      BY <1>1, <1>2, <1>5 DEF Disjoint
    <2> HIDE DEF x, y
    <2> QED BY <1>3, <2>1
  <1> QED BY <1>4, <1>5

\* add takes the cells of the new block from the free ones.
LEMMA FreeAfterAddExact ==
    ASSUME NEW free, NEW C, Exact(free, C), NEW o \in Rects
    PROVE  Exact(FreeAfterAdd(free, o), C \ Cells(o))
  <1> DEFINE parts == [i \in DOMAIN free |->
                 IF Disjoint(free[i], o) THEN <<free[i]>> ELSE Cut(free[i], o)]
             part == [i \in DOMAIN free |-> Cells(free[i]) \ Cells(o)]
             n == Len(free)
  <1>1. free \in Seq(Rects) /\ n \in Nat /\ DOMAIN free = 1 .. n
    BY LenProperties DEF Exact
  <1>2. ASSUME NEW i \in 1 .. n PROVE Exact(parts[i], part[i])
    <2>1. free[i] \in Rects /\ i \in DOMAIN free
      BY <1>1
    <2>2. CASE Disjoint(free[i], o)
      <3>1. part[i] = Cells(free[i])
        BY <2>1, <2>2, DisjointCells
      <3> QED BY <2>1, <2>2, <3>1, OneExact
    <2>3. CASE ~Disjoint(free[i], o)
      BY <2>1, <2>3, CutExact
    <2> QED BY <2>2, <2>3
  <1>3. DOMAIN parts = 1 .. n /\ parts \in Seq(Seq(Rects))
    <2>1. \A i \in 1 .. n : parts[i] \in Seq(Rects)
      BY <1>2 DEF Exact
    <2>2. parts = [i \in 1 .. n |-> parts[i]]
      BY <1>1
    <2> HIDE DEF parts, n
    <2>3. parts \in [1 .. n -> Seq(Rects)]
      BY <2>1, <2>2
    <2> QED BY <1>1, <2>3
  <1>4. \A i, j \in 1 .. n : i # j => part[i] \cap part[j] = {}
    <2>1. \A i \in 1 .. n : part[i] \subseteq Cells(free[i])
      BY <1>1
    <2>2. \A i, j \in 1 .. n : i # j => Cells(free[i]) \cap Cells(free[j]) = {}
      BY <1>1 DEF Exact, Apart
    <2> HIDE DEF part
    <2> QED BY <2>1, <2>2
  <1>5. UNION { part[i] : i \in 1 .. n } = C \ Cells(o)
    <2>1. \A x : x \in UNION { part[i] : i \in 1 .. n } <=> x \in Covered(free) /\ x \notin Cells(o)
      BY <1>1, CoveredHas
    <2> QED BY <2>1 DEF Exact
  <1> HIDE DEF parts, part, n
  <1>6. Exact(FlattenSeq(parts), C \ Cells(o))
    <2>1. Exact(FlattenSeq(parts), UNION { part[i] : i \in DOMAIN parts })
      BY <1>2, <1>3, <1>4, FlattenExact
    <2> QED BY <1>3, <1>5, <2>1
  <1> QED BY <1>6, MergeExact DEF FreeAfterAdd, parts

\* remove gives back the cells of the block.
LEMMA FreeAfterRemoveExact ==
    ASSUME NEW free, NEW C, Exact(free, C), NEW o \in Rects, Cells(o) \cap C = {}
    PROVE  Exact(FreeAfterRemove(free, o), C \cup Cells(o))
  BY AppendExact, MergeExact DEF FreeAfterRemove

-----------------------------------------------------------------------------
(* What max_blocks makes of its list in one pass *)

\* The block that spans two adjacent ones lies in them.
LEMMA SpanningIn ==
    ASSUME NEW a \in Rects, NEW b \in Rects, Adjacent(a, b)
    PROVE  /\ Spanning(a, b) \in Rects
           /\ Cells(Spanning(a, b)) \subseteq Cells(a) \cup Cells(b)
           /\ Spanning(a, b).bottom \in {a.bottom, b.bottom}
           /\ Spanning(a, b).right \in {a.right, b.right}
  <1> DEFINE d == Spanning(a, b)
             over == Above(a, b) \/ Above(b, a)
             low(x, y)  == IF x <= y THEN x ELSE y
             high(x, y) == IF x <= y THEN y ELSE x
  <1>1. /\ a \in Block /\ a.top <= a.bottom /\ a.left <= a.right
        /\ b \in Block /\ b.top <= b.bottom /\ b.left <= b.right
    BY DEF Rects
  <1>2. /\ a.top \in Nat /\ a.left \in Nat /\ a.bottom \in Nat /\ a.right \in Nat
        /\ b.top \in Nat /\ b.left \in Nat /\ b.bottom \in Nat /\ b.right \in Nat
    BY <1>1, CellIn
  <1>3. CASE over
    <2>1. d = [top    |-> low(a.top, b.top),       left  |-> high(a.left, b.left),
               bottom |-> high(a.bottom, b.bottom), right |-> low(a.right, b.right)]
      BY <1>2, <1>3, MinOfTwo DEF Spanning, Rect
    <2> HIDE DEF d
    <2>2. d \in Block /\ d.top = low(a.top, b.top) /\ d.left = high(a.left, b.left)
          /\ d.bottom = high(a.bottom, b.bottom) /\ d.right = low(a.right, b.right)
      BY <1>2, <2>1 DEF Block
    <2>3. d.top <= d.bottom /\ d.left <= d.right
      BY <1>1, <1>2, <1>3, <2>2 DEF Above, ColumnsMeet
    <2>4. ASSUME NEW r \in Nat, NEW c \in Nat, <<r, c>> \in Cells(d)
          PROVE  <<r, c>> \in Cells(a) \/ <<r, c>> \in Cells(b)
      <3>1. d.top <= r /\ r <= d.bottom /\ d.left <= c /\ c <= d.right
        BY <2>2, <2>4, CellIn
      <3>2. \/ a.top <= r /\ r <= a.bottom /\ a.left <= c /\ c <= a.right
            \/ b.top <= r /\ r <= b.bottom /\ b.left <= c /\ c <= b.right
        BY <1>1, <1>2, <1>3, <2>2, <3>1 DEF Above, ColumnsMeet
      <3> QED BY <1>1, <3>2, CellIn
    <2>5. Cells(d) \subseteq Nat \X Nat
      BY <2>2, CellIn DEF Grid
    <2>6. Cells(d) \subseteq Cells(a) \cup Cells(b)
      BY <2>4, <2>5
    <2>7. d \in Rects
      BY <2>2, <2>3 DEF Rects
    <2>8. d.bottom \in {a.bottom, b.bottom} /\ d.right \in {a.right, b.right}
      BY <2>2
    <2> QED BY <2>6, <2>7, <2>8 DEF d
  <1>4. CASE ~over
    <2>0. LeftOf(a, b) \/ LeftOf(b, a)
      BY <1>4 DEF Adjacent
    <2>1. d = [top    |-> high(a.top, b.top),      left  |-> low(a.left, b.left),
               bottom |-> low(a.bottom, b.bottom), right |-> high(a.right, b.right)]
      BY <1>2, <1>4, MinOfTwo DEF Spanning, Rect
    <2> HIDE DEF d
    <2>2. d \in Block /\ d.top = high(a.top, b.top) /\ d.left = low(a.left, b.left)
          /\ d.bottom = low(a.bottom, b.bottom) /\ d.right = high(a.right, b.right)
      BY <1>2, <2>1 DEF Block
    <2>3. d.top <= d.bottom /\ d.left <= d.right
      BY <1>1, <1>2, <2>0, <2>2 DEF LeftOf, RowsMeet
    <2>4. ASSUME NEW r \in Nat, NEW c \in Nat, <<r, c>> \in Cells(d)
          PROVE  <<r, c>> \in Cells(a) \/ <<r, c>> \in Cells(b)
      <3>1. d.top <= r /\ r <= d.bottom /\ d.left <= c /\ c <= d.right
        BY <2>2, <2>4, CellIn
      <3>2. \/ a.top <= r /\ r <= a.bottom /\ a.left <= c /\ c <= a.right
            \/ b.top <= r /\ r <= b.bottom /\ b.left <= c /\ c <= b.right
        BY <1>1, <1>2, <2>0, <2>2, <3>1 DEF LeftOf, RowsMeet
      <3> QED BY <1>1, <3>2, CellIn
    <2>5. Cells(d) \subseteq Nat \X Nat
      BY <2>2, CellIn DEF Grid
    <2>6. Cells(d) \subseteq Cells(a) \cup Cells(b)
      BY <2>4, <2>5
    <2>7. d \in Rects
      BY <2>2, <2>3 DEF Rects
    <2>8. d.bottom \in {a.bottom, b.bottom} /\ d.right \in {a.right, b.right}
      BY <2>2
    <2> QED BY <2>6, <2>7, <2>8 DEF d
  <1> QED BY <1>3, <1>4

\* Any two blocks have a spanning one that is a block, if it has no cells perhaps.
LEMMA SpanningType ==
    ASSUME NEW a \in Block, NEW b \in Block
    PROVE  Spanning(a, b) \in Block
  <1>1. /\ a.top \in Nat /\ a.left \in Nat /\ a.bottom \in Nat /\ a.right \in Nat
        /\ b.top \in Nat /\ b.left \in Nat /\ b.bottom \in Nat /\ b.right \in Nat
    BY CellIn
  <1>2. /\ Min({a.top, b.top}) \in Nat /\ Max({a.left, b.left}) \in Nat
        /\ Max({a.bottom, b.bottom}) \in Nat /\ Min({a.right, b.right}) \in Nat
        /\ Max({a.top, b.top}) \in Nat /\ Min({a.left, b.left}) \in Nat
        /\ Min({a.bottom, b.bottom}) \in Nat /\ Max({a.right, b.right}) \in Nat
    BY <1>1, MinOfTwo
  <1> QED BY <1>2 DEF Spanning, Rect, Block

-----------------------------------------------------------------------------

\* A set of blocks that max_blocks does not leave.
Closed(S) == \A a, b \in S : Adjacent(a, b) => Spanning(a, b) \in S

\* The members of a list with another behind it.
LEMMA ConcatHas ==
    ASSUME NEW S, NEW a \in Seq(S), NEW b \in Seq(S)
    PROVE  a \o b \in Seq(S) /\ ToSet(a \o b) = ToSet(a) \cup ToSet(b)
  <1> DEFINE p == Len(a)
             q == Len(b)
             l == a \o b
  <1>1. /\ p \in Nat /\ q \in Nat /\ DOMAIN a = 1 .. p /\ DOMAIN b = 1 .. q /\ DOMAIN l = 1 .. p + q
        /\ \A k \in 1 .. p + q : l[k] = IF k <= p THEN a[k] ELSE b[k - p]
        /\ l \in Seq(S)
    BY ConcatProperties, LenProperties
  <1> HIDE DEF p, q, l
  <1>2. ASSUME NEW x \in ToSet(l) PROVE x \in ToSet(a) \cup ToSet(b)
    <2>1. PICK k \in 1 .. p + q : x = l[k]
      BY <1>1, <1>2 DEF ToSet
    <2>2. CASE k <= p
      <3>1. k \in 1 .. p /\ l[k] = a[k]
        BY <1>1, <2>2
      <3> QED BY <1>1, <2>1, <3>1 DEF ToSet
    <2>3. CASE ~(k <= p)
      <3>1. k - p \in 1 .. q /\ l[k] = b[k - p]
        BY <1>1, <2>3
      <3> QED BY <1>1, <2>1, <3>1 DEF ToSet
    <2> QED BY <2>2, <2>3
  <1>3. ASSUME NEW x \in ToSet(a) PROVE x \in ToSet(l)
    <2>1. PICK k \in 1 .. p : x = a[k]
      BY <1>1, <1>3 DEF ToSet
    <2>2. k \in 1 .. p + q /\ l[k] = a[k]
      BY <1>1
    <2> QED BY <1>1, <2>1, <2>2 DEF ToSet
  <1>4. ASSUME NEW x \in ToSet(b) PROVE x \in ToSet(l)
    <2>1. PICK k \in 1 .. q : x = b[k]
      BY <1>1, <1>4 DEF ToSet
    <2>2. k + p \in 1 .. p + q /\ ~(k + p <= p) /\ (k + p) - p = k
      BY <1>1
    <2>3. l[k + p] = b[k]
      BY <1>1, <2>2
    <2> QED BY <1>1, <2>1, <2>2, <2>3 DEF ToSet
  <1> QED BY <1>1, <1>2, <1>3, <1>4 DEF l

LEMMA BlendedWithType ==
    ASSUME NEW S, Closed(S), NEW blended \in Seq(S), NEW c \in S
    PROVE  /\ BlendedWith(blended, c) \in Seq(S)
           /\ ToSet(blended) \cup {c} \subseteq ToSet(BlendedWith(blended, c))
  <1> DEFINE all == Append(blended, c)
             more == [i \in DOMAIN all |->
                         IF Adjacent(c, all[i]) THEN <<Spanning(c, all[i])>> ELSE <<>>]
  <1>1. /\ all \in Seq(S) /\ Len(all) \in Nat /\ DOMAIN all = 1 .. Len(all)
        /\ \A i \in DOMAIN all : all[i] \in S
    BY AppendProperties, LenProperties
  <1>2. ToSet(all) = ToSet(blended) \cup {c}
    <2>1. /\ DOMAIN blended = 1 .. Len(blended) /\ DOMAIN all = 1 .. Len(blended) + 1
          /\ Len(blended) \in Nat /\ all[Len(blended) + 1] = c
          /\ \A i \in 1 .. Len(blended) : all[i] = blended[i]
      BY AppendProperties, LenProperties
    <2>2. 1 .. Len(blended) + 1 = (1 .. Len(blended)) \cup {Len(blended) + 1}
      BY <2>1
    <2> HIDE DEF all
    <2> QED BY <2>1, <2>2 DEF ToSet
  <1>3. BlendedWith(blended, c) = all \o FlattenSeq(more)
    BY DEF BlendedWith
  <1> HIDE DEF all
  <1>4. more \in Seq(Seq(S))
    <2>1. ASSUME NEW i \in DOMAIN all PROVE more[i] \in Seq(S)
      <3>1. CASE Adjacent(c, all[i])
        <4>1. Spanning(c, all[i]) \in S
          BY <1>1, <3>1 DEF Closed
        <4>2. more[i] = <<Spanning(c, all[i])>>
          BY <3>1
        <4> QED BY <4>1, <4>2
      <3>2. CASE ~Adjacent(c, all[i])
        BY <3>2
      <3> QED BY <3>1, <3>2
    <2>2. more = [i \in 1 .. Len(all) |-> more[i]]
      BY <1>1
    <2> HIDE DEF more
    <2>3. more \in [1 .. Len(all) -> Seq(S)]
      BY <1>1, <2>1, <2>2
    <2> QED BY <1>1, <2>3
  <1>5. FlattenSeq(more) \in Seq(S)
    BY <1>4, FlattenHas
  <1> HIDE DEF more
  <1> QED BY <1>1, <1>2, <1>3, <1>5, ConcatHas

\* blended has what was there before, and stays in the set.
LEMMA BlendedType ==
    ASSUME NEW S, Closed(S), NEW list \in Seq(S)
    PROVE  Blended(list) \in Seq(S) /\ ToSet(list) \subseteq ToSet(Blended(list))
  <1> DEFINE n == Len(list)
             X == Seq(S)
             step == [i \in Nat |-> [m \in X |-> IF i \in 1 .. n THEN BlendedWith(m, list[i]) ELSE m]]
             eq(f) == [i \in 0 .. n |-> IF i = 0 THEN <<>> ELSE BlendedWith(f[i - 1], list[i])]
             blended == CHOOSE f : f = eq(f)
  <1>1. n \in Nat /\ DOMAIN list = 1 .. n /\ \A i \in 1 .. n : list[i] \in S
    BY LenProperties
  <1>2. Blended(list) = blended[n]
    BY DEF Blended
  <1> HIDE DEF n
  <1>3. \A i \in 1 .. n, m \in X : BlendedWith(m, list[i]) \in X
    BY <1>1, BlendedWithType
  <1>4. step \in [Nat -> [X -> X]] /\ <<>> \in X
    BY <1>3
  <1> HIDE DEF X
  <1>5. PICK h : IsHistory(h, n, X, <<>>, step)
    BY <1>1, <1>4, HistoryExists
  <1>6. h \in [0 .. n -> X] /\ h[0] = <<>>
    BY <1>5 DEF IsHistory
  <1>7. ASSUME NEW i \in 1 .. n PROVE h[i] = BlendedWith(h[i - 1], list[i])
    <2>1. i \in Nat /\ i - 1 \in 0 .. n
      BY <1>1
    <2>2. h[i - 1] \in X
      BY <1>6, <2>1
    <2>3. step[i][h[i - 1]] = BlendedWith(h[i - 1], list[i])
      BY <2>1, <2>2
    <2> HIDE DEF step
    <2> QED BY <1>5, <2>3 DEF IsHistory
  <1>8. h = eq(h)
    <2>1. h = [i \in 0 .. n |-> h[i]]
      BY <1>6
    <2>2. \A i \in 0 .. n : h[i] = IF i = 0 THEN <<>> ELSE BlendedWith(h[i - 1], list[i])
      BY <1>1, <1>6, <1>7
    <2> QED BY <2>1, <2>2
  <1>9. blended = eq(blended)
    BY <1>8
  <1> HIDE DEF blended, step
  <1>10. blended[n] = h[n]
    <2>1. blended[0] = h[0]
      BY <1>1, <1>6, <1>9
    <2>2. ASSUME NEW i \in 1 .. n, blended[i - 1] = h[i - 1] PROVE blended[i] = h[i]
      BY <1>1, <1>7, <1>9, <2>2
    <2> QED BY <1>1, <2>1, <2>2, Follows
  <1>11. \A i \in 0 .. n : \A j \in 1 .. i : list[j] \in ToSet(h[i])
    <2> DEFINE T == { i \in 0 .. n : \A j \in 1 .. i : list[j] \in ToSet(h[i]) }
    <2>1. 0 \in T
      BY <1>1
    <2>2. ASSUME NEW i \in 0 .. n, i \in T, i < n PROVE i + 1 \in T
      <3>1. i + 1 \in 1 .. n /\ (i + 1) - 1 = i /\ i + 1 \in 0 .. n
        BY <1>1, <2>2
      <3>2. h[i + 1] = BlendedWith(h[i], list[i + 1]) /\ h[i] \in Seq(S) /\ list[i + 1] \in S
        BY <1>1, <1>6, <1>7, <3>1 DEF X
      <3>3. ToSet(h[i]) \cup {list[i + 1]} \subseteq ToSet(h[i + 1])
        BY <3>2, BlendedWithType
      <3>4. ASSUME NEW j \in 1 .. i + 1 PROVE list[j] \in ToSet(h[i + 1])
        <4>1. j \in 1 .. i \/ j = i + 1
          BY <3>1
        <4> QED BY <2>2, <3>3, <4>1
      <3> QED BY <3>1, <3>4
    <2>3. 0 .. n \subseteq T
      <3> HIDE DEF T
      <3> QED BY <1>1, <2>1, <2>2, InductionUpTo
    <2> QED BY <2>3
  <1>12. ToSet(list) \subseteq ToSet(h[n])
    <2>1. \A j \in 1 .. n : list[j] \in ToSet(h[n])
      BY <1>1, <1>11
    <2> QED BY <1>1, <2>1 DEF ToSet
  <1> QED BY <1>1, <1>2, <1>6, <1>10, <1>12 DEF X

-----------------------------------------------------------------------------
(* The largest blocks, and why max_blocks ends *)

\* The blocks that have cells and lie within N rows and columns.
Boxes(N) == { b \in Rects : b.bottom <= N /\ b.right <= N }

\* The largest blocks are some of those there are.
LEMMA LargestHas ==
    ASSUME NEW S, NEW list \in Seq(S)
    PROVE  /\ Largest(list) \in Seq(S)
           /\ \A i \in DOMAIN list : IsMax(list, i) => list[i] \in ToSet(Largest(list))
  <1> DEFINE parts == [i \in DOMAIN list |-> IF IsMax(list, i) THEN <<list[i]>> ELSE <<>>]
             n == Len(list)
  <1>1. n \in Nat /\ DOMAIN list = 1 .. n /\ \A i \in 1 .. n : list[i] \in S
    BY LenProperties
  <1>2. Largest(list) = FlattenSeq(parts)
    BY DEF Largest
  <1>3. parts \in Seq(Seq(S)) /\ DOMAIN parts = 1 .. n
    <2>1. ASSUME NEW i \in 1 .. n PROVE parts[i] \in Seq(S)
      <3>1. CASE IsMax(list, i)
        BY <1>1, <3>1
      <3>2. CASE ~IsMax(list, i)
        BY <1>1, <3>2
      <3> QED BY <3>1, <3>2
    <2>2. parts = [i \in 1 .. n |-> parts[i]]
      BY <1>1
    <2> HIDE DEF parts, n
    <2>3. parts \in [1 .. n -> Seq(S)]
      BY <2>1, <2>2
    <2> QED BY <1>1, <2>3
  <1>4. ASSUME NEW i \in 1 .. n, IsMax(list, i) PROVE list[i] \in ToSet(parts[i])
    <2>1. parts[i] = <<list[i]>>
      BY <1>1, <1>4
    <2> HIDE DEF parts
    <2>2. 1 \in DOMAIN parts[i] /\ parts[i][1] = list[i]
      BY <2>1
    <2> QED BY <2>2 DEF ToSet
  <1> HIDE DEF parts, n
  <1>5. /\ FlattenSeq(parts) \in Seq(S)
        /\ ToSet(FlattenSeq(parts)) = UNION { ToSet(parts[i]) : i \in DOMAIN parts }
    BY <1>3, FlattenHas
  <1>6. \A i \in 1 .. n : IsMax(list, i) => list[i] \in ToSet(FlattenSeq(parts))
    BY <1>3, <1>4, <1>5
  <1> QED BY <1>1, <1>2, <1>5, <1>6

\* Lying within is an order.
LEMMA WithinOrder ==
    ASSUME NEW a \in Block, NEW b \in Block, NEW c \in Block
    PROVE  /\ Within(a, a)
           /\ Within(a, b) /\ Within(b, c) => Within(a, c)
           /\ Within(a, b) /\ Within(b, a) => a = b
  <1>1. /\ a.top \in Nat /\ a.left \in Nat /\ a.bottom \in Nat /\ a.right \in Nat
        /\ b.top \in Nat /\ b.left \in Nat /\ b.bottom \in Nat /\ b.right \in Nat
        /\ c.top \in Nat /\ c.left \in Nat /\ c.bottom \in Nat /\ c.right \in Nat
    BY CellIn
  <1>2. Within(a, a) /\ (Within(a, b) /\ Within(b, c) => Within(a, c))
    BY <1>1 DEF Within
  <1>3. ASSUME Within(a, b), Within(b, a) PROVE a = b
    <2>1. a.top = b.top /\ a.left = b.left /\ a.bottom = b.bottom /\ a.right = b.right
      BY <1>1, <1>3 DEF Within
    <2> QED BY <2>1 DEF Block
  <1> QED BY <1>2, <1>3

\* There are finitely many of them.
LEMMA BoxesFinite == ASSUME NEW N \in Nat PROVE IsFiniteSet(Boxes(N))
  <1> DEFINE P == (0 .. N) \X (0 .. N)
             corners == [b \in Boxes(N) |-> <<<<b.top, b.left>>, <<b.bottom, b.right>>>>]
  <1>1. IsFiniteSet(P \X P)
    <2>1. IsFiniteSet(0 .. N)
      BY FS_Interval
    <2>2. IsFiniteSet(P)
      BY <2>1, FS_Product
    <2> QED BY <2>2, FS_Product
  <1>2. ASSUME NEW b \in Boxes(N)
        PROVE  /\ b \in Block /\ b.top \in 0 .. N /\ b.left \in 0 .. N
               /\ b.bottom \in 0 .. N /\ b.right \in 0 .. N
    <2>1. b \in Block /\ b.top <= b.bottom /\ b.left <= b.right /\ b.bottom <= N /\ b.right <= N
      BY DEF Boxes, Rects
    <2>2. b.top \in Nat /\ b.left \in Nat /\ b.bottom \in Nat /\ b.right \in Nat
      BY <2>1, CellIn
    <2> QED BY <2>1, <2>2
  <1>3. corners \in [Boxes(N) -> P \X P]
    BY <1>2
  <1>4. ASSUME NEW a \in Boxes(N), NEW b \in Boxes(N), corners[a] = corners[b] PROVE a = b
    BY <1>2, <1>4 DEF Block
  <1>5. corners \in Injection(Boxes(N), P \X P)
    <2> HIDE DEF corners
    <2> QED BY <1>3, <1>4 DEF Injection, IsInjective
  <1> QED BY <1>1, <1>5, FS_Injection

\* The blocks another one lies in.
Around(N, b) == { r \in Boxes(N) : Within(b, r) }

\* Each block lies in one of the largest.
LEMMA LargestCovers ==
    ASSUME NEW N \in Nat, NEW list \in Seq(Boxes(N)), NEW i \in DOMAIN list
    PROVE  \E x \in ToSet(Largest(list)) : Within(list[i], x)
  <1> DEFINE n == Len(list)
             T == { j \in 1 .. n : Within(list[i], list[j]) }
             M == { Around(N, list[j]) : j \in T }
             R == StrictSubsetOrdering(Boxes(N))
  <1>1. n \in Nat /\ DOMAIN list = 1 .. n /\ \A j \in 1 .. n : list[j] \in Boxes(N)
    BY LenProperties
  <1> HIDE DEF n
  <1>2. Boxes(N) \subseteq Block
    BY DEF Boxes, Rects
  <1>3. i \in T
    BY <1>1, <1>2, WithinOrder
  <1>4. PICK u \in M : \A v \in M : ~(<<v, u>> \in R)
    <2>1. IsWellFoundedOn(R, FiniteSubsetsOf(Boxes(N)))
      BY FS_StrictSubsetOrderingWellFounded
    <2>2. M \subseteq FiniteSubsetsOf(Boxes(N)) /\ M # {}
      <3>1. \A b : Around(N, b) \in SUBSET Boxes(N)
        BY DEF Around
      <3>2. \A U \in SUBSET Boxes(N) : IsFiniteSet(U)
        BY BoxesFinite, FS_Subset
      <3> HIDE DEF T
      <3> QED BY <1>3, <3>1, <3>2 DEF FiniteSubsetsOf
    <2> HIDE DEF M, R
    <2> QED BY <2>1, <2>2, WFMin
  <1>5. PICK o \in T : u = Around(N, list[o])
    BY <1>4
  <1>6. ASSUME NEW k \in 1 .. n, Within(list[o], list[k]) PROVE list[k] = list[o]
    <2>1. list[i] \in Boxes(N) /\ list[o] \in Boxes(N) /\ list[k] \in Boxes(N) /\ i \in 1 .. n
      BY <1>1
    <2>2. k \in T
      BY <1>2, <1>5, <1>6, <2>1, WithinOrder
    <2> DEFINE v == Around(N, list[k])
    <2>3. v \subseteq u /\ u \in SUBSET Boxes(N) /\ v \in SUBSET Boxes(N)
      <3>1. \A r \in Boxes(N) : Within(list[k], r) => Within(list[o], r)
        BY <1>2, <1>6, <2>1, WithinOrder
      <3> QED BY <1>5, <3>1 DEF Around
    <2>4. v = u
      <3>1. v \in M
        BY <2>2
      <3> HIDE DEF v, M
      <3>2. ~(<<v, u>> \in R)
        BY <1>4, <3>1
      <3> QED BY <2>3, <3>2 DEF StrictSubsetOrdering
    <2>5. list[o] \in v
      BY <1>2, <1>5, <2>1, <2>4, WithinOrder DEF Around
    <2>6. Within(list[k], list[o])
      BY <2>5 DEF Around
    <2> QED BY <1>2, <1>6, <2>1, <2>6, WithinOrder
  <1> DEFINE J == { j \in 1 .. n : list[j] = list[o] }
             m == Max(J)
  <1>7. m \in J /\ \A x \in J : m >= x
    <2>1. J \subseteq 0 .. n /\ J # {}
      BY <1>1
    <2> HIDE DEF J
    <2> QED BY <1>1, <2>1, MaxIn
  <1> HIDE DEF m
  <1>8. ASSUME NEW k \in DOMAIN list \ {m}, Within(list[m], list[k])
        PROVE  list[m] = list[k] /\ k < m
    <2>1. k \in 1 .. n /\ m \in 1 .. n /\ list[m] = list[o]
      BY <1>1, <1>7
    <2>2. list[k] = list[o]
      BY <1>6, <1>8, <2>1
    <2>3. m >= k
      BY <1>7, <2>1, <2>2
    <2> QED BY <1>1, <1>8, <2>1, <2>2, <2>3
  <1>9. m \in DOMAIN list /\ Within(list[i], list[m])
    BY <1>1, <1>7
  <1>10. IsMax(list, m)
    BY <1>8 DEF IsMax
  <1> QED BY <1>9, <1>10, LargestHas

\* The blocks that lie in none of a list.
Uncovered(N, list) == { r \in Boxes(N) : \A x \in ToSet(list) : ~Within(r, x) }

\* A pass of max_blocks that makes a new block leaves fewer of them.
LEMMA PassCovers ==
    ASSUME NEW N \in Nat, NEW S, S \subseteq Boxes(N), Closed(S), NEW list \in Seq(S),
           Grew(list, Blended(list))
    PROVE  /\ Uncovered(N, Largest(Blended(list))) \subseteq Uncovered(N, list)
           /\ Uncovered(N, Largest(Blended(list))) # Uncovered(N, list)
  <1> DEFINE blended == Blended(list)
             large == Largest(blended)
  <1>1. blended \in Seq(S) /\ ToSet(list) \subseteq ToSet(blended)
    BY BlendedType
  <1>2. blended \in Seq(Boxes(N))
    <2> HIDE DEF blended
    <2> QED BY <1>1
  <1> HIDE DEF blended
  <1>3. \A i \in DOMAIN blended : \E x \in ToSet(large) : Within(blended[i], x)
    BY <1>2, LargestCovers
  <1> HIDE DEF large
  <1>4. \A r, x, y \in Boxes(N) : Within(r, x) /\ Within(x, y) => Within(r, y)
    BY WithinOrder DEF Boxes, Rects
  <1>5. ToSet(blended) \subseteq Boxes(N) /\ ToSet(large) \subseteq Boxes(N)
    <2>1. large \in Seq(Boxes(N))
      BY <1>2, LargestHas DEF large
    <2>2. \A l \in Seq(Boxes(N)) : ToSet(l) \subseteq Boxes(N)
      BY LenProperties DEF ToSet
    <2> QED BY <1>2, <2>1, <2>2
  <1>6. ASSUME NEW r \in Uncovered(N, large) PROVE r \in Uncovered(N, list)
    <2>1. SUFFICES ASSUME NEW x \in ToSet(list), Within(r, x) PROVE FALSE
      BY <1>6 DEF Uncovered
    <2>2. PICK i \in DOMAIN blended : x = blended[i]
      BY <1>1 DEF ToSet
    <2>3. PICK y \in ToSet(large) : Within(x, y)
      BY <1>3, <2>2
    <2>4. r \in Boxes(N) /\ x \in Boxes(N) /\ y \in Boxes(N)
      BY <1>1, <1>5, <1>6 DEF Uncovered
    <2>5. Within(r, y)
      BY <1>4, <2>1, <2>3, <2>4
    <2> QED BY <1>6, <2>3, <2>5 DEF Uncovered
  <1>7. PICK i \in DOMAIN blended : \A b \in ToSet(list) : ~Within(blended[i], b)
    BY DEF Grew, blended
  <1>8. blended[i] \in ToSet(blended)
    BY DEF ToSet
  <1>9. blended[i] \in Uncovered(N, list)
    BY <1>5, <1>7, <1>8 DEF Uncovered
  <1>10. blended[i] \notin Uncovered(N, large)
    BY <1>3 DEF Uncovered
  <1> QED BY <1>6, <1>9, <1>10 DEF large, blended

-----------------------------------------------------------------------------
(* The result of max_blocks *)

\* What a step leads to again and again, from each value.
IsIterate(it, X, next) ==
    /\ it \in [X -> [Nat -> X]]
    /\ \A s \in X : /\ it[s][0] = s
                    /\ \A n \in Nat : /\ it[s][n + 1] = next[it[s][n]]
                                      /\ it[s][n + 1] = it[next[s]][n]

LEMMA IterateExists ==
    ASSUME NEW X, NEW next \in [X -> X]
    PROVE  \E it : IsIterate(it, X, next)
  <1> DEFINE step == [i \in Nat |-> next]
             past(s, n) == CHOOSE h : IsHistory(h, n, X, s, step)
             it == [s \in X |-> [n \in Nat |-> past(s, n)[n]]]
  <1>1. step \in [Nat -> [X -> X]]
    OBVIOUS
  <1>2. ASSUME NEW s \in X, NEW n \in Nat
        PROVE  IsHistory(past(s, n), n, X, s, step)
    <2>1. \E h : IsHistory(h, n, X, s, step)
      BY <1>1, HistoryExists
    <2> HIDE DEF step
    <2> QED BY <2>1
  <1>3. ASSUME NEW i \in Nat PROVE step[i] = next
    OBVIOUS
  <1> HIDE DEF past, step
  <1>4. it \in [X -> [Nat -> X]]
    BY <1>2 DEF IsHistory
  <1>5. ASSUME NEW s \in X
        PROVE  /\ it[s][0] = s
               /\ \A n \in Nat : it[s][n + 1] = next[it[s][n]]
    <2>1. it[s][0] = s
      <3>1. past(s, 0)[0] = s
        BY <1>2 DEF IsHistory
      <3> QED BY <3>1
    <2>2. ASSUME NEW n \in Nat PROVE it[s][n + 1] = next[it[s][n]]
      <3> DEFINE g == past(s, n)
                 h == past(s, n + 1)
      <3>1. IsHistory(g, n, X, s, step) /\ IsHistory(h, n + 1, X, s, step)
        BY <1>2
      <3>2. it[s][n] = g[n] /\ it[s][n + 1] = h[n + 1]
        OBVIOUS
      <3> HIDE DEF g, h, it
      <3>3. g[n] = h[n]
        <4>1. n + 1 \in Nat /\ n <= n + 1 /\ n \in 0 .. n
          OBVIOUS
        <4> QED BY <3>1, <4>1, HistoryUnique
      <3>4. h[n + 1] = step[n + 1][h[n]]
        <4>1. n + 1 \in 1 .. n + 1 /\ (n + 1) - 1 = n
          OBVIOUS
        <4> QED BY <3>1, <4>1 DEF IsHistory
      <3> QED BY <1>3, <3>2, <3>3, <3>4
    <2> QED BY <2>1, <2>2
  <1> HIDE DEF it
  <1>6. ASSUME NEW s \in X PROVE \A n \in Nat : it[s][n + 1] = it[next[s]][n]
    <2> DEFINE S == { n \in Nat : it[s][n + 1] = it[next[s]][n] }
    <2>1. next[s] \in X
      OBVIOUS
    <2>2. 0 \in S
      BY <1>5, <2>1
    <2>3. ASSUME NEW n \in Nat, n \in S PROVE n + 1 \in S
      BY <1>5, <2>1, <2>3
    <2>4. Nat \subseteq S
      <3> HIDE DEF S
      <3> QED BY <2>2, <2>3, Induction
    <2> QED BY <2>4
  <1>7. IsIterate(it, X, next)
    BY <1>4, <1>5, <1>6 DEF IsIterate
  <1> QED BY <1>7

\* A loop that goes on from next[s] while it is not done has a result from every s
\* for which it ends, and some function satisfies the equation of the loop.
LEMMA LoopExists ==
    ASSUME NEW X, NEW next \in [X -> X], NEW more \in [X -> BOOLEAN]
    PROVE  \E f : f = [s \in X |-> IF more[s] THEN f[next[s]] ELSE next[s]]
  <1>0. PICK it : IsIterate(it, X, next)
    BY IterateExists
  <1>1. /\ it \in [X -> [Nat -> X]]
        /\ \A s \in X : /\ it[s][0] = s
                        /\ \A n \in Nat : /\ it[s][n + 1] = next[it[s][n]]
                                          /\ it[s][n + 1] = it[next[s]][n]
    BY <1>0 DEF IsIterate
  <1> DEFINE ends(s, n) == ~more[it[s][n]] /\ \A m \in 0 .. n - 1 : more[it[s][m]]
             results(s) == { v \in X : \E n \in Nat : ends(s, n) /\ v = it[s][n + 1] }
             f == [s \in X |-> CHOOSE v : v \in results(s)]
  <1>2. ASSUME NEW s \in X, more[s] PROVE results(s) = results(next[s])
    <2> DEFINE t == next[s]
    <2>1. t \in X /\ \A n \in Nat : it[s][n + 1] = it[t][n]
      BY <1>1
    <2> HIDE DEF t
    <2>2. ASSUME NEW n \in Nat PROVE ends(s, n + 1) <=> ends(t, n)
      <3>1. it[s][n + 1] = it[t][n]
        BY <2>1
      <3>2. ASSUME \A m \in 0 .. n : more[it[s][m]], NEW m \in 0 .. n - 1
            PROVE  more[it[t][m]]
        <4>1. m + 1 \in 0 .. n /\ m \in Nat
          OBVIOUS
        <4> QED BY <2>1, <3>2, <4>1
      <3>3. ASSUME \A m \in 0 .. n - 1 : more[it[t][m]], NEW m \in 0 .. n
            PROVE  more[it[s][m]]
        <4>1. CASE m = 0
          BY <1>1, <1>2, <4>1
        <4>2. CASE m # 0
          <5>1. m - 1 \in 0 .. n - 1 /\ m - 1 \in Nat /\ (m - 1) + 1 = m
            BY <4>2
          <5>2. it[s][m] = it[t][m - 1]
            BY <2>1, <5>1
          <5> QED BY <3>3, <5>1, <5>2
        <4> QED BY <4>1, <4>2
      <3>4. (n + 1) - 1 = n
        OBVIOUS
      <3> QED BY <3>1, <3>2, <3>3, <3>4
    <2>3. ~ends(s, 0)
      BY <1>1, <1>2
    <2>4. ASSUME NEW v \in results(s) PROVE v \in results(t)
      <3>1. PICK n \in Nat : ends(s, n) /\ v = it[s][n + 1]
        OBVIOUS
      <3>2. n # 0
        BY <2>3, <3>1
      <3>3. n - 1 \in Nat /\ (n - 1) + 1 = n
        BY <3>2
      <3>4. ends(t, n - 1) /\ v = it[t][(n - 1) + 1]
        <4> HIDE DEF ends
        <4>1. ends(t, n - 1)
          BY <2>2, <3>1, <3>3
        <4>2. it[s][n + 1] = it[t][n]
          BY <2>1
        <4> QED BY <3>1, <3>3, <4>1, <4>2
      <3>5. v \in X
        OBVIOUS
      <3> HIDE DEF ends
      <3> QED BY <3>3, <3>4, <3>5
    <2>5. ASSUME NEW v \in results(t) PROVE v \in results(s)
      <3>1. PICK n \in Nat : ends(t, n) /\ v = it[t][n + 1]
        OBVIOUS
      <3>2. v \in X /\ n + 1 \in Nat
        OBVIOUS
      <3> HIDE DEF ends
      <3>3. ends(s, n + 1) /\ v = it[s][(n + 1) + 1]
        BY <2>1, <2>2, <3>1, <3>2
      <3> QED BY <3>2, <3>3
    <2> HIDE DEF results
    <2> QED BY <2>4, <2>5 DEF t
  <1>3. ASSUME NEW s \in X, ~more[s] PROVE results(s) = {next[s]}
    <2>0. it[s][0] = s /\ 0 .. 0 - 1 = {} /\ 0 \in Nat
      BY <1>1
    <2>1. ends(s, 0) /\ it[s][0 + 1] = next[s] /\ next[s] \in X
      <3>1. ends(s, 0)
        BY <1>3, <2>0
      <3>2. it[s][0 + 1] = next[it[s][0]]
        BY <1>1, <2>0
      <3> QED BY <2>0, <3>1, <3>2
    <2>2. ASSUME NEW n \in Nat, ends(s, n) PROVE n = 0
      <3>1. CASE n # 0
        <4>1. 0 \in 0 .. n - 1
          BY <3>1
        <4>2. more[it[s][0]]
          BY <2>2, <4>1
        <4> QED BY <1>1, <1>3, <4>2
      <3> QED BY <3>1
    <2> HIDE DEF ends
    <2> QED BY <2>1, <2>2
  <1>4. ASSUME NEW s \in X
        PROVE  f[s] = IF more[s] THEN f[next[s]] ELSE next[s]
    <2> HIDE DEF results
    <2>1. next[s] \in X /\ f[s] = CHOOSE v : v \in results(s)
      OBVIOUS
    <2>2. f[next[s]] = CHOOSE v : v \in results(next[s])
      BY <2>1
    <2>3. CASE more[s]
      BY <1>2, <2>1, <2>2, <2>3
    <2>4. CASE ~more[s]
      <3>1. results(s) = {next[s]}
        BY <1>3, <2>4
      <3>2. f[s] \in results(s)
        BY <2>1, <3>1
      <3> QED BY <2>4, <3>1, <3>2
    <2> QED BY <2>3, <2>4
  <1>5. f = [s \in X |-> IF more[s] THEN f[next[s]] ELSE next[s]]
    <2> HIDE DEF results
    <2>1. f = [s \in X |-> f[s]]
      OBVIOUS
    <2> HIDE DEF f
    <2> QED BY <1>4, <2>1
  <1> QED BY <1>5

-----------------------------------------------------------------------------

\* max_blocks ends, with blocks of every set that its passes do not leave.
LEMMA MaxBlocksType ==
    ASSUME NEW N \in Nat, NEW S, S \subseteq Boxes(N), Closed(S), NEW list \in Seq(S)
    PROVE  MaxBlocks(list) \in Seq(S)
  <1> DEFINE X == Seq(Block)
             next == [s \in X |-> Largest(Blended(s))]
             more == [s \in X |-> Grew(s, Blended(s))]
             eq(f) == [s \in X |-> IF Grew(s, Blended(s)) THEN f[Largest(Blended(s))]
                                   ELSE Largest(Blended(s))]
             max_blocks == CHOOSE f : f = eq(f)
  <1>1. MaxBlocks(list) = max_blocks[list]
    BY DEF MaxBlocks
  <1>2. next \in [X -> X]
    <2>1. Closed(Block)
      BY SpanningType DEF Closed
    <2>2. \A s \in X : Blended(s) \in X
      BY <2>1, BlendedType
    <2>3. \A s \in X : Largest(Blended(s)) \in X
      BY <2>2, LargestHas
    <2> HIDE DEF X
    <2> QED BY <2>3
  <1>3. more \in [X -> BOOLEAN]
    BY DEF Grew
  <1>4. \E f : f = eq(f)
    <2>1. PICK f : f = [s \in X |-> IF more[s] THEN f[next[s]] ELSE next[s]]
      <3> HIDE DEF next, more, X
      <3> QED BY <1>2, <1>3, LoopExists
    <2>2. \A s \in X : /\ more[s] = Grew(s, Blended(s))
                       /\ next[s] = Largest(Blended(s))
      OBVIOUS
    <2> HIDE DEF next, more, X
    <2>3. f = eq(f)
      BY <2>1, <2>2
    <2> QED BY <2>3
  <1>5. max_blocks = eq(max_blocks)
    BY <1>4
  <1> HIDE DEF max_blocks, next, more
  <1>6. \A s \in X : max_blocks[s] = IF Grew(s, Blended(s)) THEN max_blocks[Largest(Blended(s))]
                                     ELSE Largest(Blended(s))
    BY <1>5
  <1>7. ASSUME NEW s \in Seq(S) PROVE s \in X /\ Largest(Blended(s)) \in Seq(S)
    <2>1. S \subseteq Block
      BY DEF Boxes, Rects
    <2>2. Blended(s) \in Seq(S)
      BY BlendedType
    <2> QED BY <2>1, <2>2, LargestHas
  <1> DEFINE bad == { s \in Seq(S) : max_blocks[s] \notin Seq(S) }
             left == { Uncovered(N, s) : s \in bad }
  <1>8. SUFFICES ASSUME bad # {} PROVE FALSE
    BY <1>1
  <1> DEFINE R == StrictSubsetOrdering(Boxes(N))
  <1>9. PICK u \in left : \A v \in left : ~(<<v, u>> \in R)
    <2>1. IsWellFoundedOn(R, FiniteSubsetsOf(Boxes(N)))
      BY FS_StrictSubsetOrderingWellFounded
    <2>2. left \subseteq FiniteSubsetsOf(Boxes(N)) /\ left # {}
      <3>1. \A s : Uncovered(N, s) \in SUBSET Boxes(N)
        BY DEF Uncovered
      <3>2. \A T \in SUBSET Boxes(N) : IsFiniteSet(T)
        BY BoxesFinite, FS_Subset
      <3> HIDE DEF bad
      <3> QED BY <1>8, <3>1, <3>2 DEF FiniteSubsetsOf
    <2> HIDE DEF left, R
    <2> QED BY <2>1, <2>2, WFMin
  <1>10. PICK s \in bad : u = Uncovered(N, s)
    BY <1>9
  <1>11. Grew(s, Blended(s))
    BY <1>6, <1>7, <1>10
  <1> DEFINE t == Largest(Blended(s))
  <1>12. t \in bad
    BY <1>6, <1>7, <1>10, <1>11
  <1>13. Uncovered(N, t) \in left
    BY <1>12
  <1>14. Uncovered(N, t) \subseteq u /\ Uncovered(N, t) # u
    BY <1>10, <1>11, PassCovers
  <1>15. <<Uncovered(N, t), u>> \in R
    <2>1. u \in SUBSET Boxes(N) /\ Uncovered(N, t) \in SUBSET Boxes(N)
      BY <1>10 DEF Uncovered
    <2> HIDE DEF t
    <2> QED BY <1>14, <2>1 DEF StrictSubsetOrdering
  <1> QED BY <1>9, <1>13, <1>15

-----------------------------------------------------------------------------
(* The block that is found *)

\* Within the free cells and N rows and columns max_blocks stays.
Free(N, C) == { b \in Boxes(N) : Cells(b) \subseteq C }

LEMMA FreeClosed == ASSUME NEW N \in Nat, NEW C PROVE Closed(Free(N, C))
  <1>1. SUFFICES ASSUME NEW a \in Free(N, C), NEW b \in Free(N, C), Adjacent(a, b)
                 PROVE  Spanning(a, b) \in Free(N, C)
    BY DEF Closed
  <1>2. /\ a \in Rects /\ b \in Rects /\ Cells(a) \subseteq C /\ Cells(b) \subseteq C
        /\ a.bottom <= N /\ a.right <= N /\ b.bottom <= N /\ b.right <= N
    BY DEF Free, Boxes
  <1>3. /\ Spanning(a, b) \in Rects
        /\ Cells(Spanning(a, b)) \subseteq Cells(a) \cup Cells(b)
        /\ Spanning(a, b).bottom \in {a.bottom, b.bottom}
        /\ Spanning(a, b).right \in {a.right, b.right}
    BY <1>1, <1>2, SpanningIn
  <1> QED BY <1>2, <1>3 DEF Free, Boxes

\* The block that allocationFit finds is one that max_blocks made, and large enough.
LEMMA AllocationFitIn ==
    ASSUME NEW N \in Nat, NEW S, S \subseteq Boxes(N), Closed(S), NEW list \in Seq(S),
           NEW width \in Nat, NEW height \in Nat,
           AllocationFit(list, width, height) # NoFit
    PROVE  /\ AllocationFit(list, width, height).position \in S
           /\ width <= Columns(AllocationFit(list, width, height).position)
           /\ height <= Rows(AllocationFit(list, width, height).position)
  <1> DEFINE maxFree == MaxBlocks(list)
             count(i) == Columns(maxFree[i]) * Rows(maxFree[i]) - width * height
             fits == { i \in DOMAIN maxFree :
                         width <= Columns(maxFree[i]) /\ height <= Rows(maxFree[i]) }
             best == { i \in fits : \A j \in fits : count(i) <= count(j) }
             fit  == [heuristic |-> count(Max(best)), position |-> maxFree[Max(best)]]
             n    == Len(maxFree)
  <1>1. AllocationFit(list, width, height) = IF fits = {} THEN NoFit ELSE fit
    BY DEF AllocationFit
  <1>2. maxFree \in Seq(S)
    BY MaxBlocksType
  <1> HIDE DEF maxFree
  <1>3. n \in Nat /\ DOMAIN maxFree = 1 .. n /\ \A i \in 1 .. n : maxFree[i] \in S
    BY <1>2, LenProperties
  <1>4. fits # {}
    BY <1>1
  <1> DEFINE area(i) == Columns(maxFree[i]) * Rows(maxFree[i])
  <1>5. ASSUME NEW i \in 1 .. n PROVE area(i) \in Nat
    <2> DEFINE b == maxFree[i]
    <2>1. b \in Block /\ b.top <= b.bottom /\ b.left <= b.right
      BY <1>3 DEF Boxes, Rects
    <2>2. b.top \in Nat /\ b.left \in Nat /\ b.bottom \in Nat /\ b.right \in Nat
      BY <2>1, CellIn
    <2>3. Columns(b) \in Nat /\ Rows(b) \in Nat
      BY <2>1, <2>2 DEF Columns, Rows
    <2>4. \A x, y \in Nat : x * y \in Nat
      OBVIOUS
    <2> QED BY <2>3, <2>4
  <1>6. width * height \in Nat
    OBVIOUS
  <1> DEFINE A == { area(i) : i \in fits }
  <1>7. Min(A) \in A /\ \A x \in A : Min(A) <= x
    <2>1. A # {} /\ \A i \in fits : area(i) \in Nat
      <3> HIDE DEF area
      <3> QED BY <1>3, <1>4, <1>5
    <2>2. A \subseteq Nat
      <3> HIDE DEF area, fits
      <3> QED BY <2>1
    <2> HIDE DEF A
    <2> QED BY <2>1, <2>2, MinIn
  <1>8. best # {}
    <2>1. PICK i \in fits : \A j \in fits : area(i) <= area(j)
      <3> HIDE DEF area, fits
      <3> QED BY <1>7
    <2>2. ASSUME NEW j \in fits PROVE count(i) <= count(j)
      <3> DEFINE size == width * height
      <3>1. area(i) \in Nat /\ area(j) \in Nat
        <4>1. i \in 1 .. n /\ j \in 1 .. n
          BY <1>3
        <4> HIDE DEF area
        <4> QED BY <1>5, <4>1
      <3>3. size \in Nat /\ area(i) <= area(j)
        BY <1>6, <2>1
      <3> HIDE DEF area, size
      <3>4. area(i) - size <= area(j) - size
        BY ONLY <3>1, <3>3
      <3> QED BY <3>4 DEF area, size
    <2> HIDE DEF fits, count
    <2> QED BY <2>2
  <1>9. Max(best) \in best
    <2>1. best \subseteq 0 .. n
      BY <1>3
    <2> HIDE DEF best, n
    <2> QED BY <1>3, <1>8, <2>1, MaxIn
  <1>10. Max(best) \in fits
    <2> HIDE DEF fits, count
    <2> QED BY <1>9
  <1> DEFINE m == Max(best)
  <1>11. AllocationFit(list, width, height).position = maxFree[m]
    <2>1. AllocationFit(list, width, height) = fit
      <3> HIDE DEF fits, fit
      <3> QED BY <1>1, <1>4
    <2>2. fit.position = maxFree[m]
      <3> HIDE DEF best, count
      <3> QED OBVIOUS
    <2> HIDE DEF fit
    <2> QED BY <2>1, <2>2
  <1> HIDE DEF m
  <1> QED BY <1>3, <1>10, <1>11 DEF m

\* A function lies in the block that was found for it.
LEMMA OccupiedIn ==
    ASSUME NEW b \in Rects, NEW width \in Nat \ {0}, NEW height \in Nat \ {0},
           width <= Columns(b), height <= Rows(b)
    PROVE  /\ Occupied(b, width, height) \in Rects
           /\ Cells(Occupied(b, width, height)) \subseteq Cells(b)
           /\ Cells(Occupied(b, width, height)) = Promise!Rectangle(b.top, b.left, width, height)
           /\ b.top + height - 1 <= b.bottom /\ b.left + width - 1 <= b.right
  <1> DEFINE r == b.top + height - 1
             c == b.left + width - 1
             o == Occupied(b, width, height)
  <1>1. /\ b \in Block /\ b.top <= b.bottom /\ b.left <= b.right
        /\ b.top \in Nat /\ b.left \in Nat /\ b.bottom \in Nat /\ b.right \in Nat
    BY CellIn DEF Rects
  <1>2. /\ r \in Nat /\ b.top <= r /\ r <= b.bottom
        /\ c \in Nat /\ b.left <= c /\ c <= b.right
    BY <1>1 DEF Columns, Rows
  <1>3. o = Rect(b.top, b.left, r, c)
    BY DEF Occupied
  <1>4. Cells(o) = Promise!Rectangle(b.top, b.left, width, height)
    BY <1>3 DEF Cells, Rect, Promise!Rectangle
  <1> HIDE DEF o, r, c
  <1>5. /\ o \in Rects
        /\ \A x, y \in Nat : <<x, y>> \in Cells(o) <=> b.top <= x /\ x <= r /\ b.left <= y /\ y <= c
    BY <1>1, <1>2, <1>3, RectIn
  <1>6. Cells(o) \subseteq Cells(b)
    <2>1. \A x, y \in Nat : <<x, y>> \in Cells(o) => <<x, y>> \in Cells(b)
      <3>1. SUFFICES ASSUME NEW x \in Nat, NEW y \in Nat, <<x, y>> \in Cells(o)
                     PROVE  <<x, y>> \in Cells(b)
        OBVIOUS
      <3>2. b.top <= x /\ x <= r /\ b.left <= y /\ y <= c
        BY <1>5, <3>1
      <3>3. b.top <= x /\ x <= b.bottom /\ b.left <= y /\ y <= b.right
        BY <1>1, <1>2, <3>2
      <3> QED BY <1>1, <3>3, CellIn
    <2>2. Cells(o) \subseteq Nat \X Nat
      BY <1>5, CellIn DEF Rects, Grid
    <2> QED BY <2>1, <2>2
  <1> QED BY <1>2, <1>4, <1>5, <1>6 DEF o, r, c

\* The whole device is a block, and a block within it does not reach beyond it.
LEMMA WholeIn ==
    /\ Whole(Width, Height) \in Rects
    /\ \A b \in Rects : Cells(b) \subseteq Cells(Whole(Width, Height)) =>
          /\ 1 <= b.top /\ b.bottom <= Height
          /\ 1 <= b.left /\ b.right <= Width
  <1> DEFINE w == Whole(Width, Height)
  <1>1. Width \in Nat /\ Height \in Nat /\ 1 <= Height /\ 1 <= Width /\ 1 \in Nat
    BY SizeAssumption
  <1>2. /\ w \in Rects
        /\ \A x, y \in Nat : <<x, y>> \in Cells(w) <=> 1 <= x /\ x <= Height /\ 1 <= y /\ y <= Width
    BY <1>1, RectIn DEF Whole
  <1>3. ASSUME NEW b \in Rects, Cells(b) \subseteq Cells(w)
        PROVE  1 <= b.top /\ b.bottom <= Height /\ 1 <= b.left /\ b.right <= Width
    <2>1. /\ b \in Block /\ b.top <= b.bottom /\ b.left <= b.right
          /\ b.top \in Nat /\ b.left \in Nat /\ b.bottom \in Nat /\ b.right \in Nat
      BY CellIn DEF Rects
    <2>2. <<b.top, b.left>> \in Cells(b) /\ <<b.bottom, b.right>> \in Cells(b)
      BY <2>1, CellIn
    <2>3. <<b.top, b.left>> \in Cells(w) /\ <<b.bottom, b.right>> \in Cells(w)
      BY <1>3, <2>2
    <2> QED BY <1>2, <2>1, <2>3
  <1> QED BY <1>2, <1>3

-----------------------------------------------------------------------------
(* The invariant, and the steps of the device *)

Device == Cells(Whole(Width, Height))

CellsTaken == UNION { Cells(occupationTable[k]) : k \in Mapped }

\* The functions occupy disjoint blocks of the device, and the free blocks have
\* each of the other cells once.
IInv ==
    /\ occupationTable \in [Mapped -> Rects]
    /\ \A k \in Mapped : Cells(occupationTable[k]) \subseteq Device
    /\ \A j, k \in Mapped :
          j # k => Cells(occupationTable[j]) \cap Cells(occupationTable[k]) = {}
    /\ Exact(freeSpace, Device \ CellsTaken)

\* Initially the whole device is free.
LEMMA InitExact == Init => IInv
  <1>1. SUFFICES ASSUME Init PROVE IInv
    OBVIOUS
  <1>2. Mapped = {} /\ freeSpace = <<Whole(Width, Height)>>
    BY <1>1 DEF Init, Mapped
  <1>3. occupationTable \in [Mapped -> Rects]
    BY <1>1, <1>2 DEF Init
  <1>4. CellsTaken = {}
    BY <1>2 DEF CellsTaken
  <1>5. Exact(freeSpace, Device)
    BY <1>2, OneExact, WholeIn DEF Device
  <1>6. Device \ CellsTaken = Device
    BY <1>4
  <1> QED BY <1>2, <1>3, <1>5, <1>6 DEF IInv

\* A list is one of each set that has its members.
LEMMA ListInto ==
    ASSUME NEW R, NEW S, NEW list \in Seq(R), \A i \in DOMAIN list : list[i] \in S
    PROVE  list \in Seq(S)
  <1> DEFINE n == Len(list)
  <1>1. n \in Nat /\ DOMAIN list = 1 .. n /\ list \in [1 .. n -> R]
    BY LenProperties
  <1> HIDE DEF n
  <1>2. list \in [1 .. n -> S]
    BY <1>1
  <1> QED BY <1>1, <1>2

\* Where W0 puts a function.
LEMMA AddedFits ==
    ASSUME IInv, NEW width \in Nat \ {0}, NEW height \in Nat \ {0},
           AllocationFit(freeSpace, width, height) # NoFit
    PROVE  LET p == AllocationFit(freeSpace, width, height).position
               o == Occupied(p, width, height)
           IN  /\ o \in Rects
               /\ Cells(o) \subseteq Device \ CellsTaken
               /\ Cells(o) \in Promise!Places(width, height)
  <1> DEFINE C == Device \ CellsTaken
             N == Width + Height
             S == Free(N, C)
             p == AllocationFit(freeSpace, width, height).position
             o == Occupied(p, width, height)
  <1>1. N \in Nat /\ Width \in Nat /\ Height \in Nat /\ Width <= N /\ Height <= N
    BY SizeAssumption
  <1>2. freeSpace \in Seq(Rects) /\ Apart(freeSpace) /\ Covered(freeSpace) = C
    BY DEF IInv, Exact
  <1>3. S \subseteq Boxes(N) /\ Closed(S)
    <2> HIDE DEF N, C
    <2> QED BY <1>1, FreeClosed DEF Free
  <1>4. freeSpace \in Seq(S)
    <2>1. \A i \in DOMAIN freeSpace : freeSpace[i] \in Rects
      BY <1>2, LenProperties
    <2>2. ASSUME NEW i \in DOMAIN freeSpace PROVE freeSpace[i] \in S
      <3> DEFINE b == freeSpace[i]
      <3>1. b \in Rects /\ Cells(b) \subseteq C /\ Cells(b) \subseteq Device
        BY <1>2, <2>1 DEF Covered
      <3>2. b.bottom <= Height /\ b.right <= Width
        BY <3>1, WholeIn DEF Device
      <3>3. b.bottom \in Nat /\ b.right \in Nat
        BY <3>1, CellIn DEF Rects
      <3> HIDE DEF b, N
      <3>4. b.bottom <= N /\ b.right <= N
        BY <1>1, <3>2, <3>3
      <3> QED BY <3>1, <3>4 DEF Free, Boxes, b
    <2> HIDE DEF S
    <2> QED BY <1>2, <2>2, ListInto
  <1>5. p \in S /\ width <= Columns(p) /\ height <= Rows(p)
    <2> HIDE DEF S, N
    <2> QED BY <1>1, <1>3, <1>4, AllocationFitIn
  <1>6. p \in Rects /\ Cells(p) \subseteq C
    BY <1>5 DEF Free, Boxes
  <1> HIDE DEF p
  <1>7. /\ o \in Rects /\ Cells(o) \subseteq Cells(p)
        /\ Cells(o) = Promise!Rectangle(p.top, p.left, width, height)
        /\ p.top + height - 1 <= p.bottom /\ p.left + width - 1 <= p.right
    BY <1>5, <1>6, OccupiedIn
  <1>8. p.top \in 1 .. Height - height + 1 /\ p.left \in 1 .. Width - width + 1
    <2>1. 1 <= p.top /\ p.bottom <= Height /\ 1 <= p.left /\ p.right <= Width
      BY <1>6, WholeIn DEF Device
    <2>2. p.top \in Nat /\ p.left \in Nat /\ p.bottom \in Nat /\ p.right \in Nat
      BY <1>6, CellIn DEF Rects
    <2>3. p.top + height - 1 <= Height /\ p.left + width - 1 <= Width
      BY <1>1, <1>7, <2>1, <2>2
    <2>4. /\ p.top \in Nat /\ p.left \in Nat /\ 1 <= p.top /\ 1 <= p.left
          /\ width \in Nat /\ height \in Nat /\ Width \in Nat /\ Height \in Nat
      BY <1>1, <2>1, <2>2
    <2> QED BY ONLY <2>3, <2>4
  <1>9. CellsTaken = Promise!Taken
    BY DEF CellsTaken, Promise!Taken
  <1>10. Cells(o) \cap Promise!Taken = {} /\ Cells(o) \subseteq C
    BY <1>6, <1>7, <1>9
  <1> HIDE DEF o
  <1>11. Cells(o) \in Promise!Places(width, height)
    BY <1>7, <1>8, <1>10 DEF Promise!Places
  <1> QED BY <1>7, <1>10, <1>11 DEF o, p

-----------------------------------------------------------------------------

\* What add and remove make of the occupied cells.
LEMMA AddedKeeps ==
    ASSUME IInv, NEW k \in Keys, NEW width \in Nat \ {0}, NEW height \in Nat \ {0},
           Added(k, width, height)
    PROVE  IInv'
  <1> DEFINE p == AllocationFit(freeSpace, width, height).position
             o == Occupied(p, width, height)
  <1>1. /\ k \notin Mapped
        /\ AllocationFit(freeSpace, width, height) # NoFit
        /\ occupationTable' = [j \in Mapped \cup {k} |-> IF j = k THEN o ELSE occupationTable[j]]
        /\ freeSpace' = FreeAfterAdd(freeSpace, o)
    BY DEF Added
  <1>2. o \in Rects /\ Cells(o) \subseteq Device \ CellsTaken
    BY <1>1, AddedFits
  <1> HIDE DEF o
  <1>3. /\ Mapped' = Mapped \cup {k} /\ occupationTable'[k] = o
        /\ \A j \in Mapped : occupationTable'[j] = occupationTable[j]
    BY <1>1 DEF Mapped
  <1>4. occupationTable' \in [Mapped' -> Rects]
    BY <1>1, <1>2, <1>3 DEF IInv
  <1>5. \A j \in Mapped' : Cells(occupationTable'[j]) \subseteq Device
    BY <1>2, <1>3 DEF IInv
  <1>6. \A j \in Mapped : Cells(occupationTable[j]) \cap Cells(o) = {}
    BY <1>2 DEF CellsTaken
  <1>7. \A i, j \in Mapped' :
          i # j => Cells(occupationTable'[i]) \cap Cells(occupationTable'[j]) = {}
    BY <1>3, <1>6 DEF IInv
  <1>8. CellsTaken' = CellsTaken \cup Cells(o)
    BY <1>1, <1>3 DEF CellsTaken
  <1>9. Exact(freeSpace', (Device \ CellsTaken) \ Cells(o))
    BY <1>1, <1>2, FreeAfterAddExact DEF IInv
  <1>10. (Device \ CellsTaken) \ Cells(o) = Device \ CellsTaken'
    BY <1>8
  <1>11. Device' = Device
    BY DEF Device
  <1>12. Exact(freeSpace', Device' \ CellsTaken')
    BY <1>9, <1>10, <1>11
  <1> QED BY <1>4, <1>5, <1>7, <1>11, <1>12 DEF IInv

LEMMA RemovedKeeps ==
    ASSUME IInv, NEW k \in Keys, Removed(k)
    PROVE  IInv'
  <1> DEFINE o == occupationTable[k]
  <1>1. /\ k \in Mapped
        /\ freeSpace' = FreeAfterRemove(freeSpace, o)
        /\ occupationTable' = [j \in Mapped \ {k} |-> occupationTable[j]]
    BY DEF Removed
  <1>2. o \in Rects /\ Cells(o) \subseteq Device /\ Cells(o) \subseteq CellsTaken
    BY <1>1 DEF IInv, CellsTaken
  <1>3. /\ Mapped' = Mapped \ {k}
        /\ \A j \in Mapped' : occupationTable'[j] = occupationTable[j]
    BY <1>1 DEF Mapped
  <1>4. occupationTable' \in [Mapped' -> Rects]
    BY <1>1, <1>3 DEF IInv
  <1>5. \A j \in Mapped' : Cells(occupationTable'[j]) \subseteq Device
    BY <1>3 DEF IInv
  <1>6. \A i, j \in Mapped' :
          i # j => Cells(occupationTable'[i]) \cap Cells(occupationTable'[j]) = {}
    BY <1>3 DEF IInv
  <1>7. CellsTaken' = CellsTaken \ Cells(o)
    <2>1. CellsTaken' = UNION { Cells(occupationTable[j]) : j \in Mapped \ {k} }
      BY <1>3 DEF CellsTaken
    <2>2. \A j \in Mapped \ {k} : Cells(occupationTable[j]) \cap Cells(o) = {}
      BY <1>1 DEF IInv
    <2>3. CellsTaken = CellsTaken' \cup Cells(o)
      BY <1>1, <2>1 DEF CellsTaken
    <2>4. CellsTaken' \cap Cells(o) = {}
      BY <2>1, <2>2
    <2> QED BY <2>3, <2>4
  <1> HIDE DEF o
  <1>8. Exact(freeSpace', (Device \ CellsTaken) \cup Cells(o))
    <2>1. Cells(o) \cap (Device \ CellsTaken) = {}
      BY <1>2
    <2> QED BY <1>1, <1>2, <2>1, FreeAfterRemoveExact DEF IInv
  <1>9. (Device \ CellsTaken) \cup Cells(o) = Device \ CellsTaken'
    BY <1>2, <1>7
  <1>10. Device' = Device
    BY DEF Device
  <1>11. Exact(freeSpace', Device' \ CellsTaken')
    BY <1>8, <1>9, <1>10
  <1> QED BY <1>4, <1>5, <1>6, <1>10, <1>11 DEF IInv

\* Every step keeps it.
LEMMA StepExact == IInv /\ [Next]_vars => IInv'
  <1>1. SUFFICES ASSUME IInv, [Next]_vars PROVE IInv'
    OBVIOUS
  <1>2. ASSUME UNCHANGED <<occupationTable, freeSpace>> PROVE IInv'
    BY <1>1, <1>2 DEF IInv, Mapped, CellsTaken, Device
  <1>3. ASSUME NEW k \in Keys, NEW s \in Shapes, Added(k, s[1], s[2]) PROVE IInv'
    <2>1. s[1] \in Nat \ {0} /\ s[2] \in Nat \ {0}
      BY SizeAssumption
    <2> QED BY <1>1, <1>3, <2>1, AddedKeeps
  <1>4. ASSUME NEW k \in Keys, NEW s \in Shapes, AddRefused(k, s[1], s[2]) PROVE IInv'
    BY <1>2, <1>4 DEF AddRefused
  <1>5. ASSUME NEW k \in Keys, Removed(k) PROVE IInv'
    BY <1>1, <1>5, RemovedKeeps
  <1>6. ASSUME NEW k \in Keys, RemoveRefused(k) PROVE IInv'
    BY <1>2, <1>6 DEF RemoveRefused
  <1>7. CASE UNCHANGED vars
    BY <1>2, <1>7 DEF vars
  <1> QED BY <1>1, <1>3, <1>4, <1>5, <1>6, <1>7 DEF Next

\* Each cell is counted once.
LEMMA ExactCounts == IInv => FreeIsExact
  <1>1. SUFFICES ASSUME IInv, NEW cell \in Device
        PROVE  Cardinality({ k \in Mapped : cell \in Cells(occupationTable[k]) })
               + Cardinality({ i \in DOMAIN freeSpace : cell \in Cells(freeSpace[i]) }) = 1
    BY DEF FreeIsExact, Device
  <1> DEFINE K == { k \in Mapped : cell \in Cells(occupationTable[k]) }
             I == { i \in DOMAIN freeSpace : cell \in Cells(freeSpace[i]) }
  <1>2. Apart(freeSpace) /\ Covered(freeSpace) = Device \ CellsTaken
    BY <1>1 DEF IInv, Exact
  <1>3. I # {} <=> cell \notin CellsTaken
    BY <1>1, <1>2 DEF Covered
  <1>4. K # {} <=> cell \in CellsTaken
    BY DEF CellsTaken
  <1>5. \A i, j \in I : i = j
    BY <1>2 DEF Apart
  <1>6. \A j, k \in K : j = k
    BY <1>1 DEF IInv
  <1> HIDE DEF K, I
  <1>7. CASE cell \in CellsTaken
    <2>1. I = {} /\ \E k : K = {k}
      BY <1>3, <1>4, <1>6, <1>7
    <2>2. Cardinality(I) = 0 /\ Cardinality(K) = 1
      BY <2>1, FS_EmptySet, FS_Singleton
    <2> QED BY <2>2 DEF K, I
  <1>8. CASE cell \notin CellsTaken
    <2>1. K = {} /\ \E i : I = {i}
      BY <1>3, <1>4, <1>5, <1>8
    <2>2. Cardinality(K) = 0 /\ Cardinality(I) = 1
      BY <2>1, FS_EmptySet, FS_Singleton
    <2> QED BY <2>2 DEF K, I
  <1> QED BY <1>7, <1>8

\* Every cell of the device is in exactly one block: that of a mapped function or
\* a free one, for every device and every sequence of add and remove.
THEOREM AlwaysFreeIsExact == Spec => []FreeIsExact
  BY InitExact, StepExact, ExactCounts, PTL DEF Spec

-----------------------------------------------------------------------------

\* The device, seen as the cells of its functions, takes steps of Fabric.
LEMMA StepOfFabric ==
    ASSUME IInv, [Next]_vars
    PROVE  [Promise!Next]_(Promise!fabric)
  <1> DEFINE placed == [k \in Mapped |-> Cells(occupationTable[k])]
  <1>1. ASSUME UNCHANGED occupationTable PROVE placed' = placed
    BY <1>1 DEF Mapped
  <1>2. DOMAIN placed = Mapped
    OBVIOUS
  <1>3. ASSUME NEW k \in Keys, NEW s \in Shapes, Added(k, s[1], s[2])
        PROVE  Promise!Map(k, s[1], s[2])
    <2> DEFINE o == Occupied(AllocationFit(freeSpace, s[1], s[2]).position, s[1], s[2])
    <2>1. s[1] \in Nat \ {0} /\ s[2] \in Nat \ {0}
      BY SizeAssumption
    <2>2. /\ k \notin Mapped
          /\ AllocationFit(freeSpace, s[1], s[2]) # NoFit
          /\ occupationTable' = [j \in Mapped \cup {k} |-> IF j = k THEN o ELSE occupationTable[j]]
          /\ answer' = TRUE
      BY <1>3 DEF Added
    <2>3. Cells(o) \in Promise!Places(s[1], s[2])
      BY <2>1, <2>2, AddedFits
    <2> HIDE DEF o
    <2>4. placed' = [j \in DOMAIN placed \cup {k} |-> IF j = k THEN Cells(o) ELSE placed[j]]
      BY <2>2 DEF Mapped
    <2> QED BY <1>2, <2>2, <2>3, <2>4 DEF Promise!Map
  <1>4. ASSUME NEW k \in Keys, NEW s \in Shapes, AddRefused(k, s[1], s[2])
        PROVE  Promise!Refuse(k, s[1], s[2])
    BY <1>1, <1>4 DEF AddRefused, Promise!Refuse
  <1>5. ASSUME NEW k \in Keys, Removed(k) PROVE Promise!Unmap(k)
    <2>1. placed' = [j \in DOMAIN placed \ {k} |-> placed[j]]
      BY <1>5 DEF Removed, Mapped
    <2>2. answer' = (k \in DOMAIN placed)
      BY <1>5 DEF Removed
    <2> QED BY <2>1, <2>2 DEF Promise!Unmap
  <1>6. ASSUME NEW k \in Keys, RemoveRefused(k) PROVE Promise!Unmap(k)
    <2>1. placed' = [j \in DOMAIN placed \ {k} |-> placed[j]]
      <3>1. placed' = placed /\ k \notin Mapped
        BY <1>1, <1>6 DEF RemoveRefused
      <3>2. DOMAIN placed \ {k} = Mapped
        BY <1>2, <3>1
      <3>3. placed = [j \in Mapped |-> placed[j]]
        BY <1>2
      <3> QED BY <3>1, <3>2, <3>3
    <2>2. answer' = (k \in DOMAIN placed)
      <3>1. answer' = FALSE
        BY <1>6 DEF RemoveRefused
      <3>2. k \notin DOMAIN placed
        BY <1>2, <1>6 DEF RemoveRefused
      <3>3. (k \in DOMAIN placed) = FALSE
        BY <3>2
      <3> HIDE DEF placed
      <3> QED BY <3>1, <3>3
    <2> QED BY <2>1, <2>2 DEF Promise!Unmap
  <1>7. CASE UNCHANGED vars
    BY <1>1, <1>7 DEF vars, Promise!fabric
  <1> QED BY <1>3, <1>4, <1>5, <1>6, <1>7 DEF Next, Promise!Next

\* The allocation table keeps the promises of Fabric: a function is mapped to a
\* rectangle of free cells of its size, a removed one frees its cells, and a
\* refusal changes nothing.
THEOREM ImplementsFabric == Spec => KeepsPromise
  <1>1. Init => Promise!Init
    <2>1. SUFFICES ASSUME Init PROVE Promise!Init
      OBVIOUS
    <2>2. Mapped = {} /\ answer = TRUE
      BY <2>1 DEF Init, Mapped
    <2> QED BY <2>2 DEF Promise!Init, Promise!Nothing
  <1>2. IInv /\ [Next]_vars => [Promise!Next]_(Promise!fabric)
    BY StepOfFabric
  <1>3. Spec => Promise!Spec
    BY <1>1, <1>2, InitExact, StepExact, PTL DEF Spec, Promise!Spec
  <1> QED BY <1>3 DEF KeepsPromise

=============================================================================
