--------------------------- MODULE AllocationTable ---------------------------
(***************************************************************************)
(* The algorithms of the allocation table of a reconfigurable device       *)
(* (eFPGAAllocationTable.cpp and allocationFit.cpp): how a function is cut  *)
(* out of the free blocks, how free blocks are merged, and how the place   *)
(* for a new function is searched.  A block is given by the rows and       *)
(* columns of its first and last cell, as the bounds upperLeft and         *)
(* lowerRight of the code.                                                 *)
(***************************************************************************)
EXTENDS Integers, Sequences, SequencesExt, FiniteSetsExt

Block == [top : Nat, left : Nat, bottom : Nat, right : Nat]

Rect(t, l, b, r) == [top |-> t, left |-> l, bottom |-> b, right |-> r]

Whole(width, height) == Rect(1, 1, height, width)

Disjoint(a, b) ==
    \/ a.top > b.bottom \/ a.left > b.right
    \/ a.bottom < b.top \/ a.right < b.left

Within(a, b) ==
    a.top >= b.top /\ a.left >= b.left /\ a.bottom <= b.bottom /\ a.right <= b.right

-----------------------------------------------------------------------------
(* merge *)

SameColumns(a, b) == a.left = b.left /\ a.right = b.right
SameRows(a, b)    == a.top = b.top /\ a.bottom = b.bottom

\* Two blocks that share a whole side.
Confining(a, b) ==
    \/ SameColumns(a, b) /\ (a.top = b.bottom + 1 \/ a.bottom = b.top - 1)
    \/ SameRows(a, b)    /\ (a.left = b.right + 1 \/ a.right = b.left - 1)

Bounds(a, b) == Rect(Min({a.top, b.top}), Min({a.left, b.left}),
                  Max({a.bottom, b.bottom}), Max({a.right, b.right}))

\* The block s joins the first block of the list it can join, and moves to the end.
Joined(merged, s) ==
    LET at == SelectInSeq(merged, LAMBDA b : Confining(s, b))
    IN  IF at = 0 THEN Append(merged, s)
        ELSE Append(RemoveAt(merged, at), Bounds(s, merged[at]))

\* One pass over the list: each block joins those before it.
Pass(list) ==
    LET merged[n \in 0 .. Len(list)] ==
            IF n = 0 THEN <<>> ELSE Joined(merged[n - 1], list[n])
    IN  merged[Len(list)]

\* Passes over the list until one joins nothing: there are fewer passes than blocks.
Merge(separated) ==
    LET passes[n \in 0 .. Len(separated)] ==
            IF n = 0 THEN separated ELSE Pass(passes[n - 1])
    IN  passes[Len(separated)]

-----------------------------------------------------------------------------
(* add and remove *)

\* Variant: the right part runs beside the part below it.
CutOverlapping(f, o) ==
    LET upper == f.top < o.top
        left  == f.left < o.left
        top   == IF upper THEN o.top ELSE f.top
    IN  (IF upper THEN <<Rect(f.top, f.left, o.top - 1, f.right)>> ELSE <<>>)
        \o (IF left THEN <<Rect(top, f.left, f.bottom, o.left - 1)>> ELSE <<>>)
        \o (IF f.bottom > o.bottom
            THEN <<Rect(o.bottom + 1, IF left THEN o.left ELSE f.left, f.bottom, f.right)>>
            ELSE <<>>)
        \o (IF f.right > o.right THEN <<Rect(top, o.right + 1, f.bottom, f.right)>> ELSE <<>>)

\* What is left of the free block f when o is occupied: the parts above it, on
\* its left, below it and on its right.
Cut(f, o) ==
    LET upper == f.top < o.top
        left  == f.left < o.left
        lower == f.bottom > o.bottom
        top   == IF upper THEN o.top ELSE f.top
    IN  (IF upper THEN <<Rect(f.top, f.left, o.top - 1, f.right)>> ELSE <<>>)
        \o (IF left THEN <<Rect(top, f.left, f.bottom, o.left - 1)>> ELSE <<>>)
        \o (IF lower
            THEN <<Rect(o.bottom + 1, IF left THEN o.left ELSE f.left, f.bottom, f.right)>>
            ELSE <<>>)
        \o (IF f.right > o.right
            THEN <<Rect(top, o.right + 1, IF lower THEN o.bottom ELSE f.bottom, f.right)>>
            ELSE <<>>)

FreeAfterAdd(freeSpace, o) ==
    Merge(FlattenSeq([i \in DOMAIN freeSpace |->
        IF Disjoint(freeSpace[i], o) THEN <<freeSpace[i]>> ELSE Cut(freeSpace[i], o)]))

FreeAfterRemove(freeSpace, freed) == Merge(Append(freeSpace, freed))

-----------------------------------------------------------------------------
(* max_blocks: the largest blocks that can be made of the free ones *)

ColumnsMeet(a, b) == a.left <= b.right /\ b.left <= a.right
RowsMeet(a, b)    == a.top <= b.bottom /\ b.top <= a.bottom

Above(a, b)  == b.top = a.bottom + 1 /\ ColumnsMeet(a, b)
LeftOf(a, b) == b.left = a.right + 1 /\ RowsMeet(a, b)
Adjacent(a, b) == Above(a, b) \/ Above(b, a) \/ LeftOf(a, b) \/ LeftOf(b, a)

\* Variant: as wide as the wider of the two.
SpanningBoth(a, b) == Bounds(a, b)

\* The block that spans two adjacent ones, as wide as the side they share.
Spanning(a, b) ==
    IF Above(a, b) \/ Above(b, a)
    THEN Rect(Min({a.top, b.top}), Max({a.left, b.left}), Max({a.bottom, b.bottom}), Min({a.right, b.right}))
    ELSE Rect(Max({a.top, b.top}), Min({a.left, b.left}), Min({a.bottom, b.bottom}), Max({a.right, b.right}))

\* The block c, after those before it and what they made together, and what it makes
\* with each of them.  A new block is adjacent to none of the two it is made of.
BlendedWith(blended, c) ==
    LET all == Append(blended, c)
    IN  all \o FlattenSeq([i \in DOMAIN all |->
                   IF Adjacent(c, all[i]) THEN <<Spanning(c, all[i])>> ELSE <<>>])

Blended(chopped) ==
    LET blended[n \in 0 .. Len(chopped)] ==
            IF n = 0 THEN <<>> ELSE BlendedWith(blended[n - 1], chopped[n])
    IN  blended[Len(chopped)]

\* Some block the pass made lies in no block there was before it.
Grew(chopped, blended) ==
    \E i \in DOMAIN blended :
        \A b \in ToSet(chopped) \cup ToSet(SubSeq(blended, 1, i - 1)) : ~Within(blended[i], b)

\* The blocks that lie in no other; of equal ones the last.
IsMax(blended, i) ==
    \A j \in DOMAIN blended \ {i} :
        Within(blended[i], blended[j]) => blended[i] = blended[j] /\ j < i
Largest(blended) ==
    FlattenSeq([i \in DOMAIN blended |-> IF IsMax(blended, i) THEN <<blended[i]>> ELSE <<>>])

MaxBlocks(freeSpace) ==
    LET max_blocks[chopped \in Seq(Block)] ==
            LET blended == Blended(chopped)
            IN  IF Grew(chopped, blended) THEN max_blocks[Largest(blended)] ELSE Largest(blended)
    IN  max_blocks[freeSpace]

-----------------------------------------------------------------------------
(* allocationFit *)

Rows(b)    == b.bottom - b.top + 1
Columns(b) == b.right - b.left + 1

NoFit == [heuristic |-> -1, position |-> Rect(0, 0, 0, 0)]

\* The block that is left with the fewest free cells, the last of the equal ones.
AllocationFit(freeSpace, width, height) ==
    LET maxFree == MaxBlocks(freeSpace)
        count(i) == Columns(maxFree[i]) * Rows(maxFree[i]) - width * height
        fits == { i \in DOMAIN maxFree : width <= Columns(maxFree[i]) /\ height <= Rows(maxFree[i]) }
        best == { i \in fits : \A j \in fits : count(i) <= count(j) }
    IN  IF fits = {} THEN NoFit
        ELSE [heuristic |-> count(Max(best)), position |-> maxFree[Max(best)]]

\* Where a function goes in the block that was found for it: the upper left corner.
Occupied(position, width, height) ==
    Rect(position.top, position.left, position.top + height - 1, position.left + width - 1)

=============================================================================
