-------------------------------- MODULE Fabric --------------------------------
(***************************************************************************)
(* What the allocation table of a reconfigurable device promises to the    *)
(* configuration engine: functions occupy disjoint rectangles of cells, a   *)
(* function is only mapped where cells are free, one that is removed frees *)
(* its cells, and a refusal changes nothing.                               *)
(***************************************************************************)
EXTENDS Integers

CONSTANTS Keys, Width, Height, Shapes

VARIABLES
    placed,      \* the cells of each mapped function
    answer       \* TRUE when the last request was granted

fabric == <<placed, answer>>

Rectangle(t, l, w, h) == (t .. t + h - 1) \X (l .. l + w - 1)

Taken == UNION { placed[k] : k \in DOMAIN placed }

\* The free rectangles of w x h cells.
Places(w, h) ==
    { r \in { Rectangle(t, l, w, h) : t \in 1 .. Height - h + 1, l \in 1 .. Width - w + 1 } :
        r \cap Taken = {} }

Nothing == [k \in {} |-> {}]

Init == placed = Nothing /\ answer = TRUE

Map(k, w, h) ==
    /\ k \notin DOMAIN placed
    /\ \E r \in Places(w, h) :
        placed' = [j \in DOMAIN placed \cup {k} |-> IF j = k THEN r ELSE placed[j]]
    /\ answer' = TRUE

\* It may refuse a function that fits: see EmptyTakesAll of EFPGA.
Refuse(k, w, h) ==
    /\ answer' = FALSE
    /\ UNCHANGED placed

Unmap(k) ==
    /\ placed' = [j \in DOMAIN placed \ {k} |-> placed[j]]
    /\ answer' = (k \in DOMAIN placed)

Next ==
    \/ \E k \in Keys, s \in Shapes : Map(k, s[1], s[2]) \/ Refuse(k, s[1], s[2])
    \/ \E k \in Keys : Unmap(k)

Spec == Init /\ [][Next]_fabric

=============================================================================
