--------------------------- MODULE MCCoherentCache ---------------------------
(* Small instances of CoherentCache for TLC. *)
EXTENDS CoherentCache, TLC

Two == 0..1
Three == 0..2
One == {0}

Reads(dbg)  == [cmd : {"read"}, dbg : dbg, b : Blocks, w : Words]
Writes(dbg) == [cmd : {"write"}, dbg : dbg, b : Blocks, w : Words, v : Values]
AllAccesses == Reads(BOOLEAN) \cup Writes(BOOLEAN)

\* Block 0 is used in every way: the processors and the emulation of the operating
\* system, which uses debug accesses, write different values to its first word, and
\* either may write its second; block 1 is there to evict it.
FewAccesses == { a \in AllAccesses :
    \/ a.b = 0 /\ IF a.cmd = "write" THEN a.v = (IF a.dbg /\ a.w = 0 THEN 0 ELSE 1) ELSE a.w = 0
    \/ a.b = 1 /\ a.w = 0 /\ ~a.dbg /\ a.cmd = "read" }

\* The accesses that wait for each other: a debug write waits wherever a debug read does.
Waiting == { a \in AllAccesses : a.dbg => a.cmd = "write" }

AllBack == [ordered |-> FALSE, policy |-> [c \in Caches |-> "BACK"]]
Mixed   == [ordered |-> TRUE, policy |-> 0 :> "THROUGH" @@ 1 :> "THROUGH_ALL" @@ 2 :> "BACK"]
OnBus   == {[AllBack EXCEPT !.ordered = TRUE]}
OnNoC   == {AllBack}
OnMixed == {Mixed}
Both    == {AllBack, Mixed}

=============================================================================
