-------------------------------- MODULE EFPGA --------------------------------
(***************************************************************************)
(* A reconfigurable device (eFPGA.cpp) with its allocation table           *)
(* (eFPGAAllocationTable.cpp): the commands W0 and W1 of b_transport map    *)
(* and remove a function, R1 searches for space, R0 looks a function up     *)
(* before it waits for the latency (that wait is in ConfigEngine).          *)
(***************************************************************************)
EXTENDS AllocationTable, FiniteSets

CONSTANTS
    Keys,             \* the addresses the engine gives to functions
    Width, Height,    \* cells of the device
    Shapes            \* <<width, height>> of the functions it is asked for

ASSUME SizeAssumption ==
    /\ Width \in Nat \ {0} /\ Height \in Nat \ {0}
    /\ Shapes \subseteq (Nat \ {0}) \X (Nat \ {0})

VARIABLES
    occupationTable,   \* the block of each function that is mapped
    freeSpace,         \* the list of the free blocks
    answer             \* the last command was answered with TLM_OK_RESPONSE

vars == <<occupationTable, freeSpace, answer>>

Mapped == DOMAIN occupationTable

Init ==
    /\ occupationTable = [k \in {} |-> Whole(Width, Height)]
    /\ freeSpace = <<Whole(Width, Height)>>
    /\ answer = TRUE

\* W0: the position is the one allocationFit finds.
Added(k, width, height) ==
    LET fit == AllocationFit(freeSpace, width, height)
        o   == Occupied(fit.position, width, height)
    IN  /\ k \notin Mapped
        /\ fit # NoFit
        /\ occupationTable' = [j \in Mapped \cup {k} |-> IF j = k THEN o ELSE occupationTable[j]]
        /\ freeSpace' = FreeAfterAdd(freeSpace, o)
        /\ answer' = TRUE

AddRefused(k, width, height) ==
    /\ k \in Mapped \/ AllocationFit(freeSpace, width, height) = NoFit
    /\ answer' = FALSE
    /\ UNCHANGED <<occupationTable, freeSpace>>

\* W1
Removed(k) ==
    /\ k \in Mapped
    /\ freeSpace' = FreeAfterRemove(freeSpace, occupationTable[k])
    /\ occupationTable' = [j \in Mapped \ {k} |-> occupationTable[j]]
    /\ answer' = TRUE

RemoveRefused(k) ==
    /\ k \notin Mapped
    /\ answer' = FALSE
    /\ UNCHANGED <<occupationTable, freeSpace>>

Next ==
    \/ \E k \in Keys, s \in Shapes : Added(k, s[1], s[2])
    \/ \E k \in Keys, s \in Shapes : AddRefused(k, s[1], s[2])
    \/ \E k \in Keys : Removed(k)
    \/ \E k \in Keys : RemoveRefused(k)

Spec == Init /\ [][Next]_vars

-----------------------------------------------------------------------------
(* Properties *)

Cells(b) == (b.top .. b.bottom) \X (b.left .. b.right)

\* Every cell is in exactly one block: that of a mapped function or one of the
\* free ones.  add cuts each free block it touches into up to four parts whose
\* corners depend on each other, and merge joins blocks while it walks the list:
\* a cell that is lost or counted twice shows only in a later allocation.
FreeIsExact ==
    \A cell \in Cells(Whole(Width, Height)) :
        Cardinality({ k \in Mapped : cell \in Cells(occupationTable[k]) })
        + Cardinality({ i \in DOMAIN freeSpace : cell \in Cells(freeSpace[i]) }) = 1

\* "if the allocation is not feasible, (unsigned int)-1 is returned"
\* (eFPGAAllocationTable.hpp:105), and only then: a device from which every
\* function was removed has room for each function that fits in it.
EmptyTakesAll ==
    Mapped = {} => \A s \in Shapes :
        s[1] <= Width /\ s[2] <= Height => AllocationFit(freeSpace, s[1], s[2]) # NoFit

\* The device keeps the promises of Fabric, where the functions are the rectangles
\* of their blocks: what is mapped goes to a rectangle of free cells, although
\* max_blocks joins blocks that overlap others and goes on with them.
Promise == INSTANCE Fabric WITH placed <- [k \in Mapped |-> Cells(occupationTable[k])]
KeepsPromise == Promise!Spec

=============================================================================
