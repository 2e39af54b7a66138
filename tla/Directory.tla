------------------------------ MODULE Directory ------------------------------
(***************************************************************************)
(* The directory of the coherent caches                                    *)
(* (components/memories/coherentCache/DirectoryLT.hpp): for each block the *)
(* privilege that is assigned and the caches it is assigned to.  A cache   *)
(* asks for a privilege before every access, even for one it already has;  *)
(* one request is served at a time, in the order of arrival.               *)
(*                                                                         *)
(* REMOVE requests exist only with EXPLICIT_REMOVE, which protocolUtils.hpp *)
(* leaves undefined: the directory is not told of evictions.               *)
(***************************************************************************)
EXTENDS Sequences, SequencesExt

CONSTANTS Caches, Blocks

VARIABLES
    busy,             \* a request is being served
    requests,         \* the requests that wait
    blockPrivilege,   \* the privilege assigned to each block
    blockCachedIn     \* the caches that have it

directory == <<busy, requests, blockPrivilege, blockCachedIn>>

Privileges == {"none", "SHARED", "EXCLUSIVE"}

DirectoryType ==
    /\ busy \in BOOLEAN
    /\ requests \in Seq(Caches)
    /\ blockPrivilege \in [Blocks -> Privileges]
    /\ blockCachedIn \in [Blocks -> Seq(Caches)]

DirectoryInit ==
    /\ busy = FALSE
    /\ requests = <<>>
    /\ blockPrivilege = [b \in Blocks |-> "none"]
    /\ blockCachedIn = [b \in Blocks |-> <<>>]

-----------------------------------------------------------------------------
(* lock and unlock *)

\* Variant: who finds the directory busy goes on all the same.
LockedAnyway == busy' = TRUE /\ UNCHANGED requests

Locked    == ~busy /\ busy' = TRUE /\ UNCHANGED requests
Queued(c) == busy /\ requests' = Append(requests, c) /\ UNCHANGED busy

\* Variant: the requests that wait are dropped.
AwakenedNobody == {}

\* The event of the first request in the queue is notified, and the directory
\* stays busy on its behalf.
Awakened == IF requests = <<>> THEN {} ELSE {Head(requests)}
Unlocked ==
    /\ busy' = (Awakened # {})
    /\ requests' = IF Awakened = {} THEN <<>> ELSE Tail(requests)

-----------------------------------------------------------------------------
(* b_transport: what the request cmd of cache c for block b needs *)

\* Variant: a write leaves the copies of a shared block alone.
RecipientsOfExclusive(c, cmd, b) ==
    IF blockPrivilege[b] = "EXCLUSIVE" /\ Head(blockCachedIn[b]) # c
    THEN blockCachedIn[b] ELSE <<>>

\* The caches that have to give something up before the privilege is granted: those
\* in the list, in which c is at most once, but c.
Recipients(c, cmd, b) ==
    IF \/ blockPrivilege[b] = "SHARED" /\ cmd = "write"
       \/ blockPrivilege[b] = "EXCLUSIVE" /\ Head(blockCachedIn[b]) # c
    THEN RemoveFirst(blockCachedIn[b], c)
    ELSE <<>>

\* INVALIDATE for a write, FLUSH for a read.
Message(cmd) == IF cmd = "write" THEN "INVALIDATE" ELSE "FLUSH"

\* A read of another's exclusive block downgrades it before it is flushed.
Downgraded(c, cmd, b) ==
    blockPrivilege' =
        IF cmd = "read" /\ blockPrivilege[b] = "EXCLUSIVE" /\ Head(blockCachedIn[b]) # c
        THEN [blockPrivilege EXCEPT ![b] = "SHARED"] ELSE blockPrivilege

\* After that the privilege is c's.
Granted(c, cmd, b) ==
    /\ blockPrivilege' = [blockPrivilege EXCEPT ![b] = IF cmd = "write" THEN "EXCLUSIVE"
                                                      ELSE IF @ = "none" THEN "SHARED" ELSE @]
    /\ blockCachedIn' = [blockCachedIn EXCEPT ![b] = IF cmd = "write" THEN <<c>>
                                                    ELSE IF Contains(@, c) THEN @ ELSE Append(@, c)]

=============================================================================
