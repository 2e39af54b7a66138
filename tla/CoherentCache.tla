---------------------------- MODULE CoherentCache ----------------------------
(***************************************************************************)
(* The caches of a multi-processor with the directory that keeps them      *)
(* coherent (components/memories/coherentCache).  Each cache serves one    *)
(* processor, whose SystemC thread executes everything below: the cache,   *)
(* the directory it asks and dir_transport of the caches that have to give *)
(* up a block.  A thread keeps the kernel until it waits: running is the   *)
(* thread that has not waited yet.                                         *)
(*                                                                         *)
(* Between a cache and the memory there is an interconnect.  BusLT serves  *)
(* the transfers in the order in which they are requested (ordered); a NoC *)
(* in any order.  An access concerns one word of one block.                *)
(***************************************************************************)
EXTENDS Directory, FiniteSets

CONSTANTS
    Words,       \* of a block
    Values, Zero,
    Positions,   \* the blocks that the size of a cache makes
    Ways,        \* the blocks there is room for under a tag
    Accesses,    \* what the processors may do
    Systems,     \* the interconnects and write policies considered
    NULL

ASSUME CacheAssumption ==
    /\ Blocks \subseteq Nat
    /\ Ways \in Nat \ {0} /\ Positions \in Nat \ 0..(Ways - 1)
    /\ Zero \in Values
    /\ NULL \notin Caches
    /\ \A a \in Accesses : a.cmd \in {"read", "write"} /\ a.dbg \in BOOLEAN /\ a.b \in Blocks
                           /\ a.w \in Words /\ (a.cmd = "write" => a.v \in Values)

\* NULL is no access, no block of a cache and no block that is being evicted.
ASSUME NullAssumption ==
    /\ NULL \notin Accesses
    /\ NULL \notin [data : [Words -> Values], dirty : BOOLEAN]
    /\ NULL \notin [b : Blocks, data : [Words -> Values]]

VARIABLES
    system,    \* the interconnect and the writePolicy of each cache; never changes
    memory,
    bus,       \* the transfers that are pending, if ordered
    cache,     \* the blocks each cache has: data and dirty
    busyBus,   \* the processor's access is using the cache
    busyDir,   \* dir_transport is using it
    running, pc,
    access,    \* the access of each processor
    found,     \* transport_dbg has found its block in the cache
    todo,      \* the caches that still have to be messaged
    block,     \* curBlock while it is not in the cache
    evicted,   \* the block removeCacheBlock is storing
    result     \* what the access has read

storage == <<memory, bus>>
control == <<running, pc>>
locals  == <<access, found, todo, block, evicted, result>>
vars    == <<directory, system, storage, cache, busyBus, busyDir, control, locals>>

Data == [Words -> Values]
Has(c, b) == cache[c][b] # NULL

-----------------------------------------------------------------------------
(* SystemC threads and the interconnect *)

At(c, place)       == running \in {NULL, c} /\ pc[c] = place
Continue(c, place) == running' = c /\ pc' = [pc EXCEPT ![c] = place]
Wait(c, place)     == running' = NULL /\ pc' = [pc EXCEPT ![c] = place]

\* The thread goes on at place and the events it notifies make others runnable.
Notify(c, place, others, there) ==
    pc' = [d \in Caches |-> IF d = c THEN place ELSE IF d \in others THEN there ELSE pc[d]]

\* The thread c waits for the event of the cache whose socket it uses.
Request(c, user) ==
    bus' = IF system.ordered THEN Append(bus, [thread |-> c, tag |-> user]) ELSE bus

\* A first in the queue that has waited shares its event with the others of the
\* same socket, which are served at the same instant.
Served(c) ==
    IF ~system.ordered THEN bus' = bus
    ELSE /\ bus # <<>> /\ Head(bus).thread = c
         /\ LET rest == Tail(bus)
                Woken(i) == rest[i].tag = Head(bus).tag
                Before(i, j) == IF Woken(i) <=> Woken(j) THEN i < j ELSE Woken(i)
            IN  \/ bus' = rest
                \/ \E order \in [DOMAIN rest -> DOMAIN rest] :
                      /\ \A i, j \in DOMAIN rest : i < j => Before(order[i], order[j])
                      /\ bus' = [i \in DOMAIN rest |-> rest[order[i]]]

-----------------------------------------------------------------------------
(* The access and its request to the directory *)

\* transport_dbg looks for the block before it asks the directory.
Sought(c, b) == found' = [found EXCEPT ![c] = Has(c, b)]

\* b_transport and transport_dbg are called.
Call(c, a) ==
    /\ At(c, "idle")
    /\ access' = [access EXCEPT ![c] = a]
    /\ \/ ~a.dbg /\ Continue(c, "lock") /\ UNCHANGED found
       \/ a.dbg /\ busyDir[c] /\ Wait(c, "dbgWait") /\ UNCHANGED found
       \/ a.dbg /\ ~busyDir[c] /\ Continue(c, "lock") /\ Sought(c, a.b)
    /\ UNCHANGED <<directory, system, storage, cache, busyBus, busyDir,
                   todo, block, evicted, result>>

Lookup(c) ==
    /\ At(c, "lookup")
    /\ Sought(c, access[c].b)
    /\ Continue(c, "lock")
    /\ UNCHANGED <<directory, system, storage, cache, busyBus, busyDir,
                   access, todo, block, evicted, result>>

\* A debug access to a block that is not cached asks as if it were a write.
Command(c) == IF access[c].dbg /\ ~found[c] THEN "write" ELSE access[c].cmd

Lock(c) ==
    /\ At(c, "lock")
    /\ \/ Locked /\ Continue(c, "serve")
       \/ Queued(c) /\ Wait(c, "queued")
    /\ UNCHANGED <<blockPrivilege, blockCachedIn, system, storage, cache, busyBus, busyDir, locals>>

Serve(c) ==
    /\ At(c, "serve")
    /\ todo' = [todo EXCEPT ![c] = Recipients(c, Command(c), access[c].b)]
    /\ Downgraded(c, Command(c), access[c].b)
    /\ Continue(c, "send")
    /\ UNCHANGED <<busy, requests, blockCachedIn, system, storage, cache, busyBus, busyDir,
                   access, found, block, evicted, result>>

Grant(c) ==
    /\ At(c, "send") /\ todo[c] = <<>>
    /\ Granted(c, Command(c), access[c].b)
    /\ Unlocked
    /\ running' = c
    /\ Notify(c, IF access[c].dbg THEN "dbg" ELSE "enter", Awakened, "serve")
    /\ UNCHANGED <<system, storage, cache, busyBus, busyDir, locals>>

-----------------------------------------------------------------------------
(* dir_transport of the first cache in todo *)

\* Variant: the message does not wait for the access that uses the cache.
InUseNever(d) == FALSE
InUse(d)      == busyBus[d]

SendWaiting(c) ==
    /\ At(c, "send") /\ todo[c] # <<>> /\ InUse(Head(todo[c]))
    /\ Wait(c, "awaitBus")
    /\ UNCHANGED <<directory, system, storage, cache, busyBus, busyDir, locals>>

\* Variant: a block that is invalidated is not stored.
MustStoreFlushed(c, d) ==
    Message(Command(c)) = "FLUSH" /\ Has(d, access[c].b) /\ cache[d][access[c].b].dirty
MustStore(c, d) == Has(d, access[c].b) /\ cache[d][access[c].b].dirty

\* An invalidated block leaves the cache; transport_dbg of its owner may still
\* hold a pointer to it.
Answered(c, d) ==
    LET b == access[c].b IN
    IF Message(Command(c)) = "INVALIDATE" /\ Has(d, b)
    THEN /\ cache' = [cache EXCEPT ![d][b] = NULL]
         /\ block' = IF found[d] /\ access[d].b = b
                     THEN [block EXCEPT ![d] = cache[d][b].data] ELSE block
    ELSE UNCHANGED <<cache, block>>

\* The end of dir_transport notifies wakeupBus.
AwaitDir(d) == { e \in {d} : pc[e] = "dbgWait" }
Replied(c, d) ==
    /\ Answered(c, d)
    /\ busyDir' = [busyDir EXCEPT ![d] = FALSE]
    /\ todo' = [todo EXCEPT ![c] = Tail(@)]
    /\ running' = c
    /\ Notify(c, "send", AwaitDir(d), "lookup")

Deliver(c) ==
    /\ \/ At(c, "send") /\ todo[c] # <<>> /\ ~InUse(Head(todo[c]))
       \/ At(c, "message")
    /\ LET d == Head(todo[c]) IN
       IF MustStore(c, d)
       THEN /\ busyDir' = [busyDir EXCEPT ![d] = TRUE]
            /\ Request(c, d)
            /\ Wait(c, "store")
            /\ UNCHANGED <<cache, block, todo>>
       ELSE Replied(c, d) /\ UNCHANGED bus
    /\ UNCHANGED <<directory, system, memory, busyBus, access, found, evicted, result>>

Store(c) ==
    /\ At(c, "store")
    /\ Served(c)
    /\ memory' = [memory EXCEPT ![access[c].b] = cache[Head(todo[c])][access[c].b].data]
    /\ Wait(c, "stored")
    /\ UNCHANGED <<directory, system, cache, busyBus, busyDir, locals>>

Stored(c) ==
    /\ At(c, "stored")
    /\ Replied(c, Head(todo[c]))
    /\ UNCHANGED <<directory, system, storage, busyBus, access, found, evicted, result>>

-----------------------------------------------------------------------------
(* readFromCache and writeToCache, once the privilege is granted *)

\* The wait for busyDir is left out: NobodyInside says that it never happens.  A
\* write that misses does not load the block with the policy THROUGH.
Enter(c) ==
    /\ At(c, "enter")
    /\ busyBus' = [busyBus EXCEPT ![c] = TRUE]
    /\ \/ /\ Has(c, access[c].b)
          /\ Continue(c, "use") /\ UNCHANGED bus
       \/ /\ ~Has(c, access[c].b) /\ access[c].cmd = "write" /\ system.policy[c] = "THROUGH"
          /\ Continue(c, "release") /\ UNCHANGED bus
       \/ /\ ~Has(c, access[c].b) /\ ~(access[c].cmd = "write" /\ system.policy[c] = "THROUGH")
          /\ Wait(c, "load") /\ Request(c, c)
    /\ UNCHANGED <<directory, system, memory, cache, busyDir, locals>>

Load(c) ==
    /\ At(c, "load")
    /\ Served(c)
    /\ block' = [block EXCEPT ![c] = memory[access[c].b]]
    /\ Wait(c, "loaded")
    /\ UNCHANGED <<directory, system, memory, cache, busyBus, busyDir,
                   access, found, todo, evicted, result>>

\* GET_TAG, for sizes that are powers of two: a block is kept by the high bits of
\* its address, what is left of it without the displacement and the set.
Sets   == Positions \div Ways
Tag(b) == b \div Sets

\* The blocks under the tag of b.
Neighbours(c, b) == { v \in Blocks : Tag(v) = Tag(b) /\ Has(c, v) }

\* Variant: the size is tested with the wrong comparison.
HasRoomForMore(c, b) == Cardinality(Neighbours(c, b)) <= Ways
HasRoom(c, b)        == Cardinality(Neighbours(c, b)) < Ways

Insert(c) ==
    /\ \/ At(c, "loaded") /\ HasRoom(c, access[c].b)
       \/ At(c, "insert")
    /\ cache' = [cache EXCEPT ![c][access[c].b] =
                    [data |-> block[c], dirty |-> access[c].cmd = "write"]]
    /\ block' = [block EXCEPT ![c] = NULL]
    /\ Continue(c, "use")
    /\ UNCHANGED <<directory, system, storage, busyBus, busyDir,
                   access, found, todo, evicted, result>>

\* Variant: dirty blocks are dropped when their place is needed.
WriteBackNever(c, v) == FALSE
WriteBack(c, v)      == system.policy[c] = "BACK" /\ cache[c][v].dirty

\* removeCacheBlock; with the policy RANDOM it removes any block under the tag, with
\* LRU and FIFO the last of the queue.
Evict(c) ==
    /\ At(c, "loaded") /\ ~HasRoom(c, access[c].b)
    /\ \E v \in Neighbours(c, access[c].b) :
        /\ cache' = [cache EXCEPT ![c][v] = NULL]
        /\ IF WriteBack(c, v)
           THEN /\ evicted' = [evicted EXCEPT ![c] = [b |-> v, data |-> cache[c][v].data]]
                /\ Request(c, c)
                /\ Wait(c, "evict")
           ELSE Wait(c, "insert") /\ UNCHANGED <<evicted, bus>>
    /\ UNCHANGED <<directory, system, memory, busyBus, busyDir,
                   access, found, todo, block, result>>

StoreEvicted(c) ==
    /\ At(c, "evict")
    /\ Served(c)
    /\ memory' = [memory EXCEPT ![evicted[c].b] = evicted[c].data]
    /\ evicted' = [evicted EXCEPT ![c] = NULL]
    /\ Wait(c, "insert")
    /\ UNCHANGED <<directory, system, cache, busyBus, busyDir,
                   access, found, todo, block, result>>

Use(c) ==
    /\ At(c, "use")
    /\ IF access[c].cmd = "read"
       THEN /\ result' = [result EXCEPT ![c] = cache[c][access[c].b].data[access[c].w]]
            /\ UNCHANGED cache
       ELSE /\ cache' = [cache EXCEPT ![c][access[c].b] =
                            [data |-> [@.data EXCEPT ![access[c].w] = access[c].v], dirty |-> TRUE]]
            /\ UNCHANGED result
    /\ Wait(c, "release")
    /\ UNCHANGED <<directory, system, storage, busyBus, busyDir,
                   access, found, todo, block, evicted>>

\* wakeupDir is notified; then b_transport writes through, if that is the policy.
Release(c) ==
    /\ At(c, "release")
    /\ busyBus' = [busyBus EXCEPT ![c] = FALSE]
    /\ running' = NULL
    /\ LET waiting == { d \in Caches : pc[d] = "awaitBus" /\ Head(todo[d]) = c }
           through == access[c].cmd = "write" /\ system.policy[c] # "BACK"
       IN  /\ Notify(c, IF through THEN "through" ELSE "done", waiting, "message")
           /\ IF through THEN Request(c, c) ELSE UNCHANGED bus
    /\ UNCHANGED <<directory, system, memory, cache, busyDir, locals>>

Through(c) ==
    /\ At(c, "through")
    /\ Served(c)
    /\ memory' = [memory EXCEPT ![access[c].b][access[c].w] = access[c].v]
    /\ Wait(c, "done")
    /\ UNCHANGED <<directory, system, cache, busyBus, busyDir, locals>>

-----------------------------------------------------------------------------
(* transport_dbg, once the privilege is granted.  Nothing takes time, but its    *)
(* transfers wait for the interconnect like all others, which may be busy with   *)
(* what others than the caches want, and the directory serves other caches       *)
(* meanwhile.                                                                    *)

\* curBlock: the block found before the request, even if it has left the cache
\* since, or the copy of the one in memory.
DebugData(c) ==
    IF found[c] /\ Has(c, access[c].b) THEN cache[c][access[c].b].data ELSE block[c]

DebugAsk(c) ==
    /\ At(c, "dbg") /\ ~found[c]
    /\ Request(c, c)
    /\ Wait(c, "dbgLoad")
    /\ UNCHANGED <<directory, system, memory, cache, busyBus, busyDir, locals>>

\* On a network the data wait once more on their way back.
DebugLoad(c) ==
    /\ At(c, "dbgLoad")
    /\ Served(c)
    /\ block' = [block EXCEPT ![c] = memory[access[c].b]]
    /\ IF system.ordered THEN Continue(c, "dbgUse") ELSE Wait(c, "dbgUse")
    /\ UNCHANGED <<directory, system, memory, cache, busyBus, busyDir,
                   access, found, todo, evicted, result>>

DebugBegins(c) == (At(c, "dbg") /\ found[c]) \/ At(c, "dbgUse")

DebugRead(c) ==
    /\ DebugBegins(c) /\ access[c].cmd = "read"
    /\ result' = [result EXCEPT ![c] = DebugData(c)[access[c].w]]
    /\ found' = [found EXCEPT ![c] = FALSE]
    /\ block' = [block EXCEPT ![c] = NULL]
    /\ Wait(c, "done")
    /\ UNCHANGED <<directory, system, storage, cache, busyBus, busyDir, access, todo, evicted>>

\* The block is changed in the cache, where it does not become dirty, and goes to
\* memory as it is then.
DebugWrite(c) ==
    /\ DebugBegins(c) /\ access[c].cmd = "write"
    /\ LET a    == access[c]
           data == [DebugData(c) EXCEPT ![a.w] = a.v]
       IN  IF found[c] /\ Has(c, a.b)
           THEN cache' = [cache EXCEPT ![c][a.b].data = data] /\ UNCHANGED block
           ELSE block' = [block EXCEPT ![c] = data] /\ UNCHANGED cache
    /\ Request(c, c)
    /\ Wait(c, "dbgStore")
    /\ UNCHANGED <<directory, system, memory, busyBus, busyDir, access, found, todo, evicted, result>>

DebugStore(c) ==
    /\ At(c, "dbgStore")
    /\ Served(c)
    /\ memory' = [memory EXCEPT ![access[c].b] = DebugData(c)]
    /\ found' = [found EXCEPT ![c] = FALSE]
    /\ block' = [block EXCEPT ![c] = NULL]
    /\ Wait(c, "done")
    /\ UNCHANGED <<directory, system, cache, busyBus, busyDir, access, todo, evicted, result>>

Return(c) ==
    /\ At(c, "done")
    /\ access' = [access EXCEPT ![c] = NULL]
    /\ result' = [result EXCEPT ![c] = NULL]
    /\ Wait(c, "idle")
    /\ UNCHANGED <<directory, system, storage, cache, busyBus, busyDir,
                   found, todo, block, evicted>>

-----------------------------------------------------------------------------

Init ==
    /\ DirectoryInit
    /\ system \in Systems
    /\ memory = [b \in Blocks |-> [w \in Words |-> Zero]]
    /\ bus = <<>>
    /\ cache = [c \in Caches |-> [b \in Blocks |-> NULL]]
    /\ busyBus = [c \in Caches |-> FALSE] /\ busyDir = [c \in Caches |-> FALSE]
    /\ running = NULL /\ pc = [c \in Caches |-> "idle"]
    /\ access = [c \in Caches |-> NULL] /\ found = [c \in Caches |-> FALSE]
    /\ todo = [c \in Caches |-> <<>>] /\ block = [c \in Caches |-> NULL]
    /\ evicted = [c \in Caches |-> NULL] /\ result = [c \in Caches |-> NULL]

RequestStep(c) == Lookup(c) \/ Lock(c) \/ Serve(c) \/ Grant(c)
MessageStep(c) == SendWaiting(c) \/ Deliver(c) \/ Store(c) \/ Stored(c)
AccessStep(c)  == \/ Enter(c) \/ Load(c) \/ Insert(c) \/ Evict(c)
                  \/ StoreEvicted(c) \/ Use(c) \/ Release(c) \/ Through(c) \/ Return(c)
DebugStep(c)   == DebugAsk(c) \/ DebugLoad(c) \/ DebugRead(c) \/ DebugWrite(c) \/ DebugStore(c)

Step(c) == RequestStep(c) \/ MessageStep(c) \/ AccessStep(c) \/ DebugStep(c)
Next    == \E c \in Caches : Step(c) \/ \E a \in Accesses : Call(c, a)

Spec == Init /\ [][Next]_vars

\* The SystemC kernel executes every thread that can run again and again, although
\* the others take their turns in between, and transfers take a finite time.
FairSpec == Spec /\ \A c \in Caches : SF_vars(Step(c))

\* While a debug write is under way nobody else has to do with its block.
Undisturbed ==
    \A c, d \in Caches :
        c # d /\ access[c] # NULL /\ access[d] # NULL /\ access[c].b = access[d].b
            => ~(access[c].dbg /\ access[c].cmd = "write")

\* The behaviours of Spec in which this is so: what would disturb a debug write is called later.
UndisturbedCall(c, a) == Call(c, a) /\ Undisturbed'
UndisturbedNext == \E c \in Caches : Step(c) \/ \E a \in Accesses : UndisturbedCall(c, a)
UndisturbedSpec == Init /\ [][UndisturbedNext]_vars

-----------------------------------------------------------------------------
(* Properties *)

Places == {"idle", "dbgWait", "lookup", "lock", "queued", "serve", "send", "awaitBus",
           "message", "store", "stored", "enter", "load", "loaded",
           "insert", "evict", "use", "release", "through", "dbg", "dbgLoad", "dbgUse", "dbgStore", "done"}

\* The types of the variables; no tag ever has more blocks than ways ("too
\* many blocks under the same tag"), although it is waited between the test of its
\* size, the removal of a block and the insertion of the new one.
TypeOK ==
    /\ DirectoryType
    /\ system \in Systems
    /\ memory \in [Blocks -> Data]
    /\ bus \in Seq([thread : Caches, tag : Caches])
    /\ cache \in [Caches -> [Blocks -> [data : Data, dirty : BOOLEAN] \cup {NULL}]]
    /\ \A c \in Caches, b \in Blocks : Cardinality(Neighbours(c, b)) <= Ways
    /\ busyBus \in [Caches -> BOOLEAN] /\ busyDir \in [Caches -> BOOLEAN]
    /\ running \in Caches \cup {NULL} /\ pc \in [Caches -> Places]
    /\ access \in [Caches -> Accesses \cup {NULL}] /\ found \in [Caches -> BOOLEAN]
    /\ todo \in [Caches -> Seq(Caches)]
    /\ block \in [Caches -> Data \cup {NULL}]
    /\ evicted \in [Caches -> [b : Blocks, data : Data] \cup {NULL}]
    /\ result \in [Caches -> Values \cup {NULL}]

\* The directory knows every copy, although it is not told of evictions: there is
\* nothing it would forget to invalidate.
DirectoryKnows ==
    \A c \in Caches, b \in Blocks : Has(c, b) => Contains(blockCachedIn[b], c)

\* An access that has its privilege never finds dir_transport at work in its
\* cache: the if with which it waits for busyDir is not passed twice, nor is a
\* block stored while the access changes it.
NobodyInside == \A c \in Caches : pc[c] = "enter" \/ busyBus[c] => ~busyDir[c]

\* A block is exclusive, and then no other cache has a copy, or all copies are equal,
\* the block that a debug access holds on to while its cache loses it not counted.
CopiesAgree ==
    \A b \in Blocks :
        /\ blockPrivilege[b] = "EXCLUSIVE" =>
              \E c \in Caches : blockCachedIn[b] = <<c>> /\ \A d \in Caches : Has(d, b) => d = c
        /\ \A c, d \in Caches : Has(c, b) /\ Has(d, b) => cache[c][b].data = cache[d][b].data

\* Every access of a processor ends, in the queue of the directory, behind the
\* accesses of the caches it has to message and behind the interconnect.
AccessEnds == \A c \in Caches : pc[c] = "lock" ~> pc[c] = "idle"

\* The contents of the shared memory as the processors see it: a block that is
\* being evicted, any copy in a cache, or the block in memory.
Contents(b) ==
    LET leaving == { c \in Caches : evicted[c] # NULL /\ evicted[c].b = b }
        holding == { c \in Caches : Has(c, b) }
    IN  IF leaving # {} THEN evicted[CHOOSE c \in leaving : TRUE].data
        ELSE IF holding # {} THEN cache[CHOOSE c \in holding : TRUE][b].data
        ELSE memory[b]

\* What a debug read would return as things are: the block of its cache that it has
\* lost, the copy it has made of the one in memory, or that one.
Overtaken(c) == found[c] /\ ~Has(c, access[c].b)
Looking(c)   == access[c] # NULL /\ access[c].cmd = "read" /\ (Overtaken(c) \/ pc[c] \in {"dbgLoad", "dbgUse"})
Seen(c) ==
    IF ~Looking(c) THEN result[c]
    ELSE IF pc[c] = "dbgLoad" THEN memory[access[c].b][access[c].w]
    ELSE block[c][access[c].w]

TakenEffect(c) ==
    \/ pc[c] \in {"done", "release", "through"}
       /\ (access[c].cmd = "write" /\ system.policy[c] = "THROUGH" /\ ~Has(c, access[c].b)
             => pc[c] = "done")
    \/ pc[c] = "dbgStore" /\ found[c]
    \/ Looking(c)

Memory == INSTANCE AtomicMemory WITH
    Clients <- Caches,
    store   <- [b \in Blocks |-> Contents(b)],
    call    <- access,
    done    <- [c \in Caches |-> TakenEffect(c)],
    result  <- [c \in Caches |-> Seen(c)]

\* The caches, the directory and the memory together are one atomic memory: a
\* processor reads the last value any processor has written.
ImplementsMemory == Memory!Spec

=============================================================================
