------------------------- MODULE CoherentCache_proofs -------------------------
(***************************************************************************)
(* Five theorems about the caches and their directory, for any caches,      *)
(* blocks, sizes and processors.                                            *)
(*                                                                         *)
(* NobodyInside: an access of a processor never finds dir_transport at work *)
(* in its cache.  busyDir is set by a thread whose request the directory    *)
(* serves, and an access begins to use its cache when its own request has   *)
(* been served.  The directory serves one request at a time; what is left   *)
(* is the instant between the two, in which the thread that was granted its *)
(* privilege has not waited and nobody else runs.                           *)
(*                                                                         *)
(* DirectoryKnows: a cache with a block is in the list of the block.  A     *)
(* cache that is to lose its block stays a recipient of the request until   *)
(* it has lost it, and one that evicts a block stays in the list until the  *)
(* block is removed (DInv).                                                 *)
(*                                                                         *)
(* CopiesAgree: the copies of a block agree, if every cache writes back and *)
(* a debug write has its block to itself while it is under way, for its     *)
(* transfers wait after the directory has served it (Undisturbed).  Who     *)
(* writes is alone with its block, a block that is not exclusive is what    *)
(* the memory holds, and a block on its way from or to the memory is what   *)
(* it must be when it arrives (Coherent).                                   *)
(*                                                                         *)
(* ImplementsMemory: the whole is an atomic memory, under the same          *)
(* conditions.  All places a block is at agree (AllAgree), so that what the *)
(* processors see of it changes only where an access writes its copy or a   *)
(* debug write stores its block; what a debug write will store is what is   *)
(* in memory, but for its own word (Modified).  A debug read returns what   *)
(* the block was when it last looked (Looks).                               *)
(*                                                                         *)
(* TypeOK: the variables keep their types, and no tag has more blocks than  *)
(* ways.  A block that is used or stored is still in its cache, because     *)
(* nobody takes a block from a cache in use (Placed); where a block is to   *)
(* be inserted there is room left until it is, because no other thread      *)
(* inserts a block into this cache (Room).                                  *)
(***************************************************************************)
EXTENDS CoherentCache, SequenceTheorems, FiniteSetTheorems, TLAPS

\* Where a thread is served by the directory, and where it uses its cache.
ServedPlaces == {"serve", "send", "awaitBus", "message", "store", "stored"}
UsingPlaces  == {"load", "loaded", "insert", "evict", "use", "release"}

Shape ==
    /\ DOMAIN pc = Caches /\ DOMAIN busyBus = Caches /\ DOMAIN busyDir = Caches
    /\ DOMAIN todo = Caches
    /\ running \in Caches \cup {NULL}
    /\ requests \in Seq(Caches)

\* One request is served at a time, and those in the queue wait, each once.
OneServed ==
    /\ \A c, d \in Caches : pc[c] \in ServedPlaces /\ pc[d] \in ServedPlaces => c = d
    /\ \A c \in Caches : pc[c] \in ServedPlaces => busy
    /\ \A i \in 1 .. Len(requests) : pc[requests[i]] = "queued"
    /\ \A i, j \in 1 .. Len(requests) : requests[i] = requests[j] => i = j

\* Who has got its privilege runs, and nobody is in a cache until it waits.
NobodyBetween ==
    \A c \in Caches : pc[c] = "enter" =>
        /\ running = c
        /\ \A d \in Caches : ~busyDir[d] /\ pc[d] # "message"

\* Who uses each cache.
Users ==
    /\ \A d \in Caches : busyDir[d] =>
          \E c \in Caches : pc[c] \in {"store", "stored"} /\ Head(todo[c]) = d
    /\ \A d \in Caches : busyBus[d] => ~busyDir[d] /\ pc[d] \in UsingPlaces
    /\ \A c \in Caches : pc[c] = "message" => ~busyBus[Head(todo[c])]

CInv == Shape /\ OneServed /\ NobodyBetween /\ Users

-----------------------------------------------------------------------------

\* A thread that can run, and has not just got its privilege, is not in the way of
\* one that has.
LEMMA NobodyEnters ==
    ASSUME CInv, NEW c \in Caches, running \in {NULL, c}, pc[c] # "enter"
    PROVE  \A d \in Caches : pc[d] # "enter"
  BY CacheAssumption DEF CInv, NobodyBetween

\* While the thread c is served and nothing is being stored, nobody is in a cache.
LEMMA NobodyStores ==
    ASSUME CInv, NEW c \in Caches, pc[c] \in ServedPlaces \ {"store", "stored"}
    PROVE  \A d \in Caches : ~busyDir[d]
  BY DEF CInv, OneServed, Users, ServedPlaces

\* Steps outside the directory that leave the use of the caches alone.
LEMMA QuietStep ==
    ASSUME CInv, NEW c \in Caches, running \in {NULL, c}, running' \in {NULL, c},
           NEW x, pc' = [pc EXCEPT ![c] = x],
           pc[c] \notin ServedPlaces \cup {"enter", "queued"},
           x \notin ServedPlaces \cup {"enter"},
           pc[c] \in UsingPlaces => x \in UsingPlaces,
           UNCHANGED <<busy, requests, busyBus, busyDir, todo>>
    PROVE  CInv'
  <1>1. pc'[c] = x /\ \A d \in Caches \ {c} : pc'[d] = pc[d]
    BY DEF CInv, Shape
  <1>2. Shape'
    BY DEF CInv, Shape
  <1>3. OneServed'
    <2>1. \A i \in 1 .. Len(requests) : requests[i] \in Caches /\ requests[i] # c
      <3>1. \A i \in 1 .. Len(requests) : requests[i] \in Caches
        BY DEF CInv, Shape
      <3> QED BY <3>1 DEF CInv, OneServed
    <2> QED BY <1>1, <2>1 DEF CInv, OneServed
  <1>4. NobodyBetween'
    BY <1>1, NobodyEnters DEF NobodyBetween
  <1>5. Users'
    <2>1. \A d \in Caches : pc'[d] \in {"store", "stored"} <=> pc[d] \in {"store", "stored"}
      BY <1>1 DEF ServedPlaces
    <2>2. \A d \in Caches : pc'[d] = "message" => pc[d] = "message"
      BY <1>1 DEF ServedPlaces
    <2>3. \A d \in Caches : pc[d] \in UsingPlaces => pc'[d] \in UsingPlaces
      BY <1>1
    <2> QED BY <2>1, <2>2, <2>3 DEF CInv, Users
  <1> QED BY <1>2, <1>3, <1>4, <1>5 DEF CInv

\* A thread asks the directory for a privilege.
LEMMA LockStep ==
    ASSUME CInv, NEW c \in Caches, Lock(c)
    PROVE  CInv'
  <1>1. /\ pc[c] = "lock" /\ running \in {NULL, c} /\ UNCHANGED <<busyBus, busyDir, todo>>
    BY DEF Lock, At, locals
  <1>2. \A d \in Caches : pc[d] # "enter"
    BY <1>1, NobodyEnters
  <1>3. \A i \in 1 .. Len(requests) : requests[i] \in Caches /\ requests[i] # c
    <2>1. \A i \in 1 .. Len(requests) : requests[i] \in Caches
      BY DEF CInv, Shape
    <2> QED BY <1>1, <2>1 DEF CInv, OneServed
  <1>4. CASE ~busy /\ busy' = TRUE /\ UNCHANGED requests /\ running' = c /\ pc' = [pc EXCEPT ![c] = "serve"]
    <2>1. pc'[c] = "serve" /\ \A d \in Caches \ {c} : pc'[d] = pc[d]
      BY <1>4 DEF CInv, Shape
    <2>2. Shape'
      BY <1>1, <1>4 DEF CInv, Shape
    <2>3. OneServed'
      BY <1>1, <1>3, <1>4, <2>1 DEF CInv, OneServed, ServedPlaces
    <2>4. NobodyBetween'
      BY <1>2, <2>1 DEF NobodyBetween
    <2>5. Users'
      BY <1>1, <2>1 DEF CInv, Users, UsingPlaces
    <2> QED BY <2>2, <2>3, <2>4, <2>5 DEF CInv
  <1>5. CASE requests' = Append(requests, c) /\ UNCHANGED busy /\ running' = NULL /\ pc' = [pc EXCEPT ![c] = "queued"]
    <2>1. pc'[c] = "queued" /\ \A d \in Caches \ {c} : pc'[d] = pc[d]
      BY <1>5 DEF CInv, Shape
    <2>2. PICK n \in Nat :
              /\ n = Len(requests) /\ requests' \in Seq(Caches) /\ Len(requests') = n + 1
              /\ requests'[n + 1] = c /\ \A i \in 1 .. n : requests'[i] = requests[i]
      BY <1>5, AppendProperties, LenProperties DEF CInv, Shape
    <2>3. Shape'
      BY <1>1, <1>5, <2>2 DEF CInv, Shape
    <2>4. OneServed'
      <3>1. \A i \in 1 .. n + 1 : pc'[requests'[i]] = "queued"
        <4>1. \A i \in 1 .. n : pc[requests[i]] = "queued"
          BY <2>2 DEF CInv, OneServed
        <4> QED BY <1>3, <2>1, <2>2, <4>1
      <3>2. \A i, j \in 1 .. n + 1 : requests'[i] = requests'[j] => i = j
        <4>1. \A i, j \in 1 .. n : requests[i] = requests[j] => i = j
          BY <2>2 DEF CInv, OneServed
        <4> QED BY <1>3, <2>2, <4>1
      <3>3. \A d \in Caches : pc'[d] \in ServedPlaces => pc[d] \in ServedPlaces
        BY <2>1 DEF ServedPlaces
      <3> QED BY <1>5, <2>2, <3>1, <3>2, <3>3 DEF CInv, OneServed
    <2>5. NobodyBetween'
      BY <1>2, <2>1 DEF NobodyBetween
    <2>6. Users'
      BY <1>1, <2>1 DEF CInv, Users, UsingPlaces
    <2> QED BY <2>3, <2>4, <2>5, <2>6 DEF CInv
  <1> QED
    BY <1>4, <1>5 DEF Lock, Locked, Queued, Continue, Wait

\* The thread c stays in the directory while it does not end a message.
LEMMA ServedStep ==
    ASSUME CInv, NEW c \in Caches, running \in {NULL, c}, running' \in {NULL, c},
           NEW x, pc' = [pc EXCEPT ![c] = x],
           pc[c] \in ServedPlaces, x \in ServedPlaces \ {"message"},
           pc[c] \in {"store", "stored"} => x \in {"store", "stored"} /\ UNCHANGED todo,
           DOMAIN todo' = Caches, UNCHANGED <<busy, requests, busyBus>>,
           \/ UNCHANGED busyDir
           \/ /\ x = "store" /\ UNCHANGED todo
              /\ ~busyBus[Head(todo[c])] /\ busyDir' = [busyDir EXCEPT ![Head(todo[c])] = TRUE]
    PROVE  CInv'
  <1>1. pc'[c] = x /\ \A d \in Caches \ {c} : pc'[d] = pc[d]
    BY DEF CInv, Shape
  <1>2. Shape'
    BY DEF CInv, Shape
  <1>3. OneServed'
    <2>1. \A d \in Caches : pc'[d] \in ServedPlaces <=> pc[d] \in ServedPlaces
      BY <1>1
    <2>2. \A i \in 1 .. Len(requests) : requests[i] \in Caches /\ requests[i] # c
      <3>1. \A i \in 1 .. Len(requests) : requests[i] \in Caches
        BY DEF CInv, Shape
      <3> QED BY <3>1 DEF CInv, OneServed, ServedPlaces
    <2> QED BY <1>1, <2>1, <2>2 DEF CInv, OneServed
  <1>4. NobodyBetween'
    <2>1. \A d \in Caches : pc[d] # "enter"
      BY NobodyEnters DEF ServedPlaces
    <2> QED BY <1>1, <2>1 DEF NobodyBetween, ServedPlaces
  <1>5. Users'
    <2>1. \A d \in Caches \ {c} : pc[d] \notin ServedPlaces
      BY DEF CInv, OneServed
    <2>2. \A d \in Caches : busyDir'[d] => pc'[c] \in {"store", "stored"} /\ Head(todo'[c]) = d
      <3>1. ASSUME NEW d \in Caches, busyDir[d]
            PROVE  pc[c] \in {"store", "stored"} /\ Head(todo[c]) = d
        BY <2>1, <3>1 DEF CInv, Users, ServedPlaces
      <3>2. CASE UNCHANGED busyDir
        BY <1>1, <3>1, <3>2
      <3>3. CASE /\ x = "store" /\ UNCHANGED todo
                 /\ busyDir' = [busyDir EXCEPT ![Head(todo[c])] = TRUE]
        BY <1>1, <3>1, <3>3 DEF CInv, Shape
      <3> QED BY <3>2, <3>3
    <2>3. \A d \in Caches : busyBus[d] => ~busyDir'[d] /\ pc'[d] \in UsingPlaces
      <3>1. \A d \in Caches : busyBus[d] => d # c
        BY DEF CInv, Users, UsingPlaces, ServedPlaces
      <3>2. \A d \in Caches : busyBus[d] => ~busyDir'[d]
        BY DEF CInv, Users, Shape
      <3> QED BY <1>1, <3>1, <3>2 DEF CInv, Users
    <2>4. \A d \in Caches : pc'[d] # "message"
      BY <1>1, <2>1 DEF ServedPlaces
    <2> QED BY <2>2, <2>3, <2>4 DEF Users
  <1> QED BY <1>2, <1>3, <1>4, <1>5 DEF CInv

\* A message ends, and the cache d is free.
LEMMA RepliedStep ==
    ASSUME CInv, NEW c \in Caches, running \in {NULL, c}, pc[c] \in {"send", "message", "stored"},
           Replied(c, Head(todo[c])), UNCHANGED <<busy, requests, busyBus>>
    PROVE  CInv'
  <1> DEFINE d == Head(todo[c])
  <1>1. /\ pc' = [e \in Caches |-> IF e = c THEN "send"
                                   ELSE IF e \in AwaitDir(d) THEN "lookup" ELSE pc[e]]
        /\ busyDir' = [busyDir EXCEPT ![d] = FALSE] /\ running' = c
        /\ DOMAIN todo' = Caches
    BY DEF Replied, Notify, CInv, Shape
  <1>2. /\ pc'[c] = "send"
        /\ \A e \in Caches \ {c} : pc'[e] = pc[e] \/ (pc[e] = "dbgWait" /\ pc'[e] = "lookup")
    BY <1>1 DEF AwaitDir
  <1>3. Shape'
    BY <1>1 DEF CInv, Shape
  <1>4. \A e \in Caches : e # c => pc[e] \notin ServedPlaces /\ pc'[e] \notin ServedPlaces
    BY <1>2 DEF CInv, OneServed, ServedPlaces
  <1>5. OneServed'
    <2>1. \A i \in 1 .. Len(requests) : requests[i] \in Caches /\ pc'[requests[i]] = "queued"
      <3>1. \A i \in 1 .. Len(requests) : requests[i] \in Caches
        BY DEF CInv, Shape
      <3>2. \A i \in 1 .. Len(requests) : pc[requests[i]] = "queued"
        BY DEF CInv, OneServed
      <3> QED BY <1>2, <3>1, <3>2
    <2>2. busy
      BY DEF CInv, OneServed, ServedPlaces
    <2> QED BY <1>4, <2>1, <2>2 DEF CInv, OneServed
  <1>6. NobodyBetween'
    <2>1. \A e \in Caches : pc[e] # "enter"
      BY NobodyEnters
    <2> QED BY <1>2, <2>1 DEF NobodyBetween
  <1>7. Users'
    <2>1. \A e \in Caches : ~busyDir'[e]
      <3>1. \A e \in Caches : busyDir[e] => e = d
        BY <1>4 DEF CInv, Users, ServedPlaces
      <3> HIDE DEF d
      <3> QED BY <1>1, <3>1 DEF CInv, Shape
    <2>2. \A e \in Caches : busyBus[e] => pc'[e] \in UsingPlaces
      BY <1>2 DEF CInv, Users, UsingPlaces
    <2>3. \A e \in Caches : pc'[e] # "message"
      BY <1>2, <1>4 DEF ServedPlaces
    <2> QED BY <2>1, <2>2, <2>3 DEF Users
  <1> QED BY <1>3, <1>5, <1>6, <1>7 DEF CInv

\* The privilege is granted, and the next request is served.
LEMMA GrantStep ==
    ASSUME CInv, NEW c \in Caches, Grant(c)
    PROVE  CInv'
  <1>1. /\ pc[c] = "send" /\ running \in {NULL, c} /\ running' = c
        /\ UNCHANGED <<busyBus, busyDir, todo>>
        /\ requests' = IF requests = <<>> THEN <<>> ELSE Tail(requests)
        /\ requests # <<>> => busy'
    BY DEF Grant, At, Unlocked, Awakened, locals
  <1>2. PICK x \in {"dbg", "enter"} :
            pc' = [d \in Caches |-> IF d = c THEN x
                                    ELSE IF d \in Awakened THEN "serve" ELSE pc[d]]
    BY DEF Grant, Notify
  <1>3. pc'[c] = x /\ \A d \in Caches \ {c} : pc'[d] = IF d \in Awakened THEN "serve" ELSE pc[d]
    BY <1>2
  <1>4. \A d \in Caches \ {c} : pc[d] \notin ServedPlaces
    BY <1>1 DEF CInv, OneServed, ServedPlaces
  <1>5. \A d \in Caches : pc'[d] \in ServedPlaces => d \in Awakened
    BY <1>3, <1>4 DEF ServedPlaces
  <1>6. \A d \in Caches : ~busyDir[d]
    BY <1>1, NobodyStores DEF ServedPlaces
  <1>7. \A d \in Awakened : pc[d] = "queued" /\ requests # <<>>
    <2>1. requests # <<>> => Head(requests) = requests[1] /\ 1 \in 1 .. Len(requests)
      BY HeadTailProperties, EmptySeq, LenProperties DEF CInv, Shape
    <2> QED BY <2>1 DEF CInv, OneServed, Awakened
  <1>8. Shape'
    BY <1>1, <1>2, HeadTailProperties DEF CInv, Shape
  <1>9. OneServed'
    <2>1. \A d \in Caches : pc'[d] \in ServedPlaces => busy'
      BY <1>1, <1>5, <1>7
    <2>2. \A d, e \in Caches : pc'[d] \in ServedPlaces /\ pc'[e] \in ServedPlaces => d = e
      BY <1>5 DEF Awakened
    <2>3. /\ \A i \in 1 .. Len(requests') : pc'[requests'[i]] = "queued"
          /\ \A i, j \in 1 .. Len(requests') : requests'[i] = requests'[j] => i = j
      <3>1. CASE requests = <<>>
        BY <1>1, <3>1
      <3>2. CASE requests # <<>>
        <4>1. PICK n \in Nat :
                  /\ n = Len(requests) /\ Len(requests') = n - 1 /\ Head(requests) = requests[1]
                  /\ \A i \in 1 .. n - 1 : requests'[i] = requests[i + 1]
          BY <1>1, <3>2, HeadTailProperties, LenProperties DEF CInv, Shape
        <4>2. \A i \in 1 .. n - 1 : i + 1 \in 1 .. n /\ i + 1 # 1 /\ 1 \in 1 .. n
          OBVIOUS
        <4>3. \A i \in 1 .. n : requests[i] \in Caches /\ pc[requests[i]] = "queued"
          <5>1. \A i \in 1 .. n : requests[i] \in Caches
            BY <4>1 DEF CInv, Shape
          <5> QED BY <4>1, <5>1 DEF CInv, OneServed
        <4>4. \A i, j \in 1 .. n : requests[i] = requests[j] => i = j
          BY <4>1 DEF CInv, OneServed
        <4>5. \A i \in 1 .. n - 1 : requests'[i] # requests[1]
          BY <4>1, <4>2, <4>4
        <4>6. \A i \in 1 .. n - 1 : pc'[requests'[i]] = "queued"
          BY <1>1, <1>3, <3>2, <4>1, <4>2, <4>3, <4>5 DEF Awakened
        <4>7. \A i, j \in 1 .. n - 1 : requests'[i] = requests'[j] => i = j
          BY <4>1, <4>2, <4>4
        <4> QED BY <4>1, <4>6, <4>7
      <3> QED BY <3>1, <3>2
    <2> QED BY <2>1, <2>2, <2>3 DEF OneServed
  <1>10. \A d \in Caches : pc'[d] # "message"
    BY <1>3, <1>4 DEF ServedPlaces
  <1>11. NobodyBetween'
    <2>1. \A d \in Caches : pc[d] # "enter"
      BY <1>1, NobodyEnters
    <2>2. \A d \in Caches : pc'[d] = "enter" => d = c
      BY <1>3, <2>1
    <2> QED BY <1>1, <1>6, <1>10, <2>2 DEF NobodyBetween
  <1>12. Users'
    <2>1. \A d \in Caches : busyBus[d] => pc[d] \in UsingPlaces
      BY DEF CInv, Users
    <2>2. \A d \in Caches : busyBus[d] => pc'[d] \in UsingPlaces
      BY <1>1, <1>3, <1>7, <2>1 DEF UsingPlaces
    <2> QED BY <1>1, <1>6, <1>10, <2>2 DEF Users
  <1> QED BY <1>8, <1>9, <1>11, <1>12 DEF CInv

\* A thread that neither asks nor is served turns to the cache, or away from it.
LEMMA UseStep ==
    ASSUME CInv, NEW c \in Caches, running \in {NULL, c}, running' \in {NULL, c},
           pc[c] \in {"enter", "release"}, NEW x \in {"load", "use", "release", "through", "done"},
           \/ /\ pc[c] = "enter" /\ x \in UsingPlaces /\ pc' = [pc EXCEPT ![c] = x]
              /\ busyBus' = [busyBus EXCEPT ![c] = TRUE]
           \/ /\ pc[c] = "release" /\ x \notin UsingPlaces
              /\ pc' = [d \in Caches |-> IF d = c THEN x
                           ELSE IF pc[d] = "awaitBus" /\ Head(todo[d]) = c THEN "message" ELSE pc[d]]
              /\ busyBus' = [busyBus EXCEPT ![c] = FALSE],
           UNCHANGED <<busy, requests, busyDir, todo>>
    PROVE  CInv'
  <1>1. /\ pc'[c] = x
        /\ \A d \in Caches \ {c} :
              \/ pc'[d] = pc[d]
              \/ /\ pc[c] = "release" /\ pc[d] = "awaitBus" /\ pc'[d] = "message"
                 /\ Head(todo[d]) = c
    BY DEF CInv, Shape
  <1>2. Shape'
    BY DEF CInv, Shape
  <1>3. OneServed'
    <2>1. \A d \in Caches : pc'[d] \in ServedPlaces <=> pc[d] \in ServedPlaces
      BY <1>1 DEF ServedPlaces
    <2>2. \A i \in 1 .. Len(requests) : pc'[requests[i]] = "queued"
      <3>1. \A i \in 1 .. Len(requests) : requests[i] \in Caches
        BY DEF CInv, Shape
      <3>2. \A i \in 1 .. Len(requests) : pc[requests[i]] = "queued"
        BY DEF CInv, OneServed
      <3> QED BY <1>1, <3>1, <3>2
    <2> QED BY <2>1, <2>2 DEF CInv, OneServed
  <1>4. \A d \in Caches \ {c} : pc[d] # "enter"
    BY CacheAssumption DEF CInv, NobodyBetween
  <1>5. NobodyBetween'
    BY <1>1, <1>4 DEF NobodyBetween
  <1>6. Users'
    <2>1. \A d \in Caches : pc[d] \in {"store", "stored"} => pc'[d] \in {"store", "stored"}
      BY <1>1
    <2>2. \A d \in Caches : busyBus'[d] => ~busyDir[d] /\ pc'[d] \in UsingPlaces
      BY <1>1 DEF CInv, Shape, NobodyBetween, Users, UsingPlaces
    <2>3. \A d \in Caches : pc'[d] = "message" => ~busyBus'[Head(todo[d])]
      <3>1. CASE pc[c] = "enter"
        <4>1. \A d \in Caches : pc'[d] # "message"
          BY <1>1, <3>1 DEF CInv, NobodyBetween
        <4> QED BY <4>1
      <3>2. CASE pc[c] = "release"
        <4>1. busyBus' = [busyBus EXCEPT ![c] = FALSE]
          BY <3>2
        <4>2. \A d \in Caches : pc[d] = "message" => ~busyBus[Head(todo[d])]
          BY DEF CInv, Users
        <4>3. \A d : ~busyBus[d] => ~busyBus'[d]
          BY <4>1 DEF CInv, Shape
        <4>4. ~busyBus'[c]
          BY <4>1 DEF CInv, Shape
        <4> QED BY <1>1, <4>2, <4>3, <4>4
      <3> QED BY <3>1, <3>2
    <2> QED BY <2>1, <2>2, <2>3 DEF CInv, Users
  <1> QED BY <1>2, <1>3, <1>5, <1>6 DEF CInv

\* Every step keeps who is served and who uses each cache as they must be.
LEMMA CInvStep ==
    ASSUME CInv, [Next]_vars
    PROVE  CInv'
  <1>1. ASSUME NEW c \in Caches, NEW a \in Accesses, Call(c, a) PROVE CInv'
    <2>1. PICK x \in {"lock", "dbgWait"} :
              /\ pc' = [pc EXCEPT ![c] = x] /\ running' \in {NULL, c}
      BY <1>1 DEF Call, Continue, Wait
    <2>2. /\ pc[c] = "idle" /\ running \in {NULL, c}
          /\ UNCHANGED <<busy, requests, busyBus, busyDir, todo>>
      BY <1>1 DEF Call, At, directory
    <2> QED BY <2>1, <2>2, QuietStep DEF ServedPlaces, UsingPlaces
  <1>2. ASSUME NEW c \in Caches, RequestStep(c) PROVE CInv'
    <2>1. CASE Lookup(c)
      <3>1. /\ pc[c] = "lookup" /\ running \in {NULL, c} /\ running' = c /\ pc' = [pc EXCEPT ![c] = "lock"]
            /\ UNCHANGED <<busy, requests, busyBus, busyDir, todo>>
        BY <2>1 DEF Lookup, At, Continue, directory
      <3> QED BY <3>1, QuietStep DEF ServedPlaces, UsingPlaces
    <2>2. CASE Serve(c)
      <3>1. /\ pc[c] = "serve" /\ running \in {NULL, c} /\ running' = c /\ pc' = [pc EXCEPT ![c] = "send"]
            /\ UNCHANGED <<busy, requests, busyBus, busyDir>> /\ DOMAIN todo' = Caches
        BY <2>2 DEF Serve, At, Continue, CInv, Shape
      <3> QED BY <3>1, ServedStep DEF ServedPlaces
    <2> QED BY <1>2, <2>1, <2>2, LockStep, GrantStep DEF RequestStep
  <1>3. ASSUME NEW c \in Caches, MessageStep(c) PROVE CInv'
    <2>1. CASE SendWaiting(c)
      <3>1. /\ pc[c] = "send" /\ running \in {NULL, c} /\ running' = NULL /\ pc' = [pc EXCEPT ![c] = "awaitBus"]
            /\ UNCHANGED <<busy, requests, busyBus, busyDir, todo>>
        BY <2>1 DEF SendWaiting, At, Wait, directory, locals
      <3>2. DOMAIN todo' = Caches
        BY <3>1 DEF CInv, Shape
      <3> QED BY <3>1, <3>2, ServedStep DEF ServedPlaces
    <2>2. CASE Deliver(c)
      <3>1. /\ pc[c] \in {"send", "message"} /\ running \in {NULL, c}
            /\ UNCHANGED <<busy, requests, busyBus>> /\ ~busyBus[Head(todo[c])]
        BY <2>2 DEF Deliver, At, InUse, directory, CInv, Users
      <3>2. CASE Replied(c, Head(todo[c]))
        BY <3>1, <3>2, RepliedStep
      <3>3. CASE /\ busyDir' = [busyDir EXCEPT ![Head(todo[c])] = TRUE] /\ UNCHANGED todo
                 /\ running' = NULL /\ pc' = [pc EXCEPT ![c] = "store"]
        <4>1. DOMAIN todo' = Caches
          BY <3>3 DEF CInv, Shape
        <4> QED BY <3>1, <3>3, <4>1, ServedStep DEF ServedPlaces
      <3> QED BY <2>2, <3>2, <3>3 DEF Deliver, Wait
    <2>3. CASE Store(c)
      <3>1. /\ pc[c] = "store" /\ running \in {NULL, c} /\ running' = NULL /\ pc' = [pc EXCEPT ![c] = "stored"]
            /\ UNCHANGED <<busy, requests, busyBus, busyDir, todo>>
        BY <2>3 DEF Store, At, Wait, directory, locals
      <3>2. DOMAIN todo' = Caches
        BY <3>1 DEF CInv, Shape
      <3> QED BY <3>1, <3>2, ServedStep DEF ServedPlaces
    <2>4. CASE Stored(c)
      <3>1. /\ pc[c] = "stored" /\ running \in {NULL, c} /\ Replied(c, Head(todo[c]))
            /\ UNCHANGED <<busy, requests, busyBus>>
        BY <2>4 DEF Stored, At, directory
      <3> QED BY <3>1, RepliedStep
    <2> QED BY <1>3, <2>1, <2>2, <2>3, <2>4 DEF MessageStep
  <1>4. ASSUME NEW c \in Caches, AccessStep(c) PROVE CInv'
    <2>1. CASE Enter(c)
      <3>1. PICK x \in {"use", "release", "load"} :
                pc' = [pc EXCEPT ![c] = x] /\ running' \in {NULL, c}
        BY <2>1 DEF Enter, Continue, Wait
      <3>2. /\ pc[c] = "enter" /\ running \in {NULL, c} /\ busyBus' = [busyBus EXCEPT ![c] = TRUE]
            /\ UNCHANGED <<busy, requests, busyDir, todo>>
        BY <2>1 DEF Enter, At, directory, locals
      <3> QED BY <3>1, <3>2, UseStep DEF UsingPlaces
    <2>2. CASE Release(c)
      <3>1. PICK x \in {"through", "done"} :
                pc' = [d \in Caches |-> IF d = c THEN x
                         ELSE IF d \in { e \in Caches : pc[e] = "awaitBus" /\ Head(todo[e]) = c }
                              THEN "message" ELSE pc[d]]
        BY <2>2 DEF Release, Notify
      <3>2. /\ pc[c] = "release" /\ running \in {NULL, c} /\ running' = NULL
            /\ busyBus' = [busyBus EXCEPT ![c] = FALSE] /\ UNCHANGED <<busy, requests, busyDir, todo>>
        BY <2>2 DEF Release, At, directory, locals
      <3>3. pc' = [d \in Caches |-> IF d = c THEN x
                     ELSE IF pc[d] = "awaitBus" /\ Head(todo[d]) = c THEN "message" ELSE pc[d]]
        BY <3>1
      <3> QED BY <3>2, <3>3, UseStep DEF UsingPlaces
    <2>3. CASE Load(c) \/ Insert(c) \/ Evict(c) \/ StoreEvicted(c) \/ Use(c)
      <3>1. PICK x \in {"loaded", "use", "evict", "insert", "release"} :
                pc' = [pc EXCEPT ![c] = x] /\ running' \in {NULL, c}
        BY <2>3 DEF Load, Insert, Evict, StoreEvicted, Use, Continue, Wait
      <3>2. /\ pc[c] \in {"load", "loaded", "insert", "evict", "use"} /\ running \in {NULL, c}
            /\ UNCHANGED <<busy, requests, busyBus, busyDir, todo>>
        BY <2>3 DEF Load, Insert, Evict, StoreEvicted, Use, At, directory
      <3> QED BY <3>1, <3>2, QuietStep DEF ServedPlaces, UsingPlaces
    <2>4. CASE Through(c) \/ Return(c)
      <3>1. PICK x \in {"done", "idle"} : pc' = [pc EXCEPT ![c] = x] /\ running' \in {NULL, c}
        BY <2>4 DEF Through, Return, Wait
      <3>2. /\ pc[c] \in {"through", "done"} /\ running \in {NULL, c}
            /\ UNCHANGED <<busy, requests, busyBus, busyDir, todo>>
        BY <2>4 DEF Through, Return, At, directory, locals
      <3> QED BY <3>1, <3>2, QuietStep DEF ServedPlaces, UsingPlaces
    <2> QED BY <1>4, <2>1, <2>2, <2>3, <2>4 DEF AccessStep
  <1>5. ASSUME NEW c \in Caches, DebugStep(c) PROVE CInv'
    <2>1. PICK x \in {"dbgLoad", "dbgUse", "dbgStore", "done"} :
              pc' = [pc EXCEPT ![c] = x] /\ running' \in {NULL, c}
      BY <1>5 DEF DebugStep, DebugAsk, DebugLoad, DebugRead, DebugWrite, DebugStore, Continue, Wait
    <2>2. /\ pc[c] \in {"dbg", "dbgLoad", "dbgUse", "dbgStore"} /\ running \in {NULL, c}
          /\ UNCHANGED <<busy, requests, busyBus, busyDir, todo>>
      BY <1>5 DEF DebugStep, DebugAsk, DebugLoad, DebugBegins, DebugRead, DebugWrite, DebugStore,
                  At, directory, locals
    <2> QED BY <2>1, <2>2, QuietStep DEF ServedPlaces, UsingPlaces
  <1>6. CASE UNCHANGED vars
    BY <1>6 DEF vars, directory, control, locals, CInv, Shape, OneServed, NobodyBetween, Users
  <1> QED
    BY <1>1, <1>2, <1>3, <1>4, <1>5, <1>6 DEF Next, Step

\* The if with which an access waits for busyDir is never needed: whoever has its privilege
\* finds nobody in its cache, and nobody comes in while it uses it.
THEOREM NobodyElseInside == Spec => []NobodyInside
  <1>1. Init => CInv
    BY DEF Init, DirectoryInit, CInv, Shape, OneServed, NobodyBetween, Users, ServedPlaces
  <1>2. CInv /\ [Next]_vars => CInv'
    BY CInvStep
  <1>3. CInv => NobodyInside
    BY DEF CInv, NobodyBetween, Users, NobodyInside
  <1> QED
    BY <1>1, <1>2, <1>3, PTL DEF Spec

-----------------------------------------------------------------------------

\* What RemoveFirst leaves of a list in which nobody is twice.
LEMMA RemoveFirstProperties ==
    ASSUME NEW S, NEW list \in Seq(S), NEW c,
           \A i, j \in DOMAIN list : list[i] = list[j] => i = j
    PROVE  /\ RemoveFirst(list, c) \in Seq(S)
           /\ ToSet(RemoveFirst(list, c)) = ToSet(list) \ {c}
           /\ \A x : list = <<x>> /\ x # c => RemoveFirst(list, c) = list
  <1> DEFINE n == Len(list)
  <1>1. n \in Nat /\ DOMAIN list = 1 .. n /\ \A i \in 1 .. n : list[i] \in S
    BY LenProperties
  <1>2. \A x : list = <<x>> /\ x # c => ~\E i \in 1 .. n : list[i] = c
    OBVIOUS
  <1>3. CASE ~\E i \in 1 .. n : list[i] = c
    BY <1>1, <1>3 DEF RemoveFirst, ToSet
  <1>4. CASE \E i \in 1 .. n : list[i] = c
    <2>1. PICK i \in 1 .. n : list[i] = c
      BY <1>4
    <2>2. { j \in 1 .. n : list[j] = c } = {i}
      BY <1>1, <2>1
    <2>3. Min({i}) = i
      BY <1>1 DEF Min
    <2>4. SelectInSeq(list, LAMBDA v : v = c) = i
      BY <2>2, <2>3 DEF SelectInSeq
    <2> DEFINE r == SubSeq(list, 1, i - 1)
               t == SubSeq(list, i + 1, n)
    <2>5. RemoveFirst(list, c) = r \o t
      BY <1>4, <2>4 DEF RemoveFirst, RemoveAt
    <2>6. /\ r \in Seq(S) /\ Len(r) = i - 1 /\ \A j \in 1 .. i - 1 : r[j] = list[j]
          /\ t \in Seq(S) /\ Len(t) = n - i /\ \A j \in 1 .. n - i : t[j] = list[i + j]
      <3>1. i \in Int /\ i - 1 \in Int /\ i + 1 \in Int /\ n \in Int /\ 1 \in Int
        BY <1>1
      <3>2. \A j \in 1 .. i - 1 : list[j] \in S
        BY <1>1
      <3>3. \A j \in i + 1 .. n : list[j] \in S
        BY <1>1
      <3>4. /\ r \in Seq(S) /\ Len(r) = (IF 1 <= i - 1 THEN i - 1 - 1 + 1 ELSE 0)
            /\ \A j \in 1 .. i - 1 - 1 + 1 : r[j] = list[1 + j - 1]
        BY <3>1, <3>2, SubSeqProperties
      <3>5. /\ t \in Seq(S) /\ Len(t) = (IF i + 1 <= n THEN n - (i + 1) + 1 ELSE 0)
            /\ \A j \in 1 .. n - (i + 1) + 1 : t[j] = list[i + 1 + j - 1]
        BY <3>1, <3>3, SubSeqProperties
      <3> HIDE DEF r, t, n
      <3> QED BY <1>1, <3>4, <3>5
    <2> DEFINE u == r \o t
    <2> HIDE DEF r, t, n
    <2>7. /\ u \in Seq(S) /\ Len(u) = n - 1
          /\ \A j \in 1 .. n - 1 : u[j] = IF j <= i - 1 THEN list[j] ELSE list[j + 1]
      <3>1. /\ u \in Seq(S) /\ Len(u) = Len(r) + Len(t)
            /\ \A j \in 1 .. Len(r) + Len(t) : u[j] = IF j <= Len(r) THEN r[j] ELSE t[j - Len(r)]
        <4>1. r \in Seq(S) /\ t \in Seq(S)
          BY <2>6
        <4> QED BY ONLY <4>1, ConcatProperties
      <3> HIDE DEF u
      <3>2. Len(r) + Len(t) = n - 1 /\ Len(r) = i - 1
        BY <1>1, <2>6
      <3>3. ASSUME NEW j \in 1 .. n - 1 PROVE u[j] = IF j <= i - 1 THEN list[j] ELSE list[j + 1]
        <4>1. u[j] = IF j <= i - 1 THEN r[j] ELSE t[j - (i - 1)]
          BY <3>1, <3>2
        <4>2. CASE j <= i - 1
          BY <1>1, <2>6, <4>1, <4>2
        <4>3. CASE ~(j <= i - 1)
          <5>1. j - (i - 1) \in 1 .. n - i /\ i + (j - (i - 1)) = j + 1
            BY <1>1, <4>3
          <5>2. t[j - (i - 1)] = list[i + (j - (i - 1))]
            BY <2>6, <5>1
          <5> QED BY <4>1, <4>3, <5>1, <5>2
        <4> QED BY <4>2, <4>3
      <3> QED BY <3>1, <3>2, <3>3
    <2> HIDE DEF u
    <2>8. ToSet(u) = ToSet(list) \ {c}
      <3>1. DOMAIN u = 1 .. n - 1
        BY <2>7, LenProperties
      <3>2. \A j \in 1 .. n - 1 : \E k \in 1 .. n : k # i /\ u[j] = list[k]
        BY <1>1, <2>1, <2>7
      <3>3. \A k \in 1 .. n : k # i => \E j \in 1 .. n - 1 : u[j] = list[k]
        <4>1. SUFFICES ASSUME NEW k \in 1 .. n, k # i PROVE \E j \in 1 .. n - 1 : u[j] = list[k]
          OBVIOUS
        <4>2. CASE k < i
          <5>1. k \in 1 .. n - 1 /\ u[k] = list[k]
            BY <1>1, <2>1, <2>7, <4>1, <4>2
          <5> QED BY <5>1
        <4>3. CASE k > i
          <5>1. k - 1 \in 1 .. n - 1 /\ u[k - 1] = list[k]
            BY <1>1, <2>1, <2>7, <4>1, <4>3
          <5> QED BY <5>1
        <4> QED BY <1>1, <4>1, <4>2, <4>3
      <3>4. \A k \in 1 .. n : list[k] = c <=> k = i
        BY <1>1, <2>1
      <3>5. ToSet(u) = { u[j] : j \in 1 .. n - 1 } /\ ToSet(list) = { list[k] : k \in 1 .. n }
        BY <1>1, <3>1 DEF ToSet
      <3>6. \A x \in ToSet(u) : x \in ToSet(list) /\ x # c
        BY <3>2, <3>4, <3>5
      <3>7. \A x \in ToSet(list) : x # c => x \in ToSet(u)
        <4>1. \A k \in 1 .. n : list[k] # c => k # i
          BY <3>4
        <4> QED BY <3>3, <3>5, <4>1
      <3> QED BY <3>6, <3>7
    <2>9. u = RemoveFirst(list, c)
      BY <2>5 DEF u
    <2> QED BY <1>2, <1>4, <2>7, <2>8, <2>9
  <1> QED BY <1>3, <1>4

-----------------------------------------------------------------------------

\* Where a thread sends the messages of its request.
SendingPlaces == {"send", "awaitBus", "message", "store", "stored"}

\* A block concerns a cache that has it, is being accessed with it, or is storing it.
Using(c) == pc[c] \in {"enter"} \cup UsingPlaces
Concerned(c, b) ==
    \/ Has(c, b)
    \/ Using(c) /\ access[c].b = b
    \/ pc[c] = "evict" /\ evicted[c].b = b

\* The types of what the directory and its messages use.
Frames ==
    /\ blockPrivilege \in [Blocks -> Privileges]
    /\ blockCachedIn \in [Blocks -> Seq(Caches)]
    /\ todo \in [Caches -> Seq(Caches)]
    /\ DOMAIN access = Caches /\ DOMAIN found = Caches /\ DOMAIN evicted = Caches
    /\ DOMAIN cache = Caches /\ \A c \in Caches : DOMAIN cache[c] = Blocks
    /\ \A c \in Caches : pc[c] # "idle" => access[c] \in Accesses

\* Nobody is twice in a list, and who has an exclusive block is alone in its list.
Lists ==
    \A b \in Blocks :
        /\ \A i, j \in DOMAIN blockCachedIn[b] :
              blockCachedIn[b][i] = blockCachedIn[b][j] => i = j
        /\ blockPrivilege[b] = "none" => blockCachedIn[b] = <<>>
        /\ blockPrivilege[b] = "EXCLUSIVE" => \E c \in Caches : blockCachedIn[b] = <<c>>

\* Whom a block concerns is in its list.
Known == \A c \in Caches, b \in Blocks : Concerned(c, b) => c \in ToSet(blockCachedIn[b])

\* Whom a request has yet to message.
ToInvalidate(c, b) ==
    Command(c) = "write" =>
        \A d \in Caches : Concerned(d, b) => d = c \/ d \in ToSet(todo[c])
ToFlush(c, b) ==
    Command(c) # "write" =>
        /\ todo[c] # <<>> => /\ blockPrivilege[b] = "SHARED"
                             /\ \E d \in Caches \ {c} : todo[c] = <<d>> /\ blockCachedIn[b] = <<d>>
        /\ todo[c] = <<>> => (blockPrivilege[b] = "EXCLUSIVE" => blockCachedIn[b] = <<c>>)
\* A request messages others only, and leaves out nobody whom it has to message.
Progress ==
    \A c \in Caches : pc[c] \in SendingPlaces =>
        /\ c \notin ToSet(todo[c])
        /\ ToInvalidate(c, access[c].b) /\ ToFlush(c, access[c].b)

\* Who uses a cache has set its flag.
Occupied ==
    \A c \in Caches :
        /\ pc[c] \in UsingPlaces => busyBus[c]
        /\ pc[c] \in {"awaitBus", "message", "store", "stored"} => todo[c] # <<>>
        /\ pc[c] \in {"store", "stored"} => busyDir[Head(todo[c])]

DInv == Frames /\ Lists /\ Known /\ Progress /\ Occupied

-----------------------------------------------------------------------------

\* A step of c that neither the directory nor its messages see, and that makes c
\* concerned with nothing more.
LEMMA UnconcernedStep ==
    ASSUME CInv, DInv, NEW c \in Caches, Frames',
           UNCHANGED <<blockPrivilege, blockCachedIn, todo>>,
           \A d \in Caches \ {c} :
              /\ access'[d] = access[d] /\ found'[d] = found[d] /\ evicted'[d] = evicted[d]
              /\ cache'[d] = cache[d] /\ busyBus'[d] = busyBus[d]
              /\ pc'[d] = pc[d] \/ (pc[d] = "awaitBus" /\ pc'[d] = "message"),
           \A b \in Blocks : Concerned(c, b)' => Concerned(c, b),
           pc'[c] \in SendingPlaces =>
              pc[c] \in SendingPlaces /\ access'[c] = access[c] /\ found'[c] = found[c],
           pc'[c] \in UsingPlaces => busyBus'[c],
           pc'[c] \in {"awaitBus", "message", "store", "stored"} => todo[c] # <<>>,
           pc'[c] \in {"store", "stored"} => busyDir'[Head(todo[c])],
           \A d \in Caches : busyDir[d] => busyDir'[d]
    PROVE  DInv'
  <1>1. \A d \in Caches \ {c} : pc'[d] \in SendingPlaces <=> pc[d] \in SendingPlaces
    BY DEF SendingPlaces
  <1>2. \A d \in Caches, b \in Blocks : Concerned(d, b)' => Concerned(d, b)
    <2>1. ASSUME NEW d \in Caches \ {c}, NEW b \in Blocks, Concerned(d, b)' PROVE Concerned(d, b)
      BY <2>1 DEF Concerned, Has, Using, UsingPlaces
    <2> QED BY <2>1
  <1>3. Lists'
    BY DEF DInv, Lists
  <1>4. Known'
    BY <1>2 DEF DInv, Known
  <1>5. Progress'
    <2>1. SUFFICES ASSUME NEW d \in Caches, pc'[d] \in SendingPlaces
                   PROVE  /\ d \notin ToSet(todo'[d])
                          /\ ToInvalidate(d, access[d].b)' /\ ToFlush(d, access[d].b)'
      BY DEF Progress
    <2>2. pc[d] \in SendingPlaces /\ access'[d] = access[d] /\ found'[d] = found[d]
      BY <1>1, <2>1
    <2>3. d \notin ToSet(todo[d]) /\ ToInvalidate(d, access[d].b) /\ ToFlush(d, access[d].b)
      BY <2>2 DEF DInv, Progress
    <2>4. access[d] \in Accesses /\ access[d].b \in Blocks
      BY <2>2, CacheAssumption DEF DInv, Frames, SendingPlaces
    <2>5. Command(d)' = Command(d)
      BY <2>2 DEF Command
    <2>6. ToInvalidate(d, access[d].b)'
      BY <1>2, <2>2, <2>3, <2>4, <2>5 DEF ToInvalidate
    <2>7. ToFlush(d, access[d].b)'
      BY <2>2, <2>3, <2>5 DEF ToFlush
    <2> QED BY <2>3, <2>6, <2>7
  <1>6. Occupied'
    <2>1. ASSUME NEW d \in Caches \ {c}
          PROVE  /\ pc'[d] \in UsingPlaces => busyBus'[d]
                 /\ pc'[d] \in {"awaitBus", "message", "store", "stored"} => todo[d] # <<>>
                 /\ pc'[d] \in {"store", "stored"} => busyDir'[Head(todo[d])]
      <3>1. /\ pc[d] \in UsingPlaces => busyBus[d]
            /\ pc[d] \in {"awaitBus", "message", "store", "stored"} => todo[d] # <<>>
            /\ pc[d] \in {"store", "stored"} => busyDir[Head(todo[d])]
        BY DEF DInv, Occupied
      <3>2. todo[d] # <<>> => Head(todo[d]) \in Caches
        BY HeadTailProperties DEF DInv, Frames
      <3> QED BY <3>1, <3>2 DEF UsingPlaces
    <2> QED BY <2>1 DEF Occupied
  <1> QED BY <1>3, <1>4, <1>5, <1>6 DEF DInv

\* Nobody uses a cache whose message is being answered.
LEMMA NobodyUses ==
    ASSUME CInv, DInv, NEW c \in Caches, running \in {NULL, c},
           NEW d \in Caches, d = Head(todo[c]),
           \/ pc[c] = "send" /\ ~InUse(d)
           \/ pc[c] = "message"
           \/ pc[c] = "stored"
    PROVE  ~Using(d)
  <1>1. ~busyBus[d]
    <2>1. CASE pc[c] = "stored"
      BY <2>1 DEF CInv, DInv, Users, Occupied
    <2> QED BY <2>1 DEF CInv, Users, InUse
  <1>2. pc[d] \notin UsingPlaces
    BY <1>1 DEF DInv, Occupied
  <1>3. pc[d] # "enter"
    BY NobodyEnters
  <1> QED BY <1>2, <1>3 DEF Using

-----------------------------------------------------------------------------

\* While c is served nobody else sends messages.
LEMMA OnlyOneSends ==
    ASSUME CInv, NEW c \in Caches, pc[c] \in ServedPlaces
    PROVE  \A d \in Caches \ {c} : pc[d] \notin SendingPlaces
  BY DEF CInv, OneServed, ServedPlaces, SendingPlaces

\* The request of c is looked up in the directory.
LEMMA ServeKnows ==
    ASSUME CInv, DInv, NEW c \in Caches, Serve(c)
    PROVE  DInv'
  <1> DEFINE b == access[c].b
             cmd == Command(c)
             list == blockCachedIn[b]
             r == Recipients(c, cmd, b)
             others == blockPrivilege[b] = "EXCLUSIVE" /\ Head(list) # c
  <1>1. /\ pc[c] = "serve" /\ pc' = [pc EXCEPT ![c] = "send"] /\ running \in {NULL, c}
        /\ todo' = [todo EXCEPT ![c] = r]
        /\ Downgraded(c, cmd, b)
        /\ UNCHANGED <<blockCachedIn, cache, busyBus, busyDir, access, found, evicted>>
    BY DEF Serve, At, Continue
  <1>2. /\ access[c] \in Accesses /\ b \in Blocks /\ cmd \in {"read", "write"}
        /\ list \in Seq(Caches)
    BY <1>1, CacheAssumption DEF DInv, Frames, Command
  <1>3. /\ r \in Seq(Caches)
        /\ r # <<>> => ToSet(r) = ToSet(list) \ {c}
        /\ (blockPrivilege[b] = "SHARED" /\ cmd = "write") \/ others
              => ToSet(r) = ToSet(list) \ {c}
        /\ others => \E d \in Caches \ {c} : list = <<d>> /\ r = <<d>>
        /\ ~(blockPrivilege[b] = "SHARED" /\ cmd = "write") /\ ~others => r = <<>>
    <2>1. \A i, j \in DOMAIN list : list[i] = list[j] => i = j
      BY <1>2 DEF DInv, Lists
    <2>2. /\ RemoveFirst(list, c) \in Seq(Caches)
          /\ ToSet(RemoveFirst(list, c)) = ToSet(list) \ {c}
          /\ \A x : list = <<x>> /\ x # c => RemoveFirst(list, c) = list
      <3>1. list \in Seq(Caches)
        BY <1>2
      <3> HIDE DEF list
      <3> QED BY <2>1, <3>1, RemoveFirstProperties, Zenon
    <2>3. r = IF (blockPrivilege[b] = "SHARED" /\ cmd = "write") \/ others
              THEN RemoveFirst(list, c) ELSE <<>>
      BY DEF Recipients
    <2>4. <<>> \in Seq(Caches)
      BY EmptySeq
    <2>5. others => \E d \in Caches \ {c} : list = <<d>>
      <3>1. blockPrivilege[b] = "EXCLUSIVE" => \E d \in Caches : list = <<d>>
        BY <1>2 DEF DInv, Lists
      <3>2. \A d : list = <<d>> => Head(list) = d
        OBVIOUS
      <3> QED BY <3>1, <3>2
    <2>6. others => \E d \in Caches \ {c} : list = <<d>> /\ RemoveFirst(list, c) = <<d>>
      BY <2>2, <2>5
    <2> HIDE DEF b, cmd, list, r, others
    <2>7. CASE (blockPrivilege[b] = "SHARED" /\ cmd = "write") \/ others
      <3>1. r = RemoveFirst(list, c)
        BY <2>3, <2>7
      <3> QED BY <2>2, <2>6, <2>7, <3>1
    <2>8. CASE ~((blockPrivilege[b] = "SHARED" /\ cmd = "write") \/ others)
      <3>1. r = <<>>
        BY <2>3, <2>8
      <3> QED BY <2>4, <2>8, <3>1
    <2> QED BY <2>7, <2>8
  <1> HIDE DEF r
  <1>4. /\ pc'[c] = "send" /\ \A d \in Caches \ {c} : pc'[d] = pc[d]
        /\ todo'[c] = r /\ \A d \in Caches \ {c} : todo'[d] = todo[d]
    BY <1>1 DEF CInv, Shape, DInv, Frames
  <1>5. /\ blockPrivilege' \in [Blocks -> Privileges]
        /\ \A x \in Blocks \ {b} : blockPrivilege'[x] = blockPrivilege[x]
        /\ cmd = "read" /\ others => blockPrivilege'[b] = "SHARED"
        /\ ~(cmd = "read" /\ others) => blockPrivilege'[b] = blockPrivilege[b]
    <2>1. CASE cmd = "read" /\ others
      <3>1. blockPrivilege' = [blockPrivilege EXCEPT ![b] = "SHARED"]
        BY <1>1, <2>1 DEF Downgraded
      <3> HIDE DEF b, cmd, list, others
      <3> QED BY <1>2, <2>1, <3>1 DEF DInv, Frames, Privileges
    <2>2. CASE ~(cmd = "read" /\ others)
      <3>1. blockPrivilege' = blockPrivilege
        BY <1>1, <2>2 DEF Downgraded
      <3> HIDE DEF b, cmd, list, others
      <3> QED BY <2>2, <3>1 DEF DInv, Frames
    <2> QED BY <2>1, <2>2
  <1>6. \A d \in Caches, x \in Blocks : Concerned(d, x)' <=> Concerned(d, x)
    BY <1>1, <1>4 DEF Concerned, Has, Using, UsingPlaces
  <1>7. Frames'
    <2>1. todo' \in [Caches -> Seq(Caches)]
      <3>1. todo \in [Caches -> Seq(Caches)] /\ r \in Seq(Caches)
        BY <1>3 DEF DInv, Frames
      <3> QED BY <1>1, <3>1
    <2> QED BY <1>1, <1>2, <1>4, <1>5, <2>1 DEF DInv, Frames
  <1>8. Lists'
    <2>1. \A x \in Blocks : blockPrivilege'[x] = blockPrivilege[x] \/ blockPrivilege'[x] = "SHARED"
      BY <1>5
    <2> QED BY <1>1, <2>1 DEF DInv, Lists
  <1>9. Known'
    BY <1>1, <1>6 DEF DInv, Known
  <1>10. Progress'
    <2>1. \A d \in Caches : pc'[d] \in SendingPlaces => d = c
      BY <1>1, <1>4, OnlyOneSends DEF ServedPlaces
    <2>2. c \notin ToSet(r)
      <3>1. r = <<>> => ToSet(r) = {}
        BY DEF ToSet
      <3> QED BY <1>3, <3>1
    <2>3. cmd = "write" => \A d \in Caches : Concerned(d, b) => d = c \/ d \in ToSet(r)
      <3>1. SUFFICES ASSUME cmd = "write", NEW d \in Caches, Concerned(d, b), d # c
                     PROVE  d \in ToSet(r)
        OBVIOUS
      <3>2. d \in ToSet(list)
        BY <1>2, <3>1 DEF DInv, Known
      <3>3. blockPrivilege[b] = "SHARED" \/ others
        <4>1. list # <<>>
          BY <3>2 DEF ToSet
        <4>2. blockPrivilege[b] \in Privileges /\ blockPrivilege[b] # "none"
          BY <1>2, <4>1 DEF DInv, Frames, Lists
        <4>3. blockPrivilege[b] = "EXCLUSIVE" => Head(list) # c
          <5>1. blockPrivilege[b] = "EXCLUSIVE" => \E e \in Caches : list = <<e>>
            BY <1>2 DEF DInv, Lists
          <5>2. \A e : list = <<e>> => Head(list) = e /\ ToSet(list) = {e}
            BY DEF ToSet
          <5> QED BY <3>1, <3>2, <5>1, <5>2
        <4> QED BY <4>2, <4>3 DEF Privileges
      <3> QED BY <1>3, <3>1, <3>2, <3>3
    <2>4. cmd # "write" =>
            /\ r # <<>> => /\ blockPrivilege'[b] = "SHARED"
                           /\ \E d \in Caches \ {c} : r = <<d>> /\ list = <<d>>
            /\ r = <<>> => (blockPrivilege'[b] = "EXCLUSIVE" => list = <<c>>)
      <3>1. ASSUME cmd # "write", r # <<>>
            PROVE  /\ blockPrivilege'[b] = "SHARED"
                   /\ \E d \in Caches \ {c} : r = <<d>> /\ list = <<d>>
        BY <1>2, <1>3, <1>5, <3>1
      <3>2. ASSUME r = <<>>, blockPrivilege'[b] = "EXCLUSIVE" PROVE list = <<c>>
        <4>1. ~others
          BY <1>3, <3>2
        <4>2. blockPrivilege[b] = "EXCLUSIVE"
          BY <1>5, <3>2, <4>1
        <4>3. \E e \in Caches : list = <<e>>
          BY <1>2, <4>2 DEF DInv, Lists
        <4> QED BY <4>1, <4>2, <4>3
      <3> QED BY <3>1, <3>2
    <2>5. Command(c)' = cmd /\ access'[c].b = b /\ blockCachedIn'[b] = list
      BY <1>1 DEF Command
    <2>6. ToInvalidate(c, access[c].b)'
      BY <1>2, <1>4, <1>6, <2>3, <2>5 DEF ToInvalidate
    <2>7. ToFlush(c, access[c].b)'
      BY <1>4, <2>4, <2>5 DEF ToFlush
    <2> QED BY <1>4, <2>1, <2>2, <2>6, <2>7 DEF Progress
  <1>11. Occupied'
    <2>1. \A d \in Caches \ {c} : pc[d] \notin SendingPlaces
      BY <1>1, OnlyOneSends DEF ServedPlaces
    <2> QED BY <1>1, <1>4, <2>1 DEF DInv, Occupied, SendingPlaces, UsingPlaces
  <1> QED BY <1>7, <1>8, <1>9, <1>10, <1>11 DEF DInv

\* The privilege becomes c's, whom nobody has to be messaged for any more.
LEMMA GrantKnows ==
    ASSUME CInv, DInv, NEW c \in Caches, Grant(c)
    PROVE  DInv'
  <1> DEFINE b == access[c].b
             cmd == Command(c)
             list == blockCachedIn[b]
  <1>1. /\ pc[c] = "send" /\ todo[c] = <<>> /\ running \in {NULL, c}
        /\ Granted(c, cmd, b)
        /\ UNCHANGED <<cache, busyBus, busyDir, access, found, evicted, todo>>
    BY DEF Grant, At, locals
  <1>2. PICK x \in {"dbg", "enter"} :
            pc' = [d \in Caches |-> IF d = c THEN x
                                    ELSE IF d \in Awakened THEN "serve" ELSE pc[d]]
    BY DEF Grant, Notify
  <1>3. /\ access[c] \in Accesses /\ b \in Blocks /\ cmd \in {"read", "write"}
        /\ list \in Seq(Caches)
    BY <1>1, CacheAssumption DEF DInv, Frames, Command
  <1>4. /\ ToInvalidate(c, b) /\ ToFlush(c, b)
    BY <1>1 DEF DInv, Progress, SendingPlaces
  <1>5. /\ pc'[c] = x
        /\ \A d \in Caches \ {c} : pc'[d] = pc[d] \/ pc'[d] = "serve"
    BY <1>2
  <1>6. /\ \A y \in Blocks \ {b} : blockPrivilege'[y] = blockPrivilege[y] /\ blockCachedIn'[y] = blockCachedIn[y]
        /\ blockPrivilege' \in [Blocks -> Privileges]
        /\ blockPrivilege'[b] = IF cmd = "write" THEN "EXCLUSIVE"
                                ELSE IF blockPrivilege[b] = "none" THEN "SHARED" ELSE blockPrivilege[b]
        /\ blockCachedIn'[b] = IF cmd = "write" THEN <<c>>
                               ELSE IF Contains(list, c) THEN list ELSE Append(list, c)
        /\ DOMAIN blockCachedIn' = Blocks /\ blockCachedIn' = [y \in Blocks |-> blockCachedIn'[y]]
    <2>1. /\ blockPrivilege' = [blockPrivilege EXCEPT ![b] = IF cmd = "write" THEN "EXCLUSIVE"
                                ELSE IF blockPrivilege[b] = "none" THEN "SHARED" ELSE blockPrivilege[b]]
          /\ blockCachedIn' = [blockCachedIn EXCEPT ![b] = IF cmd = "write" THEN <<c>>
                               ELSE IF Contains(list, c) THEN list ELSE Append(list, c)]
      BY <1>1 DEF Granted
    <2>2. blockPrivilege \in [Blocks -> Privileges] /\ blockCachedIn \in [Blocks -> Seq(Caches)]
      BY DEF DInv, Frames
    <2> HIDE DEF b, cmd, list
    <2> QED BY <1>3, <2>1, <2>2 DEF Privileges
  <1>7. /\ <<c>> \in Seq(Caches) /\ ToSet(<<c>>) = {c}
        /\ \A i, j \in DOMAIN <<c>> : i = j
    BY DEF ToSet
  <1>8. /\ blockCachedIn'[b] \in Seq(Caches)
        /\ c \in ToSet(blockCachedIn'[b])
        /\ cmd # "write" => ToSet(list) \subseteq ToSet(blockCachedIn'[b])
        /\ \A i, j \in DOMAIN blockCachedIn'[b] : blockCachedIn'[b][i] = blockCachedIn'[b][j] => i = j
    <2>1. CASE cmd = "write"
      BY <1>6, <1>7, <2>1
    <2>2. CASE cmd # "write" /\ Contains(list, c)
      <3>1. blockCachedIn'[b] = list
        BY <1>6, <2>2
      <3>2. c \in ToSet(list)
        BY <1>3, <2>2, LenProperties DEF Contains, ToSet
      <3>3. \A i, j \in DOMAIN list : list[i] = list[j] => i = j
        BY <1>3 DEF DInv, Lists
      <3> HIDE DEF list
      <3> QED BY <1>3, <2>2, <3>1, <3>2, <3>3
    <2>3. CASE cmd # "write" /\ ~Contains(list, c)
      <3> DEFINE n == Len(list)
      <3>1. blockCachedIn'[b] = Append(list, c)
        BY <1>6, <2>3
      <3>2. /\ n \in Nat /\ DOMAIN list = 1 .. n
            /\ Append(list, c) \in Seq(Caches) /\ DOMAIN Append(list, c) = 1 .. n + 1
            /\ Append(list, c)[n + 1] = c /\ \A i \in 1 .. n : Append(list, c)[i] = list[i]
        BY <1>3, AppendProperties, LenProperties
      <3>3. \A i, j \in DOMAIN list : list[i] = list[j] => i = j
        BY <1>3 DEF DInv, Lists
      <3>4. \A i \in 1 .. n : list[i] # c
        BY <2>3 DEF Contains
      <3> DEFINE u == Append(list, c)
      <3>5. \A i, j \in 1 .. n + 1 : u[i] = u[j] => i = j
        <4> HIDE DEF u, list, n
        <4>1. \A i \in 1 .. n + 1 : i \in 1 .. n \/ i = n + 1
          BY <3>2
        <4>2. u[n + 1] = c /\ \A i \in 1 .. n : u[i] = list[i]
          BY <3>2 DEF u
        <4> QED BY <3>2, <3>3, <3>4, <4>1, <4>2
      <3>6. ToSet(u) = { u[i] : i \in 1 .. n + 1 } /\ ToSet(list) = { list[i] : i \in 1 .. n }
        BY <3>2 DEF ToSet
      <3>7. c \in ToSet(u) /\ ToSet(list) \subseteq ToSet(u)
        <4>1. u[n + 1] = c /\ \A i \in 1 .. n : u[i] = list[i] /\ i \in 1 .. n + 1
          BY <3>2
        <4>2. n + 1 \in 1 .. n + 1
          BY <3>2
        <4> HIDE DEF u, list, n
        <4> QED BY <3>6, <4>1, <4>2
      <3> QED BY <3>1, <3>2, <3>5, <3>7
    <2> QED BY <2>1, <2>2, <2>3
  <1> HIDE DEF list
  <1>9. \A d \in Caches, y \in Blocks : Concerned(d, y)' => Concerned(d, y) \/ (d = c /\ y = b)
    BY <1>1, <1>5 DEF Concerned, Has, Using, UsingPlaces
  <1>10. Frames'
    <2>1. blockCachedIn' \in [Blocks -> Seq(Caches)]
      <3>1. \A y \in Blocks : blockCachedIn'[y] \in Seq(Caches)
        BY <1>6, <1>8 DEF DInv, Frames
      <3> QED BY <1>6, <3>1
    <2>2. \A d \in Caches : pc'[d] # "idle" => access[d] \in Accesses
      <3>1. \A d \in Caches \ {c} : pc'[d] = "serve" => pc[d] # "idle"
        <4>1. \A d \in Awakened : pc[d] = "queued"
          <5>1. requests # <<>> => Head(requests) = requests[1] /\ 1 \in 1 .. Len(requests)
            BY HeadTailProperties, EmptySeq, LenProperties DEF CInv, Shape
          <5> QED BY <5>1 DEF CInv, OneServed, Awakened
        <4> QED BY <1>2, <4>1
      <3> QED BY <1>3, <1>5, <3>1 DEF DInv, Frames
    <2> QED BY <1>1, <1>6, <2>1, <2>2 DEF DInv, Frames
  <1>11. Lists'
    <2>1. ASSUME NEW y \in Blocks \ {b}
          PROVE  /\ \A i, j \in DOMAIN blockCachedIn'[y] :
                       blockCachedIn'[y][i] = blockCachedIn'[y][j] => i = j
                 /\ blockPrivilege'[y] = "none" => blockCachedIn'[y] = <<>>
                 /\ blockPrivilege'[y] = "EXCLUSIVE" => \E d \in Caches : blockCachedIn'[y] = <<d>>
      BY <1>6, <2>1 DEF DInv, Lists
    <2>2. blockPrivilege'[b] # "none"
      BY <1>6
    <2>3. blockPrivilege'[b] = "EXCLUSIVE" => blockCachedIn'[b] = <<c>>
      <3>1. ASSUME cmd # "write", blockPrivilege'[b] = "EXCLUSIVE" PROVE blockCachedIn'[b] = <<c>>
        <4>1. blockPrivilege[b] = "EXCLUSIVE"
          BY <1>6, <3>1
        <4>2. list = <<c>>
          BY <1>1, <1>4, <3>1, <4>1 DEF ToFlush, list
        <4>3. Contains(<<c>>, c)
          BY DEF Contains
        <4> QED BY <1>6, <3>1, <4>2, <4>3
      <3> QED BY <1>6, <3>1
    <2> QED BY <1>8, <2>1, <2>2, <2>3 DEF Lists
  <1>12. Known'
    <2>1. SUFFICES ASSUME NEW d \in Caches, NEW y \in Blocks, Concerned(d, y)'
                   PROVE  d \in ToSet(blockCachedIn'[y])
      BY DEF Known
    <2>2. CASE d = c /\ y = b
      BY <1>8, <2>2
    <2>3. CASE y # b
      BY <1>6, <1>9, <2>1, <2>3 DEF DInv, Known
    <2>4. CASE d # c /\ y = b
      <3>1. Concerned(d, b) /\ d \in ToSet(list)
        BY <1>3, <1>9, <2>1, <2>4 DEF DInv, Known, list
      <3>2. cmd # "write"
        <4>1. ToSet(todo[c]) = {}
          BY <1>1 DEF ToSet
        <4> QED BY <1>4, <2>4, <3>1, <4>1 DEF ToInvalidate
      <3> QED BY <1>8, <2>4, <3>1, <3>2
    <2> QED BY <2>2, <2>3, <2>4
  <1>13. Progress' /\ Occupied'
    <2>1. \A d \in Caches : pc'[d] \notin SendingPlaces
      BY <1>1, <1>5, OnlyOneSends DEF ServedPlaces, SendingPlaces
    <2>2. \A d \in Caches : pc'[d] \in UsingPlaces => pc[d] \in UsingPlaces
      BY <1>5 DEF UsingPlaces
    <2> QED BY <1>1, <2>1, <2>2 DEF DInv, Progress, Occupied, SendingPlaces
  <1> QED BY <1>10, <1>11, <1>12, <1>13 DEF DInv

-----------------------------------------------------------------------------

\* The cache d has done what it was told, and has nothing to do with the block any more
\* if it was to be invalidated.
LEMMA RepliedKnows ==
    ASSUME CInv, DInv, NEW c \in Caches, running \in {NULL, c},
           NEW d \in Caches, d = Head(todo[c]), todo[c] # <<>>,
           \/ pc[c] = "send" /\ ~InUse(d)
           \/ pc[c] = "message"
           \/ pc[c] = "stored",
           Replied(c, d), UNCHANGED <<blockPrivilege, blockCachedIn, access, found, evicted, busyBus>>
    PROVE  DInv'
  <1> DEFINE rest == Tail(todo[c])
  <1>1. /\ pc' = [e \in Caches |-> IF e = c THEN "send"
                                   ELSE IF e \in AwaitDir(d) THEN "lookup" ELSE pc[e]]
        /\ todo' = [todo EXCEPT ![c] = rest]
        /\ Answered(c, d)
    BY DEF Replied, Notify
  <1>2. pc[c] \in SendingPlaces /\ pc[c] \in ServedPlaces
    BY DEF SendingPlaces, ServedPlaces
  <1>3. PICK b \in Blocks : access[c] \in Accesses /\ access[c].b = b
    BY <1>2, CacheAssumption DEF DInv, Frames, SendingPlaces
  <1>4. /\ pc'[c] = "send"
        /\ \A e \in Caches \ {c} : pc'[e] = pc[e] \/ (pc[e] = "dbgWait" /\ pc'[e] = "lookup")
    BY <1>1 DEF AwaitDir
  <1>5. /\ rest \in Seq(Caches) /\ ToSet(todo[c]) = {d} \cup ToSet(rest)
        /\ \A e : todo[c] = <<e>> => rest = <<>>
    <2>1. todo[c] \in Seq(Caches)
      BY DEF DInv, Frames
    <2> DEFINE s == todo[c]
               n == Len(s)
    <2> HIDE DEF s
    <2>2. /\ rest \in Seq(Caches) /\ Len(rest) = n - 1 /\ d = s[1]
          /\ \A i \in 1 .. n - 1 : rest[i] = s[i + 1]
      BY <2>1, HeadTailProperties DEF s
    <2>3. n \in Nat \ {0} /\ DOMAIN s = 1 .. n /\ DOMAIN rest = 1 .. n - 1
      BY <2>1, <2>2, EmptySeq, LenProperties DEF s
    <2>4. ToSet(s) = {d} \cup ToSet(rest)
      <3> HIDE DEF rest, n
      <3>1. ToSet(s) = { s[i] : i \in 1 .. n } /\ ToSet(rest) = { rest[i] : i \in 1 .. n - 1 }
        BY <2>3 DEF ToSet
      <3>2. \A i \in 1 .. n : i = 1 \/ (i - 1 \in 1 .. n - 1 /\ s[i] = rest[i - 1])
        BY <2>2, <2>3
      <3>3. \A i \in 1 .. n - 1 : i + 1 \in 1 .. n
        BY <2>3
      <3>4. 1 \in 1 .. n
        BY <2>3
      <3>5. \A x \in ToSet(s) : x = d \/ x \in ToSet(rest)
        BY <2>2, <3>1, <3>2
      <3>6. \A x \in ToSet(rest) : x \in ToSet(s)
        BY <2>2, <3>1, <3>3
      <3>7. d \in ToSet(s)
        BY <2>2, <3>1, <3>4
      <3> QED BY <3>5, <3>6, <3>7
    <2>5. \A e : todo[c] = <<e>> => rest = <<>>
      OBVIOUS
    <2> QED BY <2>2, <2>4, <2>5 DEF s
  <1> HIDE DEF rest
  <1>6. /\ todo'[c] = rest
        /\ \A e \in Caches \ {c} : todo'[e] = todo[e]
        /\ todo' \in [Caches -> Seq(Caches)]
    <2>1. todo \in [Caches -> Seq(Caches)]
      BY DEF DInv, Frames
    <2> QED BY <1>1, <1>5, <2>1
  <1>7. /\ DOMAIN cache' = Caches /\ \A e \in Caches : DOMAIN cache'[e] = Blocks
        /\ \A e \in Caches, x \in Blocks : Has(e, x)' => Has(e, x)
        /\ Command(c) = "write" => ~Has(d, b)'
    <2>1. DOMAIN cache = Caches /\ \A e \in Caches : DOMAIN cache[e] = Blocks
      BY DEF DInv, Frames
    <2>2. CASE Message(Command(c)) = "INVALIDATE" /\ Has(d, b)
      <3>1. cache' = [cache EXCEPT ![d][b] = NULL]
        BY <1>1, <1>3, <2>2 DEF Answered
      <3> QED BY <2>1, <3>1 DEF Has
    <2>3. CASE ~(Message(Command(c)) = "INVALIDATE" /\ Has(d, b))
      <3>1. cache' = cache
        BY <1>1, <1>3, <2>3 DEF Answered
      <3> QED BY <2>1, <2>3, <3>1 DEF Has, Message
    <2> QED BY <2>2, <2>3
  <1>8. ~Using(d)
    BY NobodyUses
  <1>9. \A e \in Caches : (Using(e)' <=> Using(e)) /\ (pc'[e] = "evict" <=> pc[e] = "evict")
    BY <1>2, <1>4 DEF Using, UsingPlaces, SendingPlaces
  <1>10. /\ \A e \in Caches, x \in Blocks : Concerned(e, x)' => Concerned(e, x)
         /\ Command(c) = "write" => ~Concerned(d, b)'
    <2>1. \A e \in Caches, x \in Blocks : Concerned(e, x)' => Concerned(e, x)
      BY <1>7, <1>9 DEF Concerned
    <2>2. Command(c) = "write" => ~Concerned(d, b)'
      BY <1>7, <1>8, <1>9 DEF Concerned, Using, UsingPlaces
    <2> QED BY <2>1, <2>2
  <1>11. Frames'
    <2>1. \A e \in Caches : pc'[e] # "idle" => access[e] \in Accesses
      BY <1>3, <1>4 DEF DInv, Frames
    <2> QED BY <1>6, <1>7, <2>1 DEF DInv, Frames
  <1>12. Lists' /\ Known'
    BY <1>10 DEF DInv, Lists, Known
  <1>13. Progress'
    <2>1. \A e \in Caches : pc'[e] \in SendingPlaces => e = c
      BY <1>2, <1>4, OnlyOneSends DEF SendingPlaces
    <2>2. c \notin ToSet(todo[c]) /\ ToInvalidate(c, b) /\ ToFlush(c, b)
      BY <1>2, <1>3 DEF DInv, Progress
    <2>3. c \notin ToSet(rest)
      BY <1>5, <2>2
    <2>4. Command(c)' = Command(c) /\ access'[c].b = b
      BY <1>3 DEF Command
    <2>5. ToInvalidate(c, access[c].b)'
      <3>1. SUFFICES ASSUME Command(c) = "write", NEW e \in Caches, Concerned(e, b)', e # c
                     PROVE  e \in ToSet(rest)
        BY <1>6, <2>4 DEF ToInvalidate
      <3>2. e \in ToSet(todo[c])
        BY <1>3, <1>10, <2>2, <3>1 DEF ToInvalidate
      <3>3. e # d
        BY <1>10, <3>1
      <3> QED BY <1>5, <3>2, <3>3
    <2>6. ToFlush(c, access[c].b)'
      <3>1. Command(c) # "write" => blockPrivilege[b] = "SHARED" /\ rest = <<>>
        BY <1>5, <2>2 DEF ToFlush
      <3> QED BY <1>6, <2>4, <3>1 DEF ToFlush
    <2> QED BY <1>6, <2>1, <2>3, <2>5, <2>6 DEF Progress
  <1>14. Occupied'
    <2>1. \A e \in Caches : pc'[e] \in UsingPlaces => pc[e] \in UsingPlaces
      BY <1>4 DEF UsingPlaces
    <2>2. \A e \in Caches : pc'[e] \notin SendingPlaces \ {"send"}
      BY <1>2, <1>4, OnlyOneSends DEF SendingPlaces
    <2> QED BY <2>1, <2>2 DEF DInv, Occupied, SendingPlaces
  <1> QED BY <1>11, <1>12, <1>13, <1>14 DEF DInv

-----------------------------------------------------------------------------

\* A step of c that stays outside the directory, or waits in it.
LEMMA ElsewhereKnows ==
    ASSUME CInv, DInv, NEW c \in Caches,
           \/ \E a \in Accesses : Call(c, a)
           \/ Lookup(c) \/ Lock(c) \/ Through(c) \/ Return(c) \/ DebugStep(c)
    PROVE  DInv'
  <1>1. PICK x \in {"lock", "dbgWait", "serve", "queued", "done", "idle", "dbgLoad", "dbgUse", "dbgStore"} :
            pc' = [pc EXCEPT ![c] = x]
    BY DEF Call, Lookup, Lock, Through, Return, Continue, Wait,
           DebugStep, DebugAsk, DebugLoad, DebugRead, DebugWrite, DebugStore
  <1>2. /\ pc[c] \in {"idle", "lookup", "lock", "through", "done", "dbg", "dbgLoad", "dbgUse", "dbgStore"}
        /\ UNCHANGED <<blockPrivilege, blockCachedIn, todo, evicted, busyBus, busyDir>>
    BY DEF Call, Lookup, Lock, Through, Return, At, directory, locals,
           DebugStep, DebugAsk, DebugLoad, DebugBegins, DebugRead, DebugWrite, DebugStore
  <1>3. pc'[c] = x /\ \A d \in Caches \ {c} : pc'[d] = pc[d]
    BY <1>1 DEF CInv, Shape
  <1>4. /\ DOMAIN access' = Caches /\ \A d \in Caches \ {c} : access'[d] = access[d]
        /\ DOMAIN found' = Caches /\ \A d \in Caches \ {c} : found'[d] = found[d]
        /\ x # "idle" => access'[c] \in Accesses
    <2>1. DOMAIN access = Caches /\ DOMAIN found = Caches
      BY DEF DInv, Frames
    <2>2. pc[c] # "idle" => access[c] \in Accesses
      BY DEF DInv, Frames
    <2>3. CASE \E a \in Accesses : Call(c, a)
      BY <2>1, <2>3 DEF Call, Sought
    <2>4. CASE Lookup(c) \/ Lock(c) \/ Through(c) \/ DebugStep(c)
      <3>1. access' = access /\ (found' = found \/ \E f : found' = [found EXCEPT ![c] = f])
        BY <2>4 DEF Lookup, Lock, Through, Sought, locals,
                    DebugStep, DebugAsk, DebugLoad, DebugRead, DebugWrite, DebugStore
      <3>2. pc[c] # "idle"
        BY <2>4 DEF Lookup, Lock, Through, At,
                    DebugStep, DebugAsk, DebugLoad, DebugBegins, DebugRead, DebugWrite, DebugStore
      <3> QED BY <2>1, <2>2, <3>1, <3>2
    <2>5. CASE Return(c)
      <3>1. access' = [access EXCEPT ![c] = NULL] /\ found' = found
        BY <2>5 DEF Return
      <3>2. x = "idle"
        BY <1>3, <2>5 DEF Return, Wait, CInv, Shape
      <3> QED BY <2>1, <3>1, <3>2
    <2> QED BY <2>3, <2>4, <2>5
  <1>5. /\ DOMAIN cache' = Caches /\ \A d \in Caches : DOMAIN cache'[d] = Blocks
        /\ \A d \in Caches \ {c} : cache'[d] = cache[d]
        /\ \A b \in Blocks : Has(c, b)' => Has(c, b)
    <2>1. DOMAIN cache = Caches /\ \A d \in Caches : DOMAIN cache[d] = Blocks
      BY DEF DInv, Frames
    <2>2. CASE cache' = cache
      BY <2>1, <2>2 DEF Has
    <2>3. CASE DebugWrite(c) /\ cache' # cache
      <3>1. PICK b, data : Has(c, b) /\ cache' = [cache EXCEPT ![c][b].data = data]
        BY <2>3 DEF DebugWrite
      <3> QED BY <2>1, <3>1 DEF Has
    <2>4. cache' = cache \/ DebugWrite(c)
      BY DEF Call, Lookup, Lock, Through, Return, DebugStep, DebugAsk, DebugLoad, DebugRead, DebugStore,
             storage
    <2> QED BY <2>2, <2>3, <2>4
  <1>6. Frames'
    BY <1>2, <1>3, <1>4, <1>5 DEF DInv, Frames
  <1>7. \A b \in Blocks : Concerned(c, b)' => Concerned(c, b)
    BY <1>3, <1>5 DEF Concerned, Using, UsingPlaces
  <1>8. x \notin SendingPlaces \cup UsingPlaces
    BY DEF SendingPlaces, UsingPlaces
  <1>9. x \notin {"awaitBus", "message", "store", "stored"}
    OBVIOUS
  <1> QED
    BY <1>2, <1>3, <1>4, <1>5, <1>6, <1>7, <1>8, <1>9, UnconcernedStep

\* A step of c that uses its cache.
LEMMA UseKnows ==
    ASSUME CInv, DInv, NEW c \in Caches,
           \/ Enter(c) \/ Load(c) \/ Insert(c) \/ Evict(c) \/ StoreEvicted(c) \/ Use(c)
           \/ Release(c)
    PROVE  DInv'
  <1>1. PICK x \in {"use", "release", "load", "loaded", "insert", "evict", "through", "done"} :
            /\ pc'[c] = x
            /\ \A d \in Caches \ {c} :
                  pc'[d] = pc[d] \/ (pc[d] = "awaitBus" /\ pc'[d] = "message")
    <2>1. DOMAIN pc = Caches
      BY DEF CInv, Shape
    <2>2. CASE Release(c)
      <3>1. PICK x \in {"through", "done"} :
                Notify(c, x, { d \in Caches : pc[d] = "awaitBus" /\ Head(todo[d]) = c }, "message")
        BY <2>2 DEF Release
      <3> QED BY <2>1, <3>1 DEF Notify
    <2>3. CASE Enter(c) \/ Load(c) \/ Insert(c) \/ Evict(c) \/ StoreEvicted(c) \/ Use(c)
      <3>1. PICK x \in {"use", "release", "load", "loaded", "insert", "evict"} :
                pc' = [pc EXCEPT ![c] = x]
        BY <2>3 DEF Enter, Load, Insert, Evict, StoreEvicted, Use, Continue, Wait
      <3> QED BY <2>1, <3>1
    <2> QED BY <2>2, <2>3
  <1>2. /\ pc[c] \in {"enter"} \cup UsingPlaces
        /\ UNCHANGED <<blockPrivilege, blockCachedIn, todo, busyDir, access, found>>
    BY DEF Enter, Load, Insert, Evict, StoreEvicted, Use, Release, At, directory, locals, UsingPlaces
  <1>3. PICK b \in Blocks : access[c] \in Accesses /\ access[c].b = b
    BY <1>2, CacheAssumption DEF DInv, Frames, UsingPlaces
  <1>4. /\ DOMAIN busyBus' = Caches /\ \A d \in Caches \ {c} : busyBus'[d] = busyBus[d]
        /\ x \in UsingPlaces => busyBus'[c]
    <2>1. DOMAIN busyBus = Caches /\ (pc[c] \in UsingPlaces => busyBus[c])
      BY DEF CInv, Shape, DInv, Occupied
    <2>2. CASE Enter(c)
      <3>1. busyBus' = [busyBus EXCEPT ![c] = TRUE]
        BY <2>2 DEF Enter
      <3> QED BY <2>1, <3>1
    <2>3. CASE Release(c)
      <3>1. busyBus' = [busyBus EXCEPT ![c] = FALSE]
        BY <2>3 DEF Release
      <3>2. pc'[c] \in {"through", "done"}
        BY <2>3 DEF Release, Notify
      <3> QED BY <1>1, <2>1, <3>1, <3>2 DEF UsingPlaces
    <2>4. CASE Load(c) \/ Insert(c) \/ Evict(c) \/ StoreEvicted(c) \/ Use(c)
      <3>1. busyBus' = busyBus /\ pc[c] \in UsingPlaces
        BY <2>4 DEF Load, Insert, Evict, StoreEvicted, Use, At, UsingPlaces
      <3> QED BY <2>1, <3>1
    <2> QED BY <2>2, <2>3, <2>4
  <1>5. /\ DOMAIN cache' = Caches /\ \A d \in Caches : DOMAIN cache'[d] = Blocks
        /\ \A d \in Caches \ {c} : cache'[d] = cache[d]
        /\ \A y \in Blocks : Has(c, y)' => Has(c, y) \/ y = b
    <2>1. DOMAIN cache = Caches /\ \A d \in Caches : DOMAIN cache[d] = Blocks
      BY DEF DInv, Frames
    <2>2. CASE cache' = cache
      BY <2>1, <2>2 DEF Has
    <2>3. CASE Evict(c)
      <3>1. PICK v : cache' = [cache EXCEPT ![c][v] = NULL]
        BY <2>3 DEF Evict
      <3> QED BY <2>1, <3>1 DEF Has
    <2>4. CASE \E r : cache' = [cache EXCEPT ![c][b] = r]
      <3>1. PICK r : cache' = [cache EXCEPT ![c][b] = r]
        BY <2>4
      <3> QED BY <2>1, <3>1 DEF Has
    <2>5. Insert(c) => \E r : cache' = [cache EXCEPT ![c][b] = r]
      BY <1>3 DEF Insert
    <2>6. Use(c) => cache' = cache \/ \E r : cache' = [cache EXCEPT ![c][b] = r]
      BY <1>3 DEF Use
    <2>7. cache' = cache \/ Insert(c) \/ Evict(c) \/ Use(c)
      BY DEF Enter, Load, StoreEvicted, Release
    <2> QED BY <2>2, <2>3, <2>4, <2>5, <2>6, <2>7
  <1>6. /\ DOMAIN evicted' = Caches /\ \A d \in Caches \ {c} : evicted'[d] = evicted[d]
        /\ \A y \in Blocks : x = "evict" /\ evicted'[c].b = y => Has(c, y)
    <2>1. DOMAIN evicted = Caches
      BY DEF DInv, Frames
    <2>2. CASE Evict(c)
      <3>1. PICK v \in Neighbours(c, access[c].b) :
              IF WriteBack(c, v)
              THEN evicted' = [evicted EXCEPT ![c] = [b |-> v, data |-> cache[c][v].data]]
              ELSE Wait(c, "insert") /\ UNCHANGED <<evicted, bus>>
        BY <2>2 DEF Evict
      <3>2. v \in Blocks /\ Has(c, v)
        BY <3>1 DEF Neighbours
      <3>3. Wait(c, "insert") => x # "evict"
        BY <1>1 DEF Wait, CInv, Shape
      <3> QED BY <2>1, <3>1, <3>2, <3>3
    <2>3. CASE ~Evict(c)
      <3>1. evicted' = evicted \/ evicted' = [evicted EXCEPT ![c] = NULL]
        BY <2>3 DEF Enter, Load, Insert, StoreEvicted, Use, Release, locals
      <3>2. x # "evict"
        BY <1>1, <2>3 DEF Enter, Load, Insert, StoreEvicted, Use, Release, Continue, Wait, Notify, CInv, Shape
      <3> QED BY <2>1, <3>1, <3>2
    <2> QED BY <2>2, <2>3
  <1>7. Frames'
    <2>1. \A d \in Caches : pc'[d] # "idle" => access[d] \in Accesses
      BY <1>1, <1>3 DEF DInv, Frames
    <2> QED BY <1>2, <1>5, <1>6, <2>1 DEF DInv, Frames
  <1>8. \A y \in Blocks : Concerned(c, y)' => Concerned(c, y)
    <2>1. Using(c) /\ access[c].b = b
      BY <1>2, <1>3 DEF Using
    <2> QED BY <1>1, <1>2, <1>5, <1>6, <2>1 DEF Concerned
  <1>9. x \notin SendingPlaces /\ x \notin {"awaitBus", "message", "store", "stored"}
    BY DEF SendingPlaces
  <1>10. \A d \in Caches \ {c} :
            /\ access'[d] = access[d] /\ found'[d] = found[d] /\ evicted'[d] = evicted[d]
            /\ cache'[d] = cache[d] /\ busyBus'[d] = busyBus[d]
            /\ pc'[d] = pc[d] \/ (pc[d] = "awaitBus" /\ pc'[d] = "message")
    BY <1>1, <1>2, <1>4, <1>5, <1>6
  <1> QED
    BY <1>1, <1>2, <1>4, <1>7, <1>8, <1>9, <1>10, UnconcernedStep

-----------------------------------------------------------------------------

\* A thread waits for the cache it messages, or for the interconnect.
LEMMA WaitKnows ==
    ASSUME CInv, DInv, NEW c \in Caches, NEW x \in {"awaitBus", "store", "stored"},
           pc' = [pc EXCEPT ![c] = x], pc[c] \in SendingPlaces, todo[c] # <<>>,
           UNCHANGED <<blockPrivilege, blockCachedIn, todo, access, found, evicted, cache, busyBus>>,
           \A d \in Caches : busyDir[d] => busyDir'[d],
           x \in {"store", "stored"} => busyDir'[Head(todo[c])]
    PROVE  DInv'
  <1>1. pc'[c] = x /\ \A d \in Caches \ {c} : pc'[d] = pc[d]
    BY DEF CInv, Shape
  <1>2. Frames'
    BY <1>1 DEF DInv, Frames, SendingPlaces
  <1>3. \A b \in Blocks : Concerned(c, b)' => Concerned(c, b)
    BY <1>1 DEF Concerned, Has, Using, UsingPlaces
  <1>4. x \notin UsingPlaces
    BY DEF UsingPlaces
  <1> QED
    BY <1>1, <1>2, <1>3, <1>4, UnconcernedStep

\* A step with which c messages another cache.
LEMMA MessageKnows ==
    ASSUME CInv, DInv, NEW c \in Caches, MessageStep(c)
    PROVE  DInv'
  <1>1. CASE SendWaiting(c)
    <2>1. /\ pc[c] = "send" /\ todo[c] # <<>> /\ pc' = [pc EXCEPT ![c] = "awaitBus"]
          /\ UNCHANGED <<blockPrivilege, blockCachedIn, todo, access, found, evicted, cache, busyBus, busyDir>>
      BY <1>1 DEF SendWaiting, At, Wait, directory, locals
    <2> QED BY <2>1, WaitKnows DEF SendingPlaces
  <1>2. CASE Store(c)
    <2>1. /\ pc[c] = "store" /\ pc' = [pc EXCEPT ![c] = "stored"]
          /\ UNCHANGED <<blockPrivilege, blockCachedIn, todo, access, found, evicted, cache, busyBus, busyDir>>
      BY <1>2 DEF Store, At, Wait, directory, locals
    <2>2. todo[c] # <<>> /\ busyDir[Head(todo[c])]
      BY <2>1 DEF DInv, Occupied
    <2> QED BY <2>1, <2>2, WaitKnows DEF SendingPlaces
  <1>3. PICK d : d = Head(todo[c])
    OBVIOUS
  <1>4. todo[c] # <<>> => d \in Caches
    BY <1>3, HeadTailProperties DEF DInv, Frames
  <1>5. CASE Deliver(c)
    <2>1. /\ running \in {NULL, c}
          /\ (pc[c] = "send" /\ todo[c] # <<>> /\ ~InUse(d)) \/ pc[c] = "message"
          /\ UNCHANGED <<blockPrivilege, blockCachedIn, access, found, evicted, busyBus>>
      BY <1>3, <1>5 DEF Deliver, At, directory
    <2>2. todo[c] # <<>> /\ d \in Caches
      BY <1>4, <2>1 DEF DInv, Occupied
    <2>3. CASE Replied(c, d)
      BY <1>3, <2>1, <2>2, <2>3, RepliedKnows
    <2>4. CASE ~Replied(c, d)
      <3>1. /\ busyDir' = [busyDir EXCEPT ![d] = TRUE] /\ pc' = [pc EXCEPT ![c] = "store"]
            /\ UNCHANGED <<cache, todo>>
        BY <1>3, <1>5, <2>4 DEF Deliver, Wait
      <3>2. busyDir'[d] /\ \A e \in Caches : busyDir[e] => busyDir'[e]
        BY <2>2, <3>1 DEF CInv, Shape
      <3> QED BY <1>3, <2>1, <2>2, <3>1, <3>2, WaitKnows DEF SendingPlaces
    <2> QED BY <2>3, <2>4
  <1>6. CASE Stored(c)
    <2>1. /\ running \in {NULL, c} /\ pc[c] = "stored" /\ Replied(c, d)
          /\ UNCHANGED <<blockPrivilege, blockCachedIn, access, found, evicted, busyBus>>
      BY <1>3, <1>6 DEF Stored, At, directory
    <2>2. todo[c] # <<>> /\ d \in Caches
      BY <1>4, <2>1 DEF DInv, Occupied
    <2> QED BY <1>3, <2>1, <2>2, RepliedKnows
  <1> QED BY <1>1, <1>2, <1>5, <1>6 DEF MessageStep

\* Every step keeps what the directory knows.
LEMMA DInvStep ==
    ASSUME CInv, DInv, [Next]_vars
    PROVE  DInv'
  <1>1. CASE UNCHANGED vars
    <2>1. UNCHANGED <<blockPrivilege, blockCachedIn, todo, access, found, evicted, cache,
                      pc, busyBus, busyDir>>
      BY <1>1 DEF vars, directory, control, locals
    <2>2. \A c \in Caches, b \in Blocks : Concerned(c, b)' <=> Concerned(c, b)
      BY <2>1 DEF Concerned, Has, Using
    <2>3. Frames' /\ Lists' /\ Occupied'
      BY <2>1 DEF DInv, Frames, Lists, Occupied
    <2>4. Known'
      BY <2>1, <2>2 DEF DInv, Known
    <2>5. Progress'
      <3>1. SUFFICES ASSUME NEW c \in Caches, pc[c] \in SendingPlaces
                     PROVE  /\ c \notin ToSet(todo[c])
                            /\ ToInvalidate(c, access[c].b)' /\ ToFlush(c, access[c].b)'
        BY <2>1 DEF Progress
      <3>2. c \notin ToSet(todo[c]) /\ ToInvalidate(c, access[c].b) /\ ToFlush(c, access[c].b)
        BY <3>1 DEF DInv, Progress
      <3>3. access[c].b \in Blocks
        BY <3>1, CacheAssumption DEF DInv, Frames, SendingPlaces
      <3>4. Command(c)' = Command(c)
        BY <2>1 DEF Command
      <3> QED BY <2>1, <2>2, <3>2, <3>3, <3>4 DEF ToInvalidate, ToFlush
    <2> QED BY <2>3, <2>4, <2>5 DEF DInv
  <1>2. ASSUME NEW c \in Caches, Step(c) \/ \E a \in Accesses : Call(c, a) PROVE DInv'
    BY <1>2, ServeKnows, GrantKnows, MessageKnows, ElsewhereKnows, UseKnows
       DEF Step, RequestStep, AccessStep
  <1> QED BY <1>1, <1>2 DEF Next

\* No cache has a block at first.
LEMMA InitKnows == Init => DInv
  <1> SUFFICES ASSUME Init PROVE DInv
    OBVIOUS
  <1>1. Frames
    <2>1. <<>> \in Seq(Caches)
      BY EmptySeq
    <2> QED BY <2>1 DEF Init, DirectoryInit, Frames, Privileges
  <1>2. Lists
    BY DEF Init, DirectoryInit, Lists
  <1>3. Known
    BY DEF Init, Known, Concerned, Has, Using, UsingPlaces
  <1>4. Progress /\ Occupied
    BY DEF Init, Progress, Occupied, SendingPlaces, UsingPlaces
  <1> QED BY <1>1, <1>2, <1>3, <1>4 DEF DInv

\* The directory knows every copy, although it is not told of evictions: a cache is on the list of
\* a block from the moment the privilege is granted, and is taken off when it has been made to
\* give up all it had to do with the block.
THEOREM NothingForgotten == Spec => []DirectoryKnows
  <1>1. Init => CInv
    BY DEF Init, DirectoryInit, CInv, Shape, OneServed, NobodyBetween, Users, ServedPlaces
  <1>2. Init => DInv
    BY InitKnows
  <1>3. CInv /\ DInv /\ [Next]_vars => CInv' /\ DInv'
    BY CInvStep, DInvStep
  <1>4. DInv => DirectoryKnows
    <2>1. SUFFICES ASSUME DInv, NEW c \in Caches, NEW b \in Blocks, Has(c, b)
                   PROVE  Contains(blockCachedIn[b], c)
      BY DEF DirectoryKnows
    <2>2. c \in ToSet(blockCachedIn[b]) /\ blockCachedIn[b] \in Seq(Caches)
      BY <2>1 DEF DInv, Known, Concerned, Frames
    <2> QED BY <2>2, LenProperties DEF ToSet, Contains
  <1> QED
    BY <1>1, <1>2, <1>3, <1>4, PTL DEF Spec

-----------------------------------------------------------------------------

\* Every cache writes back.
WriteBackOnly == \A s \in Systems : \A c \in Caches : s.policy[c] = "BACK"

\* Where transport_dbg waits for its transfers, and where an access has not yet been granted
\* its privilege or transport_dbg has not used it.
PendingPlaces == {"dbgLoad", "dbgUse", "dbgStore"}
AskingPlaces  == {"lock", "queued", "serve", "dbg"} \cup PendingPlaces \cup SendingPlaces
FilledPlaces == {"loaded", "evict", "insert"}

\* The record of a block.
IsCopy(r) == r = [data |-> r.data, dirty |-> r.dirty]

\* A debug access that asks for a write has not found its block, and is alone when it begins.
Roles ==
    /\ system \in Systems /\ DOMAIN block = Caches /\ DOMAIN memory = Blocks
    /\ \A c \in Caches :
        /\ pc[c] # "through"
        /\ pc[c] \in AskingPlaces /\ access[c].dbg /\ ~found[c] => ~Has(c, access[c].b)
        /\ pc[c] = "dbg" => access[c].dbg /\ running = c /\ \A d \in Caches : pc[d] \notin SendingPlaces
        /\ pc[c] \in PendingPlaces =>
              access[c].dbg /\ IF pc[c] = "dbgStore" THEN access[c].cmd = "write" ELSE ~found[c]
        /\ Using(c) => ~access[c].dbg

\* Where the copies of c are, and where they are not yet or no more.
CopiesOf(c) ==
    /\ \A b \in Blocks : Has(c, b) => IsCopy(cache[c][b])
    /\ pc[c] = "use" => IsCopy(cache[c][access[c].b])
    /\ pc[c] \in {"load"} \cup FilledPlaces => ~Has(c, access[c].b)
    /\ pc[c] = "evict" => /\ evicted[c].b \in Blocks /\ evicted[c].b # access[c].b
                          /\ ~Has(c, evicted[c].b)

\* One cache alone may have a copy that differs from the memory: the block is exclusive, or
\* it was, and its owner still has to flush it.
Flushing(b) ==
    \E c \in Caches :
        pc[c] \in SendingPlaces /\ access[c].b = b /\ Command(c) # "write" /\ todo[c] # <<>>
Sole(b) == blockPrivilege[b] = "EXCLUSIVE" \/ Flushing(b)

\* Who writes is that one.
Writing(c) ==
    \/ (pc[c] = "dbg" \/ Using(c)) /\ Command(c) = "write"
    \/ pc[c] \in PendingPlaces /\ access[c].cmd = "write"
Writers ==
    \A c \in Caches : Writing(c) => blockCachedIn[access[c].b] = <<c>> /\ Sole(access[c].b)

\* A copy of c that is not dirty is as in memory, unless transport_dbg is about to store it,
\* and so is every copy of a block that anybody may read.
CleanIn(c) ==
    \A b \in Blocks :
        Has(c, b) /\ ~cache[c][b].dirty /\ ~(pc[c] = "dbgStore" /\ access[c].b = b)
            => cache[c][b].data = memory[b]
CurrentIn(c) ==
    \A b \in Blocks : ~Sole(b) =>
        /\ Has(c, b) => cache[c][b].data = memory[b]
        /\ pc[c] = "evict" /\ evicted[c].b = b => evicted[c].data = memory[b]

\* What c has loaded, and what it stores for another.
LoadedBy(c) == pc[c] \in FilledPlaces => block[c] = memory[access[c].b]
StoredBy(c) ==
    /\ pc[c] \in {"store", "stored"} => Has(Head(todo[c]), access[c].b)
    /\ pc[c] = "stored" => memory[access[c].b] = cache[Head(todo[c])][access[c].b].data

\* The copies are where they should be and what they should be.
Coherent ==
    /\ Roles /\ Writers
    /\ \A c \in Caches : CopiesOf(c) /\ CleanIn(c) /\ CurrentIn(c) /\ LoadedBy(c) /\ StoredBy(c)

-----------------------------------------------------------------------------

\* Whom a block concerns that one cache alone may have.
LEMMA SoleOwner ==
    ASSUME CInv, DInv, NEW b \in Blocks, Sole(b)
    PROVE  \E e \in Caches : blockCachedIn[b] = <<e>> /\ \A c \in Caches : Concerned(c, b) => c = e
  <1>1. PICK e \in Caches : blockCachedIn[b] = <<e>>
    <2>1. CASE blockPrivilege[b] = "EXCLUSIVE"
      BY <2>1 DEF DInv, Lists
    <2>2. CASE Flushing(b)
      <3>1. PICK c \in Caches : pc[c] \in SendingPlaces /\ access[c].b = b /\ Command(c) # "write" /\ todo[c] # <<>>
        BY <2>2 DEF Flushing
      <3>2. ToFlush(c, b)
        BY <3>1 DEF DInv, Progress
      <3> QED BY <3>1, <3>2 DEF ToFlush
    <2> QED BY <2>1, <2>2 DEF Sole
  <1>2. ToSet(<<e>>) = {e}
    BY DEF ToSet
  <1> QED BY <1>1, <1>2 DEF DInv, Known

\* A step of c that neither the directory nor its messages see.
LEMMA OwnStep ==
    ASSUME CInv, DInv, Coherent, NEW c \in Caches, running \in {NULL, c},
           UNCHANGED <<system, blockPrivilege, blockCachedIn, todo>>,
           DOMAIN block' = Caches, DOMAIN memory' = Blocks,
           \A d \in Caches \ {c} :
              /\ access'[d] = access[d] /\ found'[d] = found[d] /\ evicted'[d] = evicted[d]
              /\ cache'[d] = cache[d] /\ block'[d] = block[d]
              /\ pc'[d] = pc[d] \/ (pc[d] = "awaitBus" /\ pc'[d] = "message"),
           Using(c)' => Using(c),
           pc'[c] \in SendingPlaces <=> pc[c] \in SendingPlaces,
           Using(c)' \/ pc[c] \in SendingPlaces => access'[c] = access[c] /\ found'[c] = found[c],
           pc'[c] \notin {"dbg", "through"},
           pc'[c] \in PendingPlaces => /\ access'[c] = access[c] /\ access[c].dbg
                                       /\ access[c].cmd = "write" => Writing(c)
                                       /\ IF pc'[c] = "dbgStore" THEN access[c].cmd = "write"
                                          ELSE ~found'[c],
           (pc[c] \in AskingPlaces /\ access[c].dbg /\ ~found[c] => ~Has(c, access[c].b))',
           CopiesOf(c)', CleanIn(c)', LoadedBy(c)', StoredBy(c)',
           \A b \in Blocks : ~Sole(b) =>
              /\ Has(c, b)' => cache'[c][b].data = memory'[b]
              /\ pc'[c] = "evict" /\ evicted'[c].b = b => evicted'[c].data = memory'[b],
           cache'[c] # cache[c] => pc[c] \in UsingPlaces \cup {"dbg"},
           \A b \in Blocks : memory'[b] # memory[b] =>
              /\ Sole(b)
              /\ \A e \in Caches : blockCachedIn[b] = <<e>> =>
                    /\ Has(e, b)' => cache'[e][b].data = memory'[b]
                    /\ pc'[e] \in FilledPlaces => access'[e].b # b
    PROVE  Coherent'
  <1>1. \A d \in Caches : pc'[d] \in SendingPlaces <=> pc[d] \in SendingPlaces
    BY DEF SendingPlaces
  <1>2. \A d \in Caches : pc[d] \in SendingPlaces \/ Using(d)' =>
              /\ access'[d] = access[d] /\ found'[d] = found[d] /\ Command(d)' = Command(d)
    BY DEF Command
  <1>3. \A d \in Caches : Using(d)' => Using(d)
    BY DEF Using, UsingPlaces
  <1>4. \A b : Sole(b)' <=> Sole(b)
    <2>1. \A b : Flushing(b)' <=> Flushing(b)
      BY <1>1, <1>2 DEF Flushing
    <2> QED BY <2>1 DEF Sole
  <1>5. \A d \in Caches \ {c} : pc[d] # "dbg" /\ pc'[d] # "dbg"
    <2>1. \A d \in Caches \ {c} : pc[d] # "dbg"
      BY CacheAssumption DEF Coherent, Roles
    <2> QED BY <2>1
  <1>6. \A d \in Caches, b \in Blocks : d # c => (Has(d, b)' <=> Has(d, b))
    BY DEF Has
  <1>7. Roles'
    <2>1. ASSUME NEW d \in Caches \ {c}
          PROVE  /\ pc'[d] # "through"
                 /\ pc'[d] \in AskingPlaces /\ access'[d].dbg /\ ~found'[d] => ~Has(d, access[d].b)'
                 /\ pc'[d] \in PendingPlaces => access'[d].dbg /\ IF pc'[d] = "dbgStore" THEN access'[d].cmd = "write" ELSE ~found'[d]
                 /\ Using(d)' => ~access'[d].dbg
      <3>1. /\ pc[d] # "through" /\ (Using(d) => ~access[d].dbg)
            /\ pc[d] \in PendingPlaces => access[d].dbg /\ IF pc[d] = "dbgStore" THEN access[d].cmd = "write" ELSE ~found[d]
            /\ pc[d] \in AskingPlaces /\ access[d].dbg /\ ~found[d] => ~Has(d, access[d].b)
        BY DEF Coherent, Roles
      <3>2. /\ pc'[d] \in AskingPlaces => pc[d] \in AskingPlaces
            /\ pc'[d] \in PendingPlaces => pc'[d] = pc[d]
        BY DEF AskingPlaces, PendingPlaces, SendingPlaces
      <3>3. Has(d, access[d].b)' <=> Has(d, access[d].b)
        BY DEF Has
      <3> QED BY <1>3, <3>1, <3>2, <3>3
    <2>2. Using(c)' => ~access'[c].dbg
      BY <1>2 DEF Coherent, Roles
    <2>3. system' \in Systems
      BY DEF Coherent, Roles
    <2> QED BY <1>5, <2>1, <2>2, <2>3 DEF Roles
  <1>8. Writers'
    <2>1. SUFFICES ASSUME NEW d \in Caches, Writing(d)'
                   PROVE  blockCachedIn[access'[d].b] = <<d>> /\ Sole(access[d].b)'
      BY DEF Writers
    <2>2. pc'[d] # "dbg"
      BY <1>5
    <2>3. Writing(d) /\ access'[d] = access[d]
      <3>1. CASE Using(d)' /\ Command(d)' = "write"
        BY <1>2, <1>3, <3>1 DEF Writing
      <3>2. CASE pc'[d] \in PendingPlaces /\ access'[d].cmd = "write" /\ d = c
        BY <3>2
      <3>3. CASE pc'[d] \in PendingPlaces /\ access'[d].cmd = "write" /\ d # c
        <4>1. pc[d] \in PendingPlaces /\ access'[d] = access[d]
          BY <3>3 DEF PendingPlaces
        <4> QED BY <3>3, <4>1 DEF Writing
      <3> QED BY <2>1, <2>2, <3>1, <3>2, <3>3 DEF Writing
    <2>4. blockCachedIn[access[d].b] = <<d>> /\ Sole(access[d].b)
      BY <2>3 DEF Coherent, Writers
    <2>5. Sole(access[d].b)' <=> Sole(access[d].b)
      BY <1>1, <1>2, <2>3 DEF Sole, Flushing
    <2> QED BY <2>3, <2>4, <2>5
  <1>9. ASSUME NEW d \in Caches \ {c} PROVE CopiesOf(d)'
    <2>1. CopiesOf(d)
      BY DEF Coherent
    <2> QED BY <2>1 DEF CopiesOf, Has, FilledPlaces
  <1>10. ASSUME NEW d \in Caches \ {c} PROVE CleanIn(d)'
    <2>1. SUFFICES ASSUME NEW b \in Blocks, Has(d, b), ~cache[d][b].dirty,
                          ~(pc[d] = "dbgStore" /\ access[d].b = b)
                   PROVE  cache[d][b].data = memory'[b]
      BY <1>6 DEF CleanIn
    <2>2. cache[d][b].data = memory[b]
      BY <2>1 DEF Coherent, CleanIn
    <2>3. CASE memory'[b] # memory[b]
      <3>1. PICK e \in Caches : blockCachedIn[b] = <<e>> /\ \A x \in Caches : Concerned(x, b) => x = e
        BY <2>3, SoleOwner
      <3>2. d = e
        BY <2>1, <3>1 DEF Concerned
      <3> QED BY <1>6, <2>1, <2>3, <3>1, <3>2
    <2> QED BY <2>2, <2>3
  <1>11. \A d \in Caches : CurrentIn(d)'
    <2>1. SUFFICES ASSUME NEW d \in Caches, NEW b \in Blocks, ~Sole(b)
                   PROVE  /\ Has(d, b)' => cache'[d][b].data = memory'[b]
                          /\ pc'[d] = "evict" /\ evicted'[d].b = b => evicted'[d].data = memory'[b]
      BY <1>4 DEF CurrentIn
    <2>2. CASE d = c
      BY <2>1, <2>2
    <2>3. CASE d # c
      <3>1. memory'[b] = memory[b]
        BY <2>1
      <3>2. /\ Has(d, b) => cache[d][b].data = memory[b]
            /\ pc[d] = "evict" /\ evicted[d].b = b => evicted[d].data = memory[b]
        BY <2>1 DEF Coherent, CurrentIn
      <3> QED BY <1>6, <2>3, <3>1, <3>2
    <2> QED BY <2>2, <2>3
  <1>12. ASSUME NEW d \in Caches \ {c} PROVE LoadedBy(d)'
    <2>1. SUFFICES ASSUME pc'[d] \in FilledPlaces PROVE block[d] = memory'[access[d].b]
      BY DEF LoadedBy
    <2>2. pc[d] \in FilledPlaces
      BY <2>1 DEF FilledPlaces
    <2>3. block[d] = memory[access[d].b]
      BY <2>2 DEF Coherent, LoadedBy
    <2>4. PICK b \in Blocks : access[d].b = b
      BY <2>2, CacheAssumption DEF DInv, Frames, FilledPlaces
    <2>5. Concerned(d, b)
      BY <2>2, <2>4 DEF Concerned, Using, UsingPlaces, FilledPlaces
    <2>6. CASE memory'[b] # memory[b]
      <3>1. PICK e \in Caches : blockCachedIn[b] = <<e>> /\ \A x \in Caches : Concerned(x, b) => x = e
        BY <2>6, SoleOwner
      <3>2. d = e
        BY <2>5, <3>1
      <3> QED BY <2>1, <2>4, <2>6, <3>1, <3>2
    <2> QED BY <2>3, <2>4, <2>6
  <1>13. ASSUME NEW d \in Caches \ {c} PROVE StoredBy(d)'
    <2>1. SUFFICES ASSUME pc'[d] \in {"store", "stored"}
                   PROVE  /\ Has(Head(todo[d]), access[d].b)'
                          /\ pc'[d] = "stored" => memory'[access[d].b] = cache'[Head(todo[d])][access[d].b].data
      BY DEF StoredBy
    <2>2. pc[d] = pc'[d] /\ pc[d] \in SendingPlaces
      BY <2>1 DEF SendingPlaces
    <2>3. PICK b \in Blocks : access[d].b = b
      BY <2>2, CacheAssumption DEF DInv, Frames, SendingPlaces
    <2>4. PICK h \in Caches : h = Head(todo[d]) /\ busyDir[h]
      BY <2>1, <2>2, HeadTailProperties DEF DInv, Occupied, Frames
    <2>5. Has(h, b) /\ (pc[d] = "stored" => memory[b] = cache[h][b].data)
      BY <2>1, <2>2, <2>3, <2>4 DEF Coherent, StoredBy
    <2>6. cache'[h] = cache[h]
      <3>1. pc[h] \notin UsingPlaces
        BY <2>4 DEF CInv, Users, DInv, Occupied
      <3>2. pc[h] # "dbg"
        BY <2>2 DEF Coherent, Roles
      <3> QED BY <3>1, <3>2
    <2>7. Has(h, b)' /\ cache'[h][b].data = cache[h][b].data
      BY <2>5, <2>6 DEF Has
    <2>8. pc[d] = "stored" => memory'[b] = cache'[h][b].data
      <3>1. CASE memory'[b] # memory[b]
        <4>1. PICK e \in Caches : blockCachedIn[b] = <<e>> /\ \A x \in Caches : Concerned(x, b) => x = e
          BY <3>1, SoleOwner
        <4>2. h = e
          BY <2>5, <4>1 DEF Concerned
        <4> QED BY <2>7, <3>1, <4>1, <4>2
      <3> QED BY <2>5, <2>7, <3>1
    <2>9. Has(Head(todo[d]), access[d].b)' <=> Has(h, b)'
      BY <2>3, <2>4 DEF Has
    <2> QED BY <2>2, <2>3, <2>4, <2>7, <2>8, <2>9
  <1> QED BY <1>7, <1>8, <1>9, <1>10, <1>11, <1>12, <1>13 DEF Coherent

-----------------------------------------------------------------------------

\* Who writes accesses a block.
LEMMA WritingKnown ==
    ASSUME DInv, NEW c \in Caches, Writing(c)
    PROVE  access[c] \in Accesses /\ access[c].b \in Blocks
  BY CacheAssumption DEF DInv, Frames, Writing, Using, UsingPlaces, PendingPlaces

\* The request of c is looked up; a block that was exclusive still is its owner's.
LEMMA ServeCoherent ==
    ASSUME CInv, DInv, Coherent, NEW c \in Caches, Serve(c)
    PROVE  Coherent'
  <1>1. PICK b \in Blocks : access[c] \in Accesses /\ access[c].b = b
    BY CacheAssumption DEF DInv, Frames, Serve, At
  <1>2. /\ pc[c] = "serve" /\ pc' = [pc EXCEPT ![c] = "send"] /\ running \in {NULL, c}
        /\ todo' = [todo EXCEPT ![c] = Recipients(c, Command(c), b)]
        /\ Downgraded(c, Command(c), b)
        /\ UNCHANGED <<system, blockCachedIn, cache, memory, access, found, block, evicted>>
    BY <1>1 DEF Serve, At, Continue, storage
  <1>3. /\ pc'[c] = "send" /\ \A d \in Caches \ {c} : pc'[d] = pc[d]
        /\ todo'[c] = Recipients(c, Command(c), b) /\ \A d \in Caches \ {c} : todo'[d] = todo[d]
    BY <1>2 DEF CInv, Shape, DInv, Frames
  <1>4. \A d \in Caches \ {c} : pc[d] # "dbg" /\ pc[d] \notin SendingPlaces
    <2>1. \A d \in Caches \ {c} : pc[d] # "dbg"
      BY <1>2, CacheAssumption DEF Coherent, Roles
    <2> QED BY <1>2, <2>1, OnlyOneSends DEF ServedPlaces
  <1>5. \A y \in Blocks : Sole(y)' <=> Sole(y)
    <2>1. \A y : ~Flushing(y)
      BY <1>2, <1>4 DEF Flushing, SendingPlaces
    <2>2. \A y : Flushing(y)' <=> y = b /\ Command(c) # "write" /\ Recipients(c, Command(c), b) # <<>>
      BY <1>1, <1>2, <1>3, <1>4 DEF Flushing, SendingPlaces, Command
    <2>3. Command(c) \in {"read", "write"}
      BY <1>1, CacheAssumption DEF Command
    <2>4. PICK others \in BOOLEAN : others = (blockPrivilege[b] = "EXCLUSIVE" /\ Head(blockCachedIn[b]) # c)
      OBVIOUS
    <2>5. CASE Command(c) = "read" /\ others
      <3>1. blockPrivilege' = [blockPrivilege EXCEPT ![b] = "SHARED"]
        BY <1>2, <2>4, <2>5 DEF Downgraded
      <3>2. \A y \in Blocks \ {b} : blockPrivilege'[y] = blockPrivilege[y]
        BY <3>1 DEF DInv, Frames
      <3>3. Recipients(c, Command(c), b) # <<>>
        <4>1. PICK e \in Caches : blockCachedIn[b] = <<e>>
          BY <2>4, <2>5 DEF DInv, Lists
        <4>2. e # c
          <5>1. Head(<<e>>) = e
            OBVIOUS
          <5> QED BY <2>4, <2>5, <4>1, <5>1
        <4>3. RemoveFirst(<<e>>, c) = <<e>>
          <5>1. Len(<<e>>) = 1 /\ <<e>>[1] = e
            OBVIOUS
          <5>2. ~\E i \in 1 .. Len(<<e>>) : <<e>>[i] = c
            BY <4>2, <5>1
          <5> QED BY <5>2, Zenon DEF RemoveFirst
        <4>4. Recipients(c, Command(c), b) = RemoveFirst(blockCachedIn[b], c)
          BY <2>4, <2>5 DEF Recipients
        <4>5. Recipients(c, Command(c), b) = <<e>>
          BY <4>1, <4>3, <4>4, Zenon
        <4>6. <<e>> # <<>>
          OBVIOUS
        <4> QED BY <4>5, <4>6, Zenon
      <3> QED BY <2>1, <2>2, <2>4, <2>5, <3>2, <3>3 DEF Sole
    <2>6. CASE ~(Command(c) = "read" /\ others)
      <3>1. blockPrivilege' = blockPrivilege
        BY <1>2, <2>4, <2>6 DEF Downgraded
      <3>2. Command(c) # "write" => Recipients(c, Command(c), b) = <<>>
        BY <2>3, <2>4, <2>6 DEF Recipients
      <3> QED BY <2>1, <2>2, <3>1, <3>2 DEF Sole
    <2> QED BY <2>5, <2>6
  <1>6. \A d \in Caches : (Using(d)' <=> Using(d)) /\ (Command(d)' = Command(d))
    BY <1>2, <1>3 DEF Using, UsingPlaces, Command
  <1>61. \A d \in Caches, x \in PendingPlaces : pc'[d] = x <=> pc[d] = x
    BY <1>2, <1>3 DEF PendingPlaces
  <1>7. Roles'
    <2>1. ASSUME NEW d \in Caches
          PROVE  /\ pc'[d] # "through"
                 /\ pc'[d] \in AskingPlaces /\ access[d].dbg /\ ~found[d] => ~Has(d, access[d].b)'
                 /\ pc'[d] \in PendingPlaces => access[d].dbg /\ IF pc'[d] = "dbgStore" THEN access[d].cmd = "write" ELSE ~found[d]
                 /\ Using(d)' => ~access[d].dbg
      <3>1. pc[d] # "through" /\ (pc'[d] \in AskingPlaces => pc[d] \in AskingPlaces)
        BY <1>2, <1>3 DEF AskingPlaces, Coherent, Roles
      <3>2. Has(d, access[d].b)' <=> Has(d, access[d].b)
        BY <1>2 DEF Has
      <3>3. pc'[d] \in PendingPlaces => access[d].dbg /\ IF pc'[d] = "dbgStore" THEN access[d].cmd = "write" ELSE ~found[d]
        BY <1>61 DEF Coherent, Roles
      <3> QED BY <1>2, <1>3, <1>6, <3>1, <3>2, <3>3 DEF Coherent, Roles
    <2>2. \A d \in Caches : pc'[d] # "dbg"
      BY <1>3, <1>4
    <2>3. system' \in Systems /\ DOMAIN block' = Caches /\ DOMAIN memory' = Blocks
      BY <1>2 DEF Coherent, Roles
    <2> QED BY <1>2, <2>1, <2>2, <2>3 DEF Roles
  <1>8. Writers'
    <2>1. SUFFICES ASSUME NEW d \in Caches, Writing(d)'
                   PROVE  blockCachedIn[access[d].b] = <<d>> /\ Sole(access[d].b)'
      BY <1>2 DEF Writers
    <2>2. Writing(d)
      BY <1>2, <1>3, <1>4, <1>6, <1>61, <2>1 DEF Writing
    <2>3. PICK y \in Blocks : access[d].b = y
      BY <2>2, WritingKnown
    <2>4. blockCachedIn[y] = <<d>> /\ Sole(y)
      BY <2>2, <2>3 DEF Coherent, Writers
    <2>5. Sole(access[d].b)' <=> Sole(y)'
      BY <1>2, <2>3 DEF Sole, Flushing
    <2> QED BY <1>5, <2>3, <2>4, <2>5
  <1>9. ASSUME NEW d \in Caches
        PROVE  CopiesOf(d)' /\ CleanIn(d)' /\ CurrentIn(d)' /\ LoadedBy(d)' /\ StoredBy(d)'
    <2>1. CopiesOf(d) /\ CleanIn(d) /\ CurrentIn(d) /\ LoadedBy(d)
      BY DEF Coherent
    <2>2. CopiesOf(d)'
      BY <1>2, <1>3, <2>1 DEF CopiesOf, Has, FilledPlaces
    <2>3. CleanIn(d)'
      BY <1>2, <1>61, <2>1 DEF CleanIn, Has, PendingPlaces
    <2>4. CurrentIn(d)'
      BY <1>2, <1>3, <1>5, <2>1 DEF CurrentIn, Has
    <2>5. LoadedBy(d)'
      BY <1>2, <1>3, <2>1 DEF LoadedBy, FilledPlaces
    <2>6. StoredBy(d)'
      BY <1>3, <1>4 DEF StoredBy, SendingPlaces
    <2> QED BY <2>2, <2>3, <2>4, <2>5, <2>6
  <1> QED BY <1>7, <1>8, <1>9 DEF Coherent

\* The privilege is granted: to write, when nobody else has the block; to read, when it is as
\* in memory or was the reader's already.
LEMMA GrantCoherent ==
    ASSUME CInv, DInv, Coherent, Undisturbed, NEW c \in Caches, Grant(c)
    PROVE  Coherent'
  <1>1. PICK b \in Blocks : access[c] \in Accesses /\ access[c].b = b
    BY CacheAssumption DEF DInv, Frames, Grant, At
  <1>2. /\ pc[c] = "send" /\ todo[c] = <<>> /\ running \in {NULL, c} /\ running' = c
        /\ Granted(c, Command(c), b)
        /\ pc' = [d \in Caches |-> IF d = c THEN IF access[c].dbg THEN "dbg" ELSE "enter"
                                   ELSE IF d \in Awakened THEN "serve" ELSE pc[d]]
        /\ UNCHANGED <<system, cache, memory, access, found, block, evicted, todo>>
    BY <1>1 DEF Grant, At, Notify, locals, storage
  <1>3. /\ pc'[c] = IF access[c].dbg THEN "dbg" ELSE "enter"
        /\ \A d \in Caches \ {c} : pc'[d] = pc[d] \/ (pc[d] = "queued" /\ pc'[d] = "serve")
    <2>1. \A d \in Awakened : pc[d] = "queued"
      <3>1. requests # <<>> => Head(requests) = requests[1] /\ 1 \in 1 .. Len(requests)
        BY HeadTailProperties, EmptySeq, LenProperties DEF CInv, Shape
      <3> QED BY <3>1 DEF CInv, OneServed, Awakened
    <2> QED BY <1>2, <2>1
  <1>4. \A d \in Caches \ {c} : pc[d] # "dbg" /\ pc[d] \notin SendingPlaces
    <2>1. \A d \in Caches \ {c} : pc[d] # "dbg"
      BY <1>2, CacheAssumption DEF Coherent, Roles
    <2> QED BY <1>2, <2>1, OnlyOneSends DEF ServedPlaces
  <1>5. \A d \in Caches : pc'[d] \notin SendingPlaces
    BY <1>3, <1>4 DEF SendingPlaces
  <1>6. \A d \in Caches : Command(d)' = Command(d)
    BY <1>2 DEF Command
  <1>7. Command(c) \in {"read", "write"} /\ ToInvalidate(c, b) /\ ToFlush(c, b)
    BY <1>1, <1>2, CacheAssumption DEF Command, DInv, Progress, SendingPlaces
  <1>8. /\ \A y \in Blocks \ {b} : blockPrivilege'[y] = blockPrivilege[y] /\ blockCachedIn'[y] = blockCachedIn[y]
        /\ Command(c) = "write" => blockPrivilege'[b] = "EXCLUSIVE" /\ blockCachedIn'[b] = <<c>>
        /\ Command(c) # "write" /\ blockPrivilege[b] = "EXCLUSIVE" =>
              blockPrivilege'[b] = "EXCLUSIVE" /\ blockCachedIn[b] = <<c>>
        /\ Command(c) # "write" /\ blockPrivilege[b] # "EXCLUSIVE" => blockPrivilege'[b] # "EXCLUSIVE"
    <2>1. blockPrivilege \in [Blocks -> Privileges] /\ blockCachedIn \in [Blocks -> Seq(Caches)]
      BY DEF DInv, Frames
    <2>2. Command(c) # "write" /\ blockPrivilege[b] = "EXCLUSIVE" => blockCachedIn[b] = <<c>>
      BY <1>2, <1>7 DEF ToFlush
    <2> QED BY <1>2, <2>1, <2>2 DEF Granted
  <1>9. \A y : ~Flushing(y) /\ ~Flushing(y)'
    <2>1. \A y : ~Flushing(y)
      BY <1>2, <1>4 DEF Flushing
    <2>2. \A y : ~Flushing(y)'
      BY <1>5 DEF Flushing
    <2> QED BY <2>1, <2>2
  <1>10. \A y \in Blocks : /\ Sole(y) => Sole(y)'
                           /\ ~Sole(y) => ~Sole(y)' \/ (y = b /\ Command(c) = "write")
    BY <1>7, <1>8, <1>9 DEF Sole
  <1>11. \A d \in Caches \ {c} : (Using(d)' <=> Using(d))
    BY <1>3 DEF Using, UsingPlaces
  <1>111. \A d \in Caches, x \in PendingPlaces : pc'[d] = x <=> pc[d] = x
    BY <1>2, <1>3 DEF PendingPlaces
  <1>12. Roles'
    <2>1. ASSUME NEW d \in Caches
          PROVE  /\ pc'[d] # "through"
                 /\ pc'[d] \in AskingPlaces /\ access[d].dbg /\ ~found[d] => ~Has(d, access[d].b)'
                 /\ pc'[d] \in PendingPlaces => access[d].dbg /\ IF pc'[d] = "dbgStore" THEN access[d].cmd = "write" ELSE ~found[d]
                 /\ Using(d)' => ~access[d].dbg
      <3>1. pc[d] # "through" /\ (pc'[d] \in AskingPlaces => pc[d] \in AskingPlaces)
        BY <1>2, <1>3 DEF AskingPlaces, SendingPlaces, Coherent, Roles
      <3>2. Has(d, access[d].b)' <=> Has(d, access[d].b)
        BY <1>2 DEF Has
      <3>3. Using(c)' => ~access[c].dbg
        BY <1>3 DEF Using, UsingPlaces
      <3>4. pc'[d] \in PendingPlaces => access[d].dbg /\ IF pc'[d] = "dbgStore" THEN access[d].cmd = "write" ELSE ~found[d]
        BY <1>111 DEF Coherent, Roles
      <3> QED BY <1>2, <1>3, <1>11, <3>1, <3>2, <3>3, <3>4 DEF Coherent, Roles
    <2>2. \A d \in Caches : pc'[d] = "dbg" => d = c /\ access[c].dbg
      BY <1>3, <1>4
    <2>3. system' \in Systems /\ DOMAIN block' = Caches /\ DOMAIN memory' = Blocks
      BY <1>2 DEF Coherent, Roles
    <2> QED BY <1>2, <1>5, <2>1, <2>2, <2>3 DEF Roles
  <1>13. Writers'
    <2>1. SUFFICES ASSUME NEW d \in Caches, Writing(d)'
                   PROVE  blockCachedIn'[access[d].b] = <<d>> /\ Sole(access[d].b)'
      BY <1>2 DEF Writers
    <2>2. CASE d = c
      <3>0. pc'[c] \notin PendingPlaces
        BY <1>3 DEF PendingPlaces
      <3>1. blockPrivilege'[b] = "EXCLUSIVE" /\ blockCachedIn'[b] = <<c>>
        BY <1>6, <1>8, <2>1, <2>2, <3>0 DEF Writing
      <3> QED BY <1>1, <1>2, <2>2, <3>1 DEF Sole
    <2>3. CASE d # c
      <3>1. Writing(d) /\ access[d] \in Accesses
        <4>1. Writing(d)
          BY <1>2, <1>3, <1>4, <1>6, <1>11, <1>111, <2>1, <2>3 DEF Writing
        <4> QED BY <4>1, WritingKnown
      <3>2. PICK y \in Blocks : access[d].b = y
        BY <3>1, WritingKnown
      <3>3. blockCachedIn[y] = <<d>> /\ Sole(y)
        BY <3>1, <3>2 DEF Coherent, Writers
      <3>4. y # b
        <4>1. ASSUME y = b PROVE FALSE
          <5>1. blockPrivilege[b] = "EXCLUSIVE" /\ <<d>> # <<c>>
            BY <1>9, <2>3, <3>3, <4>1 DEF Sole
          <5>2. Command(c) = "write"
            BY <1>8, <3>3, <4>1, <5>1
          <5>3. CASE Using(d)
            <6>1. d \in ToSet(todo[c])
              BY <2>3, <1>7, <3>2, <4>1, <5>2, <5>3 DEF ToInvalidate, Concerned
            <6> QED BY <1>2, <6>1 DEF ToSet
          <5>4. CASE pc[d] \in PendingPlaces /\ access[d].cmd = "write"
            <6>1. access[d].dbg
              BY <5>4 DEF Coherent, Roles
            <6>2. access[c] # NULL /\ access[d] # NULL
              BY <1>1, <3>1, NullAssumption
            <6> QED BY <1>1, <2>3, <3>2, <4>1, <5>4, <6>1, <6>2 DEF Undisturbed
          <5> QED BY <1>4, <2>3, <3>1, <5>3, <5>4 DEF Writing
        <4> QED BY <4>1
      <3>5. Sole(access[d].b)' <=> Sole(y)'
        BY <1>2, <3>2 DEF Sole, Flushing
      <3> QED BY <1>8, <1>10, <3>2, <3>3, <3>4, <3>5
    <2> QED BY <2>2, <2>3
  <1>14. ASSUME NEW d \in Caches
         PROVE  CopiesOf(d)' /\ CleanIn(d)' /\ CurrentIn(d)' /\ LoadedBy(d)' /\ StoredBy(d)'
    <2>1. CopiesOf(d) /\ CleanIn(d) /\ CurrentIn(d) /\ LoadedBy(d)
      BY DEF Coherent
    <2>2. CopiesOf(d)'
      BY <1>2, <1>3, <2>1 DEF CopiesOf, Has, FilledPlaces
    <2>3. CleanIn(d)'
      BY <1>2, <1>111, <2>1 DEF CleanIn, Has, PendingPlaces
    <2>4. CurrentIn(d)'
      <3>1. pc'[d] = "evict" => pc[d] = "evict"
        BY <1>3
      <3> QED BY <1>2, <1>10, <2>1, <3>1 DEF CurrentIn, Has
    <2>5. LoadedBy(d)'
      BY <1>2, <1>3, <2>1 DEF LoadedBy, FilledPlaces
    <2>6. StoredBy(d)'
      BY <1>5 DEF StoredBy, SendingPlaces
    <2> QED BY <2>2, <2>3, <2>4, <2>5, <2>6
  <1> QED BY <1>12, <1>13, <1>14 DEF Coherent

-----------------------------------------------------------------------------

\* The cache d has given up what it was told to, when the memory had it.
LEMMA RepliedCoherent ==
    ASSUME CInv, DInv, Coherent, Undisturbed, NEW c \in Caches, running \in {NULL, c},
           NEW d \in Caches, d = Head(todo[c]), todo[c] # <<>>,
           \/ pc[c] = "send" /\ ~InUse(d) /\ ~MustStore(c, d)
           \/ pc[c] = "message" /\ ~MustStore(c, d)
           \/ pc[c] = "stored",
           Replied(c, d),
           UNCHANGED <<system, blockPrivilege, blockCachedIn, memory, access, found, evicted>>
    PROVE  Coherent'
  <1>1. pc[c] \in SendingPlaces /\ pc[c] \in ServedPlaces
    BY DEF SendingPlaces, ServedPlaces
  <1>2. PICK b \in Blocks : access[c] \in Accesses /\ access[c].b = b
    BY <1>1, CacheAssumption DEF DInv, Frames, SendingPlaces
  <1>3. /\ pc'[c] = "send" /\ running' = c /\ todo' = [todo EXCEPT ![c] = Tail(todo[c])]
        /\ \A e \in Caches \ {c} : pc'[e] = pc[e] \/ (pc[e] = "dbgWait" /\ pc'[e] = "lookup")
        /\ Answered(c, d)
    BY DEF Replied, Notify, AwaitDir
  <1>4. todo'[c] = Tail(todo[c]) /\ \A e \in Caches \ {c} : todo'[e] = todo[e]
    BY <1>3 DEF DInv, Frames
  <1>5. \A e \in Caches : e # c => pc[e] \notin SendingPlaces /\ pc'[e] \notin SendingPlaces
    BY <1>1, <1>3, OnlyOneSends DEF SendingPlaces
  <1>6. \A e \in Caches : pc[e] # "dbg" /\ pc'[e] # "dbg"
    <2>1. \A e \in Caches : pc[e] # "dbg"
      BY <1>1 DEF Coherent, Roles
    <2> QED BY <1>3, <2>1
  <1>7. ~Using(d)
    BY NobodyUses
  <1>8. \A e \in Caches : /\ Using(e)' <=> Using(e)
                          /\ Command(e)' = Command(e)
                          /\ pc'[e] = "evict" <=> pc[e] = "evict"
                          /\ pc'[e] \in FilledPlaces <=> pc[e] \in FilledPlaces
    BY <1>1, <1>3 DEF Using, UsingPlaces, FilledPlaces, SendingPlaces, Command
  <1>81. \A e \in Caches, x \in PendingPlaces : pc'[e] = x <=> pc[e] = x
    BY <1>1, <1>3 DEF PendingPlaces, SendingPlaces
  <1>82. \A e \in Caches : pc[e] \in PendingPlaces /\ access[e].cmd = "write" => access[e].b # b
    <2>1. SUFFICES ASSUME NEW e \in Caches, pc[e] \in PendingPlaces, access[e].cmd = "write", access[e].b = b
                   PROVE  FALSE
      OBVIOUS
    <2>2. access[e].dbg /\ access[e] \in Accesses /\ e # c
      BY <1>1, <2>1 DEF Coherent, Roles, DInv, Frames, PendingPlaces, SendingPlaces
    <2> QED BY <1>2, <2>1, <2>2, NullAssumption DEF Undisturbed
  <1>9. Command(c) # "write" => blockCachedIn[b] = <<d>> /\ Tail(todo[c]) = <<>>
    <2>1. Command(c) # "write" => \E e \in Caches : todo[c] = <<e>> /\ blockCachedIn[b] = <<e>>
      BY <1>1, <1>2 DEF DInv, Progress, ToFlush
    <2>2. \A e : Head(<<e>>) = e /\ Tail(<<e>>) = <<>>
      OBVIOUS
    <2> QED BY <2>1, <2>2
  <1>10. /\ \A y : Flushing(y) <=> y = b /\ Command(c) # "write"
         /\ \A y : ~Flushing(y)'
    BY <1>1, <1>2, <1>3, <1>4, <1>5, <1>8, <1>9 DEF Flushing
  <1>11. /\ \A e \in Caches, y \in Blocks : Has(e, y)' => Has(e, y) /\ cache'[e][y] = cache[e][y]
         /\ \A e \in Caches \ {d} : cache'[e] = cache[e] /\ block'[e] = block[e]
    <2>1. /\ DOMAIN cache = Caches /\ \A e \in Caches : DOMAIN cache[e] = Blocks
          /\ DOMAIN block = Caches
      BY DEF DInv, Frames, Coherent, Roles
    <2>2. CASE Message(Command(c)) = "INVALIDATE" /\ Has(d, b)
      <3>1. /\ cache' = [cache EXCEPT ![d][b] = NULL]
            /\ block' = block \/ \E x : block' = [block EXCEPT ![d] = x]
        BY <1>2, <1>3, <2>2 DEF Answered
      <3> QED BY <2>1, <3>1 DEF Has
    <2>3. CASE ~(Message(Command(c)) = "INVALIDATE" /\ Has(d, b))
      <3>1. cache' = cache /\ block' = block
        BY <1>2, <1>3, <2>3 DEF Answered
      <3> QED BY <3>1 DEF Has
    <2> QED BY <2>2, <2>3
  <1>12. Has(d, b) => cache[d][b].data = memory[b]
    <2>1. CASE pc[c] = "stored"
      BY <1>2, <2>1 DEF Coherent, StoredBy
    <2>2. CASE ~MustStore(c, d)
      <3>1. ~(pc[d] = "dbgStore" /\ access[d].b = b)
        <4>1. pc[d] = "dbgStore" => access[d].cmd = "write"
          BY DEF Coherent, Roles, PendingPlaces
        <4> QED BY <1>82, <4>1 DEF PendingPlaces
      <3> QED BY <1>2, <2>2, <3>1 DEF Coherent, CleanIn, MustStore
    <2> QED BY <2>1, <2>2
  <1>13. \A y \in Blocks : Sole(y)' <=> blockPrivilege[y] = "EXCLUSIVE"
    BY <1>10 DEF Sole
  <1>14. Roles'
    <2>1. ASSUME NEW e \in Caches
          PROVE  /\ pc'[e] # "through"
                 /\ pc'[e] \in AskingPlaces /\ access[e].dbg /\ ~found[e] => ~Has(e, access[e].b)'
                 /\ pc'[e] \in PendingPlaces => access[e].dbg /\ IF pc'[e] = "dbgStore" THEN access[e].cmd = "write" ELSE ~found[e]
                 /\ Using(e)' => ~access[e].dbg
      <3>1. pc[e] # "through" /\ (pc'[e] \in AskingPlaces => pc[e] \in AskingPlaces)
        BY <1>1, <1>3 DEF AskingPlaces, PendingPlaces, SendingPlaces, Coherent, Roles
      <3>2. ASSUME pc'[e] \in AskingPlaces, access[e].dbg, ~found[e] PROVE ~Has(e, access[e].b)'
        <4>1. PICK y \in Blocks : access[e].b = y
          BY <3>1, <3>2, CacheAssumption DEF DInv, Frames, AskingPlaces, PendingPlaces, SendingPlaces
        <4>2. ~Has(e, y)
          BY <3>1, <3>2, <4>1 DEF Coherent, Roles
        <4>3. ~Has(e, y)'
          BY <1>11, <4>2
        <4> QED BY <4>1, <4>3 DEF Has
      <3>3. pc'[e] \in PendingPlaces => access[e].dbg /\ IF pc'[e] = "dbgStore" THEN access[e].cmd = "write" ELSE ~found[e]
        BY <1>81 DEF Coherent, Roles
      <3> QED BY <1>3, <1>8, <3>1, <3>2, <3>3 DEF Coherent, Roles
    <2>2. system' \in Systems /\ DOMAIN block' = Caches /\ DOMAIN memory' = Blocks
      BY <1>3 DEF Answered, Coherent, Roles
    <2> QED BY <1>6, <2>1, <2>2 DEF Roles
  <1>15. Writers'
    <2>1. SUFFICES ASSUME NEW e \in Caches, Writing(e)
                   PROVE  blockCachedIn[access[e].b] = <<e>> /\ Sole(access[e].b)'
      BY <1>6, <1>8, <1>81 DEF Writers, Writing
    <2>2. PICK y \in Blocks : access[e].b = y
      BY <2>1, WritingKnown
    <2>3. blockCachedIn[y] = <<e>> /\ Sole(y)
      BY <2>1, <2>2 DEF Coherent, Writers
    <2>4. blockPrivilege[y] = "EXCLUSIVE"
      <3>1. ASSUME Flushing(y) PROVE FALSE
        <4>1. <<e>> = <<d>>
          BY <1>9, <1>10, <2>3, <3>1
        <4>2. e = d
          BY <4>1
        <4> QED BY <1>6, <1>7, <1>10, <1>82, <2>1, <2>2, <3>1, <4>2 DEF Writing
      <3> QED BY <2>3, <3>1 DEF Sole
    <2>5. Sole(access[e].b)'
      BY <2>2, <2>4 DEF Sole
    <2> QED BY <2>2, <2>3, <2>5
  <1>16. ASSUME NEW e \in Caches
         PROVE  CopiesOf(e)' /\ CleanIn(e)' /\ CurrentIn(e)' /\ LoadedBy(e)' /\ StoredBy(e)'
    <2>1. CopiesOf(e) /\ CleanIn(e) /\ CurrentIn(e) /\ LoadedBy(e)
      BY DEF Coherent
    <2>2. Using(e) => access[e] \in Accesses /\ access[e].b \in Blocks /\ e # d
      BY <1>7, CacheAssumption DEF DInv, Frames, Using, UsingPlaces
    <2>3. CopiesOf(e)'
      <3>1. \A y \in Blocks : Has(e, y)' => IsCopy(cache'[e][y])
        BY <1>11, <2>1 DEF CopiesOf
      <3>2. CASE ~Using(e)
        <4>1. pc'[e] # "use" /\ pc'[e] \notin {"load"} \cup FilledPlaces /\ pc'[e] # "evict"
          BY <1>8, <3>2 DEF Using, UsingPlaces, FilledPlaces
        <4> QED BY <3>1, <4>1 DEF CopiesOf
      <3>3. CASE Using(e)
        <4>1. cache'[e] = cache[e]
          BY <1>11, <2>2, <3>3
        <4>2. pc'[e] = pc[e]
          BY <1>1, <1>3, <3>3 DEF Using, UsingPlaces, SendingPlaces
        <4> QED BY <2>1, <4>1, <4>2 DEF CopiesOf, Has
      <3> QED BY <3>2, <3>3
    <2>4. CleanIn(e)'
      BY <1>11, <1>81, <2>1 DEF CleanIn, PendingPlaces
    <2>5. CurrentIn(e)'
      <3>1. SUFFICES ASSUME NEW y \in Blocks, ~Sole(y)'
                     PROVE  /\ Has(e, y)' => cache'[e][y].data = memory[y]
                            /\ pc[e] = "evict" /\ evicted[e].b = y => evicted[e].data = memory[y]
        BY <1>8 DEF CurrentIn
      <3>2. CASE ~Sole(y)
        BY <1>11, <2>1, <3>2 DEF CurrentIn
      <3>3. CASE Sole(y)
        <4>1. y = b /\ Command(c) # "write"
          BY <1>10, <1>13, <3>1, <3>3 DEF Sole
        <4>2. Concerned(e, b) => e = d
          <5>1. PICK x \in Caches : blockCachedIn[b] = <<x>> /\ \A z \in Caches : Concerned(z, b) => z = x
            BY <3>3, <4>1, SoleOwner
          <5>2. <<x>> = <<d>>
            BY <1>9, <4>1, <5>1
          <5>3. x = d
            BY <5>2
          <5> QED BY <5>1, <5>3
        <4>3. Has(e, b)' => cache'[e][b].data = memory[b]
          BY <1>11, <1>12, <4>2 DEF Concerned
        <4>4. ~(pc[e] = "evict" /\ evicted[e].b = b)
          BY <1>7, <4>2 DEF Concerned, Using, UsingPlaces
        <4> QED BY <4>1, <4>3, <4>4
      <3> QED BY <3>2, <3>3
    <2>6. LoadedBy(e)'
      <3>1. SUFFICES ASSUME pc[e] \in FilledPlaces PROVE block'[e] = memory[access[e].b]
        BY <1>8 DEF LoadedBy
      <3>2. e # d
        BY <1>7, <3>1 DEF FilledPlaces, Using, UsingPlaces
      <3> QED BY <1>11, <2>1, <3>1, <3>2 DEF LoadedBy
    <2>7. StoredBy(e)'
      BY <1>3, <1>5 DEF StoredBy, SendingPlaces
    <2> QED BY <2>3, <2>4, <2>5, <2>6, <2>7
  <1> QED BY <1>14, <1>15, <1>16 DEF Coherent

-----------------------------------------------------------------------------

\* A step of c that changes neither a copy nor the memory.
LEMMA ControlStep ==
    ASSUME CInv, DInv, Coherent, NEW c \in Caches, running \in {NULL, c},
           UNCHANGED <<system, blockPrivilege, blockCachedIn, todo, cache, memory, block, evicted>>,
           \A d \in Caches \ {c} :
              /\ access'[d] = access[d] /\ found'[d] = found[d]
              /\ pc'[d] = pc[d] \/ (pc[d] = "awaitBus" /\ pc'[d] = "message"),
           Using(c)' => Using(c),
           pc'[c] \in SendingPlaces <=> pc[c] \in SendingPlaces,
           Using(c)' \/ pc[c] \in SendingPlaces => access'[c] = access[c] /\ found'[c] = found[c],
           pc'[c] \notin {"dbg", "through", "stored"} \cup FilledPlaces \cup PendingPlaces,
           pc[c] # "dbgStore",
           (pc[c] \in AskingPlaces /\ access[c].dbg /\ ~found[c] => ~Has(c, access[c].b))',
           (pc[c] = "use" => IsCopy(cache[c][access[c].b]))',
           (pc[c] = "load" => ~Has(c, access[c].b))',
           (pc[c] = "store" => Has(Head(todo[c]), access[c].b))'
    PROVE  Coherent'
  <1>1. CopiesOf(c) /\ CleanIn(c) /\ CurrentIn(c)
    BY DEF Coherent
  <1>2. CopiesOf(c)'
    BY <1>1 DEF CopiesOf, Has, FilledPlaces
  <1>3. CleanIn(c)'
    BY <1>1 DEF CleanIn, Has
  <1>4. LoadedBy(c)'
    BY DEF LoadedBy
  <1>5. StoredBy(c)'
    BY DEF StoredBy
  <1>6. \A b \in Blocks : ~Sole(b) =>
              /\ Has(c, b)' => cache'[c][b].data = memory'[b]
              /\ pc'[c] = "evict" /\ evicted'[c].b = b => evicted'[c].data = memory'[b]
    BY <1>1 DEF CurrentIn, Has, FilledPlaces
  <1>7. DOMAIN block' = Caches /\ DOMAIN memory' = Blocks
    BY DEF Coherent, Roles
  <1>8. \A d \in Caches \ {c} :
              /\ access'[d] = access[d] /\ found'[d] = found[d] /\ evicted'[d] = evicted[d]
              /\ cache'[d] = cache[d] /\ block'[d] = block[d]
              /\ pc'[d] = pc[d] \/ (pc[d] = "awaitBus" /\ pc'[d] = "message")
    OBVIOUS
  <1> QED BY <1>2, <1>3, <1>4, <1>5, <1>6, <1>7, <1>8, OwnStep

\* An access begins, asks for its privilege, or returns.
LEMMA RequestCoherent ==
    ASSUME CInv, DInv, Coherent, NEW c \in Caches,
           (\E a \in Accesses : Call(c, a)) \/ Lookup(c) \/ Lock(c) \/ Return(c)
    PROVE  Coherent'
  <1>1. PICK x \in {"lock", "dbgWait", "serve", "queued", "idle"} : pc' = [pc EXCEPT ![c] = x]
    BY DEF Call, Lookup, Lock, Return, Continue, Wait
  <1>2. /\ pc[c] \in {"idle", "lookup", "lock", "done"} /\ running \in {NULL, c}
        /\ UNCHANGED <<system, blockPrivilege, blockCachedIn, todo, cache, memory, block, evicted>>
    BY DEF Call, Lookup, Lock, Return, At, directory, storage, locals
  <1>3. pc'[c] = x /\ \A d \in Caches \ {c} : pc'[d] = pc[d]
    BY <1>1 DEF CInv, Shape
  <1>4. /\ ~Using(c)' /\ pc[c] \notin SendingPlaces /\ pc'[c] \notin SendingPlaces
        /\ pc'[c] \notin {"dbg", "through", "stored"} \cup FilledPlaces \cup PendingPlaces
    BY <1>2, <1>3 DEF Using, UsingPlaces, SendingPlaces, FilledPlaces, PendingPlaces
  <1>5. DOMAIN access = Caches /\ DOMAIN found = Caches
    BY DEF DInv, Frames
  <1>6. /\ \A d \in Caches \ {c} : access'[d] = access[d] /\ found'[d] = found[d]
        /\ pc'[c] \in AskingPlaces /\ access'[c].dbg /\ ~found'[c] => ~Has(c, access[c].b)'
    <2>1. ASSUME NEW a \in Accesses, Call(c, a)
          PROVE  /\ \A d \in Caches \ {c} : access'[d] = access[d] /\ found'[d] = found[d]
                 /\ pc'[c] \in AskingPlaces /\ access'[c].dbg /\ ~found'[c] => ~Has(c, access[c].b)'
      <3>1. access'[c] = a /\ \A d \in Caches \ {c} : access'[d] = access[d]
        BY <1>5, <2>1 DEF Call
      <3>2. \/ UNCHANGED found /\ (~a.dbg \/ x = "dbgWait")
            \/ found' = [found EXCEPT ![c] = Has(c, a.b)]
        BY <1>3, <2>1 DEF Call, Sought, Wait, Continue, CInv, Shape
      <3>3. Has(c, access[c].b)' <=> Has(c, a.b)
        BY <1>2, <3>1 DEF Has
      <3> QED BY <1>3, <1>5, <3>1, <3>2, <3>3 DEF AskingPlaces, PendingPlaces, SendingPlaces
    <2>2. CASE Lookup(c)
      <3>1. UNCHANGED access /\ found' = [found EXCEPT ![c] = Has(c, access[c].b)]
        BY <2>2 DEF Lookup, Sought
      <3>2. Has(c, access[c].b)' <=> Has(c, access[c].b)
        BY <1>2, <3>1 DEF Has
      <3> QED BY <1>5, <3>1, <3>2
    <2>3. CASE Lock(c)
      <3>1. UNCHANGED <<access, found>> /\ pc[c] = "lock"
        BY <2>3 DEF Lock, locals, At
      <3>2. Has(c, access[c].b)' <=> Has(c, access[c].b)
        BY <1>2, <3>1 DEF Has
      <3> QED BY <3>1, <3>2 DEF Coherent, Roles, AskingPlaces, PendingPlaces
    <2>4. CASE Return(c)
      <3>1. access' = [access EXCEPT ![c] = NULL] /\ found' = found /\ x = "idle"
        BY <1>3, <2>4 DEF Return, Wait, CInv, Shape
      <3> QED BY <1>3, <1>5, <3>1 DEF AskingPlaces, PendingPlaces, SendingPlaces
    <2> QED BY <2>1, <2>2, <2>3, <2>4
  <1>7. /\ (pc[c] = "use" => IsCopy(cache[c][access[c].b]))'
        /\ (pc[c] = "load" => ~Has(c, access[c].b))'
        /\ (pc[c] = "store" => Has(Head(todo[c]), access[c].b))'
    BY <1>3
  <1> QED BY <1>2, <1>3, <1>4, <1>6, <1>7, ControlStep

\* An access enters its cache or leaves it.
LEMMA EnterCoherent ==
    ASSUME CInv, DInv, Coherent, WriteBackOnly, NEW c \in Caches, Enter(c) \/ Release(c)
    PROVE  Coherent'
  <1>1. /\ pc[c] \in {"enter", "release"} /\ running \in {NULL, c}
        /\ UNCHANGED <<system, blockPrivilege, blockCachedIn, todo, cache, memory, block, evicted,
                       access, found>>
    BY DEF Enter, Release, At, directory, storage, locals
  <1>2. system.policy[c] = "BACK"
    BY DEF WriteBackOnly, Coherent, Roles
  <1>3. PICK x \in {"use", "load", "done"} :
            /\ pc'[c] = x
            /\ x = "use" => Has(c, access[c].b)
            /\ x = "load" => ~Has(c, access[c].b)
            /\ \A d \in Caches \ {c} : pc'[d] = pc[d] \/ (pc[d] = "awaitBus" /\ pc'[d] = "message")
    <2>1. DOMAIN pc = Caches
      BY DEF CInv, Shape
    <2>2. CASE Enter(c)
      <3>1. PICK x \in {"use", "load"} :
              /\ pc' = [pc EXCEPT ![c] = x]
              /\ x = "use" => Has(c, access[c].b)
              /\ x = "load" => ~Has(c, access[c].b)
        BY <1>2, <2>2 DEF Enter, Continue, Wait
      <3> QED BY <2>1, <3>1
    <2>3. CASE Release(c)
      <3>1. Notify(c, "done", { d \in Caches : pc[d] = "awaitBus" /\ Head(todo[d]) = c }, "message")
        BY <1>2, <2>3 DEF Release
      <3> QED BY <2>1, <3>1 DEF Notify
    <2> QED BY <2>2, <2>3
  <1>4. /\ pc[c] \notin SendingPlaces /\ pc'[c] \notin SendingPlaces \cup AskingPlaces \cup PendingPlaces
        /\ pc'[c] \notin {"dbg", "through", "stored", "store"} \cup FilledPlaces \cup PendingPlaces
    BY <1>1, <1>3 DEF SendingPlaces, FilledPlaces, AskingPlaces, PendingPlaces
  <1>5. Using(c)
    BY <1>1 DEF Using, UsingPlaces
  <1>6. access[c].b \in Blocks
    BY <1>1, CacheAssumption DEF DInv, Frames
  <1>7. /\ (pc[c] = "use" => IsCopy(cache[c][access[c].b]))'
        /\ (pc[c] = "load" => ~Has(c, access[c].b))'
    <2>1. Has(c, access[c].b) => IsCopy(cache[c][access[c].b])
      BY <1>6 DEF Coherent, CopiesOf
    <2> QED BY <1>1, <1>3, <2>1 DEF Has, IsCopy
  <1> QED BY <1>1, <1>3, <1>4, <1>5, <1>7, ControlStep

\* c waits for the interconnect, or is about to store the block of another.
LEMMA StoringCoherent ==
    ASSUME CInv, DInv, Coherent, NEW c \in Caches, running \in {NULL, c},
           NEW x \in {"awaitBus", "store"}, pc' = [pc EXCEPT ![c] = x], pc[c] \in SendingPlaces,
           UNCHANGED <<system, blockPrivilege, blockCachedIn, todo, cache, memory, block, evicted,
                       access, found>>,
           x = "store" => Has(Head(todo[c]), access[c].b)
    PROVE  Coherent'
  <1>1. pc'[c] = x /\ \A d \in Caches \ {c} : pc'[d] = pc[d]
    BY DEF CInv, Shape
  <1>2. /\ ~Using(c)' /\ pc'[c] \in SendingPlaces /\ pc[c] \in AskingPlaces
        /\ pc'[c] \notin {"dbg", "through", "stored", "use", "load"} \cup FilledPlaces \cup PendingPlaces
    BY <1>1 DEF Using, UsingPlaces, SendingPlaces, FilledPlaces, AskingPlaces, PendingPlaces
  <1>3. (pc[c] \in AskingPlaces /\ access[c].dbg /\ ~found[c] => ~Has(c, access[c].b))'
    BY <1>2 DEF Coherent, Roles, Has
  <1>4. (pc[c] = "store" => Has(Head(todo[c]), access[c].b))'
    BY <1>1 DEF Has
  <1>5. pc[c] # "dbgStore"
    BY DEF SendingPlaces
  <1> QED BY <1>1, <1>2, <1>3, <1>4, <1>5, ControlStep

-----------------------------------------------------------------------------

\* c loads a block from memory, or makes room for it, or puts it into its cache.
LEMMA FillCoherent ==
    ASSUME CInv, DInv, Coherent, NEW c \in Caches, Load(c) \/ Insert(c) \/ Evict(c)
    PROVE  Coherent'
  <1>1. /\ pc[c] \in {"load"} \cup FilledPlaces /\ running \in {NULL, c}
        /\ UNCHANGED <<system, blockPrivilege, blockCachedIn, todo, memory, access, found>>
    BY DEF Load, Insert, Evict, At, directory, storage, FilledPlaces
  <1>2. PICK b \in Blocks : access[c] \in Accesses /\ access[c].b = b
    BY <1>1, CacheAssumption DEF DInv, Frames, FilledPlaces
  <1>3. PICK x \in {"loaded", "use", "evict", "insert"} :
            pc'[c] = x /\ \A d \in Caches \ {c} : pc'[d] = pc[d]
    <2>1. PICK x \in {"loaded", "use", "evict", "insert"} : pc' = [pc EXCEPT ![c] = x]
      BY DEF Load, Insert, Evict, Continue, Wait
    <2> QED BY <2>1 DEF CInv, Shape
  <1>4. /\ CopiesOf(c) /\ CleanIn(c) /\ CurrentIn(c) /\ LoadedBy(c) /\ ~Has(c, b)
        /\ DOMAIN cache = Caches /\ DOMAIN cache[c] = Blocks
        /\ DOMAIN block = Caches /\ DOMAIN evicted = Caches /\ DOMAIN memory = Blocks
    BY <1>1, <1>2 DEF Coherent, Roles, CopiesOf, DInv, Frames
  <1>5. ASSUME \A d \in Caches \ {c} :
                  evicted'[d] = evicted[d] /\ cache'[d] = cache[d] /\ block'[d] = block[d],
               DOMAIN block' = Caches, CopiesOf(c)', CleanIn(c)', LoadedBy(c)',
               \A y \in Blocks : ~Sole(y) =>
                  /\ Has(c, y)' => cache'[c][y].data = memory[y]
                  /\ pc'[c] = "evict" /\ evicted'[c].b = y => evicted'[c].data = memory[y]
        PROVE  Coherent'
    <2>1. /\ Using(c) /\ pc[c] \notin SendingPlaces /\ pc'[c] \notin SendingPlaces \cup AskingPlaces \cup PendingPlaces
          /\ pc'[c] \notin {"dbg", "through", "stored", "store"} \cup PendingPlaces
      BY <1>1, <1>3 DEF Using, UsingPlaces, SendingPlaces, FilledPlaces, AskingPlaces, PendingPlaces
    <2>2. StoredBy(c)'
      BY <2>1 DEF StoredBy
    <2>3. pc[c] \in UsingPlaces
      BY <1>1 DEF UsingPlaces, FilledPlaces
    <2>4. DOMAIN memory' = Blocks
      BY <1>1, <1>4
    <2> QED BY <1>1, <1>3, <1>5, <2>1, <2>2, <2>3, <2>4, OwnStep
  <1>6. CASE Load(c)
    <2>1. /\ block' = [block EXCEPT ![c] = memory[b]] /\ UNCHANGED <<cache, evicted>> /\ x = "loaded"
      BY <1>2, <1>3, <1>6 DEF Load, Wait, CInv, Shape
    <2>2. CopiesOf(c)'
      BY <1>1, <1>2, <1>3, <1>4, <2>1 DEF CopiesOf, Has
    <2>3. CleanIn(c)'
      BY <1>1, <1>3, <1>4, <2>1 DEF FilledPlaces, CleanIn, Has
    <2>4. LoadedBy(c)'
      BY <1>1, <1>2, <1>4, <2>1 DEF LoadedBy
    <2>5. \A y \in Blocks : ~Sole(y) => (Has(c, y)' => cache'[c][y].data = memory[y])
      BY <1>4, <2>1 DEF CurrentIn, Has
    <2> QED BY <1>3, <1>4, <1>5, <2>1, <2>2, <2>3, <2>4, <2>5
  <1>7. CASE Insert(c)
    <2>1. PICK dirty : /\ cache' = [cache EXCEPT ![c][b] = [data |-> block[c], dirty |-> dirty]]
                       /\ block' = [block EXCEPT ![c] = NULL] /\ UNCHANGED evicted
      BY <1>2, <1>7 DEF Insert
    <2>2. x = "use" /\ pc[c] \in FilledPlaces
      BY <1>3, <1>7 DEF Insert, At, Continue, CInv, Shape, FilledPlaces
    <2>3. block[c] = memory[b]
      BY <1>2, <1>4, <2>2 DEF LoadedBy
    <2>4. /\ cache'[c][b] = [data |-> memory[b], dirty |-> dirty]
          /\ \A y \in Blocks \ {b} : cache'[c][y] = cache[c][y]
      BY <1>4, <2>1, <2>3
    <2>5. IsCopy(cache'[c][b])
      BY <2>4 DEF IsCopy
    <2>6. \A y \in Blocks : Has(c, y)' => y = b \/ Has(c, y)
      BY <2>4 DEF Has
    <2>7. CopiesOf(c)'
      BY <1>1, <1>2, <1>3, <1>4, <2>2, <2>4, <2>5, <2>6 DEF CopiesOf, FilledPlaces
    <2>8. CleanIn(c)'
      BY <1>1, <1>3, <1>4, <2>4, <2>6 DEF FilledPlaces, CleanIn
    <2>9. LoadedBy(c)'
      BY <1>3, <2>2 DEF LoadedBy, FilledPlaces
    <2>10. \A y \in Blocks : ~Sole(y) => (Has(c, y)' => cache'[c][y].data = memory[y])
      BY <1>4, <2>4, <2>6 DEF CurrentIn
    <2> QED BY <1>3, <1>4, <1>5, <2>1, <2>2, <2>7, <2>8, <2>9, <2>10
  <1>8. CASE Evict(c)
    <2>1. PICK v \in Neighbours(c, b) :
              /\ cache' = [cache EXCEPT ![c][v] = NULL]
              /\ \/ /\ evicted' = [evicted EXCEPT ![c] = [b |-> v, data |-> cache[c][v].data]]
                    /\ x = "evict"
                 \/ UNCHANGED evicted /\ x = "insert"
      BY <1>2, <1>3, <1>8 DEF Evict, Wait, CInv, Shape
    <2>2. v \in Blocks /\ Has(c, v) /\ v # b
      BY <1>4, <2>1 DEF Neighbours
    <2>3. UNCHANGED block /\ pc[c] = "loaded"
      BY <1>8 DEF Evict, At
    <2>4. /\ cache'[c][v] = NULL /\ \A y \in Blocks \ {v} : cache'[c][y] = cache[c][y]
          /\ \A y \in Blocks : Has(c, y)' => Has(c, y) /\ y # v
      BY <1>4, <2>1, <2>2 DEF Has
    <2>5. x = "evict" => evicted'[c].b = v /\ evicted'[c].data = cache[c][v].data
      BY <1>4, <2>1
    <2>6. CopiesOf(c)'
      <3>1. ~Has(c, b)' /\ ~Has(c, v)'
        BY <1>4, <2>2, <2>4
      <3>2. \A y \in Blocks : Has(c, y)' => IsCopy(cache'[c][y])
        BY <1>4, <2>4 DEF CopiesOf
      <3>3. x # "use" /\ x # "load"
        BY <2>1
      <3>4. ~Has(c, access[c].b)'
        BY <1>1, <1>2, <3>1 DEF Has
      <3>5. x = "evict" => /\ evicted'[c].b \in Blocks /\ evicted'[c].b # access'[c].b
                           /\ ~Has(c, evicted[c].b)'
        BY <1>1, <1>2, <2>2, <2>5, <3>1 DEF Has
      <3> QED BY <1>3, <3>2, <3>3, <3>4, <3>5 DEF CopiesOf
    <2>7. CleanIn(c)'
      BY <1>1, <1>3, <1>4, <2>4 DEF FilledPlaces, CleanIn
    <2>8. LoadedBy(c)'
      BY <1>1, <1>4, <2>3 DEF LoadedBy, FilledPlaces
    <2>9. \A y \in Blocks : ~Sole(y) =>
                  /\ Has(c, y)' => cache'[c][y].data = memory[y]
                  /\ pc'[c] = "evict" /\ evicted'[c].b = y => evicted'[c].data = memory[y]
      BY <1>3, <1>4, <2>2, <2>4, <2>5 DEF CurrentIn
    <2> QED BY <1>4, <1>5, <2>1, <2>3, <2>6, <2>7, <2>8, <2>9
  <1> QED BY <1>6, <1>7, <1>8

\* The block that had to leave is stored.
LEMMA StoreEvictedCoherent ==
    ASSUME CInv, DInv, Coherent, NEW c \in Caches, StoreEvicted(c)
    PROVE  Coherent'
  <1>1. PICK v \in Blocks : evicted[c].b = v /\ v # access[c].b /\ ~Has(c, v)
    BY DEF StoreEvicted, At, Coherent, CopiesOf
  <1>2. /\ pc[c] = "evict" /\ pc' = [pc EXCEPT ![c] = "insert"] /\ running \in {NULL, c}
        /\ memory' = [memory EXCEPT ![v] = evicted[c].data]
        /\ evicted' = [evicted EXCEPT ![c] = NULL]
        /\ UNCHANGED <<system, blockPrivilege, blockCachedIn, todo, cache, block, access, found>>
    BY <1>1 DEF StoreEvicted, At, Wait, directory
  <1>3. /\ pc'[c] = "insert" /\ \A d \in Caches \ {c} : pc'[d] = pc[d] /\ evicted'[d] = evicted[d]
        /\ DOMAIN memory' = Blocks /\ DOMAIN block' = Caches
    BY <1>2 DEF CInv, Shape, DInv, Frames, Coherent, Roles
  <1>4. /\ \A y \in Blocks \ {v} : memory'[y] = memory[y]
        /\ memory'[v] = evicted[c].data
    BY <1>2 DEF Coherent, Roles
  <1>5. CopiesOf(c) /\ CleanIn(c) /\ CurrentIn(c) /\ LoadedBy(c)
    BY DEF Coherent
  <1>6. Concerned(c, v)
    BY <1>1, <1>2 DEF Concerned
  <1>7. ~Sole(v) => memory'[v] = memory[v]
    BY <1>1, <1>2, <1>4, <1>5 DEF CurrentIn
  <1>8. CopiesOf(c)'
    BY <1>2, <1>3, <1>5 DEF CopiesOf, Has, FilledPlaces
  <1>9. CleanIn(c)'
    BY <1>1, <1>2, <1>4, <1>5 DEF CleanIn, Has
  <1>10. LoadedBy(c)'
    <2>1. access[c].b \in Blocks
      BY <1>2, CacheAssumption DEF DInv, Frames
    <2> QED BY <1>1, <1>2, <1>3, <1>4, <1>5, <2>1 DEF LoadedBy, FilledPlaces
  <1>11. /\ Using(c) /\ pc[c] \notin SendingPlaces /\ pc'[c] \notin SendingPlaces \cup AskingPlaces \cup PendingPlaces
         /\ pc'[c] \notin {"dbg", "through", "stored", "store", "evict"} \cup PendingPlaces
    BY <1>2, <1>3 DEF Using, UsingPlaces, SendingPlaces, AskingPlaces, PendingPlaces
  <1>12. StoredBy(c)'
    BY <1>11 DEF StoredBy
  <1>13. \A y \in Blocks : ~Sole(y) => (Has(c, y)' => cache'[c][y].data = memory'[y])
    BY <1>2, <1>4, <1>5, <1>7 DEF CurrentIn, Has
  <1>14. \A y \in Blocks : memory'[y] # memory[y] =>
              /\ Sole(y)
              /\ \A e \in Caches : blockCachedIn[y] = <<e>> =>
                    /\ Has(e, y)' => cache'[e][y].data = memory'[y]
                    /\ pc'[e] \in FilledPlaces => access'[e].b # y
    <2>1. SUFFICES ASSUME memory'[v] # memory[v], NEW e \in Caches, blockCachedIn[v] = <<e>>
                   PROVE  ~Has(e, v)' /\ access'[e].b # v
      BY <1>4, <1>7
    <2>2. e = c
      <3>1. PICK z \in Caches : blockCachedIn[v] = <<z>> /\ \A d \in Caches : Concerned(d, v) => d = z
        BY <1>7, <2>1, SoleOwner
      <3>2. <<z>> = <<e>> => z = e
        OBVIOUS
      <3> QED BY <1>6, <2>1, <3>1, <3>2
    <2> QED BY <1>1, <1>2, <2>2 DEF Has
  <1> QED BY <1>2, <1>3, <1>8, <1>9, <1>10, <1>11, <1>12, <1>13, <1>14, OwnStep

-----------------------------------------------------------------------------

\* The access reads its word or writes it, if the block is its alone.
LEMMA UseCoherent ==
    ASSUME CInv, DInv, Coherent, NEW c \in Caches, Use(c)
    PROVE  Coherent'
  <1>1. PICK b \in Blocks : access[c] \in Accesses /\ access[c].b = b
    BY CacheAssumption DEF DInv, Frames, Use, At
  <1>2. /\ pc[c] = "use" /\ pc' = [pc EXCEPT ![c] = "release"] /\ running \in {NULL, c}
        /\ UNCHANGED <<system, blockPrivilege, blockCachedIn, todo, memory, block, evicted, access, found>>
    BY DEF Use, At, Wait, directory, storage
  <1>3. pc'[c] = "release" /\ \A d \in Caches \ {c} : pc'[d] = pc[d]
    BY <1>2 DEF CInv, Shape
  <1>4. /\ Using(c)
        /\ pc[c] \notin SendingPlaces /\ pc'[c] \notin SendingPlaces \cup AskingPlaces \cup PendingPlaces
        /\ pc'[c] \notin {"dbg", "through", "stored", "store", "use", "load", "evict"} \cup FilledPlaces \cup PendingPlaces
    BY <1>2, <1>3 DEF Using, UsingPlaces, SendingPlaces, AskingPlaces, PendingPlaces, FilledPlaces
  <1>5. CASE cache' = cache
    <2>1. Using(c)
      BY <1>2 DEF Using, UsingPlaces
    <2>2. \A d \in Caches \ {c} :
              /\ access'[d] = access[d] /\ found'[d] = found[d]
              /\ pc'[d] = pc[d] \/ (pc[d] = "awaitBus" /\ pc'[d] = "message")
      BY <1>2, <1>3
    <2>3. /\ (pc[c] \in AskingPlaces /\ access[c].dbg /\ ~found[c] => ~Has(c, access[c].b))'
          /\ (pc[c] = "use" => IsCopy(cache[c][access[c].b]))'
          /\ (pc[c] = "load" => ~Has(c, access[c].b))'
          /\ (pc[c] = "store" => Has(Head(todo[c]), access[c].b))'
      BY <1>4
    <2>4. /\ UNCHANGED <<system, blockPrivilege, blockCachedIn, todo, cache, memory, block, evicted>>
          /\ running \in {NULL, c}
          /\ (Using(c)' => Using(c)) /\ (pc'[c] \in SendingPlaces <=> pc[c] \in SendingPlaces)
          /\ (Using(c)' \/ pc[c] \in SendingPlaces => access'[c] = access[c] /\ found'[c] = found[c])
          /\ pc'[c] \notin {"dbg", "through", "stored"} \cup FilledPlaces \cup PendingPlaces
      BY <1>2, <1>4, <1>5, <2>1
    <2> QED BY <1>2, <2>4, <2>2, <2>3, ControlStep
  <1>6. CASE cache' # cache
    <2>1. /\ access[c].cmd = "write"
          /\ cache' = [cache EXCEPT ![c][access[c].b] =
                          [data |-> [@.data EXCEPT ![access[c].w] = access[c].v], dirty |-> TRUE]]
      BY <1>1, <1>6, CacheAssumption DEF Use
    <2>2. /\ DOMAIN cache = Caches /\ DOMAIN cache[c] = Blocks
          /\ CopiesOf(c) /\ CleanIn(c) /\ CurrentIn(c) /\ IsCopy(cache[c][b])
          /\ DOMAIN block = Caches /\ DOMAIN memory = Blocks
      BY <1>1, <1>2 DEF DInv, Frames, Coherent, CopiesOf, Roles
    <2>3. /\ \A d \in Caches \ {c} : cache'[d] = cache[d]
          /\ \A y \in Blocks \ {b} : cache'[c][y] = cache[c][y]
          /\ cache'[c][b].dirty = TRUE /\ IsCopy(cache'[c][b])
      <3>1. PICK r : r = [data |-> [cache[c][b].data EXCEPT ![access[c].w] = access[c].v], dirty |-> TRUE]
        OBVIOUS
      <3>2. cache' = [cache EXCEPT ![c][b] = r]
        BY <1>1, <2>1, <3>1
      <3>3. cache'[c][b] = r
        BY <2>2, <3>2
      <3>4. IsCopy(r) /\ r.dirty = TRUE
        BY <3>1 DEF IsCopy
      <3>5. /\ \A d \in Caches \ {c} : cache'[d] = cache[d]
            /\ \A y \in Blocks \ {b} : cache'[c][y] = cache[c][y]
        BY <2>2, <3>2
      <3> QED BY <3>3, <3>4, <3>5
    <2>4. Sole(b)
      <3>1. Using(c) /\ ~access[c].dbg
        BY <1>2 DEF Using, UsingPlaces, Coherent, Roles
      <3>2. Command(c) = "write"
        BY <2>1, <3>1 DEF Command
      <3>3. Sole(access[c].b)
        BY <3>1, <3>2 DEF Coherent, Writers, Writing
      <3> QED BY <1>1, <3>3
    <2>5. CopiesOf(c)'
      <3>1. \A y \in Blocks : Has(c, y)' => IsCopy(cache'[c][y])
        BY <2>2, <2>3 DEF CopiesOf, Has
      <3> QED BY <1>4, <3>1 DEF CopiesOf
    <2>6. CleanIn(c)'
      BY <1>2, <2>2, <2>3 DEF CleanIn, Has
    <2>7. LoadedBy(c)' /\ StoredBy(c)'
      BY <1>4 DEF LoadedBy, StoredBy
    <2>8. \A y \in Blocks : ~Sole(y) =>
              /\ Has(c, y)' => cache'[c][y].data = memory'[y]
              /\ pc'[c] = "evict" /\ evicted'[c].b = y => evicted'[c].data = memory'[y]
      BY <1>2, <1>4, <2>2, <2>3, <2>4 DEF CurrentIn, Has
    <2>9. DOMAIN block' = Caches /\ DOMAIN memory' = Blocks
      BY <1>2, <2>2
    <2>10. \A d \in Caches \ {c} :
              /\ access'[d] = access[d] /\ found'[d] = found[d] /\ evicted'[d] = evicted[d]
              /\ cache'[d] = cache[d] /\ block'[d] = block[d]
              /\ pc'[d] = pc[d] \/ (pc[d] = "awaitBus" /\ pc'[d] = "message")
      BY <1>2, <1>3, <2>3
    <2>11. Using(c) /\ pc[c] \in UsingPlaces /\ memory' = memory
      BY <1>2 DEF Using, UsingPlaces
    <2> QED BY <1>2, <1>4, <2>5, <2>6, <2>7, <2>8, <2>9, <2>10, <2>11, OwnStep
  <1> QED BY <1>5, <1>6

\* A step of transport_dbg: a debug write is alone with its block from the privilege on until
\* it has stored it.
LEMMA DebugCoherent ==
    ASSUME CInv, DInv, Coherent, NEW c \in Caches, DebugStep(c)
    PROVE  Coherent'
  <1>1. PICK x \in PendingPlaces \cup {"done"} :
            pc'[c] = x /\ \A d \in Caches \ {c} : pc'[d] = pc[d]
    <2>1. PICK x \in PendingPlaces \cup {"done"} : pc' = [pc EXCEPT ![c] = x]
      BY DEF DebugStep, DebugAsk, DebugLoad, DebugRead, DebugWrite, DebugStore, Continue, Wait, PendingPlaces
    <2> QED BY <2>1 DEF CInv, Shape
  <1>2. /\ pc[c] \in {"dbg"} \cup PendingPlaces /\ running \in {NULL, c}
        /\ UNCHANGED <<system, blockPrivilege, blockCachedIn, todo, evicted, access>>
    BY DEF DebugStep, DebugAsk, DebugLoad, DebugBegins, DebugRead, DebugWrite, DebugStore, At,
           directory, locals, PendingPlaces
  <1>3. PICK b \in Blocks : access[c] \in Accesses /\ access[c].b = b /\ access[c].cmd \in {"read", "write"}
    BY <1>2, CacheAssumption DEF DInv, Frames, PendingPlaces
  <1>4. /\ DOMAIN cache = Caches /\ DOMAIN cache[c] = Blocks /\ DOMAIN memory = Blocks
        /\ DOMAIN block = Caches /\ DOMAIN found = Caches
        /\ CopiesOf(c) /\ CleanIn(c) /\ CurrentIn(c) /\ access[c].dbg
        /\ ~found[c] => ~Has(c, b)
        /\ pc[c] \in {"dbgLoad", "dbgUse"} => ~found[c]
    BY <1>2, <1>3 DEF DInv, Frames, Coherent, Roles, AskingPlaces, PendingPlaces
  <1>5. /\ ~Using(c)' /\ pc[c] \notin SendingPlaces /\ pc'[c] \notin SendingPlaces
        /\ pc'[c] \notin {"dbg", "through", "stored", "store", "use", "load", "evict"} \cup FilledPlaces
    BY <1>1, <1>2 DEF Using, UsingPlaces, SendingPlaces, PendingPlaces, FilledPlaces
  <1>6. access[c].cmd = "write" => Writing(c) /\ blockCachedIn[b] = <<c>> /\ Sole(b)
    <2>1. SUFFICES ASSUME access[c].cmd = "write" PROVE Writing(c)
      BY <1>3 DEF Coherent, Writers
    <2> QED BY <1>2, <2>1 DEF Writing, Command
  <1>7. /\ \A d \in Caches \ {c} : found'[d] = found[d] /\ block'[d] = block[d]
        /\ DOMAIN block' = Caches
        /\ x \in PendingPlaces => /\ found'[c] = found[c]
                                  /\ IF x = "dbgStore" THEN access[c].cmd = "write" ELSE ~found[c]
    <2>1. CASE DebugAsk(c)
      <3>1. UNCHANGED <<found, block>> /\ ~found[c] /\ x = "dbgLoad"
        BY <1>1, <2>1 DEF DebugAsk, Wait, locals, CInv, Shape
      <3> QED BY <1>4, <3>1
    <2>2. CASE DebugLoad(c)
      <3>1. /\ UNCHANGED found /\ block' = [block EXCEPT ![c] = memory[access[c].b]]
            /\ ~found[c] /\ x = "dbgUse"
        BY <1>1, <1>4, <2>2 DEF DebugLoad, At, Wait, Continue, CInv, Shape
      <3> QED BY <1>4, <3>1
    <2>3. CASE DebugRead(c) \/ DebugStore(c)
      <3>1. /\ found' = [found EXCEPT ![c] = FALSE] /\ block' = [block EXCEPT ![c] = NULL]
            /\ x = "done"
        BY <1>1, <2>3 DEF DebugRead, DebugStore, Wait, CInv, Shape
      <3> QED BY <1>4, <3>1 DEF PendingPlaces
    <2>4. CASE DebugWrite(c)
      <3>1. /\ UNCHANGED found /\ access[c].cmd = "write" /\ x = "dbgStore"
            /\ block' = block \/ \E data : block' = [block EXCEPT ![c] = data]
        BY <1>1, <2>4 DEF DebugWrite, Wait, CInv, Shape
      <3> QED BY <1>4, <3>1
    <2> QED BY <2>1, <2>2, <2>3, <2>4 DEF DebugStep
  <1>8. /\ DOMAIN memory' = Blocks
        /\ \A d \in Caches \ {c} : cache'[d] = cache[d]
        /\ \A y \in Blocks \ {b} : memory'[y] = memory[y] /\ cache'[c][y] = cache[c][y]
        /\ \A y \in Blocks : Has(c, y)' => Has(c, y)
        /\ Has(c, b) => IsCopy(cache'[c][b]) /\ cache'[c][b].dirty = cache[c][b].dirty
        /\ \/ UNCHANGED <<memory, cache>> /\ pc[c] # "dbgStore"
           \/ /\ Sole(b) /\ memory' = memory /\ pc[c] = "dbg" /\ x = "dbgStore"
           \/ /\ blockCachedIn[b] = <<c>> /\ Sole(b) /\ cache' = cache /\ x = "done"
              /\ Has(c, b) => memory'[b] = cache[c][b].data
    <2>1. Has(c, b) => IsCopy(cache[c][b])
      BY <1>4 DEF CopiesOf
    <2>2. CASE DebugAsk(c) \/ DebugLoad(c) \/ DebugRead(c)
      <3>1. UNCHANGED <<memory, cache>> /\ pc[c] # "dbgStore"
        BY <2>2 DEF DebugAsk, DebugLoad, DebugRead, DebugBegins, At, storage
      <3> QED BY <1>4, <2>1, <3>1 DEF Has
    <2>3. CASE DebugWrite(c)
      <3>1. memory' = memory /\ x = "dbgStore" /\ access[c].cmd = "write" /\ pc[c] # "dbgStore"
        BY <1>1, <2>3 DEF DebugWrite, DebugBegins, At, Wait, CInv, Shape
      <3>2. CASE ~(found[c] /\ Has(c, b))
        <4>1. cache' = cache
          BY <1>3, <2>3, <3>2 DEF DebugWrite
        <4> QED BY <1>4, <2>1, <3>1, <4>1 DEF Has
      <3>3. CASE found[c] /\ Has(c, b)
        <4>1. pc[c] = "dbg"
          BY <1>4, <2>3, <3>3 DEF DebugWrite, DebugBegins, At
        <4>2. PICK data : cache' = [cache EXCEPT ![c][b].data = data]
          BY <1>3, <2>3, <3>3 DEF DebugWrite
        <4>3. PICK old, dirty : cache[c][b] = [data |-> old, dirty |-> dirty]
          BY <2>1, <3>3 DEF IsCopy
        <4>4. cache'[c][b] = [data |-> data, dirty |-> dirty]
          BY <1>4, <4>2, <4>3
        <4>5. /\ \A d \in Caches \ {c} : cache'[d] = cache[d]
              /\ \A y \in Blocks \ {b} : cache'[c][y] = cache[c][y]
          BY <1>4, <4>2
        <4>6. IsCopy(cache'[c][b]) /\ cache'[c][b].dirty = cache[c][b].dirty
          BY <4>3, <4>4 DEF IsCopy
        <4>7. \A y \in Blocks : Has(c, y)' => Has(c, y)
          BY <3>3, <4>5 DEF Has
        <4> QED BY <1>4, <1>6, <3>1, <4>1, <4>5, <4>6, <4>7
      <3> QED BY <3>2, <3>3
    <2>4. CASE DebugStore(c)
      <3>1. /\ memory' = [memory EXCEPT ![b] = DebugData(c)] /\ cache' = cache /\ x = "done"
            /\ pc[c] = "dbgStore"
        BY <1>1, <1>3, <2>4 DEF DebugStore, At, Wait, CInv, Shape
      <3>2. access[c].cmd = "write"
        BY <3>1 DEF Coherent, Roles, PendingPlaces
      <3>3. Has(c, b) => DebugData(c) = cache[c][b].data
        BY <1>3, <1>4 DEF DebugData
      <3> QED BY <1>4, <1>6, <2>1, <3>1, <3>2, <3>3 DEF Has
    <2> QED BY <2>2, <2>3, <2>4 DEF DebugStep
  <1>9. (pc[c] \in AskingPlaces /\ access[c].dbg /\ ~found[c] => ~Has(c, access[c].b))'
    <2>1. Has(c, access[c].b)' <=> Has(c, b)'
      BY <1>2, <1>3 DEF Has
    <2> QED BY <1>1, <1>4, <1>7, <1>8, <2>1 DEF AskingPlaces, SendingPlaces
  <1>10. CopiesOf(c)'
    <2>1. \A y \in Blocks : Has(c, y)' => IsCopy(cache'[c][y])
      BY <1>4, <1>8 DEF CopiesOf
    <2> QED BY <1>5, <2>1 DEF CopiesOf
  <1>11. CleanIn(c)'
    <2>1. SUFFICES ASSUME NEW y \in Blocks, Has(c, y)', ~cache'[c][y].dirty,
                          ~(x = "dbgStore" /\ y = b)
                   PROVE  cache'[c][y].data = memory'[y]
      BY <1>1, <1>2, <1>3 DEF CleanIn
    <2>2. CASE y # b
      BY <1>3, <1>4, <1>8, <2>1, <2>2 DEF CleanIn
    <2>3. CASE y = b
      <3>1. Has(c, b) /\ ~cache[c][b].dirty
        BY <1>8, <2>1, <2>3
      <3> QED BY <1>3, <1>4, <1>8, <2>1, <2>3, <3>1 DEF CleanIn
    <2> QED BY <2>2, <2>3
  <1>12. LoadedBy(c)' /\ StoredBy(c)'
    BY <1>5 DEF LoadedBy, StoredBy
  <1>13. \A y \in Blocks : ~Sole(y) =>
              /\ Has(c, y)' => cache'[c][y].data = memory'[y]
              /\ pc'[c] = "evict" /\ evicted'[c].b = y => evicted'[c].data = memory'[y]
    BY <1>4, <1>5, <1>8 DEF CurrentIn
  <1>14. \A y \in Blocks : memory'[y] # memory[y] =>
              /\ Sole(y)
              /\ \A e \in Caches : blockCachedIn[y] = <<e>> =>
                    /\ Has(e, y)' => cache'[e][y].data = memory'[y]
                    /\ pc'[e] \in FilledPlaces => access'[e].b # y
    <2>1. SUFFICES ASSUME memory'[b] # memory[b], NEW e \in Caches, blockCachedIn[b] = <<e>>
                   PROVE  /\ Sole(b)
                          /\ Has(e, b)' => cache'[e][b].data = memory'[b]
                          /\ pc'[e] \in FilledPlaces => access'[e].b # b
      BY <1>8
    <2>2. e = c
      <3>1. <<e>> = <<c>>
        BY <1>8, <2>1
      <3> QED BY <3>1
    <2> QED BY <1>5, <1>8, <2>1, <2>2
  <1>15. \A d \in Caches \ {c} :
              /\ access'[d] = access[d] /\ found'[d] = found[d] /\ evicted'[d] = evicted[d]
              /\ cache'[d] = cache[d] /\ block'[d] = block[d]
              /\ pc'[d] = pc[d] \/ (pc[d] = "awaitBus" /\ pc'[d] = "message")
    BY <1>1, <1>2, <1>7, <1>8
  <1>16. pc'[c] \in PendingPlaces => /\ access'[c] = access[c] /\ access[c].dbg
                                     /\ access[c].cmd = "write" => Writing(c)
                                     /\ IF pc'[c] = "dbgStore" THEN access[c].cmd = "write"
                                        ELSE ~found'[c]
    BY <1>1, <1>2, <1>4, <1>6, <1>7
  <1>17. cache'[c] # cache[c] => pc[c] \in UsingPlaces \cup {"dbg"}
    BY <1>8
  <1>18. DOMAIN memory' = Blocks /\ DOMAIN block' = Caches
    BY <1>7, <1>8
  <1> QED BY <1>2, <1>5, <1>9, <1>10, <1>11, <1>12, <1>13, <1>14, <1>15, <1>16, <1>17, <1>18, OwnStep

\* The block that a message asks for is stored.
LEMMA StoreCoherent ==
    ASSUME CInv, DInv, Coherent, NEW c \in Caches, Store(c)
    PROVE  Coherent'
  <1>1. PICK b \in Blocks : access[c] \in Accesses /\ access[c].b = b
    BY CacheAssumption DEF DInv, Frames, Store, At
  <1>2. PICK h \in Caches : h = Head(todo[c]) /\ Has(h, b) /\ pc[h] \notin UsingPlaces
    <2>1. pc[c] = "store" /\ todo[c] # <<>> /\ todo[c] \in Seq(Caches)
      BY DEF Store, At, DInv, Occupied, Frames
    <2>2. Has(Head(todo[c]), b) /\ busyDir[Head(todo[c])]
      BY <1>1, <2>1 DEF Coherent, StoredBy, DInv, Occupied
    <2>3. Head(todo[c]) \in Caches
      BY <2>1, HeadTailProperties
    <2>4. pc[Head(todo[c])] \notin UsingPlaces
      BY <2>2, <2>3 DEF CInv, Users, DInv, Occupied
    <2> QED BY <2>2, <2>3, <2>4
  <1>3. /\ pc[c] = "store" /\ pc' = [pc EXCEPT ![c] = "stored"] /\ running \in {NULL, c}
        /\ memory' = [memory EXCEPT ![b] = cache[h][b].data]
        /\ UNCHANGED <<system, blockPrivilege, blockCachedIn, todo, cache, block, evicted, access, found>>
    BY <1>1, <1>2 DEF Store, At, Wait, directory, locals
  <1>4. /\ pc'[c] = "stored" /\ \A d \in Caches \ {c} : pc'[d] = pc[d]
        /\ DOMAIN memory' = Blocks /\ DOMAIN block' = Caches
        /\ memory'[b] = cache[h][b].data /\ \A y \in Blocks \ {b} : memory'[y] = memory[y]
    BY <1>3 DEF CInv, Shape, Coherent, Roles
  <1>5. CopiesOf(c) /\ CleanIn(c) /\ CurrentIn(c)
    BY DEF Coherent
  <1>6. ~Sole(b) => memory'[b] = memory[b]
    BY <1>2, <1>4 DEF Coherent, CurrentIn
  <1>7. /\ ~Using(c)' /\ pc[c] \in SendingPlaces \cap AskingPlaces /\ pc'[c] \in SendingPlaces
        /\ pc'[c] \notin {"dbg", "through", "store", "use", "load", "evict"} \cup FilledPlaces \cup PendingPlaces
    BY <1>3, <1>4 DEF Using, UsingPlaces, SendingPlaces, AskingPlaces, PendingPlaces, FilledPlaces
  <1>8. CopiesOf(c)' /\ LoadedBy(c)'
    BY <1>3, <1>5, <1>7 DEF CopiesOf, LoadedBy, Has
  <1>9. StoredBy(c)'
    BY <1>1, <1>2, <1>3, <1>4 DEF StoredBy, Has
  <1>10. Sole(b) => \E e \in Caches : /\ blockCachedIn[b] = <<e>> /\ h = e
                                      /\ \A d \in Caches : Has(d, b) => d = h
    BY <1>2, SoleOwner DEF Concerned
  <1>11. CleanIn(c)'
    <2>1. SUFFICES ASSUME NEW y \in Blocks, Has(c, y), ~cache[c][y].dirty
                   PROVE  cache[c][y].data = memory'[y]
      BY <1>3 DEF CleanIn, Has
    <2>2. cache[c][y].data = memory[y]
      BY <1>3, <1>5, <2>1 DEF CleanIn
    <2>3. CASE y # b \/ ~Sole(b)
      BY <1>4, <1>6, <2>2, <2>3
    <2>4. CASE y = b /\ Sole(b)
      BY <1>4, <1>10, <2>1, <2>4
    <2> QED BY <2>3, <2>4
  <1>12. \A y \in Blocks : ~Sole(y) =>
              /\ Has(c, y)' => cache'[c][y].data = memory'[y]
              /\ pc'[c] = "evict" /\ evicted'[c].b = y => evicted'[c].data = memory'[y]
    BY <1>3, <1>4, <1>5, <1>6, <1>7 DEF CurrentIn, Has
  <1>13. \A y \in Blocks : memory'[y] # memory[y] =>
              /\ Sole(y)
              /\ \A e \in Caches : blockCachedIn[y] = <<e>> =>
                    /\ Has(e, y)' => cache'[e][y].data = memory'[y]
                    /\ pc'[e] \in FilledPlaces => access'[e].b # y
    <2>1. SUFFICES ASSUME memory'[b] # memory[b], NEW e \in Caches, blockCachedIn[b] = <<e>>
                   PROVE  /\ Has(e, b)' => cache'[e][b].data = memory'[b]
                          /\ pc'[e] \in FilledPlaces => access'[e].b # b
      BY <1>4, <1>6
    <2>2. e = h
      <3>1. PICK z \in Caches : blockCachedIn[b] = <<z>> /\ h = z
        BY <1>6, <1>10, <2>1
      <3>2. <<z>> = <<e>> => z = e
        OBVIOUS
      <3> QED BY <2>1, <3>1, <3>2
    <2>3. pc'[h] \notin FilledPlaces
      BY <1>2, <1>4 DEF FilledPlaces, UsingPlaces
    <2> QED BY <1>3, <1>4, <2>2, <2>3
  <1>14. (pc[c] \in AskingPlaces /\ access[c].dbg /\ ~found[c] => ~Has(c, access[c].b))'
    BY <1>3, <1>7 DEF Coherent, Roles, Has
  <1>15. \A d \in Caches \ {c} :
              /\ access'[d] = access[d] /\ found'[d] = found[d] /\ evicted'[d] = evicted[d]
              /\ cache'[d] = cache[d] /\ block'[d] = block[d]
              /\ pc'[d] = pc[d] \/ (pc[d] = "awaitBus" /\ pc'[d] = "message")
    BY <1>3, <1>4
  <1> QED BY <1>3, <1>4, <1>7, <1>8, <1>9, <1>11, <1>12, <1>13, <1>14, <1>15, OwnStep

-----------------------------------------------------------------------------

\* A step with which c messages another cache.
LEMMA MessageCoherent ==
    ASSUME CInv, DInv, Coherent, Undisturbed, NEW c \in Caches, MessageStep(c)
    PROVE  Coherent'
  <1>1. CASE SendWaiting(c)
    <2>1. /\ pc[c] = "send" /\ pc' = [pc EXCEPT ![c] = "awaitBus"] /\ running \in {NULL, c}
          /\ UNCHANGED <<system, blockPrivilege, blockCachedIn, todo, cache, memory, block, evicted,
                         access, found>>
      BY <1>1 DEF SendWaiting, At, Wait, directory, storage, locals
    <2> QED BY <2>1, StoringCoherent DEF SendingPlaces
  <1>2. PICK d : d = Head(todo[c])
    OBVIOUS
  <1>3. todo[c] # <<>> => d \in Caches
    BY <1>2, HeadTailProperties DEF DInv, Frames
  <1>4. CASE Deliver(c)
    <2>1. /\ running \in {NULL, c}
          /\ (pc[c] = "send" /\ todo[c] # <<>> /\ ~InUse(d)) \/ pc[c] = "message"
          /\ UNCHANGED <<system, blockPrivilege, blockCachedIn, memory, access, found, evicted>>
      BY <1>2, <1>4 DEF Deliver, At, directory
    <2>2. todo[c] # <<>> /\ d \in Caches
      BY <1>3, <2>1 DEF DInv, Occupied
    <2>3. CASE ~MustStore(c, d)
      <3>1. Replied(c, d)
        BY <1>2, <1>4, <2>3 DEF Deliver
      <3> QED BY <1>2, <2>1, <2>2, <2>3, <3>1, RepliedCoherent
    <2>4. CASE MustStore(c, d)
      <3>1. /\ pc' = [pc EXCEPT ![c] = "store"] /\ UNCHANGED <<cache, block, todo>>
            /\ Has(Head(todo[c]), access[c].b)
        BY <1>2, <1>4, <2>4 DEF Deliver, Wait, MustStore
      <3>2. pc[c] \in SendingPlaces
        BY <2>1 DEF SendingPlaces
      <3> QED BY <2>1, <3>1, <3>2, StoringCoherent
    <2> QED BY <2>3, <2>4
  <1>5. CASE Stored(c)
    <2>1. /\ running \in {NULL, c} /\ pc[c] = "stored" /\ Replied(c, d)
          /\ UNCHANGED <<system, blockPrivilege, blockCachedIn, memory, access, found, evicted>>
      BY <1>2, <1>5 DEF Stored, At, directory, storage
    <2>2. todo[c] # <<>> /\ d \in Caches
      BY <1>3, <2>1 DEF DInv, Occupied
    <2> QED BY <1>2, <2>1, <2>2, RepliedCoherent
  <1> QED BY <1>1, <1>4, <1>5, StoreCoherent DEF MessageStep

\* Every step keeps the copies coherent.
LEMMA CoherentStep ==
    ASSUME CInv, DInv, Coherent, WriteBackOnly, Undisturbed, [Next]_vars
    PROVE  Coherent'
  <1>1. CASE UNCHANGED vars
    <2>1. UNCHANGED <<system, blockPrivilege, blockCachedIn, memory, cache, running, pc,
                      access, found, todo, block, evicted>>
      BY <1>1 DEF vars, directory, storage, control, locals
    <2>2. \A b : Sole(b)' <=> Sole(b)
      BY <2>1 DEF Sole, Flushing, Command
    <2>3. Roles' /\ Writers'
      <3>1. \A c \in Caches : Sole(access[c].b)' <=> Sole(access[c].b)
        BY <2>1 DEF Sole, Flushing, Command
      <3> QED BY <2>1, <3>1 DEF Coherent, Roles, Writers, Writing, Using, Command, Has
    <2>4. ASSUME NEW c \in Caches
          PROVE  CopiesOf(c)' /\ CleanIn(c)' /\ CurrentIn(c)' /\ LoadedBy(c)' /\ StoredBy(c)'
      <3>1. CopiesOf(c) /\ CleanIn(c) /\ CurrentIn(c) /\ LoadedBy(c) /\ StoredBy(c)
        BY DEF Coherent
      <3>2. CopiesOf(c)' /\ CleanIn(c)' /\ LoadedBy(c)' /\ StoredBy(c)'
        BY <2>1, <3>1 DEF CopiesOf, CleanIn, LoadedBy, StoredBy, Has
      <3>3. CurrentIn(c)'
        BY <2>1, <2>2, <3>1 DEF CurrentIn, Has
      <3> QED BY <3>2, <3>3
    <2> QED BY <2>3, <2>4 DEF Coherent
  <1>2. ASSUME NEW c \in Caches, Step(c) \/ \E a \in Accesses : Call(c, a) PROVE Coherent'
    <2>1. ~Through(c)
      BY DEF Through, At, Coherent, Roles
    <2> QED BY <1>2, <2>1, RequestCoherent, ServeCoherent, GrantCoherent, MessageCoherent,
               EnterCoherent, FillCoherent, StoreEvictedCoherent, UseCoherent, DebugCoherent
            DEF Step, RequestStep, AccessStep
  <1> QED BY <1>1, <1>2 DEF Next

\* No cache has a copy at first.
LEMMA InitCoherent == Init => Coherent
  <1> SUFFICES ASSUME Init PROVE Coherent
    OBVIOUS
  <1>1. Roles
    BY DEF Init, Roles, AskingPlaces, PendingPlaces, SendingPlaces, Using, UsingPlaces
  <1>2. Writers
    BY DEF Init, Writers, Writing, Using, UsingPlaces, PendingPlaces
  <1>3. ASSUME NEW c \in Caches
        PROVE  CopiesOf(c) /\ CleanIn(c) /\ CurrentIn(c) /\ LoadedBy(c) /\ StoredBy(c)
    BY <1>3 DEF Init, CopiesOf, CleanIn, CurrentIn, LoadedBy, StoredBy, Has, FilledPlaces
  <1> QED BY <1>1, <1>2, <1>3 DEF Coherent

\* Where all caches write back, the copies of a block are equal, and the copy of a cache that
\* may write is the only one, whatever the order in which the interconnect serves the transfers.
THEOREM CachesAreCoherent ==
    ASSUME WriteBackOnly
    PROVE  Spec /\ []Undisturbed => []CopiesAgree
  <1>1. Init => CInv
    BY DEF Init, DirectoryInit, CInv, Shape, OneServed, NobodyBetween, Users, ServedPlaces
  <1>2. Init => DInv /\ Coherent
    BY InitKnows, InitCoherent
  <1>3. CInv /\ DInv /\ Coherent /\ Undisturbed /\ [Next]_vars => CInv' /\ DInv' /\ Coherent'
    BY CInvStep, DInvStep, CoherentStep
  <1>4. DInv /\ CInv /\ Coherent => CopiesAgree
    <2>1. SUFFICES ASSUME CInv, DInv, Coherent, NEW b \in Blocks
                   PROVE  /\ blockPrivilege[b] = "EXCLUSIVE" =>
                                \E c \in Caches : /\ blockCachedIn[b] = <<c>>
                                                  /\ \A d \in Caches : Has(d, b) => d = c
                          /\ \A c, d \in Caches : Has(c, b) /\ Has(d, b) =>
                                cache[c][b].data = cache[d][b].data
      BY DEF CopiesAgree
    <2>2. CASE Sole(b)
      <3>1. PICK e \in Caches : blockCachedIn[b] = <<e>> /\ \A c \in Caches : Concerned(c, b) => c = e
        BY <2>1, <2>2, SoleOwner
      <3>2. \A c \in Caches : Has(c, b) => c = e
        BY <3>1 DEF Concerned
      <3> QED BY <3>1, <3>2
    <2>3. CASE ~Sole(b)
      <3>1. \A c \in Caches : Has(c, b) => cache[c][b].data = memory[b]
        BY <2>1, <2>3 DEF Coherent, CurrentIn
      <3>2. blockPrivilege[b] # "EXCLUSIVE"
        BY <2>3 DEF Sole
      <3> QED BY <3>1, <3>2
    <2> QED BY <2>2, <2>3
  <1> QED
    BY <1>1, <1>2, <1>3, <1>4, PTL DEF Spec

-----------------------------------------------------------------------------

\* What a cache may have of a block.
Copies == [data : Data, dirty : BOOLEAN]

\* What an access has and has not got at each of its places, and that blocks are blocks.
HeldBy(c) ==
    /\ \A b \in Blocks : Has(c, b) => cache[c][b] \in Copies
    /\ pc[c] = "use" => Has(c, access[c].b)
    /\ evicted[c] # NULL <=> pc[c] = "evict"
    /\ pc[c] = "evict" => evicted[c].data \in Data
    /\ access[c] = NULL <=> pc[c] = "idle"
    /\ pc[c] \in {"dbgWait", "lookup"} => access[c].dbg
    /\ found[c] \in BOOLEAN
    /\ found[c] => access[c].dbg /\ pc[c] \in AskingPlaces
    /\ pc[c] = "dbgUse" \/ (pc[c] = "dbgStore" /\ ~found[c]) \/ (found[c] /\ ~Has(c, access[c].b))
          => block[c] \in Data

Held ==
    /\ memory \in [Blocks -> Data] /\ DOMAIN result = Caches
    /\ \A c \in Caches : HeldBy(c)

-----------------------------------------------------------------------------

\* A step of c that other accesses notice at most by an event.
LEMMA OthersHeld ==
    ASSUME Held, NEW c \in Caches,
           memory' \in [Blocks -> Data], DOMAIN result' = Caches,
           \A d \in Caches \ {c} :
              /\ \/ pc'[d] = pc[d]
                 \/ pc[d] = "awaitBus" /\ pc'[d] = "message"
                 \/ pc[d] = "queued" /\ pc'[d] = "serve"
              /\ access'[d] = access[d] /\ found'[d] = found[d] /\ evicted'[d] = evicted[d]
              /\ cache'[d] = cache[d] /\ block'[d] = block[d],
           HeldBy(c)'
    PROVE  Held'
  <1>1. ASSUME NEW d \in Caches \ {c} PROVE HeldBy(d)'
    <2>1. HeldBy(d)
      BY DEF Held
    <2>2. /\ access'[d] = access[d] /\ found'[d] = found[d] /\ evicted'[d] = evicted[d]
          /\ cache'[d] = cache[d] /\ block'[d] = block[d]
      OBVIOUS
    <2>3. \A b : Has(d, b)' <=> Has(d, b)
      BY <2>2 DEF Has
    <2>4. /\ pc'[d] \in AskingPlaces <=> pc[d] \in AskingPlaces
          /\ \A x \in {"use", "evict", "idle", "dbgWait", "lookup", "dbgUse", "dbgStore"} : pc'[d] = x <=> pc[d] = x
      BY DEF AskingPlaces, PendingPlaces, SendingPlaces
    <2> QED BY <2>1, <2>2, <2>3, <2>4 DEF HeldBy
  <1> QED BY <1>1 DEF Held

\* A step of c that leaves blocks where they are.
LEMMA ControlHeld ==
    ASSUME DInv, Held, NEW c \in Caches,
           UNCHANGED <<memory, cache, evicted, access, found>>, DOMAIN result' = Caches,
           \A d \in Caches \ {c} :
              /\ \/ pc'[d] = pc[d]
                 \/ pc[d] = "awaitBus" /\ pc'[d] = "message"
                 \/ pc[d] = "queued" /\ pc'[d] = "serve"
              /\ block'[d] = block[d],
           found[c] => pc'[c] \in AskingPlaces /\ block'[c] = block[c],
           pc[c] \notin {"idle", "evict"}, pc'[c] \notin {"idle", "evict", "dbgWait", "lookup", "dbgUse", "dbgStore"},
           pc'[c] = "use" => Has(c, access[c].b)
    PROVE  Held'
  <1>1. HeldBy(c)
    BY DEF Held
  <1>2. HeldBy(c)'
    <2>1. \A b : Has(c, b)' <=> Has(c, b)
      BY DEF Has
    <2> QED BY <1>1, <2>1 DEF HeldBy
  <1>3. \A d \in Caches \ {c} :
              /\ access'[d] = access[d] /\ found'[d] = found[d] /\ evicted'[d] = evicted[d]
              /\ cache'[d] = cache[d] /\ block'[d] = block[d]
    OBVIOUS
  <1>4. memory' \in [Blocks -> Data]
    BY DEF Held
  <1> QED BY <1>2, <1>3, <1>4, OthersHeld

\* An access is called, or asks for its privilege.
LEMMA RequestHeld ==
    ASSUME CInv, DInv, Coherent, Held, NEW c \in Caches,
           (\E a \in Accesses : Call(c, a)) \/ RequestStep(c)
    PROVE  Held'
  <1>1. HeldBy(c) /\ memory \in [Blocks -> Data] /\ DOMAIN result = Caches
    BY DEF Held
  <1>2. /\ DOMAIN pc = Caches /\ DOMAIN access = Caches /\ DOMAIN found = Caches
        /\ DOMAIN todo = Caches
    BY DEF CInv, Shape, DInv, Frames
  <1>3. ASSUME NEW a \in Accesses, Call(c, a) PROVE Held'
    <2>1. PICK x \in {"lock", "dbgWait"} :
              /\ pc' = [pc EXCEPT ![c] = x] /\ (x = "dbgWait" => a.dbg)
              /\ \/ UNCHANGED found
                 \/ a.dbg /\ x = "lock" /\ found' = [found EXCEPT ![c] = Has(c, a.b)]
      BY <1>3 DEF Call, Continue, Wait, Sought
    <2>2. /\ pc[c] = "idle" /\ access' = [access EXCEPT ![c] = a]
          /\ UNCHANGED <<memory, cache, block, evicted, result>>
      BY <1>3 DEF Call, At, storage
    <2>3. ~found[c] /\ evicted[c] = NULL
      BY <1>1, <2>2 DEF HeldBy, AskingPlaces, PendingPlaces, SendingPlaces
    <2>4. /\ pc'[c] = x /\ access'[c] = a /\ a # NULL
          /\ \/ found'[c] = found[c]
             \/ a.dbg /\ x = "lock" /\ found'[c] = Has(c, a.b)
          /\ \A d \in Caches \ {c} : pc'[d] = pc[d] /\ access'[d] = access[d] /\ found'[d] = found[d]
      <3>1. /\ pc'[c] = x /\ access'[c] = a /\ a # NULL
            /\ \A d \in Caches \ {c} : pc'[d] = pc[d] /\ access'[d] = access[d]
        BY <1>2, <2>1, <2>2, NullAssumption
      <3>2. CASE found' = [found EXCEPT ![c] = Has(c, a.b)] /\ a.dbg /\ x = "lock"
        <4>1. found'[c] = Has(c, a.b) /\ \A d \in Caches \ {c} : found'[d] = found[d]
          BY <1>2, <3>2
        <4> QED BY <3>1, <3>2, <4>1
      <3> QED BY <2>1, <3>1, <3>2
    <2>5. HeldBy(c)'
      <3>1. \A b : Has(c, b)' <=> Has(c, b)
        BY <2>2 DEF Has
      <3>2. /\ ~found[c] /\ pc[c] = "idle" /\ evicted[c] = NULL /\ Has(c, a.b) \in BOOLEAN
            /\ \A b \in Blocks : Has(c, b) => cache[c][b] \in Copies
        BY <1>1, <2>2, <2>3 DEF HeldBy, Has
      <3>3. found'[c] = FALSE \/ (a.dbg /\ x = "lock" /\ found'[c] = Has(c, a.b))
        BY <1>1, <2>3, <2>4 DEF HeldBy
      <3>4. found'[c] \in BOOLEAN /\ (found'[c] => a.dbg /\ x = "lock" /\ Has(c, a.b))
        BY <3>2, <3>3, Zenon
      <3>5. pc'[c] = x /\ access'[c] = a /\ evicted'[c] = NULL /\ cache' = cache /\ a # NULL
        BY <2>2, <2>4, <3>2
      <3> QED BY <2>1, <3>1, <3>2, <3>4, <3>5 DEF HeldBy, AskingPlaces, PendingPlaces
    <2> QED BY <1>1, <2>2, <2>4, <2>5, OthersHeld
  <1>4. CASE Lookup(c)
    <2>1. /\ pc[c] = "lookup" /\ pc' = [pc EXCEPT ![c] = "lock"]
          /\ found' = [found EXCEPT ![c] = Has(c, access[c].b)]
          /\ UNCHANGED <<memory, cache, block, evicted, result, access>>
      BY <1>4 DEF Lookup, At, Sought, Continue, storage
    <2>2. /\ pc'[c] = "lock" /\ found'[c] = Has(c, access[c].b)
          /\ \A d \in Caches \ {c} : pc'[d] = pc[d] /\ found'[d] = found[d]
      BY <1>2, <2>1
    <2>3. access[c].dbg
      BY <1>1, <2>1 DEF HeldBy
    <2>4. HeldBy(c)'
      <3>1. \A b : Has(c, b)' <=> Has(c, b)
        BY <2>1 DEF Has
      <3>2. found'[c] \in BOOLEAN /\ (found'[c] => Has(c, access[c].b))
        BY <2>2 DEF Has
      <3> QED BY <1>1, <2>1, <2>2, <2>3, <3>1, <3>2 DEF HeldBy, AskingPlaces, PendingPlaces
    <2> QED BY <1>1, <2>1, <2>2, <2>4, OthersHeld
  <1>5. CASE Lock(c) \/ Serve(c)
    <2>1. PICK x \in {"serve", "queued", "send"} : pc' = [pc EXCEPT ![c] = x]
      BY <1>5 DEF Lock, Serve, Continue, Wait
    <2>2. /\ pc[c] \in {"lock", "serve"} /\ UNCHANGED <<memory, cache, evicted, access, found, block, result>>
      BY <1>5 DEF Lock, Serve, At, storage, locals
    <2>3. pc'[c] = x /\ \A d \in Caches \ {c} : pc'[d] = pc[d]
      BY <1>2, <2>1
    <2> QED BY <1>1, <2>2, <2>3, ControlHeld DEF AskingPlaces, PendingPlaces, SendingPlaces
  <1>6. CASE Grant(c)
    <2>1. /\ pc[c] = "send" /\ UNCHANGED <<memory, cache, evicted, access, found, block, result>>
          /\ Notify(c, IF access[c].dbg THEN "dbg" ELSE "enter", Awakened, "serve")
      BY <1>6 DEF Grant, At, storage, locals
    <2>2. /\ pc'[c] = IF access[c].dbg THEN "dbg" ELSE "enter"
          /\ \A d \in Caches \ {c} : pc'[d] = IF d \in Awakened THEN "serve" ELSE pc[d]
      BY <2>1 DEF Notify
    <2>3. \A d \in Awakened : pc[d] = "queued"
      BY HeadTailProperties DEF Awakened, CInv, OneServed, Shape
    <2>4. \A d \in Caches \ {c} : pc'[d] = pc[d] \/ (pc[d] = "queued" /\ pc'[d] = "serve")
      BY <2>2, <2>3
    <2>5. found[c] => access[c].dbg
      BY <1>1 DEF HeldBy
    <2> QED BY <1>1, <2>1, <2>2, <2>4, <2>5, ControlHeld DEF AskingPlaces, PendingPlaces
  <1> QED BY <1>3, <1>4, <1>5, <1>6 DEF RequestStep

\* Nobody writes a block of another with transport_dbg.
LEMMA NobodyWrites ==
    ASSUME DInv, Coherent, Undisturbed, NEW c \in Caches, access[c] \in Accesses,
           NEW d \in Caches \ {c}, access[d].b = access[c].b,
           \/ pc[d] = "dbgStore"
           \/ pc[d] \in {"dbg"} \cup PendingPlaces /\ access[d].cmd = "write"
    PROVE  FALSE
  <1>1. access[d].dbg /\ access[d].cmd = "write"
    BY DEF Coherent, Roles, PendingPlaces
  <1>2. access[d] \in Accesses
    BY DEF DInv, Frames, PendingPlaces
  <1> QED BY <1>1, <1>2, NullAssumption DEF Undisturbed

\* What a message does: nothing yet, or the block of another is stored, or it leaves
\* the cache of that one, when memory has it.
LEMMA MessageShape ==
    ASSUME CInv, DInv, Coherent, Undisturbed, NEW c \in Caches, MessageStep(c)
    PROVE  /\ UNCHANGED <<system, access, found, evicted, result>>
           /\ pc[c] \in SendingPlaces /\ pc'[c] \in SendingPlaces
           /\ \A e \in Caches \ {c} : pc'[e] = pc[e] \/ (pc[e] = "dbgWait" /\ pc'[e] = "lookup")
           /\ \/ UNCHANGED <<memory, cache, block>>
              \/ \E h \in Caches, b \in Blocks :
                    /\ b = access[c].b /\ Has(h, b) /\ memory' = [memory EXCEPT ![b] = cache[h][b].data]
                    /\ UNCHANGED <<cache, block>>
              \/ \E d \in Caches, b \in Blocks :
                    /\ b = access[c].b /\ Has(d, b) /\ cache[d][b].data = memory[b] /\ pc[d] \notin UsingPlaces
                    /\ cache' = [cache EXCEPT ![d][b] = NULL]
                    /\ block' = IF found[d] /\ access[d].b = b
                                THEN [block EXCEPT ![d] = cache[d][b].data] ELSE block
                    /\ UNCHANGED memory
  <1>1. pc[c] \in SendingPlaces
    BY DEF MessageStep, SendWaiting, Deliver, Store, Stored, At, SendingPlaces
  <1>2. PICK b \in Blocks : access[c] \in Accesses /\ access[c].b = b
    BY <1>1, CacheAssumption DEF DInv, Frames, SendingPlaces
  <1>3. PICK d : d = Head(todo[c])
    OBVIOUS
  <1>4. todo[c] # <<>> => d \in Caches
    BY <1>3, HeadTailProperties DEF DInv, Frames
  <1>5. DOMAIN pc = Caches
    BY DEF CInv, Shape
  <1>6. CASE SendWaiting(c)
    <2>1. /\ pc' = [pc EXCEPT ![c] = "awaitBus"]
          /\ UNCHANGED <<system, access, found, evicted, result, memory, cache, block>>
      BY <1>6 DEF SendWaiting, Wait, storage, locals
    <2> QED BY <1>1, <1>5, <2>1 DEF SendingPlaces
  <1>7. ASSUME d \in Caches, Replied(c, d), UNCHANGED <<system, memory, access, found, evicted, result>>,
               Has(d, b) => cache[d][b].data = memory[b], ~busyBus[d]
        PROVE  /\ pc'[c] \in SendingPlaces
               /\ \A e \in Caches \ {c} : pc'[e] = pc[e] \/ (pc[e] = "dbgWait" /\ pc'[e] = "lookup")
               /\ \/ UNCHANGED <<memory, cache, block>>
                  \/ /\ Has(d, b) /\ cache[d][b].data = memory[b] /\ pc[d] \notin UsingPlaces
                     /\ cache' = [cache EXCEPT ![d][b] = NULL]
                     /\ block' = IF found[d] /\ access[d].b = b
                                 THEN [block EXCEPT ![d] = cache[d][b].data] ELSE block
                     /\ UNCHANGED memory
    <2>1. /\ pc'[c] \in SendingPlaces
          /\ \A e \in Caches \ {c} : pc'[e] = pc[e] \/ (pc[e] = "dbgWait" /\ pc'[e] = "lookup")
      BY <1>7 DEF Replied, Notify, AwaitDir, SendingPlaces
    <2>2. \/ UNCHANGED <<cache, block>>
          \/ /\ Has(d, b) /\ cache' = [cache EXCEPT ![d][b] = NULL]
             /\ block' = IF found[d] /\ access[d].b = b
                         THEN [block EXCEPT ![d] = cache[d][b].data] ELSE block
      BY <1>2, <1>7 DEF Replied, Answered
    <2>3. pc[d] \notin UsingPlaces
      BY <1>7 DEF DInv, Occupied
    <2> QED BY <1>7, <2>1, <2>2, <2>3
  <1>8. CASE Deliver(c)
    <2>1. /\ (pc[c] = "send" /\ todo[c] # <<>> /\ ~InUse(d)) \/ pc[c] = "message"
          /\ UNCHANGED <<system, memory, access, found, evicted, result>>
      BY <1>3, <1>8 DEF Deliver, At
    <2>2. todo[c] # <<>> /\ d \in Caches /\ ~busyBus[d]
      BY <1>3, <1>4, <2>1 DEF DInv, Occupied, CInv, Users, InUse
    <2>3. CASE ~MustStore(c, d)
      <3>1. Replied(c, d)
        BY <1>3, <1>8, <2>3 DEF Deliver
      <3>2. Has(d, b) => cache[d][b].data = memory[b]
        <4>1. ~(pc[d] = "dbgStore" /\ access[d].b = b)
          BY <1>1, <1>2, <2>2, NobodyWrites DEF SendingPlaces
        <4> QED BY <1>2, <2>2, <2>3, <4>1 DEF MustStore, Coherent, CleanIn
      <3> QED BY <1>1, <1>2, <1>7, <2>1, <2>2, <3>1, <3>2
    <2>4. CASE MustStore(c, d)
      <3>1. pc' = [pc EXCEPT ![c] = "store"] /\ UNCHANGED <<cache, block>>
        BY <1>3, <1>8, <2>4 DEF Deliver, Wait
      <3> QED BY <1>1, <1>5, <2>1, <3>1 DEF SendingPlaces
    <2> QED BY <2>3, <2>4
  <1>9. CASE Store(c)
    <2>1. /\ pc[c] = "store" /\ pc' = [pc EXCEPT ![c] = "stored"]
          /\ memory' = [memory EXCEPT ![b] = cache[d][b].data]
          /\ UNCHANGED <<system, access, found, evicted, result, cache, block>>
      BY <1>2, <1>3, <1>9 DEF Store, At, Wait, locals
    <2>2. d \in Caches /\ Has(d, b)
      BY <1>2, <1>3, <1>4, <2>1 DEF DInv, Occupied, Coherent, StoredBy
    <2> QED BY <1>1, <1>2, <1>5, <2>1, <2>2 DEF SendingPlaces
  <1>10. CASE Stored(c)
    <2>1. /\ pc[c] = "stored" /\ Replied(c, d)
          /\ UNCHANGED <<system, memory, access, found, evicted, result>>
      BY <1>3, <1>10 DEF Stored, At, storage
    <2>2. d \in Caches /\ ~busyBus[d]
      <3>1. d \in Caches /\ busyDir[d]
        BY <1>3, <1>4, <2>1 DEF DInv, Occupied
      <3> QED BY <3>1 DEF CInv, Users
    <2>3. cache[d][b].data = memory[b]
      BY <1>2, <1>3, <2>1 DEF Coherent, StoredBy
    <2> QED BY <1>1, <1>2, <1>7, <2>1, <2>2, <2>3
  <1> QED BY <1>6, <1>8, <1>9, <1>10 DEF MessageStep

\* A message leaves blocks for those who look at them.
LEMMA MessageHeld ==
    ASSUME CInv, DInv, Coherent, Undisturbed, Held, NEW c \in Caches, MessageStep(c)
    PROVE  Held'
  <1>1. /\ UNCHANGED <<access, found, evicted, result>>
        /\ pc[c] \in SendingPlaces /\ pc'[c] \in SendingPlaces
        /\ \A e \in Caches \ {c} : pc'[e] = pc[e] \/ (pc[e] = "dbgWait" /\ pc'[e] = "lookup")
    BY MessageShape
  <1>2. \A e \in Caches : /\ pc'[e] \in AskingPlaces <=> pc[e] \in AskingPlaces
                          /\ \A x \in {"use", "evict", "idle", "dbgUse", "dbgStore"} : pc'[e] = x <=> pc[e] = x
                          /\ pc'[e] \in {"dbgWait", "lookup"} => pc[e] = "dbgWait" \/ pc'[e] = pc[e]
    BY <1>1 DEF AskingPlaces, PendingPlaces, SendingPlaces
  <1>3. /\ \A e \in Caches : HeldBy(e)
        /\ memory \in [Blocks -> Data] /\ DOMAIN result' = Caches
    BY <1>1 DEF Held
  <1>4. ASSUME UNCHANGED <<cache, block>>, memory' \in [Blocks -> Data] PROVE Held'
    <2>1. \A e, b : Has(e, b)' <=> Has(e, b)
      BY <1>4 DEF Has
    <2>2. ASSUME NEW e \in Caches PROVE HeldBy(e)'
      BY <1>1, <1>2, <1>3, <1>4, <2>1 DEF HeldBy
    <2> QED BY <1>3, <1>4, <2>2 DEF Held
  <1>5. ASSUME NEW h \in Caches, NEW b \in Blocks, Has(h, b),
               memory' = [memory EXCEPT ![b] = cache[h][b].data], UNCHANGED <<cache, block>>
        PROVE  Held'
    <2>1. cache[h][b].data \in Data
      BY <1>3, <1>5 DEF HeldBy, Copies
    <2> QED BY <1>3, <1>4, <1>5, <2>1
  <1>6. ASSUME NEW d \in Caches, NEW b \in Blocks, Has(d, b), pc[d] \notin UsingPlaces,
               cache' = [cache EXCEPT ![d][b] = NULL], UNCHANGED memory,
               block' = IF found[d] /\ access[d].b = b
                        THEN [block EXCEPT ![d] = cache[d][b].data] ELSE block
        PROVE  Held'
    <2>1. DOMAIN cache = Caches /\ DOMAIN cache[d] = Blocks /\ DOMAIN block = Caches
      BY DEF DInv, Frames, Coherent, Roles
    <2>2. /\ \A e \in Caches \ {d} : cache'[e] = cache[e] /\ block'[e] = block[e]
          /\ cache'[d][b] = NULL /\ \A y \in Blocks \ {b} : cache'[d][y] = cache[d][y]
          /\ IF found[d] /\ access[d].b = b THEN block'[d] = cache[d][b].data ELSE block'[d] = block[d]
      BY <1>6, <2>1
    <2>3. ASSUME NEW e \in Caches \ {d} PROVE HeldBy(e)'
      <3>1. \A y : Has(e, y)' <=> Has(e, y)
        BY <2>2 DEF Has
      <3> QED BY <1>1, <1>2, <1>3, <2>2, <3>1 DEF HeldBy
    <2>4. HeldBy(d)'
      <3>1. \A y \in Blocks : Has(d, y)' <=> y # b /\ Has(d, y)
        BY <2>2 DEF Has
      <3>2. \A y \in Blocks : Has(d, y)' => cache'[d][y] \in Copies
        BY <1>3, <2>2, <3>1 DEF HeldBy
      <3>3. pc'[d] # "use"
        BY <1>2, <1>6 DEF UsingPlaces
      <3>4. (found'[d] /\ ~Has(d, access[d].b)') \/ pc'[d] = "dbgUse" \/ (pc'[d] = "dbgStore" /\ ~found'[d])
               => block'[d] \in Data
        <4>1. cache[d][b].data \in Data
          BY <1>3, <1>6 DEF HeldBy, Copies
        <4>2. found[d] => access[d].b \in Blocks
          BY <1>3, CacheAssumption DEF HeldBy, AskingPlaces, PendingPlaces, SendingPlaces, DInv, Frames
        <4>3. HeldBy(d)
          BY <1>3
        <4>4. CASE found[d] /\ access[d].b = b
          BY <2>2, <4>1, <4>4
        <4>5. CASE ~(found[d] /\ access[d].b = b)
          <5>1. block'[d] = block[d]
            BY <2>2, <4>5
          <5>2. found[d] => (Has(d, access[d].b)' <=> Has(d, access[d].b))
            BY <1>1, <3>1, <4>2, <4>5 DEF Has
          <5> QED BY <1>1, <1>2, <4>3, <5>1, <5>2 DEF HeldBy
        <4> QED BY <4>4, <4>5
      <3> QED BY <1>1, <1>2, <1>3, <3>2, <3>3, <3>4 DEF HeldBy
    <2> QED BY <1>3, <1>6, <2>3, <2>4 DEF Held
  <1>7. \/ UNCHANGED <<memory, cache, block>>
        \/ \E h \in Caches, b \in Blocks :
              /\ Has(h, b) /\ memory' = [memory EXCEPT ![b] = cache[h][b].data]
              /\ UNCHANGED <<cache, block>>
        \/ \E d \in Caches, b \in Blocks :
              /\ Has(d, b) /\ pc[d] \notin UsingPlaces
              /\ cache' = [cache EXCEPT ![d][b] = NULL]
              /\ block' = IF found[d] /\ access[d].b = b
                          THEN [block EXCEPT ![d] = cache[d][b].data] ELSE block
              /\ UNCHANGED memory
    BY MessageShape
  <1> QED BY <1>3, <1>4, <1>5, <1>6, <1>7

\* What c does with its cache, but for the access itself: it waits or loads a block, puts it
\* into its cache, makes room for it, or stores what had to leave.
LEMMA FillShape ==
    ASSUME CInv, DInv, Coherent, WriteBackOnly, NEW c \in Caches,
           Enter(c) \/ Load(c) \/ Insert(c) \/ Evict(c) \/ StoreEvicted(c) \/ Release(c)
    PROVE  /\ UNCHANGED <<system, access, found, result>>
           /\ pc[c] \in {"enter"} \cup UsingPlaces
           /\ \A d \in Caches \ {c} :
                 /\ pc'[d] = pc[d] \/ (pc[d] = "awaitBus" /\ pc'[d] = "message")
                 /\ block'[d] = block[d]
           /\ access[c] \in Accesses /\ access[c].b \in Blocks
           /\ \/ /\ UNCHANGED <<memory, cache, evicted>> /\ pc[c] \in {"enter", "load", "release"}
                 /\ pc'[c] \in {"use", "load", "loaded", "done"}
                 /\ pc[c] = "release" <=> pc'[c] = "done"
                 /\ pc'[c] = "use" => Has(c, access[c].b)
              \/ \E dirty \in BOOLEAN :
                 /\ cache' = [cache EXCEPT ![c][access[c].b] =
                                 [data |-> memory[access[c].b], dirty |-> dirty]]
                 /\ pc[c] \in FilledPlaces \ {"evict"} /\ pc'[c] = "use"
                 /\ UNCHANGED <<memory, evicted>>
              \/ \E v \in Blocks :
                 /\ Has(c, v) /\ cache' = [cache EXCEPT ![c][v] = NULL]
                 /\ pc[c] = "loaded" /\ UNCHANGED memory
                 /\ \/ /\ pc'[c] = "evict"
                       /\ evicted' = [evicted EXCEPT ![c] = [b |-> v, data |-> cache[c][v].data]]
                    \/ pc'[c] = "insert" /\ UNCHANGED evicted /\ ~cache[c][v].dirty
              \/ /\ pc[c] = "evict" /\ pc'[c] = "insert" /\ UNCHANGED cache
                 /\ evicted' = [evicted EXCEPT ![c] = NULL]
                 /\ memory' = [memory EXCEPT ![evicted[c].b] = evicted[c].data]
  <1>1. /\ UNCHANGED <<system, access, found, result>>
        /\ pc[c] \in {"enter"} \cup UsingPlaces
    BY DEF Enter, Load, Insert, Evict, StoreEvicted, Release, At, locals, UsingPlaces
  <1>2. access[c] \in Accesses /\ access[c].b \in Blocks
    BY <1>1, CacheAssumption DEF DInv, Frames, UsingPlaces
  <1>3. system.policy[c] = "BACK" /\ DOMAIN pc = Caches /\ DOMAIN block = Caches
    BY DEF WriteBackOnly, Coherent, Roles, CInv, Shape
  <1>4. CASE Enter(c)
    <2>1. PICK x \in {"use", "load"} : pc' = [pc EXCEPT ![c] = x] /\ (x = "use" => Has(c, access[c].b))
      BY <1>3, <1>4 DEF Enter, Continue, Wait
    <2>2. pc[c] = "enter" /\ UNCHANGED <<memory, cache, evicted, block>>
      BY <1>4 DEF Enter, At, locals
    <2> QED BY <1>1, <1>2, <1>3, <2>1, <2>2
  <1>5. CASE Load(c)
    <2>1. /\ pc[c] = "load" /\ pc' = [pc EXCEPT ![c] = "loaded"]
          /\ UNCHANGED <<memory, cache, evicted>>
          /\ block' = [block EXCEPT ![c] = memory[access[c].b]]
      BY <1>5 DEF Load, At, Wait
    <2> QED BY <1>1, <1>2, <1>3, <2>1
  <1>6. CASE Release(c)
    <2>1. /\ pc[c] = "release" /\ UNCHANGED <<memory, cache, evicted, block>>
          /\ Notify(c, "done", { d \in Caches : pc[d] = "awaitBus" /\ Head(todo[d]) = c }, "message")
      BY <1>3, <1>6 DEF Release, At, locals
    <2>2. /\ pc'[c] = "done"
          /\ \A d \in Caches \ {c} : pc'[d] = pc[d] \/ (pc[d] = "awaitBus" /\ pc'[d] = "message")
      BY <2>1 DEF Notify
    <2> QED BY <1>1, <1>2, <2>1, <2>2
  <1>7. CASE Insert(c)
    <2>1. /\ pc[c] \in {"loaded", "insert"} /\ pc' = [pc EXCEPT ![c] = "use"]
          /\ UNCHANGED <<memory, evicted>> /\ block' = [block EXCEPT ![c] = NULL]
          /\ cache' = [cache EXCEPT ![c][access[c].b] =
                          [data |-> block[c], dirty |-> access[c].cmd = "write"]]
      BY <1>7 DEF Insert, At, Continue, storage
    <2>2. block[c] = memory[access[c].b]
      BY <2>1 DEF Coherent, LoadedBy, FilledPlaces
    <2>3. (access[c].cmd = "write") \in BOOLEAN
      OBVIOUS
    <2>4. \E dirty \in BOOLEAN :
              cache' = [cache EXCEPT ![c][access[c].b] =
                                 [data |-> memory[access[c].b], dirty |-> dirty]]
      BY <2>1, <2>2, <2>3, Zenon
    <2>5. pc[c] \in FilledPlaces \ {"evict"} /\ pc'[c] = "use"
      BY <1>3, <2>1 DEF FilledPlaces
    <2> QED BY <1>1, <1>2, <1>3, <2>1, <2>4, <2>5
  <1>8. CASE Evict(c)
    <2>1. pc[c] = "loaded" /\ UNCHANGED <<memory, block>>
      BY <1>8 DEF Evict, At
    <2>2. PICK v \in Neighbours(c, access[c].b) :
              /\ cache' = [cache EXCEPT ![c][v] = NULL]
              /\ \/ /\ evicted' = [evicted EXCEPT ![c] = [b |-> v, data |-> cache[c][v].data]]
                    /\ pc' = [pc EXCEPT ![c] = "evict"]
                 \/ /\ UNCHANGED evicted /\ ~cache[c][v].dirty
                    /\ pc' = [pc EXCEPT ![c] = "insert"]
      BY <1>3, <1>8 DEF Evict, Wait, WriteBack
    <2>3. v \in Blocks /\ Has(c, v)
      BY DEF Neighbours
    <2> QED BY <1>1, <1>2, <1>3, <2>1, <2>2, <2>3
  <1>9. CASE StoreEvicted(c)
    <2>1. /\ pc[c] = "evict" /\ pc' = [pc EXCEPT ![c] = "insert"]
          /\ memory' = [memory EXCEPT ![evicted[c].b] = evicted[c].data]
          /\ evicted' = [evicted EXCEPT ![c] = NULL] /\ UNCHANGED <<cache, block>>
      BY <1>9 DEF StoreEvicted, At, Wait
    <2> QED BY <1>1, <1>2, <1>3, <2>1
  <1> QED BY <1>4, <1>5, <1>6, <1>7, <1>8, <1>9

\* c has a block where it uses it, and one that is leaving where it stores it.
LEMMA FillHeld ==
    ASSUME CInv, DInv, Coherent, Held, WriteBackOnly, NEW c \in Caches,
           Enter(c) \/ Load(c) \/ Insert(c) \/ Evict(c) \/ StoreEvicted(c) \/ Release(c)
    PROVE  Held'
  <1>1. /\ UNCHANGED <<system, access, found, result>>
        /\ pc[c] \in {"enter"} \cup UsingPlaces
        /\ \A d \in Caches \ {c} :
              /\ pc'[d] = pc[d] \/ (pc[d] = "awaitBus" /\ pc'[d] = "message")
              /\ block'[d] = block[d]
        /\ access[c] \in Accesses /\ access[c].b \in Blocks
    BY FillShape
  <1>2. /\ HeldBy(c) /\ memory \in [Blocks -> Data] /\ DOMAIN result' = Caches
        /\ DOMAIN cache = Caches /\ DOMAIN cache[c] = Blocks /\ DOMAIN evicted = Caches
    BY <1>1 DEF Held, DInv, Frames
  <1>3. ~found[c] /\ access[c] # NULL /\ pc[c] \notin {"idle", "dbgWait", "lookup"}
    BY <1>1, <1>2, NullAssumption DEF HeldBy, AskingPlaces, PendingPlaces, SendingPlaces, UsingPlaces
  <1>4. ASSUME UNCHANGED <<memory, cache, evicted>>, pc[c] \in {"enter", "load", "release"},
               pc'[c] \in {"use", "load", "loaded", "done"},
               pc'[c] = "use" => Has(c, access[c].b)
        PROVE  Held'
    BY <1>1, <1>2, <1>3, <1>4, ControlHeld
  <1>5. ASSUME NEW dirty \in BOOLEAN,
               cache' = [cache EXCEPT ![c][access[c].b] =
                            [data |-> memory[access[c].b], dirty |-> dirty]],
               pc[c] \in FilledPlaces \ {"evict"}, pc'[c] = "use",
               UNCHANGED <<memory, evicted>>
        PROVE  Held'
    <2>1. /\ cache'[c][access[c].b] = [data |-> memory[access[c].b], dirty |-> dirty]
          /\ \A y \in Blocks \ {access[c].b} : cache'[c][y] = cache[c][y]
          /\ \A d \in Caches \ {c} : cache'[d] = cache[d]
      BY <1>1, <1>2, <1>5
    <2>2. cache'[c][access[c].b] \in Copies /\ cache'[c][access[c].b] # NULL
      BY <1>1, <1>2, <2>1, NullAssumption DEF Copies, Data
    <2>3. /\ \A y \in Blocks : Has(c, y)' => cache'[c][y] \in Copies
          /\ Has(c, access[c].b)'
      BY <1>1, <1>2, <2>1, <2>2 DEF HeldBy, Has
    <2>4. HeldBy(c)'
      BY <1>1, <1>2, <1>3, <1>5, <2>3 DEF HeldBy
    <2> QED BY <1>1, <1>2, <1>5, <2>1, <2>4, OthersHeld
  <1>6. ASSUME NEW v \in Blocks, Has(c, v), cache' = [cache EXCEPT ![c][v] = NULL],
               pc[c] = "loaded", UNCHANGED memory,
               \/ /\ pc'[c] = "evict"
                  /\ evicted' = [evicted EXCEPT ![c] = [b |-> v, data |-> cache[c][v].data]]
               \/ pc'[c] = "insert" /\ UNCHANGED evicted
        PROVE  Held'
    <2>1. /\ cache'[c][v] = NULL /\ \A y \in Blocks \ {v} : cache'[c][y] = cache[c][y]
          /\ \A d \in Caches \ {c} : cache'[d] = cache[d] /\ evicted'[d] = evicted[d]
          /\ pc'[c] = "evict" => evicted'[c] = [b |-> v, data |-> cache[c][v].data]
      BY <1>2, <1>6
    <2>2. cache[c][v].data \in Data
      BY <1>2, <1>6 DEF HeldBy, Copies
    <2>3. pc'[c] = "evict" => evicted'[c] # NULL /\ evicted'[c].data \in Data
      <3>1. [b |-> v, data |-> cache[c][v].data] \in [b : Blocks, data : [Words -> Values]]
        BY <2>2 DEF Data
      <3> QED BY <2>1, <2>2, <3>1, NullAssumption
    <2>4. evicted[c] = NULL
      BY <1>2, <1>6 DEF HeldBy
    <2>5. \A y \in Blocks : Has(c, y)' => cache'[c][y] \in Copies
      BY <1>2, <2>1 DEF HeldBy, Has
    <2>6. HeldBy(c)'
      BY <1>1, <1>2, <1>3, <1>6, <2>3, <2>4, <2>5 DEF HeldBy
    <2> QED BY <1>1, <1>2, <1>6, <2>1, <2>6, OthersHeld
  <1>7. ASSUME pc[c] = "evict", pc'[c] = "insert", UNCHANGED cache,
               evicted' = [evicted EXCEPT ![c] = NULL],
               memory' = [memory EXCEPT ![evicted[c].b] = evicted[c].data]
        PROVE  Held'
    <2>1. evicted'[c] = NULL /\ \A d \in Caches \ {c} : evicted'[d] = evicted[d]
      BY <1>2, <1>7
    <2>2. memory' \in [Blocks -> Data]
      BY <1>2, <1>7 DEF HeldBy
    <2>3. \A y : Has(c, y)' <=> Has(c, y)
      BY <1>7 DEF Has
    <2>4. HeldBy(c)'
      BY <1>1, <1>2, <1>3, <1>7, <2>1, <2>3 DEF HeldBy
    <2> QED BY <1>1, <1>2, <1>7, <2>1, <2>2, <2>4, OthersHeld
  <1> QED BY <1>4, <1>5, <1>6, <1>7, FillShape

\* The access reads its word of the block in the cache, or writes it.
LEMMA UseShape ==
    ASSUME CInv, DInv, Held, NEW c \in Caches, Use(c)
    PROVE  /\ access[c] \in Accesses /\ access[c].b \in Blocks /\ Has(c, access[c].b)
           /\ cache[c][access[c].b] \in Copies
           /\ pc[c] = "use" /\ pc'[c] = "release" /\ \A d \in Caches \ {c} : pc'[d] = pc[d]
           /\ UNCHANGED <<system, memory, block, evicted, access, found>>
           /\ \/ /\ access[c].cmd = "read" /\ UNCHANGED cache
                 /\ result' = [result EXCEPT ![c] = cache[c][access[c].b].data[access[c].w]]
              \/ /\ access[c].cmd = "write" /\ UNCHANGED result
                 /\ cache' = [cache EXCEPT ![c][access[c].b] =
                       [data |-> [cache[c][access[c].b].data EXCEPT ![access[c].w] = access[c].v],
                        dirty |-> TRUE]]
  <1>1. /\ pc[c] = "use" /\ pc' = [pc EXCEPT ![c] = "release"]
        /\ UNCHANGED <<system, memory, block, evicted, access, found>>
    BY DEF Use, At, Wait, storage
  <1>2. access[c] \in Accesses /\ access[c].b \in Blocks /\ access[c].cmd \in {"read", "write"}
    BY <1>1, CacheAssumption DEF DInv, Frames
  <1>3. Has(c, access[c].b) /\ cache[c][access[c].b] \in Copies
    BY <1>1, <1>2 DEF Held, HeldBy
  <1>4. pc'[c] = "release" /\ \A d \in Caches \ {c} : pc'[d] = pc[d]
    BY <1>1 DEF CInv, Shape
  <1>5. DOMAIN cache = Caches /\ DOMAIN cache[c] = Blocks
    BY DEF DInv, Frames
  <1>6. CASE access[c].cmd = "read"
    <2>1. /\ result' = [result EXCEPT ![c] = cache[c][access[c].b].data[access[c].w]]
          /\ UNCHANGED cache
      BY <1>6 DEF Use
    <2> QED BY <1>1, <1>2, <1>3, <1>4, <1>6, <2>1
  <1>7. CASE access[c].cmd = "write"
    <2>1. /\ cache' = [cache EXCEPT ![c][access[c].b] =
                       [data |-> [@.data EXCEPT ![access[c].w] = access[c].v], dirty |-> TRUE]]
          /\ UNCHANGED result
      BY <1>7 DEF Use
    <2>2. cache' = [cache EXCEPT ![c][access[c].b] =
                       [data |-> [cache[c][access[c].b].data EXCEPT ![access[c].w] = access[c].v],
                        dirty |-> TRUE]]
      BY <1>2, <1>5, <2>1
    <2> QED BY <1>1, <1>2, <1>3, <1>4, <1>7, <2>1, <2>2
  <1> QED BY <1>2, <1>6, <1>7

\* An access leaves the block where it used it.
LEMMA UseHeld ==
    ASSUME CInv, DInv, Held, NEW c \in Caches, Use(c)
    PROVE  Held'
  <1> DEFINE b == access[c].b
  <1>1. /\ access[c] \in Accesses /\ b \in Blocks /\ Has(c, b)
        /\ cache[c][b] \in Copies
        /\ pc[c] = "use" /\ pc'[c] = "release" /\ \A d \in Caches \ {c} : pc'[d] = pc[d]
        /\ UNCHANGED <<system, memory, block, evicted, access, found>>
    BY UseShape
  <1>2. /\ HeldBy(c) /\ memory \in [Blocks -> Data] /\ DOMAIN result = Caches
        /\ DOMAIN cache = Caches /\ DOMAIN cache[c] = Blocks
    BY DEF Held, DInv, Frames
  <1>3. ~found[c]
    BY <1>1, <1>2 DEF HeldBy, AskingPlaces, PendingPlaces, SendingPlaces
  <1>4. CASE UNCHANGED cache /\ DOMAIN result' = Caches
    BY <1>1, <1>2, <1>3, <1>4, ControlHeld
  <1>5. ASSUME access[c].cmd = "write", UNCHANGED result,
               cache' = [cache EXCEPT ![c][b] =
                   [data |-> [cache[c][b].data EXCEPT ![access[c].w] = access[c].v], dirty |-> TRUE]]
        PROVE  Held'
    <2> DEFINE new == [cache[c][b].data EXCEPT ![access[c].w] = access[c].v]
    <2>1. new \in Data
      <3>1. access[c].w \in Words /\ access[c].v \in Values
        BY <1>1, <1>5, CacheAssumption
      <3>2. cache[c][b].data \in [Words -> Values]
        BY <1>1 DEF Copies, Data
      <3> QED BY <3>1, <3>2 DEF Data
    <2> HIDE DEF new
    <2>2. /\ cache'[c][b] = [data |-> new, dirty |-> TRUE]
          /\ \A y \in Blocks \ {b} : cache'[c][y] = cache[c][y]
          /\ \A d \in Caches \ {c} : cache'[d] = cache[d]
      BY <1>1, <1>2, <1>5 DEF new
    <2>3. \A y \in Blocks : Has(c, y)' => cache'[c][y] \in Copies
      <3>1. cache'[c][b] \in Copies
        BY <2>1, <2>2 DEF Copies
      <3> QED BY <1>2, <2>2, <3>1 DEF HeldBy, Has
    <2>4. HeldBy(c)'
      BY <1>1, <1>2, <1>3, <2>3 DEF HeldBy
    <2> QED BY <1>1, <1>2, <1>5, <2>2, <2>4, OthersHeld
  <1>6. \/ UNCHANGED cache /\ DOMAIN result' = Caches
        \/ /\ access[c].cmd = "write" /\ UNCHANGED result
           /\ cache' = [cache EXCEPT ![c][b] =
                   [data |-> [cache[c][b].data EXCEPT ![access[c].w] = access[c].v], dirty |-> TRUE]]
    BY <1>2, UseShape
  <1> QED BY <1>4, <1>5, <1>6

\* A step of transport_dbg is seen by the others in its block only.
LEMMA DebugFrame ==
    ASSUME CInv, DInv, Coherent, NEW c \in Caches, DebugStep(c)
    PROVE  /\ access[c] \in Accesses /\ access[c].b \in Blocks /\ access[c].dbg
           /\ pc[c] \in {"dbg"} \cup PendingPlaces
           /\ (~found[c] => ~Has(c, access[c].b)) /\ (pc[c] \in {"dbgLoad", "dbgUse"} => ~found[c])
           /\ \A d \in Caches \ {c} : pc'[d] = pc[d] /\ found'[d] = found[d] /\ block'[d] = block[d]
           /\ UNCHANGED <<system, evicted, access>>
           /\ DOMAIN cache = Caches /\ DOMAIN cache[c] = Blocks /\ DOMAIN found = Caches
           /\ DOMAIN block = Caches /\ DOMAIN pc = Caches
  <1>1. /\ pc[c] \in {"dbg"} \cup PendingPlaces /\ UNCHANGED <<system, evicted, access>>
    BY DEF DebugStep, DebugAsk, DebugLoad, DebugBegins, DebugRead, DebugWrite, DebugStore, At,
           locals, PendingPlaces
  <1>2. /\ DOMAIN cache = Caches /\ DOMAIN cache[c] = Blocks /\ DOMAIN found = Caches
        /\ DOMAIN block = Caches /\ DOMAIN pc = Caches
    BY DEF CInv, Shape, DInv, Frames, Coherent, Roles
  <1>3. \A d \in Caches \ {c} : pc'[d] = pc[d] /\ found'[d] = found[d] /\ block'[d] = block[d]
    <2>1. \/ UNCHANGED found
          \/ found' = [found EXCEPT ![c] = FALSE]
      BY DEF DebugStep, DebugAsk, DebugLoad, DebugRead, DebugWrite, DebugStore, locals
    <2>2. \/ UNCHANGED block
          \/ \E data : block' = [block EXCEPT ![c] = data]
      BY DEF DebugStep, DebugAsk, DebugLoad, DebugRead, DebugWrite, DebugStore, locals
    <2>3. \E x : pc' = [pc EXCEPT ![c] = x]
      BY DEF DebugStep, DebugAsk, DebugLoad, DebugRead, DebugWrite, DebugStore, Continue, Wait
    <2> QED BY <1>2, <2>1, <2>2, <2>3
  <1>4. access[c] \in Accesses /\ access[c].b \in Blocks /\ access[c].dbg
    BY <1>1, CacheAssumption DEF DInv, Frames, Coherent, Roles, PendingPlaces
  <1>5. (~found[c] => ~Has(c, access[c].b)) /\ (pc[c] \in {"dbgLoad", "dbgUse"} => ~found[c])
    BY <1>1, <1>4 DEF Coherent, Roles, AskingPlaces, PendingPlaces
  <1> QED BY <1>1, <1>2, <1>3, <1>4, <1>5

\* What it works on is a block.
LEMMA DebugDataIs ==
    ASSUME CInv, DInv, Coherent, Held, NEW c \in Caches,
           \/ DebugBegins(c)
           \/ pc[c] = "dbgStore"
    PROVE  DebugData(c) \in Data
  <1>1. HeldBy(c)
    BY DEF Held
  <1>2. access[c].b \in Blocks
    BY CacheAssumption DEF DInv, Frames, DebugBegins, At
  <1>3. Has(c, access[c].b) => cache[c][access[c].b].data \in Data
    BY <1>1, <1>2 DEF HeldBy, Copies
  <1>4. ~(found[c] /\ Has(c, access[c].b)) => block[c] \in Data
    <2>1. pc[c] = "dbgStore" \/ pc[c] = "dbgUse" \/ (pc[c] = "dbg" /\ found[c])
      BY DEF DebugBegins, At
    <2> QED BY <1>1, <2>1 DEF HeldBy
  <1> QED BY <1>3, <1>4 DEF DebugData

\* A debug write changes the only copy there is, or a block of its own.
LEMMA DebugWrites ==
    ASSUME CInv, DInv, Coherent, Held, NEW c \in Caches, DebugWrite(c)
    PROVE  /\ access[c].cmd = "write" /\ pc'[c] = "dbgStore"
           /\ blockCachedIn[access[c].b] = <<c>> /\ Sole(access[c].b)
           /\ UNCHANGED <<memory, found, result>>
           /\ \E data \in Data :
              /\ data = [DebugData(c) EXCEPT ![access[c].w] = access[c].v]
              /\ \/ /\ ~(found[c] /\ Has(c, access[c].b)) /\ UNCHANGED cache
                    /\ block'[c] = data
                 \/ /\ found[c] /\ Has(c, access[c].b) /\ UNCHANGED block
                    /\ \E dirty \in BOOLEAN :
                          cache'[c][access[c].b] = [data |-> data, dirty |-> dirty]
                    /\ \A y \in Blocks \ {access[c].b} : cache'[c][y] = cache[c][y]
                    /\ \A d \in Caches \ {c} : cache'[d] = cache[d]
  <1> DEFINE b == access[c].b
  <1>1. /\ access[c] \in Accesses /\ b \in Blocks
        /\ DOMAIN cache = Caches /\ DOMAIN cache[c] = Blocks /\ DOMAIN pc = Caches
        /\ DOMAIN block = Caches
    BY DebugFrame DEF DebugStep
  <1>2. /\ access[c].cmd = "write" /\ pc' = [pc EXCEPT ![c] = "dbgStore"]
        /\ pc[c] \in {"dbg"} \cup PendingPlaces /\ UNCHANGED <<memory, found, result>>
    BY DEF DebugWrite, DebugBegins, At, Wait, PendingPlaces
  <1>3. blockCachedIn[b] = <<c>> /\ Sole(b)
    <2>1. Writing(c)
      BY <1>2 DEF Writing, Command
    <2> QED BY <2>1 DEF Coherent, Writers
  <1>4. PICK data : data = [DebugData(c) EXCEPT ![access[c].w] = access[c].v]
    OBVIOUS
  <1>5. data \in Data
    <2>1. DebugData(c) \in [Words -> Values]
      BY DebugDataIs DEF DebugWrite, Data
    <2>2. access[c].w \in Words /\ access[c].v \in Values
      BY <1>1, <1>2, CacheAssumption
    <2> QED BY <1>4, <2>1, <2>2 DEF Data
  <1>6. CASE ~(found[c] /\ Has(c, b))
    <2>1. UNCHANGED cache /\ block' = [block EXCEPT ![c] = data]
      BY <1>4, <1>6 DEF DebugWrite
    <2>2. block'[c] = data
      BY <1>1, <2>1
    <2> QED BY <1>1, <1>2, <1>3, <1>4, <1>5, <1>6, <2>1, <2>2
  <1>7. CASE found[c] /\ Has(c, b)
    <2>1. cache' = [cache EXCEPT ![c][b].data = data] /\ UNCHANGED block
      BY <1>4, <1>7 DEF DebugWrite
    <2>2. PICK old \in Data, dirty \in BOOLEAN : cache[c][b] = [data |-> old, dirty |-> dirty]
      <3>1. cache[c][b] \in Copies
        BY <1>1, <1>7 DEF Held, HeldBy
      <3> QED BY <3>1 DEF Copies
    <2>3. cache'[c][b] = [data |-> data, dirty |-> dirty]
      BY <1>1, <2>1, <2>2
    <2>4. /\ \A y \in Blocks \ {b} : cache'[c][y] = cache[c][y]
          /\ \A d \in Caches \ {c} : cache'[d] = cache[d]
      BY <1>1, <2>1
    <2> QED BY <1>1, <1>2, <1>3, <1>4, <1>5, <1>7, <2>1, <2>3, <2>4
  <1> QED BY <1>6, <1>7

\* A debug write stores its only copy, or the block of its own.
LEMMA DebugStores ==
    ASSUME CInv, DInv, Coherent, Held, NEW c \in Caches, DebugStore(c)
    PROVE  /\ access[c].cmd = "write" /\ pc[c] = "dbgStore" /\ pc'[c] = "done" /\ ~found'[c]
           /\ found'[c] \in BOOLEAN
           /\ blockCachedIn[access[c].b] = <<c>> /\ Sole(access[c].b)
           /\ UNCHANGED <<cache, result>> /\ DebugData(c) \in Data
           /\ memory' = [memory EXCEPT ![access[c].b] = DebugData(c)]
  <1>1. DOMAIN pc = Caches /\ DOMAIN found = Caches
    BY DebugFrame DEF DebugStep
  <1>2. /\ pc[c] = "dbgStore" /\ pc' = [pc EXCEPT ![c] = "done"]
        /\ found' = [found EXCEPT ![c] = FALSE]
        /\ UNCHANGED <<cache, result>>
        /\ memory' = [memory EXCEPT ![access[c].b] = DebugData(c)]
    BY DEF DebugStore, At, Wait
  <1>3. access[c].cmd = "write"
    BY <1>2 DEF Coherent, Roles, PendingPlaces
  <1>4. blockCachedIn[access[c].b] = <<c>> /\ Sole(access[c].b)
    <2>1. Writing(c)
      BY <1>2, <1>3 DEF Writing, PendingPlaces
    <2> QED BY <2>1 DEF Coherent, Writers
  <1>5. DebugData(c) \in Data
    BY <1>2, DebugDataIs
  <1> QED BY <1>1, <1>2, <1>3, <1>4, <1>5

\* A step of transport_dbg leaves blocks.
LEMMA DebugHeld ==
    ASSUME CInv, DInv, Coherent, Held, NEW c \in Caches, DebugStep(c)
    PROVE  Held'
  <1> DEFINE b == access[c].b
  <1>1. /\ access[c] \in Accesses /\ b \in Blocks /\ access[c].dbg
        /\ pc[c] \in {"dbg"} \cup PendingPlaces
        /\ \A d \in Caches \ {c} : pc'[d] = pc[d] /\ found'[d] = found[d] /\ block'[d] = block[d]
        /\ UNCHANGED <<system, evicted, access>>
        /\ DOMAIN block = Caches /\ DOMAIN pc = Caches /\ DOMAIN found = Caches
    BY DebugFrame
  <1>2. /\ HeldBy(c) /\ memory \in [Blocks -> Data] /\ DOMAIN result = Caches
        /\ found[c] \in BOOLEAN /\ pc[c] \notin {"idle", "evict", "use"}
    BY <1>1 DEF Held, HeldBy, PendingPlaces
  <1>3. ASSUME \A d \in Caches \ {c} : cache'[d] = cache[d], memory' \in [Blocks -> Data],
               \A y \in Blocks : Has(c, y)' => cache'[c][y] \in Copies, DOMAIN result' = Caches,
               NEW x \in PendingPlaces \cup {"done"}, pc'[c] = x,
               found'[c] \in BOOLEAN, found'[c] => x \in PendingPlaces,
               (found'[c] /\ ~Has(c, access[c].b)') \/ x = "dbgUse" \/ (x = "dbgStore" /\ ~found'[c])
                  => block'[c] \in Data
        PROVE  Held'
    <2>1. pc'[c] \notin {"idle", "evict", "use", "dbgWait", "lookup"}
      BY <1>3 DEF PendingPlaces
    <2>2. HeldBy(c)'
      BY <1>1, <1>2, <1>3, <2>1 DEF HeldBy, AskingPlaces
    <2> QED BY <1>1, <1>2, <1>3, <2>2, OthersHeld
  <1>4. ASSUME UNCHANGED cache
        PROVE  /\ \A d \in Caches \ {c} : cache'[d] = cache[d]
               /\ \A y \in Blocks : Has(c, y)' => cache'[c][y] \in Copies
               /\ Has(c, access[c].b)' <=> Has(c, access[c].b)
    BY <1>1, <1>2, <1>4 DEF HeldBy, Has
  <1>5. CASE DebugAsk(c)
    <2>1. /\ ~found[c] /\ pc' = [pc EXCEPT ![c] = "dbgLoad"]
          /\ UNCHANGED <<memory, cache, found, block, result>>
      BY <1>5 DEF DebugAsk, Wait, locals
    <2>2. pc'[c] = "dbgLoad"
      BY <1>1, <2>1
    <2> QED BY <1>2, <1>3, <1>4, <2>1, <2>2 DEF PendingPlaces
  <1>6. CASE DebugLoad(c)
    <2>1. /\ pc' = [pc EXCEPT ![c] = "dbgUse"] /\ block' = [block EXCEPT ![c] = memory[b]]
          /\ UNCHANGED <<memory, cache, found, result>>
      BY <1>6 DEF DebugLoad, Wait, Continue
    <2>2. pc'[c] = "dbgUse" /\ block'[c] = memory[b] /\ memory[b] \in Data
      BY <1>1, <1>2, <2>1
    <2> QED BY <1>2, <1>3, <1>4, <2>1, <2>2 DEF PendingPlaces
  <1>7. CASE DebugRead(c)
    <2>1. /\ pc' = [pc EXCEPT ![c] = "done"] /\ found' = [found EXCEPT ![c] = FALSE]
          /\ UNCHANGED <<memory, cache>>
          /\ result' = [result EXCEPT ![c] = DebugData(c)[access[c].w]]
      BY <1>7 DEF DebugRead, Wait, storage
    <2>2. pc'[c] = "done" /\ ~found'[c] /\ found'[c] \in BOOLEAN /\ DOMAIN result' = Caches
      BY <1>1, <1>2, <2>1
    <2> QED BY <1>2, <1>3, <1>4, <2>1, <2>2
  <1>8. CASE DebugWrite(c)
    <2>1. pc'[c] = "dbgStore" /\ UNCHANGED <<memory, found, result>>
      BY <1>8, DebugWrites
    <2>2. PICK data \in Data :
            \/ /\ ~(found[c] /\ Has(c, b)) /\ UNCHANGED cache
               /\ block'[c] = data
            \/ /\ found[c] /\ Has(c, b)
               /\ \E dirty \in BOOLEAN : cache'[c][b] = [data |-> data, dirty |-> dirty]
               /\ \A y \in Blocks \ {b} : cache'[c][y] = cache[c][y]
               /\ \A d \in Caches \ {c} : cache'[d] = cache[d]
      BY <1>8, DebugWrites
    <2>3. CASE ~(found[c] /\ Has(c, b)) /\ UNCHANGED cache /\ block'[c] = data
      BY <1>2, <1>3, <1>4, <2>1, <2>3 DEF PendingPlaces
    <2>4. ASSUME found[c], NEW dirty \in BOOLEAN,
                 cache'[c][b] = [data |-> data, dirty |-> dirty],
                 \A y \in Blocks \ {b} : cache'[c][y] = cache[c][y],
                 \A d \in Caches \ {c} : cache'[d] = cache[d]
          PROVE  Held'
      <3>1. cache'[c][b] \in Copies
        BY <2>4 DEF Copies
      <3>2. \A y \in Blocks : Has(c, y)' => cache'[c][y] \in Copies
        BY <1>2, <2>4, <3>1 DEF HeldBy, Has
      <3>3. Has(c, access[c].b)'
        BY <1>1, <3>1, NullAssumption DEF Has, Copies, Data
      <3> QED BY <1>2, <1>3, <2>1, <2>4, <3>2, <3>3 DEF PendingPlaces
    <2> QED BY <2>2, <2>3, <2>4
  <1>9. CASE DebugStore(c)
    <2>1. /\ pc'[c] = "done" /\ ~found'[c] /\ found'[c] \in BOOLEAN
          /\ UNCHANGED <<cache, result>> /\ DebugData(c) \in Data
          /\ memory' = [memory EXCEPT ![b] = DebugData(c)]
      BY <1>9, DebugStores
    <2>2. memory' \in [Blocks -> Data]
      BY <1>2, <2>1
    <2> QED BY <1>2, <1>3, <1>4, <2>1, <2>2
  <1> QED BY <1>5, <1>6, <1>7, <1>8, <1>9 DEF DebugStep

\* An access that returns is none.
LEMMA ReturnHeld ==
    ASSUME CInv, DInv, Coherent, Held, NEW c \in Caches, Return(c)
    PROVE  Held'
  <1>1. /\ pc[c] = "done" /\ pc' = [pc EXCEPT ![c] = "idle"]
        /\ access' = [access EXCEPT ![c] = NULL] /\ result' = [result EXCEPT ![c] = NULL]
        /\ UNCHANGED <<memory, cache, found, block, evicted>>
    BY DEF Return, At, Wait, storage
  <1>2. /\ HeldBy(c) /\ memory \in [Blocks -> Data] /\ DOMAIN result = Caches
        /\ DOMAIN access = Caches /\ DOMAIN pc = Caches
    BY DEF Held, DInv, Frames, CInv, Shape
  <1>3. /\ pc'[c] = "idle" /\ access'[c] = NULL /\ DOMAIN result' = Caches
        /\ \A d \in Caches \ {c} : pc'[d] = pc[d] /\ access'[d] = access[d]
    BY <1>1, <1>2
  <1>4. ~found[c]
    BY <1>1, <1>2 DEF HeldBy, AskingPlaces, PendingPlaces, SendingPlaces
  <1>5. HeldBy(c)'
    <2>1. \A y : Has(c, y)' <=> Has(c, y)
      BY <1>1 DEF Has
    <2> QED BY <1>1, <1>2, <1>3, <1>4, <2>1 DEF HeldBy
  <1> QED BY <1>1, <1>2, <1>3, <1>5, OthersHeld

\* Every step keeps what the accesses hold.
LEMMA HeldStep ==
    ASSUME CInv, DInv, Coherent, Undisturbed, Held, WriteBackOnly, [Next]_vars
    PROVE  Held'
  <1>1. CASE UNCHANGED vars
    <2>1. UNCHANGED <<memory, cache, pc, access, found, block, evicted, result>>
      BY <1>1 DEF vars, storage, control, locals
    <2>2. ASSUME NEW c \in Caches PROVE HeldBy(c)'
      <3>1. HeldBy(c)
        BY DEF Held
      <3> QED BY <2>1, <3>1 DEF HeldBy, Has
    <2> QED BY <2>1, <2>2 DEF Held
  <1>2. ASSUME NEW c \in Caches, Step(c) \/ \E a \in Accesses : Call(c, a) PROVE Held'
    <2>1. ~Through(c)
      BY DEF Through, At, Coherent, Roles
    <2> QED BY <1>2, <2>1, RequestHeld, MessageHeld, FillHeld, UseHeld, DebugHeld, ReturnHeld
            DEF Step, AccessStep
  <1> QED BY <1>1, <1>2 DEF Next

\* Nothing is held at first.
LEMMA InitHeld == Init => Held
  <1> SUFFICES ASSUME Init PROVE Held
    OBVIOUS
  <1>1. memory \in [Blocks -> Data] /\ DOMAIN result = Caches
    BY CacheAssumption DEF Init, Data
  <1>2. ASSUME NEW c \in Caches PROVE HeldBy(c)
    BY DEF Init, HeldBy, Has
  <1> QED BY <1>1, <1>2 DEF Held

-----------------------------------------------------------------------------

\* What waits for the interconnect, and a block that is being evicted.
Transfers == [thread : Caches, tag : Caches]
Evictions == [b : Blocks, data : Data]

\* TypeOK, but for the size of the caches and what CInv and DInv say already.
Typed ==
    /\ busy \in BOOLEAN /\ system \in Systems
    /\ memory \in [Blocks -> Data]
    /\ bus \in Seq(Transfers)
    /\ cache \in [Caches -> [Blocks -> Copies \cup {NULL}]]
    /\ busyBus \in [Caches -> BOOLEAN] /\ busyDir \in [Caches -> BOOLEAN]
    /\ pc \in [Caches -> Places]
    /\ access \in [Caches -> Accesses \cup {NULL}] /\ found \in [Caches -> BOOLEAN]
    /\ block \in [Caches -> Data \cup {NULL}]
    /\ evicted \in [Caches -> Evictions \cup {NULL}]
    /\ result \in [Caches -> Values \cup {NULL}]

\* What is there where it is used, whatever the policies.
PlacedBy(c) ==
    /\ pc[c] = "use" => Has(c, access[c].b)
    /\ pc[c] \in FilledPlaces => block[c] \in Data
    /\ pc[c] = "evict" => evicted[c] # NULL
    /\ pc[c] = "store" => Has(Head(todo[c]), access[c].b)
    /\ pc[c] = "through" => access[c].cmd = "write"
    /\ pc[c] \in {"dbgWait", "lookup"} => access[c].dbg
    /\ found[c] => access[c].dbg /\ pc[c] \in AskingPlaces
    /\ pc[c] = "dbgUse" \/ (pc[c] = "dbgStore" /\ ~found[c]) \/ (found[c] /\ ~Has(c, access[c].b))
          => block[c] \in Data
Placed == \A c \in Caches : PlacedBy(c)

\* No tag has too many blocks, and one less while a block is to be inserted.
RoomIn(c) ==
    /\ \A b \in Blocks : IsFiniteSet(Neighbours(c, b)) /\ Cardinality(Neighbours(c, b)) <= Ways
    /\ pc[c] \in {"evict", "insert"} => Cardinality(Neighbours(c, access[c].b)) < Ways
Room == \A c \in Caches : RoomIn(c)

\* The messages go to caches, and the access of a thread that is not idle is one.
LEMMA Recipient ==
    ASSUME DInv, NEW c \in Caches, todo[c] # <<>>
    PROVE  Head(todo[c]) \in Caches /\ Tail(todo[c]) \in Seq(Caches)
  BY HeadTailProperties DEF DInv, Frames

\* The access of a thread that is not idle is one of those there may be.
LEMMA Accessing ==
    ASSUME DInv, NEW c \in Caches, pc[c] # "idle"
    PROVE  /\ access[c] \in Accesses /\ access[c].b \in Blocks /\ access[c].w \in Words
           /\ access[c].cmd = "write" => access[c].v \in Values
           /\ access[c].cmd \in {"read", "write"}
  BY CacheAssumption DEF DInv, Frames

\* The queue of the bus has transfers only.
LEMMA BusTyped ==
    ASSUME bus \in Seq(Transfers), NEW c \in Caches,
           \/ UNCHANGED bus
           \/ \E d \in Caches : Request(c, d)
           \/ Served(c)
    PROVE  bus' \in Seq(Transfers)
  <1>1. ASSUME NEW d \in Caches, Request(c, d) PROVE bus' \in Seq(Transfers)
    <2>1. [thread |-> c, tag |-> d] \in Transfers
      BY DEF Transfers
    <2> QED BY <1>1, <2>1 DEF Request
  <1>2. CASE Served(c)
    <2>1. CASE ~system.ordered
      BY <1>2, <2>1 DEF Served
    <2>2. CASE system.ordered
      <3>1. PICK rest : rest = Tail(bus)
        OBVIOUS
      <3>2. rest \in Seq(Transfers)
        BY <1>2, <2>2, <3>1, HeadTailProperties DEF Served
      <3>3. \/ bus' = rest
            \/ \E order \in [DOMAIN rest -> DOMAIN rest] : bus' = [i \in DOMAIN rest |-> rest[order[i]]]
        <4>1. \/ bus' = Tail(bus)
              \/ \E order \in [DOMAIN Tail(bus) -> DOMAIN Tail(bus)] :
                    bus' = [i \in DOMAIN Tail(bus) |-> Tail(bus)[order[i]]]
          BY <1>2, <2>2, Zenon DEF Served
        <4> QED BY <3>1, <4>1
      <3>4. ASSUME NEW order \in [DOMAIN rest -> DOMAIN rest],
                   bus' = [i \in DOMAIN rest |-> rest[order[i]]]
            PROVE  bus' \in Seq(Transfers)
        <4>1. DOMAIN rest = 1 .. Len(rest) /\ Len(rest) \in Nat
          BY <3>2, LenProperties
        <4>2. \A i \in 1 .. Len(rest) : rest[order[i]] \in Transfers
          BY <3>2, <4>1, ElementOfSeq
        <4>3. bus' \in [1 .. Len(rest) -> Transfers]
          BY <3>4, <4>1, <4>2
        <4> QED BY <4>1, <4>3
      <3> QED BY <3>2, <3>3, <3>4
    <2> QED BY <2>1, <2>2
  <1> QED BY <1>1, <1>2

\* Every word that is written into the contents of a block makes the contents of one.
LEMMA WordWritten ==
    ASSUME NEW data \in Data, NEW w \in Words, NEW v \in Values
    PROVE  [data EXCEPT ![w] = v] \in Data
  BY DEF Data

\* What a debug access uses is the contents of a block.
LEMMA DebugTyped ==
    ASSUME DInv, Typed, Placed, NEW c \in Caches,
           \/ DebugBegins(c)
           \/ pc[c] = "dbgStore"
    PROVE  DebugData(c) \in Data
  <1>1. access[c].b \in Blocks
    BY Accessing DEF DebugBegins, At
  <1>2. Has(c, access[c].b) => cache[c][access[c].b].data \in Data
    BY <1>1 DEF Typed, Has, Copies
  <1>3. /\ found[c] /\ ~Has(c, access[c].b) => block[c] \in Data
        /\ pc[c] = "dbgUse" => block[c] \in Data
        /\ pc[c] = "dbgStore" /\ ~found[c] => block[c] \in Data
    BY DEF Placed, PlacedBy
  <1>4. pc[c] = "dbgStore" \/ pc[c] = "dbgUse" \/ found[c]
    BY DEF DebugBegins, At
  <1> QED BY <1>2, <1>3, <1>4 DEF DebugData

\* A step of transport_dbg changes its block at most, here or there.
LEMMA DebugChanges ==
    ASSUME DInv, Typed, Placed, NEW c \in Caches, DebugStep(c)
    PROVE  /\ pc[c] # "idle" /\ UNCHANGED <<system, busy, busyBus, busyDir, access, todo, evicted>>
           /\ access[c].b \in Blocks
           /\ UNCHANGED found \/ found' = [found EXCEPT ![c] = FALSE]
           /\ \/ UNCHANGED memory
              \/ \E data \in Data : memory' = [memory EXCEPT ![access[c].b] = data]
           /\ UNCHANGED block \/ \E data \in Data \cup {NULL} : block' = [block EXCEPT ![c] = data]
           /\ UNCHANGED result \/ \E v \in Values : result' = [result EXCEPT ![c] = v]
           /\ \/ UNCHANGED cache
              \/ /\ Has(c, access[c].b)
                 /\ \E copy \in Copies : cache' = [cache EXCEPT ![c][access[c].b] = copy]
           /\ \E x \in Places : pc' = [pc EXCEPT ![c] = x]
           /\ UNCHANGED bus \/ Request(c, c) \/ Served(c)
  <1> DEFINE b == access[c].b
  <1>1. pc[c] \in {"dbg"} \cup PendingPlaces
    BY DEF DebugStep, DebugAsk, DebugLoad, DebugBegins, DebugRead, DebugWrite, DebugStore, At,
           PendingPlaces
  <1>2. /\ b \in Blocks /\ access[c].w \in Words /\ (access[c].cmd = "write" => access[c].v \in Values)
        /\ access[c].cmd \in {"read", "write"} /\ pc[c] # "idle"
    BY <1>1, Accessing DEF PendingPlaces
  <1>3. /\ memory \in [Blocks -> Data] /\ cache \in [Caches -> [Blocks -> Copies \cup {NULL}]]
    BY DEF Typed
  <1>4. CASE DebugAsk(c)
    BY <1>2, <1>4 DEF DebugAsk, Wait, Places, locals, directory
  <1>5. CASE DebugLoad(c)
    <2>1. memory[b] \in Data
      BY <1>2, <1>3
    <2>2. \E x \in Places : pc' = [pc EXCEPT ![c] = x]
      BY <1>5 DEF DebugLoad, Wait, Continue, Places
    <2> QED BY <1>2, <1>5, <2>1, <2>2 DEF DebugLoad, directory
  <1>6. CASE DebugRead(c)
    <2>1. DebugData(c) \in Data
      BY <1>6, DebugTyped DEF DebugRead
    <2>2. DebugData(c)[access[c].w] \in Values
      BY <1>2, <2>1 DEF Data
    <2> QED BY <1>2, <1>6, <2>2 DEF DebugRead, Wait, Places, directory, storage
  <1>7. CASE DebugWrite(c)
    <2>1. PICK data : /\ data = [DebugData(c) EXCEPT ![access[c].w] = access[c].v]
                      /\ IF found[c] /\ Has(c, b)
                         THEN cache' = [cache EXCEPT ![c][b].data = data] /\ UNCHANGED block
                         ELSE block' = [block EXCEPT ![c] = data] /\ UNCHANGED cache
      BY <1>7 DEF DebugWrite
    <2>2. data \in Data
      <3>1. DebugData(c) \in Data /\ access[c].cmd = "write"
        BY <1>7, DebugTyped DEF DebugWrite
      <3> QED BY <1>2, <2>1, <3>1, WordWritten
    <2>3. CASE found[c] /\ Has(c, b)
      <3>1. cache[c][b] \in Copies
        BY <1>2, <1>3, <2>3 DEF Has
      <3>2. [cache[c][b] EXCEPT !.data = data] \in Copies
        BY <2>2, <3>1 DEF Copies
      <3>3. cache' = [cache EXCEPT ![c][b] = [cache[c][b] EXCEPT !.data = data]]
        BY <1>2, <1>3, <2>1, <2>3
      <3>4. \E copy \in Copies : cache' = [cache EXCEPT ![c][b] = copy]
        BY <3>2, <3>3
      <3> QED BY <1>2, <1>7, <2>1, <2>3, <3>4 DEF DebugWrite, Wait, Places, directory
    <2>4. CASE ~(found[c] /\ Has(c, b))
      <3>1. UNCHANGED cache /\ \E x \in Data \cup {NULL} : block' = [block EXCEPT ![c] = x]
        BY <2>1, <2>2, <2>4
      <3> QED BY <1>2, <1>7, <3>1 DEF DebugWrite, Wait, Places, directory
    <2> QED BY <2>3, <2>4
  <1>8. CASE DebugStore(c)
    <2>1. DebugData(c) \in Data
      BY <1>8, DebugTyped DEF DebugStore, At
    <2> QED BY <1>2, <1>8, <2>1 DEF DebugStore, Wait, Places, directory
  <1> QED BY <1>4, <1>5, <1>6, <1>7, <1>8 DEF DebugStep

\* Which steps change what.
LEMMA PlacesTyped ==
    ASSUME DInv, Typed, Placed, NEW c \in Caches, Step(c) \/ \E a \in Accesses : Call(c, a)
    PROVE  pc' \in [Caches -> Places]
  <1>1. pc \in [Caches -> Places]
    BY DEF Typed
  <1>2. ASSUME NEW x \in Places, pc' = [pc EXCEPT ![c] = x] PROVE pc' \in [Caches -> Places]
    BY <1>1, <1>2
  <1>3. ASSUME NEW x \in Places, NEW y \in Places, NEW others, Notify(c, x, others, y)
        PROVE  pc' \in [Caches -> Places]
    BY <1>1, <1>3 DEF Notify
  <1>4. CASE (\E a \in Accesses : Call(c, a)) \/ Lookup(c) \/ Lock(c) \/ Serve(c)
    <2>1. \E x \in Places : pc' = [pc EXCEPT ![c] = x]
      BY <1>4 DEF Call, Lookup, Lock, Serve, Continue, Wait, Places
    <2> QED BY <1>2, <2>1
  <1>5. CASE Grant(c)
    <2>1. \E x \in Places : Notify(c, x, Awakened, "serve")
      BY <1>5 DEF Grant, Places
    <2> QED BY <1>3, <2>1 DEF Places
  <1>6. ASSUME NEW d, Replied(c, d) PROVE pc' \in [Caches -> Places]
    BY <1>3, <1>6 DEF Replied, Places
  <1>7. CASE MessageStep(c)
    <2>1. CASE (SendWaiting(c) \/ Store(c)) \/ (Deliver(c) /\ MustStore(c, Head(todo[c])))
      <3>1. \E x \in Places : pc' = [pc EXCEPT ![c] = x]
        BY <2>1 DEF SendWaiting, Store, Deliver, Wait, Places
      <3> QED BY <1>2, <3>1
    <2>2. CASE Stored(c) \/ (Deliver(c) /\ ~MustStore(c, Head(todo[c])))
      BY <1>6, <2>2 DEF Stored, Deliver
    <2> QED BY <1>7, <2>1, <2>2 DEF MessageStep
  <1>8. CASE Enter(c) \/ Load(c) \/ Insert(c) \/ Evict(c) \/ StoreEvicted(c) \/ Use(c) \/ Through(c)
               \/ DebugStep(c) \/ Return(c)
    <2>1. \E x \in Places : pc' = [pc EXCEPT ![c] = x]
      BY <1>8, DebugChanges DEF Enter, Load, Insert, Evict, StoreEvicted, Use, Through, Return,
                  Continue, Wait, Places
    <2> QED BY <1>2, <2>1
  <1>9. CASE Release(c)
    <2>1. \E x \in Places :
             Notify(c, x, { d \in Caches : pc[d] = "awaitBus" /\ Head(todo[d]) = c }, "message")
      BY <1>9 DEF Release, Places
    <2> QED BY <1>3, <2>1 DEF Places
  <1> QED BY <1>4, <1>5, <1>7, <1>8, <1>9 DEF Step, RequestStep, AccessStep

\* Flags, the queue of the bus and the fields of the access itself.
LEMMA ControlTyped ==
    ASSUME CInv, DInv, Typed, Placed, NEW c \in Caches, Step(c) \/ \E a \in Accesses : Call(c, a)
    PROVE  /\ busy' \in BOOLEAN /\ system' \in Systems /\ bus' \in Seq(Transfers)
           /\ busyBus' \in [Caches -> BOOLEAN] /\ busyDir' \in [Caches -> BOOLEAN]
           /\ access' \in [Caches -> Accesses \cup {NULL}] /\ found' \in [Caches -> BOOLEAN]
  <1>0. DebugStep(c) =>
           /\ UNCHANGED <<system, busy, busyBus, busyDir, access, todo, evicted>>
           /\ UNCHANGED found \/ found' = [found EXCEPT ![c] = FALSE]
           /\ UNCHANGED block \/ \E data : block' = [block EXCEPT ![c] = data]
           /\ UNCHANGED bus \/ Request(c, c) \/ Served(c)
           /\ \E x : pc' = [pc EXCEPT ![c] = x]
    BY DebugChanges
  <1>1. system' = system
    BY <1>0 DEF Step, RequestStep, MessageStep, AccessStep, Call, Lookup, Lock, Serve, Grant,
           SendWaiting, Deliver, Store, Stored, Enter, Load, Insert, Evict, StoreEvicted, Use,
           Release, Through, Return
  <1>2. busy' \in BOOLEAN
    <2>1. UNCHANGED busy \/ busy' = TRUE \/ busy' = (Awakened # {})
      BY <1>0 DEF Step, RequestStep, MessageStep, AccessStep, Call, Lookup, Lock, Serve, Grant,
             SendWaiting, Deliver, Store, Stored, Enter, Load, Insert, Evict, StoreEvicted, Use,
             Release, Through, Return, directory, Locked, Queued, Unlocked
    <2>2. (Awakened # {}) \in BOOLEAN
      OBVIOUS
    <2> QED BY <2>1, <2>2 DEF Typed
  <1>3. busyBus' \in [Caches -> BOOLEAN]
    <2>1. UNCHANGED busyBus \/ \E x \in BOOLEAN : busyBus' = [busyBus EXCEPT ![c] = x]
      BY <1>0 DEF Step, RequestStep, MessageStep, AccessStep, Call, Lookup, Lock, Serve, Grant,
             SendWaiting, Deliver, Store, Stored, Enter, Load, Insert, Evict, StoreEvicted, Use,
             Release, Through, Return
    <2> QED BY <2>1 DEF Typed
  <1>4. busyDir' \in [Caches -> BOOLEAN]
    <2>1. \/ UNCHANGED busyDir
          \/ \E x \in BOOLEAN : \E d : busyDir' = [busyDir EXCEPT ![d] = x]
      BY <1>0 DEF Step, RequestStep, MessageStep, AccessStep, Call, Lookup, Lock, Serve, Grant,
             SendWaiting, Deliver, Store, Stored, Enter, Load, Insert, Evict, StoreEvicted, Use,
             Release, Through, Return, Replied
    <2> QED BY <2>1 DEF Typed
  <1>5. access' \in [Caches -> Accesses \cup {NULL}]
    <2>1. UNCHANGED access \/ \E a \in Accesses \cup {NULL} : access' = [access EXCEPT ![c] = a]
      BY <1>0 DEF Step, RequestStep, MessageStep, AccessStep, Call, Lookup, Lock, Serve, Grant,
             SendWaiting, Deliver, Store, Stored, Enter, Load, Insert, Evict, StoreEvicted, Use,
             Release, Through, Return, locals
    <2> QED BY <2>1 DEF Typed
  <1>6. found' \in [Caches -> BOOLEAN]
    <2>1. \/ UNCHANGED found \/ found' = [found EXCEPT ![c] = FALSE]
          \/ \E b : found' = [found EXCEPT ![c] = Has(c, b)]
      BY <1>0 DEF Step, RequestStep, MessageStep, AccessStep, Call, Lookup, Lock, Serve, Grant,
             SendWaiting, Deliver, Store, Stored, Enter, Load, Insert, Evict, StoreEvicted, Use,
             Release, Through, Return, locals, Sought
    <2>2. \A b : Has(c, b) \in BOOLEAN
      BY DEF Has
    <2> QED BY <2>1, <2>2 DEF Typed
  <1>7. bus' \in Seq(Transfers)
    <2>1. CASE Deliver(c)
      <3>1. todo[c] # <<>>
        BY <2>1 DEF Deliver, At, DInv, Occupied
      <3> QED BY <2>1, <3>1, Recipient, BusTyped DEF Deliver, Typed
    <2>2. CASE Store(c) \/ Load(c) \/ StoreEvicted(c) \/ Through(c)
      BY <2>2, BusTyped DEF Store, Load, StoreEvicted, Through, Typed
    <2>3. CASE Enter(c) \/ Evict(c) \/ Release(c)
      <3>1. UNCHANGED bus \/ Request(c, c)
        BY <2>3 DEF Enter, Evict, Release
      <3> QED BY <3>1, BusTyped DEF Typed
    <2>4. CASE DebugStep(c)
      BY <1>0, <2>4, BusTyped DEF Typed
    <2>5. CASE ~(Deliver(c) \/ Store(c) \/ Load(c) \/ StoreEvicted(c) \/ Through(c)
                 \/ Enter(c) \/ Evict(c) \/ Release(c) \/ DebugStep(c))
      <3>1. UNCHANGED bus
        BY <2>5 DEF Step, RequestStep, MessageStep, AccessStep, Call, Lookup, Lock, Serve, Grant,
             SendWaiting, Stored, Insert, Use, Return, storage
      <3> QED BY <3>1 DEF Typed
    <2> QED BY <2>1, <2>2, <2>3, <2>4, <2>5
  <1> QED BY <1>1, <1>2, <1>3, <1>4, <1>5, <1>6, <1>7 DEF Typed

\* What an answer does to the cache that gives it.
LEMMA AnswerShape ==
    ASSUME DInv, Typed, NEW c \in Caches, pc[c] # "idle", todo[c] # <<>>, Replied(c, Head(todo[c]))
    PROVE  /\ pc'[c] = "send" /\ todo' = [todo EXCEPT ![c] = Tail(@)]
           /\ \A e \in Caches \ {c} : pc'[e] = pc[e] \/ (pc[e] = "dbgWait" /\ pc'[e] = "lookup")
           /\ \/ UNCHANGED <<cache, block>>
              \/ \E d \in Caches, b \in Blocks :
                    /\ d = Head(todo[c]) /\ b = access[c].b
                    /\ Has(d, b) /\ cache' = [cache EXCEPT ![d][b] = NULL]
                    /\ cache[d][b].data \in Data
                    /\ block' = IF found[d] /\ access[d].b = b
                                THEN [block EXCEPT ![d] = cache[d][b].data] ELSE block
  <1> DEFINE d == Head(todo[c])
             b == access[c].b
  <1>1. d \in Caches /\ b \in Blocks
    BY Recipient, Accessing
  <1>2. /\ pc'[c] = "send" /\ todo' = [todo EXCEPT ![c] = Tail(@)]
        /\ \A e \in Caches \ {c} : pc'[e] = pc[e] \/ (pc[e] = "dbgWait" /\ pc'[e] = "lookup")
    BY DEF Replied, Notify, AwaitDir
  <1>3. Has(d, b) => cache[d][b].data \in Data
    BY <1>1 DEF Typed, Has, Copies
  <1>4. \/ UNCHANGED <<cache, block>>
        \/ /\ Has(d, b) /\ cache' = [cache EXCEPT ![d][b] = NULL]
           /\ block' = IF found[d] /\ access[d].b = b
                       THEN [block EXCEPT ![d] = cache[d][b].data] ELSE block
    BY DEF Replied, Answered
  <1> QED BY <1>1, <1>2, <1>3, <1>4

\* The contents of the memory, of the caches and of what is on its way between them.
LEMMA StoresTyped ==
    ASSUME CInv, DInv, Typed, Placed, NEW c \in Caches, Step(c) \/ \E a \in Accesses : Call(c, a)
    PROVE  /\ memory' \in [Blocks -> Data]
           /\ cache' \in [Caches -> [Blocks -> Copies \cup {NULL}]]
           /\ block' \in [Caches -> Data \cup {NULL}]
           /\ evicted' \in [Caches -> Evictions \cup {NULL}]
           /\ result' \in [Caches -> Values \cup {NULL}]
  <1> DEFINE a == access[c]
             b == a.b
  <1>1. /\ memory \in [Blocks -> Data]
        /\ cache \in [Caches -> [Blocks -> Copies \cup {NULL}]]
        /\ block \in [Caches -> Data \cup {NULL}]
        /\ evicted \in [Caches -> Evictions \cup {NULL}]
        /\ result \in [Caches -> Values \cup {NULL}]
    BY DEF Typed
  <1>2. \A data \in Data, w \in Words : data[w] \in Values
    BY DEF Data
  <1>3. PlacedBy(c)
    BY DEF Placed
  <1>4. ASSUME pc[c] # "idle"
        PROVE  /\ b \in Blocks /\ a.w \in Words /\ (a.cmd = "write" => a.v \in Values)
               /\ a.cmd \in {"read", "write"}
    BY <1>4, Accessing
  <1>5. CASE Deliver(c) \/ Stored(c)
    <2>1. todo[c] # <<>> /\ pc[c] # "idle" /\ UNCHANGED <<memory, evicted, result>>
      BY <1>5 DEF Deliver, Stored, At, DInv, Occupied, storage
    <2>2. CASE UNCHANGED <<cache, block>>
      BY <1>1, <2>1, <2>2
    <2>3. CASE Replied(c, Head(todo[c]))
      <3>1. ASSUME NEW d \in Caches, NEW y \in Blocks, cache' = [cache EXCEPT ![d][y] = NULL],
                   cache[d][y].data \in Data,
                   block' = IF found[d] /\ access[d].b = y
                            THEN [block EXCEPT ![d] = cache[d][y].data] ELSE block
            PROVE  /\ cache' \in [Caches -> [Blocks -> Copies \cup {NULL}]]
                   /\ block' \in [Caches -> Data \cup {NULL}]
        BY <1>1, <3>1
      <3> QED BY <1>1, <2>1, <2>3, <3>1, AnswerShape
    <2>4. Replied(c, Head(todo[c])) \/ UNCHANGED <<cache, block>>
      BY <1>5 DEF Deliver, Stored
    <2> QED BY <2>2, <2>3, <2>4
  <1>6. CASE Store(c)
    <2>1. /\ pc[c] = "store" /\ UNCHANGED <<cache, block, evicted, result>>
          /\ memory' = [memory EXCEPT ![b] = cache[Head(todo[c])][b].data]
      BY <1>6 DEF Store, At, locals
    <2>2. Head(todo[c]) \in Caches
      BY <2>1, Recipient DEF DInv, Occupied
    <2>3. cache[Head(todo[c])][b].data \in Data
      BY <1>1, <1>3, <1>4, <2>1, <2>2 DEF PlacedBy, Has, Copies
    <2> QED BY <1>1, <2>1, <2>3
  <1>7. CASE Load(c)
    <2>1. /\ pc[c] = "load" /\ UNCHANGED <<memory, cache, evicted, result>>
          /\ block' = [block EXCEPT ![c] = memory[b]]
      BY <1>7 DEF Load, At
    <2> QED BY <1>1, <1>4, <2>1
  <1>8. CASE Insert(c)
    <2>1. /\ pc[c] \in FilledPlaces /\ UNCHANGED <<memory, evicted, result>>
          /\ block' = [block EXCEPT ![c] = NULL]
          /\ cache' = [cache EXCEPT ![c][b] = [data |-> block[c], dirty |-> a.cmd = "write"]]
      BY <1>8 DEF Insert, At, FilledPlaces, storage
    <2>2. (a.cmd = "write") \in BOOLEAN
      OBVIOUS
    <2>3. [data |-> block[c], dirty |-> a.cmd = "write"] \in Copies
      BY <1>3, <2>1, <2>2 DEF PlacedBy, Copies
    <2> QED BY <1>1, <1>4, <2>1, <2>3 DEF FilledPlaces
  <1>9. CASE Evict(c)
    <2>1. /\ pc[c] = "loaded" /\ UNCHANGED <<memory, block, result>>
          /\ \E v \in Neighbours(c, b) :
                /\ cache' = [cache EXCEPT ![c][v] = NULL]
                /\ \/ UNCHANGED evicted
                   \/ evicted' = [evicted EXCEPT ![c] = [b |-> v, data |-> cache[c][v].data]]
      BY <1>9 DEF Evict, At
    <2>2. PICK v \in Blocks :
             /\ Has(c, v) /\ cache' = [cache EXCEPT ![c][v] = NULL]
             /\ \/ UNCHANGED evicted
                \/ evicted' = [evicted EXCEPT ![c] = [b |-> v, data |-> cache[c][v].data]]
      BY <2>1 DEF Neighbours
    <2>3. [b |-> v, data |-> cache[c][v].data] \in Evictions
      BY <1>1, <2>2 DEF Has, Copies, Evictions
    <2>4. evicted' \in [Caches -> Evictions \cup {NULL}]
      BY <1>1, <2>2, <2>3
    <2>5. cache' \in [Caches -> [Blocks -> Copies \cup {NULL}]]
      BY <1>1, <2>2
    <2> QED BY <1>1, <2>1, <2>4, <2>5
  <1>10. CASE StoreEvicted(c)
    <2>1. /\ pc[c] = "evict" /\ UNCHANGED <<cache, block, result>>
          /\ memory' = [memory EXCEPT ![evicted[c].b] = evicted[c].data]
          /\ evicted' = [evicted EXCEPT ![c] = NULL]
      BY <1>10 DEF StoreEvicted, At
    <2>2. evicted[c] \in Evictions
      BY <1>1, <1>3, <2>1 DEF PlacedBy
    <2> QED BY <1>1, <2>1, <2>2 DEF Evictions
  <1>11. CASE Use(c)
    <2>1. pc[c] = "use" /\ UNCHANGED <<memory, block, evicted>>
      BY <1>11 DEF Use, At, storage
    <2>2. cache[c][b] \in Copies
      BY <1>1, <1>3, <1>4, <2>1 DEF PlacedBy, Has
    <2>3. CASE a.cmd = "read"
      <3>1. UNCHANGED cache /\ result' = [result EXCEPT ![c] = cache[c][b].data[a.w]]
        BY <1>11, <2>3 DEF Use
      <3>2. cache[c][b].data[a.w] \in Values
        BY <1>2, <1>4, <2>1, <2>2 DEF Copies
      <3> QED BY <1>1, <2>1, <3>1, <3>2
    <2>4. CASE a.cmd # "read"
      <3>1. /\ UNCHANGED result
            /\ cache' = [cache EXCEPT ![c][b] = [data |-> [@.data EXCEPT ![a.w] = a.v], dirty |-> TRUE]]
        BY <1>11, <2>4 DEF Use
      <3>2. [cache[c][b].data EXCEPT ![a.w] = a.v] \in Data
        BY <1>4, <2>1, <2>2, <2>4, WordWritten DEF Copies
      <3>3. [data |-> [cache[c][b].data EXCEPT ![a.w] = a.v], dirty |-> TRUE] \in Copies
        BY <3>2 DEF Copies
      <3>4. cache' = [cache EXCEPT ![c][b] =
                         [data |-> [cache[c][b].data EXCEPT ![a.w] = a.v], dirty |-> TRUE]]
        BY <1>1, <1>4, <2>1, <3>1
      <3> QED BY <1>1, <1>4, <2>1, <3>1, <3>3, <3>4
    <2> QED BY <2>3, <2>4
  <1>12. CASE Through(c)
    <2>1. /\ pc[c] = "through" /\ UNCHANGED <<cache, block, evicted, result>>
          /\ memory' = [memory EXCEPT ![b][a.w] = a.v]
      BY <1>12 DEF Through, At, locals
    <2>2. memory[b] \in Data /\ a.v \in Values
      BY <1>1, <1>3, <1>4, <2>1 DEF PlacedBy
    <2>3. [memory[b] EXCEPT ![a.w] = a.v] \in Data
      BY <1>4, <2>1, <2>2, WordWritten
    <2>4. memory' = [memory EXCEPT ![b] = [memory[b] EXCEPT ![a.w] = a.v]]
      BY <1>1, <1>4, <2>1
    <2> QED BY <1>1, <1>4, <2>1, <2>3, <2>4
  <1>13. CASE DebugStep(c)
    <2>1. UNCHANGED evicted /\ b \in Blocks
      BY <1>13, DebugChanges
    <2>2. memory' \in [Blocks -> Data]
      BY <1>1, <1>13, <2>1, DebugChanges
    <2>3. cache' \in [Caches -> [Blocks -> Copies \cup {NULL}]]
      BY <1>1, <1>13, <2>1, DebugChanges
    <2>4. block' \in [Caches -> Data \cup {NULL}] /\ result' \in [Caches -> Values \cup {NULL}]
      BY <1>1, <1>13, DebugChanges
    <2> QED BY <1>1, <2>1, <2>2, <2>3, <2>4
  <1>14. CASE Return(c)
    <2>1. result' = [result EXCEPT ![c] = NULL] /\ UNCHANGED <<memory, cache, block, evicted>>
      BY <1>14 DEF Return, storage
    <2> QED BY <1>1, <2>1
  <1>15. CASE ~(Deliver(c) \/ Stored(c) \/ Store(c) \/ Load(c) \/ Insert(c) \/ Evict(c) \/ StoreEvicted(c)
                \/ Use(c) \/ Through(c) \/ DebugStep(c) \/ Return(c))
    <2>1. UNCHANGED <<memory, cache, block, evicted, result>>
      BY <1>15 DEF Step, RequestStep, MessageStep, AccessStep, Call, Lookup, Lock, Serve, Grant,
           SendWaiting, Enter, Release, storage, locals
    <2> QED BY <1>1, <2>1
  <1> QED BY <1>5, <1>6, <1>7, <1>8, <1>9, <1>10, <1>11, <1>12, <1>13, <1>14, <1>15

-----------------------------------------------------------------------------

\* What a step of c leaves to the others: an event at most, and their blocks if nobody answers.
LEMMA Elsewhere ==
    ASSUME CInv, DInv, Typed, Placed, NEW c \in Caches, Step(c) \/ \E a \in Accesses : Call(c, a)
    PROVE  \A d \in Caches \ {c} :
              /\ \/ pc'[d] = pc[d]
                 \/ pc[d] = "queued" /\ pc'[d] = "serve"
                 \/ pc[d] = "awaitBus" /\ pc'[d] = "message"
                 \/ pc[d] = "dbgWait" /\ pc'[d] = "lookup"
              /\ access'[d] = access[d] /\ found'[d] = found[d]
              /\ todo'[d] = todo[d] /\ evicted'[d] = evicted[d]
              /\ ~(Deliver(c) \/ Stored(c)) => cache'[d] = cache[d] /\ block'[d] = block[d]
  <1>0. DebugStep(c) =>
           /\ UNCHANGED <<system, busy, busyBus, busyDir, access, todo, evicted>>
           /\ UNCHANGED found \/ found' = [found EXCEPT ![c] = FALSE]
           /\ UNCHANGED block \/ \E data : block' = [block EXCEPT ![c] = data]
           /\ UNCHANGED bus \/ Request(c, c) \/ Served(c)
           /\ \E x : pc' = [pc EXCEPT ![c] = x]
    BY DebugChanges
  <1>1. /\ DOMAIN pc = Caches /\ DOMAIN access = Caches /\ DOMAIN found = Caches
        /\ DOMAIN todo = Caches /\ DOMAIN evicted = Caches /\ DOMAIN cache = Caches
        /\ DOMAIN block = Caches
    BY DEF Typed, CInv, Shape
  <1>2. \A d \in Caches \ {c} : access'[d] = access[d] /\ found'[d] = found[d]
    <2>1. UNCHANGED access \/ \E a : access' = [access EXCEPT ![c] = a]
      BY <1>0 DEF Step, RequestStep, MessageStep, AccessStep, Call, Lookup, Lock, Serve, Grant,
             SendWaiting, Deliver, Store, Stored, Enter, Load, Insert, Evict, StoreEvicted, Use,
             Release, Through, Return, locals
    <2>2. UNCHANGED found \/ \E x : found' = [found EXCEPT ![c] = x]
      BY <1>0 DEF Step, RequestStep, MessageStep, AccessStep, Call, Lookup, Lock, Serve, Grant,
             SendWaiting, Deliver, Store, Stored, Enter, Load, Insert, Evict, StoreEvicted, Use,
             Release, Through, Return, locals, Sought
    <2> QED BY <1>1, <2>1, <2>2
  <1>3. \A d \in Caches \ {c} : todo'[d] = todo[d] /\ evicted'[d] = evicted[d]
    <2>1. UNCHANGED todo \/ \E x : todo' = [todo EXCEPT ![c] = x]
      BY <1>0 DEF Step, RequestStep, MessageStep, AccessStep, Call, Lookup, Lock, Serve, Grant,
             SendWaiting, Deliver, Store, Stored, Enter, Load, Insert, Evict, StoreEvicted, Use,
             Release, Through, Return, locals, Replied
    <2>2. UNCHANGED evicted \/ \E x : evicted' = [evicted EXCEPT ![c] = x]
      BY <1>0 DEF Step, RequestStep, MessageStep, AccessStep, Call, Lookup, Lock, Serve, Grant,
             SendWaiting, Deliver, Store, Stored, Enter, Load, Insert, Evict, StoreEvicted, Use,
             Release, Through, Return, locals
    <2> QED BY <1>1, <2>1, <2>2
  <1>4. ASSUME ~(Deliver(c) \/ Stored(c))
        PROVE  \A d \in Caches \ {c} : cache'[d] = cache[d] /\ block'[d] = block[d]
    <2>1. UNCHANGED block \/ \E x : block' = [block EXCEPT ![c] = x]
      BY <1>4, <1>0 DEF Step, RequestStep, MessageStep, AccessStep, Call, Lookup, Lock, Serve, Grant,
             SendWaiting, Store, Enter, Load, Insert, Evict, StoreEvicted, Use,
             Release, Through, Return, locals
    <2>2. CASE Insert(c) \/ Evict(c) \/ Use(c) \/ DebugStep(c)
      <3>1. CASE Insert(c)
        BY <1>1, <2>1, <3>1 DEF Insert
      <3>2. CASE Evict(c)
        BY <1>1, <2>1, <3>2 DEF Evict
      <3>3. CASE Use(c)
        BY <1>1, <2>1, <3>3 DEF Use
      <3>4. CASE DebugStep(c)
        BY <1>1, <2>1, <3>4, DebugChanges
      <3> QED BY <2>2, <3>1, <3>2, <3>3, <3>4
    <2>3. CASE ~(Insert(c) \/ Evict(c) \/ Use(c) \/ DebugStep(c))
      <3>1. UNCHANGED cache
        BY <1>4, <2>3 DEF Step, RequestStep, MessageStep, AccessStep, Call, Lookup, Lock, Serve, Grant,
             SendWaiting, Store, Enter, Load, StoreEvicted, Release, Through, Return
      <3> QED BY <1>1, <2>1, <3>1
    <2> QED BY <2>2, <2>3
  <1>5. \A d \in Caches \ {c} :
           \/ pc'[d] = pc[d]
           \/ pc[d] = "queued" /\ pc'[d] = "serve"
           \/ pc[d] = "awaitBus" /\ pc'[d] = "message"
           \/ pc[d] = "dbgWait" /\ pc'[d] = "lookup"
    <2>1. CASE Grant(c)
      <3>1. \E x : Notify(c, x, Awakened, "serve")
        BY <2>1 DEF Grant
      <3>2. \A d \in Awakened : pc[d] = "queued"
        BY HeadTailProperties DEF Awakened, CInv, OneServed, Shape
      <3> QED BY <3>1, <3>2 DEF Notify
    <2>2. CASE Release(c)
      <3>1. \E x : Notify(c, x, { d \in Caches : pc[d] = "awaitBus" /\ Head(todo[d]) = c }, "message")
        BY <2>2 DEF Release
      <3> QED BY <3>1 DEF Notify
    <2>3. CASE \E d : Replied(c, d)
      <3>1. PICK d : Notify(c, "send", AwaitDir(d), "lookup")
        BY <2>3 DEF Replied
      <3> QED BY <3>1 DEF Notify, AwaitDir
    <2>4. CASE ~(Grant(c) \/ Release(c) \/ \E d : Replied(c, d))
      <3>1. \E x : pc' = [pc EXCEPT ![c] = x]
        BY <2>4, <1>0 DEF Step, RequestStep, MessageStep, AccessStep, Call, Lookup, Lock, Serve,
             SendWaiting, Deliver, Store, Stored, Enter, Load, Insert, Evict, StoreEvicted, Use,
             Through, Return, Continue, Wait
      <3> QED BY <1>1, <3>1
    <2> QED BY <2>1, <2>2, <2>3, <2>4
  <1> QED BY <1>2, <1>3, <1>4, <1>5

\* A block leaves a cache by an answer, while nobody uses the cache, or by an eviction.
LEMMA Leaving ==
    ASSUME CInv, DInv, Typed, Placed, NEW c \in Caches, Step(c) \/ \E a \in Accesses : Call(c, a),
           NEW e \in Caches, NEW y \in Blocks, Has(e, y), ~Has(e, y)'
    PROVE  \/ /\ Deliver(c) \/ Stored(c)
              /\ Replied(c, Head(todo[c])) /\ e = Head(todo[c]) /\ y = access[c].b /\ ~Using(e)
           \/ e = c /\ Evict(c)
  <1> DEFINE b == access[c].b
  <1>1. /\ cache \in [Caches -> [Blocks -> Copies \cup {NULL}]]
        /\ cache' \in [Caches -> [Blocks -> Copies \cup {NULL}]]
    BY StoresTyped DEF Typed
  <1>2. CASE Deliver(c) \/ Stored(c)
    <2>1. Replied(c, Head(todo[c])) \/ UNCHANGED cache
      BY <1>2 DEF Deliver, Stored
    <2>2. Replied(c, Head(todo[c]))
      BY <2>1 DEF Has
    <2>3. pc[c] # "idle" /\ todo[c] # <<>> /\ running \in {NULL, c}
      BY <1>2 DEF Deliver, Stored, At, DInv, Occupied
    <2>4. \E d \in Caches : d = Head(todo[c]) /\ cache' = [cache EXCEPT ![d][b] = NULL] /\ b \in Blocks
      <3>1. ~UNCHANGED cache
        BY DEF Has
      <3> QED BY <2>2, <2>3, <3>1, AnswerShape
    <2>5. e = Head(todo[c]) /\ y = b
      BY <1>1, <2>4 DEF Has
    <2>6. ~Using(e)
      BY <1>2, <2>3, <2>5, NobodyUses DEF Deliver, Stored, At
    <2> QED BY <1>2, <2>2, <2>5, <2>6
  <1>3. CASE Insert(c) \/ Use(c)
    <2>1. pc[c] # "idle"
      BY <1>3 DEF Insert, Use, At
    <2>2. UNCHANGED cache \/ \E data, dirty : cache' = [cache EXCEPT ![c][b] = [data |-> data, dirty |-> dirty]]
      <3>1. CASE Insert(c)
        BY <3>1 DEF Insert
      <3>2. CASE Use(c)
        BY <1>1, <2>1, <3>2, Accessing DEF Use
      <3> QED BY <1>3, <3>1, <3>2
    <2>3. b \in Blocks
      BY <2>1, Accessing
    <2>4. PICK data, dirty : cache' = [cache EXCEPT ![c][b] = [data |-> data, dirty |-> dirty]]
      BY <2>2 DEF Has
    <2>5. e = c /\ y = b
      BY <1>1, <2>3, <2>4 DEF Has
    <2>6. CASE Insert(c)
      <3>1. cache'[c][b] = [data |-> block[c], dirty |-> access[c].cmd = "write"]
        BY <1>1, <2>3, <2>6 DEF Insert
      <3>2. [data |-> block[c], dirty |-> access[c].cmd = "write"] \in Copies
        <4>1. block[c] \in Data /\ (access[c].cmd = "write") \in BOOLEAN
          BY <2>6 DEF Insert, At, Placed, PlacedBy, FilledPlaces
        <4> QED BY <4>1 DEF Copies
      <3> QED BY <2>5, <3>1, <3>2, NullAssumption DEF Has, Copies, Data
    <2>7. CASE Use(c)
      <3>1. cache[c][b] \in Copies /\ access[c].w \in Words
        BY <1>1, <2>1, <2>3, <2>5, Accessing DEF Has
      <3>2. access[c].cmd # "read"
        BY <2>7 DEF Use, Has
      <3>3. cache'[c][b] = [data |-> [cache[c][b].data EXCEPT ![access[c].w] = access[c].v], dirty |-> TRUE]
        BY <1>1, <2>3, <2>7, <3>2 DEF Use
      <3>4. [cache[c][b].data EXCEPT ![access[c].w] = access[c].v] \in Data
        BY <2>1, <3>1, <3>2, Accessing, WordWritten DEF Copies
      <3>5. cache'[c][b] \in Copies
        BY <3>3, <3>4 DEF Copies
      <3> QED BY <2>5, <3>5, NullAssumption DEF Has, Copies, Data
    <2> QED BY <1>3, <2>6, <2>7
  <1>4. CASE Evict(c)
    <2>1. PICK v \in Blocks : cache' = [cache EXCEPT ![c][v] = NULL]
      BY <1>4 DEF Evict, Neighbours
    <2>2. e = c
      BY <1>1, <2>1 DEF Has
    <2> QED BY <1>4, <2>2
  <1>5. CASE DebugStep(c)
    <2>1. b \in Blocks /\ \E copy \in Copies : cache' = [cache EXCEPT ![c][b] = copy]
      BY <1>5, DebugChanges DEF Has
    <2>2. e = c /\ y = b /\ cache'[c][b] \in Copies
      BY <1>1, <2>1 DEF Has
    <2> QED BY <2>2, NullAssumption DEF Has, Copies, Data
  <1>6. CASE ~(Deliver(c) \/ Stored(c) \/ Insert(c) \/ Use(c) \/ Evict(c) \/ DebugStep(c))
    <2>1. UNCHANGED cache
      BY <1>6 DEF Step, RequestStep, MessageStep, AccessStep, Call, Lookup, Lock, Serve, Grant,
             SendWaiting, Store, Enter, Load, StoreEvicted, Release, Through, Return
    <2> QED BY <2>1 DEF Has
  <1> QED BY <1>2, <1>3, <1>4, <1>5, <1>6

\* A debug access that has found its block keeps it when it leaves the cache.
LEMMA Kept ==
    ASSUME CInv, DInv, Typed, Placed, NEW c \in Caches, Deliver(c) \/ Stored(c)
    PROVE  /\ UNCHANGED <<access, found, evicted>>
           /\ \A d \in Caches :
                 /\ block'[d] = block[d] \/ block'[d] \in Data
                 /\ found[d] /\ ~Has(d, access[d].b)' => block'[d] \in Data
  <1>1. /\ UNCHANGED <<access, found, evicted>>
        /\ Replied(c, Head(todo[c])) \/ UNCHANGED <<cache, block>>
        /\ pc[c] # "idle" /\ todo[c] # <<>>
    BY DEF Deliver, Stored, At, DInv, Occupied
  <1>2. \A d \in Caches : found[d] /\ ~Has(d, access[d].b) => block[d] \in Data
    BY DEF Placed, PlacedBy
  <1>3. CASE UNCHANGED <<cache, block>>
    BY <1>1, <1>2, <1>3 DEF Has
  <1>4. ASSUME NEW e \in Caches, NEW b \in Blocks, cache' = [cache EXCEPT ![e][b] = NULL],
               cache[e][b].data \in Data,
               block' = IF found[e] /\ access[e].b = b
                        THEN [block EXCEPT ![e] = cache[e][b].data] ELSE block,
               NEW d \in Caches
        PROVE  /\ block'[d] = block[d] \/ block'[d] \in Data
               /\ found[d] /\ ~Has(d, access[d].b)' => block'[d] \in Data
    <2>1. DOMAIN cache = Caches /\ DOMAIN cache[e] = Blocks /\ DOMAIN block = Caches
      BY DEF Typed
    <2>2. block'[d] = block[d] \/ block'[d] \in Data
      BY <1>4, <2>1
    <2>3. ASSUME found[d], ~Has(d, access[d].b)' PROVE block'[d] \in Data
      <3>1. CASE d = e /\ access[d].b = b
        BY <1>4, <2>1, <2>3, <3>1
      <3>2. CASE ~(d = e /\ access[d].b = b)
        <4>1. access[d].b \in Blocks
          <5>1. pc[d] # "idle"
            BY <2>3 DEF Placed, PlacedBy, AskingPlaces, PendingPlaces, SendingPlaces
          <5> QED BY <5>1, Accessing
        <4>2. cache'[d][access[d].b] = cache[d][access[d].b]
          BY <1>4, <2>1, <3>2, <4>1
        <4>3. ~Has(d, access[d].b)
          BY <1>1, <2>3, <4>2 DEF Has
        <4> QED BY <1>2, <2>2, <2>3, <4>3
      <3> QED BY <3>1, <3>2
    <2> QED BY <2>2, <2>3
  <1> QED BY <1>1, <1>3, <1>4, AnswerShape

\* Blocks are still there for the accesses of others.
LEMMA OthersPlaced ==
    ASSUME CInv, DInv, Typed, Placed, NEW c \in Caches, Step(c) \/ \E a \in Accesses : Call(c, a),
           NEW d \in Caches \ {c}
    PROVE  PlacedBy(d)'
  <1>1. /\ \/ pc'[d] = pc[d]
           \/ pc[d] = "queued" /\ pc'[d] = "serve"
           \/ pc[d] = "awaitBus" /\ pc'[d] = "message"
           \/ pc[d] = "dbgWait" /\ pc'[d] = "lookup"
        /\ access'[d] = access[d] /\ found'[d] = found[d]
        /\ todo'[d] = todo[d] /\ evicted'[d] = evicted[d]
        /\ ~(Deliver(c) \/ Stored(c)) => cache'[d] = cache[d] /\ block'[d] = block[d]
    BY Elsewhere
  <1>2. PlacedBy(d)
    BY DEF Placed
  <1>3. /\ block'[d] = block[d] \/ block'[d] \in Data
        /\ found[d] /\ ~Has(d, access[d].b)' => block'[d] \in Data
    <2>1. CASE Deliver(c) \/ Stored(c)
      BY <2>1, Kept
    <2>2. CASE ~(Deliver(c) \/ Stored(c))
      BY <1>1, <1>2, <2>2 DEF PlacedBy, Has
    <2> QED BY <2>1, <2>2
  <1>4. pc'[d] = "use" => Has(d, access[d].b)'
    <2>1. SUFFICES ASSUME pc'[d] = "use", ~Has(d, access[d].b)' PROVE FALSE
      OBVIOUS
    <2>2. pc[d] = "use" /\ Has(d, access[d].b)
      BY <1>1, <1>2, <2>1 DEF PlacedBy
    <2>3. PICK y \in Blocks : y = access[d].b
      BY <2>2, Accessing
    <2>4. Has(d, y) /\ ~Has(d, y)'
      BY <1>1, <2>1, <2>2, <2>3 DEF Has
    <2>5. ~Using(d)
      BY <2>4, Leaving
    <2> QED BY <2>2, <2>5 DEF Using, UsingPlaces
  <1>5. pc'[d] = "store" => Has(Head(todo[d]), access[d].b)'
    <2>1. SUFFICES ASSUME pc'[d] = "store", ~Has(Head(todo[d]), access[d].b)' PROVE FALSE
      OBVIOUS
    <2>2. pc[d] = "store" /\ Has(Head(todo[d]), access[d].b)
      BY <1>1, <1>2, <2>1 DEF PlacedBy
    <2>3. PICK y \in Blocks : y = access[d].b
      BY <2>2, Accessing
    <2>4. todo[d] # <<>> /\ busyDir[Head(todo[d])]
      BY <2>2 DEF DInv, Occupied
    <2>5. PICK e \in Caches : e = Head(todo[d])
      BY <2>4, Recipient
    <2>6. Has(e, y) /\ ~Has(e, y)'
      BY <1>1, <2>1, <2>2, <2>3, <2>5 DEF Has
    <2>7. Deliver(c) \/ Stored(c) \/ (e = c /\ Evict(c))
      BY <2>6, Leaving
    <2>8. ~(Deliver(c) \/ Stored(c))
      BY <2>2 DEF Deliver, Stored, At, CInv, OneServed, ServedPlaces
    <2>9. ~(e = c /\ Evict(c))
      <3>1. ~busyBus[e]
        BY <2>4, <2>5 DEF CInv, Users
      <3>2. pc[e] # "loaded"
        BY <3>1 DEF DInv, Occupied, UsingPlaces
      <3> QED BY <3>2 DEF Evict, At
    <2> QED BY <2>7, <2>8, <2>9
  <1>6. /\ pc'[d] \in FilledPlaces => block'[d] \in Data
        /\ pc'[d] = "evict" => evicted'[d] # NULL
        /\ pc'[d] = "through" => access'[d].cmd = "write"
        /\ pc'[d] \in {"dbgWait", "lookup"} => access'[d].dbg
        /\ found'[d] => access'[d].dbg /\ pc'[d] \in AskingPlaces
    BY <1>1, <1>2, <1>3 DEF PlacedBy, FilledPlaces, AskingPlaces, PendingPlaces, SendingPlaces
  <1>7. found'[d] /\ ~Has(d, access[d].b)' => block'[d] \in Data
    BY <1>1, <1>3
  <1>8. pc'[d] = "dbgUse" \/ (pc'[d] = "dbgStore" /\ ~found'[d]) => block'[d] \in Data
    BY <1>1, <1>2, <1>3 DEF PlacedBy
  <1> QED BY <1>1, <1>4, <1>5, <1>6, <1>7, <1>8 DEF PlacedBy

\* Each step puts its blocks where the next ones of the access look for them.
LEMMA OwnPlaced ==
    ASSUME CInv, DInv, Typed, Placed, NEW c \in Caches, Step(c) \/ \E a \in Accesses : Call(c, a)
    PROVE  PlacedBy(c)'
  <1> DEFINE b == access[c].b
  <1>1. PlacedBy(c)
    BY DEF Placed
  <1>2. /\ DOMAIN pc = Caches /\ DOMAIN access = Caches /\ found \in [Caches -> BOOLEAN]
        /\ DOMAIN todo = Caches /\ DOMAIN evicted = Caches /\ DOMAIN cache = Caches
        /\ DOMAIN cache[c] = Blocks /\ DOMAIN block = Caches /\ memory \in [Blocks -> Data]
    BY DEF Typed, CInv, Shape
  <1>3. ASSUME NEW a \in Accesses, Call(c, a) PROVE PlacedBy(c)'
    <2>1. /\ pc[c] = "idle" /\ access'[c] = a /\ UNCHANGED <<cache, block>>
          /\ \/ pc'[c] \in {"lock", "dbgWait"} /\ UNCHANGED found /\ (pc'[c] = "dbgWait" => a.dbg)
             \/ pc'[c] = "lock" /\ a.dbg /\ found' = [found EXCEPT ![c] = Has(c, a.b)]
      BY <1>2, <1>3 DEF Call, At, Continue, Wait, Sought
    <2>2. ~found[c]
      BY <1>1, <2>1 DEF PlacedBy, AskingPlaces, PendingPlaces, SendingPlaces
    <2>3. found'[c] => a.dbg /\ pc'[c] = "lock" /\ Has(c, a.b)
      BY <1>2, <2>1, <2>2
    <2>4. Has(c, a.b)' <=> Has(c, a.b)
      BY <2>1 DEF Has
    <2> QED BY <2>1, <2>3, <2>4 DEF PlacedBy, Has, FilledPlaces, AskingPlaces, PendingPlaces
  <1>4. CASE Lookup(c)
    <2>1. /\ pc[c] = "lookup" /\ pc'[c] = "lock" /\ UNCHANGED <<access, cache, block>>
          /\ found'[c] = Has(c, b)
      BY <1>2, <1>4 DEF Lookup, At, Continue, Sought
    <2>2. Has(c, b)' <=> Has(c, b)
      BY <2>1 DEF Has
    <2> QED BY <1>1, <2>1, <2>2 DEF PlacedBy, FilledPlaces, AskingPlaces, PendingPlaces, Has
  <1>5. CASE Lock(c) \/ Serve(c) \/ SendWaiting(c) \/ Store(c)
    <2>1. /\ pc[c] \in AskingPlaces /\ pc'[c] \in AskingPlaces \ {"store"}
          /\ UNCHANGED <<access, found, cache, block>>
      BY <1>2, <1>5 DEF Lock, Serve, SendWaiting, Store, At, Continue, Wait, AskingPlaces, PendingPlaces, SendingPlaces, locals
    <2>2. Has(c, b)' <=> Has(c, b)
      BY <2>1 DEF Has
    <2>3. pc'[c] \notin FilledPlaces \cup {"use", "store", "through", "dbgWait", "lookup", "dbgUse", "dbgStore"}
      BY <1>2, <1>5 DEF Lock, Serve, SendWaiting, Store, At, Continue, Wait, FilledPlaces
    <2> QED BY <1>1, <2>1, <2>2, <2>3 DEF PlacedBy, FilledPlaces
  <1>6. CASE Grant(c)
    <2>1. /\ pc'[c] = IF access[c].dbg THEN "dbg" ELSE "enter"
          /\ UNCHANGED <<access, found, cache, block>>
      BY <1>6 DEF Grant, Notify, locals
    <2> QED BY <1>1, <2>1 DEF PlacedBy, FilledPlaces, AskingPlaces, PendingPlaces, Has
  <1>7. CASE Deliver(c) \/ Stored(c)
    <2>1. /\ UNCHANGED <<access, found, evicted>>
          /\ found[c] /\ ~Has(c, access[c].b)' => block'[c] \in Data
      BY <1>7, Kept
    <2>2. pc[c] \in SendingPlaces /\ todo[c] # <<>>
      BY <1>7 DEF Deliver, Stored, At, SendingPlaces, DInv, Occupied
    <2>3. \/ pc'[c] = "send"
          \/ pc'[c] = "store" /\ Has(Head(todo[c]), b) /\ UNCHANGED <<cache, todo>>
      <3>1. CASE Replied(c, Head(todo[c]))
        BY <2>2, <3>1, AnswerShape DEF SendingPlaces
      <3>2. CASE Deliver(c) /\ MustStore(c, Head(todo[c]))
        BY <1>2, <3>2 DEF Deliver, MustStore, Wait
      <3> QED BY <1>7, <3>1, <3>2 DEF Deliver, Stored
    <2>4. pc'[c] = "store" => Has(Head(todo[c]), access[c].b)'
      BY <2>1, <2>3 DEF Has
    <2>5. pc'[c] \in SendingPlaces
      BY <2>3 DEF SendingPlaces
    <2> QED BY <1>1, <2>1, <2>2, <2>4, <2>5 DEF PlacedBy, FilledPlaces, AskingPlaces, PendingPlaces, SendingPlaces
  <1>8. ASSUME pc[c] \in {"enter", "through", "done"} \cup UsingPlaces
        PROVE  ~found[c]
    BY <1>1, <1>8 DEF PlacedBy, AskingPlaces, PendingPlaces, SendingPlaces, UsingPlaces
  <1>9. CASE Enter(c)
    <2>1. /\ pc[c] = "enter" /\ UNCHANGED <<access, found, cache>>
          /\ pc'[c] \in {"use", "release", "load"} /\ (pc'[c] = "use" => Has(c, b))
      BY <1>2, <1>9 DEF Enter, At, Continue, Wait, locals
    <2> QED BY <1>8, <2>1 DEF PlacedBy, FilledPlaces, Has
  <1>10. CASE Load(c)
    <2>1. /\ pc[c] = "load" /\ UNCHANGED <<access, found>> /\ pc'[c] = "loaded"
          /\ block'[c] = memory[b]
      BY <1>2, <1>10 DEF Load, At, Wait
    <2>2. memory[b] \in Data
      BY <1>2, <2>1, Accessing
    <2> QED BY <1>8, <2>1, <2>2 DEF PlacedBy, UsingPlaces
  <1>11. CASE Insert(c)
    <2>1. /\ pc[c] \in {"loaded", "insert"} /\ UNCHANGED <<access, found>> /\ pc'[c] = "use"
          /\ cache' = [cache EXCEPT ![c][b] = [data |-> block[c], dirty |-> access[c].cmd = "write"]]
      BY <1>2, <1>11 DEF Insert, At, Continue
    <2>2. [data |-> block[c], dirty |-> access[c].cmd = "write"] \in Copies
      <3>1. block[c] \in Data /\ (access[c].cmd = "write") \in BOOLEAN
        BY <1>1, <2>1 DEF PlacedBy, FilledPlaces
      <3> QED BY <3>1 DEF Copies
    <2>3. b \in Blocks
      BY <2>1, Accessing
    <2>4. cache'[c][b] \in Copies
      BY <1>2, <2>1, <2>2, <2>3
    <2>5. Has(c, access[c].b)'
      BY <2>1, <2>4, NullAssumption DEF Has, Copies, Data
    <2>6. ~found'[c]
      BY <1>8, <2>1 DEF UsingPlaces
    <2> QED BY <2>1, <2>5, <2>6 DEF PlacedBy, FilledPlaces
  <1>12. CASE Evict(c)
    <2>1. /\ pc[c] = "loaded" /\ UNCHANGED <<access, found, block>>
          /\ \E v \in Neighbours(c, b) :
                \/ pc' = [pc EXCEPT ![c] = "insert"]
                \/ /\ pc' = [pc EXCEPT ![c] = "evict"]
                   /\ evicted' = [evicted EXCEPT ![c] = [b |-> v, data |-> cache[c][v].data]]
      BY <1>12 DEF Evict, At, Wait
    <2>2. block'[c] \in Data
      BY <1>1, <2>1 DEF PlacedBy, FilledPlaces
    <2>3. pc'[c] \in {"insert", "evict"} /\ (pc'[c] = "evict" => evicted'[c] # NULL)
      <3>1. ASSUME NEW v \in Neighbours(c, b) PROVE [b |-> v, data |-> cache[c][v].data] # NULL
        <4>1. v \in Blocks /\ cache[c][v] \in Copies
          BY DEF Neighbours, Has, Typed
        <4>2. [b |-> v, data |-> cache[c][v].data] \in Evictions
          BY <4>1 DEF Copies, Evictions
        <4> QED BY <4>2, NullAssumption DEF Evictions, Data
      <3> QED BY <1>2, <2>1, <3>1
    <2> QED BY <1>8, <2>1, <2>2, <2>3 DEF PlacedBy, UsingPlaces
  <1>13. CASE StoreEvicted(c)
    <2>1. /\ pc[c] = "evict" /\ UNCHANGED <<access, found, block>> /\ pc'[c] = "insert"
      BY <1>2, <1>13 DEF StoreEvicted, At, Wait
    <2> QED BY <1>1, <1>8, <2>1 DEF PlacedBy, FilledPlaces, UsingPlaces
  <1>14. CASE Use(c) \/ Through(c) \/ Return(c)
    <2>1. /\ pc[c] \in {"use", "through", "done"} /\ UNCHANGED found /\ pc'[c] \in {"release", "done", "idle"}
      BY <1>2, <1>14 DEF Use, Through, Return, At, Wait, locals
    <2> QED BY <1>8, <2>1 DEF PlacedBy, FilledPlaces, UsingPlaces
  <1>15. CASE Release(c)
    <2>1. /\ pc[c] = "release" /\ UNCHANGED <<access, found>>
          /\ pc'[c] = "done" \/ (pc'[c] = "through" /\ access[c].cmd = "write")
      BY <1>15 DEF Release, At, Notify, locals
    <2> QED BY <1>8, <2>1 DEF PlacedBy, FilledPlaces, UsingPlaces
  <1>16. CASE DebugAsk(c)
    <2>1. pc'[c] = "dbgLoad" /\ ~found'[c]
      BY <1>2, <1>16 DEF DebugAsk, Wait, locals
    <2> QED BY <2>1 DEF PlacedBy, FilledPlaces
  <1>17. CASE DebugLoad(c)
    <2>1. /\ pc[c] = "dbgLoad" /\ pc'[c] = "dbgUse" /\ block'[c] = memory[b] /\ UNCHANGED <<access, found>>
      BY <1>2, <1>17 DEF DebugLoad, At, Wait, Continue
    <2>2. memory[b] \in Data
      BY <1>2, <2>1, Accessing
    <2> QED BY <1>1, <2>1, <2>2 DEF PlacedBy, FilledPlaces, AskingPlaces, PendingPlaces
  <1>18. CASE DebugWrite(c)
    <2>1. pc'[c] = "dbgStore" /\ UNCHANGED <<access, found>> /\ b \in Blocks
      BY <1>2, <1>18, Accessing DEF DebugWrite, DebugBegins, At, Wait
    <2>2. ~(found[c] /\ Has(c, access[c].b)') => block'[c] \in Data
      <3>1. CASE found[c] /\ Has(c, b)
        <4>1. UNCHANGED cache \/ \E copy \in Copies : cache' = [cache EXCEPT ![c][b] = copy]
          BY <1>18, DebugChanges DEF DebugStep
        <4>2. cache'[c][b] = cache[c][b] \/ cache'[c][b] \in Copies
          BY <1>2, <2>1, <4>1
        <4>3. Has(c, access[c].b)'
          BY <2>1, <3>1, <4>2, NullAssumption DEF Has, Copies, Data
        <4> QED BY <3>1, <4>3
      <3>2. CASE ~(found[c] /\ Has(c, b))
        <4>1. block' = [block EXCEPT ![c] = [DebugData(c) EXCEPT ![access[c].w] = access[c].v]]
          BY <1>18, <3>2 DEF DebugWrite
        <4>2. DebugData(c) \in Data /\ access[c].w \in Words /\ access[c].v \in Values
          BY <1>18, DebugTyped, Accessing DEF DebugWrite, DebugBegins, At
        <4> QED BY <1>2, <4>1, <4>2, WordWritten
      <3> QED BY <3>1, <3>2
    <2>3. found[c] => access[c].dbg /\ pc'[c] \in AskingPlaces
      BY <1>1, <2>1 DEF PlacedBy, AskingPlaces, PendingPlaces
    <2> QED BY <2>1, <2>2, <2>3 DEF PlacedBy, FilledPlaces
  <1>19. CASE DebugRead(c) \/ DebugStore(c)
    <2>1. pc'[c] = "done" /\ ~found'[c]
      BY <1>2, <1>19 DEF DebugRead, DebugStore, Wait
    <2> QED BY <2>1 DEF PlacedBy, FilledPlaces
  <1> QED BY <1>3, <1>4, <1>5, <1>6, <1>7, <1>9, <1>10, <1>11, <1>12, <1>13, <1>14, <1>15, <1>16,
             <1>17, <1>18, <1>19
          DEF Step, RequestStep, MessageStep, AccessStep, DebugStep

-----------------------------------------------------------------------------

\* A cache that gets no block, and whose access has not just made room, has room as before.
LEMMA RoomKept ==
    ASSUME DInv, NEW d \in Caches, RoomIn(d),
           \A y \in Blocks : Has(d, y)' => Has(d, y),
           pc'[d] \in {"evict", "insert"} => pc[d] \in {"evict", "insert"} /\ access'[d] = access[d]
    PROVE  RoomIn(d)'
  <1>1. ASSUME NEW b \in Blocks
        PROVE  /\ IsFiniteSet(Neighbours(d, b)')
               /\ Cardinality(Neighbours(d, b)') <= Cardinality(Neighbours(d, b))
               /\ Cardinality(Neighbours(d, b)') \in Nat /\ Cardinality(Neighbours(d, b)) \in Nat
    <2>1. Neighbours(d, b)' \subseteq Neighbours(d, b)
      BY DEF Neighbours
    <2> QED BY <2>1, FS_Subset, FS_CardinalityType DEF RoomIn
  <1>2. \A b \in Blocks : IsFiniteSet(Neighbours(d, b)') /\ Cardinality(Neighbours(d, b)') <= Ways
    BY <1>1, CacheAssumption DEF RoomIn
  <1>3. ASSUME pc'[d] \in {"evict", "insert"} PROVE Cardinality(Neighbours(d, access[d].b)') < Ways
    <2>1. access[d].b \in Blocks /\ UNCHANGED access[d]
      BY <1>3, Accessing
    <2>2. PICK b \in Blocks : b = access[d].b
      BY <2>1
    <2>3. Cardinality(Neighbours(d, b)) < Ways
      BY <1>3, <2>2 DEF RoomIn
    <2>4. Cardinality(Neighbours(d, b)') < Ways
      BY <1>1, <2>3, CacheAssumption
    <2>5. Neighbours(d, access[d].b)' = Neighbours(d, b)'
      BY <2>1, <2>2 DEF Neighbours
    <2> QED BY <2>4, <2>5
  <1> QED BY <1>2, <1>3 DEF RoomIn

\* Room is made before a block is inserted.
LEMMA RoomStep ==
    ASSUME CInv, DInv, Typed, Placed, Room, NEW c \in Caches, Step(c) \/ \E a \in Accesses : Call(c, a)
    PROVE  Room'
  <1> DEFINE b == access[c].b
  <1>1. /\ cache \in [Caches -> [Blocks -> Copies \cup {NULL}]]
        /\ cache' \in [Caches -> [Blocks -> Copies \cup {NULL}]]
        /\ DOMAIN pc = Caches
    BY StoresTyped DEF Typed
  <1>2. \A d \in Caches : RoomIn(d)
    BY DEF Room
  <1>3. ASSUME NEW d \in Caches, NEW y \in Blocks, Has(d, y)', ~Has(d, y)
        PROVE  d = c /\ Insert(c)
    <2>1. CASE Deliver(c) \/ Stored(c)
      <3>1. Replied(c, Head(todo[c])) \/ UNCHANGED cache
        BY <2>1 DEF Deliver, Stored
      <3>2. pc[c] # "idle" /\ todo[c] # <<>>
        BY <2>1 DEF Deliver, Stored, At, DInv, Occupied
      <3>3. UNCHANGED cache \/ \E e \in Caches, x \in Blocks : cache' = [cache EXCEPT ![e][x] = NULL]
        BY <3>1, <3>2, AnswerShape
      <3> QED BY <1>1, <1>3, <3>3 DEF Has
    <2>2. CASE Evict(c)
      <3>1. \E v \in Blocks : cache' = [cache EXCEPT ![c][v] = NULL]
        BY <2>2 DEF Evict, Neighbours
      <3> QED BY <1>1, <1>3, <3>1 DEF Has
    <2>3. CASE Use(c)
      <3>1. Has(c, b) /\ b \in Blocks
        BY <2>3, Accessing DEF Use, At, Placed, PlacedBy
      <3>2. UNCHANGED cache \/ \E x : cache' = [cache EXCEPT ![c][b] = x]
        BY <1>1, <2>3, <3>1 DEF Use
      <3> QED BY <1>1, <1>3, <3>1, <3>2 DEF Has
    <2>4. CASE DebugStep(c)
      <3>1. b \in Blocks
        BY <2>4, DebugChanges
      <3>2. UNCHANGED cache \/ (Has(c, b) /\ \E copy : cache' = [cache EXCEPT ![c][b] = copy])
        BY <2>4, DebugChanges
      <3> QED BY <1>1, <1>3, <3>1, <3>2 DEF Has
    <2>5. CASE Insert(c)
      <3>1. \A e \in Caches \ {c} : cache'[e] = cache[e]
        BY <1>1, <2>5 DEF Insert
      <3> QED BY <1>3, <2>5, <3>1 DEF Has
    <2>6. CASE ~(Deliver(c) \/ Stored(c) \/ Insert(c) \/ Use(c) \/ Evict(c) \/ DebugStep(c))
      <3>1. UNCHANGED cache
        BY <2>6 DEF Step, RequestStep, MessageStep, AccessStep, Call, Lookup, Lock, Serve, Grant,
             SendWaiting, Store, Enter, Load, StoreEvicted, Release, Through, Return
      <3> QED BY <1>3, <3>1 DEF Has
    <2> QED BY <2>1, <2>2, <2>3, <2>4, <2>5, <2>6
  <1>4. ASSUME NEW d \in Caches \ {c} PROVE RoomIn(d)'
    BY <1>2, <1>3, Elsewhere, RoomKept
  <1>5. ASSUME Insert(c) PROVE RoomIn(c)'
    <2>1. /\ pc[c] \in {"loaded", "insert"} /\ UNCHANGED access /\ pc'[c] = "use"
          /\ cache' = [cache EXCEPT ![c][b] = [data |-> block[c], dirty |-> access[c].cmd = "write"]]
      BY <1>1, <1>5 DEF Insert, At, Continue
    <2>2. b \in Blocks
      BY <2>1, Accessing
    <2>3. Cardinality(Neighbours(c, b)) < Ways
      BY <1>2, <1>5, <2>1 DEF Insert, At, HasRoom, RoomIn
    <2>4. ASSUME NEW y \in Blocks
          PROVE  IsFiniteSet(Neighbours(c, y)') /\ Cardinality(Neighbours(c, y)') <= Ways
      <3>1. \A v \in Blocks : Has(c, v)' => Has(c, v) \/ v = b
        BY <1>1, <2>1, <2>2 DEF Has
      <3>2. IsFiniteSet(Neighbours(c, y)) /\ IsFiniteSet(Neighbours(c, b))
            /\ Cardinality(Neighbours(c, y)) <= Ways
        BY <1>2, <2>2 DEF RoomIn
      <3>3. CASE Tag(y) = Tag(b)
        <4>1. Neighbours(c, y)' \subseteq Neighbours(c, b) \cup {b}
          BY <2>2, <3>1, <3>3 DEF Neighbours
        <4>2. /\ IsFiniteSet(Neighbours(c, b) \cup {b})
              /\ Cardinality(Neighbours(c, b) \cup {b}) <= Cardinality(Neighbours(c, b)) + 1
              /\ Cardinality(Neighbours(c, b)) \in Nat
              /\ Cardinality(Neighbours(c, b) \cup {b}) \in Nat
          <5>1. Cardinality(Neighbours(c, b)) \in Nat
            BY <3>2, FS_CardinalityType
          <5>2. /\ IsFiniteSet(Neighbours(c, b) \cup {b})
                /\ \/ Cardinality(Neighbours(c, b) \cup {b}) = Cardinality(Neighbours(c, b)) + 1
                   \/ Cardinality(Neighbours(c, b) \cup {b}) = Cardinality(Neighbours(c, b))
            BY <3>2, FS_AddElement
          <5> QED BY <5>1, <5>2
        <4>3. /\ IsFiniteSet(Neighbours(c, y)')
              /\ Cardinality(Neighbours(c, y)') <= Cardinality(Neighbours(c, b) \cup {b})
              /\ Cardinality(Neighbours(c, y)') \in Nat
          BY <4>1, <4>2, FS_Subset, FS_CardinalityType
        <4> QED BY <2>3, <4>2, <4>3, CacheAssumption
      <3>4. CASE Tag(y) # Tag(b)
        <4>1. Neighbours(c, y)' \subseteq Neighbours(c, y)
          BY <2>2, <3>1, <3>4 DEF Neighbours
        <4>2. /\ IsFiniteSet(Neighbours(c, y)')
              /\ Cardinality(Neighbours(c, y)') <= Cardinality(Neighbours(c, y))
              /\ Cardinality(Neighbours(c, y)') \in Nat /\ Cardinality(Neighbours(c, y)) \in Nat
          BY <3>2, <4>1, FS_Subset, FS_CardinalityType
        <4> QED BY <3>2, <4>2, CacheAssumption
      <3> QED BY <3>3, <3>4
    <2> QED BY <2>1, <2>4 DEF RoomIn
  <1>6. ASSUME Evict(c) PROVE RoomIn(c)'
    <2>1. PICK v \in Neighbours(c, b) : cache' = [cache EXCEPT ![c][v] = NULL]
      BY <1>6 DEF Evict
    <2>2. pc[c] = "loaded" /\ UNCHANGED access
      BY <1>6 DEF Evict, At
    <2>3. b \in Blocks
      BY <2>2, Accessing
    <2>4. ASSUME NEW y \in Blocks
          PROVE  /\ Neighbours(c, y)' \subseteq Neighbours(c, y)
                 /\ IsFiniteSet(Neighbours(c, y)') /\ Cardinality(Neighbours(c, y)') <= Ways
      <3>1. Neighbours(c, y)' \subseteq Neighbours(c, y)
        BY <1>1, <2>1 DEF Neighbours, Has
      <3>2. IsFiniteSet(Neighbours(c, y)) /\ Cardinality(Neighbours(c, y)) <= Ways
        BY <1>2 DEF RoomIn
      <3>3. /\ IsFiniteSet(Neighbours(c, y)')
            /\ Cardinality(Neighbours(c, y)') <= Cardinality(Neighbours(c, y))
            /\ Cardinality(Neighbours(c, y)') \in Nat /\ Cardinality(Neighbours(c, y)) \in Nat
        BY <3>1, <3>2, FS_Subset, FS_CardinalityType
      <3> QED BY <3>1, <3>2, <3>3, CacheAssumption
    <2>5. Cardinality(Neighbours(c, access[c].b))' < Ways
      <3>1. PICK y \in Blocks : y = b
        BY <2>3
      <3>2. IsFiniteSet(Neighbours(c, y)) /\ Cardinality(Neighbours(c, y)) <= Ways /\ v \in Neighbours(c, y)
        BY <1>2, <3>1 DEF RoomIn
      <3>3. Neighbours(c, y)' \subseteq Neighbours(c, y) \ {v}
        BY <1>1, <2>1, <2>4 DEF Neighbours, Has
      <3>4. /\ IsFiniteSet(Neighbours(c, y) \ {v})
            /\ Cardinality(Neighbours(c, y) \ {v}) = Cardinality(Neighbours(c, y)) - 1
            /\ Cardinality(Neighbours(c, y)) \in Nat
        BY <3>2, FS_RemoveElement, FS_CardinalityType
      <3>5. /\ Cardinality(Neighbours(c, y)') <= Cardinality(Neighbours(c, y) \ {v})
            /\ Cardinality(Neighbours(c, y)') \in Nat
        BY <3>3, <3>4, FS_Subset, FS_CardinalityType
      <3>6. Cardinality(Neighbours(c, y)') < Ways
        BY <3>2, <3>4, <3>5, CacheAssumption
      <3>7. Neighbours(c, access[c].b)' = Neighbours(c, y)'
        BY <2>2, <3>1 DEF Neighbours
      <3> QED BY <3>6, <3>7
    <2> QED BY <2>4, <2>5 DEF RoomIn
  <1>7. ASSUME ~Insert(c), ~Evict(c) PROVE RoomIn(c)'
    <2>1. \A y \in Blocks : Has(c, y)' => Has(c, y)
      BY <1>3, <1>7
    <2>2. pc'[c] \in {"evict", "insert"} => pc[c] \in {"evict", "insert"} /\ access'[c] = access[c]
      <3>1. CASE StoreEvicted(c)
        BY <3>1 DEF StoreEvicted, At
      <3>2. CASE Grant(c) \/ Release(c)
        BY <3>2 DEF Grant, Release, Notify
      <3>3. CASE \E d : Replied(c, d)
        BY <3>3 DEF Replied, Notify
      <3>4. CASE DebugStep(c)
        BY <1>1, <3>4 DEF DebugStep, DebugAsk, DebugLoad, DebugRead, DebugWrite, DebugStore, Continue, Wait
      <3>5. CASE ~(StoreEvicted(c) \/ Grant(c) \/ Release(c) \/ DebugStep(c) \/ \E d : Replied(c, d))
        BY <1>1, <1>7, <3>5 DEF Step, RequestStep, MessageStep, AccessStep, Call, Lookup, Lock, Serve,
             SendWaiting, Deliver, Store, Stored, Enter, Load, Use, Through, Return, Continue, Wait
      <3> QED BY <3>1, <3>2, <3>3, <3>4, <3>5
    <2> QED BY <1>2, <2>1, <2>2, RoomKept
  <1> QED BY <1>4, <1>5, <1>6, <1>7 DEF Room

\* The inductive invariant of TypeOK.
TInv == CInv /\ DInv /\ Typed /\ Placed /\ Room

\* Every step keeps the invariant.
LEMMA TInvStep == TInv /\ [Next]_vars => TInv'
  <1> SUFFICES ASSUME TInv, [Next]_vars PROVE TInv'
    OBVIOUS
  <1>1. CInv' /\ DInv'
    BY CInvStep, DInvStep DEF TInv
  <1>2. CASE UNCHANGED vars
    <2>1. UNCHANGED <<busy, system, memory, bus, cache, busyBus, busyDir, pc, access, found, todo, block,
                      evicted, result>>
      BY <1>2 DEF vars, directory, storage, control, locals
    <2>2. Typed'
      BY <2>1 DEF TInv, Typed
    <2>3. Placed'
      BY <2>1 DEF TInv, Placed, PlacedBy, Has
    <2>4. Room'
      BY <2>1 DEF TInv, Room, RoomIn, Neighbours, Has
    <2> QED BY <1>1, <2>2, <2>3, <2>4 DEF TInv
  <1>3. ASSUME NEW c \in Caches, Step(c) \/ \E a \in Accesses : Call(c, a) PROVE TInv'
    <2>1. Typed'
      BY <1>3, PlacesTyped, ControlTyped, StoresTyped DEF TInv, Typed
    <2>2. Placed'
      BY <1>3, OwnPlaced, OthersPlaced DEF TInv, Placed
    <2>3. Room'
      BY <1>3, RoomStep DEF TInv
    <2> QED BY <1>1, <2>1, <2>2, <2>3 DEF TInv
  <1> QED BY <1>2, <1>3 DEF Next

\* The caches are empty at first.
LEMMA InitTyped == Init => TInv
  <1> SUFFICES ASSUME Init PROVE TInv
    OBVIOUS
  <1>1. CInv
    BY DEF Init, DirectoryInit, CInv, Shape, OneServed, NobodyBetween, Users, ServedPlaces
  <1>2. Typed
    <2>1. busy \in BOOLEAN /\ system \in Systems /\ running \in Caches \cup {NULL}
      BY DEF Init, DirectoryInit
    <2>2. memory \in [Blocks -> Data]
      BY CacheAssumption DEF Init, Data
    <2>3. bus \in Seq(Transfers)
      BY DEF Init
    <2>4. cache \in [Caches -> [Blocks -> Copies \cup {NULL}]]
      BY DEF Init
    <2>5. busyBus \in [Caches -> BOOLEAN] /\ busyDir \in [Caches -> BOOLEAN] /\ pc \in [Caches -> Places]
      BY DEF Init, Places
    <2>6. /\ access \in [Caches -> Accesses \cup {NULL}] /\ found \in [Caches -> BOOLEAN]
          /\ block \in [Caches -> Data \cup {NULL}] /\ evicted \in [Caches -> Evictions \cup {NULL}]
          /\ result \in [Caches -> Values \cup {NULL}]
      BY DEF Init
    <2> QED BY <2>1, <2>2, <2>3, <2>4, <2>5, <2>6 DEF Typed
  <1>3. Placed
    BY DEF Init, Placed, PlacedBy, FilledPlaces
  <1>4. Room
    <2>1. ASSUME NEW c \in Caches, NEW b PROVE Neighbours(c, b) = {}
      BY DEF Init, Neighbours, Has
    <2>2. \A c \in Caches : pc[c] = "idle"
      BY DEF Init
    <2>3. IsFiniteSet({}) /\ Cardinality({}) = 0
      BY FS_EmptySet
    <2> QED BY <2>1, <2>2, <2>3, CacheAssumption DEF Room, RoomIn
  <1> QED BY <1>1, <1>2, <1>3, <1>4, InitKnows DEF TInv

\* The variables keep their types, whatever the policies and the interconnect; in particular
\* the blocks under a tag are never more than the ways, although the thread waits between the
\* test of their number, the eviction and the insertion, and other threads take blocks away.
THEOREM CachesNeverOverfull == Spec => []TypeOK
  <1>1. TInv => TypeOK
    <2>1. SUFFICES ASSUME TInv PROVE TypeOK
      OBVIOUS
    <2>2. DirectoryType /\ todo \in [Caches -> Seq(Caches)]
      BY <2>1 DEF TInv, DInv, Frames, CInv, Shape, Typed, DirectoryType
    <2>3. running \in Caches \cup {NULL}
      BY <2>1 DEF TInv, CInv, Shape
    <2>4. \A c \in Caches, b \in Blocks : Cardinality(Neighbours(c, b)) <= Ways
      BY <2>1 DEF TInv, Room, RoomIn
    <2> QED BY <2>1, <2>2, <2>3, <2>4 DEF TInv, Typed, TypeOK, Copies, Transfers, Evictions
  <1> QED
    BY <1>1, InitTyped, TInvStep, PTL DEF Spec
-----------------------------------------------------------------------------

\* The block b is x wherever the processors may see it, when caches have the blocks ca,
\* are storing ev, and the memory is me.
Agreed(ca, ev, me, b, x) ==
    /\ \A c \in Caches : ev[c] # NULL /\ ev[c].b = b => ev[c].data = x
    /\ \A c \in Caches : ca[c][b] # NULL => ca[c][b].data = x
    /\ (\A c \in Caches : ~(ev[c] # NULL /\ ev[c].b = b) /\ ca[c][b] = NULL) => me[b] = x

\* Contents, of these.
Latest(ca, ev, me, b) ==
    LET leaving == { c \in Caches : ev[c] # NULL /\ ev[c].b = b }
        holding == { c \in Caches : ca[c][b] # NULL }
    IN  IF leaving # {} THEN ev[CHOOSE c \in leaving : TRUE].data
        ELSE IF holding # {} THEN ca[CHOOSE c \in holding : TRUE][b].data
        ELSE me[b]

\* What all copies agree on is what the processors see.
LEMMA LatestIs ==
    ASSUME NEW ca, NEW ev, NEW me, NEW b, NEW x, Agreed(ca, ev, me, b, x)
    PROVE  Latest(ca, ev, me, b) = x
  <1> DEFINE leaving == { c \in Caches : ev[c] # NULL /\ ev[c].b = b }
             holding == { c \in Caches : ca[c][b] # NULL }
  <1>1. CASE leaving # {}
    <2>1. (CHOOSE c \in leaving : TRUE) \in leaving
      BY <1>1
    <2>2. ev[CHOOSE c \in leaving : TRUE].data = x
      BY <2>1 DEF Agreed
    <2> QED BY <1>1, <2>2 DEF Latest
  <1>2. CASE leaving = {} /\ holding # {}
    <2>1. (CHOOSE c \in holding : TRUE) \in holding
      BY <1>2
    <2>2. ca[CHOOSE c \in holding : TRUE][b].data = x
      BY <2>1 DEF Agreed
    <2> QED BY <1>2, <2>2 DEF Latest
  <1>3. CASE leaving = {} /\ holding = {}
    <2>1. me[b] = x
      BY <1>3 DEF Agreed
    <2> QED BY <1>3, <2>1 DEF Latest
  <1> QED BY <1>1, <1>2, <1>3

\* The same of a state.
LEMMA ContentsIs ==
    ASSUME NEW b, NEW x, Agreed(cache, evicted, memory, b, x)
    PROVE  Contents(b) = x
  <1>1. Contents(b) = Latest(cache, evicted, memory, b)
    BY DEF Contents, Latest, Has
  <1> QED BY <1>1, LatestIs

\* The same of the next state.
LEMMA ContentsBecome ==
    ASSUME NEW b, NEW x, Agreed(cache', evicted', memory', b, x)
    PROVE  Contents(b)' = x
  <1>1. Contents(b)' = Latest(cache', evicted', memory', b)
    BY DEF Contents, Latest, Has
  <1> QED BY <1>1, LatestIs

\* All copies of a block agree with its contents, which are in memory if nobody may differ.
LEMMA AllAgree ==
    ASSUME CInv, DInv, Coherent, Held, NEW b \in Blocks
    PROVE  /\ Agreed(cache, evicted, memory, b, Contents(b))
           /\ ~Sole(b) => memory[b] = Contents(b)
  <1>1. ASSUME NEW c \in Caches, evicted[c] # NULL, evicted[c].b = b
        PROVE  pc[c] = "evict" /\ ~Has(c, b) /\ Concerned(c, b)
    BY <1>1 DEF Held, HeldBy, Coherent, CopiesOf, Concerned
  <1>2. CASE ~Sole(b)
    <2>1. Agreed(cache, evicted, memory, b, memory[b])
      BY <1>1, <1>2 DEF Agreed, Coherent, CurrentIn, Has
    <2>2. Contents(b) = memory[b]
      BY <2>1, ContentsIs
    <2> QED BY <2>1, <2>2
  <1>3. CASE Sole(b)
    <2>1. PICK e \in Caches : \A c \in Caches : Concerned(c, b) => c = e
      BY <1>3, SoleOwner
    <2>2. \A c \in Caches : Has(c, b) => c = e
      BY <2>1 DEF Concerned
    <2>3. \A c \in Caches : evicted[c] # NULL /\ evicted[c].b = b => c = e /\ ~Has(e, b)
      BY <1>1, <2>1
    <2>4. PICK x : x = IF Has(e, b) THEN cache[e][b].data
                       ELSE IF evicted[e] # NULL /\ evicted[e].b = b THEN evicted[e].data
                       ELSE memory[b]
      OBVIOUS
    <2>5. Agreed(cache, evicted, memory, b, x)
      BY <2>2, <2>3, <2>4 DEF Agreed, Has
    <2>6. Contents(b) = x
      BY <2>5, ContentsIs
    <2> QED BY <1>3, <2>5, <2>6
  <1> QED BY <1>2, <1>3

\* The contents are those of a block.
LEMMA ContentsAreData ==
    ASSUME CInv, DInv, Coherent, Held, NEW b \in Blocks
    PROVE  Contents(b) \in Data
  <1>1. Agreed(cache, evicted, memory, b, Contents(b))
    BY AllAgree
  <1>2. \A c \in Caches : evicted[c] # NULL => evicted[c].data \in Data
    BY DEF Held, HeldBy
  <1>3. \A c \in Caches : cache[c][b] # NULL => cache[c][b].data \in Data
    BY DEF Held, HeldBy, Copies, Has
  <1>4. memory[b] \in Data
    BY DEF Held
  <1> QED BY <1>1, <1>2, <1>3, <1>4 DEF Agreed

\* What a cache that alone may have a block, and has not, would find in memory.
LEMMA ContentsInMemory ==
    ASSUME CInv, DInv, Coherent, Held, NEW b \in Blocks, NEW c \in Caches,
           Sole(b) => blockCachedIn[b] = <<c>>, ~Has(c, b),
           pc[c] = "evict" => evicted[c].b # b
    PROVE  memory[b] = Contents(b)
  <1>1. CASE ~Sole(b)
    BY <1>1, AllAgree
  <1>2. CASE Sole(b)
    <2>1. PICK e \in Caches : blockCachedIn[b] = <<e>> /\ \A d \in Caches : Concerned(d, b) => d = e
      BY <1>2, SoleOwner
    <2>2. e = c
      BY <1>2, <2>1
    <2>3. \A d \in Caches : ~Has(d, b)
      BY <2>1, <2>2 DEF Concerned
    <2>4. \A d \in Caches : evicted[d] # NULL => evicted[d].b # b
      BY <2>1, <2>2 DEF Held, HeldBy, Concerned
    <2> QED BY <2>3, <2>4, AllAgree DEF Agreed, Has
  <1> QED BY <1>1, <1>2

-----------------------------------------------------------------------------

\* A debug write has its block in the cache if it was there, works on the one in memory if not, and
\* stores that with its own word in it.
ModifiedBy(c) ==
    pc[c] \in AskingPlaces /\ access[c].dbg /\ access[c].cmd = "write" =>
        /\ found[c] => Has(c, access[c].b)
        /\ pc[c] = "dbgUse" => block[c] = memory[access[c].b]
        /\ pc[c] = "dbgStore" /\ ~found[c] =>
              block[c] = [memory[access[c].b] EXCEPT ![access[c].w] = access[c].v]
Modified == \A c \in Caches : ModifiedBy(c)

\* The inductive invariant of the refinement.
Inv == TInv /\ Coherent /\ Held /\ Modified

\* Where the memory changes, in the block that is accessed or had to leave for it.
LEMMA MemoryChanges ==
    ASSUME Inv, NEW c \in Caches, Step(c) \/ \E a \in Accesses : Call(c, a)
    PROVE  \/ UNCHANGED memory
           \/ pc[c] # "idle" /\ \E x : memory' = [memory EXCEPT ![access[c].b] = x]
           \/ pc[c] = "evict" /\ \E x : memory' = [memory EXCEPT ![evicted[c].b] = x]
  <1>1. ~Through(c)
    BY DEF Through, At, Inv, Coherent, Roles
  <1>2. CASE DebugStep(c)
    BY <1>2, DebugChanges DEF Inv, TInv
  <1>3. CASE Store(c) \/ StoreEvicted(c)
    BY <1>3 DEF Store, StoreEvicted, At
  <1>4. CASE ~(Store(c) \/ StoreEvicted(c) \/ DebugStep(c))
    BY <1>1, <1>4 DEF Step, RequestStep, MessageStep, AccessStep, Call, Lookup, Lock, Serve, Grant,
           SendWaiting, Deliver, Stored, Enter, Load, Insert, Evict, Use, Release, Return, storage
  <1> QED BY <1>2, <1>3, <1>4

\* A debug write is undisturbed by the steps of others.
LEMMA ModifiedElsewhere ==
    ASSUME Inv, Undisturbed, NEW c \in Caches, Step(c) \/ \E a \in Accesses : Call(c, a),
           NEW d \in Caches \ {c}
    PROVE  ModifiedBy(d)'
  <1>1. /\ \/ pc'[d] = pc[d]
           \/ pc[d] = "queued" /\ pc'[d] = "serve"
           \/ pc[d] = "awaitBus" /\ pc'[d] = "message"
           \/ pc[d] = "dbgWait" /\ pc'[d] = "lookup"
        /\ access'[d] = access[d] /\ found'[d] = found[d]
        /\ ~(Deliver(c) \/ Stored(c)) => cache'[d] = cache[d] /\ block'[d] = block[d]
    BY Elsewhere DEF Inv, TInv
  <1>2. SUFFICES ASSUME pc'[d] \in AskingPlaces, access[d].dbg, access[d].cmd = "write"
                 PROVE  /\ found[d] => Has(d, access[d].b)'
                        /\ pc'[d] = "dbgUse" => block'[d] = memory'[access[d].b]
                        /\ pc'[d] = "dbgStore" /\ ~found[d] =>
                              block'[d] = [memory'[access[d].b] EXCEPT ![access[d].w] = access[d].v]
    BY <1>1 DEF ModifiedBy
  <1>3. pc[d] \in AskingPlaces /\ pc[d] # "idle" /\ (pc'[d] \in PendingPlaces => pc'[d] = pc[d])
    BY <1>1, <1>2 DEF AskingPlaces, PendingPlaces, SendingPlaces
  <1>4. PICK b \in Blocks : b = access[d].b
    BY <1>3, Accessing DEF Inv, TInv
  <1>5. pc[c] # "idle" => access[c].b # b
    <2>1. access[d] \in Accesses /\ (pc[c] # "idle" => access[c] \in Accesses)
      BY <1>3, Accessing DEF Inv, TInv
    <2> QED BY <1>2, <1>4, <2>1, NullAssumption DEF Undisturbed
  <1>6. /\ found[d] => Has(d, b)
        /\ pc[d] = "dbgUse" => block[d] = memory[b]
        /\ pc[d] = "dbgStore" /\ ~found[d] => block[d] = [memory[b] EXCEPT ![access[d].w] = access[d].v]
    BY <1>2, <1>3, <1>4 DEF Inv, Modified, ModifiedBy
  <1>7. found[d] => Has(d, b)'
    <2>1. SUFFICES ASSUME Has(d, b), ~Has(d, b)' PROVE FALSE
      BY <1>6
    <2>2. (Deliver(c) \/ Stored(c)) /\ b = access[c].b
      BY <2>1, Leaving DEF Inv, TInv
    <2> QED BY <1>5, <2>2 DEF Deliver, Stored, At
  <1>8. pc[d] \in {"dbgUse", "dbgStore"} => memory'[b] = memory[b]
    <2>1. SUFFICES ASSUME pc[d] \in {"dbgUse", "dbgStore"} PROVE memory'[b] = memory[b]
      OBVIOUS
    <2>2. Writing(d)
      BY <1>2, <2>1 DEF Writing, PendingPlaces
    <2>3. blockCachedIn[b] = <<d>> /\ Sole(b)
      BY <1>4, <2>2 DEF Inv, Coherent, Writers
    <2>4. \A e \in Caches : Concerned(e, b) => e = d
      BY <2>3, SoleOwner DEF Inv, TInv
    <2>5. pc[c] = "evict" => evicted[c].b # b
      <3>1. pc[c] = "evict" => evicted[c] # NULL
        BY DEF Inv, Held, HeldBy
      <3> QED BY <2>4, <3>1 DEF Concerned
    <2>6. DOMAIN memory = Blocks
      BY DEF Inv, TInv, Typed
    <2> QED BY <1>5, <2>5, <2>6, MemoryChanges
  <1>9. ~found[d] => block'[d] = block[d]
    <2>1. CASE Deliver(c) \/ Stored(c)
      <3>1. MessageStep(c) /\ DOMAIN block = Caches
        BY <2>1 DEF MessageStep, Inv, TInv, Typed
      <3>2. \/ UNCHANGED block
            \/ \E e \in Caches, y \in Blocks :
                  block' = IF found[e] /\ access[e].b = y
                           THEN [block EXCEPT ![e] = cache[e][y].data] ELSE block
        BY <3>1, MessageShape DEF Inv, TInv
      <3> QED BY <3>1, <3>2
    <2> QED BY <1>1, <2>1
  <1>10. pc[d] = "dbgUse" => ~found[d]
    BY DEF Inv, Coherent, Roles, PendingPlaces
  <1>11. found[d] => Has(d, access[d].b)'
    BY <1>1, <1>4, <1>7 DEF Has
  <1>12. pc'[d] = "dbgUse" => block'[d] = memory'[access[d].b]
    BY <1>3, <1>4, <1>6, <1>8, <1>9, <1>10 DEF PendingPlaces
  <1>13. pc'[d] = "dbgStore" /\ ~found[d] =>
            block'[d] = [memory'[access[d].b] EXCEPT ![access[d].w] = access[d].v]
    BY <1>3, <1>4, <1>6, <1>8, <1>9 DEF PendingPlaces
  <1> QED BY <1>11, <1>12, <1>13

\* A debug write makes of its block what it has to.
LEMMA ModifiedHere ==
    ASSUME Inv, Undisturbed, NEW c \in Caches, Step(c) \/ \E a \in Accesses : Call(c, a)
    PROVE  ModifiedBy(c)'
  <1> DEFINE b == access[c].b
  <1>1. /\ DOMAIN pc = Caches /\ DOMAIN access = Caches /\ DOMAIN found = Caches
        /\ DOMAIN block = Caches /\ DOMAIN memory = Blocks
    BY DEF Inv, TInv, Typed
  <1>2. ModifiedBy(c)
    BY DEF Inv, Modified
  <1>3. ASSUME NEW a \in Accesses, Call(c, a) PROVE ModifiedBy(c)'
    <2>1. /\ access'[c] = a /\ UNCHANGED cache
          /\ \/ ~a.dbg
             \/ pc'[c] = "dbgWait"
             \/ pc'[c] = "lock" /\ found'[c] = Has(c, a.b)
      BY <1>1, <1>3 DEF Call, Continue, Wait, Sought
    <2> QED BY <2>1 DEF ModifiedBy, Has, AskingPlaces, PendingPlaces, SendingPlaces
  <1>4. CASE Lookup(c)
    <2>1. pc'[c] = "lock" /\ found'[c] = Has(c, b) /\ UNCHANGED <<access, cache>>
      BY <1>1, <1>4 DEF Lookup, Continue, Sought
    <2> QED BY <2>1 DEF ModifiedBy, Has
  <1>5. CASE Lock(c) \/ Serve(c) \/ Grant(c)
    <2>1. /\ pc[c] \in AskingPlaces /\ pc'[c] \in {"serve", "queued", "send", "dbg", "enter"}
          /\ UNCHANGED <<access, found, cache>>
      BY <1>1, <1>5 DEF Lock, Serve, Grant, At, Continue, Wait, Notify, AskingPlaces, SendingPlaces, locals
    <2> QED BY <1>2, <2>1 DEF ModifiedBy, Has
  <1>6. CASE MessageStep(c)
    <2>1. /\ UNCHANGED <<access, found>>
          /\ pc[c] \in SendingPlaces /\ pc'[c] \in SendingPlaces
      BY <1>6, MessageShape DEF Inv, TInv
    <2>2. b \in Blocks
      BY <2>1, Accessing DEF Inv, TInv, SendingPlaces
    <2>3. Has(c, b) => Has(c, b)'
      <3>1. SUFFICES ASSUME NEW y \in Blocks, y = b, Has(c, y), ~Has(c, y)' PROVE FALSE
        BY <2>1, <2>2 DEF Has
      <3>2. Deliver(c) \/ Stored(c) \/ Evict(c)
        BY <3>1, Leaving DEF Inv, TInv
      <3>3. ~Evict(c)
        BY <2>1 DEF Evict, At, SendingPlaces
      <3>4. c = Head(todo[c])
        BY <3>1, <3>3, Leaving DEF Inv, TInv
      <3>5. todo[c] \in Seq(Caches) /\ todo[c] # <<>>
        BY <3>2, <3>3 DEF Deliver, Stored, At, Inv, TInv, DInv, Frames, Occupied
      <3>6. Head(todo[c]) \in ToSet(todo[c])
        BY <3>5 DEF ToSet
      <3> QED BY <2>1, <3>4, <3>6 DEF Inv, TInv, DInv, Progress
    <2> QED BY <1>2, <2>1, <2>3 DEF ModifiedBy, AskingPlaces, SendingPlaces
  <1>7. CASE AccessStep(c)
    <2>1. pc'[c] \in {"use", "release", "load", "loaded", "insert", "evict", "through", "done", "idle"}
      BY <1>1, <1>7 DEF AccessStep, Enter, Load, Insert, Evict, StoreEvicted, Use, Release, Through, Return,
         Continue, Wait, Notify
    <2> QED BY <2>1 DEF ModifiedBy, AskingPlaces, PendingPlaces, SendingPlaces
  <1>8. CASE DebugStep(c)
    <2>1. /\ access[c] \in Accesses /\ b \in Blocks /\ access[c].dbg /\ UNCHANGED access
          /\ pc[c] \in {"dbg"} \cup PendingPlaces
          /\ pc[c] \in {"dbgLoad", "dbgUse"} => ~found[c]
          /\ found[c] \in BOOLEAN
      BY <1>8, DebugFrame DEF Inv, TInv, Held, HeldBy
    <2>2. access[c].cmd = "write" /\ found[c] => Has(c, b)
      BY <1>2, <2>1 DEF ModifiedBy, AskingPlaces
    <2>3. CASE DebugAsk(c)
      <3>1. pc'[c] = "dbgLoad" /\ ~found'[c]
        BY <1>1, <2>3 DEF DebugAsk, Wait, locals
      <3> QED BY <3>1 DEF ModifiedBy
    <2>4. CASE DebugLoad(c)
      <3>1. pc'[c] = "dbgUse" /\ ~found'[c] /\ block'[c] = memory[b] /\ UNCHANGED memory
        BY <1>1, <2>1, <2>4 DEF DebugLoad, At, Wait, Continue
      <3> QED BY <2>1, <3>1 DEF ModifiedBy
    <2>5. CASE DebugRead(c) \/ DebugStore(c)
      <3>1. pc'[c] = "done"
        BY <1>1, <2>5 DEF DebugRead, DebugStore, Wait
      <3> QED BY <3>1 DEF ModifiedBy, AskingPlaces, PendingPlaces, SendingPlaces
    <2>6. CASE DebugWrite(c)
      <3>1. PICK data \in Data :
              /\ data = [DebugData(c) EXCEPT ![access[c].w] = access[c].v]
              /\ UNCHANGED <<memory, found>> /\ access[c].cmd = "write" /\ pc'[c] = "dbgStore"
              /\ \/ /\ ~(found[c] /\ Has(c, b)) /\ UNCHANGED cache
                    /\ block'[c] = data
                 \/ /\ found[c] /\ Has(c, b) /\ UNCHANGED block
                    /\ \E dirty \in BOOLEAN : cache'[c][b] = [data |-> data, dirty |-> dirty]
        BY <2>6, DebugWrites DEF Inv, TInv
      <3>2. CASE found[c]
        <4>1. PICK dirty \in BOOLEAN : cache'[c][b] = [data |-> data, dirty |-> dirty]
          BY <2>2, <3>1, <3>2
        <4>2. cache'[c][b] \in Copies
          BY <4>1 DEF Copies
        <4>3. Has(c, access[c].b)'
          BY <2>1, <4>2, NullAssumption DEF Has, Copies, Data
        <4> QED BY <2>1, <3>1, <3>2, <4>3 DEF ModifiedBy
      <3>3. CASE ~found[c]
        <4>1. pc[c] = "dbgUse"
          BY <2>6, <3>3 DEF DebugWrite, DebugBegins, At
        <4>2. DebugData(c) = memory[b]
          BY <1>2, <2>1, <3>1, <3>3, <4>1 DEF DebugData, ModifiedBy, AskingPlaces, PendingPlaces
        <4> QED BY <2>1, <3>1, <3>3, <4>2 DEF ModifiedBy
      <3> QED BY <2>1, <3>2, <3>3
    <2> QED BY <1>8, <2>3, <2>4, <2>5, <2>6 DEF DebugStep
  <1> QED BY <1>3, <1>4, <1>5, <1>6, <1>7, <1>8 DEF Step, RequestStep

\* Every step that disturbs no debug write keeps the invariant.
LEMMA InvStep ==
    ASSUME Inv, WriteBackOnly, Undisturbed, [Next]_vars
    PROVE  Inv'
  <1>1. TInv' /\ Coherent' /\ Held'
    BY TInvStep, CoherentStep, HeldStep DEF Inv, TInv
  <1>2. CASE UNCHANGED vars
    <2>1. UNCHANGED <<pc, access, found, cache, block, memory>>
      BY <1>2 DEF vars, storage, control, locals
    <2>2. Modified'
      BY <2>1 DEF Inv, Modified, ModifiedBy, Has
    <2> QED BY <1>1, <2>2 DEF Inv
  <1>3. ASSUME NEW c \in Caches, Step(c) \/ \E a \in Accesses : Call(c, a) PROVE Modified'
    BY <1>3, ModifiedElsewhere, ModifiedHere DEF Modified
  <1> QED BY <1>1, <1>2, <1>3 DEF Next, Inv

\* No debug write is under way at first.
LEMMA InitInv == Init => Inv
  <1>1. Init => Modified
    BY DEF Init, Modified, ModifiedBy, AskingPlaces, PendingPlaces, SendingPlaces
  <1> QED BY <1>1, InitTyped, InitCoherent, InitHeld DEF Inv, TInv

-----------------------------------------------------------------------------
(* The steps of AtomicMemory *)

\* Where an access whose cache writes back has taken effect, if transport_dbg is not looking.
EffectPlaces == {"done", "release"}
Written(c) == pc[c] \in EffectPlaces \/ (pc[c] = "dbgStore" /\ found[c])

\* Which accesses have taken effect.
LEMMA EffectIs ==
    ASSUME Coherent, WriteBackOnly, NEW c \in Caches
    PROVE  TakenEffect(c) = (Written(c) \/ Looking(c))
  <1>1. pc[c] # "through" /\ system.policy[c] = "BACK"
    BY DEF Coherent, Roles, WriteBackOnly
  <1> QED BY <1>1 DEF TakenEffect, Written, EffectPlaces

\* The same in the next state.
LEMMA EffectBecomes ==
    ASSUME Coherent', WriteBackOnly, NEW c \in Caches
    PROVE  TakenEffect(c)' = (Written(c)' \/ Looking(c)')
  <1>1. pc'[c] # "through" /\ system'.policy[c] = "BACK"
    BY DEF Coherent, Roles, WriteBackOnly
  <1> QED BY <1>1 DEF TakenEffect, Written, EffectPlaces

\* The variables of AtomicMemory.
Stores  == [b \in Blocks |-> Contents(b)]
Effects == [c \in Caches |-> TakenEffect(c)]
Results == [c \in Caches |-> Seen(c)]

\* A step is one of AtomicMemory or none.
Mapped == Memory!Next \/ UNCHANGED <<Stores, access, Effects, Results>>

\* An access that a step leaves alone, and one that looks at what the memory is after it.
Quiet(d) == TakenEffect(d)' = TakenEffect(d) /\ Seen(d)' = Seen(d)
Looks(d) ==
    /\ access[d] # NULL /\ access[d].cmd = "read"
    /\ TakenEffect(d)' = TRUE
    /\ Seen(d)' = Stores'[access[d].b][access[d].w]

\* A step that only begins an access.
LEMMA CallMaps ==
    ASSUME NEW c \in Caches, NEW a \in Accesses,
           access[c] = NULL, access' = [access EXCEPT ![c] = a],
           \A b \in Blocks : Contents(b)' = Contents(b),
           \A d \in Caches : Quiet(d)
    PROVE  Mapped
  <1>1. UNCHANGED <<Stores, Effects, Results>>
    BY DEF Stores, Effects, Results, Quiet
  <1>2. Memory!Call(c, a)
    BY <1>1 DEF Memory!Call, Stores, Effects, Results
  <1> QED BY <1>2 DEF Mapped, Memory!Next

\* Those who look, and those who do not.
LEMMA LooksAre ==
    ASSUME NEW S, S = { d \in Caches : Looks(d) }
    PROVE  /\ \A d \in S : d \in Caches /\ access[d] # NULL /\ access[d].cmd = "read"
           /\ (\A d \in Caches : Seen(d)' = Seen(d) \/ Looks(d)) =>
                 Results' = [d \in Caches |-> IF d \in S THEN Stores'[access[d].b][access[d].w] ELSE Results[d]]
           /\ \A d \in S : TakenEffect(d)' = TRUE
           /\ \A d \in Caches \ S : ~Looks(d)
  <1>1. \A d \in S : d \in Caches /\ Looks(d)
    OBVIOUS
  <1>2. \A d \in Caches \ S : ~Looks(d)
    OBVIOUS
  <1>3. ASSUME \A d \in Caches : Seen(d)' = Seen(d) \/ Looks(d), NEW d \in Caches
        PROVE  Results'[d] = IF d \in S THEN Stores'[access[d].b][access[d].w] ELSE Results[d]
    BY <1>1, <1>2, <1>3 DEF Results, Looks
  <1>4. Results' = [d \in Caches |-> Results'[d]]
    BY DEF Results
  <1>5. \A d \in S : access[d] # NULL /\ access[d].cmd = "read" /\ TakenEffect(d)' = TRUE
    BY <1>1 DEF Looks
  <1>6. (\A d \in Caches : Seen(d)' = Seen(d) \/ Looks(d)) =>
           Results' = [d \in Caches |-> IF d \in S THEN Stores'[access[d].b][access[d].w] ELSE Results[d]]
    BY <1>3, <1>4, Zenon
  <1> QED BY <1>1, <1>2, <1>5, <1>6

\* A step that changes no contents, after which some accesses look again.
LEMMA LooksMap ==
    ASSUME UNCHANGED access,
           \A b \in Blocks : Contents(b)' = Contents(b),
           \A d \in Caches : Quiet(d) \/ Looks(d)
    PROVE  Mapped
  <1> DEFINE S == { d \in Caches : Looks(d) }
  <1>1. UNCHANGED Stores
    BY DEF Stores
  <1>2. /\ \A d \in S : d \in Caches /\ access[d] # NULL /\ access[d].cmd = "read"
        /\ (\A d \in Caches : Seen(d)' = Seen(d) \/ Looks(d)) =>
                 Results' = [d \in Caches |-> IF d \in S THEN Stores'[access[d].b][access[d].w] ELSE Results[d]]
        /\ \A d \in S : TakenEffect(d)' = TRUE
        /\ \A d \in Caches \ S : ~Looks(d)
    BY LooksAre
  <1> HIDE DEF S
  <1>3. ASSUME NEW d \in Caches PROVE TakenEffect(d)' = (d \in {} \cup S \/ TakenEffect(d))
    <2>1. TakenEffect(d) \in BOOLEAN
      BY DEF TakenEffect
    <2>2. CASE d \in S
      BY <1>2, <2>2
    <2>3. CASE d \notin S
      BY <1>2, <2>1, <2>3 DEF Quiet
    <2> QED BY <2>2, <2>3
  <1>4. Effects' = [d \in Caches |-> d \in {} \cup S \/ Effects[d]]
    BY <1>3 DEF Effects
  <1>5. \A d \in Caches : Seen(d)' = Seen(d) \/ Looks(d)
    BY DEF Quiet
  <1>6. Results' = [d \in Caches |-> IF d \in S THEN Stores'[access[d].b][access[d].w] ELSE Results[d]]
    BY <1>2, <1>5
  <1>7. Memory!Look(S)
    BY <1>2, <1>6 DEF Memory!Look, Stores, Results
  <1>8. Memory!Perform({}, S)
    BY <1>1, <1>4, <1>7 DEF Memory!Perform, Stores, Effects
  <1>9. S \in SUBSET Caches
    BY <1>2
  <1> QED BY <1>8, <1>9 DEF Mapped, Memory!Next

\* A step that writes a word of the contents, after which some accesses look again.
LEMMA WriteMaps ==
    ASSUME NEW c \in Caches, UNCHANGED access, access[c] # NULL, access[c].cmd = "write",
           access[c].b \in Blocks,
           Contents(access[c].b)' = [Contents(access[c].b) EXCEPT ![access[c].w] = access[c].v],
           \A b \in Blocks \ {access[c].b} : Contents(b)' = Contents(b),
           ~TakenEffect(c), TakenEffect(c)' = TRUE, Seen(c)' = Seen(c),
           \A d \in Caches \ {c} : Quiet(d) \/ Looks(d)
    PROVE  Mapped
  <1> DEFINE S == { d \in Caches : Looks(d) }
  <1>1. Stores' = [Stores EXCEPT ![access[c].b] = [Contents(access[c].b) EXCEPT ![access[c].w] = access[c].v]]
    BY DEF Stores
  <1>2. Stores' = [Stores EXCEPT ![access[c].b][access[c].w] = access[c].v]
    BY <1>1 DEF Stores
  <1>3. /\ \A d \in S : d \in Caches /\ access[d] # NULL /\ access[d].cmd = "read"
        /\ (\A d \in Caches : Seen(d)' = Seen(d) \/ Looks(d)) =>
                 Results' = [d \in Caches |-> IF d \in S THEN Stores'[access[d].b][access[d].w] ELSE Results[d]]
        /\ \A d \in S : TakenEffect(d)' = TRUE
        /\ \A d \in Caches \ S : ~Looks(d)
    BY LooksAre
  <1> HIDE DEF S
  <1>4. ASSUME NEW d \in Caches PROVE TakenEffect(d)' = (d \in {c} \cup S \/ TakenEffect(d))
    <2>1. TakenEffect(d) \in BOOLEAN
      BY DEF TakenEffect
    <2>2. CASE d \in {c} \cup S
      BY <1>3, <2>2
    <2>3. CASE d \notin {c} \cup S
      <3>1. Quiet(d)
        BY <1>3, <2>3
      <3> QED BY <2>1, <2>3, <3>1 DEF Quiet
    <2> QED BY <2>2, <2>3
  <1>5. Effects' = [d \in Caches |-> d \in {c} \cup S \/ Effects[d]]
    BY <1>4 DEF Effects
  <1>6. \A d \in Caches : Seen(d)' = Seen(d) \/ Looks(d)
    BY DEF Quiet
  <1>7. Results' = [d \in Caches |-> IF d \in S THEN Stores'[access[d].b][access[d].w] ELSE Results[d]]
    BY <1>3, <1>6
  <1>8. Memory!Look(S)
    BY <1>3, <1>7 DEF Memory!Look, Stores, Results
  <1>9. Memory!Write(c)
    <2>1. ~Effects[c]
      BY DEF Effects
    <2> QED BY <1>2, <2>1 DEF Memory!Write, Stores, Effects
  <1>10. Memory!Perform({c}, S)
    BY <1>5, <1>8, <1>9 DEF Memory!Perform, Stores, Effects
  <1>11. S \in SUBSET Caches /\ {c} \in SUBSET Caches
    BY <1>3
  <1> QED BY <1>10, <1>11 DEF Mapped, Memory!Next

\* A step that only ends an access that has taken effect.
LEMMA ReturnMaps ==
    ASSUME NEW c \in Caches, access' = [access EXCEPT ![c] = NULL],
           TakenEffect(c), TakenEffect(c)' = FALSE, Seen(c)' = NULL,
           \A b \in Blocks : Contents(b)' = Contents(b),
           \A d \in Caches \ {c} : Quiet(d)
    PROVE  Mapped
  <1>1. UNCHANGED Stores
    BY DEF Stores
  <1>2. Effects' = [Effects EXCEPT ![c] = FALSE]
    BY DEF Effects, Quiet
  <1>3. Results' = [Results EXCEPT ![c] = NULL]
    BY DEF Results, Quiet
  <1>4. Effects[c]
    BY DEF Effects
  <1>5. Memory!Return(c)
    BY <1>1, <1>2, <1>3, <1>4 DEF Memory!Return, Stores, Effects, Results
  <1> QED BY <1>5 DEF Mapped, Memory!Next

-----------------------------------------------------------------------------

\* An access that a step leaves where it is, with what it looks at.
LEMMA OthersQuiet ==
    ASSUME Coherent, Coherent', WriteBackOnly, NEW d \in Caches,
           \A x \in EffectPlaces \cup PendingPlaces : pc'[d] = x <=> pc[d] = x,
           access'[d] = access[d], found'[d] = found[d], result'[d] = result[d],
           access[d] # NULL /\ access[d].cmd = "read" =>
              /\ found[d] => (Has(d, access[d].b)' <=> Has(d, access[d].b))
              /\ found[d] \/ pc[d] = "dbgUse" => block'[d] = block[d]
              /\ pc[d] = "dbgLoad" => memory'[access[d].b] = memory[access[d].b]
    PROVE  Quiet(d) /\ (Looking(d)' <=> Looking(d))
  <1>1. Written(d)' <=> Written(d)
    BY DEF Written, EffectPlaces, PendingPlaces
  <1>2. Looking(d)' <=> Looking(d)
    BY DEF Looking, Overtaken, PendingPlaces
  <1>3. TakenEffect(d)' = TakenEffect(d)
    BY <1>1, <1>2, EffectIs, EffectBecomes
  <1>4. Seen(d)' = Seen(d)
    <2>1. CASE ~Looking(d)
      BY <1>2, <2>1 DEF Seen
    <2>2. CASE Looking(d) /\ pc[d] = "dbgLoad"
      BY <1>2, <2>2 DEF Seen, Looking, PendingPlaces
    <2>3. CASE Looking(d) /\ pc[d] # "dbgLoad"
      <3>1. block'[d] = block[d]
        BY <2>3 DEF Looking, Overtaken
      <3> QED BY <1>2, <2>3, <3>1 DEF Seen, PendingPlaces
    <2> QED BY <2>1, <2>2, <2>3
  <1> QED BY <1>2, <1>3, <1>4 DEF Quiet

\* The same, where the block may have come to memory that a debug read is about to load.
LEMMA OthersMap ==
    ASSUME Inv, Coherent', WriteBackOnly, NEW d \in Caches,
           \A x \in EffectPlaces \cup PendingPlaces : pc'[d] = x <=> pc[d] = x,
           access'[d] = access[d], found'[d] = found[d], result'[d] = result[d],
           access[d] # NULL /\ access[d].cmd = "read" =>
              /\ found[d] => (Has(d, access[d].b)' <=> Has(d, access[d].b))
              /\ found[d] \/ pc[d] = "dbgUse" => block'[d] = block[d],
           \A y \in Blocks : memory'[y] = memory[y] \/ memory'[y] = Contents(y)'
    PROVE  Quiet(d) \/ Looks(d)
  <1>1. CASE access[d] # NULL /\ access[d].cmd = "read" /\ pc[d] = "dbgLoad"
    <2>1. PICK b \in Blocks : b = access[d].b
      BY <1>1, Accessing DEF Inv, TInv
    <2>2. CASE memory'[b] = memory[b]
      BY <1>1, <2>1, <2>2, OthersQuiet DEF Inv
    <2>3. CASE memory'[b] = Contents(b)'
      <3>1. pc'[d] = "dbgLoad" /\ Looking(d)'
        BY <1>1 DEF Looking, PendingPlaces
      <3>2. TakenEffect(d)' = TRUE
        BY <3>1, EffectBecomes
      <3>3. Seen(d)' = memory'[b][access[d].w]
        BY <2>1, <3>1 DEF Seen
      <3>4. Stores'[b] = Contents(b)'
        BY <2>1 DEF Stores
      <3> QED BY <1>1, <2>1, <2>3, <3>2, <3>3, <3>4 DEF Looks
    <2> QED BY <2>1, <2>2, <2>3
  <1>2. CASE ~(access[d] # NULL /\ access[d].cmd = "read" /\ pc[d] = "dbgLoad")
    BY <1>2, OthersQuiet DEF Inv
  <1> QED BY <1>1, <1>2

\* A step that changes no access, and no contents.
LEMMA QuietMaps ==
    ASSUME Inv, WriteBackOnly, Coherent', UNCHANGED <<access, found, result>>,
           \A d \in Caches, x \in EffectPlaces \cup PendingPlaces : pc'[d] = x <=> pc[d] = x,
           \A d \in Caches : access[d] # NULL /\ access[d].cmd = "read" =>
              /\ found[d] => (Has(d, access[d].b)' <=> Has(d, access[d].b))
              /\ found[d] \/ pc[d] = "dbgUse" => block'[d] = block[d],
           \A b \in Blocks : memory'[b] = memory[b] \/ memory'[b] = Contents(b),
           \A b \in Blocks : Agreed(cache', evicted', memory', b, Contents(b))
    PROVE  Mapped
  <1>1. \A b \in Blocks : Contents(b)' = Contents(b)
    BY ContentsBecome
  <1>2. \A b \in Blocks : memory'[b] = memory[b] \/ memory'[b] = Contents(b)'
    BY <1>1
  <1>3. ASSUME NEW d \in Caches PROVE Quiet(d) \/ Looks(d)
    BY <1>2, OthersMap
  <1> QED BY <1>1, <1>3, LooksMap

\* The same, when blocks stay where they are.
LEMMA ControlMaps ==
    ASSUME Inv, WriteBackOnly, Coherent',
           UNCHANGED <<access, found, result, cache, evicted, memory>>,
           \A d \in Caches, x \in EffectPlaces \cup PendingPlaces : pc'[d] = x <=> pc[d] = x,
           \A d \in Caches : found[d] \/ pc[d] = "dbgUse" => block'[d] = block[d]
    PROVE  Mapped
  <1>1. \A b \in Blocks : Agreed(cache', evicted', memory', b, Contents(b))
    BY AllAgree DEF Inv, TInv
  <1>2. \A d \in Caches : Has(d, access[d].b)' <=> Has(d, access[d].b)
    BY DEF Has
  <1> QED BY <1>1, <1>2, QuietMaps

\* An access begins, and nobody sees how it gets its privilege.
LEMMA RequestMaps ==
    ASSUME Inv, WriteBackOnly, Coherent', NEW c \in Caches,
           (\E a \in Accesses : Call(c, a)) \/ RequestStep(c)
    PROVE  Mapped
  <1>1. /\ DOMAIN pc = Caches /\ DOMAIN access = Caches /\ DOMAIN found = Caches
        /\ HeldBy(c)
    BY DEF Inv, TInv, CInv, Shape, DInv, Frames, Held
  <1>2. ASSUME UNCHANGED <<cache, evicted, memory>> PROVE \A b \in Blocks : Contents(b)' = Contents(b)
    BY <1>2 DEF Contents, Has
  <1>3. ASSUME NEW x, x \notin EffectPlaces \cup PendingPlaces, pc[c] \notin EffectPlaces \cup PendingPlaces,
               pc' = [pc EXCEPT ![c] = x],
               UNCHANGED <<cache, evicted, memory, block, result>>,
               ~Overtaken(c), ~Overtaken(c)',
               \A d \in Caches \ {c} : access'[d] = access[d] /\ found'[d] = found[d]
        PROVE  \A d \in Caches : Quiet(d)
    <2>1. ASSUME NEW d \in Caches \ {c} PROVE Quiet(d)
      <3>1. \A y \in EffectPlaces \cup PendingPlaces : pc'[d] = y <=> pc[d] = y
        BY <1>1, <1>3
      <3>2. access'[d] = access[d] /\ (Has(d, access[d].b)' <=> Has(d, access[d].b))
        BY <1>3 DEF Has
      <3> QED BY <1>3, <3>1, <3>2, OthersQuiet DEF Inv
    <2>2. Quiet(c)
      <3>1. ~Looking(c) /\ ~Looking(c)' /\ ~Written(c) /\ ~Written(c)'
        BY <1>1, <1>3 DEF Looking, Written, PendingPlaces
      <3>2. Seen(c)' = Seen(c)
        BY <1>3, <3>1 DEF Seen
      <3> QED BY <3>1, <3>2, EffectIs, EffectBecomes DEF Quiet, Inv
    <2> QED BY <2>1, <2>2
  <1>4. ASSUME NEW a \in Accesses, Call(c, a) PROVE Mapped
    <2>1. PICK x \in {"lock", "dbgWait"} :
              /\ pc' = [pc EXCEPT ![c] = x]
              /\ UNCHANGED found \/ found' = [found EXCEPT ![c] = Has(c, a.b)]
      BY <1>4 DEF Call, Continue, Wait, Sought
    <2>2. /\ pc[c] = "idle" /\ access' = [access EXCEPT ![c] = a]
          /\ UNCHANGED <<memory, cache, block, evicted, result>>
      BY <1>4 DEF Call, At, storage
    <2>3. ~found[c] /\ access[c] = NULL
      BY <1>1, <2>2 DEF HeldBy, AskingPlaces, PendingPlaces, SendingPlaces
    <2>4. access'[c] = a /\ \A d \in Caches \ {c} : access'[d] = access[d] /\ found'[d] = found[d]
      <3>1. CASE UNCHANGED found
        BY <1>1, <2>2, <3>1
      <3>2. CASE found' = [found EXCEPT ![c] = Has(c, a.b)]
        BY <1>1, <2>2, <3>2
      <3> QED BY <2>1, <3>1, <3>2
    <2>5. ~Overtaken(c)
      BY <2>3 DEF Overtaken
    <2>6. ~Overtaken(c)'
      <3>1. CASE UNCHANGED found
        BY <2>3, <3>1 DEF Overtaken
      <3>2. CASE found' = [found EXCEPT ![c] = Has(c, a.b)]
        <4>1. found'[c] = Has(c, a.b)
          BY <1>1, <3>2
        <4> QED BY <2>2, <2>4, <4>1 DEF Overtaken, Has
      <3> QED BY <2>1, <3>1, <3>2
    <2>7. x \notin EffectPlaces \cup PendingPlaces /\ pc[c] \notin EffectPlaces \cup PendingPlaces
      BY <2>2 DEF EffectPlaces, PendingPlaces
    <2>8. \A d \in Caches : Quiet(d)
      BY <1>3, <2>1, <2>2, <2>4, <2>5, <2>6, <2>7
    <2> QED BY <1>2, <2>2, <2>3, <2>8, CallMaps
  <1>5. CASE Lookup(c)
    <2>1. /\ pc[c] = "lookup" /\ pc' = [pc EXCEPT ![c] = "lock"]
          /\ found' = [found EXCEPT ![c] = Has(c, access[c].b)]
          /\ UNCHANGED <<memory, cache, block, evicted, result, access>>
      BY <1>5 DEF Lookup, At, Sought, Continue, storage
    <2>2. ~found[c] /\ found'[c] = Has(c, access[c].b)
          /\ \A d \in Caches \ {c} : found'[d] = found[d]
      BY <1>1, <2>1 DEF HeldBy, AskingPlaces, PendingPlaces, SendingPlaces
    <2>3. ~Overtaken(c) /\ ~Overtaken(c)'
      BY <2>1, <2>2 DEF Overtaken, Has
    <2>4. \A d \in Caches : Quiet(d)
      BY <1>3, <2>1, <2>2, <2>3 DEF EffectPlaces, PendingPlaces
    <2> QED BY <1>2, <2>1, <2>4, LooksMap
  <1>6. CASE Lock(c) \/ Serve(c)
    <2>1. PICK x \in {"serve", "queued", "send"} : pc' = [pc EXCEPT ![c] = x]
      BY <1>6 DEF Lock, Serve, Continue, Wait
    <2>2. pc[c] \in {"lock", "serve"} /\ UNCHANGED <<memory, cache, evicted, access, found, block, result>>
      BY <1>6 DEF Lock, Serve, At, storage, locals
    <2>3. \A d \in Caches, y \in EffectPlaces \cup PendingPlaces : pc'[d] = y <=> pc[d] = y
      BY <1>1, <2>1, <2>2 DEF EffectPlaces, PendingPlaces
    <2> QED BY <2>2, <2>3, ControlMaps
  <1>7. CASE Grant(c)
    <2>1. /\ pc[c] = "send" /\ UNCHANGED <<memory, cache, evicted, access, found, block, result>>
          /\ Notify(c, IF access[c].dbg THEN "dbg" ELSE "enter", Awakened, "serve")
      BY <1>7 DEF Grant, At, storage, locals
    <2>2. /\ pc'[c] \in {"dbg", "enter"}
          /\ \A d \in Caches \ {c} : pc'[d] = IF d \in Awakened THEN "serve" ELSE pc[d]
      BY <2>1 DEF Notify
    <2>3. \A d \in Awakened : pc[d] = "queued"
      BY HeadTailProperties DEF Awakened, Inv, TInv, CInv, OneServed, Shape
    <2>4. \A d \in Caches, y \in EffectPlaces \cup PendingPlaces : pc'[d] = y <=> pc[d] = y
      BY <2>1, <2>2, <2>3 DEF EffectPlaces, PendingPlaces
    <2> QED BY <2>1, <2>4, ControlMaps
  <1> QED BY <1>4, <1>5, <1>6, <1>7 DEF RequestStep

\* A message may take its block from a debug read: it returns what the block was.
LEMMA MessageMaps ==
    ASSUME Inv, WriteBackOnly, Undisturbed, Coherent', NEW c \in Caches, MessageStep(c)
    PROVE  Mapped
  <1>1. /\ UNCHANGED <<access, found, evicted, result>>
        /\ pc[c] \in SendingPlaces /\ pc'[c] \in SendingPlaces
        /\ \A e \in Caches \ {c} : pc'[e] = pc[e] \/ (pc[e] = "dbgWait" /\ pc'[e] = "lookup")
    BY MessageShape DEF Inv, TInv
  <1>2. \A e \in Caches, y \in EffectPlaces \cup PendingPlaces : pc'[e] = y <=> pc[e] = y
    BY <1>1 DEF EffectPlaces, PendingPlaces, SendingPlaces
  <1>3. CASE UNCHANGED <<memory, cache, block>>
    BY <1>1, <1>2, <1>3, ControlMaps
  <1>4. ASSUME NEW h \in Caches, NEW b \in Blocks, Has(h, b),
               memory' = [memory EXCEPT ![b] = cache[h][b].data], UNCHANGED <<cache, block>>
        PROVE  Mapped
    <2>1. /\ \A y \in Blocks : memory'[y] = IF y = b THEN cache[h][b].data ELSE memory[y]
          /\ cache[h][b].data = Contents(b)
      BY <1>4, AllAgree DEF Inv, TInv, Held, Agreed, Has
    <2>2. ASSUME NEW y \in Blocks PROVE Agreed(cache', evicted', memory', y, Contents(y))
      <3>1. Agreed(cache, evicted, memory, y, Contents(y))
        BY AllAgree DEF Inv, TInv
      <3>2. UNCHANGED <<cache, evicted>>
        BY <1>1, <1>4
      <3> QED BY <1>4, <2>1, <3>1, <3>2 DEF Agreed, Has
    <2>3. \A d \in Caches : Has(d, access[d].b)' <=> Has(d, access[d].b)
      BY <1>1, <1>4 DEF Has
    <2> QED BY <1>1, <1>2, <1>4, <2>1, <2>2, <2>3, QuietMaps
  <1>5. ASSUME NEW d \in Caches, NEW b \in Blocks, Has(d, b), cache[d][b].data = memory[b],
               cache' = [cache EXCEPT ![d][b] = NULL], UNCHANGED memory,
               block' = IF found[d] /\ access[d].b = b
                        THEN [block EXCEPT ![d] = cache[d][b].data] ELSE block
        PROVE  Mapped
    <2>1. DOMAIN cache = Caches /\ DOMAIN cache[d] = Blocks /\ DOMAIN block = Caches
      BY DEF Inv, TInv, DInv, Frames, Coherent, Roles
    <2>2. /\ \A e \in Caches \ {d} : cache'[e] = cache[e] /\ block'[e] = block[e]
          /\ cache'[d][b] = NULL /\ \A y \in Blocks \ {b} : cache'[d][y] = cache[d][y]
          /\ block'[d] = IF found[d] /\ access[d].b = b THEN cache[d][b].data ELSE block[d]
      BY <1>5, <2>1
    <2>3. ASSUME NEW y \in Blocks PROVE Agreed(cache', evicted', memory', y, Contents(y))
      <3>1. Agreed(cache, evicted, memory, y, Contents(y))
        BY AllAgree DEF Inv, TInv
      <3>2. CASE y # b
        <4>1. \A e \in Caches : cache'[e][y] = cache[e][y]
          BY <2>2, <3>2
        <4> QED BY <1>1, <1>5, <3>1, <4>1 DEF Agreed
      <3>3. CASE y = b
        <4>1. memory[b] = Contents(b)
          BY <1>5, <3>1, <3>3 DEF Agreed, Has
        <4>2. \A e \in Caches : cache'[e][b] # NULL => cache'[e][b] = cache[e][b]
          BY <2>2
        <4> QED BY <1>1, <1>5, <3>1, <3>3, <4>1, <4>2 DEF Agreed
      <3> QED BY <3>2, <3>3
    <2>4. \A e \in Caches \ {d} : Has(e, access[e].b)' <=> Has(e, access[e].b)
      BY <1>1, <2>2 DEF Has
    <2>5. found[d] => access[d] \in Accesses /\ access[d].b \in Blocks
      BY CacheAssumption DEF Inv, TInv, Held, HeldBy, AskingPlaces, PendingPlaces, SendingPlaces, DInv, Frames
    <2>6. CASE found[d] /\ access[d].b = b /\ access[d].cmd = "read"
      <3>1. /\ Has(d, access[d].b) /\ ~Has(d, access[d].b)' /\ block'[d] = cache[d][b].data
        BY <1>1, <1>5, <2>2, <2>6 DEF Has
      <3>2. pc'[d] # "dbgLoad" /\ access[d] # NULL
        <4>1. pc[d] # "dbgLoad"
          BY <2>6 DEF Inv, Coherent, Roles, PendingPlaces
        <4> QED BY <1>2, <2>5, <2>6, <4>1, NullAssumption DEF PendingPlaces
      <3>3. Looking(d)'
        BY <1>1, <2>6, <3>1, <3>2 DEF Looking, Overtaken
      <3>4. TakenEffect(d)' = TRUE
        BY <3>3, EffectBecomes
      <3>5. cache[d][b].data = Contents(b)
        BY <1>5, AllAgree DEF Inv, TInv, Agreed, Has
      <3>6. Seen(d)' = Contents(b)[access[d].w]
        BY <1>1, <3>1, <3>2, <3>3, <3>5 DEF Seen
      <3>7. \A y \in Blocks : Contents(y)' = Contents(y)
        BY <2>3, ContentsBecome
      <3>8. Stores'[b] = Contents(b)
        BY <3>7 DEF Stores
      <3>9. Looks(d)
        BY <2>6, <3>2, <3>4, <3>6, <3>8 DEF Looks
      <3>10. ASSUME NEW e \in Caches \ {d} PROVE Quiet(e) \/ Looks(e)
        BY <1>1, <1>2, <1>5, <2>2, <2>4, OthersMap
      <3> QED BY <1>1, <3>7, <3>9, <3>10, LooksMap
    <2>7. CASE ~(found[d] /\ access[d].b = b /\ access[d].cmd = "read")
      <3>1. access[d].cmd = "read" =>
               /\ found[d] => (Has(d, access[d].b)' <=> Has(d, access[d].b))
               /\ block'[d] = block[d]
        BY <1>1, <2>2, <2>5, <2>7 DEF Has
      <3> QED BY <1>1, <1>2, <1>5, <2>2, <2>3, <2>4, <3>1, QuietMaps
    <2> QED BY <2>6, <2>7
  <1>6. \/ UNCHANGED <<memory, cache, block>>
        \/ \E h \in Caches, b \in Blocks :
              /\ Has(h, b) /\ memory' = [memory EXCEPT ![b] = cache[h][b].data]
              /\ UNCHANGED <<cache, block>>
        \/ \E d \in Caches, b \in Blocks :
              /\ Has(d, b) /\ cache[d][b].data = memory[b]
              /\ cache' = [cache EXCEPT ![d][b] = NULL]
              /\ block' = IF found[d] /\ access[d].b = b
                          THEN [block EXCEPT ![d] = cache[d][b].data] ELSE block
              /\ UNCHANGED memory
    BY MessageShape DEF Inv, TInv
  <1> QED BY <1>3, <1>4, <1>5, <1>6

\* Nobody sees how a block is loaded, makes room and is stored.
LEMMA FillMaps ==
    ASSUME Inv, WriteBackOnly, Coherent', NEW c \in Caches,
           Enter(c) \/ Load(c) \/ Insert(c) \/ Evict(c) \/ StoreEvicted(c) \/ Release(c)
    PROVE  Mapped
  <1> DEFINE b == access[c].b
  <1>1. /\ UNCHANGED <<system, access, found, result>>
        /\ pc[c] \in {"enter"} \cup UsingPlaces
        /\ \A d \in Caches \ {c} :
              /\ pc'[d] = pc[d] \/ (pc[d] = "awaitBus" /\ pc'[d] = "message")
              /\ block'[d] = block[d]
        /\ access[c] \in Accesses /\ b \in Blocks
    BY FillShape DEF Inv, TInv
  <1>2. /\ HeldBy(c) /\ memory \in [Blocks -> Data]
        /\ DOMAIN cache = Caches /\ DOMAIN cache[c] = Blocks /\ DOMAIN evicted = Caches
    BY DEF Inv, TInv, Held, DInv, Frames
  <1>3. ~found[c]
    BY <1>1, <1>2 DEF HeldBy, AskingPlaces, PendingPlaces, SendingPlaces, UsingPlaces
  <1>4. ASSUME \A x \in EffectPlaces \cup PendingPlaces : pc'[c] = x <=> pc[c] = x,
               \A d \in Caches \ {c} : cache'[d] = cache[d],
               \A y \in Blocks : memory'[y] = memory[y] \/ memory'[y] = Contents(y),
               \A y \in Blocks : Agreed(cache', evicted', memory', y, Contents(y))
        PROVE  Mapped
    <2>1. \A d \in Caches, x \in EffectPlaces \cup PendingPlaces : pc'[d] = x <=> pc[d] = x
      BY <1>1, <1>4 DEF EffectPlaces, PendingPlaces
    <2>2. pc[c] # "dbgUse"
      BY <1>1 DEF UsingPlaces
    <2>3. ASSUME NEW d \in Caches
          PROVE  /\ found[d] => (Has(d, access[d].b)' <=> Has(d, access[d].b))
                 /\ found[d] \/ pc[d] = "dbgUse" => block'[d] = block[d]
      BY <1>1, <1>3, <1>4, <2>2 DEF Has
    <2> QED BY <1>1, <1>4, <2>1, <2>3, QuietMaps
  <1>5. \A y \in Blocks : Agreed(cache, evicted, memory, y, Contents(y))
    BY AllAgree DEF Inv, TInv
  <1>6. CASE /\ UNCHANGED <<memory, cache, evicted>> /\ pc[c] \in {"enter", "load", "release"}
             /\ pc'[c] \in {"use", "load", "loaded", "done"} /\ (pc[c] = "release" <=> pc'[c] = "done")
    <2>1. \A y \in Blocks : Agreed(cache', evicted', memory', y, Contents(y))
      BY <1>5, <1>6
    <2>2. CASE pc[c] # "release"
      <3>1. \A x \in EffectPlaces \cup PendingPlaces : pc'[c] = x <=> pc[c] = x
        BY <1>6, <2>2 DEF EffectPlaces, PendingPlaces
      <3> QED BY <1>4, <1>6, <2>1, <3>1
    <2>3. CASE pc[c] = "release"
      <3>1. Quiet(c)
        <4>1. ~Looking(c) /\ ~Looking(c)'
          BY <1>1, <1>3, <1>6, <2>3 DEF Looking, Overtaken
        <4>2. Written(c) /\ Written(c)'
          BY <1>6, <2>3 DEF Written, EffectPlaces
        <4>3. Seen(c)' = Seen(c)
          BY <1>1, <4>1 DEF Seen
        <4> QED BY <4>1, <4>2, <4>3, EffectIs, EffectBecomes DEF Quiet, Inv
      <3>2. ASSUME NEW d \in Caches \ {c} PROVE Quiet(d) \/ Looks(d)
        <4>1. \A x \in EffectPlaces \cup PendingPlaces : pc'[d] = x <=> pc[d] = x
          BY <1>1 DEF EffectPlaces, PendingPlaces
        <4>2. (Has(d, access[d].b)' <=> Has(d, access[d].b)) /\ block'[d] = block[d]
          BY <1>1, <1>6 DEF Has
        <4> QED BY <1>1, <1>6, <4>1, <4>2, OthersMap
      <3>3. \A y \in Blocks : Contents(y)' = Contents(y)
        BY <2>1, ContentsBecome
      <3> QED BY <1>1, <3>1, <3>2, <3>3, LooksMap
    <2> QED BY <2>2, <2>3
  <1>7. ASSUME NEW dirty \in BOOLEAN,
               cache' = [cache EXCEPT ![c][b] = [data |-> memory[b], dirty |-> dirty]],
               pc[c] \in FilledPlaces \ {"evict"}, pc'[c] = "use",
               UNCHANGED <<memory, evicted>>
        PROVE  Mapped
    <2>1. /\ cache'[c][b].data = memory[b]
          /\ \A y \in Blocks \ {b} : cache'[c][y] = cache[c][y]
          /\ \A d \in Caches \ {c} : cache'[d] = cache[d]
      BY <1>1, <1>2, <1>7
    <2>2. memory[b] = Contents(b)
      <3>1. ~Has(c, b)
        BY <1>7 DEF Inv, TInv, Coherent, CopiesOf
      <3>2. Concerned(c, b)
        BY <1>7 DEF Concerned, Using, UsingPlaces, FilledPlaces
      <3>3. Sole(b) => blockCachedIn[b] = <<c>>
        BY <1>1, <3>2, SoleOwner DEF Inv, TInv
      <3> QED BY <1>1, <1>7, <3>1, <3>3, ContentsInMemory DEF Inv, TInv
    <2>3. ASSUME NEW y \in Blocks PROVE Agreed(cache', evicted', memory', y, Contents(y))
      <3>1. CASE y # b
        <4>1. \A d \in Caches : cache'[d][y] = cache[d][y]
          BY <2>1, <3>1
        <4> QED BY <1>5, <1>7, <4>1 DEF Agreed
      <3>2. CASE y = b
        BY <1>5, <1>7, <2>1, <2>2, <3>2 DEF Agreed
      <3> QED BY <3>1, <3>2
    <2> QED BY <1>4, <1>7, <2>1, <2>3 DEF EffectPlaces, PendingPlaces, FilledPlaces
  <1>8. ASSUME NEW v \in Blocks, Has(c, v), cache' = [cache EXCEPT ![c][v] = NULL],
               pc[c] = "loaded", UNCHANGED memory,
               \/ /\ pc'[c] = "evict"
                  /\ evicted' = [evicted EXCEPT ![c] = [b |-> v, data |-> cache[c][v].data]]
               \/ pc'[c] = "insert" /\ UNCHANGED evicted /\ ~cache[c][v].dirty
        PROVE  Mapped
    <2>1. /\ cache'[c][v] = NULL
          /\ \A y \in Blocks \ {v} : cache'[c][y] = cache[c][y]
          /\ \A d \in Caches \ {c} : cache'[d] = cache[d]
      BY <1>2, <1>8
    <2>2. cache[c][v].data = Contents(v) /\ evicted[c] = NULL
      BY <1>2, <1>5, <1>8 DEF Agreed, Has, HeldBy
    <2>3. ASSUME NEW y \in Blocks PROVE Agreed(cache', evicted', memory', y, Contents(y))
      <3>1. \A d \in Caches : cache'[d][y] # NULL => cache'[d][y] = cache[d][y]
        BY <2>1
      <3>2. CASE pc'[c] = "evict" /\ evicted' = [evicted EXCEPT ![c] = [b |-> v, data |-> cache[c][v].data]]
        <4>1. /\ evicted'[c] = [b |-> v, data |-> Contents(v)]
              /\ \A d \in Caches \ {c} : evicted'[d] = evicted[d]
          BY <1>2, <2>2, <3>2
        <4>2. evicted'[c] # NULL /\ evicted'[c].b = v /\ evicted'[c].data = Contents(v)
          <5>1. Contents(v) \in Data
            BY <1>2, <1>8, <2>2 DEF HeldBy, Copies
          <5> QED BY <4>1, <5>1, NullAssumption DEF Data
        <4>3. CASE y = v
          BY <1>5, <3>1, <4>1, <4>2, <4>3 DEF Agreed
        <4>4. CASE y # v
          <5>1. \A d \in Caches : cache'[d][y] = cache[d][y]
            BY <2>1, <4>4
          <5>2. \A d \in Caches : evicted'[d] # NULL /\ evicted'[d].b = y <=>
                                  evicted[d] # NULL /\ evicted[d].b = y
            BY <2>2, <4>1, <4>2, <4>4
          <5>3. \A d \in Caches : evicted'[d] # NULL /\ evicted'[d].b = y => evicted'[d] = evicted[d]
            BY <4>1, <4>2, <4>4
          <5> QED BY <1>5, <1>8, <5>1, <5>2, <5>3 DEF Agreed
        <4> QED BY <4>3, <4>4
      <3>3. CASE UNCHANGED evicted /\ ~cache[c][v].dirty
        <4>1. memory[v] = Contents(v)
          BY <1>8, <2>2, <3>3 DEF Inv, Coherent, CleanIn
        <4>2. CASE y = v
          BY <1>5, <1>8, <3>1, <3>3, <4>1, <4>2 DEF Agreed
        <4>3. CASE y # v
          <5>1. \A d \in Caches : cache'[d][y] = cache[d][y]
            BY <2>1, <4>3
          <5> QED BY <1>5, <1>8, <3>3, <5>1 DEF Agreed
        <4> QED BY <4>2, <4>3
      <3> QED BY <1>8, <3>2, <3>3
    <2> QED BY <1>4, <1>8, <2>1, <2>3 DEF EffectPlaces, PendingPlaces
  <1>9. ASSUME pc[c] = "evict", pc'[c] = "insert", UNCHANGED cache,
               evicted' = [evicted EXCEPT ![c] = NULL],
               memory' = [memory EXCEPT ![evicted[c].b] = evicted[c].data]
        PROVE  Mapped
    <2> DEFINE v == evicted[c].b
    <2>1. evicted[c] # NULL /\ v \in Blocks
      BY <1>2, <1>9 DEF HeldBy, Inv, Coherent, CopiesOf
    <2>2. evicted[c].data = Contents(v)
      BY <1>5, <2>1 DEF Agreed
    <2>3. /\ evicted'[c] = NULL /\ \A d \in Caches \ {c} : evicted'[d] = evicted[d]
          /\ memory'[v] = Contents(v) /\ \A y \in Blocks \ {v} : memory'[y] = memory[y]
      BY <1>2, <1>9, <2>1, <2>2
    <2>4. ASSUME NEW y \in Blocks PROVE Agreed(cache', evicted', memory', y, Contents(y))
      <3>1. \A d \in Caches : evicted'[d] # NULL => evicted'[d] = evicted[d]
        BY <2>3
      <3>2. CASE y = v
        BY <1>5, <1>9, <2>3, <3>1, <3>2 DEF Agreed
      <3>3. CASE y # v
        <4>1. \A d \in Caches : evicted[d] # NULL /\ evicted[d].b = y => evicted'[d] = evicted[d]
          BY <2>3, <3>3
        <4> QED BY <1>5, <1>9, <2>3, <3>1, <3>3, <4>1 DEF Agreed
      <3> QED BY <3>2, <3>3
    <2> QED BY <1>4, <1>9, <2>3, <2>4 DEF EffectPlaces, PendingPlaces
  <1>10. \/ /\ UNCHANGED <<memory, cache, evicted>> /\ pc[c] \in {"enter", "load", "release"}
            /\ pc'[c] \in {"use", "load", "loaded", "done"} /\ (pc[c] = "release" <=> pc'[c] = "done")
         \/ \E dirty \in BOOLEAN :
               /\ cache' = [cache EXCEPT ![c][b] = [data |-> memory[b], dirty |-> dirty]]
               /\ pc[c] \in FilledPlaces \ {"evict"} /\ pc'[c] = "use"
               /\ UNCHANGED <<memory, evicted>>
         \/ \E v \in Blocks :
               /\ Has(c, v) /\ cache' = [cache EXCEPT ![c][v] = NULL]
               /\ pc[c] = "loaded" /\ UNCHANGED memory
               /\ \/ /\ pc'[c] = "evict"
                     /\ evicted' = [evicted EXCEPT ![c] = [b |-> v, data |-> cache[c][v].data]]
                  \/ pc'[c] = "insert" /\ UNCHANGED evicted /\ ~cache[c][v].dirty
         \/ /\ pc[c] = "evict" /\ pc'[c] = "insert" /\ UNCHANGED cache
            /\ evicted' = [evicted EXCEPT ![c] = NULL]
            /\ memory' = [memory EXCEPT ![evicted[c].b] = evicted[c].data]
    BY FillShape DEF Inv, TInv
  <1> QED BY <1>6, <1>7, <1>8, <1>9, <1>10

\* Who alone may have a block, and is not storing it, has all there is of it.
LEMMA OnlyCopy ==
    ASSUME Inv, NEW c \in Caches, NEW b \in Blocks,
           Sole(b), blockCachedIn[b] = <<c>>, pc[c] # "evict"
    PROVE  /\ \A d \in Caches : ~(evicted[d] # NULL /\ evicted[d].b = b)
           /\ \A d \in Caches \ {c} : ~Has(d, b)
  <1>1. PICK e \in Caches : blockCachedIn[b] = <<e>> /\ \A d \in Caches : Concerned(d, b) => d = e
    BY SoleOwner DEF Inv, TInv
  <1>2. e = c
    BY <1>1
  <1>3. \A d \in Caches : evicted[d] # NULL => pc[d] = "evict"
    BY DEF Inv, Held, HeldBy
  <1> QED BY <1>1, <1>2, <1>3 DEF Concerned

\* An access takes effect when it uses the block in its cache.
LEMMA UseMaps ==
    ASSUME Inv, WriteBackOnly, Coherent', NEW c \in Caches, Use(c)
    PROVE  Mapped
  <1> DEFINE b == access[c].b
  <1>1. /\ access[c] \in Accesses /\ b \in Blocks /\ Has(c, b)
        /\ cache[c][b] \in Copies
        /\ pc[c] = "use" /\ pc'[c] = "release" /\ \A d \in Caches \ {c} : pc'[d] = pc[d]
        /\ UNCHANGED <<system, memory, block, evicted, access, found>>
    BY UseShape DEF Inv, TInv
  <1>2. /\ HeldBy(c) /\ DOMAIN result = Caches
        /\ DOMAIN cache = Caches /\ DOMAIN cache[c] = Blocks
    BY DEF Inv, TInv, Held, DInv, Frames
  <1>3. ~found[c] /\ access[c] # NULL
    BY <1>1, <1>2 DEF HeldBy, AskingPlaces, PendingPlaces, SendingPlaces
  <1>4. ~Looking(c) /\ ~Looking(c)'
    BY <1>1, <1>3 DEF Looking, Overtaken
  <1>5. ~TakenEffect(c) /\ TakenEffect(c)' = TRUE
    <2>1. ~Written(c) /\ Written(c)'
      BY <1>1 DEF Written, EffectPlaces
    <2> QED BY <1>4, <2>1, EffectIs, EffectBecomes DEF Inv
  <1>O. ASSUME NEW d \in Caches \ {c}, cache'[d] = cache[d], result'[d] = result[d]
        PROVE  Quiet(d) \/ Looks(d)
    <2>1. \A x \in EffectPlaces \cup PendingPlaces : pc'[d] = x <=> pc[d] = x
      BY <1>1
    <2>2. (Has(d, access[d].b)' <=> Has(d, access[d].b)) /\ block'[d] = block[d]
      BY <1>1, <1>O DEF Has
    <2> QED BY <1>1, <1>O, <2>1, <2>2, OthersMap
  <1>6. \A y \in Blocks : Agreed(cache, evicted, memory, y, Contents(y))
    BY AllAgree DEF Inv, TInv
  <1>7. cache[c][b].data = Contents(b)
    BY <1>1, <1>6 DEF Agreed, Has
  <1>8. CASE /\ access[c].cmd = "read" /\ UNCHANGED cache
             /\ result' = [result EXCEPT ![c] = cache[c][b].data[access[c].w]]
    <2>1. /\ result'[c] = Contents(b)[access[c].w]
          /\ \A d \in Caches \ {c} : result'[d] = result[d]
      BY <1>2, <1>7, <1>8
    <2>2. Seen(c)' = Contents(b)[access[c].w]
      BY <1>4, <2>1 DEF Seen
    <2>3. \A y \in Blocks : Contents(y)' = Contents(y)
      BY <1>1, <1>6, <1>8, ContentsBecome
    <2>4. Looks(c)
      <3>1. Stores'[b] = Contents(b)
        BY <1>1, <2>3 DEF Stores
      <3> QED BY <1>3, <1>5, <1>8, <2>2, <3>1 DEF Looks
    <2>5. \A d \in Caches \ {c} : Quiet(d) \/ Looks(d)
      BY <1>8, <1>O, <2>1
    <2> QED BY <1>1, <2>3, <2>4, <2>5, LooksMap
  <1>9. CASE /\ access[c].cmd = "write" /\ UNCHANGED result
             /\ cache' = [cache EXCEPT ![c][b] =
                   [data |-> [cache[c][b].data EXCEPT ![access[c].w] = access[c].v], dirty |-> TRUE]]
    <2> DEFINE new == [Contents(b) EXCEPT ![access[c].w] = access[c].v]
    <2>1. new \in Data
      <3>1. access[c].w \in Words /\ access[c].v \in Values
        BY <1>1, <1>9, CacheAssumption
      <3>2. Contents(b) \in [Words -> Values]
        BY <1>1, <1>7 DEF Copies, Data
      <3> QED BY <3>1, <3>2 DEF Data
    <2>2. cache' = [cache EXCEPT ![c][b] = [data |-> new, dirty |-> TRUE]]
      BY <1>7, <1>9
    <2> HIDE DEF new
    <2>3. /\ cache'[c][b] = [data |-> new, dirty |-> TRUE]
          /\ \A y \in Blocks \ {b} : cache'[c][y] = cache[c][y]
          /\ \A d \in Caches \ {c} : cache'[d] = cache[d]
      BY <1>1, <1>2, <2>2
    <2>4. cache'[c][b] # NULL
      <3>1. cache'[c][b] \in Copies
        BY <2>1, <2>3 DEF Copies
      <3> QED BY <3>1, NullAssumption DEF Copies, Data
    <2>5. Sole(b) /\ blockCachedIn[b] = <<c>>
      <3>1. Command(c) = "write"
        BY <1>9 DEF Command
      <3>2. Writing(c)
        BY <1>1, <3>1 DEF Writing, Using, UsingPlaces
      <3> QED BY <3>2 DEF Inv, Coherent, Writers
    <2>6. Contents(b)' = new
      <3>1. /\ \A d \in Caches : ~(evicted[d] # NULL /\ evicted[d].b = b)
            /\ \A d \in Caches \ {c} : ~Has(d, b)
        BY <1>1, <2>5, OnlyCopy
      <3>2. PICK y \in Blocks : y = b
        BY <1>1
      <3>3. Agreed(cache', evicted', memory', y, new)
        BY <1>1, <2>3, <2>4, <3>1, <3>2 DEF Agreed, Has
      <3>4. Contents(y)' = new
        BY <3>3, ContentsBecome
      <3>5. access'[c].b = y
        BY <1>1, <3>2
      <3> QED BY <3>4, <3>5
    <2>7. ASSUME NEW y \in Blocks \ {b} PROVE Contents(y)' = Contents(y)
      <3>1. \A d \in Caches : cache'[d][y] = cache[d][y]
        BY <2>3
      <3>2. Agreed(cache', evicted', memory', y, Contents(y))
        BY <1>1, <1>6, <3>1 DEF Agreed
      <3> QED BY <3>2, ContentsBecome
    <2>8. \A d \in Caches \ {c} : Quiet(d) \/ Looks(d)
      BY <1>9, <1>O, <2>3
    <2>9. Seen(c)' = Seen(c)
      BY <1>4, <1>9 DEF Seen
    <2> QED BY <1>1, <1>3, <1>5, <1>9, <2>6, <2>7, <2>8, <2>9, WriteMaps DEF new
  <1>10. \/ /\ access[c].cmd = "read" /\ UNCHANGED cache
            /\ result' = [result EXCEPT ![c] = cache[c][b].data[access[c].w]]
         \/ /\ access[c].cmd = "write" /\ UNCHANGED result
            /\ cache' = [cache EXCEPT ![c][b] =
                   [data |-> [cache[c][b].data EXCEPT ![access[c].w] = access[c].v], dirty |-> TRUE]]
    BY UseShape DEF Inv, TInv
  <1> QED BY <1>8, <1>9, <1>10

\* A debug access takes effect when it uses its block in the cache, and without one where it comes
\* to memory: a read when it asks for the block, a write when it stores it.
LEMMA DebugMaps ==
    ASSUME Inv, WriteBackOnly, Coherent', NEW c \in Caches, DebugStep(c)
    PROVE  Mapped
  <1> DEFINE b == access[c].b
             w == access[c].w
  <1>1. /\ access[c] \in Accesses /\ b \in Blocks /\ access[c] # NULL
        /\ pc[c] \in {"dbg"} \cup PendingPlaces
        /\ (~found[c] => ~Has(c, b)) /\ (pc[c] \in {"dbgLoad", "dbgUse"} => ~found[c])
        /\ \A d \in Caches \ {c} : pc'[d] = pc[d] /\ found'[d] = found[d] /\ block'[d] = block[d]
        /\ UNCHANGED <<evicted, access>>
    BY DebugFrame, NullAssumption DEF Inv, TInv
  <1>2. /\ DOMAIN pc = Caches /\ DOMAIN found = Caches /\ DOMAIN block = Caches
        /\ DOMAIN result = Caches /\ DOMAIN memory = Blocks
    BY DEF Inv, TInv, Typed
  <1>3. \A y \in Blocks : Agreed(cache, evicted, memory, y, Contents(y))
    BY AllAgree DEF Inv, TInv
  <1>4. Has(c, b) => cache[c][b].data = Contents(b)
    BY <1>1, <1>3 DEF Agreed, Has
  <1>5. pc[c] \in PendingPlaces \/ ~found[c] => (access[c].cmd = "write" \/ pc[c] = "dbg" =>
            blockCachedIn[b] = <<c>> /\ Sole(b))
    <2>1. SUFFICES ASSUME pc[c] \in PendingPlaces \/ ~found[c], access[c].cmd = "write" \/ pc[c] = "dbg"
                   PROVE  Writing(c)
      BY DEF Inv, Coherent, Writers
    <2>2. pc[c] = "dbg" => access[c].dbg
      BY DEF Inv, Coherent, Roles
    <2> QED BY <1>1, <2>1, <2>2 DEF Writing, Command, PendingPlaces
  <1>6. ~found[c] /\ blockCachedIn[b] = <<c>> => memory[b] = Contents(b)
    BY <1>1, ContentsInMemory DEF Inv, TInv, PendingPlaces
  <1>7. ModifiedBy(c)
    BY DEF Inv, Modified
  <1>8. access[c].cmd = "write" /\ found[c] => Has(c, b)
    <2>1. pc[c] \in AskingPlaces /\ access[c].dbg
      BY <1>1, DebugFrame DEF Inv, TInv, AskingPlaces
    <2> QED BY <1>7, <2>1 DEF ModifiedBy
  <1>O. ASSUME NEW d \in Caches \ {c}, cache'[d] = cache[d], result'[d] = result[d],
               \A y \in Blocks : memory'[y] = memory[y] \/ memory'[y] = Contents(y)'
        PROVE  Quiet(d) \/ Looks(d)
    <2>1. /\ \A x \in EffectPlaces \cup PendingPlaces : pc'[d] = x <=> pc[d] = x
          /\ access'[d] = access[d] /\ found'[d] = found[d] /\ block'[d] = block[d]
      BY <1>1
    <2>2. Has(d, access[d].b)' <=> Has(d, access[d].b)
      BY <1>1, <1>O DEF Has
    <2> QED BY <1>O, <2>1, <2>2, OthersMap
  <1>S. ASSUME Quiet(c) \/ Looks(c), UNCHANGED cache, \A d \in Caches \ {c} : result'[d] = result[d],
               \A y \in Blocks : memory'[y] = memory[y] \/ memory'[y] = Contents(y)
        PROVE  Mapped
    <2>1. ASSUME NEW y \in Blocks PROVE Agreed(cache', evicted', memory', y, Contents(y))
      BY <1>1, <1>3, <1>S DEF Agreed
    <2>2. \A y \in Blocks : Contents(y)' = Contents(y)
      BY <2>1, ContentsBecome
    <2>3. \A y \in Blocks : memory'[y] = memory[y] \/ memory'[y] = Contents(y)'
      BY <1>S, <2>2
    <2>4. \A d \in Caches \ {c} : Quiet(d) \/ Looks(d)
      BY <1>S, <1>O, <2>3
    <2> QED BY <1>1, <1>S, <2>2, <2>4, LooksMap
  <1>W. ASSUME access[c].cmd = "write", blockCachedIn[b] = <<c>>, Sole(b),
               NEW data, data = [Contents(b) EXCEPT ![w] = access[c].v],
               cache'[c][b] # NULL => cache'[c][b].data = data,
               \A y \in Blocks \ {b} : cache'[c][y] = cache[c][y] /\ memory'[y] = memory[y],
               \A d \in Caches \ {c} : cache'[d] = cache[d],
               cache'[c][b] = NULL => memory'[b] = data,
               memory'[b] = memory[b] \/ memory'[b] = data,
               UNCHANGED result, ~Written(c), Written(c)'
        PROVE  Mapped
    <2>1. /\ \A d \in Caches : ~(evicted[d] # NULL /\ evicted[d].b = b)
          /\ \A d \in Caches \ {c} : ~Has(d, b)
      BY <1>1, <1>W, OnlyCopy DEF PendingPlaces
    <2>2. PICK z \in Blocks : z = b
      BY <1>1
    <2>3. Agreed(cache', evicted', memory', z, data)
      BY <1>1, <1>W, <2>1, <2>2 DEF Agreed, Has
    <2>4. Contents(z)' = data
      BY <2>3, ContentsBecome
    <2>5. ASSUME NEW y \in Blocks \ {b} PROVE Contents(y)' = Contents(y)
      <3>1. \A d \in Caches : cache'[d][y] = cache[d][y]
        BY <1>W
      <3>2. Agreed(cache', evicted', memory', y, Contents(y))
        BY <1>1, <1>3, <1>W, <3>1 DEF Agreed
      <3> QED BY <3>2, ContentsBecome
    <2>6. \A y \in Blocks : memory'[y] = memory[y] \/ memory'[y] = Contents(y)'
      BY <1>W, <2>2, <2>4
    <2>7. \A d \in Caches \ {c} : Quiet(d) \/ Looks(d)
      BY <1>W, <1>O, <2>6
    <2>8. ~Looking(c) /\ ~Looking(c)'
      BY <1>1, <1>W DEF Looking
    <2>9. Seen(c)' = Seen(c)
      BY <1>W, <2>8 DEF Seen
    <2>10. ~TakenEffect(c) /\ TakenEffect(c)' = TRUE
      BY <1>W, <2>8, EffectIs, EffectBecomes DEF Inv
    <2>11. Contents(b)' = [Contents(b) EXCEPT ![w] = access[c].v]
      <3>1. access'[c].b = z
        BY <1>1, <2>2
      <3> QED BY <1>W, <2>4, <3>1
    <2> QED BY <1>1, <1>W, <2>5, <2>7, <2>9, <2>10, <2>11, WriteMaps
  <1>9. CASE DebugAsk(c)
    <2>1. /\ pc[c] = "dbg" /\ pc'[c] = "dbgLoad" /\ ~found[c]
          /\ UNCHANGED <<memory, cache, found, block, result>>
      BY <1>2, <1>9 DEF DebugAsk, At, Wait, locals
    <2>2. CASE access[c].cmd = "read"
      <3>1. memory[b] = Contents(b)
        BY <1>5, <1>6, <2>1
      <3>2. Looking(c)'
        BY <1>1, <2>1, <2>2 DEF Looking
      <3>3. TakenEffect(c)' = TRUE
        BY <3>2, EffectBecomes
      <3>4. Seen(c)' = memory[b][w]
        BY <1>1, <2>1, <3>2 DEF Seen
      <3>5. Stores'[b] = memory[b]
        <4>1. Contents(b)' = Contents(b)
          <5>1. PICK z \in Blocks : z = b /\ z = access'[c].b
            BY <1>1
          <5>2. Contents(z)' = Contents(z)
            BY <1>1, <2>1 DEF Contents, Has
          <5> QED BY <5>1, <5>2
        <4> QED BY <1>1, <3>1, <4>1 DEF Stores
      <3>6. Looks(c)
        BY <1>1, <2>2, <3>3, <3>4, <3>5 DEF Looks
      <3> QED BY <1>S, <2>1, <3>6
    <2>3. CASE access[c].cmd # "read"
      <3>1. ~Looking(c) /\ ~Looking(c)' /\ ~Written(c) /\ ~Written(c)'
        BY <1>1, <2>1, <2>3 DEF Looking, Written, EffectPlaces
      <3>2. Seen(c)' = Seen(c)
        BY <2>1, <3>1 DEF Seen
      <3>3. Quiet(c)
        BY <3>1, <3>2, EffectIs, EffectBecomes DEF Quiet, Inv
      <3> QED BY <1>S, <2>1, <3>3
    <2> QED BY <2>2, <2>3
  <1>10. CASE DebugLoad(c)
    <2>1. /\ pc[c] = "dbgLoad" /\ pc'[c] = "dbgUse" /\ ~found[c] /\ block'[c] = memory[b]
          /\ UNCHANGED <<memory, cache, found, result>>
      BY <1>1, <1>2, <1>10 DEF DebugLoad, At, Wait, Continue
    <2>2. (Looking(c)' <=> Looking(c)) /\ ~Written(c) /\ ~Written(c)'
      BY <1>1, <2>1 DEF Looking, Overtaken, Written, EffectPlaces
    <2>3. Seen(c)' = Seen(c)
      BY <1>1, <2>1, <2>2 DEF Seen
    <2>4. Quiet(c)
      BY <2>2, <2>3, EffectIs, EffectBecomes DEF Quiet, Inv
    <2> QED BY <1>S, <2>1, <2>4
  <1>11. CASE DebugRead(c)
    <2>1. /\ access[c].cmd = "read" /\ pc'[c] = "done" /\ ~found'[c]
          /\ result'[c] = DebugData(c)[w] /\ \A d \in Caches \ {c} : result'[d] = result[d]
          /\ UNCHANGED <<memory, cache>>
      BY <1>2, <1>11 DEF DebugRead, Wait, storage
    <2>2. pc[c] = "dbgUse" \/ (pc[c] = "dbg" /\ found[c])
      BY <1>11 DEF DebugRead, DebugBegins, At
    <2>3. ~Looking(c)' /\ Written(c)'
      BY <2>1 DEF Looking, Overtaken, Written, EffectPlaces
    <2>4. TakenEffect(c)' = TRUE /\ Seen(c)' = DebugData(c)[w]
      BY <2>1, <2>3, EffectBecomes DEF Seen
    <2>5. CASE Looking(c)
      <3>1. DebugData(c) = block[c]
        BY <1>1, <2>2, <2>5 DEF DebugData, Looking, Overtaken
      <3>2. Seen(c) = block[c][w]
        BY <2>2, <2>5 DEF Seen
      <3>3. TakenEffect(c) = TRUE
        BY <2>5, EffectIs DEF Inv
      <3>4. Quiet(c)
        BY <2>4, <3>1, <3>2, <3>3 DEF Quiet
      <3> QED BY <1>S, <2>1, <3>4
    <2>6. CASE ~Looking(c)
      <3>1. found[c] /\ Has(c, b)
        BY <1>1, <2>1, <2>2, <2>6 DEF Looking, Overtaken
      <3>2. DebugData(c) = Contents(b)
        BY <1>4, <3>1 DEF DebugData
      <3>3. Stores'[b] = Contents(b)
        <4>1. PICK z \in Blocks : z = b
          BY <1>1
        <4>2. Contents(z)' = Contents(z)
          BY <1>1, <2>1 DEF Contents, Has
        <4> QED BY <4>1, <4>2 DEF Stores
      <3>4. Looks(c)
        BY <1>1, <2>1, <2>4, <3>2, <3>3 DEF Looks
      <3> QED BY <1>S, <2>1, <3>4
    <2> QED BY <2>5, <2>6
  <1>12. CASE DebugWrite(c)
    <2>1. /\ access[c].cmd = "write" /\ pc'[c] = "dbgStore" /\ UNCHANGED <<memory, found, result>>
          /\ blockCachedIn[b] = <<c>> /\ Sole(b)
      BY <1>12, DebugWrites DEF Inv, TInv
    <2>2. pc[c] \notin EffectPlaces \cup {"dbgStore"}
      BY <1>12 DEF DebugWrite, DebugBegins, At, EffectPlaces
    <2>3. CASE found[c]
      <3>1. Has(c, b)
        BY <1>8, <2>1, <2>3
      <3>2. PICK data \in Data :
              /\ data = [DebugData(c) EXCEPT ![w] = access[c].v]
              /\ \E dirty \in BOOLEAN : cache'[c][b] = [data |-> data, dirty |-> dirty]
              /\ \A y \in Blocks \ {b} : cache'[c][y] = cache[c][y]
              /\ \A d \in Caches \ {c} : cache'[d] = cache[d]
        BY <1>12, <2>3, <3>1, DebugWrites DEF Inv, TInv
      <3>3. data = [Contents(b) EXCEPT ![w] = access[c].v]
        BY <1>4, <2>3, <3>1, <3>2 DEF DebugData
      <3>4. cache'[c][b].data = data /\ cache'[c][b] # NULL
        <4>1. cache'[c][b] \in Copies /\ cache'[c][b].data = data
          BY <3>2 DEF Copies
        <4> QED BY <4>1, NullAssumption DEF Copies, Data
      <3>5. ~Written(c) /\ Written(c)'
        BY <2>1, <2>2, <2>3 DEF Written
      <3> QED BY <1>W, <2>1, <3>2, <3>3, <3>4, <3>5
    <2>4. CASE ~found[c]
      <3>1. UNCHANGED cache
        BY <1>12, <2>4, DebugWrites DEF Inv, TInv
      <3>2. ~Looking(c) /\ ~Looking(c)' /\ ~Written(c) /\ ~Written(c)'
        BY <1>1, <2>1, <2>2, <2>4 DEF Looking, Written, EffectPlaces
      <3>3. Seen(c)' = Seen(c)
        BY <2>1, <3>2 DEF Seen
      <3>4. Quiet(c)
        BY <3>2, <3>3, EffectIs, EffectBecomes DEF Quiet, Inv
      <3> QED BY <1>S, <2>1, <3>1, <3>4
    <2> QED BY <2>3, <2>4
  <1>13. CASE DebugStore(c)
    <2>1. /\ access[c].cmd = "write" /\ pc[c] = "dbgStore" /\ pc'[c] = "done" /\ ~found'[c]
          /\ blockCachedIn[b] = <<c>> /\ Sole(b)
          /\ UNCHANGED <<cache, result>>
          /\ memory' = [memory EXCEPT ![b] = DebugData(c)]
      BY <1>13, DebugStores DEF Inv, TInv
    <2>2. \A y \in Blocks : memory'[y] = IF y = b THEN DebugData(c) ELSE memory[y]
      BY <1>2, <2>1
    <2>3. CASE found[c]
      <3>1. DebugData(c) = Contents(b)
        BY <1>4, <1>8, <2>1, <2>3 DEF DebugData
      <3>2. ~Looking(c) /\ ~Looking(c)' /\ Written(c) /\ Written(c)'
        BY <1>1, <2>1, <2>3 DEF Looking, Written, EffectPlaces
      <3>3. Seen(c)' = Seen(c)
        BY <2>1, <3>2 DEF Seen
      <3>4. Quiet(c)
        BY <3>2, <3>3, EffectIs, EffectBecomes DEF Quiet, Inv
      <3> QED BY <1>S, <2>1, <2>2, <3>1, <3>4
    <2>4. CASE ~found[c]
      <3>1. memory[b] = Contents(b) /\ ~Has(c, b)
        BY <1>1, <1>6, <2>1, <2>4
      <3>2. block[c] = [memory[b] EXCEPT ![w] = access[c].v]
        <4>1. pc[c] \in AskingPlaces /\ access[c].dbg
          BY <1>1, DebugFrame DEF Inv, TInv, AskingPlaces
        <4> QED BY <1>7, <2>1, <2>4, <4>1 DEF ModifiedBy
      <3>3. DebugData(c) = [Contents(b) EXCEPT ![w] = access[c].v]
        BY <2>4, <3>1, <3>2 DEF DebugData
      <3>4. cache'[c][b] = NULL /\ memory'[b] = DebugData(c)
        BY <1>1, <2>1, <2>2, <3>1 DEF Has
      <3>5. ~Written(c) /\ Written(c)'
        BY <2>1, <2>4 DEF Written, EffectPlaces
      <3> QED BY <1>W, <2>1, <2>2, <3>3, <3>4, <3>5
    <2> QED BY <2>3, <2>4
  <1> QED BY <1>9, <1>10, <1>11, <1>12, <1>13 DEF DebugStep

\* An access that returns has taken effect.
LEMMA FinishMaps ==
    ASSUME Inv, WriteBackOnly, Coherent', NEW c \in Caches, Return(c)
    PROVE  Mapped
  <1>1. /\ pc[c] = "done" /\ pc' = [pc EXCEPT ![c] = "idle"]
        /\ access' = [access EXCEPT ![c] = NULL] /\ result' = [result EXCEPT ![c] = NULL]
        /\ UNCHANGED <<memory, cache, found, block, evicted>>
    BY DEF Return, At, Wait, storage
  <1>2. HeldBy(c) /\ DOMAIN result = Caches /\ DOMAIN access = Caches /\ DOMAIN pc = Caches
    BY DEF Inv, TInv, Typed, Held
  <1>3. /\ pc'[c] = "idle" /\ access'[c] = NULL /\ result'[c] = NULL
        /\ \A d \in Caches \ {c} : pc'[d] = pc[d] /\ access'[d] = access[d] /\ result'[d] = result[d]
    BY <1>1, <1>2
  <1>4. ~Looking(c)' /\ Written(c) /\ ~Written(c)'
    BY <1>1, <1>3 DEF Looking, Written, EffectPlaces
  <1>5. TakenEffect(c) /\ TakenEffect(c)' = FALSE
    BY <1>4, EffectIs, EffectBecomes DEF Inv
  <1>6. Seen(c)' = NULL
    BY <1>3, <1>4 DEF Seen
  <1>7. \A y \in Blocks : Contents(y)' = Contents(y)
    BY <1>1 DEF Contents, Has
  <1>8. ASSUME NEW d \in Caches \ {c} PROVE Quiet(d)
    <2>1. Has(d, access[d].b)' <=> Has(d, access[d].b)
      BY <1>1, <1>3 DEF Has
    <2>2. \A x \in EffectPlaces \cup PendingPlaces : pc'[d] = x <=> pc[d] = x
      BY <1>3
    <2> QED BY <1>1, <1>3, <2>1, <2>2, OthersQuiet DEF Inv
  <1> QED BY <1>1, <1>5, <1>6, <1>7, <1>8, ReturnMaps

\* Every step of the caches that disturbs no debug write is a step of the memory, or none.
LEMMA MemoryStep ==
    ASSUME Inv, WriteBackOnly, Undisturbed, Coherent', [Next]_vars
    PROVE  Mapped
  <1>1. CASE UNCHANGED vars
    <2>1. UNCHANGED <<system, memory, cache, pc, access, found, block, evicted, result>>
      BY <1>1 DEF vars, storage, control, locals
    <2>2. \A y \in Blocks : Contents(y)' = Contents(y)
      BY <2>1 DEF Contents, Has
    <2>3. ASSUME NEW d \in Caches PROVE Quiet(d)
      <3>1. Has(d, access[d].b)' <=> Has(d, access[d].b)
        BY <2>1 DEF Has
      <3>2. \A x \in EffectPlaces \cup PendingPlaces : pc'[d] = x <=> pc[d] = x
        BY <2>1
      <3> QED BY <2>1, <3>1, <3>2, OthersQuiet DEF Inv
    <2> QED BY <2>1, <2>2, <2>3, LooksMap
  <1>2. ASSUME NEW c \in Caches, Step(c) \/ \E a \in Accesses : Call(c, a) PROVE Mapped
    <2>1. ~Through(c)
      BY DEF Through, At, Inv, Coherent, Roles
    <2> QED BY <1>2, <2>1, RequestMaps, MessageMaps, FillMaps, UseMaps, DebugMaps, FinishMaps
            DEF Step, AccessStep
  <1> QED BY <1>1, <1>2 DEF Next

\* The memory is zero at first, and nobody accesses it.
LEMMA MemoryInit == Init => Memory!Init
  <1> SUFFICES ASSUME Init PROVE Memory!Init
    OBVIOUS
  <1>1. ASSUME NEW b \in Blocks PROVE Contents(b) = [w \in Words |-> Zero]
    <2>1. Agreed(cache, evicted, memory, b, [w \in Words |-> Zero])
      BY DEF Init, Agreed
    <2> QED BY <2>1, ContentsIs
  <1>2. ASSUME NEW c \in Caches PROVE TakenEffect(c) = FALSE /\ Seen(c) = NULL
    BY DEF Init, TakenEffect, Seen, Looking
  <1> QED BY <1>1, <1>2 DEF Init, Memory!Init

\* Where all caches write back, and nobody else has to do with the block of a debug write while it
\* is under way, the caches, the directory and the memory are one atomic memory: every access takes
\* effect at one instant between its call and its return, and reads the last value written.
THEOREM CachesImplementMemory ==
    ASSUME WriteBackOnly
    PROVE  Spec /\ []Undisturbed => ImplementsMemory
  <1>1. Init => Inv /\ Memory!Init
    BY InitInv, MemoryInit
  <1>2. Inv /\ Undisturbed /\ [Next]_vars => Inv'
    BY InvStep
  <1>3. Inv /\ Undisturbed /\ [Next]_vars =>
            Memory!Next \/ UNCHANGED <<[b \in Blocks |-> Contents(b)], access,
                                       [c \in Caches |-> TakenEffect(c)], [c \in Caches |-> Seen(c)]>>
    BY <1>2, MemoryStep DEF Inv, Mapped, Stores, Effects, Results
  <1> QED
    BY <1>1, <1>2, <1>3, PTL DEF Spec, ImplementsMemory, Memory!Spec

=============================================================================
