--------------------- MODULE ConcurrencyManager_proofs ---------------------
(***************************************************************************)
(* Proofs about ConcurrencyManager, for any number of processors, threads, *)
(* priorities and objects and for any emulated program.                    *)
(*                                                                         *)
(* The inductive invariant is                                              *)
(*     IInv == TypeOK /\ HandlersExclude /\ HandlersHaveThread.            *)
(* HandlersHaveThread says that a handler finds the thread it works for    *)
(* when it goes on after a wait, and HandlersExclude is what keeps others  *)
(* from taking it away meanwhile.                                          *)
(*                                                                         *)
(* The second half is about the threads: every thread is in one place, on  *)
(* one processor, in one ready queue, or in one queue of waiters.  That    *)
(* proof keeps the queues of waiters in one function, WaitQueue, so that   *)
(* each handler moves a thread from a slot of it to another, or between    *)
(* it, the processors and the ready queues.                                *)
(***************************************************************************)
EXTENDS ConcurrencyManager, FiniteSetTheorems, SequenceTheorems, TLAPS

\* A handler that waited for schedLock has a thread to work for, one that has
\* given up its processor remembers whose it was, and a thread that falls
\* asleep on a condition stays on its processor until it is queued.
HandlersHaveThread ==
    \A p \in Procs :
        /\ pc[p] = "blocked" => runThread[p] # NULL /\ call[p] \in LockedCalls
        /\ pc[p] = "choose"  => curThread[p] # NULL /\ call[p] \in LockedCalls
        /\ pc[p] = "attempt" /\ call[p].f \in WaitFamily =>
              runThread[p] # NULL /\ call[p] \in CondCalls

IInv == TypeOK /\ HandlersExclude /\ HandlersHaveThread

-----------------------------------------------------------------------------
(* What the phases of a handler establish *)

\* A handler that gets past schedLock works for a thread, alone.
LEMMA Started ==
    ASSUME IInv, NEW p \in Procs, NEW c, Start(p, c)
    PROVE  /\ runThread[p] \in Threads
           /\ \A q \in Procs : ~Inside(q)
           /\ issue = "none"
  <1>1. runThread[p] # NULL
    BY DEF IInv, HandlersHaveThread, Start
  <1>2. \A q \in Procs : ~Inside(q)
    BY DEF IInv, HandlersExclude, Start
  <1> QED
    BY <1>1, <1>2 DEF IInv, TypeOK, ThreadTypes, Start

\* The invariant of the phases after a handler that returns at once.
LEMMA Left ==
    ASSUME IInv, NEW p \in Procs, NEW c, Start(p, c), Leave(p), UNCHANGED issue,
           \A q \in Procs \ {p} : runThread[q] # NULL => runThread'[q] # NULL
    PROVE  HandlerTypes' /\ HandlersExclude' /\ HandlersHaveThread'
  <1>1. \A q \in Procs : ~Inside(q)
    BY Started
  <1>2. HandlerTypes'
    BY DEF IInv, TypeOK, HandlerTypes, Leave, Phases
  <1>3. /\ pc' = [pc EXCEPT ![p] = "run"]
        /\ pc \in [Procs -> Phases] /\ call \in [Procs -> LockedCalls \cup {NoCall}]
        /\ curThread' = [curThread EXCEPT ![p] = NULL]
        /\ call' = [call EXCEPT ![p] = NoCall]
        /\ curThread \in [Procs -> Threads \cup {NULL}]
    BY DEF IInv, TypeOK, HandlerTypes, Leave
  <1>4. HandlersExclude'
    BY <1>1, <1>3 DEF HandlersExclude, Inside
  <1>5. HandlersHaveThread'
    BY <1>1, <1>3 DEF HandlersHaveThread, IInv, Inside
  <1> QED
    BY <1>2, <1>4, <1>5

\* The same for a handler that goes on to wait in findReadyThread.
LEMMA Held ==
    ASSUME IInv, NEW p \in Procs, NEW c, Start(p, c), c \in LockedCalls,
           NEW where \in {"choose", "attempt"}, NEW th \in Threads \cup {NULL},
           NEW rest \in SUBSET Procs,
           Hold(p, c, where, th, rest), UNCHANGED issue,
           where = "choose" => th # NULL,
           where = "attempt" /\ c.f \in WaitFamily => runThread'[p] # NULL /\ c \in CondCalls,
           \A q \in Procs \ {p} : runThread[q] # NULL => runThread'[q] # NULL
    PROVE  HandlerTypes' /\ HandlersExclude' /\ HandlersHaveThread'
  <1>1. \A q \in Procs : ~Inside(q)
    BY Started
  <1>2. HandlerTypes'
    BY DEF IInv, TypeOK, HandlerTypes, Hold, Phases
  <1>3. /\ pc' = [pc EXCEPT ![p] = where]
        /\ schedLock' = TRUE
        /\ pc \in [Procs -> Phases] /\ call \in [Procs -> LockedCalls \cup {NoCall}]
        /\ curThread' = [curThread EXCEPT ![p] = th]
        /\ call' = [call EXCEPT ![p] = c]
        /\ curThread \in [Procs -> Threads \cup {NULL}]
    BY DEF IInv, TypeOK, HandlerTypes, Hold
  <1>4. HandlersExclude'
    BY <1>1, <1>3 DEF HandlersExclude, Inside
  <1>5. HandlersHaveThread'
    <2> SUFFICES ASSUME NEW q \in Procs
                 PROVE  /\ pc'[q] = "blocked" => runThread'[q] # NULL /\ call'[q] \in LockedCalls
                        /\ pc'[q] = "choose"  => curThread'[q] # NULL /\ call'[q] \in LockedCalls
                        /\ pc'[q] = "attempt" /\ call'[q].f \in WaitFamily =>
                             runThread'[q] # NULL /\ call'[q] \in CondCalls
      BY DEF HandlersHaveThread
    <2>1. CASE q = p
      BY <2>1, <1>3
    <2>2. CASE q # p
      BY <2>2, <1>1, <1>3 DEF HandlersHaveThread, IInv, Inside
    <2> QED BY <2>1, <2>2
  <1> QED
    BY <1>2, <1>4, <1>5

-----------------------------------------------------------------------------
(* The ready queues hold threads *)

LEMMA LevelType ==
    ASSUME ThreadTypes, NEW a \in AttrIds
    PROVE  LevelOf(a) \in Levels
  <1>1. attrVal[a] \in AttrRecord
    BY DEF ThreadTypes
  <1>2. attrVal[a].prio \in 0..PrioMax
    BY <1>1 DEF AttrRecord
  <1> QED
    BY <1>2, PrioAssumption DEF LevelOf, Levels, EdfLevel

LEMMA SeqIntro ==
    ASSUME NEW S, NEW n \in Nat, NEW s \in [1..n -> S]
    PROVE  s \in Seq(S)
  <1>1. s \in UNION { [1..m -> S] : m \in Nat }
    OBVIOUS
  <1> QED
    BY <1>1, SeqDef

LEMMA DeadlineSortsType ==
    ASSUME NEW q \in Seq(Threads), NEW due, NEW s \in DeadlineSorts(q, due)
    PROVE  s \in Seq(Threads)
  <1>1. s \in [1..Len(q) -> Threads]
    <2>1. DOMAIN q = 1..Len(q) /\ \A i \in DOMAIN q : q[i] \in Threads
      BY ElementOfSeq, LenProperties
    <2>2. ToSet(q) \subseteq Threads
      BY <2>1 DEF ToSet
    <2>3. s \in [DOMAIN q -> ToSet(q)]
      BY DEF DeadlineSorts
    <2> QED BY <2>1, <2>2, <2>3
  <1> QED
    <2>1. Len(q) \in Nat
      BY LenProperties
    <2> QED BY <1>1, <2>1, SeqIntro

LEMMA PushedType ==
    ASSUME NEW rq \in [Levels -> Seq(Threads)], NEW l \in Levels, NEW t \in Threads,
           NEW due, NEW new \in Pushed(rq, l, t, due)
    PROVE  new \in [Levels -> Seq(Threads)]
  <1>1. Append(rq[l], t) \in Seq(Threads)
    BY AppendProperties
  <1>2. PICK q \in (IF l = EdfLevel THEN DeadlineSorts(Append(rq[l], t), due)
                                    ELSE {Append(rq[l], t)}) :
           new = [rq EXCEPT ![l] = q]
    BY DEF Pushed
  <1>3. q \in Seq(Threads)
    BY <1>1, <1>2, DeadlineSortsType
  <1> QED
    BY <1>2, <1>3

LEMMA OfLevelType ==
    ASSUME NEW ts \in Seq(Threads), NEW l, NEW s \in OfLevel(ts, l)
    PROVE  s \in Seq(Threads)
  <1> DEFINE at == { i \in DOMAIN ts : Level(ts[i]) = l }
             n  == Cardinality(at)
  <1>1. at \subseteq 1..Len(ts) /\ Len(ts) \in Nat
    BY LenProperties
  <1>2. n \in Nat
    <2>1. IsFiniteSet(1..Len(ts))
      BY <1>1, FS_Interval
    <2>2. IsFiniteSet(at)
      BY <1>1, <2>1, FS_Subset
    <2> HIDE DEF at
    <2> QED BY <2>2, FS_CardinalityType
  <1>3. PICK x \in [1..n -> at] : s = [i \in 1..n |-> ts[x[i]]]
    BY DEF OfLevel
  <1>4. ASSUME NEW i \in 1..n PROVE ts[x[i]] \in Threads
    <2> HIDE DEF n
    <2>1. x[i] \in 1..Len(ts)
      BY <1>1, <1>3
    <2> QED BY <2>1, ElementOfSeq
  <1> HIDE DEF n, at
  <1>5. s \in [1..n -> Threads]
    BY <1>3, <1>4
  <1> QED
    BY <1>2, <1>5, SeqIntro

LEMMA ReadiedType ==
    ASSUME NEW rq \in [Levels -> Seq(Threads)], NEW ts \in Seq(Threads),
           NEW new \in Readied(rq, ts)
    PROVE  new \in [Levels -> Seq(Threads)]
  <1> DEFINE grown(l) == { rq[l] \o s : s \in OfLevel(ts, l) }
             due(l)   == IF l = EdfLevel /\ \E i \in DOMAIN ts : Level(ts[i]) = l
                         THEN UNION { DeadlineSorts(q, Deadlines) : q \in grown(l) }
                         ELSE grown(l)
  <1>1. /\ new \in [Levels -> UNION { due(l) : l \in Levels }]
        /\ \A l \in Levels : new[l] \in due(l)
    BY DEF Readied
  <1>2. ASSUME NEW l \in Levels PROVE new[l] \in Seq(Threads)
    <2>1. ASSUME NEW q \in grown(l) PROVE q \in Seq(Threads)
      <3>1. PICK s \in OfLevel(ts, l) : q = rq[l] \o s
        OBVIOUS
      <3>2. s \in Seq(Threads) /\ rq[l] \in Seq(Threads)
        BY OfLevelType
      <3> QED BY <3>1, <3>2, ConcatProperties
    <2>2. ASSUME NEW q \in due(l) PROVE q \in Seq(Threads)
      <3>1. CASE q \in grown(l)
        BY <3>1, <2>1
      <3>2. CASE \E g \in grown(l) : q \in DeadlineSorts(g, Deadlines)
        <4>1. PICK g \in grown(l) : q \in DeadlineSorts(g, Deadlines)
          BY <3>2
        <4> HIDE DEF grown
        <4> QED BY <4>1, <2>1, DeadlineSortsType
      <3> QED BY <3>1, <3>2
    <2> HIDE DEF due
    <2> QED BY <1>1, <2>2
  <1> QED
    BY <1>1, <1>2

\* Taking the first thread of queue l, wherever l was found to be the top one.
LEMMA FoundType ==
    ASSUME ThreadTypes, NEW l \in Levels, Top(l)
    PROVE  Found(l) \in Threads /\ PopQueue(l) \in [Levels -> Seq(Threads)]
  <1>1. readyQueue[l] \in Seq(Threads) /\ readyQueue[l] # <<>>
    BY DEF ThreadTypes, Top
  <1>2. Head(readyQueue[l]) \in Threads /\ Tail(readyQueue[l]) \in Seq(Threads)
    BY <1>1, HeadTailProperties
  <1> QED
    BY <1>2 DEF Found, PopQueue, ThreadTypes

\* Awake queues a thread and changes nothing else of the types.
LEMMA AwakeType ==
    ASSUME ThreadTypes, NEW t \in Threads, Awake(t),
           UNCHANGED <<runThread, attrOf, attrVal, joining>>
    PROVE  ThreadTypes'
  <1>1. 0 \in Levels
    BY PrioAssumption DEF Levels, EdfLevel
  <1>2. Append(readyQueue[0], t) \in Seq(Threads)
    BY <1>1, AppendProperties DEF ThreadTypes
  <1> QED
    BY <1>1, <1>2 DEF ThreadTypes, Awake

-----------------------------------------------------------------------------
(* Thread calls preserve the invariant *)

\* The arguments of a call are of the kinds its name says.
LEMMA CallParts ==
    ASSUME NEW c \in LockedCalls
    PROVE  /\ c.f = "create" => c.attr \in AttrIds /\ c = [f |-> "create", attr |-> c.attr]
           /\ c.f = "join" => c.th \in Threads
           /\ c.f \in {"lock", "trylock", "unlock"} => c.m \in Mutexes
           /\ c.f \in {"post", "semwait"} => c.s \in Sems
           /\ c.f \in {"signal", "broadcast"} => c.c \in Conds
           /\ c.f \in WaitFamily => c.c \in Conds /\ c.m \in Mutexes /\ c \in CondCalls
  BY DEF LockedCalls, ThreadCalls, MutexCalls, SemCalls, CondCalls, WaitFamily

\* An exception stops the simulation and changes nothing else.
LEMMA Failed ==
    ASSUME IInv, NEW why \in Issues, Fail(why), UNCHANGED syncVars
    PROVE  IInv'
  <1>1. TypeOK'
    BY DEF IInv, Fail, syncVars, TypeOK, HandlerTypes, ThreadTypes, ObjectTypes
  <1>2. HandlersExclude' /\ HandlersHaveThread'
    BY DEF IInv, Fail, HandlersExclude, HandlersHaveThread, Inside
  <1> QED BY <1>1, <1>2 DEF IInv

LEMMA SameObjects ==
    ASSUME ObjectTypes, UNCHANGED syncVars
    PROVE  ObjectTypes'
  BY DEF ObjectTypes, syncVars

LEMMA CreateThreadStep ==
    ASSUME IInv, NEW p \in Procs, NEW a \in AttrIds, CreateThread(p, a), UNCHANGED syncVars
    PROVE  IInv'
  <1> DEFINE c == [f |-> "create", attr |-> a]
  <1>1. Start(p, c) /\ Leave(p) /\ UNCHANGED <<attrVal, joining, issue>>
    BY DEF CreateThread
  <1>2. ThreadTypes
    BY DEF IInv, TypeOK
  <1>3. PICK t \in Unborn :
          LET due == [Deadlines EXCEPT ![t] = attrVal[a].deadline] IN
          /\ attrOf' = [attrOf EXCEPT ![t] = a]
          /\ \/ \E q \in IdleProcs :
                   /\ runThread' = [runThread EXCEPT ![q] = t]
                   /\ status' = [status EXCEPT ![t] = "RUNNING"]
                   /\ UNCHANGED readyQueue
             \/ \E v \in Procs :
                   LET old == runThread[v] IN
                   /\ IdleProcs = {}
                   /\ readyQueue' \in Pushed(readyQueue, Level(old), old, due)
                   /\ runThread' = [runThread EXCEPT ![v] = t]
                   /\ status' = [status EXCEPT ![t] = "RUNNING", ![old] = "READY"]
             \/ /\ readyQueue' \in
                       Pushed(readyQueue, IF a = DefaultAttr THEN 0 ELSE LevelOf(a), t, due)
                /\ status' = [status EXCEPT ![t] = "READY"]
                /\ UNCHANGED runThread
    BY DEF CreateThread
  <1> DEFINE due == [Deadlines EXCEPT ![t] = attrVal[a].deadline]
  <1>4. t \in Threads /\ t # NULL
    BY NullAssumption DEF Unborn
  <1>5. /\ attrOf' \in [Threads -> AttrIds] /\ attrVal' \in [AttrIds -> AttrRecord]
        /\ joining' \in [Threads -> Seq(Threads)]
    BY <1>1, <1>2, <1>3 DEF ThreadTypes
  <1>6. /\ ThreadTypes'
        /\ \A q \in Procs : runThread[q] # NULL => runThread'[q] # NULL
    <2>1. CASE \E q \in IdleProcs :
                   /\ runThread' = [runThread EXCEPT ![q] = t]
                   /\ status' = [status EXCEPT ![t] = "RUNNING"]
                   /\ UNCHANGED readyQueue
      BY <2>1, <1>2, <1>4, <1>5 DEF ThreadTypes, IdleProcs
    <2>2. CASE \E v \in Procs :
                   /\ IdleProcs = {}
                   /\ readyQueue' \in Pushed(readyQueue, Level(runThread[v]), runThread[v], due)
                   /\ runThread' = [runThread EXCEPT ![v] = t]
                   /\ status' = [status EXCEPT ![t] = "RUNNING", ![runThread[v]] = "READY"]
      <3>1. PICK v \in Procs :
                   /\ IdleProcs = {}
                   /\ readyQueue' \in Pushed(readyQueue, Level(runThread[v]), runThread[v], due)
                   /\ runThread' = [runThread EXCEPT ![v] = t]
                   /\ status' = [status EXCEPT ![t] = "RUNNING", ![runThread[v]] = "READY"]
        BY <2>2
      <3>2. runThread[v] \in Threads
        BY <3>1, <1>2 DEF IdleProcs, ThreadTypes
      <3>3. attrOf[runThread[v]] \in AttrIds
        BY <3>2, <1>2 DEF ThreadTypes
      <3>4. Level(runThread[v]) \in Levels
        BY <3>3, <1>2, LevelType DEF Level
      <3>5. readyQueue \in [Levels -> Seq(Threads)]
        BY <1>2 DEF ThreadTypes
      <3>6. readyQueue' \in [Levels -> Seq(Threads)]
        BY <3>1, <3>2, <3>4, <3>5, PushedType
      <3> QED BY <3>1, <3>6, <1>2, <1>4, <1>5 DEF ThreadTypes
    <2>3. CASE /\ readyQueue' \in
                      Pushed(readyQueue, IF a = DefaultAttr THEN 0 ELSE LevelOf(a), t, due)
               /\ status' = [status EXCEPT ![t] = "READY"]
               /\ UNCHANGED runThread
      <3>1. (IF a = DefaultAttr THEN 0 ELSE LevelOf(a)) \in Levels
        BY <1>2, LevelType, PrioAssumption DEF Levels, EdfLevel
      <3>2. readyQueue \in [Levels -> Seq(Threads)]
        BY <1>2 DEF ThreadTypes
      <3>3. readyQueue' \in [Levels -> Seq(Threads)]
        BY <2>3, <3>1, <3>2, <1>4, PushedType
      <3> QED BY <2>3, <3>3, <1>2, <1>4, <1>5 DEF ThreadTypes
    <2> QED BY <1>3, <2>1, <2>2, <2>3
  <1>7. HandlerTypes' /\ HandlersExclude' /\ HandlersHaveThread'
    BY <1>1, <1>6, Left
  <1> QED
    BY <1>6, <1>7, SameObjects DEF IInv, TypeOK

\* A handler that gives up its processor, or calls attemptScheduling.
LEMMA Suspended ==
    ASSUME IInv, NEW p \in Procs, NEW c \in LockedCalls,
           Start(p, c), Suspend(p, c), UNCHANGED issue
    PROVE  /\ HandlerTypes' /\ HandlersExclude' /\ HandlersHaveThread'
           /\ runThread' \in [Procs -> Threads \cup {NULL}]
  <1>1. runThread[p] \in Threads /\ runThread[p] # NULL
    BY Started, NullAssumption
  <1>2. runThread \in [Procs -> Threads \cup {NULL}]
    BY DEF IInv, TypeOK, ThreadTypes
  <1>3. runThread' = [runThread EXCEPT ![p] = NULL] /\ Hold(p, c, "choose", runThread[p], {})
    BY DEF Suspend
  <1>4. \A q \in Procs \ {p} : runThread[q] # NULL => runThread'[q] # NULL
    BY <1>2, <1>3
  <1>5. HandlerTypes' /\ HandlersExclude' /\ HandlersHaveThread'
    BY <1>1, <1>3, <1>4, Held
  <1> QED BY <1>2, <1>3, <1>5

LEMMA Attempting ==
    ASSUME IInv, NEW p \in Procs, NEW c \in LockedCalls,
           Start(p, c), Attempt(p, c), UNCHANGED <<runThread, issue>>
    PROVE  HandlerTypes' /\ HandlersExclude' /\ HandlersHaveThread'
  <1>1. runThread[p] \in Threads /\ runThread[p] # NULL
    BY Started, NullAssumption
  <1>2. Hold(p, c, "attempt", NULL, Procs \ {p})
    BY DEF Attempt
  <1>3. c.f \in WaitFamily => c \in CondCalls
    BY CallParts
  <1> QED BY <1>1, <1>2, <1>3, Held

LEMMA ExitThreadStep ==
    ASSUME IInv, NEW p \in Procs, ExitThread(p), UNCHANGED syncVars
    PROVE  IInv'
  <1> DEFINE c == [f |-> "exit"]
             t == runThread[p]
  <1>1. Start(p, c) /\ Suspend(p, c) /\ UNCHANGED <<attrOf, attrVal, issue>>
    BY DEF ExitThread
  <1>2. c \in LockedCalls
    BY DEF LockedCalls, ThreadCalls
  <1>3. t \in Threads
    BY <1>1, Started
  <1>4. ThreadTypes
    BY DEF IInv, TypeOK
  <1>5. joining[t] \in Seq(Threads)
    BY <1>3, <1>4 DEF ThreadTypes
  <1>6. /\ readyQueue' \in Readied(readyQueue, joining[t])
        /\ joining' = [joining EXCEPT ![t] = <<>>]
        /\ status' = [u \in Threads |-> CASE u \in ToSet(joining[t]) -> "READY"
                                          [] u = t /\ u \notin ToSet(joining[t]) -> "DEAD"
                                          [] OTHER -> status[u]]
    BY DEF ExitThread
  <1>7. readyQueue' \in [Levels -> Seq(Threads)]
    BY <1>4, <1>5, <1>6, ReadiedType DEF ThreadTypes
  <1>8. status' \in [Threads -> {"UNBORN", "READY", "RUNNING", "WAITING", "DEAD"}]
    BY <1>4, <1>6 DEF ThreadTypes
  <1>9. joining' \in [Threads -> Seq(Threads)]
    BY <1>4, <1>6, EmptySeq DEF ThreadTypes
  <1>10. /\ HandlerTypes' /\ HandlersExclude' /\ HandlersHaveThread'
         /\ runThread' \in [Procs -> Threads \cup {NULL}]
    BY <1>1, <1>2, Suspended
  <1>11. ThreadTypes'
    BY <1>1, <1>4, <1>7, <1>8, <1>9, <1>10 DEF ThreadTypes
  <1> QED
    BY <1>10, <1>11, SameObjects DEF IInv, TypeOK

LEMMA JoinStep ==
    ASSUME IInv, NEW p \in Procs, NEW u \in Threads, Join(p, u), UNCHANGED syncVars
    PROVE  IInv'
  <1> DEFINE c == [f |-> "join", th |-> u]
  <1>1. Start(p, c) /\ UNCHANGED <<attrOf, attrVal, readyQueue, joining, issue>>
    BY DEF Join
  <1>2. c \in LockedCalls
    BY DEF LockedCalls, ThreadCalls
  <1>3. ThreadTypes
    BY DEF IInv, TypeOK
  <1>4. CASE Leave(p) /\ UNCHANGED <<runThread, status>>
    <2>1. ThreadTypes'
      BY <1>1, <1>3, <1>4 DEF ThreadTypes
    <2>2. HandlerTypes' /\ HandlersExclude' /\ HandlersHaveThread'
      BY <1>1, <1>4, Left
    <2> QED BY <2>1, <2>2, SameObjects DEF IInv, TypeOK
  <1>5. CASE status' = [status EXCEPT ![runThread[p]] = "WAITING"] /\ Suspend(p, c)
    <2>1. /\ HandlerTypes' /\ HandlersExclude' /\ HandlersHaveThread'
          /\ runThread' \in [Procs -> Threads \cup {NULL}]
      BY <1>1, <1>2, <1>5, Suspended
    <2>2. ThreadTypes'
      BY <1>1, <1>3, <1>5, <2>1 DEF ThreadTypes
    <2> QED BY <2>1, <2>2, SameObjects DEF IInv, TypeOK
  <1> QED
    BY <1>4, <1>5 DEF Join

LEMMA JoinAllStep ==
    ASSUME IInv, NEW p \in Procs, JoinAll(p), UNCHANGED syncVars
    PROVE  IInv'
  <1> DEFINE c == [f |-> "joinAll"]
  <1>1. /\ Start(p, c) /\ Suspend(p, c)
        /\ status' = [status EXCEPT ![runThread[p]] = "WAITING"]
        /\ UNCHANGED <<attrOf, attrVal, readyQueue, joining, issue>>
    BY DEF JoinAll
  <1>2. c \in LockedCalls
    BY DEF LockedCalls, ThreadCalls
  <1>3. /\ HandlerTypes' /\ HandlersExclude' /\ HandlersHaveThread'
        /\ runThread' \in [Procs -> Threads \cup {NULL}]
    BY <1>1, <1>2, Suspended
  <1>4. ThreadTypes'
    BY <1>1, <1>3 DEF IInv, TypeOK, ThreadTypes
  <1> QED BY <1>3, <1>4, SameObjects DEF IInv, TypeOK

\* What join and joinAll add to the joining lists.
LEMMA JoinedType ==
    ASSUME IInv, NEW p \in Procs, pc[p] = "choose"
    PROVE  Joined(p) \in [Threads -> Seq(Threads)]
  <1> DEFINE me    == curThread[p]
             alive == { u \in Threads \ {me} : status[u] \notin {"UNBORN", "DEAD"} }
  <1>1. joining \in [Threads -> Seq(Threads)] /\ me \in Threads /\ call[p] \in LockedCalls
    BY DEF IInv, TypeOK, ThreadTypes, HandlerTypes, HandlersHaveThread
  <1>2. CASE call[p].f = "join"
    <2>1. call[p].th \in Threads
      BY <1>1, <1>2, CallParts
    <2>2. Append(joining[call[p].th], me) \in Seq(Threads)
      BY <1>1, <2>1, AppendProperties
    <2>3. Joined(p) = [joining EXCEPT ![call[p].th] = Append(@, me)]
      BY <1>2 DEF Joined
    <2> QED BY <1>1, <2>1, <2>2, <2>3
  <1>3. CASE call[p].f = "joinAll"
    <2> DEFINE n == Cardinality(alive)
               more == [i \in 1..n |-> me]
    <2>1. n \in Nat
      <3>1. IsFiniteSet(alive)
        BY ThreadsAssumption, FS_Subset
      <3> HIDE DEF alive
      <3> QED BY <3>1, FS_CardinalityType
    <2>2. Joined(p) = [joining EXCEPT ![me] = @ \o more]
      BY <1>3 DEF Joined
    <2> HIDE DEF n
    <2>3. more \in Seq(Threads)
      <3>1. more \in [1..n -> Threads]
        BY <1>1
      <3> QED BY <2>1, <3>1, SeqIntro
    <2> HIDE DEF more
    <2>4. joining[me] \o more \in Seq(Threads)
      BY <1>1, <2>3, ConcatProperties
    <2> QED BY <1>1, <2>2, <2>4
  <1>4. CASE call[p].f \notin {"join", "joinAll"}
    BY <1>1, <1>4 DEF Joined
  <1> QED BY <1>2, <1>3, <1>4

\* A handler in a phase of findReadyThread is the only one there.
LEMMA OnlyInside ==
    ASSUME IInv, NEW p \in Procs, Inside(p)
    PROVE  schedLock /\ \A q \in Procs \ {p} : ~Inside(q)
  BY DEF IInv, HandlersExclude

\* The end of a handler that was in findReadyThread.
LEMMA Returned ==
    ASSUME IInv, NEW p \in Procs, Inside(p), Leave(p), UNCHANGED issue,
           \A q \in Procs \ {p} : runThread[q] # NULL => runThread'[q] # NULL
    PROVE  HandlerTypes' /\ HandlersExclude' /\ HandlersHaveThread'
  <1>1. \A q \in Procs \ {p} : ~Inside(q)
    BY OnlyInside
  <1>2. HandlerTypes'
    BY DEF IInv, TypeOK, HandlerTypes, Leave, Phases
  <1>3. /\ pc' = [pc EXCEPT ![p] = "run"]
        /\ pc \in [Procs -> Phases] /\ call \in [Procs -> LockedCalls \cup {NoCall}]
        /\ curThread' = [curThread EXCEPT ![p] = NULL]
        /\ call' = [call EXCEPT ![p] = NoCall]
        /\ curThread \in [Procs -> Threads \cup {NULL}]
    BY DEF IInv, TypeOK, HandlerTypes, Leave
  <1>4. HandlersExclude'
    BY <1>1, <1>3 DEF HandlersExclude, Inside
  <1>5. HandlersHaveThread'
    BY <1>1, <1>3 DEF HandlersHaveThread, IInv, Inside
  <1> QED
    BY <1>2, <1>4, <1>5

LEMMA ChosenStep ==
    ASSUME IInv, NEW p \in Procs, Chosen(p), UNCHANGED syncVars
    PROVE  IInv'
  <1>1. pc[p] = "choose" /\ Inside(p)
    BY DEF Chosen, Inside
  <1>2. ThreadTypes
    BY DEF IInv, TypeOK
  <1>3. CASE Fail("deadlock")
    BY <1>3, Failed DEF Issues
  <1>4. CASE /\ \/ UNCHANGED <<runThread, status, readyQueue>>
                \/ \E l \in Levels :
                      /\ Top(l)
                      /\ runThread' = [runThread EXCEPT ![p] = Found(l)]
                      /\ status' = [status EXCEPT ![Found(l)] = "RUNNING"]
                      /\ readyQueue' = PopQueue(l)
             /\ joining' = Joined(p)
             /\ Leave(p)
             /\ UNCHANGED <<attrOf, attrVal, issue>>
    <2>1. joining' \in [Threads -> Seq(Threads)]
      BY <1>1, <1>4, JoinedType
    <2>2. CASE UNCHANGED <<runThread, status, readyQueue>>
      BY <2>1, <2>2, <1>1, <1>2, <1>4, Returned, SameObjects
         DEF ThreadTypes, AttrRecord, IInv, TypeOK
    <2>3. ASSUME NEW l \in Levels, Top(l),
                 runThread' = [runThread EXCEPT ![p] = Found(l)],
                 status' = [status EXCEPT ![Found(l)] = "RUNNING"],
                 readyQueue' = PopQueue(l)
          PROVE  IInv'
      <3>1. Found(l) \in Threads /\ PopQueue(l) \in [Levels -> Seq(Threads)]
        BY <1>2, <2>3, FoundType
      <3>2. ThreadTypes'
        BY <1>2, <1>4, <2>1, <2>3, <3>1 DEF ThreadTypes
      <3>3. \A q \in Procs \ {p} : runThread[q] # NULL => runThread'[q] # NULL
        BY <1>2, <2>3 DEF ThreadTypes
      <3> QED BY <1>1, <1>4, <3>2, <3>3, Returned, SameObjects DEF IInv, TypeOK
    <2> QED BY <1>4, <2>2, <2>3
  <1> QED
    BY <1>3, <1>4 DEF Chosen

LEMMA AttemptNextStep ==
    ASSUME IInv, NEW p \in Procs, AttemptNext(p), UNCHANGED syncVars
    PROVE  IInv'
  <1>1. CASE Fail("deadlock")
    BY <1>1, Failed DEF Issues
  <1>2. ASSUME NEW l \in Levels, NEW q \in FreeProcs(p), Top(l),
               runThread' = [runThread EXCEPT ![q] = Found(l)],
               status' = [status EXCEPT ![Found(l)] = "RUNNING"],
               readyQueue' = PopQueue(l),
               scan' = [scan EXCEPT ![p] = { r \in @ : r > q }],
               UNCHANGED <<attrOf, attrVal, schedLock, joining, pc, call, curThread, issue>>
        PROVE  IInv'
    <2>1. ThreadTypes /\ HandlerTypes /\ q \in Procs
      BY <1>2 DEF IInv, TypeOK, HandlerTypes, FreeProcs
    <2>2. Found(l) \in Threads /\ PopQueue(l) \in [Levels -> Seq(Threads)]
      BY <1>2, <2>1, FoundType
    <2>3. ThreadTypes'
      BY <1>2, <2>1, <2>2 DEF ThreadTypes
    <2>4. HandlerTypes'
      BY <1>2, <2>1 DEF HandlerTypes
    <2>5. HandlersExclude'
      BY <1>2 DEF IInv, HandlersExclude, Inside
    <2>6. \A r \in Procs : runThread[r] # NULL => runThread'[r] # NULL
      BY <1>2, <2>1, <2>2, NullAssumption DEF ThreadTypes
    <2>7. HandlersHaveThread'
      BY <1>2, <2>6 DEF IInv, HandlersHaveThread
    <2> QED BY <2>3, <2>4, <2>5, <2>7, SameObjects DEF IInv, TypeOK
  <1> QED
    BY <1>1, <1>2 DEF AttemptNext

LEMMA AttributeStep ==
    ASSUME IInv, UNCHANGED syncVars, attrVal' \in [AttrIds -> AttrRecord],
           UNCHANGED <<runThread, status, attrOf, readyQueue, schedLock, joining,
                       pc, call, curThread, scan, issue>>
    PROVE  IInv'
  <1>1. TypeOK'
    BY DEF IInv, syncVars, TypeOK, HandlerTypes, ThreadTypes, ObjectTypes
  <1>2. HandlersExclude' /\ HandlersHaveThread'
    BY DEF IInv, HandlersExclude, HandlersHaveThread, Inside
  <1> QED BY <1>1, <1>2 DEF IInv

-----------------------------------------------------------------------------
(* Calls on mutexes, semaphores and conditions preserve the invariant *)

\* Thread t, running on p, waits in a queue.
LEMMA WaitingType ==
    ASSUME IInv, NEW p \in Procs, NEW c \in LockedCalls, Start(p, c),
           status' = [status EXCEPT ![runThread[p]] = "WAITING"], Suspend(p, c),
           UNCHANGED <<attrOf, attrVal, readyQueue, joining, issue>>
    PROVE  /\ ThreadTypes' /\ HandlerTypes' /\ HandlersExclude' /\ HandlersHaveThread'
           /\ runThread[p] \in Threads
  <1>1. /\ HandlerTypes' /\ HandlersExclude' /\ HandlersHaveThread'
        /\ runThread' \in [Procs -> Threads \cup {NULL}]
    BY Suspended
  <1>2. runThread[p] \in Threads
    BY Started
  <1>3. ThreadTypes'
    BY <1>1, <1>2 DEF IInv, TypeOK, ThreadTypes
  <1> QED BY <1>1, <1>2, <1>3

\* A handler that returns at once and leaves the threads alone.
LEMMA LeftAlone ==
    ASSUME IInv, NEW p \in Procs, NEW c, Start(p, c), Leave(p),
           UNCHANGED <<runThread, status, attrOf, attrVal, readyQueue, joining, issue>>
    PROVE  ThreadTypes' /\ HandlerTypes' /\ HandlersExclude' /\ HandlersHaveThread'
  <1>1. HandlerTypes' /\ HandlersExclude' /\ HandlersHaveThread'
    BY Left
  <1>2. ThreadTypes'
    BY DEF IInv, TypeOK, ThreadTypes
  <1> QED BY <1>1, <1>2

\* A handler that makes t ready and calls attemptScheduling.
LEMMA AwakeAttempt ==
    ASSUME IInv, NEW p \in Procs, NEW c \in LockedCalls, Start(p, c), Attempt(p, c),
           NEW t \in Threads, Awake(t),
           UNCHANGED <<runThread, attrOf, attrVal, joining, issue>>
    PROVE  ThreadTypes' /\ HandlerTypes' /\ HandlersExclude' /\ HandlersHaveThread'
  <1>1. HandlerTypes' /\ HandlersExclude' /\ HandlersHaveThread'
    BY Attempting
  <1>2. ThreadTypes'
    BY AwakeType DEF IInv, TypeOK
  <1> QED BY <1>1, <1>2

LEMMA LockMutexStep ==
    ASSUME IInv, NEW p \in Procs, NEW m \in Mutexes, NEW nonbl \in BOOLEAN,
           LockMutex(p, m, nonbl)
    PROVE  IInv'
  <1> DEFINE c == [f |-> IF nonbl THEN "trylock" ELSE "lock", m |-> m]
             t == runThread[p]
  <1>1. c \in LockedCalls
    BY DEF LockedCalls, MutexCalls
  <1>2. Start(p, c) /\ UNCHANGED <<sem, cond>>
    BY DEF LockMutex
  <1>3. t \in Threads /\ mutex \in [Mutexes -> MutexRecord]
    BY <1>2, Started DEF IInv, TypeOK, ObjectTypes
  <1>4. ASSUME UNCHANGED mutex, Fail("no such mutex") PROVE IInv'
    BY <1>2, <1>4, Failed DEF Issues, syncVars
  <1>5. ASSUME UNCHANGED <<runThread, status, attrOf, attrVal, readyQueue, joining, issue>>,
               Leave(p), mutex' \in [Mutexes -> MutexRecord]
        PROVE  IInv'
    BY <1>2, <1>5, LeftAlone DEF IInv, TypeOK, ObjectTypes
  <1>6. [mutex EXCEPT ![m].rec = @ + 1] \in [Mutexes -> MutexRecord]
    <2>1. mutex[m] \in MutexRecord /\ mutex[m].rec + 1 \in Nat
      BY <1>3 DEF MutexRecord
    <2>2. [mutex[m] EXCEPT !.rec = @ + 1] \in MutexRecord
      BY <2>1 DEF MutexRecord
    <2> QED BY <1>3, <2>2
  <1>7. [mutex EXCEPT ![m].status = "LOCKED", ![m].owner = t] \in [Mutexes -> MutexRecord]
    <2>1. [mutex[m] EXCEPT !.status = "LOCKED", !.owner = t] \in MutexRecord
      BY <1>3 DEF MutexRecord
    <2>2. [mutex EXCEPT ![m].status = "LOCKED", ![m].owner = t]
             = [mutex EXCEPT ![m] = [mutex[m] EXCEPT !.status = "LOCKED", !.owner = t]]
      BY <1>3
    <2> QED BY <1>3, <2>1, <2>2
  <1>8. ASSUME mutex' = [mutex EXCEPT ![m].waiting = Append(@, t)],
               status' = [status EXCEPT ![t] = "WAITING"], Suspend(p, c),
               UNCHANGED <<attrOf, attrVal, readyQueue, joining, issue>>
        PROVE  IInv'
    <2>1. mutex[m].waiting \in Seq(Threads)
      BY <1>3 DEF MutexRecord
    <2>2. Append(mutex[m].waiting, t) \in Seq(Threads)
      BY <2>1, <1>3, AppendProperties
    <2>3. mutex' \in [Mutexes -> MutexRecord]
      BY <1>3, <1>8, <2>2 DEF MutexRecord
    <2> QED BY <1>1, <1>2, <1>8, <2>3, WaitingType DEF IInv, TypeOK, ObjectTypes
  <1> QED
    BY <1>3, <1>4, <1>5, <1>6, <1>7, <1>8 DEF LockMutex

LEMMA ReleasedType ==
    ASSUME ObjectTypes, NEW m \in Mutexes
    PROVE  /\ Released(m) \in MutexRecord
           /\ NextOwner(m) # NULL => NextOwner(m) \in Threads
  <1>1. mutex[m] \in MutexRecord
    BY DEF ObjectTypes
  <1>2. mutex[m].waiting \in Seq(Threads) /\ mutex[m].rec \in Nat
    BY <1>1 DEF MutexRecord
  <1>3. CASE mutex[m].rec > 0
    <2>1. Released(m) = [mutex[m] EXCEPT !.rec = @ - 1] /\ NextOwner(m) = NULL
      BY <1>2, <1>3 DEF Released, NextOwner
    <2>2. mutex[m].rec - 1 \in Nat
      BY <1>2, <1>3
    <2> QED BY <1>1, <2>1, <2>2 DEF MutexRecord
  <1>4. CASE mutex[m].rec = 0 /\ mutex[m].waiting # <<>>
    <2>1. Head(mutex[m].waiting) \in Threads /\ Tail(mutex[m].waiting) \in Seq(Threads)
      BY <1>2, <1>4, HeadTailProperties
    <2>2. /\ Released(m) = [mutex[m] EXCEPT !.owner = Head(mutex[m].waiting), !.waiting = Tail(@)]
          /\ NextOwner(m) = Head(mutex[m].waiting)
      BY <1>4 DEF Released, NextOwner
    <2> QED BY <1>1, <2>1, <2>2 DEF MutexRecord
  <1>5. CASE mutex[m].rec = 0 /\ mutex[m].waiting = <<>>
    <2>1. /\ Released(m) = [mutex[m] EXCEPT !.status = "FREE", !.owner = NULL, !.waiting = <<>>]
          /\ NextOwner(m) = NULL
      BY <1>5 DEF Released, NextOwner
    <2>2. Released(m) = [live |-> mutex[m].live, owner |-> NULL, status |-> "FREE",
                         rec |-> mutex[m].rec, waiting |-> <<>>]
      BY <1>1, <2>1 DEF MutexRecord
    <2>3. <<>> \in Seq(Threads) /\ mutex[m].live \in BOOLEAN
      BY <1>1, EmptySeq DEF MutexRecord
    <2> QED BY <1>2, <2>1, <2>2, <2>3 DEF MutexRecord
  <1> QED BY <1>2, <1>3, <1>4, <1>5

LEMMA UnLockMutexStep ==
    ASSUME IInv, NEW p \in Procs, NEW m \in Mutexes, UnLockMutex(p, m)
    PROVE  IInv'
  <1> DEFINE c == [f |-> "unlock", m |-> m]
  <1>1. c \in LockedCalls
    BY DEF LockedCalls, MutexCalls
  <1>2. Start(p, c) /\ UNCHANGED <<sem, cond>>
    BY DEF UnLockMutex
  <1>3. mutex \in [Mutexes -> MutexRecord]
    BY DEF IInv, TypeOK, ObjectTypes
  <1>4. ASSUME UNCHANGED mutex, NEW why \in Issues, Fail(why) PROVE IInv'
    BY <1>2, <1>4, Failed DEF syncVars
  <1>5. ASSUME UNCHANGED <<runThread, status, attrOf, attrVal, readyQueue, joining, issue>>,
               Leave(p), mutex' \in [Mutexes -> MutexRecord]
        PROVE  IInv'
    BY <1>2, <1>5, LeftAlone DEF IInv, TypeOK, ObjectTypes
  <1>6. [mutex EXCEPT ![m] = Released(m)] \in [Mutexes -> MutexRecord]
    BY <1>3, ReleasedType DEF IInv, TypeOK
  <1>7. ASSUME NextOwner(m) # NULL, Awake(NextOwner(m)), Attempt(p, c),
               mutex' = [mutex EXCEPT ![m] = Released(m)],
               UNCHANGED <<runThread, attrOf, attrVal, joining, issue>>
        PROVE  IInv'
    <2>1. NextOwner(m) \in Threads
      BY <1>7, ReleasedType DEF IInv, TypeOK
    <2>2. ThreadTypes' /\ HandlerTypes' /\ HandlersExclude' /\ HandlersHaveThread'
      BY <1>1, <1>2, <1>7, <2>1, AwakeAttempt
    <2> QED BY <1>2, <1>6, <1>7, <2>2 DEF IInv, TypeOK, ObjectTypes
  <1> QED
    BY <1>3, <1>4, <1>5, <1>6, <1>7 DEF UnLockMutex, Issues

LEMMA PostSemStep ==
    ASSUME IInv, NEW p \in Procs, NEW s \in Sems, PostSem(p, s)
    PROVE  IInv'
  <1> DEFINE c == [f |-> "post", s |-> s]
  <1>1. c \in LockedCalls
    BY DEF LockedCalls, SemCalls
  <1>2. Start(p, c) /\ UNCHANGED <<mutex, cond>>
    BY DEF PostSem
  <1>3. sem \in [Sems -> SemRecord] /\ sem[s] \in SemRecord /\ sem[s].waiting \in Seq(Threads)
    BY DEF IInv, TypeOK, ObjectTypes, SemRecord
  <1>4. CASE Fail("no such semaphore") /\ UNCHANGED sem
    BY <1>2, <1>4, Failed DEF Issues, syncVars
  <1>5. CASE /\ sem[s].waiting # <<>>
             /\ sem' = [sem EXCEPT ![s].waiting = Tail(@)]
             /\ Awake(Head(sem[s].waiting))
             /\ Attempt(p, c)
             /\ UNCHANGED <<runThread, attrOf, attrVal, joining, issue>>
    <2>1. Head(sem[s].waiting) \in Threads /\ Tail(sem[s].waiting) \in Seq(Threads)
      BY <1>3, <1>5, HeadTailProperties
    <2>2. [sem[s] EXCEPT !.waiting = Tail(@)] \in SemRecord
      BY <1>3, <2>1 DEF SemRecord
    <2>3. ThreadTypes' /\ HandlerTypes' /\ HandlersExclude' /\ HandlersHaveThread'
      BY <1>1, <1>2, <1>5, <2>1, AwakeAttempt
    <2> QED BY <1>2, <1>3, <1>5, <2>2, <2>3 DEF IInv, TypeOK, ObjectTypes
  <1>6. CASE /\ sem' = [sem EXCEPT ![s].value = @ + 1]
             /\ Leave(p)
             /\ UNCHANGED <<runThread, status, attrOf, attrVal, readyQueue, joining, issue>>
    <2>1. sem[s].value + 1 \in Nat
      BY <1>3 DEF SemRecord
    <2>2. [sem[s] EXCEPT !.value = @ + 1] \in SemRecord
      BY <1>3, <2>1 DEF SemRecord
    <2>3. ThreadTypes' /\ HandlerTypes' /\ HandlersExclude' /\ HandlersHaveThread'
      BY <1>2, <1>6, LeftAlone
    <2> QED BY <1>2, <1>3, <1>6, <2>2, <2>3 DEF IInv, TypeOK, ObjectTypes
  <1>7. CASE /\ sem[s].live /\ sem' = [sem EXCEPT ![s] = Posted(sem[s])]
             /\ IF sem[s].waiting # <<>>
                THEN Awake(Head(sem[s].waiting)) /\ Attempt(p, c)
                ELSE Leave(p) /\ UNCHANGED <<status, readyQueue>>
             /\ UNCHANGED <<runThread, attrOf, attrVal, joining, issue>>
    <2>1. CASE sem[s].waiting # <<>>
      <3>1. sem' = [sem EXCEPT ![s].waiting = Tail(@)]
        BY <1>7, <2>1 DEF Posted
      <3> QED BY <1>5, <1>7, <2>1, <3>1
    <2>2. CASE sem[s].waiting = <<>>
      <3>1. sem' = [sem EXCEPT ![s].value = @ + 1]
        BY <1>7, <2>2 DEF Posted
      <3> QED BY <1>6, <1>7, <2>2, <3>1
    <2> QED BY <2>1, <2>2
  <1> QED
    BY <1>4, <1>7 DEF PostSem

LEMMA WaitSemStep ==
    ASSUME IInv, NEW p \in Procs, NEW s \in Sems, WaitSem(p, s)
    PROVE  IInv'
  <1> DEFINE c == [f |-> "semwait", s |-> s]
             t == runThread[p]
  <1>1. c \in LockedCalls
    BY DEF LockedCalls, SemCalls
  <1>2. Start(p, c) /\ UNCHANGED <<mutex, cond>>
    BY DEF WaitSem
  <1>3. sem \in [Sems -> SemRecord] /\ sem[s] \in SemRecord /\ sem[s].waiting \in Seq(Threads)
    BY DEF IInv, TypeOK, ObjectTypes, SemRecord
  <1>4. CASE Fail("no such semaphore") /\ UNCHANGED sem
    BY <1>2, <1>4, Failed DEF Issues, syncVars
  <1>5. CASE /\ sem[s].value > 0
             /\ sem' = [sem EXCEPT ![s].value = @ - 1]
             /\ Leave(p)
             /\ UNCHANGED <<runThread, status, attrOf, attrVal, readyQueue, joining, issue>>
    <2>1. sem[s].value - 1 \in Nat
      BY <1>3, <1>5 DEF SemRecord
    <2>2. [sem[s] EXCEPT !.value = @ - 1] \in SemRecord
      BY <1>3, <2>1 DEF SemRecord
    <2>3. ThreadTypes' /\ HandlerTypes' /\ HandlersExclude' /\ HandlersHaveThread'
      BY <1>2, <1>5, LeftAlone
    <2> QED BY <1>2, <1>3, <1>5, <2>2, <2>3 DEF IInv, TypeOK, ObjectTypes
  <1>6. CASE /\ sem' = [sem EXCEPT ![s].waiting = Append(@, t)]
             /\ status' = [status EXCEPT ![t] = "WAITING"]
             /\ Suspend(p, c)
             /\ UNCHANGED <<attrOf, attrVal, readyQueue, joining, issue>>
    <2>1. /\ ThreadTypes' /\ HandlerTypes' /\ HandlersExclude' /\ HandlersHaveThread'
          /\ t \in Threads
      BY <1>1, <1>2, <1>6, WaitingType
    <2>2. Append(sem[s].waiting, t) \in Seq(Threads)
      BY <1>3, <2>1, AppendProperties
    <2>3. [sem[s] EXCEPT !.waiting = Append(@, t)] \in SemRecord
      BY <1>3, <2>2 DEF SemRecord
    <2> QED BY <1>2, <1>3, <1>6, <2>1, <2>3 DEF IInv, TypeOK, ObjectTypes
  <1> QED
    BY <1>4, <1>5, <1>6 DEF WaitSem

LEMMA CondLockedType ==
    ASSUME NEW x \in MutexRecord, NEW t \in Threads
    PROVE  CondLocked(x, t) \in MutexRecord
  <1>1. x.waiting \in Seq(Threads) /\ x.rec + 1 \in Nat /\ Append(x.waiting, t) \in Seq(Threads)
    BY AppendProperties DEF MutexRecord
  <1>2. [x EXCEPT !.rec = @ + 1] \in MutexRecord
    BY <1>1 DEF MutexRecord
  <1>3. [x EXCEPT !.status = "LOCKED", !.owner = t] \in MutexRecord
    BY DEF MutexRecord
  <1>4. [x EXCEPT !.waiting = Append(@, t)] \in MutexRecord
    BY <1>1 DEF MutexRecord
  <1> QED
    BY <1>2, <1>3, <1>4 DEF CondLocked

LEMMA SignalCondStep ==
    ASSUME IInv, NEW p \in Procs, NEW k \in Conds, NEW broadcast \in BOOLEAN,
           SignalCond(p, k, broadcast)
    PROVE  IInv'
  <1> DEFINE c     == [f |-> IF broadcast THEN "broadcast" ELSE "signal", c |-> k]
             m     == cond[k].mutex
             first == Head(cond[k].waiting)
             rest  == Tail(cond[k].waiting)
             taken == CondLocked(mutex[m], first)
  <1>1. c \in LockedCalls
    BY DEF LockedCalls, CondCalls
  <1>2. Start(p, c) /\ UNCHANGED sem
    BY DEF SignalCond
  <1>3. /\ mutex \in [Mutexes -> MutexRecord] /\ cond \in [Conds -> CondRecord]
        /\ cond[k] \in CondRecord /\ cond[k].waiting \in Seq(Threads)
        /\ m \in Mutexes \cup {NULL}
    BY DEF IInv, TypeOK, ObjectTypes, CondRecord
  <1>4. ASSUME UNCHANGED <<mutex, cond>>, NEW why \in Issues, Fail(why) PROVE IInv'
    BY <1>2, <1>4, Failed DEF syncVars
  <1>5. CASE /\ UNCHANGED <<mutex, cond, status, readyQueue>>
             /\ Attempt(p, c)
             /\ UNCHANGED <<runThread, attrOf, attrVal, joining, issue>>
    <2>1. HandlerTypes' /\ HandlersExclude' /\ HandlersHaveThread'
      BY <1>1, <1>2, <1>5, Attempting
    <2>2. ThreadTypes'
      BY <1>5 DEF IInv, TypeOK, ThreadTypes
    <2> QED BY <1>2, <1>5, <2>1, <2>2 DEF IInv, TypeOK, ObjectTypes
  <1>6. CASE /\ cond[k].waiting # <<>> /\ m # NULL
             /\ mutex' = [mutex EXCEPT ![m] =
                          IF broadcast THEN [taken EXCEPT !.waiting = @ \o rest] ELSE taken]
             /\ cond' = [cond EXCEPT ![k] = Signalled(cond[k], broadcast)]
             /\ IF GetsMutex(mutex[m], first) THEN Awake(first)
                                              ELSE UNCHANGED <<status, readyQueue>>
             /\ Attempt(p, c)
             /\ UNCHANGED <<runThread, attrOf, attrVal, joining, issue>>
    <2>1. first \in Threads /\ rest \in Seq(Threads)
      BY <1>3, <1>6, HeadTailProperties
    <2>2. mutex[m] \in MutexRecord
      BY <1>3, <1>6
    <2>3. taken \in MutexRecord /\ taken.waiting \o rest \in Seq(Threads)
      <3>1. taken \in MutexRecord
        BY <2>1, <2>2, CondLockedType
      <3> HIDE DEF taken, rest
      <3>2. taken.waiting \in Seq(Threads)
        BY <3>1 DEF MutexRecord
      <3> QED BY <2>1, <3>1, <3>2, ConcatProperties
    <2>4. [taken EXCEPT !.waiting = @ \o rest] \in MutexRecord
      <3> HIDE DEF taken, rest
      <3> QED BY <2>3 DEF MutexRecord
    <2>5. mutex' \in [Mutexes -> MutexRecord]
      <3> HIDE DEF taken, rest
      <3> QED BY <1>3, <1>6, <2>3, <2>4
    <2>6. cond' \in [Conds -> CondRecord]
      <3> DEFINE new == [cond[k] EXCEPT !.waiting = IF broadcast THEN <<>> ELSE rest,
                                        !.mutex   = IF broadcast \/ rest = <<>> THEN NULL ELSE @]
      <3> HIDE DEF rest
      <3>1. (IF broadcast THEN <<>> ELSE rest) \in Seq(Threads)
        BY <2>1, EmptySeq
      <3>2. (IF broadcast \/ rest = <<>> THEN NULL ELSE m) \in Mutexes \cup {NULL}
        BY <1>3
      <3>3. new \in CondRecord
        BY <1>3, <3>1, <3>2 DEF CondRecord
      <3>4. cond' = [cond EXCEPT ![k] = new]
        BY <1>6 DEF Signalled, rest
      <3> QED BY <1>3, <3>3, <3>4
    <2>7. HandlerTypes' /\ HandlersExclude' /\ HandlersHaveThread'
      BY <1>1, <1>2, <1>6, Attempting
    <2>8. ThreadTypes'
      BY <1>6, <2>1, AwakeType DEF IInv, TypeOK, ThreadTypes
    <2> QED BY <1>2, <2>5, <2>6, <2>7, <2>8 DEF IInv, TypeOK, ObjectTypes
  <1> QED
    BY <1>4, <1>5, <1>6 DEF SignalCond, Issues

\* The early return of waitCond: schedLock stays busy with nobody inside.
LEMMA LockLeaked ==
    ASSUME IInv, NEW p \in Procs, NEW c, Start(p, c), schedLock' = TRUE,
           pc' = [pc EXCEPT ![p] = "run"], call' = [call EXCEPT ![p] = NoCall],
           UNCHANGED <<runThread, status, attrOf, attrVal, readyQueue, joining,
                       curThread, scan, issue, syncVars>>
    PROVE  IInv'
  <1>1. \A q \in Procs : ~Inside(q)
    BY Started
  <1>2. /\ pc \in [Procs -> Phases] /\ call \in [Procs -> LockedCalls \cup {NoCall}]
    BY DEF IInv, TypeOK, HandlerTypes
  <1>3. HandlerTypes' /\ ThreadTypes' /\ ObjectTypes'
    BY SameObjects DEF IInv, TypeOK, HandlerTypes, ThreadTypes, Phases
  <1>4. HandlersExclude'
    BY <1>1, <1>2 DEF HandlersExclude, Inside
  <1>5. HandlersHaveThread'
    BY <1>1, <1>2 DEF HandlersHaveThread, IInv, Inside
  <1> QED BY <1>3, <1>4, <1>5 DEF IInv, TypeOK

LEMMA CondQueueType ==
    ASSUME cond \in [Conds -> CondRecord], NEW k \in Conds, NEW m \in Mutexes,
           NEW t \in Threads
    PROVE  /\ [cond EXCEPT ![k].mutex = m] \in [Conds -> CondRecord]
           /\ [cond EXCEPT ![k].waiting = Append(@, t)] \in [Conds -> CondRecord]
           /\ [cond EXCEPT ![k].mutex = m, ![k].waiting = Append(@, t)] \in [Conds -> CondRecord]
  <1>1. cond[k] \in CondRecord /\ cond[k].waiting \in Seq(Threads)
    BY DEF CondRecord
  <1>2. Append(cond[k].waiting, t) \in Seq(Threads)
    BY <1>1, AppendProperties
  <1>3. [cond[k] EXCEPT !.mutex = m] \in CondRecord
    BY <1>1 DEF CondRecord
  <1>4. [cond[k] EXCEPT !.waiting = Append(@, t)] \in CondRecord
    BY <1>1, <1>2 DEF CondRecord
  <1>5. [cond[k] EXCEPT !.mutex = m, !.waiting = Append(@, t)] \in CondRecord
    BY <1>1, <1>2 DEF CondRecord
  <1>6. [cond EXCEPT ![k].mutex = m, ![k].waiting = Append(@, t)]
          = [cond EXCEPT ![k] = [cond[k] EXCEPT !.mutex = m, !.waiting = Append(@, t)]]
    BY <1>1
  <1> QED
    BY <1>3, <1>4, <1>5, <1>6

LEMMA WaitCondStep ==
    ASSUME IInv, NEW p \in Procs, NEW k \in Conds, NEW m \in Mutexes, NEW timed \in BOOLEAN,
           WaitCond(p, k, m, timed)
    PROVE  IInv'
  <1> DEFINE c == [f |-> IF timed THEN "timedwait" ELSE "wait", c |-> k, m |-> m]
             t == runThread[p]
  <1>1. c \in LockedCalls
    BY DEF LockedCalls, CondCalls
  <1>2. Start(p, c) /\ UNCHANGED sem
    BY DEF WaitCond
  <1>3. /\ mutex \in [Mutexes -> MutexRecord] /\ cond \in [Conds -> CondRecord]
        /\ sem \in [Sems -> SemRecord] /\ t \in Threads
    BY <1>2, Started DEF IInv, TypeOK, ObjectTypes
  <1>4. ASSUME UNCHANGED <<mutex, cond>>, NEW why \in Issues, Fail(why) PROVE IInv'
    BY <1>2, <1>4, Failed DEF syncVars
  <1>5. ASSUME schedLock' = TRUE, pc' = [pc EXCEPT ![p] = "run"],
               call' = [call EXCEPT ![p] = NoCall],
               UNCHANGED <<runThread, status, attrOf, attrVal, readyQueue, joining,
                           curThread, scan, issue, mutex, cond>>
        PROVE  IInv'
    BY <1>2, <1>5, LockLeaked DEF syncVars
  <1>6. [mutex EXCEPT ![m] = Released(m)] \in [Mutexes -> MutexRecord]
    BY <1>3, ReleasedType DEF IInv, TypeOK
  <1>7. ASSUME mutex' = IF mutex[m].owner = NULL THEN mutex
                        ELSE [mutex EXCEPT ![m] = Released(m)],
               cond' = [cond EXCEPT ![k].mutex = m, ![k].waiting = Append(@, t)],
               CondEnqueue(p, c), UNCHANGED readyQueue,
               UNCHANGED <<attrOf, attrVal, joining, issue>>
        PROVE  IInv'
    <2>1. ThreadTypes' /\ HandlerTypes' /\ HandlersExclude' /\ HandlersHaveThread'
      BY <1>1, <1>2, <1>7, WaitingType DEF CondEnqueue
    <2>2. mutex' \in [Mutexes -> MutexRecord]
      BY <1>3, <1>6, <1>7
    <2>3. cond' \in [Conds -> CondRecord]
      BY <1>3, <1>7, CondQueueType
    <2> QED BY <1>2, <1>3, <2>1, <2>2, <2>3 DEF IInv, TypeOK, ObjectTypes
  <1>8. ASSUME NextOwner(m) # NULL, mutex' = [mutex EXCEPT ![m] = Released(m)],
               cond' = [cond EXCEPT ![k].mutex = m],
               Awake(NextOwner(m)), Attempt(p, c),
               UNCHANGED runThread, UNCHANGED <<attrOf, attrVal, joining, issue>>
        PROVE  IInv'
    <2>1. NextOwner(m) \in Threads
      BY <1>8, ReleasedType DEF IInv, TypeOK
    <2>2. ThreadTypes' /\ HandlerTypes' /\ HandlersExclude' /\ HandlersHaveThread'
      BY <1>1, <1>2, <1>8, <2>1, AwakeAttempt
    <2>3. cond' \in [Conds -> CondRecord]
      BY <1>3, <1>8, CondQueueType
    <2> QED BY <1>2, <1>3, <1>6, <1>8, <2>2, <2>3 DEF IInv, TypeOK, ObjectTypes
  <1> QED
    BY <1>4, <1>5, <1>7, <1>8 DEF WaitCond, Issues

LEMMA AttemptOverType ==
    ASSUME ThreadTypes, NEW p \in Procs, AttemptOver(p)
    PROVE  readyQueue' \in [Levels -> Seq(Threads)]
  <1>1. CASE UNCHANGED readyQueue
    BY <1>1 DEF ThreadTypes
  <1>2. ASSUME NEW l \in Levels, Top(l),
               readyQueue' = [PopQueue(l) EXCEPT ![0] = <<Found(l)>> \o @]
        PROVE  readyQueue' \in [Levels -> Seq(Threads)]
    <2>1. Found(l) \in Threads /\ PopQueue(l) \in [Levels -> Seq(Threads)] /\ 0 \in Levels
      BY <1>2, FoundType, PrioAssumption DEF Levels, EdfLevel
    <2>2. <<Found(l)>> \in Seq(Threads)
      BY <2>1
    <2>3. <<Found(l)>> \o PopQueue(l)[0] \in Seq(Threads)
      BY <2>1, <2>2, ConcatProperties
    <2> HIDE DEF PopQueue, Found
    <2> QED BY <1>2, <2>1, <2>3
  <1> QED
    BY <1>1, <1>2 DEF AttemptOver

LEMMA AttemptedStep ==
    ASSUME IInv, NEW p \in Procs, Attempted(p)
    PROVE  IInv'
  <1>1. /\ Inside(p) /\ Leave(p) /\ AttemptOver(p)
        /\ UNCHANGED <<runThread, status, attrOf, attrVal, joining, issue, syncVars>>
    BY DEF Attempted, AttemptOver, Inside
  <1>2. readyQueue' \in [Levels -> Seq(Threads)]
    BY <1>1, AttemptOverType DEF IInv, TypeOK
  <1>3. ThreadTypes'
    BY <1>1, <1>2 DEF IInv, TypeOK, ThreadTypes
  <1>4. HandlerTypes' /\ HandlersExclude' /\ HandlersHaveThread'
    BY <1>1, Returned
  <1> QED
    BY <1>1, <1>3, <1>4, SameObjects DEF IInv, TypeOK

LEMMA WaitCondResumedStep ==
    ASSUME IInv, NEW p \in Procs, WaitCondResumed(p)
    PROVE  IInv'
  <1> DEFINE c == call[p]
             t == runThread[p]
  <1>1. /\ Inside(p) /\ pc[p] = "attempt" /\ c.f \in WaitFamily /\ AttemptOver(p)
        /\ cond' = [cond EXCEPT ![c.c].waiting = Append(@, t)]
        /\ status' = [status EXCEPT ![t] = "WAITING"]
        /\ runThread' = [runThread EXCEPT ![p] = NULL]
        /\ Hold(p, c, "choose", t, {})
        /\ UNCHANGED <<attrOf, attrVal, joining, issue, mutex, sem>>
    BY DEF WaitCondResumed, AttemptOver, Inside, CondEnqueue, Suspend
  <1>2. /\ runThread \in [Procs -> Threads \cup {NULL}]
        /\ t # NULL /\ c \in CondCalls
    BY <1>1 DEF IInv, HandlersHaveThread, TypeOK, ThreadTypes
  <1>3. c \in LockedCalls /\ c.c \in Conds /\ c.m \in Mutexes /\ t \in Threads
    BY <1>1, <1>2, CallParts DEF LockedCalls
  <1>4. cond' \in [Conds -> CondRecord]
    BY <1>1, <1>3, CondQueueType DEF IInv, TypeOK, ObjectTypes
  <1>5. ThreadTypes'
    <2>1. readyQueue' \in [Levels -> Seq(Threads)]
      BY <1>1, AttemptOverType DEF IInv, TypeOK
    <2> QED BY <1>1, <1>2, <1>3, <2>1 DEF IInv, TypeOK, ThreadTypes
  <1>6. \A q \in Procs \ {p} : ~Inside(q)
    BY <1>1, OnlyInside
  <1>7. /\ pc' = [pc EXCEPT ![p] = "choose"] /\ schedLock' = TRUE
        /\ call' = [call EXCEPT ![p] = c]
        /\ curThread' = [curThread EXCEPT ![p] = t]
        /\ scan' = [scan EXCEPT ![p] = {}]
        /\ pc \in [Procs -> Phases] /\ call \in [Procs -> LockedCalls \cup {NoCall}]
        /\ curThread \in [Procs -> Threads \cup {NULL}] /\ scan \in [Procs -> SUBSET Procs]
    BY <1>1 DEF Hold, IInv, TypeOK, HandlerTypes
  <1>8. HandlerTypes'
    BY <1>1, <1>3, <1>7 DEF IInv, TypeOK, HandlerTypes, Phases
  <1>9. HandlersExclude'
    BY <1>6, <1>7 DEF HandlersExclude, Inside
  <1>10. HandlersHaveThread'
    <2> SUFFICES ASSUME NEW q \in Procs
                 PROVE  /\ pc'[q] = "blocked" => runThread'[q] # NULL /\ call'[q] \in LockedCalls
                        /\ pc'[q] = "choose"  => curThread'[q] # NULL /\ call'[q] \in LockedCalls
                        /\ pc'[q] = "attempt" /\ call'[q].f \in WaitFamily =>
                             runThread'[q] # NULL /\ call'[q] \in CondCalls
      BY DEF HandlersHaveThread
    <2>1. CASE q = p
      BY <2>1, <1>2, <1>3, <1>7
    <2>2. CASE q # p
      BY <2>2, <1>1, <1>2, <1>6, <1>7 DEF HandlersHaveThread, IInv, Inside
    <2> QED BY <2>1, <2>2
  <1> QED
    BY <1>1, <1>4, <1>5, <1>8, <1>9, <1>10 DEF IInv, TypeOK, ObjectTypes

LEMMA ObjectsStep ==
    ASSUME IInv, UNCHANGED schedVars, ObjectTypes'
    PROVE  IInv'
  <1>1. HandlerTypes' /\ ThreadTypes'
    BY DEF IInv, schedVars, TypeOK, HandlerTypes, ThreadTypes
  <1>2. HandlersExclude' /\ HandlersHaveThread'
    BY DEF IInv, schedVars, HandlersExclude, HandlersHaveThread, Inside
  <1> QED BY <1>1, <1>2 DEF IInv, TypeOK

LEMMA FreshTypes ==
    /\ FreshMutex \in MutexRecord /\ NoMutex \in MutexRecord
    /\ \A v \in Nat : FreshSem(v) \in SemRecord
    /\ NoSem \in SemRecord
    /\ FreshCond \in CondRecord /\ NoCond \in CondRecord
  BY EmptySeq DEF FreshMutex, NoMutex, MutexRecord, FreshSem, NoSem, SemRecord,
                  FreshCond, NoCond, CondRecord

LEMMA UnlockedStep ==
    ASSUME IInv, NEW p \in Procs, NEW c \in Calls \ LockedCalls, Unlocked(p, c)
    PROVE  IInv'
  <1>1. c \in ObjCalls \cup ParamCalls
    BY CallsAssumption
  <1>2. /\ c.f = "createSem" => c.v \in Nat
        /\ c.f = "destroyMutex" => c.m \in Mutexes
        /\ c.f = "destroySem" => c.s \in Sems
        /\ c.f = "destroyCond" => c.c \in Conds
        /\ c.f = "setschedparam" => c.th \in Threads /\ c.v \in AttrRecord
        /\ c.f = "attr_set" => c.attr \in AttrIds /\ c.v \in AttrRecord
    BY <1>1, BoundsAssumption, AttrAssumption DEF ObjCalls, ParamCalls
  <1>3. /\ mutex \in [Mutexes -> MutexRecord] /\ sem \in [Sems -> SemRecord]
        /\ cond \in [Conds -> CondRecord] /\ attrVal \in [AttrIds -> AttrRecord]
        /\ attrOf \in [Threads -> AttrIds]
    BY DEF IInv, TypeOK, ObjectTypes, ThreadTypes
  <1>4. ASSUME NEW why \in Issues, Fail(why), UNCHANGED syncVars PROVE IInv'
    BY <1>4, Failed
  <1>5. CASE c.f = "createMutex" /\ CreateMutex(p)
    BY <1>3, <1>5, FreshTypes, ObjectsStep DEF CreateMutex, ObjectTypes
  <1>6. CASE c.f = "createSem" /\ CreateSem(p, c.v)
    BY <1>2, <1>3, <1>6, FreshTypes, ObjectsStep DEF CreateSem, ObjectTypes
  <1>7. CASE c.f = "createCond" /\ CreateCond(p)
    BY <1>3, <1>7, FreshTypes, ObjectsStep DEF CreateCond, ObjectTypes
  <1>8. CASE c.f = "destroyMutex" /\ DestroyMutex(p, c.m)
    BY <1>2, <1>3, <1>4, <1>8, FreshTypes, ObjectsStep DEF DestroyMutex, ObjectTypes, Issues, syncVars
  <1>9. CASE c.f = "destroySem" /\ DestroySem(p, c.s)
    BY <1>2, <1>3, <1>4, <1>9, FreshTypes, ObjectsStep DEF DestroySem, ObjectTypes, Issues, syncVars
  <1>10. CASE c.f = "destroyCond" /\ DestroyCond(p, c.c)
    BY <1>2, <1>3, <1>4, <1>10, FreshTypes, ObjectsStep DEF DestroyCond, ObjectTypes, Issues, syncVars
  <1>11. CASE c.f = "setschedparam" /\ SetSchedParam(p, c.th, c.v) /\ UNCHANGED syncVars
    <2>1. attrOf[c.th] \in AttrIds /\ attrVal[attrOf[c.th]] \in AttrRecord /\ c.v \in AttrRecord
      BY <1>2, <1>3, <1>11
    <2>2. [c.v EXCEPT !.preemptive = attrVal[attrOf[c.th]].preemptive] \in AttrRecord
      BY <2>1 DEF AttrRecord
    <2>3. attrVal' \in [AttrIds -> AttrRecord]
      BY <1>3, <1>11, <2>1, <2>2 DEF SetSchedParam
    <2> QED BY <1>11, <2>3, AttributeStep DEF SetSchedParam
  <1>12. CASE c.f = "attr_set" /\ SetAttr(p, c.attr, c.v) /\ UNCHANGED syncVars
    <2>1. attrVal' \in [AttrIds -> AttrRecord]
      BY <1>2, <1>3, <1>12 DEF SetAttr
    <2> QED BY <1>12, <2>1, AttributeStep DEF SetAttr
  <1> QED
    BY <1>5, <1>6, <1>7, <1>8, <1>9, <1>10, <1>11, <1>12 DEF Unlocked

-----------------------------------------------------------------------------
(* The invariant is inductive *)

LEMMA HandleStep ==
    ASSUME IInv, NEW p \in Procs, NEW c \in LockedCalls, Handle(p, c)
    PROVE  IInv'
  BY CallParts, CreateThreadStep, ExitThreadStep, JoinStep, JoinAllStep, LockMutexStep,
     UnLockMutexStep, PostSemStep, WaitSemStep, SignalCondStep, WaitCondStep
     DEF Handle, WaitFamily

LEMMA BlockStep ==
    ASSUME IInv, NEW p \in Procs, NEW c \in LockedCalls, Block(p, c), UNCHANGED syncVars
    PROVE  IInv'
  <1>1. /\ pc \in [Procs -> Phases] /\ call \in [Procs -> LockedCalls \cup {NoCall}]
        /\ pc' = [pc EXCEPT ![p] = "blocked"] /\ call' = [call EXCEPT ![p] = c]
        /\ pc[p] = "run" /\ runThread[p] # NULL
        /\ UNCHANGED <<runThread, schedLock, curThread>>
    BY DEF IInv, TypeOK, HandlerTypes, Block, Executing
  <1>2. HandlerTypes' /\ ThreadTypes'
    BY DEF IInv, TypeOK, HandlerTypes, ThreadTypes, Block, Phases
  <1>3. HandlersExclude'
    BY <1>1 DEF IInv, HandlersExclude, Inside
  <1>4. HandlersHaveThread'
    BY <1>1 DEF IInv, HandlersHaveThread
  <1> QED BY <1>2, <1>3, <1>4, SameObjects DEF IInv, TypeOK

LEMMA StepStep ==
    ASSUME IInv, NEW p \in Procs, Step(p)
    PROVE  IInv'
  <1>1. CASE Resume(p)
    BY <1>1, HandleStep DEF Resume, IInv, HandlersHaveThread
  <1> QED
    BY <1>1, ChosenStep, AttemptNextStep, AttemptedStep, WaitCondResumedStep DEF Step

LEMMA Initially ==
    ASSUME Init
    PROVE  IInv
  <1>1. HandlerTypes /\ HandlersExclude /\ HandlersHaveThread
    BY DEF Init, SchedInit, HandlerTypes, Phases, Issues, HandlersExclude,
           HandlersHaveThread, Inside
  <1>2. ThreadTypes
    <2>1. attrVal \in [AttrIds -> AttrRecord]
      <3>1. DefaultValue \in AttrRecord
        BY PrioAssumption DEF DefaultValue, AttrRecord
      <3> QED BY <3>1, AttrAssumption DEF Init, SchedInit
    <2> QED BY <2>1, ThreadsAssumption, AttrAssumption, EmptySeq DEF Init, SchedInit, ThreadTypes
  <1>3. ObjectTypes
    BY FreshTypes, BoundsAssumption DEF Init, ObjectTypes
  <1> QED BY <1>1, <1>2, <1>3 DEF IInv, TypeOK

LEMMA Inductive ==
    ASSUME IInv, [Next]_vars
    PROVE  IInv'
  <1>1. ASSUME NEW p \in Procs, Step(p) PROVE IInv'
    BY <1>1, StepStep
  <1>2. ASSUME NEW p \in Procs, NEW c \in LockedCalls, Invoke(p, c) PROVE IInv'
    BY <1>2, HandleStep DEF Invoke
  <1>3. ASSUME NEW p \in Procs, NEW c \in LockedCalls, Wait(p, c) PROVE IInv'
    BY <1>3, BlockStep DEF Wait
  <1>4. ASSUME NEW p \in Procs, NEW c \in Calls \ LockedCalls, Unlocked(p, c) PROVE IInv'
    BY <1>4, UnlockedStep
  <1>5. CASE UNCHANGED vars
    <2>1. UNCHANGED schedVars /\ ObjectTypes'
      BY <1>5, SameObjects DEF vars, IInv, TypeOK
    <2> QED BY <2>1, ObjectsStep
  <1> QED
    BY <1>1, <1>2, <1>3, <1>4, <1>5 DEF Next, Finished

THEOREM Invariance == Spec => []IInv
  BY Initially, Inductive, PTL DEF Spec

\* Every variable keeps its type: a handler never stores, queues or resumes a
\* thread that does not exist, in particular not the NULL thread of an idle
\* processor.
THEOREM TypeCorrect == Spec => []TypeOK
  BY Invariance, PTL DEF IInv

\* At most one handler is in findReadyThread, and only with schedLock held,
\* even in a program whose failed waitCond has left the lock busy for ever.
THEOREM Exclusion == Spec => []HandlersExclude
  BY Invariance, PTL DEF IInv

-----------------------------------------------------------------------------
(* Semaphores *)

\* The steps that can change a mutex, a semaphore or a condition.
LEMMA ObjectSteps ==
    ASSUME IInv, [Next]_vars
    PROVE  \/ UNCHANGED syncVars
           \/ \E p \in Procs, c \in LockedCalls : Handle(p, c)
           \/ \E p \in Procs : WaitCondResumed(p)
           \/ \E p \in Procs, c \in Calls \ LockedCalls : Unlocked(p, c)
  <1>1. ASSUME NEW p \in Procs, Step(p)
        PROVE  \/ UNCHANGED syncVars
               \/ \E c \in LockedCalls : Handle(p, c)
               \/ WaitCondResumed(p)
    <2>1. CASE Resume(p)
      BY <2>1 DEF Resume, IInv, HandlersHaveThread
    <2>2. CASE Attempted(p)
      BY <2>2 DEF Attempted, syncVars
    <2> QED BY <1>1, <2>1, <2>2 DEF Step
  <1> QED
    BY <1>1 DEF Next, Invoke, Wait, Finished, vars

\* Those that change a semaphore, and how.
LEMMA SemSteps ==
    ASSUME IInv, [Next]_vars
    PROVE  \/ UNCHANGED sem
           \/ \E s \in Sems :
                 \/ /\ sem[s].waiting # <<>>
                    /\ sem' = [sem EXCEPT ![s].waiting = Tail(@)]
                 \/ /\ sem[s].waiting = <<>>
                    /\ sem' = [sem EXCEPT ![s].value = @ + 1]
                 \/ /\ sem[s].value > 0
                    /\ sem' = [sem EXCEPT ![s].value = @ - 1]
                 \/ \E t : /\ sem[s].value = 0
                           /\ sem' = [sem EXCEPT ![s].waiting = Append(@, t)]
                 \/ \E v \in SemInit : sem' = [sem EXCEPT ![s] = FreshSem(v)]
                 \/ sem' = [sem EXCEPT ![s] = NoSem]
  <1> DEFINE Changes ==
        \E s \in Sems :
                 \/ /\ sem[s].waiting # <<>>
                    /\ sem' = [sem EXCEPT ![s].waiting = Tail(@)]
                 \/ /\ sem[s].waiting = <<>>
                    /\ sem' = [sem EXCEPT ![s].value = @ + 1]
                 \/ /\ sem[s].value > 0
                    /\ sem' = [sem EXCEPT ![s].value = @ - 1]
                 \/ \E t : /\ sem[s].value = 0
                           /\ sem' = [sem EXCEPT ![s].waiting = Append(@, t)]
                 \/ \E v \in SemInit : sem' = [sem EXCEPT ![s] = FreshSem(v)]
                 \/ sem' = [sem EXCEPT ![s] = NoSem]
  <1>1. ASSUME NEW p \in Procs, NEW c \in LockedCalls, Handle(p, c)
        PROVE  UNCHANGED sem \/ Changes
    <2>1. CASE c.f = "post" /\ PostSem(p, c.s)
      BY <2>1, CallParts DEF PostSem, Posted
    <2>2. CASE c.f = "semwait" /\ WaitSem(p, c.s)
      BY <2>2, CallParts DEF WaitSem
    <2>3. CASE UNCHANGED sem
      BY <2>3
    <2> QED
      BY <1>1, <2>1, <2>2, <2>3
         DEF Handle, syncVars, LockMutex, UnLockMutex, SignalCond, WaitCond
  <1>2. ASSUME NEW p \in Procs, NEW c \in Calls \ LockedCalls, Unlocked(p, c)
        PROVE  UNCHANGED sem \/ Changes
    <2>1. c \in ObjCalls \cup ParamCalls
      BY CallsAssumption
    <2>2. CASE c.f = "createSem" /\ CreateSem(p, c.v)
      <3>1. c.v \in SemInit
        BY <2>1, <2>2 DEF ObjCalls, ParamCalls
      <3> QED BY <2>2, <3>1 DEF CreateSem
    <2>3. CASE c.f = "destroySem" /\ DestroySem(p, c.s)
      <3>1. c.s \in Sems
        BY <2>1, <2>3 DEF ObjCalls, ParamCalls
      <3> QED BY <2>3, <3>1 DEF DestroySem
    <2>4. CASE UNCHANGED sem
      BY <2>4
    <2> QED
      BY <1>2, <2>2, <2>3, <2>4
         DEF Unlocked, syncVars, CreateMutex, CreateCond, DestroyMutex, DestroyCond
  <1>3. ASSUME NEW p \in Procs, WaitCondResumed(p) PROVE UNCHANGED sem
    BY <1>3 DEF WaitCondResumed
  <1> QED
    BY <1>1, <1>2, <1>3, ObjectSteps DEF syncVars

LEMMA NoIdleCreditStep ==
    ASSUME IInv, NoIdleCredit, [Next]_vars
    PROVE  NoIdleCredit'
  <1>1. sem \in [Sems -> SemRecord]
    BY DEF IInv, TypeOK, ObjectTypes
  <1>2. CASE UNCHANGED sem
    BY <1>2 DEF NoIdleCredit
  <1>3. ASSUME NEW s \in Sems, NEW x, x.value > 0 => x.waiting = <<>>,
               sem' = [sem EXCEPT ![s] = x]
        PROVE  NoIdleCredit'
    BY <1>1, <1>3 DEF NoIdleCredit
  <1>4. ASSUME NEW s \in Sems,
                 \/ /\ sem[s].waiting # <<>>
                    /\ sem' = [sem EXCEPT ![s].waiting = Tail(@)]
                 \/ /\ sem[s].waiting = <<>>
                    /\ sem' = [sem EXCEPT ![s].value = @ + 1]
                 \/ /\ sem[s].value > 0
                    /\ sem' = [sem EXCEPT ![s].value = @ - 1]
                 \/ \E t : /\ sem[s].value = 0
                           /\ sem' = [sem EXCEPT ![s].waiting = Append(@, t)]
        PROVE  NoIdleCredit'
    <2>1. /\ sem[s] \in SemRecord /\ sem[s].value \in Nat
          /\ sem[s].value > 0 => sem[s].waiting = <<>>
      BY <1>1 DEF NoIdleCredit, SemRecord
    <2>2. CASE sem[s].waiting # <<>> /\ sem' = [sem EXCEPT ![s].waiting = Tail(@)]
      <3>1. [sem[s] EXCEPT !.waiting = Tail(@)].value = sem[s].value /\ ~(sem[s].value > 0)
        BY <2>1, <2>2 DEF SemRecord
      <3> QED BY <1>1, <1>3, <2>2, <3>1
    <2>3. CASE sem[s].waiting = <<>> /\ sem' = [sem EXCEPT ![s].value = @ + 1]
      <3>1. [sem[s] EXCEPT !.value = @ + 1].waiting = <<>>
        BY <2>1, <2>3 DEF SemRecord
      <3> QED BY <1>1, <1>3, <2>3, <3>1
    <2>4. CASE sem[s].value > 0 /\ sem' = [sem EXCEPT ![s].value = @ - 1]
      <3>1. [sem[s] EXCEPT !.value = @ - 1].waiting = <<>>
        BY <2>1, <2>4 DEF SemRecord
      <3> QED BY <1>1, <1>3, <2>4, <3>1
    <2>5. ASSUME NEW t, sem[s].value = 0, sem' = [sem EXCEPT ![s].waiting = Append(@, t)]
          PROVE  NoIdleCredit'
      <3> DEFINE x == [sem[s] EXCEPT !.waiting = Append(@, t)]
      <3>1. ~(x.value > 0)
        BY <2>1, <2>5 DEF SemRecord
      <3>2. sem' = [sem EXCEPT ![s] = x]
        BY <1>1, <2>5
      <3> HIDE DEF x
      <3> QED BY <1>3, <3>1, <3>2
    <2> QED BY <1>4, <2>2, <2>3, <2>4, <2>5
  <1>5. ASSUME NEW s \in Sems, NEW v \in SemInit, sem' = [sem EXCEPT ![s] = FreshSem(v)]
        PROVE  NoIdleCredit'
    BY <1>3, <1>5 DEF FreshSem
  <1>6. ASSUME NEW s \in Sems, sem' = [sem EXCEPT ![s] = NoSem] PROVE NoIdleCredit'
    BY <1>3, <1>6 DEF NoSem, FreshSem
  <1> QED
    BY <1>2, <1>4, <1>5, <1>6, SemSteps

\* A semaphore never has a credit while a thread waits on it: no post is lost
\* between a waiter that has seen the value 0 and its being queued, whatever
\* the processors do meanwhile and whatever the program does with semaphores.
THEOREM CreditIsTaken == Spec => []NoIdleCredit
  <1>1. Init => NoIdleCredit
    BY DEF Init, NoIdleCredit, FreshSem, NoSem
  <1>2. IInv /\ NoIdleCredit /\ [Next]_vars => NoIdleCredit'
    BY NoIdleCreditStep
  <1> QED
    BY <1>1, <1>2, Invariance, PTL DEF Spec

-----------------------------------------------------------------------------
(* Mutexes *)

\* What the handlers do to the record x of a mutex keeps it coherent.
LEMMA CoherentLocked ==
    ASSUME NEW x \in MutexRecord, NEW t \in Threads, Coherent(x)
    PROVE  /\ x.owner = t => Coherent([x EXCEPT !.rec = @ + 1])
           /\ Coherent([x EXCEPT !.status = "LOCKED", !.owner = t])
           /\ x.status = "LOCKED" => Coherent([x EXCEPT !.waiting = Append(@, t)])
  <1>1. t # NULL
    BY NullAssumption
  <1>2. x.owner = t => Coherent([x EXCEPT !.rec = @ + 1])
    BY <1>1 DEF Coherent, MutexRecord
  <1>3. Coherent([x EXCEPT !.status = "LOCKED", !.owner = t])
    BY <1>1 DEF Coherent, MutexRecord
  <1>4. x.status = "LOCKED" => Coherent([x EXCEPT !.waiting = Append(@, t)])
    BY DEF Coherent, MutexRecord
  <1> QED BY <1>2, <1>3, <1>4

LEMMA CoherentReleased ==
    ASSUME ObjectTypes, NEW m \in Mutexes, Coherent(mutex[m]), mutex[m].owner # NULL
    PROVE  Coherent(Released(m))
  <1> DEFINE x == mutex[m]
  <1>1. x \in MutexRecord /\ x.status = "LOCKED" /\ x.rec \in Nat /\ x.waiting \in Seq(Threads)
    BY DEF Coherent, MutexRecord, ObjectTypes
  <1>2. CASE x.rec > 0
    <2>1. Released(m) = [x EXCEPT !.rec = @ - 1]
      BY <1>2 DEF Released
    <2>2. Released(m).status = "LOCKED" /\ Released(m).owner # NULL
      BY <1>1, <2>1 DEF MutexRecord
    <2> QED BY <2>2 DEF Coherent
  <1>3. CASE x.rec = 0 /\ x.waiting # <<>>
    <2>1. Released(m) = [x EXCEPT !.owner = Head(x.waiting), !.waiting = Tail(@)]
      BY <1>3 DEF Released
    <2>2. Head(x.waiting) \in Threads
      BY <1>1, <1>3, HeadTailProperties
    <2>3. Released(m).status = "LOCKED" /\ Released(m).owner # NULL
      BY <1>1, <2>1, <2>2, NullAssumption DEF MutexRecord
    <2> QED BY <2>3 DEF Coherent
  <1>4. CASE x.rec = 0 /\ x.waiting = <<>>
    <2>1. Released(m) = [x EXCEPT !.status = "FREE", !.owner = NULL, !.waiting = <<>>]
      BY <1>4 DEF Released
    <2>2. /\ Released(m).owner = NULL /\ Released(m).rec = 0
          /\ Released(m).status = "FREE" /\ Released(m).waiting = <<>>
      BY <1>1, <1>4, <2>1 DEF MutexRecord
    <2> QED BY <2>2 DEF Coherent
  <1> QED BY <1>1, <1>2, <1>3, <1>4

LEMMA CoherentCondLocked ==
    ASSUME NEW x \in MutexRecord, NEW t \in Threads, Coherent(x)
    PROVE  /\ Coherent(CondLocked(x, t))
           /\ CondLocked(x, t) \in MutexRecord
           /\ CondLocked(x, t).status = "LOCKED"
  <1>1. CASE x.owner = t
    <2>1. CondLocked(x, t) = [x EXCEPT !.rec = @ + 1]
      BY <1>1 DEF CondLocked
    <2>2. x.status = "LOCKED"
      BY <1>1, NullAssumption DEF Coherent, MutexRecord
    <2>3. CondLocked(x, t).status = "LOCKED"
      BY <2>1, <2>2 DEF MutexRecord
    <2>4. Coherent(CondLocked(x, t))
      BY <1>1, <2>1, CoherentLocked
    <2> QED BY <2>3, <2>4, CondLockedType
  <1>2. CASE x.owner # t /\ x.status = "FREE"
    <2>1. CondLocked(x, t) = [x EXCEPT !.status = "LOCKED", !.owner = t]
      BY <1>2 DEF CondLocked
    <2>2. CondLocked(x, t).status = "LOCKED"
      BY <2>1 DEF MutexRecord
    <2>3. Coherent(CondLocked(x, t))
      BY <2>1, CoherentLocked
    <2> QED BY <2>2, <2>3, CondLockedType
  <1>3. CASE x.owner # t /\ x.status = "LOCKED"
    <2>1. CondLocked(x, t) = [x EXCEPT !.waiting = Append(@, t)]
      BY <1>3 DEF CondLocked
    <2>2. CondLocked(x, t).status = "LOCKED"
      BY <1>3, <2>1 DEF MutexRecord
    <2>3. Coherent(CondLocked(x, t))
      BY <1>3, <2>1, CoherentLocked
    <2> QED BY <2>2, <2>3, CondLockedType
  <1> QED BY <1>1, <1>2, <1>3 DEF MutexRecord

\* A step that changes one mutex, to a coherent one.
ChangesMutex == \E m \in Mutexes : \E y : mutex' = [mutex EXCEPT ![m] = y] /\ Coherent(y)

LEMMA LockMutexCoherent ==
    ASSUME IInv, MutexCoherent, NEW p \in Procs, NEW m \in Mutexes, NEW nonbl \in BOOLEAN,
           LockMutex(p, m, nonbl)
    PROVE  UNCHANGED mutex \/ ChangesMutex
  <1> DEFINE t == runThread[p]
             x == mutex[m]
  <1>1. t \in Threads
    <2>1. PICK c : Start(p, c)
      BY DEF LockMutex
    <2> QED BY <2>1, Started
  <1>2. x \in MutexRecord /\ Coherent(x) /\ mutex \in [Mutexes -> MutexRecord]
    BY DEF IInv, TypeOK, ObjectTypes, MutexCoherent
  <1>3. CASE x.owner = t /\ mutex' = [mutex EXCEPT ![m].rec = @ + 1]
    <2>1. Coherent([x EXCEPT !.rec = @ + 1])
      BY <1>1, <1>2, <1>3, CoherentLocked
    <2>2. mutex' = [mutex EXCEPT ![m] = [x EXCEPT !.rec = @ + 1]]
      BY <1>2, <1>3
    <2> HIDE DEF x
    <2> QED BY <2>1, <2>2 DEF ChangesMutex
  <1>4. CASE mutex' = [mutex EXCEPT ![m].status = "LOCKED", ![m].owner = t]
    <2> DEFINE y == [x EXCEPT !.status = "LOCKED", !.owner = t]
    <2>1. Coherent(y)
      BY <1>1, <1>2, CoherentLocked
    <2>2. mutex' = [mutex EXCEPT ![m] = y]
      BY <1>2, <1>4
    <2> HIDE DEF y
    <2> QED BY <2>1, <2>2 DEF ChangesMutex
  <1>5. CASE x.status = "LOCKED" /\ mutex' = [mutex EXCEPT ![m].waiting = Append(@, t)]
    <2> DEFINE y == [x EXCEPT !.waiting = Append(@, t)]
    <2>1. Coherent(y)
      BY <1>1, <1>2, <1>5, CoherentLocked
    <2>2. mutex' = [mutex EXCEPT ![m] = y]
      BY <1>2, <1>5
    <2> HIDE DEF y
    <2> QED BY <2>1, <2>2 DEF ChangesMutex
  <1> QED
    BY <1>3, <1>4, <1>5 DEF LockMutex

LEMMA ReleasingCoherent ==
    ASSUME IInv, MutexCoherent, NEW m \in Mutexes, mutex[m].owner # NULL,
           mutex' = [mutex EXCEPT ![m] = Released(m)]
    PROVE  ChangesMutex
  BY CoherentReleased DEF IInv, TypeOK, MutexCoherent, ChangesMutex

LEMMA SignalCondCoherent ==
    ASSUME IInv, MutexCoherent, NEW p \in Procs, NEW k \in Conds, NEW broadcast \in BOOLEAN,
           SignalCond(p, k, broadcast)
    PROVE  UNCHANGED mutex \/ ChangesMutex
  <1> DEFINE m     == cond[k].mutex
             first == Head(cond[k].waiting)
             rest  == Tail(cond[k].waiting)
             taken == CondLocked(mutex[m], first)
             y     == IF broadcast THEN [taken EXCEPT !.waiting = @ \o rest] ELSE taken
  <1>1. CASE cond[k].waiting # <<>> /\ m # NULL /\ mutex' = [mutex EXCEPT ![m] = y]
    <2>1. cond[k] \in CondRecord
      BY DEF IInv, TypeOK, ObjectTypes
    <2>2. m \in Mutexes /\ cond[k].waiting \in Seq(Threads)
      BY <1>1, <2>1 DEF CondRecord
    <2>3. first \in Threads /\ mutex[m] \in MutexRecord /\ Coherent(mutex[m])
      BY <1>1, <2>2, HeadTailProperties DEF IInv, TypeOK, ObjectTypes, MutexCoherent
    <2>4. Coherent(taken) /\ taken \in MutexRecord /\ taken.status = "LOCKED"
      BY <2>3, CoherentCondLocked
    <2>5. Coherent(y)
      <3> HIDE DEF taken, rest
      <3> QED BY <2>4 DEF Coherent, MutexRecord
    <2> HIDE DEF y, m
    <2> QED BY <1>1, <2>2, <2>5 DEF ChangesMutex
  <1> QED
    BY <1>1 DEF SignalCond

LEMMA MutexCoherentStep ==
    ASSUME IInv, MutexCoherent, [Next]_vars
    PROVE  MutexCoherent'
  <1>1. ASSUME NEW p \in Procs, NEW c \in LockedCalls, Handle(p, c)
        PROVE  UNCHANGED mutex \/ ChangesMutex
    <2>1. ASSUME NEW m \in Mutexes, UnLockMutex(p, m) PROVE UNCHANGED mutex \/ ChangesMutex
      <3>1. UNCHANGED mutex \/ (/\ mutex[m].owner = runThread[p]
                                /\ mutex' = [mutex EXCEPT ![m] = Released(m)])
        BY <2>1 DEF UnLockMutex
      <3>2. PICK d : Start(p, d)
        BY <2>1 DEF UnLockMutex
      <3>3. runThread[p] # NULL
        BY <3>2, Started, NullAssumption
      <3> QED BY <3>1, <3>3, ReleasingCoherent
    <2>2. ASSUME NEW k \in Conds, NEW m \in Mutexes, NEW timed \in BOOLEAN,
                 WaitCond(p, k, m, timed)
          PROVE  UNCHANGED mutex \/ ChangesMutex
      <3>1. UNCHANGED mutex \/ (/\ mutex[m].owner = runThread[p] \/ mutex[m].owner # NULL
                                /\ mutex' = [mutex EXCEPT ![m] = Released(m)])
        BY <2>2 DEF WaitCond
      <3>2. PICK d : Start(p, d)
        BY <2>2 DEF WaitCond
      <3>3. runThread[p] # NULL
        BY <3>2, Started, NullAssumption
      <3> QED BY <3>1, <3>3, ReleasingCoherent
    <2>3. CASE UNCHANGED syncVars
      BY <2>3 DEF syncVars
    <2> QED
      BY <1>1, <2>1, <2>2, <2>3, CallParts, LockMutexCoherent, SignalCondCoherent
         DEF Handle, WaitFamily, PostSem, WaitSem
  <1>2. ASSUME NEW p \in Procs, NEW c \in Calls \ LockedCalls, Unlocked(p, c)
        PROVE  UNCHANGED mutex \/ ChangesMutex
    <2>1. c.f = "destroyMutex" => c.m \in Mutexes
      BY CallsAssumption DEF ObjCalls, ParamCalls
    <2>2. Coherent(FreshMutex) /\ Coherent(NoMutex)
      BY DEF Coherent, FreshMutex, NoMutex
    <2>3. CASE CreateMutex(p)
      BY <2>2, <2>3 DEF CreateMutex, ChangesMutex
    <2>4. CASE c.f = "destroyMutex" /\ DestroyMutex(p, c.m)
      BY <2>1, <2>2, <2>4 DEF DestroyMutex, ChangesMutex
    <2>5. CASE UNCHANGED mutex
      BY <2>5
    <2> QED
      BY <1>2, <2>3, <2>4, <2>5
         DEF Unlocked, syncVars, CreateSem, CreateCond, DestroySem, DestroyCond
  <1>3. ASSUME NEW p \in Procs, WaitCondResumed(p) PROVE UNCHANGED mutex
    BY <1>3 DEF WaitCondResumed
  <1>4. UNCHANGED mutex \/ ChangesMutex
    BY <1>1, <1>2, <1>3, ObjectSteps DEF syncVars
  <1>5. mutex \in [Mutexes -> MutexRecord]
    BY DEF IInv, TypeOK, ObjectTypes
  <1> QED
    BY <1>4, <1>5 DEF ChangesMutex, MutexCoherent

\* A mutex is free exactly when it has no owner, and then it is not held
\* recursively and nobody waits for it: no waiter is left behind when a mutex is
\* released, whatever calls the program makes and in whatever order the handlers
\* run.
THEOREM MutexesCoherent == Spec => []MutexCoherent
  <1>1. Init => MutexCoherent
    BY DEF Init, MutexCoherent, Coherent, FreshMutex, NoMutex
  <1>2. IInv /\ MutexCoherent /\ [Next]_vars => MutexCoherent'
    BY MutexCoherentStep
  <1> QED
    BY <1>1, <1>2, Invariance, PTL DEF Spec

-----------------------------------------------------------------------------
(* Condition variables *)

\* A thread that is about to be queued on a condition, and is held up in
\* attemptScheduling, will find that condition alive and with a mutex.
FallingAsleepKnowsMutex ==
    \A p \in Procs : pc[p] = "attempt" /\ call[p].f \in WaitFamily =>
        cond[call[p].c].live /\ cond[call[p].c].mutex # NULL

CondInv == CondKnowsMutex /\ FallingAsleepKnowsMutex

\* How a handler ends its first part.
LEMMA HandlePhase ==
    ASSUME IInv, NEW p \in Procs, NEW c \in LockedCalls, Handle(p, c)
    PROVE  /\ \A q \in Procs : ~Inside(q)
           /\ \/ UNCHANGED <<pc, call>>
              \/ pc' = [pc EXCEPT ![p] = "run"]
              \/ pc' = [pc EXCEPT ![p] = "choose"]
              \/ pc' = [pc EXCEPT ![p] = "attempt"] /\ call' = [call EXCEPT ![p] = c]
  <1>1. c.f = "create" => c = [f |-> "create", attr |-> c.attr]
    BY CallParts
  <1>2. PICK d : Start(p, d)
    BY DEF Handle, CreateThread, ExitThread, Join, JoinAll, LockMutex, UnLockMutex,
           PostSem, WaitSem, SignalCond, WaitCond
  <1>3. \A q \in Procs : ~Inside(q)
    BY <1>2, Started
  <1>4. /\ c.f = "unlock" => c = [f |-> "unlock", m |-> c.m]
        /\ c.f = "post" => c = [f |-> "post", s |-> c.s]
        /\ c.f = "signal" => c = [f |-> "signal", c |-> c.c]
        /\ c.f = "broadcast" => c = [f |-> "broadcast", c |-> c.c]
        /\ c.f = "wait" => c = [f |-> "wait", c |-> c.c, m |-> c.m]
        /\ c.f = "timedwait" => c = [f |-> "timedwait", c |-> c.c, m |-> c.m]
    BY DEF LockedCalls, ThreadCalls, MutexCalls, SemCalls, CondCalls
  <1> DEFINE Ends == \/ UNCHANGED <<pc, call>>
                     \/ pc' = [pc EXCEPT ![p] = "run"]
                     \/ pc' = [pc EXCEPT ![p] = "choose"]
                     \/ pc' = [pc EXCEPT ![p] = "attempt"] /\ call' = [call EXCEPT ![p] = c]
  <1>5. ASSUME NEW why, Fail(why) PROVE Ends
    BY <1>5 DEF Fail
  <1>6. ASSUME Leave(p) PROVE Ends
    BY <1>6 DEF Leave
  <1>7. ASSUME NEW e, Suspend(p, e) PROVE Ends
    BY <1>7 DEF Suspend, Hold
  <1>8. ASSUME Attempt(p, c) PROVE Ends
    BY <1>8 DEF Attempt, Hold
  <1> HIDE DEF Ends
  <1>9. ASSUME c.f \in {"create", "exit", "join", "joinAll"} PROVE Ends
    BY <1>5, <1>6, <1>7, <1>8, <1>9 DEF Handle, CreateThread, ExitThread, Join, JoinAll
  <1>10. ASSUME c.f \in {"lock", "trylock"} PROVE Ends
    BY <1>5, <1>6, <1>7, <1>8, <1>10 DEF Handle, LockMutex
  <1>11. ASSUME c.f = "unlock" PROVE Ends
    BY <1>4, <1>5, <1>6, <1>7, <1>8, <1>11 DEF Handle, UnLockMutex
  <1>12. ASSUME c.f \in {"post", "semwait"} PROVE Ends
    BY <1>4, <1>5, <1>6, <1>7, <1>8, <1>12 DEF Handle, PostSem, WaitSem
  <1>13. ASSUME c.f = "signal" \/ c.f = "broadcast" PROVE Ends
    BY <1>4, <1>5, <1>6, <1>7, <1>8, <1>13 DEF Handle, SignalCond
  <1>14. ASSUME c.f = "wait" \/ c.f = "timedwait" PROVE Ends
    <2>1. PICK timed \in BOOLEAN :
              /\ WaitCond(p, c.c, c.m, timed)
              /\ c = [f |-> IF timed THEN "timedwait" ELSE "wait", c |-> c.c, m |-> c.m]
      BY <1>4, <1>14 DEF Handle
    <2>2. pc' = [pc EXCEPT ![p] = "run"] => Ends
      BY DEF Ends
    <2> QED
      BY <1>5, <1>7, <1>8, <2>1, <2>2 DEF WaitCond, CondEnqueue
  <1> QED
    BY <1>3, <1>9, <1>10, <1>11, <1>12, <1>13, <1>14 DEF Handle, Ends

LEMMA CondHandleStep ==
    ASSUME IInv, CondInv, NEW p \in Procs, NEW c \in LockedCalls, Handle(p, c)
    PROVE  CondInv'
  <1>1. /\ cond \in [Conds -> CondRecord] /\ pc \in [Procs -> Phases]
        /\ call \in [Procs -> LockedCalls \cup {NoCall}]
    BY DEF IInv, TypeOK, ObjectTypes, HandlerTypes
  <1>2. \A q \in Procs : pc'[q] = "attempt" => q = p /\ call'[p] = c
    BY <1>1, HandlePhase DEF Inside
  <1>3. CASE UNCHANGED cond /\ c.f \notin WaitFamily
    BY <1>2, <1>3 DEF CondInv, CondKnowsMutex, FallingAsleepKnowsMutex
  <1>4. ASSUME NEW k \in Conds, NEW broadcast \in BOOLEAN, SignalCond(p, k, broadcast),
               c.f \notin WaitFamily
        PROVE  CondInv'
    <2> DEFINE rest == Tail(cond[k].waiting)
    <2>1. CASE UNCHANGED cond
      BY <2>1, <1>3, <1>4
    <2>2. CASE cond' = [cond EXCEPT ![k] = Signalled(cond[k], broadcast)]
      <3> DEFINE x == [cond[k] EXCEPT !.waiting = IF broadcast THEN <<>> ELSE rest,
                                      !.mutex   = IF broadcast \/ rest = <<>> THEN NULL ELSE @]
      <3>1. cond[k] \in CondRecord /\ cond' = [cond EXCEPT ![k] = x]
        BY <1>1, <2>2 DEF Signalled
      <3>2. CASE cond[k].waiting # <<>> /\ cond[k].mutex # NULL
        <4>1. x.waiting # <<>> => x.mutex # NULL
          <5> HIDE DEF rest
          <5> QED BY <3>1, <3>2 DEF CondRecord
        <4> HIDE DEF x
        <4>2. CondKnowsMutex'
          BY <1>1, <3>1, <4>1 DEF CondInv, CondKnowsMutex
        <4>3. FallingAsleepKnowsMutex'
          BY <1>2, <1>4 DEF FallingAsleepKnowsMutex
        <4> QED BY <4>2, <4>3 DEF CondInv
      <3> QED BY <3>2, <1>4, <2>1 DEF SignalCond
    <2> QED BY <1>4, <2>1, <2>2 DEF SignalCond
  <1>5. ASSUME NEW k \in Conds, NEW m \in Mutexes, NEW timed \in BOOLEAN,
               WaitCond(p, k, m, timed), c.c = k
        PROVE  CondInv'
    <2>1. m # NULL
      BY CondNullAssumption
    <2>2. cond[k] \in CondRecord
      BY <1>1
    <2>3. CASE UNCHANGED cond /\ pc'[p] # "attempt"
      BY <1>2, <2>3 DEF CondInv, CondKnowsMutex, FallingAsleepKnowsMutex
    <2>4. ASSUME cond[k].live, cond' = [cond EXCEPT ![k].mutex = m] PROVE CondInv'
      <3>1. /\ cond'[k].mutex = m /\ cond'[k].live
            /\ \A i \in Conds \ {k} : cond'[i] = cond[i]
        BY <1>1, <2>2, <2>4 DEF CondRecord
      <3>2. CondKnowsMutex'
        BY <2>1, <3>1 DEF CondInv, CondKnowsMutex
      <3>3. FallingAsleepKnowsMutex'
        BY <1>2, <1>5, <2>1, <3>1 DEF FallingAsleepKnowsMutex
      <3> QED BY <3>2, <3>3 DEF CondInv
    <2>5. ASSUME cond[k].live,
                 cond' = [cond EXCEPT ![k].mutex = m, ![k].waiting = Append(@, runThread[p])]
          PROVE  CondInv'
      <3>1. /\ cond'[k].mutex = m /\ cond'[k].live
            /\ \A i \in Conds \ {k} : cond'[i] = cond[i]
        BY <1>1, <2>2, <2>5 DEF CondRecord
      <3>2. CondKnowsMutex'
        BY <2>1, <3>1 DEF CondInv, CondKnowsMutex
      <3>3. FallingAsleepKnowsMutex'
        BY <1>2, <1>5, <2>1, <3>1 DEF FallingAsleepKnowsMutex
      <3> QED BY <3>2, <3>3 DEF CondInv
    <2>6. pc[p] # "attempt"
      BY HandlePhase DEF Inside
    <2>7. ASSUME NEW why, Fail(why), UNCHANGED cond PROVE CondInv'
      BY <2>3, <2>6, <2>7 DEF Fail
    <2>8. ASSUME pc' = [pc EXCEPT ![p] = "run"], UNCHANGED cond PROVE CondInv'
      BY <1>1, <2>3, <2>8
    <2> QED BY <1>5, <2>4, <2>5, <2>7, <2>8 DEF WaitCond
  <1>6. CASE c.f \in WaitFamily
    BY <1>5, <1>6, CallParts DEF Handle, WaitFamily
  <1>7. CASE c.f \in {"signal", "broadcast"}
    BY <1>4, <1>7, CallParts DEF Handle, WaitFamily
  <1>8. CASE c.f \notin WaitFamily \cup {"signal", "broadcast"}
    <2>1. UNCHANGED cond
      BY <1>8 DEF Handle, WaitFamily, syncVars, LockMutex, UnLockMutex, PostSem, WaitSem
    <2> QED BY <1>3, <1>8, <2>1
  <1> QED BY <1>6, <1>7, <1>8

LEMMA CondUnlockedStep ==
    ASSUME IInv, CondInv, NEW p \in Procs, NEW c \in Calls \ LockedCalls, Unlocked(p, c)
    PROVE  CondInv'
  <1>1. cond \in [Conds -> CondRecord]
    BY DEF IInv, TypeOK, ObjectTypes
  <1>2. c.f = "destroyCond" => c.c \in Conds
    BY CallsAssumption DEF ObjCalls, ParamCalls
  <1>3. UNCHANGED <<pc, call>>
    BY DEF Unlocked, CreateMutex, CreateSem, CreateCond, DestroyMutex, DestroySem, DestroyCond,
           SetSchedParam, SetAttr, schedVars, Fail
  <1>4. CASE UNCHANGED cond
    BY <1>3, <1>4 DEF CondInv, CondKnowsMutex, FallingAsleepKnowsMutex
  <1>5. ASSUME NEW k \in Conds, NEW x \in {FreshCond, NoCond}, cond' = [cond EXCEPT ![k] = x],
               \A q \in Procs : pc[q] = "attempt" /\ call[q].f \in WaitFamily => call[q].c # k
        PROVE  CondInv'
    <2>1. x.waiting = <<>>
      BY <1>5 DEF FreshCond, NoCond
    <2>2. CondKnowsMutex'
      BY <1>1, <1>5, <2>1 DEF CondInv, CondKnowsMutex
    <2>3. FallingAsleepKnowsMutex'
      BY <1>1, <1>3, <1>5 DEF CondInv, FallingAsleepKnowsMutex
    <2> QED BY <2>2, <2>3 DEF CondInv
  <1>6. CASE CreateCond(p)
    <2>1. PICK k \in Conds : IsNextId(k, Live(cond)) /\ cond' = [cond EXCEPT ![k] = FreshCond]
      BY <1>6 DEF CreateCond
    <2>2. ~cond[k].live
      BY <1>1, <2>1 DEF IsNextId, IsFirst, Live
    <2> QED BY <1>5, <2>1, <2>2 DEF CondInv, FallingAsleepKnowsMutex
  <1>7. CASE c.f = "destroyCond" /\ DestroyCond(p, c.c)
    <2>1. Unused("c", c.c)
      BY <1>7 DEF Unlocked, MayCall, Possible
    <2>2. \A q \in Procs : pc[q] = "attempt" /\ call[q].f \in WaitFamily => call[q].c # c.c
      <3> SUFFICES ASSUME NEW q \in Procs, pc[q] = "attempt", call[q].f \in WaitFamily
                   PROVE  call[q].c # c.c
        OBVIOUS
      <3>1. call[q] \in CondCalls
        BY DEF IInv, HandlersHaveThread
      <3>2. "c" \in DOMAIN call[q]
        BY <3>1 DEF CondCalls
      <3> QED BY <2>1, <3>2 DEF Unused
    <2>3. CASE cond' = [cond EXCEPT ![c.c] = NoCond]
      BY <1>2, <1>5, <1>7, <2>2, <2>3
    <2> QED BY <1>4, <1>7, <2>3 DEF DestroyCond
  <1> QED
    BY <1>4, <1>6, <1>7
       DEF Unlocked, syncVars, CreateMutex, CreateSem, DestroyMutex, DestroySem

LEMMA CondStep ==
    ASSUME IInv, CondInv, [Next]_vars
    PROVE  CondInv'
  <1>1. /\ cond \in [Conds -> CondRecord] /\ pc \in [Procs -> Phases]
        /\ call \in [Procs -> LockedCalls \cup {NoCall}]
    BY DEF IInv, TypeOK, ObjectTypes, HandlerTypes
  <1>2. ASSUME UNCHANGED cond,
               \A q \in Procs : pc'[q] = "attempt" => pc[q] = "attempt" /\ call'[q] = call[q]
        PROVE  CondInv'
    BY <1>2 DEF CondInv, CondKnowsMutex, FallingAsleepKnowsMutex
  <1>3. ASSUME NEW p \in Procs, Step(p) PROVE CondInv'
    <2>1. CASE Resume(p)
      BY <2>1, CondHandleStep DEF Resume, IInv, HandlersHaveThread
    <2>2. CASE Chosen(p) /\ UNCHANGED syncVars
      BY <1>1, <1>2, <2>2 DEF Chosen, Fail, Leave, syncVars
    <2>3. CASE AttemptNext(p) /\ UNCHANGED syncVars
      BY <1>2, <2>3 DEF AttemptNext, Fail, syncVars
    <2>4. CASE Attempted(p)
      BY <1>1, <1>2, <2>4 DEF Attempted, Leave, syncVars
    <2>5. CASE WaitCondResumed(p)
      <3>1. /\ pc[p] = "attempt" /\ call[p].f \in WaitFamily
            /\ cond' = [cond EXCEPT ![call[p].c].waiting = Append(@, runThread[p])]
            /\ pc' = [pc EXCEPT ![p] = "choose"]
        BY <2>5 DEF WaitCondResumed, AttemptOver, CondEnqueue, Suspend, Hold
      <3>2. call[p].c \in Conds /\ cond[call[p].c].mutex # NULL
        BY <1>1, <3>1, CallParts DEF CondInv, FallingAsleepKnowsMutex, IInv,
                                    HandlersHaveThread, LockedCalls
      <3>3. /\ cond'[call[p].c].mutex # NULL
            /\ \A i \in Conds \ {call[p].c} : cond'[i] = cond[i]
        BY <1>1, <3>1, <3>2 DEF CondRecord
      <3>4. CondKnowsMutex'
        BY <3>3 DEF CondInv, CondKnowsMutex
      <3>5. \A q \in Procs : pc'[q] # "attempt"
        BY <1>1, <3>1, OnlyInside DEF Inside
      <3>6. FallingAsleepKnowsMutex'
        BY <3>5 DEF FallingAsleepKnowsMutex
      <3> QED BY <3>4, <3>6 DEF CondInv
    <2> QED BY <1>3, <2>1, <2>2, <2>3, <2>4, <2>5 DEF Step
  <1>4. ASSUME NEW p \in Procs, NEW c \in LockedCalls, Invoke(p, c) PROVE CondInv'
    BY <1>4, CondHandleStep DEF Invoke
  <1>5. ASSUME NEW p \in Procs, NEW c \in LockedCalls, Wait(p, c) PROVE CondInv'
    BY <1>1, <1>2, <1>5 DEF Wait, Block, syncVars
  <1>6. ASSUME NEW p \in Procs, NEW c \in Calls \ LockedCalls, Unlocked(p, c) PROVE CondInv'
    BY <1>6, CondUnlockedStep
  <1>7. CASE UNCHANGED vars
    BY <1>2, <1>7 DEF vars, schedVars, syncVars
  <1> QED
    BY <1>3, <1>4, <1>5, <1>6, <1>7 DEF Next, Finished

\* A condition variable with waiters knows the mutex they gave up: the exception
\* of signalCond is never thrown, although waitCond names the mutex before it
\* queues the waiter and gives schedLock up in between.
THEOREM ConditionsKnowMutex == Spec => []CondKnowsMutex
  <1>1. Init => CondInv
    BY DEF Init, SchedInit, CondInv, CondKnowsMutex, FallingAsleepKnowsMutex, FreshCond, NoCond
  <1>2. IInv /\ CondInv /\ [Next]_vars => CondInv'
    BY CondStep
  <1>3. CondInv => CondKnowsMutex
    BY DEF CondInv
  <1> QED
    BY <1>1, <1>2, <1>3, Invariance, PTL DEF Spec

-----------------------------------------------------------------------------
(* Programs that respect POSIX give schedLock up *)

\* Condition and mutex of the wait c are those of all waits under way on it.
Agrees(c) ==
    /\ cond[c.c].mutex \in {NULL, c.m}
    /\ \A q \in Procs : call[q].f \in WaitFamily /\ call[q].c = c.c => call[q].m = c.m

WaitsAgree == \A p \in Procs : call[p].f \in WaitFamily => Agrees(call[p])

LockGivenUp == schedLock => \E p \in Procs : Inside(p)

\* What a step may do to the calls of the handlers and the mutexes of the conditions.
LEMMA AgreeFrame ==
    ASSUME IInv, WaitsAgree, NEW p \in Procs, NEW c \in LockedCalls \cup {NoCall},
           c.f \in WaitFamily => Agrees(c),
           call' \in {call, [call EXCEPT ![p] = c], [call EXCEPT ![p] = NoCall]},
           \A k \in Conds : \/ cond'[k].mutex \in {NULL, cond[k].mutex}
                            \/ c.f \in WaitFamily /\ k = c.c /\ cond'[k].mutex = c.m
    PROVE  WaitsAgree'
  <1>1. call \in [Procs -> LockedCalls \cup {NoCall}]
    BY DEF IInv, TypeOK, HandlerTypes
  <1>2. NoCall.f \notin WaitFamily
    BY DEF NoCall, WaitFamily
  <1> SUFFICES ASSUME NEW q \in Procs, call'[q].f \in WaitFamily
               PROVE  /\ cond'[call'[q].c].mutex \in {NULL, call'[q].m}
                      /\ \A r \in Procs : call'[r].f \in WaitFamily /\ call'[r].c = call'[q].c
                                         => call'[r].m = call'[q].m
    BY DEF WaitsAgree, Agrees
  <1>3. ASSUME NEW r \in Procs, call'[r].f \in WaitFamily
        PROVE  /\ call'[r] = c \/ call'[r] = call[r]
               /\ call'[r].c \in Conds
    <2>1. call'[r] = c \/ call'[r] = call[r]
      BY <1>1, <1>2, <1>3
    <2> QED BY <1>1, <1>2, <1>3, <2>1, CallParts
  <1>4. ASSUME NEW r \in Procs, call'[r].f \in WaitFamily, call'[r].c = call'[q].c
        PROVE  call'[r].m = call'[q].m
    BY <1>3, <1>4 DEF WaitsAgree, Agrees
  <1>5. cond[call'[q].c].mutex \in {NULL, call'[q].m}
    BY <1>3 DEF WaitsAgree, Agrees
  <1>6. c.f \in WaitFamily /\ call'[q].c = c.c => call'[q].m = c.m
    BY <1>3 DEF WaitsAgree, Agrees
  <1>7. cond'[call'[q].c].mutex \in {NULL, call'[q].m}
    BY <1>3, <1>5, <1>6
  <1> QED BY <1>4, <1>7

\* How the first part of a handler leaves schedLock and the calls, if its wait is on
\* the mutex of the condition.
LEMMA HandleGivesUp ==
    ASSUME IInv, NEW p \in Procs, NEW c \in LockedCalls, Handle(p, c),
           c.f \in WaitFamily => Agrees(c)
    PROVE  /\ LockGivenUp'
           /\ call' \in {call, [call EXCEPT ![p] = c], [call EXCEPT ![p] = NoCall]}
  <1>1. pc \in [Procs -> Phases] /\ call \in [Procs -> LockedCalls \cup {NoCall}]
    BY DEF IInv, TypeOK, HandlerTypes
  <1>2. c.f = "create" => c = [f |-> "create", attr |-> c.attr]
    BY CallParts
  <1>3. ~schedLock
    BY DEF Handle, CreateThread, ExitThread, Join, JoinAll, LockMutex, UnLockMutex,
           PostSem, WaitSem, SignalCond, WaitCond, Start
  <1>4. /\ c.f = "exit" => c = [f |-> "exit"]
        /\ c.f = "join" => c = [f |-> "join", th |-> c.th]
        /\ c.f = "joinAll" => c = [f |-> "joinAll"]
        /\ c.f = "lock" => c = [f |-> "lock", m |-> c.m]
        /\ c.f = "trylock" => c = [f |-> "trylock", m |-> c.m]
        /\ c.f = "unlock" => c = [f |-> "unlock", m |-> c.m]
        /\ c.f = "post" => c = [f |-> "post", s |-> c.s]
        /\ c.f = "semwait" => c = [f |-> "semwait", s |-> c.s]
        /\ c.f = "signal" => c = [f |-> "signal", c |-> c.c]
        /\ c.f = "broadcast" => c = [f |-> "broadcast", c |-> c.c]
        /\ c.f = "wait" => c = [f |-> "wait", c |-> c.c, m |-> c.m]
        /\ c.f = "timedwait" => c = [f |-> "timedwait", c |-> c.c, m |-> c.m]
    BY DEF LockedCalls, ThreadCalls, MutexCalls, SemCalls, CondCalls
  <1> DEFINE Ends == /\ LockGivenUp'
                     /\ call' \in {call, [call EXCEPT ![p] = c], [call EXCEPT ![p] = NoCall]}
  <1>5. ASSUME NEW why, Fail(why) PROVE Ends
    BY <1>3, <1>5 DEF Fail, LockGivenUp
  <1>6. ASSUME Leave(p) PROVE Ends
    BY <1>6 DEF Leave, LockGivenUp
  <1>7. ASSUME Suspend(p, c) PROVE Ends
    BY <1>1, <1>7 DEF Suspend, Hold, LockGivenUp, Inside
  <1>8. ASSUME Attempt(p, c) PROVE Ends
    BY <1>1, <1>8 DEF Attempt, Hold, LockGivenUp, Inside
  <1> HIDE DEF Ends
  <1>9. ASSUME c.f \in {"create", "exit", "join", "joinAll"} PROVE Ends
    BY <1>4, <1>5, <1>6, <1>7, <1>8, <1>9 DEF Handle, CreateThread, ExitThread, Join, JoinAll
  <1>10. ASSUME c.f = "lock" \/ c.f = "trylock" PROVE Ends
    BY <1>4, <1>5, <1>6, <1>7, <1>10 DEF Handle, LockMutex
  <1>11. ASSUME c.f = "unlock" PROVE Ends
    BY <1>4, <1>5, <1>6, <1>8, <1>11 DEF Handle, UnLockMutex
  <1>12. ASSUME c.f \in {"post", "semwait"} PROVE Ends
    BY <1>4, <1>5, <1>6, <1>7, <1>8, <1>12 DEF Handle, PostSem, WaitSem
  <1>13. ASSUME c.f = "signal" \/ c.f = "broadcast" PROVE Ends
    BY <1>4, <1>5, <1>8, <1>13 DEF Handle, SignalCond
  <1>14. ASSUME c.f = "wait" \/ c.f = "timedwait" PROVE Ends
    <2>1. PICK timed \in BOOLEAN :
              /\ WaitCond(p, c.c, c.m, timed)
              /\ c = [f |-> IF timed THEN "timedwait" ELSE "wait", c |-> c.c, m |-> c.m]
      BY <1>4, <1>14 DEF Handle
    <2>2. cond[c.c].mutex \in {NULL, c.m}
      BY <1>14 DEF Agrees, WaitFamily
    <2> QED
      BY <1>5, <1>7, <1>8, <2>1, <2>2 DEF WaitCond, CondEnqueue
  <1> QED
    BY <1>9, <1>10, <1>11, <1>12, <1>13, <1>14 DEF Handle, Ends

\* A condition forgets its mutex, keeps it, or gets that of the wait.
LEMMA HandleConds ==
    ASSUME IInv, NEW p \in Procs, NEW c \in LockedCalls, Handle(p, c), NEW k \in Conds
    PROVE  \/ cond'[k].mutex \in {NULL, cond[k].mutex}
           \/ c.f \in WaitFamily /\ k = c.c /\ cond'[k].mutex = c.m
  <1>1. cond \in [Conds -> CondRecord]
    BY DEF IInv, TypeOK, ObjectTypes
  <1>2. ASSUME UNCHANGED cond PROVE cond'[k].mutex = cond[k].mutex
    BY <1>2
  <1>3. ASSUME NEW broadcast \in BOOLEAN, SignalCond(p, c.c, broadcast)
        PROVE  cond'[k].mutex \in {NULL, cond[k].mutex}
    <2>1. ASSUME cond' = [cond EXCEPT ![c.c] = Signalled(cond[c.c], broadcast)]
          PROVE  cond'[k].mutex \in {NULL, cond[k].mutex}
      <3>1. cond'[k] = IF k = c.c THEN Signalled(cond[k], broadcast) ELSE cond[k]
        BY <1>1, <2>1
      <3>2. cond[k] \in CondRecord
        BY <1>1
      <3>3. Signalled(cond[k], broadcast).mutex \in {NULL, cond[k].mutex}
        BY <3>2 DEF Signalled, CondRecord
      <3> QED BY <3>1, <3>3
    <2> QED BY <1>2, <1>3, <2>1 DEF SignalCond
  <1>4. ASSUME NEW timed \in BOOLEAN, WaitCond(p, c.c, c.m, timed)
        PROVE  cond'[k].mutex = cond[k].mutex \/ (k = c.c /\ cond'[k].mutex = c.m)
    <2>1. cond[k] \in CondRecord
      BY <1>1
    <2>2. ASSUME cond' = [cond EXCEPT ![c.c].mutex = c.m, ![c.c].waiting = Append(@, runThread[p])]
          PROVE  cond'[k].mutex = cond[k].mutex \/ (k = c.c /\ cond'[k].mutex = c.m)
      BY <1>1, <2>1, <2>2 DEF CondRecord
    <2>3. ASSUME cond' = [cond EXCEPT ![c.c].mutex = c.m]
          PROVE  cond'[k].mutex = cond[k].mutex \/ (k = c.c /\ cond'[k].mutex = c.m)
      BY <1>1, <2>1, <2>3 DEF CondRecord
    <2> QED BY <1>2, <1>4, <2>2, <2>3 DEF WaitCond
  <1>5. CASE c.f \in WaitFamily
    BY <1>4, <1>5 DEF Handle, WaitFamily
  <1>6. CASE c.f \in {"signal", "broadcast"}
    BY <1>3, <1>6 DEF Handle
  <1>7. CASE c.f \notin WaitFamily \cup {"signal", "broadcast"}
    <2>1. UNCHANGED cond
      BY <1>7 DEF Handle, WaitFamily, syncVars, LockMutex, UnLockMutex, PostSem, WaitSem
    <2> QED BY <2>1
  <1> QED BY <1>5, <1>6, <1>7

LEMMA DisciplineHandle ==
    ASSUME IInv, WaitsAgree, NEW p \in Procs, NEW c \in LockedCalls, Handle(p, c),
           c.f \in WaitFamily => Agrees(c)
    PROVE  WaitsAgree' /\ LockGivenUp'
  BY HandleGivesUp, HandleConds, AgreeFrame

LEMMA DisciplineStep ==
    ASSUME Disciplined, IInv, WaitsAgree, LockGivenUp, [Next]_vars
    PROVE  WaitsAgree' /\ LockGivenUp'
  <1>1. /\ cond \in [Conds -> CondRecord] /\ pc \in [Procs -> Phases]
        /\ call \in [Procs -> LockedCalls \cup {NoCall}]
    BY DEF IInv, TypeOK, ObjectTypes, HandlerTypes
  <1>2. ASSUME NEW p \in Procs, NEW c \in LockedCalls, MayCall(p, c), c.f \in WaitFamily
        PROVE  Agrees(c)
    BY <1>2 DEF MayCall, Permitted, Agrees, WaitFamily
  <1>3. ASSUME NEW p \in Procs, call' \in {call, [call EXCEPT ![p] = NoCall]},
               \A k \in Conds : cond'[k].mutex \in {NULL, cond[k].mutex}
        PROVE  WaitsAgree'
    BY <1>3, AgreeFrame DEF NoCall, WaitFamily
  <1>4. ASSUME NEW p \in Procs, Leave(p), UNCHANGED cond PROVE WaitsAgree' /\ LockGivenUp'
    BY <1>3, <1>4 DEF Leave, LockGivenUp
  <1>5. ASSUME UNCHANGED <<schedLock, pc, call, cond>> PROVE WaitsAgree' /\ LockGivenUp'
    BY <1>5 DEF WaitsAgree, Agrees, LockGivenUp, Inside
  <1>6. ASSUME NEW p \in Procs, Step(p) PROVE WaitsAgree' /\ LockGivenUp'
    <2>1. CASE Resume(p)
      <3>1. call[p] \in LockedCalls
        BY <2>1 DEF Resume, IInv, HandlersHaveThread
      <3> QED BY <2>1, <3>1, DisciplineHandle DEF Resume, WaitsAgree
    <2>2. CASE Chosen(p) /\ UNCHANGED syncVars
      BY <1>4, <1>5, <2>2 DEF Chosen, Fail, syncVars
    <2>3. CASE AttemptNext(p) /\ UNCHANGED syncVars
      BY <1>5, <2>3 DEF AttemptNext, Fail, syncVars
    <2>4. CASE Attempted(p)
      BY <1>4, <2>4 DEF Attempted, syncVars
    <2>5. CASE WaitCondResumed(p)
      <3>1. /\ cond' = [cond EXCEPT ![call[p].c].waiting = Append(@, runThread[p])]
            /\ pc' = [pc EXCEPT ![p] = "choose"] /\ call' = [call EXCEPT ![p] = call[p]]
        BY <2>5 DEF WaitCondResumed, CondEnqueue, Suspend, Hold
      <3>2. \A k \in Conds : cond'[k].mutex = cond[k].mutex
        BY <1>1, <3>1 DEF CondRecord
      <3>3. WaitsAgree'
        BY <1>1, <1>3, <3>1, <3>2
      <3>4. Inside(p)'
        BY <1>1, <3>1 DEF Inside
      <3> QED BY <3>3, <3>4 DEF LockGivenUp
    <2> QED BY <1>6, <2>1, <2>2, <2>3, <2>4, <2>5 DEF Step
  <1>7. ASSUME NEW p \in Procs, NEW c \in LockedCalls, Invoke(p, c)
        PROVE  WaitsAgree' /\ LockGivenUp'
    BY <1>2, <1>7, DisciplineHandle DEF Invoke
  <1>8. ASSUME NEW p \in Procs, NEW c \in LockedCalls, Wait(p, c)
        PROVE  WaitsAgree' /\ LockGivenUp'
    <2>1. /\ pc[p] = "run" /\ pc' = [pc EXCEPT ![p] = "blocked"]
          /\ call' = [call EXCEPT ![p] = c] /\ UNCHANGED <<schedLock, cond>> /\ MayCall(p, c)
      BY <1>8 DEF Wait, Block, Executing, syncVars
    <2>2. WaitsAgree'
      BY <1>2, <2>1, AgreeFrame
    <2>3. \A q \in Procs : Inside(q) => Inside(q)'
      BY <1>1, <2>1 DEF Inside
    <2> QED BY <2>1, <2>2, <2>3 DEF LockGivenUp
  <1>9. ASSUME NEW p \in Procs, NEW c \in Calls \ LockedCalls, Unlocked(p, c)
        PROVE  WaitsAgree' /\ LockGivenUp'
    <2>1. UNCHANGED <<schedLock, pc, call>>
      BY <1>9 DEF Unlocked, CreateMutex, CreateSem, CreateCond, DestroyMutex, DestroySem, DestroyCond,
             SetSchedParam, SetAttr, schedVars, Fail
    <2>2. \A k \in Conds : cond'[k].mutex \in {NULL, cond[k].mutex}
      <3>1. ASSUME NEW i, NEW x \in {FreshCond, NoCond}, cond' = [cond EXCEPT ![i] = x]
            PROVE  \A k \in Conds : cond'[k].mutex \in {NULL, cond[k].mutex}
        BY <1>1, <3>1 DEF FreshCond, NoCond
      <3>2. ASSUME UNCHANGED cond
            PROVE  \A k \in Conds : cond'[k].mutex \in {NULL, cond[k].mutex}
        BY <3>2
      <3> QED
        BY <1>9, <3>1, <3>2 DEF Unlocked, syncVars, CreateMutex, CreateSem, CreateCond,
               DestroyMutex, DestroySem, DestroyCond
    <2> QED BY <1>3, <1>9, <2>1, <2>2 DEF LockGivenUp, Inside
  <1>10. CASE UNCHANGED vars
    BY <1>5, <1>10 DEF vars, schedVars, syncVars
  <1> QED
    BY <1>6, <1>7, <1>8, <1>9, <1>10 DEF Next, Finished

\* No handler of a program that respects POSIX leaves schedLock busy behind: the return
\* of waitCond that does so needs waits on one condition with two mutexes, and these
\* cannot come together while one of them is held up at schedLock.
THEOREM LockAlwaysGivenUp ==
    ASSUME Disciplined
    PROVE  Spec => []SchedLockDiscipline
  <1>1. Init => WaitsAgree /\ LockGivenUp
    BY DEF Init, SchedInit, WaitsAgree, LockGivenUp, NoCall, WaitFamily
  <1>2. IInv /\ WaitsAgree /\ LockGivenUp /\ [Next]_vars => WaitsAgree' /\ LockGivenUp'
    BY DisciplineStep
  <1>3. IInv /\ LockGivenUp => SchedLockDiscipline
    BY DEF IInv, LockGivenUp, SchedLockDiscipline
  <1> QED
    BY <1>1, <1>2, <1>3, Invariance, PTL DEF Spec

-----------------------------------------------------------------------------
(* Mutexes are taken from running owners only *)

\* A mutex that does not exist belongs to nobody.
DeadUnowned == \A m \in Mutexes : ~mutex[m].live => mutex[m].owner = NULL

\* What a step may do to the mutex x: it exists or is free afterwards, and its
\* owner keeps it unless it runs.
FairChange(x, y) ==
    /\ y.live \/ y.owner = NULL
    /\ \/ x.owner \in {NULL, y.owner}
       \/ \E p \in Procs : runThread[p] = x.owner

FairStep ==
    \/ UNCHANGED mutex
    \/ \E m \in Mutexes : \E y : mutex' = [mutex EXCEPT ![m] = y] /\ FairChange(mutex[m], y)

LEMMA FairLocked ==
    ASSUME NEW x \in MutexRecord, NEW t \in Threads, Coherent(x), x.live
    PROVE  /\ x.owner = t => FairChange(x, [x EXCEPT !.rec = @ + 1])
           /\ x.status = "FREE" => FairChange(x, [x EXCEPT !.status = "LOCKED", !.owner = t])
           /\ FairChange(x, [x EXCEPT !.waiting = Append(@, t)])
           /\ FairChange(x, CondLocked(x, t))
           /\ CondLocked(x, t) \in MutexRecord
  <1>1. x.owner = t => FairChange(x, [x EXCEPT !.rec = @ + 1])
    BY DEF FairChange, MutexRecord
  <1>2. x.status = "FREE" => FairChange(x, [x EXCEPT !.status = "LOCKED", !.owner = t])
    BY DEF FairChange, MutexRecord, Coherent
  <1>3. FairChange(x, [x EXCEPT !.waiting = Append(@, t)])
    BY DEF FairChange, MutexRecord
  <1> QED
    BY <1>1, <1>2, <1>3, CondLockedType DEF CondLocked

LEMMA FairReleased ==
    ASSUME IInv, NEW p \in Procs, NEW m \in Mutexes, mutex[m].live,
           mutex[m].owner = runThread[p], mutex' = [mutex EXCEPT ![m] = Released(m)]
    PROVE  FairStep
  <1>1. mutex[m] \in MutexRecord
    BY DEF IInv, TypeOK, ObjectTypes
  <1>2. Released(m).live
    BY <1>1 DEF Released, MutexRecord
  <1> QED
    BY <1>2 DEF FairStep, FairChange

LEMMA LockMutexFair ==
    ASSUME IInv, MutexCoherent, NEW p \in Procs, NEW m \in Mutexes, NEW nonbl \in BOOLEAN,
           LockMutex(p, m, nonbl)
    PROVE  FairStep
  <1> DEFINE t == runThread[p]
             x == mutex[m]
  <1>1. t \in Threads
    <2>1. PICK c : Start(p, c)
      BY DEF LockMutex
    <2> QED BY <2>1, Started
  <1>2. x \in MutexRecord /\ Coherent(x) /\ mutex \in [Mutexes -> MutexRecord]
    BY DEF IInv, TypeOK, ObjectTypes, MutexCoherent
  <1>3. ASSUME NEW y, FairChange(x, y), mutex' = [mutex EXCEPT ![m] = y] PROVE FairStep
    BY <1>3 DEF FairStep
  <1>4. CASE x.live /\ x.owner = t /\ mutex' = [mutex EXCEPT ![m].rec = @ + 1]
    <2>1. mutex' = [mutex EXCEPT ![m] = [x EXCEPT !.rec = @ + 1]]
      BY <1>2, <1>4
    <2> HIDE DEF x, t
    <2> QED BY <1>1, <1>2, <1>3, <1>4, <2>1, FairLocked
  <1>5. CASE /\ x.live /\ x.status = "FREE"
             /\ mutex' = [mutex EXCEPT ![m].status = "LOCKED", ![m].owner = t]
    <2>1. mutex' = [mutex EXCEPT ![m] = [x EXCEPT !.status = "LOCKED", !.owner = t]]
      BY <1>2, <1>5
    <2> HIDE DEF x, t
    <2> QED BY <1>1, <1>2, <1>3, <1>5, <2>1, FairLocked
  <1>6. CASE x.live /\ mutex' = [mutex EXCEPT ![m].waiting = Append(@, t)]
    <2>1. mutex' = [mutex EXCEPT ![m] = [x EXCEPT !.waiting = Append(@, t)]]
      BY <1>2, <1>6
    <2> HIDE DEF x, t
    <2> QED BY <1>1, <1>2, <1>3, <1>6, <2>1, FairLocked
  <1> QED
    BY <1>4, <1>5, <1>6 DEF LockMutex, FairStep

LEMMA SignalCondFair ==
    ASSUME IInv, MutexCoherent, NEW p \in Procs, NEW k \in Conds, NEW broadcast \in BOOLEAN,
           SignalCond(p, k, broadcast)
    PROVE  FairStep
  <1> DEFINE m     == cond[k].mutex
             first == Head(cond[k].waiting)
             rest  == Tail(cond[k].waiting)
             taken == CondLocked(mutex[m], first)
             y     == IF broadcast THEN [taken EXCEPT !.waiting = @ \o rest] ELSE taken
  <1>1. CASE /\ cond[k].waiting # <<>> /\ m # NULL /\ mutex[m].live
             /\ mutex' = [mutex EXCEPT ![m] = y]
    <2>1. cond[k] \in CondRecord
      BY DEF IInv, TypeOK, ObjectTypes
    <2>2. m \in Mutexes /\ cond[k].waiting \in Seq(Threads)
      BY <1>1, <2>1 DEF CondRecord
    <2>3. first \in Threads /\ mutex[m] \in MutexRecord /\ Coherent(mutex[m])
      BY <1>1, <2>2, HeadTailProperties DEF IInv, TypeOK, ObjectTypes, MutexCoherent
    <2>4. FairChange(mutex[m], taken) /\ taken \in MutexRecord
      BY <1>1, <2>3, FairLocked
    <2>5. FairChange(mutex[m], y)
      <3> HIDE DEF taken, rest, m
      <3> QED BY <2>4 DEF FairChange, MutexRecord
    <2> HIDE DEF y, m
    <2> QED BY <1>1, <2>2, <2>5 DEF FairStep
  <1> QED
    BY <1>1 DEF SignalCond, FairStep

LEMMA HandleFair ==
    ASSUME IInv, MutexCoherent, NEW p \in Procs, NEW c \in LockedCalls, Handle(p, c)
    PROVE  FairStep
  <1>1. ASSUME NEW m \in Mutexes, UnLockMutex(p, m) PROVE FairStep
    <2>1. UNCHANGED mutex \/ (/\ mutex[m].live /\ mutex[m].owner = runThread[p]
                              /\ mutex' = [mutex EXCEPT ![m] = Released(m)])
      BY <1>1 DEF UnLockMutex
    <2> QED BY <2>1, FairReleased DEF FairStep
  <1>2. ASSUME NEW k \in Conds, NEW m \in Mutexes, NEW timed \in BOOLEAN, WaitCond(p, k, m, timed)
        PROVE  FairStep
    <2>1. UNCHANGED mutex \/ (/\ mutex[m].live /\ mutex[m].owner = runThread[p]
                              /\ mutex' = [mutex EXCEPT ![m] = Released(m)])
      BY <1>2 DEF WaitCond
    <2> QED BY <2>1, FairReleased DEF FairStep
  <1>3. CASE UNCHANGED mutex
    BY <1>3 DEF FairStep
  <1> QED
    BY <1>1, <1>2, <1>3, CallParts, LockMutexFair, SignalCondFair
       DEF Handle, WaitFamily, PostSem, WaitSem, syncVars

\* The calls that take no lock create a mutex where there is none, and destroy one
\* that nobody owns.
LEMMA UnlockedFair ==
    ASSUME Disciplined, IInv, DeadUnowned,
           NEW p \in Procs, NEW c \in Calls \ LockedCalls, Unlocked(p, c)
    PROVE  FairStep
  <1>1. mutex \in [Mutexes -> MutexRecord]
    BY DEF IInv, TypeOK, ObjectTypes
  <1>2. c.f = "destroyMutex" => c.m \in Mutexes
    BY CallsAssumption DEF ObjCalls, ParamCalls
  <1>3. CASE CreateMutex(p)
    <2>1. PICK m \in Mutexes :
              IsNextId(m, Live(mutex)) /\ mutex' = [mutex EXCEPT ![m] = FreshMutex]
      BY <1>3 DEF CreateMutex
    <2>2. m \notin Live(mutex)
      BY <2>1 DEF IsNextId, IsFirst
    <2>3. mutex[m].owner = NULL
      BY <1>1, <2>2 DEF Live, DeadUnowned
    <2>4. FairChange(mutex[m], FreshMutex)
      BY <2>3 DEF FairChange, FreshMutex
    <2> QED BY <2>1, <2>4 DEF FairStep
  <1>4. CASE c.f = "destroyMutex" /\ DestroyMutex(p, c.m)
    <2>1. mutex[c.m].owner = NULL
      BY <1>4 DEF Unlocked, MayCall, Permitted, WaitFamily
    <2>2. FairChange(mutex[c.m], NoMutex)
      BY <2>1 DEF FairChange, NoMutex, FreshMutex
    <2> QED BY <1>2, <1>4, <2>2 DEF DestroyMutex, FairStep
  <1>5. CASE UNCHANGED mutex
    BY <1>5 DEF FairStep
  <1> QED
    BY <1>3, <1>4, <1>5
       DEF Unlocked, syncVars, CreateSem, CreateCond, DestroySem, DestroyCond

LEMMA OwnersStep ==
    ASSUME Disciplined, IInv, MutexCoherent, DeadUnowned, [Next]_vars
    PROVE  /\ DeadUnowned'
           /\ \A m \in Mutexes :
                 mutex[m].owner \notin {NULL, mutex'[m].owner} =>
                     \E p \in Procs : runThread[p] = mutex[m].owner
  <1>1. mutex \in [Mutexes -> MutexRecord]
    BY DEF IInv, TypeOK, ObjectTypes
  <1>2. ASSUME NEW p \in Procs, WaitCondResumed(p) PROVE UNCHANGED mutex
    BY <1>2 DEF WaitCondResumed
  <1>3. FairStep
    BY <1>2, HandleFair, UnlockedFair, ObjectSteps DEF FairStep, syncVars
  <1>4. CASE UNCHANGED mutex
    BY <1>4 DEF DeadUnowned
  <1>5. ASSUME NEW m \in Mutexes, NEW y, mutex' = [mutex EXCEPT ![m] = y],
               FairChange(mutex[m], y)
        PROVE  /\ DeadUnowned'
               /\ \A n \in Mutexes :
                     mutex[n].owner \notin {NULL, mutex'[n].owner} =>
                         \E p \in Procs : runThread[p] = mutex[n].owner
    <2>1. mutex'[m] = y /\ \A n \in Mutexes \ {m} : mutex'[n] = mutex[n]
      BY <1>1, <1>5
    <2> QED BY <1>5, <2>1 DEF FairChange, DeadUnowned
  <1> QED
    BY <1>3, <1>4, <1>5 DEF FairStep

\* Nobody loses a mutex while not running: not by an unlock of another thread, nor by a
\* signal that takes it for the thread it wakes, nor because its identifier is handed
\* out again, in any program that respects POSIX.
THEOREM OnlyOwnersRelease ==
    ASSUME Disciplined
    PROVE  Spec => OnlyOwnerReleases
  <1> DEFINE A == \A m \in Mutexes :
                     mutex[m].owner \notin {NULL, mutex'[m].owner} =>
                         \E p \in Procs : runThread[p] = mutex[m].owner
  <1>1. Init => DeadUnowned
    BY DEF Init, DeadUnowned, FreshMutex, NoMutex
  <1>2. IInv /\ MutexCoherent /\ DeadUnowned /\ [Next]_vars => DeadUnowned' /\ [A]_vars
    BY OwnersStep
  <1> QED
    BY <1>1, <1>2, Invariance, MutexesCoherent, PTL DEF Spec, OnlyOwnerReleases

\* The objects that the handlers share keep what is asserted of them, whatever calls
\* the program makes: CreditIsTaken and MutexesCoherent together.
THEOREM ObjectsStayCoherent == Spec => []ObjectsCoherent
  <1>1. MutexCoherent /\ NoIdleCredit => ObjectsCoherent
    BY DEF ObjectsCoherent
  <1> QED
    BY <1>1, MutexesCoherent, CreditIsTaken, PTL

-----------------------------------------------------------------------------
(* Places of threads *)

\* The queues Q hold the threads T, each of them once in one queue.
Holds(Q, T) ==
    /\ \A x \in DOMAIN Q : Q[x] \in Seq(Threads) /\ IsInjective(Q[x])
    /\ \A x, y \in DOMAIN Q : x # y => ToSet(Q[x]) \cap ToSet(Q[y]) = {}
    /\ T = UNION { ToSet(Q[x]) : x \in DOMAIN Q }

-----------------------------------------------------------------------------
(* Queues and their members *)

LEMMA EmptyQueue ==
    /\ <<>> \in Seq(Threads) /\ IsInjective(<<>>) /\ ToSet(<<>>) = {}
    /\ \A q \in Seq(Threads) : ToSet(q) = {} => q = <<>>
  <1>1. <<>> \in Seq(Threads) /\ DOMAIN <<>> = {}
    BY EmptySeq
  <1>2. IsInjective(<<>>) /\ ToSet(<<>>) = {}
    BY <1>1 DEF IsInjective, ToSet
  <1>3. ASSUME NEW q \in Seq(Threads), ToSet(q) = {} PROVE q = <<>>
    <2>1. DOMAIN q = {}
      BY <1>3 DEF ToSet
    <2>2. Len(q) \in Nat /\ DOMAIN q = 1 .. Len(q)
      BY LenProperties
    <2>3. Len(q) = 0
      BY <2>1, <2>2
    <2> QED BY <2>3, EmptySeq
  <1> QED BY <1>1, <1>2, <1>3

LEMMA QueueBasics ==
    ASSUME NEW q \in Seq(Threads)
    PROVE  /\ Len(q) \in Nat /\ DOMAIN q = 1 .. Len(q) /\ q \in [1 .. Len(q) -> Threads]
           /\ ToSet(q) \subseteq Threads
           /\ \A t : t \in ToSet(q) <=> \E i \in 1 .. Len(q) : q[i] = t
  <1>1. Len(q) \in Nat /\ DOMAIN q = 1 .. Len(q) /\ q \in [1 .. Len(q) -> Threads]
    BY LenProperties
  <1> QED BY <1>1 DEF ToSet

LEMMA AppendQueue ==
    ASSUME NEW q \in Seq(Threads), IsInjective(q), NEW t \in Threads, t \notin ToSet(q)
    PROVE  /\ Append(q, t) \in Seq(Threads) /\ IsInjective(Append(q, t))
           /\ ToSet(Append(q, t)) = ToSet(q) \cup {t}
  <1> DEFINE r == Append(q, t)
             n == Len(q)
  <1>1. /\ r \in Seq(Threads) /\ Len(r) = n + 1
        /\ \A i \in 1 .. n : r[i] = q[i]
        /\ r[n + 1] = t
    BY AppendProperties
  <1>2. n \in Nat /\ DOMAIN q = 1 .. n /\ \A u : u \in ToSet(q) <=> \E i \in 1 .. n : q[i] = u
    BY QueueBasics
  <1> HIDE DEF r, n
  <1>3. DOMAIN r = 1 .. n + 1 /\ \A u : u \in ToSet(r) <=> \E i \in 1 .. n + 1 : r[i] = u
    <2>1. DOMAIN r = 1 .. Len(r) /\ \A u : u \in ToSet(r) <=> \E i \in 1 .. Len(r) : r[i] = u
      BY <1>1, QueueBasics
    <2> QED BY <1>1, <2>1
  <1>4. \A i \in 1 .. n + 1 : i \in 1 .. n \/ i = n + 1
    BY <1>2
  <1>5. \A i \in 1 .. n : i \in 1 .. n + 1
    BY <1>2
  <1>6. n + 1 \in 1 .. n + 1
    BY <1>2
  <1>7. \A i \in 1 .. n : q[i] # t
    BY <1>2
  <1>8. ToSet(r) = ToSet(q) \cup {t}
    BY <1>1, <1>2, <1>3, <1>4, <1>5, <1>6
  <1>9. IsInjective(r)
    BY <1>1, <1>2, <1>3, <1>4, <1>7 DEF IsInjective
  <1> QED BY <1>1, <1>8, <1>9 DEF r

LEMMA TailQueue ==
    ASSUME NEW q \in Seq(Threads), IsInjective(q), q # <<>>
    PROVE  /\ Head(q) \in ToSet(q) /\ Tail(q) \in Seq(Threads) /\ IsInjective(Tail(q))
           /\ ToSet(Tail(q)) = ToSet(q) \ {Head(q)}
  <1> DEFINE r == Tail(q)
             n == Len(q)
  <1>1. /\ r \in Seq(Threads) /\ Len(r) = n - 1
        /\ \A i \in 1 .. n - 1 : r[i] = q[i + 1]
    BY HeadTailProperties
  <1>2. Head(q) = q[1]
    OBVIOUS
  <1>3. n \in Nat /\ DOMAIN q = 1 .. n /\ \A u : u \in ToSet(q) <=> \E i \in 1 .. n : q[i] = u
    BY QueueBasics
  <1>4. n # 0
    BY EmptySeq
  <1>5. DOMAIN r = 1 .. n - 1 /\ \A u : u \in ToSet(r) <=> \E i \in 1 .. n - 1 : r[i] = u
    BY <1>1, QueueBasics
  <1> HIDE DEF r, n
  <1>6. \A i \in 1 .. n - 1 : i + 1 \in 1 .. n /\ i + 1 # 1
    BY <1>3, <1>4
  <1>7. \A i \in 1 .. n : i = 1 \/ (i - 1 \in 1 .. n - 1 /\ (i - 1) + 1 = i)
    BY <1>3, <1>4
  <1>8. 1 \in 1 .. n
    BY <1>3, <1>4
  <1>9. \A i, j \in 1 .. n : q[i] = q[j] => i = j
    BY <1>3 DEF IsInjective
  <1>10. Head(q) \in ToSet(q)
    BY <1>2, <1>3, <1>8
  <1>11. ASSUME NEW u PROVE u \in ToSet(r) <=> u \in ToSet(q) /\ u # Head(q)
    <2>1. ASSUME u \in ToSet(r) PROVE u \in ToSet(q) /\ u # Head(q)
      <3>1. PICK i \in 1 .. n - 1 : r[i] = u
        BY <2>1, <1>5
      <3>2. u = q[i + 1] /\ i + 1 \in 1 .. n /\ i + 1 # 1
        BY <3>1, <1>1, <1>6 DEF n, r
      <3> QED BY <3>2, <1>2, <1>3, <1>8, <1>9
    <2>2. ASSUME u \in ToSet(q), u # Head(q) PROVE u \in ToSet(r)
      <3>1. PICK i \in 1 .. n : q[i] = u
        BY <2>2, <1>3
      <3>2. i - 1 \in 1 .. n - 1 /\ (i - 1) + 1 = i
        BY <3>1, <2>2, <1>2, <1>7
      <3>3. r[i - 1] = u
        BY <3>1, <3>2, <1>1
      <3> QED BY <3>2, <3>3, <1>5
    <2> QED BY <2>1, <2>2
  <1>12. IsInjective(r)
    <2> SUFFICES ASSUME NEW i \in 1 .. n - 1, NEW j \in 1 .. n - 1, r[i] = r[j] PROVE i = j
      BY <1>5 DEF IsInjective
    <2>1. q[i + 1] = q[j + 1] /\ i + 1 \in 1 .. n /\ j + 1 \in 1 .. n
      BY <1>1, <1>6
    <2>2. i + 1 = j + 1
      BY <2>1, <1>9
    <2> QED BY <2>2, <1>3
  <1> QED BY <1>1, <1>10, <1>11, <1>12 DEF r

LEMMA ConcatQueue ==
    ASSUME NEW q \in Seq(Threads), IsInjective(q), NEW s \in Seq(Threads), IsInjective(s),
           ToSet(q) \cap ToSet(s) = {}
    PROVE  /\ q \o s \in Seq(Threads) /\ IsInjective(q \o s)
           /\ ToSet(q \o s) = ToSet(q) \cup ToSet(s)
  <1> DEFINE r == q \o s
             n == Len(q)
             k == Len(s)
  <1>1. /\ r \in Seq(Threads) /\ Len(r) = n + k
        /\ \A i \in 1 .. n + k : r[i] = IF i <= n THEN q[i] ELSE s[i - n]
    BY ConcatProperties
  <1>2. n \in Nat /\ DOMAIN q = 1 .. n /\ \A u : u \in ToSet(q) <=> \E i \in 1 .. n : q[i] = u
    BY QueueBasics
  <1>3. k \in Nat /\ DOMAIN s = 1 .. k /\ \A u : u \in ToSet(s) <=> \E i \in 1 .. k : s[i] = u
    BY QueueBasics
  <1> HIDE DEF r, n, k
  <1>4. DOMAIN r = 1 .. n + k /\ \A u : u \in ToSet(r) <=> \E i \in 1 .. n + k : r[i] = u
    <2>1. DOMAIN r = 1 .. Len(r) /\ \A u : u \in ToSet(r) <=> \E i \in 1 .. Len(r) : r[i] = u
      BY <1>1, QueueBasics
    <2> QED BY <1>1, <2>1
  <1>5. ASSUME NEW i \in 1 .. n + k
        PROVE  \/ i \in 1 .. n /\ r[i] = q[i] /\ r[i] \in ToSet(q)
               \/ i > n /\ i - n \in 1 .. k /\ r[i] = s[i - n] /\ r[i] \in ToSet(s)
    <2>1. CASE i <= n
      BY <2>1, <1>1, <1>2
    <2>2. CASE ~(i <= n)
      <3>1. i > n /\ i - n \in 1 .. k
        BY <2>2, <1>2, <1>3
      <3> QED BY <2>2, <3>1, <1>1, <1>3
    <2> QED BY <2>1, <2>2
  <1>6. \A i \in 1 .. n : i \in 1 .. n + k /\ i <= n
    BY <1>2, <1>3
  <1>7. \A i \in 1 .. k : i + n \in 1 .. n + k /\ ~(i + n <= n) /\ (i + n) - n = i
    BY <1>2, <1>3
  <1>8. ASSUME NEW u PROVE u \in ToSet(r) <=> u \in ToSet(q) \/ u \in ToSet(s)
    <2>1. u \in ToSet(r) => u \in ToSet(q) \/ u \in ToSet(s)
      BY <1>4, <1>5
    <2>2. u \in ToSet(q) => u \in ToSet(r)
      BY <1>1, <1>2, <1>4, <1>6
    <2>3. ASSUME u \in ToSet(s) PROVE u \in ToSet(r)
      <3>1. PICK i \in 1 .. k : s[i] = u
        BY <2>3, <1>3
      <3>2. r[i + n] = u
        BY <3>1, <1>1, <1>7
      <3> QED BY <3>2, <1>4, <1>7
    <2> QED BY <2>1, <2>2, <2>3
  <1>9. IsInjective(r)
    <2> SUFFICES ASSUME NEW i \in 1 .. n + k, NEW j \in 1 .. n + k, r[i] = r[j] PROVE i = j
      BY <1>4 DEF IsInjective
    <2>1. CASE i \in 1 .. n /\ j \in 1 .. n /\ r[i] = q[i] /\ r[j] = q[j]
      BY <2>1, <1>2 DEF IsInjective
    <2>2. CASE /\ i > n /\ j > n /\ i - n \in 1 .. k /\ j - n \in 1 .. k
               /\ r[i] = s[i - n] /\ r[j] = s[j - n]
      <3>1. i - n = j - n
        BY <2>2, <1>3 DEF IsInjective
      <3> QED BY <3>1, <1>2, <1>3
    <2> QED BY <2>1, <2>2, <1>5
  <1> QED BY <1>1, <1>8, <1>9 DEF r

LEMMA OneQueue ==
    ASSUME NEW t \in Threads
    PROVE  <<t>> \in Seq(Threads) /\ IsInjective(<<t>>) /\ ToSet(<<t>>) = {t}
  <1>1. <<t>> \in Seq(Threads) /\ Len(<<t>>) = 1 /\ <<t>>[1] = t /\ DOMAIN <<t>> = {1}
    OBVIOUS
  <1> QED BY <1>1 DEF IsInjective, ToSet

\* Sorting a queue of distinct threads changes their order only.
LEMMA SortedQueue ==
    ASSUME NEW q \in Seq(Threads), IsInjective(q), NEW due, NEW s \in DeadlineSorts(q, due)
    PROVE  s \in Seq(Threads) /\ IsInjective(s) /\ ToSet(s) = ToSet(q)
  <1> DEFINE D == DOMAIN q
             T == ToSet(q)
  <1>1. s \in [D -> T] /\ ToSet(s) = T
    BY DEF DeadlineSorts
  <1>2. s \in Surjection(D, T)
    BY <1>1 DEF ToSet, Surjection
  <1>3. q \in Bijection(D, T)
    <2>1. q \in [D -> T]
      BY QueueBasics DEF ToSet
    <2> QED BY <2>1 DEF Bijection, Injection, Surjection, ToSet
  <1>4. IsFiniteSet(D)
    BY QueueBasics, FS_Interval
  <1>5. Cardinality(D) = Cardinality(T)
    BY <1>3, <1>4, FS_Bijection DEF ExistsBijection
  <1>6. s \in Injection(D, T)
    <2> HIDE DEF D, T
    <2> QED BY <1>2, <1>4, <1>5, FS_SurjSameCardinalityImpliesInj
  <1> QED
    BY <1>1, <1>6, DeadlineSortsType DEF Injection

-----------------------------------------------------------------------------
(* Families of queues *)

\* One queue becomes s.
LEMMA Replaced ==
    ASSUME NEW Q, NEW T, Holds(Q, T), NEW x \in DOMAIN Q,
           NEW s \in Seq(Threads), IsInjective(s),
           ToSet(s) \cap (T \ ToSet(Q[x])) = {}
    PROVE  Holds([Q EXCEPT ![x] = s], (T \ ToSet(Q[x])) \cup ToSet(s))
  <1> DEFINE R == [Q EXCEPT ![x] = s]
  <1>1. DOMAIN R = DOMAIN Q /\ R[x] = s /\ \A y \in DOMAIN Q : y # x => R[y] = Q[y]
    OBVIOUS
  <1> HIDE DEF R
  <1>2. \A y \in DOMAIN R : R[y] \in Seq(Threads) /\ IsInjective(R[y])
    BY <1>1 DEF Holds
  <1>3. \A y \in DOMAIN Q : y # x => ToSet(Q[y]) \subseteq T \ ToSet(Q[x])
    BY DEF Holds
  <1>4. \A y, z \in DOMAIN R : y # z => ToSet(R[y]) \cap ToSet(R[z]) = {}
    <2> SUFFICES ASSUME NEW y \in DOMAIN Q, NEW z \in DOMAIN Q, y # z
                 PROVE  ToSet(R[y]) \cap ToSet(R[z]) = {}
      BY <1>1
    <2>1. CASE y = x
      BY <2>1, <1>1, <1>3
    <2>2. CASE z = x
      BY <2>2, <1>1, <1>3
    <2>3. CASE y # x /\ z # x
      BY <2>3, <1>1 DEF Holds
    <2> QED BY <2>1, <2>2, <2>3
  <1>5. (T \ ToSet(Q[x])) \cup ToSet(s) = UNION { ToSet(R[y]) : y \in DOMAIN R }
    <2>1. ASSUME NEW u \in T \ ToSet(Q[x]) PROVE \E y \in DOMAIN R : u \in ToSet(R[y])
      <3>1. PICK y \in DOMAIN Q : u \in ToSet(Q[y])
        BY DEF Holds
      <3> QED BY <3>1, <1>1
    <2>2. ToSet(s) = ToSet(R[x]) /\ x \in DOMAIN R
      BY <1>1
    <2>3. ASSUME NEW y \in DOMAIN R PROVE ToSet(R[y]) \subseteq (T \ ToSet(Q[x])) \cup ToSet(s)
      BY <1>1, <1>3
    <2> QED BY <2>1, <2>2, <2>3
  <1> QED BY <1>2, <1>4, <1>5 DEF Holds, R

LEMMA Appended ==
    ASSUME NEW Q, NEW T, Holds(Q, T), NEW x \in DOMAIN Q, NEW t \in Threads, t \notin T
    PROVE  Holds([Q EXCEPT ![x] = Append(@, t)], T \cup {t})
  <1>1. Q[x] \in Seq(Threads) /\ IsInjective(Q[x]) /\ ToSet(Q[x]) \subseteq T
    BY DEF Holds
  <1>2. /\ Append(Q[x], t) \in Seq(Threads) /\ IsInjective(Append(Q[x], t))
        /\ ToSet(Append(Q[x], t)) = ToSet(Q[x]) \cup {t}
    BY <1>1, AppendQueue
  <1>3. (T \ ToSet(Q[x])) \cup ToSet(Append(Q[x], t)) = T \cup {t}
    BY <1>1, <1>2
  <1>4. ToSet(Append(Q[x], t)) \cap (T \ ToSet(Q[x])) = {}
    BY <1>1, <1>2
  <1>5. Holds([Q EXCEPT ![x] = Append(Q[x], t)],
              (T \ ToSet(Q[x])) \cup ToSet(Append(Q[x], t)))
    BY <1>2, <1>4, Replaced
  <1> QED BY <1>3, <1>5

LEMMA Popped ==
    ASSUME NEW Q, NEW T, Holds(Q, T), NEW x \in DOMAIN Q, Q[x] # <<>>
    PROVE  /\ Head(Q[x]) \in T
           /\ Holds([Q EXCEPT ![x] = Tail(@)], T \ {Head(Q[x])})
  <1>1. Q[x] \in Seq(Threads) /\ IsInjective(Q[x]) /\ ToSet(Q[x]) \subseteq T
    BY DEF Holds
  <1>2. /\ Head(Q[x]) \in ToSet(Q[x]) /\ Tail(Q[x]) \in Seq(Threads) /\ IsInjective(Tail(Q[x]))
        /\ ToSet(Tail(Q[x])) = ToSet(Q[x]) \ {Head(Q[x])}
    BY <1>1, TailQueue
  <1>3. (T \ ToSet(Q[x])) \cup ToSet(Tail(Q[x])) = T \ {Head(Q[x])}
    BY <1>1, <1>2
  <1>4. ToSet(Tail(Q[x])) \cap (T \ ToSet(Q[x])) = {}
    BY <1>1, <1>2
  <1>5. Holds([Q EXCEPT ![x] = Tail(Q[x])], (T \ ToSet(Q[x])) \cup ToSet(Tail(Q[x])))
    BY <1>2, <1>4, Replaced
  <1> QED BY <1>1, <1>2, <1>3, <1>5

LEMMA Cleared ==
    ASSUME NEW Q, NEW T, Holds(Q, T), NEW x \in DOMAIN Q
    PROVE  Holds([Q EXCEPT ![x] = <<>>], T \ ToSet(Q[x]))
  <1>1. (T \ ToSet(Q[x])) \cup ToSet(<<>>) = T \ ToSet(Q[x])
    BY EmptyQueue
  <1>2. <<>> \in Seq(Threads) /\ IsInjective(<<>>) /\ ToSet(<<>>) \cap (T \ ToSet(Q[x])) = {}
    BY EmptyQueue
  <1>3. Holds([Q EXCEPT ![x] = <<>>], (T \ ToSet(Q[x])) \cup ToSet(<<>>))
    BY <1>2, Replaced
  <1> QED BY <1>1, <1>3

LEMMA Extended ==
    ASSUME NEW Q, NEW T, Holds(Q, T), NEW x \in DOMAIN Q,
           NEW s \in Seq(Threads), IsInjective(s), ToSet(s) \cap T = {}
    PROVE  Holds([Q EXCEPT ![x] = @ \o s], T \cup ToSet(s))
  <1>1. Q[x] \in Seq(Threads) /\ IsInjective(Q[x]) /\ ToSet(Q[x]) \subseteq T
    BY DEF Holds
  <1>2. /\ Q[x] \o s \in Seq(Threads) /\ IsInjective(Q[x] \o s)
        /\ ToSet(Q[x] \o s) = ToSet(Q[x]) \cup ToSet(s)
    BY <1>1, ConcatQueue
  <1>3. (T \ ToSet(Q[x])) \cup ToSet(Q[x] \o s) = T \cup ToSet(s)
    BY <1>1, <1>2
  <1>4. ToSet(Q[x] \o s) \cap (T \ ToSet(Q[x])) = {}
    BY <1>1, <1>2
  <1> QED BY <1>2, <1>3, <1>4, Replaced

LEMMA HoldsFacts ==
    ASSUME NEW Q, NEW T, Holds(Q, T)
    PROVE  /\ T \subseteq Threads
           /\ \A x \in DOMAIN Q : /\ Q[x] \in Seq(Threads) /\ IsInjective(Q[x])
                                  /\ ToSet(Q[x]) \subseteq T
  BY QueueBasics DEF Holds

-----------------------------------------------------------------------------
(* Ready queues *)

\* A thread pushed at the back of its level.
LEMMA PushedHolds ==
    ASSUME NEW rq, DOMAIN rq = Levels, NEW T, Holds(rq, T), NEW l \in Levels,
           NEW t \in Threads, t \notin T, NEW due, NEW new \in Pushed(rq, l, t, due)
    PROVE  Holds(new, T \cup {t})
  <1>1. rq[l] \in Seq(Threads) /\ IsInjective(rq[l]) /\ ToSet(rq[l]) \subseteq T
    BY HoldsFacts
  <1> DEFINE grown == Append(rq[l], t)
  <1>2. /\ grown \in Seq(Threads) /\ IsInjective(grown)
        /\ ToSet(grown) = ToSet(rq[l]) \cup {t}
    BY <1>1, AppendQueue
  <1>3. PICK q \in (IF l = EdfLevel THEN DeadlineSorts(grown, due) ELSE {grown}) :
           new = [rq EXCEPT ![l] = q]
    BY DEF Pushed
  <1> HIDE DEF grown
  <1>4. q \in Seq(Threads) /\ IsInjective(q) /\ ToSet(q) = ToSet(rq[l]) \cup {t}
    BY <1>2, <1>3, SortedQueue
  <1>5. ToSet(q) \cap (T \ ToSet(rq[l])) = {}
    BY <1>1, <1>4
  <1>6. Holds([rq EXCEPT ![l] = q], (T \ ToSet(rq[l])) \cup ToSet(q))
    BY <1>4, <1>5, Replaced
  <1>7. (T \ ToSet(rq[l])) \cup ToSet(q) = T \cup {t}
    BY <1>1, <1>4
  <1> QED BY <1>3, <1>6, <1>7

\* A thread taken from the front of a queue goes to the front of queue 0.
LEMMA RequeuedHolds ==
    ASSUME NEW rq, DOMAIN rq = Levels, NEW T, Holds(rq, T), NEW l \in Levels, rq[l] # <<>>,
           NEW new, new = [[rq EXCEPT ![l] = Tail(@)] EXCEPT ![0] = <<Head(rq[l])>> \o @]
    PROVE  Holds(new, T)
  <1> DEFINE mid == [rq EXCEPT ![l] = Tail(@)]
             h   == Head(rq[l])
  <1>1. 0 \in Levels /\ DOMAIN mid = Levels
    BY PrioAssumption DEF Levels, EdfLevel
  <1>2. h \in T /\ Holds(mid, T \ {h})
    BY Popped
  <1>3. h \in Threads
    BY <1>2, HoldsFacts
  <1> HIDE DEF mid, h
  <1>4. mid[0] \in Seq(Threads) /\ IsInjective(mid[0]) /\ ToSet(mid[0]) \subseteq T \ {h}
    BY <1>1, <1>2, HoldsFacts
  <1>5. <<h>> \in Seq(Threads) /\ IsInjective(<<h>>) /\ ToSet(<<h>>) = {h}
    BY <1>3, OneQueue
  <1>6. /\ <<h>> \o mid[0] \in Seq(Threads) /\ IsInjective(<<h>> \o mid[0])
        /\ ToSet(<<h>> \o mid[0]) = {h} \cup ToSet(mid[0])
    BY <1>4, <1>5, ConcatQueue
  <1>7. ToSet(<<h>> \o mid[0]) \cap ((T \ {h}) \ ToSet(mid[0])) = {}
    BY <1>6
  <1>8. Holds([mid EXCEPT ![0] = <<h>> \o mid[0]],
              ((T \ {h}) \ ToSet(mid[0])) \cup ToSet(<<h>> \o mid[0]))
    BY <1>1, <1>2, <1>6, <1>7, Replaced
  <1>9. ((T \ {h}) \ ToSet(mid[0])) \cup ToSet(<<h>> \o mid[0]) = T
    BY <1>2, <1>4, <1>6
  <1> QED BY <1>8, <1>9 DEF mid, h

\* OfLevel selects the threads of a level, each of them once.
LEMMA OfLevelQueue ==
    ASSUME NEW ts \in Seq(Threads), IsInjective(ts), NEW l, NEW s \in OfLevel(ts, l)
    PROVE  /\ s \in Seq(Threads) /\ IsInjective(s)
           /\ \A t : t \in ToSet(s) <=> t \in ToSet(ts) /\ Level(t) = l
  <1> DEFINE at == { i \in DOMAIN ts : Level(ts[i]) = l }
             n  == Cardinality(at)
  <1>1. IsFiniteSet(at) /\ n \in Nat
    <2>0. Len(ts) \in Nat /\ DOMAIN ts = 1 .. Len(ts)
      BY QueueBasics
    <2>1. IsFiniteSet(1 .. Len(ts)) /\ at \subseteq 1 .. Len(ts)
      BY <2>0, FS_Interval
    <2> HIDE DEF at
    <2>2. IsFiniteSet(at)
      BY <2>1, FS_Subset
    <2> QED BY <2>2, FS_CardinalityType
  <1>2. PICK x \in [1 .. n -> at] : /\ s = [i \in 1 .. n |-> ts[x[i]]]
                                    /\ \A i, j \in 1 .. n : i < j => x[i] < x[j]
    BY DEF OfLevel
  <1>3. at \subseteq Int /\ at \subseteq DOMAIN ts
    BY QueueBasics
  <1>4. x \in Injection(1 .. n, at)
    <2> SUFFICES ASSUME NEW i \in 1 .. n, NEW j \in 1 .. n, x[i] = x[j] PROVE i = j
      BY DEF Injection, IsInjective
    <2> HIDE DEF n, at
    <2>1. x[i] \in Int /\ x[j] \in Int
      BY <1>2, <1>3
    <2>2. ~(i < j) /\ ~(j < i)
      BY <1>2, <2>1
    <2> QED BY <2>2, <1>1
  <1>5. x \in Surjection(1 .. n, at)
    <2> HIDE DEF at
    <2>1. Cardinality(1 .. n) = Cardinality(at)
      <3> HIDE DEF n
      <3>1. Cardinality(1 .. n) = n
        BY <1>1, FS_Interval
      <3> QED BY <3>1 DEF n
    <2> HIDE DEF n
    <2> QED BY <1>1, <1>4, <2>1, FS_Injection
  <1>6. s \in Seq(Threads)
    BY OfLevelType
  <1>7. DOMAIN s = 1 .. n /\ \A i \in 1 .. n : x[i] \in at /\ s[i] = ts[x[i]]
    BY <1>2
  <1>8. IsInjective(s)
    BY <1>3, <1>4, <1>7 DEF IsInjective, Injection
  <1>9. ASSUME NEW t PROVE t \in ToSet(s) <=> t \in ToSet(ts) /\ Level(t) = l
    <2>1. t \in ToSet(s) => t \in ToSet(ts) /\ Level(t) = l
      BY <1>7 DEF ToSet
    <2>2. ASSUME t \in ToSet(ts), Level(t) = l PROVE t \in ToSet(s)
      <3>1. PICK i \in DOMAIN ts : ts[i] = t
        BY <2>2 DEF ToSet
      <3>2. i \in at
        BY <2>2, <3>1
      <3>3. PICK j \in 1 .. n : x[j] = i
        BY <1>5, <3>2 DEF Surjection
      <3> QED BY <1>7, <3>1, <3>3 DEF ToSet
    <2> QED BY <2>1, <2>2
  <1> QED BY <1>6, <1>8, <1>9

\* Every thread of ts is queued, at its own level.
LEMMA ReadiedHolds ==
    ASSUME ThreadTypes, NEW rq, DOMAIN rq = Levels, NEW T, Holds(rq, T),
           NEW ts \in Seq(Threads), IsInjective(ts), ToSet(ts) \cap T = {},
           NEW new \in Readied(rq, ts)
    PROVE  Holds(new, T \cup ToSet(ts))
  <1> DEFINE grown(l) == { rq[l] \o s : s \in OfLevel(ts, l) }
             due(l)   == IF l = EdfLevel /\ \E i \in DOMAIN ts : Level(ts[i]) = l
                         THEN UNION { DeadlineSorts(q, Deadlines) : q \in grown(l) }
                         ELSE grown(l)
             Mine(l)  == { t \in ToSet(ts) : Level(t) = l }
  <1>1. DOMAIN new = Levels /\ \A l \in Levels : new[l] \in due(l)
    BY DEF Readied
  <1>2. ASSUME NEW l \in Levels
        PROVE  /\ new[l] \in Seq(Threads) /\ IsInjective(new[l])
               /\ ToSet(new[l]) = ToSet(rq[l]) \cup Mine(l)
    <2>1. rq[l] \in Seq(Threads) /\ IsInjective(rq[l]) /\ ToSet(rq[l]) \subseteq T
      BY HoldsFacts
    <2>2. ASSUME NEW q \in grown(l)
          PROVE  q \in Seq(Threads) /\ IsInjective(q) /\ ToSet(q) = ToSet(rq[l]) \cup Mine(l)
      <3>1. PICK s \in OfLevel(ts, l) : q = rq[l] \o s
        OBVIOUS
      <3>2. s \in Seq(Threads) /\ IsInjective(s) /\ ToSet(s) = Mine(l)
        BY OfLevelQueue
      <3>3. ToSet(rq[l]) \cap ToSet(s) = {}
        BY <2>1, <3>2
      <3> HIDE DEF Mine
      <3> QED BY <2>1, <3>1, <3>2, <3>3, ConcatQueue
    <2>3. new[l] \in grown(l) \/ \E q \in grown(l) : new[l] \in DeadlineSorts(q, Deadlines)
      BY <1>1
    <2> HIDE DEF grown, Mine
    <2> QED BY <2>2, <2>3, SortedQueue
  <1>3. ASSUME NEW t \in ToSet(ts) PROVE Level(t) \in Levels
    <2>1. t \in Threads
      BY QueueBasics
    <2>2. attrOf[t] \in AttrIds
      BY <2>1 DEF ThreadTypes
    <2> QED BY <2>2, LevelType DEF Level
  <1>4. \A l, k \in Levels : l # k => ToSet(new[l]) \cap ToSet(new[k]) = {}
    <2> SUFFICES ASSUME NEW l \in Levels, NEW k \in Levels, l # k
                 PROVE  ToSet(new[l]) \cap ToSet(new[k]) = {}
      OBVIOUS
    <2>1. ToSet(rq[l]) \cap ToSet(rq[k]) = {} /\ ToSet(rq[l]) \subseteq T /\ ToSet(rq[k]) \subseteq T
      BY HoldsFacts DEF Holds
    <2> QED BY <2>1, <1>2
  <1>5. T \cup ToSet(ts) = UNION { ToSet(new[l]) : l \in Levels }
    <2>1. ASSUME NEW t \in T PROVE \E l \in Levels : t \in ToSet(new[l])
      <3>1. PICK l \in Levels : t \in ToSet(rq[l])
        BY DEF Holds
      <3> QED BY <3>1, <1>2
    <2>2. \A t \in ToSet(ts) : t \in ToSet(new[Level(t)])
      BY <1>2, <1>3
    <2>3. ASSUME NEW l \in Levels PROVE ToSet(new[l]) \subseteq T \cup ToSet(ts)
      BY <1>2, HoldsFacts
    <2> HIDE DEF Mine
    <2> QED BY <2>1, <2>2, <2>3, <1>3
  <1> QED BY <1>1, <1>2, <1>4, <1>5 DEF Holds

-----------------------------------------------------------------------------
(* The invariant *)

With(s)  == { t \in Threads : status[t] = s }
Alive(t) == status[t] \notin {"UNBORN", "DEAD"}

\* The joiner that is still in the hands of its handler, as a queue.
Hand(p) == IF call[p].f = "join" /\ curThread[p] # NULL THEN <<curThread[p]>> ELSE <<>>

\* Where threads wait, and the queue there.
WaitSlots ==
    ({"mutex"} \X Mutexes) \cup ({"sem"} \X Sems) \cup ({"cond"} \X Conds)
    \cup ({"join"} \X Threads) \cup ({"joining"} \X Procs)
QueueAt(x) ==
    CASE x[1] = "mutex"   -> mutex[x[2]].waiting
      [] x[1] = "sem"     -> sem[x[2]].waiting
      [] x[1] = "cond"    -> cond[x[2]].waiting
      [] x[1] = "join"    -> joining[x[2]]
      [] x[1] = "joining" -> Hand(x[2])
WaitQueue == [x \in WaitSlots |-> QueueAt(x)]

OnProcessors ==
    /\ \A p \in Procs : runThread[p] # NULL => runThread[p] \in With("RUNNING")
    /\ \A t \in With("RUNNING") : \E p \in Procs : runThread[p] = t
    /\ \A p, q \in Procs : runThread[p] = runThread[q] /\ runThread[p] # NULL => p = q
InQueues == Holds(readyQueue, With("READY"))
AtWaits  == Holds(WaitQueue, With("WAITING"))
PlaceInv == OnProcessors /\ InQueues /\ AtWaits

\* Nobody joins itself, and the joined one is alive.
JoinsSound == \A u \in Threads : u \notin ToSet(joining[u]) /\ (joining[u] # <<>> => Alive(u))

\* What a handler remembers: the thread that it has taken off its processor, and in
\* a join one that is alive and not the same.
HandlerSound(p) ==
    /\ pc[p] # "run" => call[p] \in Calls
    /\ pc[p] = "choose"  => runThread[p] = NULL
    /\ pc[p] # "choose"  => curThread[p] = NULL
    /\ pc[p] = "attempt" => call[p].f # "join" /\ runThread[p] # NULL
    /\ pc[p] = "blocked" /\ call[p].f = "join" =>
          status[call[p].th] # "UNBORN" /\ call[p].th # runThread[p]
    /\ pc[p] = "choose" /\ call[p].f = "join" =>
          Alive(call[p].th) /\ call[p].th # curThread[p]
HandlersSound == \A p \in Procs : HandlerSound(p)

\* Nobody waits for an object that does not exist.
DeadIdle ==
    /\ \A s \in Sems : ~sem[s].live => sem[s].waiting = <<>>
    /\ \A k \in Conds : ~cond[k].live => cond[k].waiting = <<>>

Joinless     == \A c \in Calls : c.f # "join"
Unpreemptive == \A v \in AttrValues : ~v.preemptive
NonePreempts == Unpreemptive => \A a \in AttrIds : ~attrVal[a].preemptive

\* The programs considered: they respect POSIX, have no joinAll, and a thread that
\* is in join is not taken off its processor for another one.
Lawful == Disciplined /\ (\A c \in Calls : c.f # "joinAll") /\ (Joinless \/ Unpreemptive)

RestInv    == JoinsSound /\ HandlersSound /\ NonePreempts
ThreadsInv == PlaceInv /\ RestInv /\ DeadIdle

\* What is known of the locks and the objects.
Base == IInv /\ MutexCoherent /\ DeadUnowned /\ CondInv

-----------------------------------------------------------------------------
(* What the steps do to the places *)

LEMMA SamePlaces ==
    ASSUME PlaceInv, UNCHANGED <<runThread, status, readyQueue>>, WaitQueue' = WaitQueue
    PROVE  PlaceInv'
  <1>1. \A s : With(s)' = With(s)
    BY DEF With
  <1> QED BY <1>1 DEF PlaceInv, OnProcessors, InQueues, AtWaits, Holds, With

\* The thread of p falls asleep in the queue x.
LEMMA SleepPlaces ==
    ASSUME IInv, PlaceInv, NEW p \in Procs, runThread[p] # NULL, NEW x \in WaitSlots,
           runThread' = [runThread EXCEPT ![p] = NULL],
           status' = [status EXCEPT ![runThread[p]] = "WAITING"],
           WaitQueue' = [WaitQueue EXCEPT ![x] = Append(@, runThread[p])]
    PROVE  OnProcessors' /\ AtWaits' /\ With("READY")' = With("READY")
  <1> DEFINE t == runThread[p]
  <1>1. /\ runThread \in [Procs -> Threads \cup {NULL}] /\ t \in Threads
        /\ status \in [Threads -> {"UNBORN", "READY", "RUNNING", "WAITING", "DEAD"}]
    BY DEF IInv, TypeOK, ThreadTypes
  <1>2. status[t] = "RUNNING"
    BY DEF PlaceInv, OnProcessors, With
  <1>3. /\ With("READY")' = With("READY") /\ With("WAITING")' = With("WAITING") \cup {t}
        /\ With("RUNNING")' = With("RUNNING") \ {t} /\ t \notin With("WAITING")
    BY <1>1, <1>2 DEF With
  <1>4. OnProcessors'
    <2>1. /\ runThread'[p] = NULL /\ t # NULL
          /\ \A q \in Procs : q # p => runThread'[q] = runThread[q] /\ runThread[q] # t
      BY <1>1 DEF PlaceInv, OnProcessors
    <2> QED BY <1>3, <2>1 DEF PlaceInv, OnProcessors
  <1>5. AtWaits'
    <2>1. Holds(WaitQueue, With("WAITING")) /\ x \in DOMAIN WaitQueue
      BY DEF PlaceInv, AtWaits, WaitQueue
    <2>2. Holds([WaitQueue EXCEPT ![x] = Append(@, t)], With("WAITING") \cup {t})
      BY <1>1, <1>3, <2>1, Appended
    <2>3. Holds(WaitQueue', With("WAITING")')
      BY <1>3, <2>2
    <2> QED BY <2>3 DEF AtWaits, Holds
  <1> QED BY <1>3, <1>4, <1>5

\* The thread t, which was waiting, becomes ready; the rest of the waiters stay.
LEMMA AwakePlaces ==
    ASSUME IInv, PlaceInv, NEW t \in With("WAITING"), Awake(t), UNCHANGED runThread,
           Holds(WaitQueue', With("WAITING") \ {t})
    PROVE  PlaceInv'
  <1>1. /\ status \in [Threads -> {"UNBORN", "READY", "RUNNING", "WAITING", "DEAD"}]
        /\ readyQueue \in [Levels -> Seq(Threads)]
        /\ t \in Threads /\ status[t] = "WAITING"
    BY DEF IInv, TypeOK, ThreadTypes, With
  <1>2. status' = [status EXCEPT ![t] = "READY"] /\ readyQueue' = [readyQueue EXCEPT ![0] = Append(@, t)]
    BY DEF Awake
  <1>3. /\ With("READY")' = With("READY") \cup {t} /\ With("WAITING")' = With("WAITING") \ {t}
        /\ With("RUNNING")' = With("RUNNING") /\ t \notin With("READY")
    BY <1>1, <1>2 DEF With
  <1>4. OnProcessors'
    BY <1>3 DEF PlaceInv, OnProcessors
  <1>5. InQueues'
    <2>1. 0 \in DOMAIN readyQueue
      BY <1>1, PrioAssumption DEF Levels, EdfLevel
    <2>2. Holds([readyQueue EXCEPT ![0] = Append(@, t)], With("READY") \cup {t})
      BY <1>1, <1>3, <2>1, Appended DEF PlaceInv, InQueues
    <2>3. Holds(readyQueue', With("READY")')
      BY <1>2, <1>3, <2>2
    <2> QED BY <2>3 DEF InQueues, Holds
  <1>6. AtWaits'
    BY <1>3 DEF AtWaits, Holds
  <1> QED BY <1>4, <1>5, <1>6 DEF PlaceInv

\* The first thread of the queue x becomes ready.
LEMMA WakePlaces ==
    ASSUME IInv, PlaceInv, NEW x \in WaitSlots, WaitQueue[x] # <<>>,
           Awake(Head(WaitQueue[x])), UNCHANGED runThread,
           WaitQueue' = [WaitQueue EXCEPT ![x] = Tail(@)]
    PROVE  PlaceInv'
  <1>1. Holds(WaitQueue, With("WAITING")) /\ x \in DOMAIN WaitQueue
    BY DEF PlaceInv, AtWaits, WaitQueue
  <1>2. /\ Head(WaitQueue[x]) \in With("WAITING")
        /\ Holds([WaitQueue EXCEPT ![x] = Tail(@)], With("WAITING") \ {Head(WaitQueue[x])})
    BY <1>1, Popped
  <1> QED BY <1>2, AwakePlaces

\* The waiters change queues.
LEMMA MovePlaces ==
    ASSUME PlaceInv, UNCHANGED <<runThread, status, readyQueue>>,
           Holds(WaitQueue', With("WAITING"))
    PROVE  PlaceInv'
  <1>1. \A s : With(s)' = With(s)
    BY DEF With
  <1>2. OnProcessors' /\ InQueues'
    BY <1>1 DEF PlaceInv, OnProcessors, InQueues, Holds
  <1> QED BY <1>1, <1>2 DEF PlaceInv, AtWaits, Holds

-----------------------------------------------------------------------------
(* What the steps do to the queues of waiters *)

LEMMA Slots ==
    /\ \A m \in Mutexes : <<"mutex", m>> \in WaitSlots /\ WaitQueue[<<"mutex", m>>] = mutex[m].waiting
    /\ \A s \in Sems : <<"sem", s>> \in WaitSlots /\ WaitQueue[<<"sem", s>>] = sem[s].waiting
    /\ \A k \in Conds : <<"cond", k>> \in WaitSlots /\ WaitQueue[<<"cond", k>>] = cond[k].waiting
    /\ \A u \in Threads : <<"join", u>> \in WaitSlots /\ WaitQueue[<<"join", u>>] = joining[u]
    /\ \A p \in Procs : <<"joining", p>> \in WaitSlots /\ WaitQueue[<<"joining", p>>] = Hand(p)
    /\ DOMAIN WaitQueue = WaitSlots
    /\ \A x \in WaitSlots :
          \/ \E m \in Mutexes : x = <<"mutex", m>>
          \/ \E s \in Sems : x = <<"sem", s>>
          \/ \E k \in Conds : x = <<"cond", k>>
          \/ \E u \in Threads : x = <<"join", u>>
          \/ \E p \in Procs : x = <<"joining", p>>
  <1>1. ASSUME NEW m \in Mutexes PROVE <<"mutex", m>> \in WaitSlots /\ WaitQueue[<<"mutex", m>>] = mutex[m].waiting
    BY DEF WaitSlots, WaitQueue, QueueAt
  <1>2. ASSUME NEW s \in Sems PROVE <<"sem", s>> \in WaitSlots /\ WaitQueue[<<"sem", s>>] = sem[s].waiting
    BY DEF WaitSlots, WaitQueue, QueueAt
  <1>3. ASSUME NEW k \in Conds PROVE <<"cond", k>> \in WaitSlots /\ WaitQueue[<<"cond", k>>] = cond[k].waiting
    BY DEF WaitSlots, WaitQueue, QueueAt
  <1>4. ASSUME NEW u \in Threads PROVE <<"join", u>> \in WaitSlots /\ WaitQueue[<<"join", u>>] = joining[u]
    BY DEF WaitSlots, WaitQueue, QueueAt
  <1>5. ASSUME NEW p \in Procs PROVE <<"joining", p>> \in WaitSlots /\ WaitQueue[<<"joining", p>>] = Hand(p)
    BY DEF WaitSlots, WaitQueue, QueueAt
  <1>6. DOMAIN WaitQueue = WaitSlots
    BY DEF WaitQueue
  <1>7. ASSUME NEW x \in WaitSlots
        PROVE  \/ \E m \in Mutexes : x = <<"mutex", m>>
               \/ \E s \in Sems : x = <<"sem", s>>
               \/ \E k \in Conds : x = <<"cond", k>>
               \/ \E u \in Threads : x = <<"join", u>>
               \/ \E p \in Procs : x = <<"joining", p>>
    BY DEF WaitSlots
  <1> QED BY <1>1, <1>2, <1>3, <1>4, <1>5, <1>6, <1>7

LEMMA SlotsPrimed ==
    /\ \A m \in Mutexes : WaitQueue'[<<"mutex", m>>] = mutex'[m].waiting
    /\ \A s \in Sems : WaitQueue'[<<"sem", s>>] = sem'[s].waiting
    /\ \A k \in Conds : WaitQueue'[<<"cond", k>>] = cond'[k].waiting
    /\ \A u \in Threads : WaitQueue'[<<"join", u>>] = joining'[u]
    /\ \A p \in Procs : WaitQueue'[<<"joining", p>>] = Hand(p)'
    /\ DOMAIN WaitQueue' = WaitSlots
    /\ WaitQueue' = [x \in WaitSlots |-> WaitQueue'[x]]
  <1>1. WaitQueue' = [x \in WaitSlots |-> QueueAt(x)']
    BY DEF WaitQueue, WaitSlots
  <1>2. \A m \in Mutexes : WaitQueue'[<<"mutex", m>>] = mutex'[m].waiting
    BY <1>1, Slots DEF QueueAt
  <1>3. \A s \in Sems : WaitQueue'[<<"sem", s>>] = sem'[s].waiting
    BY <1>1, Slots DEF QueueAt
  <1>4. \A k \in Conds : WaitQueue'[<<"cond", k>>] = cond'[k].waiting
    BY <1>1, Slots DEF QueueAt
  <1>5. \A u \in Threads : WaitQueue'[<<"join", u>>] = joining'[u]
    BY <1>1, Slots DEF QueueAt
  <1>6. \A p \in Procs : WaitQueue'[<<"joining", p>>] = Hand(p)'
    BY <1>1, Slots DEF QueueAt
  <1>7. DOMAIN WaitQueue' = WaitSlots /\ WaitQueue' = [x \in WaitSlots |-> WaitQueue'[x]]
    BY <1>1
  <1> QED BY <1>2, <1>3, <1>4, <1>5, <1>6, <1>7

\* The queues that are the same before and after.
SameMutexes  == \A m \in Mutexes : mutex'[m].waiting = mutex[m].waiting
SameSems     == \A s \in Sems : sem'[s].waiting = sem[s].waiting
SameConds    == \A k \in Conds : cond'[k].waiting = cond[k].waiting
SameJoining  == \A u \in Threads : joining'[u] = joining[u]
SameHands    == \A p \in Procs : Hand(p)' = Hand(p)

LEMMA SameWaits ==
    ASSUME SameMutexes, SameSems, SameConds, SameJoining, SameHands
    PROVE  WaitQueue' = WaitQueue
  <1>1. ASSUME NEW x \in WaitSlots PROVE WaitQueue'[x] = WaitQueue[x]
    BY Slots, SlotsPrimed DEF SameMutexes, SameSems, SameConds, SameJoining, SameHands
  <1>2. WaitQueue = [x \in WaitSlots |-> WaitQueue[x]]
    BY DEF WaitQueue
  <1> QED BY <1>1, <1>2, SlotsPrimed

LEMMA MutexSlot ==
    ASSUME NEW m \in Mutexes, \A n \in Mutexes \ {m} : mutex'[n].waiting = mutex[n].waiting,
           SameSems, SameConds, SameJoining, SameHands
    PROVE  WaitQueue' = [WaitQueue EXCEPT ![<<"mutex", m>>] = mutex'[m].waiting]
  <1> DEFINE z == <<"mutex", m>>
  <1>1. ASSUME NEW x \in WaitSlots, x # z PROVE WaitQueue'[x] = WaitQueue[x]
    BY <1>1, Slots, SlotsPrimed DEF SameSems, SameConds, SameJoining, SameHands
  <1>2. z \in WaitSlots /\ WaitQueue'[z] = mutex'[m].waiting
    BY Slots, SlotsPrimed
  <1> HIDE DEF z
  <1> QED BY <1>1, <1>2, Slots, SlotsPrimed DEF z

LEMMA SemSlot ==
    ASSUME NEW s \in Sems, \A n \in Sems \ {s} : sem'[n].waiting = sem[n].waiting,
           SameMutexes, SameConds, SameJoining, SameHands
    PROVE  WaitQueue' = [WaitQueue EXCEPT ![<<"sem", s>>] = sem'[s].waiting]
  <1> DEFINE z == <<"sem", s>>
  <1>1. ASSUME NEW x \in WaitSlots, x # z PROVE WaitQueue'[x] = WaitQueue[x]
    BY <1>1, Slots, SlotsPrimed DEF SameMutexes, SameConds, SameJoining, SameHands
  <1>2. z \in WaitSlots /\ WaitQueue'[z] = sem'[s].waiting
    BY Slots, SlotsPrimed
  <1> HIDE DEF z
  <1> QED BY <1>1, <1>2, Slots, SlotsPrimed DEF z

LEMMA CondSlot ==
    ASSUME NEW k \in Conds, \A n \in Conds \ {k} : cond'[n].waiting = cond[n].waiting,
           SameMutexes, SameSems, SameJoining, SameHands
    PROVE  WaitQueue' = [WaitQueue EXCEPT ![<<"cond", k>>] = cond'[k].waiting]
  <1> DEFINE z == <<"cond", k>>
  <1>1. ASSUME NEW x \in WaitSlots, x # z PROVE WaitQueue'[x] = WaitQueue[x]
    BY <1>1, Slots, SlotsPrimed DEF SameMutexes, SameSems, SameJoining, SameHands
  <1>2. z \in WaitSlots /\ WaitQueue'[z] = cond'[k].waiting
    BY Slots, SlotsPrimed
  <1> HIDE DEF z
  <1> QED BY <1>1, <1>2, Slots, SlotsPrimed DEF z

LEMMA CondMutexSlots ==
    ASSUME NEW k \in Conds, NEW m \in Mutexes,
           \A n \in Conds \ {k} : cond'[n].waiting = cond[n].waiting,
           \A n \in Mutexes \ {m} : mutex'[n].waiting = mutex[n].waiting,
           SameSems, SameJoining, SameHands
    PROVE  WaitQueue' = [[WaitQueue EXCEPT ![<<"cond", k>>] = cond'[k].waiting]
                            EXCEPT ![<<"mutex", m>>] = mutex'[m].waiting]
  <1> DEFINE z == <<"cond", k>>
             y == <<"mutex", m>>
  <1>1. ASSUME NEW x \in WaitSlots, x # z, x # y PROVE WaitQueue'[x] = WaitQueue[x]
    BY <1>1, Slots, SlotsPrimed DEF SameSems, SameJoining, SameHands
  <1>2. /\ z \in WaitSlots /\ WaitQueue'[z] = cond'[k].waiting
        /\ y \in WaitSlots /\ WaitQueue'[y] = mutex'[m].waiting /\ y # z
    BY Slots, SlotsPrimed
  <1> HIDE DEF z, y
  <1> QED BY <1>1, <1>2, Slots, SlotsPrimed DEF z, y

LEMMA JoinSlot ==
    ASSUME NEW t \in Threads, \A u \in Threads \ {t} : joining'[u] = joining[u],
           SameMutexes, SameSems, SameConds, SameHands
    PROVE  WaitQueue' = [WaitQueue EXCEPT ![<<"join", t>>] = joining'[t]]
  <1> DEFINE z == <<"join", t>>
  <1>1. ASSUME NEW x \in WaitSlots, x # z PROVE WaitQueue'[x] = WaitQueue[x]
    BY <1>1, Slots, SlotsPrimed DEF SameMutexes, SameSems, SameConds, SameHands
  <1>2. z \in WaitSlots /\ WaitQueue'[z] = joining'[t]
    BY Slots, SlotsPrimed
  <1> HIDE DEF z
  <1> QED BY <1>1, <1>2, Slots, SlotsPrimed DEF z

LEMMA HandSlot ==
    ASSUME NEW p \in Procs, \A q \in Procs \ {p} : Hand(q)' = Hand(q),
           SameMutexes, SameSems, SameConds, SameJoining
    PROVE  WaitQueue' = [WaitQueue EXCEPT ![<<"joining", p>>] = Hand(p)']
  <1> DEFINE z == <<"joining", p>>
  <1>1. ASSUME NEW x \in WaitSlots, x # z PROVE WaitQueue'[x] = WaitQueue[x]
    BY <1>1, Slots, SlotsPrimed DEF SameMutexes, SameSems, SameConds, SameJoining
  <1>2. z \in WaitSlots /\ WaitQueue'[z] = Hand(p)'
    BY Slots, SlotsPrimed
  <1> HIDE DEF z
  <1> QED BY <1>1, <1>2, Slots, SlotsPrimed DEF z

LEMMA HandJoinSlots ==
    ASSUME NEW p \in Procs, NEW t \in Threads,
           \A q \in Procs \ {p} : Hand(q)' = Hand(q),
           \A u \in Threads \ {t} : joining'[u] = joining[u],
           SameMutexes, SameSems, SameConds
    PROVE  WaitQueue' = [[WaitQueue EXCEPT ![<<"joining", p>>] = Hand(p)']
                            EXCEPT ![<<"join", t>>] = joining'[t]]
  <1> DEFINE z == <<"joining", p>>
             y == <<"join", t>>
  <1>1. ASSUME NEW x \in WaitSlots, x # z, x # y PROVE WaitQueue'[x] = WaitQueue[x]
    BY <1>1, Slots, SlotsPrimed DEF SameMutexes, SameSems, SameConds
  <1>2. /\ z \in WaitSlots /\ WaitQueue'[z] = Hand(p)'
        /\ y \in WaitSlots /\ WaitQueue'[y] = joining'[t] /\ y # z
    BY Slots, SlotsPrimed
  <1> HIDE DEF z, y
  <1> QED BY <1>1, <1>2, Slots, SlotsPrimed DEF z, y

-----------------------------------------------------------------------------
(* What all handlers have in common *)

LEMMA Began ==
    ASSUME Base, ThreadsInv, NEW p \in Procs, NEW c, Start(p, c)
    PROVE  /\ runThread[p] \in Threads /\ runThread[p] # NULL
           /\ runThread[p] \in With("RUNNING")
           /\ issue = "none" /\ pc[p] \in {"run", "blocked"}
           /\ \A q \in Procs : ~Inside(q) /\ curThread[q] = NULL /\ Hand(q) = <<>>
  <1>1. runThread[p] \in Threads /\ issue = "none" /\ \A q \in Procs : ~Inside(q)
    BY Started DEF Base
  <1>2. runThread[p] # NULL
    BY <1>1, NullAssumption
  <1>3. runThread[p] \in With("RUNNING")
    BY <1>2 DEF ThreadsInv, PlaceInv, OnProcessors
  <1>4. \A q \in Procs : curThread[q] = NULL
    BY <1>1 DEF Inside, ThreadsInv, RestInv, HandlersSound, HandlerSound
  <1>5. pc[p] \in {"run", "blocked"}
    BY DEF Start
  <1> QED BY <1>1, <1>2, <1>3, <1>4, <1>5 DEF Hand

LEMMA HandsKept ==
    ASSUME Base, ThreadsInv, NEW p \in Procs, NEW c, Start(p, c),
           \/ Leave(p)
           \/ Attempt(p, c)
           \/ Suspend(p, c) /\ c.f # "join"
    PROVE  SameHands
  <1>1. \A q \in Procs : curThread[q] = NULL /\ Hand(q) = <<>>
    BY Began
  <1>2. call \in [Procs -> LockedCalls \cup {NoCall}] /\ curThread \in [Procs -> Threads \cup {NULL}]
    BY DEF Base, IInv, TypeOK, HandlerTypes
  <1>3. \/ curThread' = [curThread EXCEPT ![p] = NULL]
        \/ call' = [call EXCEPT ![p] = c] /\ c.f # "join"
           /\ curThread' = [curThread EXCEPT ![p] = runThread[p]]
    BY DEF Leave, Attempt, Suspend, Hold
  <1>4. ASSUME NEW q \in Procs PROVE curThread'[q] = NULL \/ call'[q].f # "join"
    BY <1>1, <1>2, <1>3
  <1>5. \A q \in Procs : Hand(q)' = <<>>
    BY <1>4 DEF Hand
  <1> QED BY <1>1, <1>5 DEF SameHands

\* Nobody dies or is born without being given a place.
Survive == \A u \in Threads : status'[u] \in {status[u], "READY", "RUNNING", "WAITING"}

LEMMA JoinsKept ==
    ASSUME JoinsSound, UNCHANGED joining, Survive
    PROVE  JoinsSound'
  BY DEF JoinsSound, Survive, Alive

\* A processor whose handler is alone leaves what the others remember sound.
LEMMA RestFrame ==
    ASSUME Base, ThreadsInv, NEW p \in Procs, NEW c \in Calls,
           \A q \in Procs \ {p} : ~Inside(q),
           JoinsSound', NonePreempts',
           \A u \in Threads : status'[u] = "UNBORN" => status[u] = "UNBORN",
           \A q \in Procs \ {p} :
               pc[q] = "blocked" /\ call[q].f = "join" => runThread'[q] = runThread[q],
           \/ Leave(p)
           \/ Attempt(p, c) /\ c.f # "join" /\ runThread'[p] # NULL
           \/ Suspend(p, c) /\ (c.f = "join" => Alive(c.th)' /\ c.th # runThread[p])
    PROVE  RestInv'
  <1>1. /\ call \in [Procs -> LockedCalls \cup {NoCall}] /\ pc \in [Procs -> Phases]
        /\ curThread \in [Procs -> Threads \cup {NULL}]
        /\ runThread \in [Procs -> Threads \cup {NULL}]
    BY DEF Base, IInv, TypeOK, HandlerTypes, ThreadTypes
  <1>2. ASSUME NEW q \in Procs, q # p,
               pc'[q] = pc[q], call'[q] = call[q], curThread'[q] = curThread[q]
        PROVE  HandlerSound(q)'
    <2>1. ~Inside(q) /\ HandlerSound(q)
      BY <1>2 DEF ThreadsInv, RestInv, HandlersSound
    <2>2. pc[q] = "blocked" /\ call[q].f = "join" =>
              /\ call[q].th \in Threads /\ runThread'[q] = runThread[q]
      BY <1>2, CallParts DEF Base, IInv, HandlersHaveThread
    <2>3. pc[q] = "blocked" /\ call[q].f = "join" =>
             status'[call[q].th] # "UNBORN" /\ call[q].th # runThread'[q]
      BY <2>1, <2>2 DEF HandlerSound
    <2> QED BY <1>2, <2>1, <2>3 DEF HandlerSound, Inside
  <1>3. CASE Leave(p)
    <2>1. /\ pc' = [pc EXCEPT ![p] = "run"] /\ call' = [call EXCEPT ![p] = NoCall]
          /\ curThread' = [curThread EXCEPT ![p] = NULL]
      BY <1>3 DEF Leave
    <2>2. pc'[p] = "run" /\ call'[p] = NoCall /\ curThread'[p] = NULL
      BY <1>1, <2>1
    <2>3. HandlerSound(p)'
      BY <2>2 DEF HandlerSound, NoCall
    <2> QED BY <1>1, <1>2, <2>1, <2>3 DEF RestInv, HandlersSound
  <1>4. CASE Attempt(p, c) /\ c.f # "join" /\ runThread'[p] # NULL
    <2>1. /\ pc' = [pc EXCEPT ![p] = "attempt"] /\ call' = [call EXCEPT ![p] = c]
          /\ curThread' = [curThread EXCEPT ![p] = NULL]
      BY <1>4 DEF Attempt, Hold
    <2>2. pc'[p] = "attempt" /\ call'[p] = c /\ curThread'[p] = NULL
      BY <1>1, <2>1
    <2>3. HandlerSound(p)'
      BY <1>4, <2>2 DEF HandlerSound
    <2> QED BY <1>1, <1>2, <2>1, <2>3 DEF RestInv, HandlersSound
  <1>5. CASE Suspend(p, c) /\ (c.f = "join" => Alive(c.th)' /\ c.th # runThread[p])
    <2>1. /\ pc' = [pc EXCEPT ![p] = "choose"] /\ call' = [call EXCEPT ![p] = c]
          /\ curThread' = [curThread EXCEPT ![p] = runThread[p]]
          /\ runThread' = [runThread EXCEPT ![p] = NULL]
      BY <1>5 DEF Suspend, Hold
    <2>2. /\ pc'[p] = "choose" /\ call'[p] = c /\ curThread'[p] = runThread[p]
          /\ runThread'[p] = NULL
      BY <1>1, <2>1
    <2>3. HandlerSound(p)'
      BY <1>5, <2>2 DEF HandlerSound, Alive
    <2> QED BY <1>1, <1>2, <2>1, <2>3 DEF RestInv, HandlersSound
  <1> QED BY <1>3, <1>4, <1>5

LEMMA RestKept ==
    ASSUME Base, ThreadsInv, NEW p \in Procs, NEW c \in Calls, Start(p, c),
           UNCHANGED <<joining, attrVal>>, Survive,
           \A q \in Procs \ {p} :
               pc[q] = "blocked" /\ call[q].f = "join" => runThread'[q] = runThread[q],
           \/ Leave(p)
           \/ Attempt(p, c) /\ c.f # "join" /\ UNCHANGED runThread
           \/ Suspend(p, c) /\ (c.f = "join" => /\ c.th \in Threads /\ c.th # runThread[p]
                                                /\ Alive(c.th))
    PROVE  RestInv'
  <1>1. JoinsSound' /\ NonePreempts'
    BY JoinsKept DEF ThreadsInv, RestInv, NonePreempts
  <1>2. (\A q \in Procs \ {p} : ~Inside(q)) /\ runThread[p] # NULL
    BY Began
  <1>3. \A u \in Threads : status'[u] = "UNBORN" => status[u] = "UNBORN"
    BY DEF Survive
  <1>4. \/ Leave(p)
        \/ Attempt(p, c) /\ c.f # "join" /\ runThread'[p] # NULL
        \/ Suspend(p, c) /\ (c.f = "join" => Alive(c.th)' /\ c.th # runThread[p])
    <2>1. c.f = "join" /\ c.th \in Threads /\ Alive(c.th) => Alive(c.th)'
      BY DEF Survive, Alive
    <2> QED BY <1>2, <2>1
  <1> QED BY <1>1, <1>2, <1>3, <1>4, RestFrame

\* An exception, and a handler that changes no place and returns.
LEMMA FailedThreads ==
    ASSUME ThreadsInv, NEW why, Fail(why), UNCHANGED syncVars
    PROVE  ThreadsInv'
  <1>1. /\ UNCHANGED <<runThread, status, readyQueue, joining, attrVal, pc, call, curThread>>
        /\ UNCHANGED <<mutex, sem, cond>>
    BY DEF Fail, syncVars
  <1>2. SameHands
    BY <1>1 DEF SameHands, Hand
  <1>3. WaitQueue' = WaitQueue
    BY <1>1, <1>2, SameWaits DEF SameMutexes, SameSems, SameConds, SameJoining
  <1>4. PlaceInv'
    BY <1>1, <1>3, SamePlaces DEF ThreadsInv
  <1>5. RestInv'
    BY <1>1 DEF ThreadsInv, RestInv, JoinsSound, HandlersSound, HandlerSound, NonePreempts, Alive
  <1> QED BY <1>1, <1>4, <1>5 DEF ThreadsInv, DeadIdle

LEMMA QuietThreads ==
    ASSUME Base, ThreadsInv, NEW p \in Procs, NEW c \in Calls, Start(p, c),
           Leave(p) \/ (Attempt(p, c) /\ c.f # "join"),
           UNCHANGED <<runThread, status, readyQueue, joining, attrVal>>,
           SameMutexes, SameSems, SameConds, DeadIdle'
    PROVE  ThreadsInv'
  <1>1. SameHands
    BY HandsKept
  <1>2. WaitQueue' = WaitQueue
    BY <1>1, SameWaits DEF SameJoining
  <1>3. PlaceInv'
    BY <1>2, SamePlaces DEF ThreadsInv
  <1>4. Survive
    BY DEF Survive
  <1>5. RestInv'
    BY <1>4, RestKept
  <1> QED BY <1>3, <1>5 DEF ThreadsInv

\* A handler that puts its thread to sleep in the queue x.
LEMMA AsleepThreads ==
    ASSUME Base, ThreadsInv, NEW p \in Procs, NEW c \in Calls, Start(p, c), Suspend(p, c),
           c.f # "join", UNCHANGED <<readyQueue, joining, attrVal>>,
           status' = [status EXCEPT ![runThread[p]] = "WAITING"],
           NEW x \in WaitSlots,
           WaitQueue' = [WaitQueue EXCEPT ![x] = Append(@, runThread[p])],
           DeadIdle'
    PROVE  ThreadsInv'
  <1>1. runThread[p] # NULL /\ runThread' = [runThread EXCEPT ![p] = NULL]
    BY Began DEF Suspend
  <1>2. OnProcessors' /\ AtWaits' /\ With("READY")' = With("READY")
    BY <1>1, SleepPlaces DEF Base, ThreadsInv
  <1>3. PlaceInv'
    BY <1>2 DEF PlaceInv, ThreadsInv, InQueues, Holds
  <1>4. Survive
    BY DEF Survive, Base, IInv, TypeOK, ThreadTypes
  <1>5. \A q \in Procs \ {p} : runThread'[q] = runThread[q]
    BY <1>1 DEF Base, IInv, TypeOK, ThreadTypes
  <1>6. RestInv'
    BY <1>4, <1>5, RestKept
  <1> QED BY <1>3, <1>6 DEF ThreadsInv

\* A handler that wakes the first thread of the queue x.
LEMMA WakingThreads ==
    ASSUME Base, ThreadsInv, NEW p \in Procs, NEW c \in Calls, Start(p, c), Attempt(p, c),
           c.f # "join", UNCHANGED <<runThread, joining, attrVal>>,
           NEW x \in WaitSlots, WaitQueue[x] # <<>>, Awake(Head(WaitQueue[x])),
           WaitQueue' = [WaitQueue EXCEPT ![x] = Tail(@)],
           DeadIdle'
    PROVE  ThreadsInv'
  <1>1. PlaceInv'
    BY WakePlaces DEF Base, ThreadsInv
  <1>2. Survive
    BY DEF Survive, Awake, Base, IInv, TypeOK, ThreadTypes
  <1>3. RestInv'
    BY <1>2, RestKept
  <1> QED BY <1>1, <1>3 DEF ThreadsInv

-----------------------------------------------------------------------------
(* Calls on mutexes, semaphores and conditions *)

LEMMA ReleasedQueue ==
    ASSUME IInv, NEW m \in Mutexes
    PROVE  /\ NextOwner(m) # NULL => /\ mutex[m].waiting # <<>>
                                     /\ NextOwner(m) = Head(mutex[m].waiting)
                                     /\ Released(m).waiting = Tail(mutex[m].waiting)
           /\ NextOwner(m) = NULL => Released(m).waiting = mutex[m].waiting
  <1>1. /\ mutex[m] \in MutexRecord /\ mutex[m].waiting \in Seq(Threads) /\ mutex[m].rec \in Nat
    BY DEF IInv, TypeOK, ObjectTypes, MutexRecord
  <1>2. CASE mutex[m].rec > 0
    <2>1. Released(m) = [mutex[m] EXCEPT !.rec = @ - 1] /\ NextOwner(m) = NULL
      BY <1>2 DEF Released, NextOwner
    <2> QED BY <2>1, <1>1 DEF MutexRecord
  <1>3. CASE mutex[m].rec = 0 /\ mutex[m].waiting # <<>>
    <2>1. /\ Released(m) = [mutex[m] EXCEPT !.owner = Head(mutex[m].waiting),
                                            !.waiting = Tail(mutex[m].waiting)]
          /\ NextOwner(m) = Head(mutex[m].waiting)
      BY <1>3 DEF Released, NextOwner
    <2>2. Head(mutex[m].waiting) \in Threads
      BY <1>1, <1>3, HeadTailProperties
    <2>3. NextOwner(m) # NULL
      BY <2>1, <2>2, NullAssumption
    <2> QED BY <1>3, <2>1, <2>3, <1>1 DEF MutexRecord
  <1>4. CASE mutex[m].rec = 0 /\ mutex[m].waiting = <<>>
    <2>1. /\ Released(m) = [mutex[m] EXCEPT !.status = "FREE", !.owner = NULL, !.waiting = <<>>]
          /\ NextOwner(m) = NULL
      BY <1>4 DEF Released, NextOwner
    <2> QED BY <1>4, <2>1, <1>1 DEF MutexRecord
  <1> QED BY <1>1, <1>2, <1>3, <1>4

LEMMA LockMutexThreads ==
    ASSUME Base, ThreadsInv, NEW p \in Procs, NEW m \in Mutexes, NEW nonbl \in BOOLEAN,
           [f |-> IF nonbl THEN "trylock" ELSE "lock", m |-> m] \in Calls,
           LockMutex(p, m, nonbl)
    PROVE  ThreadsInv'
  <1> DEFINE c == [f |-> IF nonbl THEN "trylock" ELSE "lock", m |-> m]
             t == runThread[p]
  <1>1. Start(p, c) /\ c \in Calls /\ c.f # "join" /\ UNCHANGED <<sem, cond>>
    BY DEF LockMutex
  <1>2. mutex \in [Mutexes -> MutexRecord]
    BY DEF Base, IInv, TypeOK, ObjectTypes
  <1>3. SameSems /\ SameConds /\ DeadIdle'
    BY <1>1 DEF SameSems, SameConds, ThreadsInv, DeadIdle
  <1>4. CASE Fail("no such mutex") /\ UNCHANGED mutex
    BY <1>1, <1>4, FailedThreads DEF syncVars
  <1>5. ASSUME Leave(p), UNCHANGED <<runThread, status, attrOf, attrVal, readyQueue, joining, issue>>,
               \/ mutex' = [mutex EXCEPT ![m].rec = @ + 1]
               \/ mutex' = [mutex EXCEPT ![m].status = "LOCKED", ![m].owner = t]
               \/ UNCHANGED mutex
        PROVE  ThreadsInv'
    <2>1. SameMutexes
      <3>1. CASE mutex' = [mutex EXCEPT ![m].rec = @ + 1]
        BY <1>2, <3>1 DEF SameMutexes, MutexRecord
      <3>2. CASE mutex' = [mutex EXCEPT ![m].status = "LOCKED", ![m].owner = t]
        BY <1>2, <3>2 DEF SameMutexes, MutexRecord
      <3>3. CASE UNCHANGED mutex
        BY <3>3 DEF SameMutexes
      <3> QED BY <1>5, <3>1, <3>2, <3>3
    <2>2. Leave(p) /\ UNCHANGED <<runThread, status, readyQueue, joining, attrVal>>
      BY <1>5
    <2>3. Start(p, c) /\ c \in Calls
      BY <1>1
    <2> HIDE DEF c, t
    <2> QED BY <1>3, <2>1, <2>2, <2>3, QuietThreads
  <1>6. CASE /\ mutex' = [mutex EXCEPT ![m].waiting = Append(@, t)]
             /\ status' = [status EXCEPT ![t] = "WAITING"]
             /\ Suspend(p, c)
             /\ UNCHANGED <<attrOf, attrVal, readyQueue, joining, issue>>
    <2> DEFINE x == <<"mutex", m>>
    <2>1. SameHands
      BY <1>1, <1>6, HandsKept
    <2>2. /\ \A n \in Mutexes \ {m} : mutex'[n].waiting = mutex[n].waiting
          /\ mutex'[m].waiting = Append(mutex[m].waiting, t)
      BY <1>2, <1>6 DEF MutexRecord
    <2>3. SameJoining
      BY <1>6 DEF SameJoining
    <2>4. WaitQueue' = [WaitQueue EXCEPT ![x] = mutex'[m].waiting]
      BY <1>3, <2>1, <2>2, <2>3, MutexSlot
    <2>5. x \in WaitSlots /\ WaitQueue[x] = mutex[m].waiting
      BY Slots
    <2>6. WaitQueue' = [WaitQueue EXCEPT ![x] = Append(@, t)]
      BY <2>2, <2>4, <2>5
    <2> HIDE DEF c, x
    <2> QED BY <1>1, <1>3, <1>6, <2>5, <2>6, AsleepThreads
  <1> QED
    BY <1>4, <1>5, <1>6 DEF LockMutex

LEMMA UnLockMutexThreads ==
    ASSUME Base, ThreadsInv, NEW p \in Procs, NEW m \in Mutexes,
           [f |-> "unlock", m |-> m] \in Calls, UnLockMutex(p, m)
    PROVE  ThreadsInv'
  <1> DEFINE c == [f |-> "unlock", m |-> m]
  <1>1. Start(p, c) /\ c \in Calls /\ c.f # "join" /\ UNCHANGED <<sem, cond>>
    BY DEF UnLockMutex
  <1>2. mutex \in [Mutexes -> MutexRecord]
    BY DEF Base, IInv, TypeOK, ObjectTypes
  <1>3. SameSems /\ SameConds /\ DeadIdle'
    BY <1>1 DEF SameSems, SameConds, ThreadsInv, DeadIdle
  <1>4. ASSUME NEW why, Fail(why), UNCHANGED mutex PROVE ThreadsInv'
    BY <1>1, <1>4, FailedThreads DEF syncVars
  <1>5. CASE /\ Leave(p)
             /\ UNCHANGED <<mutex, runThread, status, attrOf, attrVal, readyQueue, joining, issue>>
    <2>1. SameMutexes
      BY <1>5 DEF SameMutexes
    <2> HIDE DEF c
    <2> QED BY <1>1, <1>3, <1>5, <2>1, QuietThreads
  <1>6. CASE /\ mutex' = [mutex EXCEPT ![m] = Released(m)]
             /\ IF NextOwner(m) # NULL
                THEN Awake(NextOwner(m)) /\ Attempt(p, c)
                ELSE Leave(p) /\ UNCHANGED <<status, readyQueue>>
             /\ UNCHANGED <<runThread, attrOf, attrVal, joining, issue>>
    <2>1. /\ \A n \in Mutexes \ {m} : mutex'[n].waiting = mutex[n].waiting
          /\ mutex'[m].waiting = Released(m).waiting
      BY <1>2, <1>6
    <2>2. SameJoining
      BY <1>6 DEF SameJoining
    <2>3. CASE NextOwner(m) = NULL
      <3>1. SameMutexes
        BY <2>1, <2>3, ReleasedQueue DEF SameMutexes, Base
      <3>2. Leave(p) /\ UNCHANGED <<status, readyQueue>>
        BY <1>6, <2>3
      <3> HIDE DEF c
      <3> QED BY <1>1, <1>3, <1>6, <3>1, <3>2, QuietThreads
    <2>4. CASE NextOwner(m) # NULL
      <3> DEFINE x == <<"mutex", m>>
      <3>1. Awake(NextOwner(m)) /\ Attempt(p, c)
        BY <1>6, <2>4
      <3>2. SameHands
        BY <1>1, <3>1, HandsKept
      <3>3. WaitQueue' = [WaitQueue EXCEPT ![x] = mutex'[m].waiting]
        BY <1>3, <2>1, <2>2, <3>2, MutexSlot
      <3>4. x \in WaitSlots /\ WaitQueue[x] = mutex[m].waiting
        BY Slots
      <3>5. /\ WaitQueue[x] # <<>> /\ NextOwner(m) = Head(WaitQueue[x])
            /\ mutex'[m].waiting = Tail(WaitQueue[x])
        BY <2>1, <2>4, <3>4, ReleasedQueue DEF Base
      <3>6. WaitQueue' = [WaitQueue EXCEPT ![x] = Tail(@)]
        BY <3>3, <3>5
      <3> HIDE DEF c, x
      <3> QED BY <1>1, <1>3, <1>6, <3>1, <3>4, <3>5, <3>6, WakingThreads
    <2> QED BY <2>3, <2>4
  <1> QED
    BY <1>4, <1>5, <1>6 DEF UnLockMutex

LEMMA PostSemThreads ==
    ASSUME Base, ThreadsInv, NEW p \in Procs, NEW s \in Sems,
           [f |-> "post", s |-> s] \in Calls, PostSem(p, s)
    PROVE  ThreadsInv'
  <1> DEFINE c == [f |-> "post", s |-> s]
             x == <<"sem", s>>
  <1>1. Start(p, c) /\ c \in Calls /\ c.f # "join" /\ UNCHANGED <<mutex, cond>>
    BY DEF PostSem
  <1>2. sem \in [Sems -> SemRecord]
    BY DEF Base, IInv, TypeOK, ObjectTypes
  <1>3. SameMutexes /\ SameConds
    BY <1>1 DEF SameMutexes, SameConds
  <1>4. CASE Fail("no such semaphore") /\ UNCHANGED sem
    BY <1>1, <1>4, FailedThreads DEF syncVars
  <1>5. CASE /\ sem[s].live
             /\ sem' = [sem EXCEPT ![s] = Posted(sem[s])]
             /\ IF sem[s].waiting # <<>>
                THEN Awake(Head(sem[s].waiting)) /\ Attempt(p, c)
                ELSE Leave(p) /\ UNCHANGED <<status, readyQueue>>
             /\ UNCHANGED <<runThread, attrOf, attrVal, joining, issue>>
    <2>1. /\ \A n \in Sems \ {s} : sem'[n] = sem[n]
          /\ sem'[s].live
          /\ sem'[s].waiting = IF sem[s].waiting # <<>> THEN Tail(sem[s].waiting)
                                                       ELSE sem[s].waiting
      BY <1>2, <1>5 DEF Posted, SemRecord
    <2>2. SameJoining
      BY <1>5 DEF SameJoining
    <2>3. DeadIdle'
      BY <1>1, <2>1 DEF ThreadsInv, DeadIdle
    <2>4. CASE sem[s].waiting = <<>>
      <3>1. SameSems
        BY <2>1, <2>4 DEF SameSems
      <3> HIDE DEF c
      <3> QED BY <1>1, <1>3, <1>5, <2>3, <2>4, <3>1, QuietThreads
    <2>5. CASE sem[s].waiting # <<>>
      <3>1. SameHands
        BY <1>1, <1>5, <2>5, HandsKept
      <3>2. WaitQueue' = [WaitQueue EXCEPT ![x] = sem'[s].waiting]
        BY <1>3, <2>1, <2>2, <3>1, SemSlot
      <3>3. x \in WaitSlots /\ WaitQueue[x] = sem[s].waiting
        BY Slots
      <3>4. WaitQueue' = [WaitQueue EXCEPT ![x] = Tail(@)]
        BY <2>1, <2>5, <3>2, <3>3
      <3> HIDE DEF c, x
      <3> QED BY <1>1, <1>5, <2>3, <2>5, <3>3, <3>4, WakingThreads
    <2> QED BY <2>4, <2>5
  <1> QED
    BY <1>4, <1>5 DEF PostSem

LEMMA WaitSemThreads ==
    ASSUME Base, ThreadsInv, NEW p \in Procs, NEW s \in Sems,
           [f |-> "semwait", s |-> s] \in Calls, WaitSem(p, s)
    PROVE  ThreadsInv'
  <1> DEFINE c == [f |-> "semwait", s |-> s]
             x == <<"sem", s>>
             t == runThread[p]
  <1>1. Start(p, c) /\ c \in Calls /\ c.f # "join" /\ UNCHANGED <<mutex, cond>>
    BY DEF WaitSem
  <1>2. sem \in [Sems -> SemRecord]
    BY DEF Base, IInv, TypeOK, ObjectTypes
  <1>3. SameMutexes /\ SameConds
    BY <1>1 DEF SameMutexes, SameConds
  <1>4. CASE Fail("no such semaphore") /\ UNCHANGED sem
    BY <1>1, <1>4, FailedThreads DEF syncVars
  <1>5. CASE /\ sem[s].live
             /\ sem' = [sem EXCEPT ![s].value = @ - 1]
             /\ Leave(p)
             /\ UNCHANGED <<runThread, status, attrOf, attrVal, readyQueue, joining, issue>>
    <2>1. \A n \in Sems : sem'[n].waiting = sem[n].waiting /\ sem'[n].live = sem[n].live
      BY <1>2, <1>5 DEF SemRecord
    <2>2. DeadIdle' /\ SameSems
      BY <1>1, <2>1 DEF ThreadsInv, DeadIdle, SameSems
    <2> HIDE DEF c
    <2> QED BY <1>1, <1>3, <1>5, <2>2, QuietThreads
  <1>6. CASE /\ sem[s].live
             /\ sem' = [sem EXCEPT ![s].waiting = Append(@, t)]
             /\ status' = [status EXCEPT ![t] = "WAITING"]
             /\ Suspend(p, c)
             /\ UNCHANGED <<attrOf, attrVal, readyQueue, joining, issue>>
    <2>1. /\ \A n \in Sems \ {s} : sem'[n] = sem[n]
          /\ sem'[s].waiting = Append(sem[s].waiting, t) /\ sem'[s].live
      BY <1>2, <1>6 DEF SemRecord
    <2>2. DeadIdle'
      BY <1>1, <2>1 DEF ThreadsInv, DeadIdle
    <2>3. SameHands /\ SameJoining
      BY <1>1, <1>6, HandsKept DEF SameJoining
    <2>4. WaitQueue' = [WaitQueue EXCEPT ![x] = sem'[s].waiting]
      BY <1>3, <2>1, <2>3, SemSlot
    <2>5. x \in WaitSlots /\ WaitQueue[x] = sem[s].waiting
      BY Slots
    <2>6. WaitQueue' = [WaitQueue EXCEPT ![x] = Append(@, t)]
      BY <2>1, <2>4, <2>5
    <2> HIDE DEF c, x
    <2> QED BY <1>1, <1>6, <2>2, <2>5, <2>6, AsleepThreads
  <1> QED
    BY <1>4, <1>5, <1>6 DEF WaitSem

\* What lockConditionMutex does to the queue of the mutex.
LEMMA CondLockedQueue ==
    ASSUME NEW x \in MutexRecord, NEW t \in Threads
    PROVE  CondLocked(x, t).waiting = IF GetsMutex(x, t) THEN x.waiting ELSE Append(x.waiting, t)
  BY DEF CondLocked, GetsMutex, MutexRecord

\* A signal moves the first sleeper, a broadcast all of them, to the queue of the
\* mutex, but for the first one if the mutex is free.
LEMMA SignalCondThreads ==
    ASSUME Base, ThreadsInv, NEW p \in Procs, NEW k \in Conds, NEW broadcast \in BOOLEAN,
           [f |-> IF broadcast THEN "broadcast" ELSE "signal", c |-> k] \in Calls,
           SignalCond(p, k, broadcast)
    PROVE  ThreadsInv'
  <1> DEFINE c     == [f |-> IF broadcast THEN "broadcast" ELSE "signal", c |-> k]
             m     == cond[k].mutex
             q     == cond[k].waiting
             first == Head(q)
             rest  == Tail(q)
             taken == CondLocked(mutex[m], first)
             gets  == GetsMutex(mutex[m], first)
             x     == <<"cond", k>>
             y     == <<"mutex", m>>
             W     == With("WAITING")
  <1>1. Start(p, c) /\ c \in Calls /\ c.f # "join" /\ UNCHANGED sem
    BY DEF SignalCond
  <1>2. mutex \in [Mutexes -> MutexRecord] /\ cond \in [Conds -> CondRecord]
    BY DEF Base, IInv, TypeOK, ObjectTypes
  <1>3. ASSUME NEW why, Fail(why), UNCHANGED <<mutex, cond>> PROVE ThreadsInv'
    BY <1>1, <1>3, FailedThreads DEF syncVars
  <1>4. CASE /\ Attempt(p, c)
             /\ UNCHANGED <<mutex, cond, status, readyQueue>>
             /\ UNCHANGED <<runThread, attrOf, attrVal, joining, issue>>
    <2>1. SameMutexes /\ SameSems /\ SameConds /\ DeadIdle'
      BY <1>1, <1>4 DEF SameMutexes, SameSems, SameConds, ThreadsInv, DeadIdle
    <2> HIDE DEF c
    <2> QED BY <1>1, <1>4, <2>1, QuietThreads
  <1>5. CASE /\ cond[k].live /\ q # <<>> /\ m # NULL /\ mutex[m].live
             /\ mutex' = [mutex EXCEPT ![m] =
                             IF broadcast THEN [taken EXCEPT !.waiting = @ \o rest] ELSE taken]
             /\ cond' = [cond EXCEPT ![k] = Signalled(cond[k], broadcast)]
             /\ IF gets THEN Awake(first) ELSE UNCHANGED <<status, readyQueue>>
             /\ Attempt(p, c)
             /\ UNCHANGED <<runThread, attrOf, attrVal, joining, issue>>
    <2>1. m \in Mutexes /\ cond[k] \in CondRecord /\ mutex[m] \in MutexRecord
      BY <1>2, <1>5 DEF CondRecord
    <2>2. Holds(WaitQueue, W) /\ x \in DOMAIN WaitQueue /\ y \in DOMAIN WaitQueue /\ x # y
      BY <2>1, Slots DEF ThreadsInv, PlaceInv, AtWaits
    <2>3. WaitQueue[x] = q /\ WaitQueue[y] = mutex[m].waiting
      BY <2>1, Slots
    <2>4. q \in Seq(Threads) /\ IsInjective(q) /\ ToSet(q) \subseteq W
      BY <2>2, <2>3, HoldsFacts
    <2>5. /\ first \in ToSet(q) /\ first \in Threads /\ rest \in Seq(Threads) /\ IsInjective(rest)
          /\ ToSet(rest) = ToSet(q) \ {first}
      BY <1>5, <2>4, TailQueue, QueueBasics
    <2>6. /\ \A n \in Conds \ {k} : cond'[n] = cond[n]
          /\ cond'[k].waiting = (IF broadcast THEN <<>> ELSE rest) /\ cond'[k].live
      BY <1>2, <1>5, <2>1 DEF Signalled, CondRecord
    <2>7. taken.waiting = (IF gets THEN mutex[m].waiting ELSE Append(mutex[m].waiting, first))
      BY <2>1, <2>5, CondLockedQueue
    <2>8. taken \in MutexRecord
      BY <2>1, <2>5, CondLockedType
    <2>9. /\ \A n \in Mutexes \ {m} : mutex'[n].waiting = mutex[n].waiting
          /\ mutex'[m].waiting = (IF broadcast THEN taken.waiting \o rest ELSE taken.waiting)
      BY <1>2, <1>5, <2>1, <2>8 DEF MutexRecord
    <2>10. SameSems /\ SameJoining /\ SameHands
      BY <1>1, <1>5, HandsKept DEF SameSems, SameJoining
    <2>11. DeadIdle'
      BY <1>1, <2>6 DEF ThreadsInv, DeadIdle
    <2>12. WaitQueue' = [[WaitQueue EXCEPT ![x] = cond'[k].waiting] EXCEPT ![y] = mutex'[m].waiting]
      <3>1. \A n \in Conds \ {k} : cond'[n].waiting = cond[n].waiting
        BY <2>6
      <3>2. \A n \in Mutexes \ {m} : mutex'[n].waiting = mutex[n].waiting
        BY <2>9
      <3> HIDE DEF m, q, first, rest, taken, gets, W, c
      <3> QED BY <2>1, <2>10, <3>1, <3>2, CondMutexSlots
    <2>13. PlaceInv'
      <3> HIDE DEF q, taken, W, gets
      <3> DEFINE none == [WaitQueue EXCEPT ![x] = <<>>]
                 less == [WaitQueue EXCEPT ![x] = Tail(@)]
      <3>1. CASE ~broadcast /\ gets
        <4>1. mutex'[m].waiting = WaitQueue[y] /\ cond'[k].waiting = Tail(WaitQueue[x])
          BY <2>3, <2>6, <2>7, <2>9, <3>1
        <4>2. WaitQueue' = [WaitQueue EXCEPT ![x] = Tail(@)]
          BY <2>2, <2>12, <4>1
        <4>3. WaitQueue[x] # <<>> /\ Awake(Head(WaitQueue[x]))
          BY <1>5, <2>3, <3>1
        <4>4. x \in WaitSlots /\ UNCHANGED runThread
          BY <1>5, Slots
        <4>5. IInv /\ PlaceInv
          BY DEF Base, ThreadsInv
        <4> HIDE DEF x, first
        <4> QED BY <4>2, <4>3, <4>4, <4>5, WakePlaces
      <3>2. CASE ~broadcast /\ ~gets
        <4>1. mutex'[m].waiting = Append(WaitQueue[y], first) /\ cond'[k].waiting = Tail(WaitQueue[x])
          BY <2>3, <2>6, <2>7, <2>9, <3>2
        <4>2. WaitQueue' = [less EXCEPT ![y] = Append(@, first)]
          BY <2>2, <2>12, <4>1
        <4>3. Holds(less, W \ {first}) /\ y \in DOMAIN less
          BY <1>5, <2>2, <2>3, Popped
        <4> HIDE DEF less, y, first
        <4>4. Holds([less EXCEPT ![y] = Append(@, first)], (W \ {first}) \cup {first})
          BY <2>5, <4>3, Appended
        <4>5. (W \ {first}) \cup {first} = W
          BY <2>4, <2>5
        <4> QED BY <1>5, <3>2, <4>2, <4>4, <4>5, MovePlaces DEF ThreadsInv, W
      <3>3. Holds(none, W \ ToSet(q)) /\ y \in DOMAIN none /\ none[y] = WaitQueue[y]
        BY <2>2, <2>3, Cleared
      <3>4. CASE broadcast /\ gets
        <4>1. mutex'[m].waiting = WaitQueue[y] \o rest /\ cond'[k].waiting = <<>>
          BY <2>3, <2>6, <2>7, <2>9, <3>4
        <4>2. WaitQueue' = [none EXCEPT ![y] = @ \o rest]
          BY <2>2, <2>12, <4>1
        <4> HIDE DEF none, y, first, rest
        <4>3. Holds([none EXCEPT ![y] = @ \o rest], (W \ ToSet(q)) \cup ToSet(rest))
          BY <2>5, <3>3, Extended
        <4>4. (W \ ToSet(q)) \cup ToSet(rest) = W \ {first} /\ first \in W
          BY <2>4, <2>5
        <4> QED BY <1>5, <3>4, <4>2, <4>3, <4>4, AwakePlaces DEF Base, ThreadsInv, W
      <3>5. CASE broadcast /\ ~gets
        <4> DEFINE plus == [none EXCEPT ![y] = Append(@, first)]
        <4>1. /\ mutex'[m].waiting = Append(WaitQueue[y], first) \o rest
              /\ cond'[k].waiting = <<>>
          BY <2>3, <2>6, <2>7, <2>9, <3>5
        <4>2. WaitQueue' = [none EXCEPT ![y] = Append(WaitQueue[y], first) \o rest]
          BY <2>2, <2>12, <4>1
        <4> HIDE DEF none, y, first, rest
        <4>3. WaitQueue' = [plus EXCEPT ![y] = @ \o rest] /\ y \in DOMAIN plus
          BY <3>3, <4>2
        <4>4. Holds(plus, (W \ ToSet(q)) \cup {first})
          BY <2>5, <3>3, Appended
        <4> HIDE DEF plus
        <4>5. Holds([plus EXCEPT ![y] = @ \o rest], ((W \ ToSet(q)) \cup {first}) \cup ToSet(rest))
          BY <2>5, <4>3, <4>4, Extended
        <4>6. ((W \ ToSet(q)) \cup {first}) \cup ToSet(rest) = W
          BY <2>4, <2>5
        <4> QED BY <1>5, <3>5, <4>3, <4>5, <4>6, MovePlaces DEF ThreadsInv, W
      <3> QED BY <3>1, <3>2, <3>4, <3>5
    <2>14. Survive
      BY <1>5 DEF Survive, Awake, Base, IInv, TypeOK, ThreadTypes
    <2>15. RestInv'
      <3> HIDE DEF c
      <3> QED BY <1>1, <1>5, <2>14, RestKept
    <2> QED BY <2>11, <2>13, <2>15 DEF ThreadsInv
  <1> QED
    BY <1>3, <1>4, <1>5 DEF SignalCond

LEMMA WaitCondThreads ==
    ASSUME Base, ThreadsInv, NEW p \in Procs, NEW k \in Conds, NEW m \in Mutexes,
           NEW timed \in BOOLEAN,
           [f |-> IF timed THEN "timedwait" ELSE "wait", c |-> k, m |-> m] \in Calls,
           WaitCond(p, k, m, timed)
    PROVE  ThreadsInv'
  <1> DEFINE c == [f |-> IF timed THEN "timedwait" ELSE "wait", c |-> k, m |-> m]
             t == runThread[p]
             x == <<"cond", k>>
             y == <<"mutex", m>>
  <1>1. Start(p, c) /\ c \in Calls /\ c.f # "join" /\ UNCHANGED sem
    BY DEF WaitCond
  <1>2. mutex \in [Mutexes -> MutexRecord] /\ cond \in [Conds -> CondRecord]
    BY DEF Base, IInv, TypeOK, ObjectTypes
  <1>3. ASSUME NEW why, Fail(why), UNCHANGED <<mutex, cond>> PROVE ThreadsInv'
    BY <1>1, <1>3, FailedThreads DEF syncVars
  <1>4. CASE /\ pc' = [pc EXCEPT ![p] = "run"]
             /\ call' = [call EXCEPT ![p] = NoCall]
             /\ UNCHANGED <<runThread, status, attrOf, attrVal, readyQueue, joining,
                            curThread, scan, issue, mutex, cond>>
    <2>1. \A q \in Procs : ~Inside(q) /\ curThread[q] = NULL
      BY <1>1, Began
    <2>2. SameHands
      BY <1>4, <2>1 DEF SameHands, Hand
    <2>3. SameMutexes /\ SameSems /\ SameConds /\ SameJoining /\ DeadIdle'
      BY <1>1, <1>4 DEF SameMutexes, SameSems, SameConds, SameJoining, ThreadsInv, DeadIdle
    <2>4. PlaceInv'
      BY <1>4, <2>2, <2>3, SameWaits, SamePlaces DEF ThreadsInv
    <2>5. ASSUME NEW q \in Procs PROVE HandlerSound(q)'
      <3>1. HandlerSound(q) /\ pc \in [Procs -> Phases] /\ call \in [Procs -> LockedCalls \cup {NoCall}]
        BY DEF ThreadsInv, RestInv, HandlersSound, Base, IInv, TypeOK, HandlerTypes
      <3>2. CASE q = p
        <4>1. pc'[p] = "run" /\ call'[p] = NoCall /\ curThread'[p] = NULL
          BY <1>4, <2>1, <3>1
        <4> QED BY <3>2, <4>1 DEF HandlerSound, NoCall
      <3>3. CASE q # p
        BY <1>4, <3>1, <3>3 DEF HandlerSound, Alive
      <3> QED BY <3>2, <3>3
    <2>6. JoinsSound' /\ NonePreempts'
      BY <1>4 DEF ThreadsInv, RestInv, JoinsSound, NonePreempts, Alive
    <2> QED BY <2>3, <2>4, <2>5, <2>6 DEF ThreadsInv, RestInv, HandlersSound
  <1>5. CASE /\ cond[k].live
             /\ mutex[m].owner = NULL \/ NextOwner(m) = NULL
             /\ mutex' = IF mutex[m].owner = NULL THEN mutex
                         ELSE [mutex EXCEPT ![m] = Released(m)]
             /\ cond' = [cond EXCEPT ![k].mutex = m, ![k].waiting = Append(@, t)]
             /\ CondEnqueue(p, c)
             /\ UNCHANGED readyQueue
             /\ UNCHANGED <<attrOf, attrVal, joining, issue>>
    <2>1. SameMutexes
      <3>1. CASE mutex' = mutex
        BY <3>1 DEF SameMutexes
      <3>2. CASE NextOwner(m) = NULL /\ mutex' = [mutex EXCEPT ![m] = Released(m)]
        <4>1. Released(m).waiting = mutex[m].waiting
          BY <3>2, ReleasedQueue DEF Base
        <4> QED BY <1>2, <3>2, <4>1 DEF SameMutexes
      <3> QED BY <1>5, <3>1, <3>2
    <2>2. /\ \A n \in Conds \ {k} : cond'[n] = cond[n]
          /\ cond'[k].waiting = Append(cond[k].waiting, t) /\ cond'[k].live
      BY <1>2, <1>5 DEF CondRecord
    <2>3. Suspend(p, c) /\ status' = [status EXCEPT ![t] = "WAITING"]
      BY <1>5 DEF CondEnqueue
    <2>4. SameSems /\ SameJoining /\ SameHands
      BY <1>1, <1>5, <2>3, HandsKept DEF SameSems, SameJoining
    <2>5. DeadIdle'
      BY <1>1, <2>2 DEF ThreadsInv, DeadIdle
    <2>6. WaitQueue' = [WaitQueue EXCEPT ![x] = cond'[k].waiting]
      <3>1. \A n \in Conds \ {k} : cond'[n].waiting = cond[n].waiting
        BY <2>2
      <3> QED BY <2>1, <2>4, <3>1, CondSlot
    <2>7. x \in WaitSlots /\ WaitQueue[x] = cond[k].waiting
      BY Slots
    <2>8. WaitQueue' = [WaitQueue EXCEPT ![x] = Append(@, t)]
      BY <2>2, <2>6, <2>7
    <2> HIDE DEF c, x
    <2> QED BY <1>1, <1>5, <2>3, <2>5, <2>7, <2>8, AsleepThreads
  <1>6. CASE /\ cond[k].live
             /\ NextOwner(m) # NULL
             /\ mutex' = [mutex EXCEPT ![m] = Released(m)]
             /\ cond' = [cond EXCEPT ![k].mutex = m]
             /\ Awake(NextOwner(m))
             /\ Attempt(p, c)
             /\ UNCHANGED runThread
             /\ UNCHANGED <<attrOf, attrVal, joining, issue>>
    <2>1. /\ \A n \in Mutexes \ {m} : mutex'[n].waiting = mutex[n].waiting
          /\ mutex'[m].waiting = Released(m).waiting
      BY <1>2, <1>6
    <2>2. \A n \in Conds : cond'[n].waiting = cond[n].waiting /\ cond'[n].live = cond[n].live
      BY <1>2, <1>6 DEF CondRecord
    <2>3. SameSems /\ SameConds /\ SameJoining /\ SameHands
      BY <1>1, <1>6, <2>2, HandsKept DEF SameSems, SameConds, SameJoining
    <2>4. DeadIdle'
      BY <1>1, <2>2 DEF ThreadsInv, DeadIdle
    <2>5. WaitQueue' = [WaitQueue EXCEPT ![y] = mutex'[m].waiting]
      BY <2>1, <2>3, MutexSlot
    <2>6. y \in WaitSlots /\ WaitQueue[y] = mutex[m].waiting
      BY Slots
    <2>7. /\ WaitQueue[y] # <<>> /\ NextOwner(m) = Head(WaitQueue[y])
          /\ mutex'[m].waiting = Tail(WaitQueue[y])
      BY <1>6, <2>1, <2>6, ReleasedQueue DEF Base
    <2>8. WaitQueue' = [WaitQueue EXCEPT ![y] = Tail(@)]
      BY <2>5, <2>7
    <2> HIDE DEF c, y
    <2> QED BY <1>1, <1>6, <2>4, <2>6, <2>7, <2>8, WakingThreads
  <1> QED
    BY <1>3, <1>4, <1>5, <1>6 DEF WaitCond

\* A handler that was in findReadyThread is the only one there.
LEMMA InsideThreads ==
    ASSUME Base, ThreadsInv, NEW p \in Procs, Inside(p)
    PROVE  /\ call[p] \in Calls
           /\ \A q \in Procs \ {p} : ~Inside(q) /\ curThread[q] = NULL /\ Hand(q) = <<>>
           /\ pc[p] = "attempt" => /\ Hand(p) = <<>> /\ call[p].f # "join"
                                   /\ runThread[p] # NULL /\ curThread[p] = NULL
           /\ pc[p] = "choose" => /\ runThread[p] = NULL /\ curThread[p] \in Threads
                                  /\ call[p] \in LockedCalls
  <1>1. \A q \in Procs \ {p} : ~Inside(q) /\ curThread[q] = NULL
    BY OnlyInside DEF Base, Inside, ThreadsInv, RestInv, HandlersSound, HandlerSound
  <1>2. pc[p] = "attempt" => /\ call[p].f # "join" /\ runThread[p] # NULL /\ curThread[p] = NULL
    BY DEF ThreadsInv, RestInv, HandlersSound, HandlerSound
  <1>3. pc[p] = "choose" => runThread[p] = NULL /\ curThread[p] \in Threads /\ call[p] \in LockedCalls
    BY DEF ThreadsInv, RestInv, HandlersSound, HandlerSound, Base, IInv, HandlersHaveThread,
           TypeOK, HandlerTypes
  <1>4. call[p] \in Calls
    BY DEF ThreadsInv, RestInv, HandlersSound, HandlerSound, Inside
  <1> QED BY <1>1, <1>2, <1>3, <1>4 DEF Hand, Inside

\* The thread that attemptScheduling found and cannot place goes back, in front.
LEMMA OverPlaces ==
    ASSUME IInv, PlaceInv, NEW p \in Procs, AttemptOver(p)
    PROVE  Holds(readyQueue', With("READY"))
  <1>1. Holds(readyQueue, With("READY")) /\ DOMAIN readyQueue = Levels
    BY DEF PlaceInv, InQueues, IInv, TypeOK, ThreadTypes
  <1>2. CASE UNCHANGED readyQueue
    BY <1>1, <1>2 DEF Holds
  <1>3. ASSUME NEW l \in Levels, Top(l),
               readyQueue' = [PopQueue(l) EXCEPT ![0] = <<Found(l)>> \o @]
        PROVE  Holds(readyQueue', With("READY"))
    <2>1. readyQueue' = [[readyQueue EXCEPT ![l] = Tail(@)] EXCEPT ![0] = <<Head(readyQueue[l])>> \o @]
      BY <1>3 DEF PopQueue, Found
    <2>2. readyQueue[l] # <<>>
      BY <1>3 DEF Top
    <2> QED BY <1>1, <2>1, <2>2, RequeuedHolds
  <1> QED BY <1>2, <1>3 DEF AttemptOver

LEMMA WaitCondResumedThreads ==
    ASSUME Base, ThreadsInv, NEW p \in Procs, WaitCondResumed(p)
    PROVE  ThreadsInv'
  <1> DEFINE c == call[p]
             k == c.c
             t == runThread[p]
             x == <<"cond", k>>
  <1>1. /\ pc[p] = "attempt" /\ c.f \in WaitFamily /\ AttemptOver(p)
        /\ cond' = [cond EXCEPT ![k].waiting = Append(@, t)]
        /\ status' = [status EXCEPT ![t] = "WAITING"] /\ Suspend(p, c)
        /\ UNCHANGED <<attrOf, attrVal, joining, issue, mutex, sem>>
    BY DEF WaitCondResumed, CondEnqueue, AttemptOver
  <1>2. /\ c \in CondCalls /\ k \in Conds /\ cond \in [Conds -> CondRecord] /\ cond[k].live
    BY <1>1 DEF Base, IInv, HandlersHaveThread, CondCalls, WaitFamily, TypeOK, ObjectTypes,
                CondInv, FallingAsleepKnowsMutex
  <1>3. /\ c \in Calls /\ c.f # "join" /\ t # NULL /\ Hand(p) = <<>>
        /\ \A q \in Procs \ {p} : ~Inside(q)
    BY <1>1, InsideThreads DEF Inside
  <1>4. SameHands
    <2>1. /\ call' = [call EXCEPT ![p] = c] /\ curThread' = [curThread EXCEPT ![p] = t]
          /\ call \in [Procs -> LockedCalls \cup {NoCall}] /\ curThread \in [Procs -> Threads \cup {NULL}]
      BY <1>1 DEF Suspend, Hold, Base, IInv, TypeOK, HandlerTypes
    <2>2. Hand(p)' = <<>>
      BY <1>3, <2>1 DEF Hand
    <2>3. \A q \in Procs \ {p} : Hand(q)' = Hand(q)
      BY <2>1 DEF Hand
    <2> QED BY <1>3, <2>2, <2>3 DEF SameHands
  <1>5. /\ \A n \in Conds \ {k} : cond'[n] = cond[n]
        /\ cond'[k].waiting = Append(cond[k].waiting, t) /\ cond'[k].live
    BY <1>1, <1>2 DEF CondRecord
  <1>6. SameMutexes /\ SameSems /\ SameJoining /\ DeadIdle'
    BY <1>1, <1>5 DEF SameMutexes, SameSems, SameJoining, ThreadsInv, DeadIdle
  <1>7. WaitQueue' = [WaitQueue EXCEPT ![x] = cond'[k].waiting]
    <2>1. \A n \in Conds \ {k} : cond'[n].waiting = cond[n].waiting
      BY <1>5
    <2> QED BY <1>2, <1>4, <1>6, <2>1, CondSlot
  <1>8. x \in WaitSlots /\ WaitQueue[x] = cond[k].waiting
    BY <1>2, Slots
  <1>9. WaitQueue' = [WaitQueue EXCEPT ![x] = Append(@, t)]
    BY <1>5, <1>7, <1>8
  <1>10. runThread' = [runThread EXCEPT ![p] = NULL]
    BY <1>1 DEF Suspend
  <1>11. OnProcessors' /\ AtWaits' /\ With("READY")' = With("READY")
    <2> HIDE DEF x
    <2> QED BY <1>1, <1>3, <1>8, <1>9, <1>10, SleepPlaces DEF Base, ThreadsInv
  <1>12. InQueues'
    <2>1. Holds(readyQueue', With("READY")')
      BY <1>1, <1>11, OverPlaces DEF Base, ThreadsInv
    <2> QED BY <2>1 DEF InQueues, Holds
  <1>13. RestInv'
    <2>1. /\ status \in [Threads -> {"UNBORN", "READY", "RUNNING", "WAITING", "DEAD"}]
          /\ runThread \in [Procs -> Threads \cup {NULL}]
      BY DEF Base, IInv, TypeOK, ThreadTypes
    <2>2. Survive /\ \A u \in Threads : status'[u] = "UNBORN" => status[u] = "UNBORN"
      BY <1>1, <2>1 DEF Survive
    <2>3. JoinsSound' /\ NonePreempts'
      BY <1>1, <2>2, JoinsKept DEF ThreadsInv, RestInv, NonePreempts
    <2>4. \A q \in Procs \ {p} : runThread'[q] = runThread[q]
      BY <1>10, <2>1
    <2> HIDE DEF c
    <2> QED BY <1>1, <1>3, <2>2, <2>3, <2>4, RestFrame
  <1> QED BY <1>6, <1>11, <1>12, <1>13 DEF ThreadsInv, PlaceInv

LEMMA AttemptedThreads ==
    ASSUME Base, ThreadsInv, NEW p \in Procs, Attempted(p)
    PROVE  ThreadsInv'
  <1>1. /\ pc[p] = "attempt" /\ AttemptOver(p) /\ Leave(p)
        /\ UNCHANGED <<runThread, status, attrOf, attrVal, joining, issue, mutex, sem, cond>>
    BY DEF Attempted, AttemptOver, syncVars
  <1>2. /\ call[p] \in Calls /\ Hand(p) = <<>> /\ \A q \in Procs \ {p} : ~Inside(q)
    BY <1>1, InsideThreads DEF Inside
  <1>3. SameHands
    <2>1. /\ call' = [call EXCEPT ![p] = NoCall] /\ curThread' = [curThread EXCEPT ![p] = NULL]
          /\ call \in [Procs -> LockedCalls \cup {NoCall}] /\ curThread \in [Procs -> Threads \cup {NULL}]
      BY <1>1 DEF Leave, Base, IInv, TypeOK, HandlerTypes
    <2>2. Hand(p)' = <<>>
      BY <2>1 DEF Hand
    <2>3. \A q \in Procs \ {p} : Hand(q)' = Hand(q)
      BY <2>1 DEF Hand
    <2> QED BY <1>2, <2>2, <2>3 DEF SameHands
  <1>4. WaitQueue' = WaitQueue /\ DeadIdle'
    BY <1>1, <1>3, SameWaits DEF SameMutexes, SameSems, SameConds, SameJoining, ThreadsInv, DeadIdle
  <1>5. \A s : With(s)' = With(s)
    BY <1>1 DEF With
  <1>6. OnProcessors'
    BY <1>1, <1>5 DEF OnProcessors, ThreadsInv, PlaceInv
  <1>7. AtWaits'
    BY <1>4, <1>5 DEF AtWaits, ThreadsInv, PlaceInv, Holds
  <1>8. InQueues'
    <2>1. Holds(readyQueue', With("READY")')
      BY <1>1, <1>5, OverPlaces DEF Base, ThreadsInv
    <2> QED BY <2>1 DEF InQueues, Holds
  <1>9. RestInv'
    <2>1. Survive
      BY <1>1 DEF Survive
    <2>2. JoinsSound' /\ NonePreempts'
      BY <1>1, <2>1, JoinsKept DEF ThreadsInv, RestInv, NonePreempts
    <2> QED BY <1>1, <1>2, <2>1, <2>2, RestFrame
  <1> QED BY <1>4, <1>6, <1>7, <1>8, <1>9 DEF ThreadsInv, PlaceInv

-----------------------------------------------------------------------------
(* Calls on threads *)

\* A thread that is born or gives way to one that is leaves joins alone.
LEMMA CreateThreadThreads ==
    ASSUME Base, ThreadsInv, Joinless \/ Unpreemptive, NEW p \in Procs, NEW a \in AttrIds,
           [f |-> "create", attr |-> a] \in Calls, CreateThread(p, a), UNCHANGED syncVars
    PROVE  ThreadsInv'
  <1> DEFINE c == [f |-> "create", attr |-> a]
  <1>1. Start(p, c) /\ c \in Calls /\ Leave(p) /\ UNCHANGED <<attrVal, joining, issue>>
    BY DEF CreateThread
  <1>2. PICK t \in Unborn :
          LET due == [Deadlines EXCEPT ![t] = attrVal[a].deadline] IN
          \/ \E q \in IdleProcs :
                /\ runThread' = [runThread EXCEPT ![q] = t]
                /\ status' = [status EXCEPT ![t] = "RUNNING"]
                /\ UNCHANGED readyQueue
          \/ \E v \in Procs :
                LET old == runThread[v] IN
                /\ IdleProcs = {} /\ Preempts(a, old)
                /\ readyQueue' \in Pushed(readyQueue, Level(old), old, due)
                /\ runThread' = [runThread EXCEPT ![v] = t]
                /\ status' = [status EXCEPT ![t] = "RUNNING", ![old] = "READY"]
          \/ /\ readyQueue' \in
                    Pushed(readyQueue, IF a = DefaultAttr THEN 0 ELSE LevelOf(a), t, due)
             /\ status' = [status EXCEPT ![t] = "READY"]
             /\ UNCHANGED runThread
    BY DEF CreateThread
  <1> DEFINE due == [Deadlines EXCEPT ![t] = attrVal[a].deadline]
  <1>3. /\ runThread \in [Procs -> Threads \cup {NULL}] /\ readyQueue \in [Levels -> Seq(Threads)]
        /\ status \in [Threads -> {"UNBORN", "READY", "RUNNING", "WAITING", "DEAD"}]
        /\ attrOf \in [Threads -> AttrIds] /\ ThreadTypes
    BY DEF Base, IInv, TypeOK, ThreadTypes
  <1>4. t \in Threads /\ t # NULL /\ status[t] = "UNBORN" /\ \A q \in Procs : runThread[q] # t
    BY <1>3, NullAssumption DEF Unborn, ThreadsInv, PlaceInv, OnProcessors, With
  <1>5. Holds(readyQueue, With("READY")) /\ DOMAIN readyQueue = Levels
    BY <1>3 DEF ThreadsInv, PlaceInv, InQueues
  <1>6. WaitQueue' = WaitQueue
    <2> HIDE DEF c
    <2>1. SameHands
      BY <1>1, HandsKept
    <2> QED BY <1>1, <2>1, SameWaits DEF syncVars, SameMutexes, SameSems, SameConds, SameJoining
  <1>7. DeadIdle'
    BY DEF ThreadsInv, DeadIdle, syncVars
  <1>8. ASSUME Survive, OnProcessors', InQueues', With("WAITING")' = With("WAITING"),
               \A q \in Procs \ {p} :
                  pc[q] = "blocked" /\ call[q].f = "join" => runThread'[q] = runThread[q]
        PROVE  ThreadsInv'
    <2>1. AtWaits'
      BY <1>6, <1>8 DEF AtWaits, Holds, ThreadsInv, PlaceInv
    <2>2. RestInv'
      <3> HIDE DEF c
      <3> QED BY <1>1, <1>8, RestKept
    <2> QED BY <1>7, <1>8, <2>1, <2>2 DEF ThreadsInv, PlaceInv
  <1>9. CASE \E q \in IdleProcs :
                /\ runThread' = [runThread EXCEPT ![q] = t]
                /\ status' = [status EXCEPT ![t] = "RUNNING"]
                /\ UNCHANGED readyQueue
    <2>1. PICK v \in IdleProcs :
                /\ runThread' = [runThread EXCEPT ![v] = t]
                /\ status' = [status EXCEPT ![t] = "RUNNING"]
                /\ UNCHANGED readyQueue
      BY <1>9
    <2>2. v \in Procs /\ runThread[v] = NULL
      BY DEF IdleProcs
    <2>3. /\ With("READY")' = With("READY") /\ With("WAITING")' = With("WAITING")
          /\ With("RUNNING")' = With("RUNNING") \cup {t}
      <3>1. status[t] = "UNBORN" /\ status' = [status EXCEPT ![t] = "RUNNING"]
        BY <1>4, <2>1
      <3> QED BY <1>3, <1>4, <3>1 DEF With
    <2>4. runThread'[v] = t /\ \A q \in Procs : q # v => runThread'[q] = runThread[q]
      BY <1>3, <2>1, <2>2
    <2>5. OnProcessors'
      <3>1. OnProcessors
        BY DEF ThreadsInv, PlaceInv
      <3>2. \A q \in Procs : runThread'[q] # NULL => runThread'[q] \in With("RUNNING")'
        BY <2>3, <2>4, <3>1 DEF OnProcessors
      <3>3. \A w \in With("RUNNING")' : \E q \in Procs : runThread'[q] = w
        BY <2>2, <2>3, <2>4, <3>1, NullAssumption DEF OnProcessors, With
      <3>4. \A q, r \in Procs : runThread'[q] = runThread'[r] /\ runThread'[q] # NULL => q = r
        BY <1>4, <2>4, <3>1 DEF OnProcessors
      <3> QED BY <3>2, <3>3, <3>4 DEF OnProcessors
    <2>6. InQueues'
      BY <1>5, <2>1, <2>3 DEF InQueues, Holds
    <2>7. Survive
      BY <1>3, <2>1 DEF Survive
    <2>8. \A q \in Procs \ {p} :
             pc[q] = "blocked" /\ call[q].f = "join" => runThread'[q] = runThread[q]
      BY <2>2, <2>4 DEF Base, IInv, HandlersHaveThread
    <2> QED BY <1>8, <2>3, <2>5, <2>6, <2>7, <2>8
  <1>10. CASE \E v \in Procs :
                /\ IdleProcs = {} /\ Preempts(a, runThread[v])
                /\ readyQueue' \in Pushed(readyQueue, Level(runThread[v]), runThread[v], due)
                /\ runThread' = [runThread EXCEPT ![v] = t]
                /\ status' = [status EXCEPT ![t] = "RUNNING", ![runThread[v]] = "READY"]
    <2>1. PICK v \in Procs :
                /\ IdleProcs = {} /\ Preempts(a, runThread[v])
                /\ readyQueue' \in Pushed(readyQueue, Level(runThread[v]), runThread[v], due)
                /\ runThread' = [runThread EXCEPT ![v] = t]
                /\ status' = [status EXCEPT ![t] = "RUNNING", ![runThread[v]] = "READY"]
      BY <1>10
    <2> DEFINE old == runThread[v]
    <2>2. old \in Threads /\ old # NULL /\ attrOf[old] \in AttrIds
      BY <1>3, <2>1, NullAssumption DEF IdleProcs
    <2>3. status[old] = "RUNNING" /\ \A q \in Procs : q # v => runThread[q] # old
      BY <2>2 DEF ThreadsInv, PlaceInv, OnProcessors, With
    <2>4. /\ With("READY")' = With("READY") \cup {old} /\ With("WAITING")' = With("WAITING")
          /\ With("RUNNING")' = (With("RUNNING") \ {old}) \cup {t} /\ old \notin With("READY")
      BY <1>3, <1>4, <2>1, <2>2, <2>3 DEF With
    <2>5. runThread'[v] = t /\ \A q \in Procs : q # v => runThread'[q] = runThread[q]
      BY <1>3, <2>1
    <2>6. OnProcessors'
      BY <1>4, <2>3, <2>4, <2>5 DEF OnProcessors, ThreadsInv, PlaceInv
    <2>7. InQueues'
      <3>1. Level(old) \in Levels
        BY <1>3, <2>2, LevelType DEF Level
      <3>2. Holds(readyQueue', With("READY") \cup {old})
        <4> HIDE DEF old, due
        <4> QED BY <1>5, <2>1, <2>2, <2>4, <3>1, PushedHolds DEF old
      <3> QED BY <2>4, <3>2 DEF InQueues, Holds
    <2>8. Survive
      BY <1>3, <2>1 DEF Survive
    <2>9. \A q \in Procs : ~(pc[q] = "blocked" /\ call[q].f = "join")
      <3>1. attrVal[attrOf[old]].preemptive
        BY <2>1 DEF Preempts
      <3>2. Joinless
        BY <2>2, <3>1 DEF ThreadsInv, RestInv, NonePreempts
      <3> QED BY <3>2 DEF Joinless, ThreadsInv, RestInv, HandlersSound, HandlerSound
    <2> QED BY <1>8, <2>4, <2>6, <2>7, <2>8, <2>9
  <1>11. CASE /\ readyQueue' \in
                    Pushed(readyQueue, IF a = DefaultAttr THEN 0 ELSE LevelOf(a), t, due)
              /\ status' = [status EXCEPT ![t] = "READY"]
              /\ UNCHANGED runThread
    <2>1. (IF a = DefaultAttr THEN 0 ELSE LevelOf(a)) \in Levels
      BY <1>3, LevelType, PrioAssumption DEF Levels, EdfLevel
    <2>2. /\ With("READY")' = With("READY") \cup {t} /\ With("WAITING")' = With("WAITING")
          /\ With("RUNNING")' = With("RUNNING") /\ t \notin With("READY")
      BY <1>3, <1>4, <1>11 DEF With
    <2>3. OnProcessors'
      BY <1>11, <2>2 DEF OnProcessors, ThreadsInv, PlaceInv
    <2>4. InQueues'
      <3>1. Holds(readyQueue', With("READY") \cup {t})
        <4> HIDE DEF due
        <4> QED BY <1>4, <1>5, <1>11, <2>1, <2>2, PushedHolds
      <3> QED BY <2>2, <3>1 DEF InQueues, Holds
    <2>5. Survive
      BY <1>3, <1>11 DEF Survive
    <2> QED BY <1>8, <1>11, <2>2, <2>3, <2>4, <2>5
  <1> QED BY <1>2, <1>9, <1>10, <1>11

\* The joiners of a thread that ends become ready, each at its own level.
LEMMA ExitThreadThreads ==
    ASSUME Base, ThreadsInv, NEW p \in Procs, [f |-> "exit"] \in Calls,
           ExitThread(p), UNCHANGED syncVars
    PROVE  ThreadsInv'
  <1> DEFINE c == [f |-> "exit"]
             t == runThread[p]
             x == <<"join", t>>
             J == ToSet(joining[t])
  <1>1. /\ Start(p, c) /\ c \in Calls /\ c.f # "join" /\ Suspend(p, c) /\ UNCHANGED <<attrVal, issue>>
        /\ status' = [u \in Threads |-> CASE u \in J -> "READY"
                                          [] u = t /\ u \notin J -> "DEAD"
                                          [] OTHER -> status[u]]
        /\ readyQueue' \in Readied(readyQueue, joining[t])
        /\ joining' = [joining EXCEPT ![t] = <<>>]
    BY DEF ExitThread
  <1>2. /\ runThread \in [Procs -> Threads \cup {NULL}] /\ readyQueue \in [Levels -> Seq(Threads)]
        /\ status \in [Threads -> {"UNBORN", "READY", "RUNNING", "WAITING", "DEAD"}]
        /\ joining \in [Threads -> Seq(Threads)] /\ ThreadTypes
    BY DEF Base, IInv, TypeOK, ThreadTypes
  <1>3. t \in Threads /\ t # NULL /\ status[t] = "RUNNING"
    BY <1>1, Began DEF With
  <1>4. x \in WaitSlots /\ WaitQueue[x] = joining[t] /\ DOMAIN WaitQueue = WaitSlots
    BY <1>3, Slots
  <1>5. joining[t] \in Seq(Threads) /\ IsInjective(joining[t]) /\ J \subseteq With("WAITING")
    <2> HIDE DEF x
    <2>1. Holds(WaitQueue, With("WAITING"))
      BY DEF ThreadsInv, PlaceInv, AtWaits
    <2>2. IsInjective(WaitQueue[x]) /\ ToSet(WaitQueue[x]) \subseteq With("WAITING")
      BY <1>4, <2>1, HoldsFacts
    <2> QED BY <1>2, <1>3, <1>4, <2>2
  <1>6. t \notin J /\ J \cap With("READY") = {}
    BY <1>3, <1>5 DEF With
  <1>7. /\ With("READY")' = With("READY") \cup J /\ With("WAITING")' = With("WAITING") \ J
        /\ With("RUNNING")' = With("RUNNING") \ {t}
    <2> HIDE DEF J, t
    <2> QED BY <1>1, <1>2, <1>3, <1>5, <1>6 DEF With
  <1>8. runThread'[p] = NULL /\ \A q \in Procs : q # p => runThread'[q] = runThread[q] /\ runThread[q] # t
    BY <1>1, <1>2, <1>3 DEF Suspend, ThreadsInv, PlaceInv, OnProcessors
  <1>9. OnProcessors'
    BY <1>3, <1>7, <1>8 DEF OnProcessors, ThreadsInv, PlaceInv
  <1>10. InQueues'
    <2>1. Holds(readyQueue, With("READY")) /\ DOMAIN readyQueue = Levels
      BY <1>2 DEF ThreadsInv, PlaceInv, InQueues
    <2>2. Holds(readyQueue', With("READY") \cup J)
      BY <1>1, <1>2, <1>5, <1>6, <2>1, ReadiedHolds
    <2> QED BY <1>7, <2>2 DEF InQueues, Holds
  <1>11. SameMutexes /\ SameSems /\ SameConds /\ DeadIdle'
    BY DEF syncVars, SameMutexes, SameSems, SameConds, ThreadsInv, DeadIdle
  <1>12. SameHands
    <2> HIDE DEF c
    <2> QED BY <1>1, HandsKept
  <1>13. joining'[t] = <<>> /\ \A u \in Threads \ {t} : joining'[u] = joining[u]
    BY <1>1, <1>2, <1>3
  <1>14. AtWaits'
    <2>1. WaitQueue' = [WaitQueue EXCEPT ![x] = <<>>]
      <3>1. WaitQueue' = [WaitQueue EXCEPT ![x] = joining'[t]]
        <4> HIDE DEF t, J, c
        <4> QED BY <1>3, <1>11, <1>12, <1>13, JoinSlot DEF x
      <3> QED BY <1>13, <3>1
    <2> HIDE DEF x
    <2>2. Holds([WaitQueue EXCEPT ![x] = <<>>], With("WAITING") \ J)
      BY <1>4, Cleared DEF ThreadsInv, PlaceInv, AtWaits
    <2>3. Holds(WaitQueue', With("WAITING")')
      BY <1>7, <2>1, <2>2
    <2> QED BY <2>3 DEF AtWaits, Holds
  <1>15. RestInv'
    <2>1. \A u \in Threads : /\ status'[u] = "UNBORN" => status[u] = "UNBORN"
                             /\ u # t /\ Alive(u) => Alive(u)'
      <3> HIDE DEF J, t
      <3> QED BY <1>1, <1>2 DEF Alive
    <2>2. JoinsSound'
      <3>1. ASSUME NEW u \in Threads
            PROVE  u \notin ToSet(joining'[u]) /\ (joining'[u] # <<>> => Alive(u)')
        BY <1>13, <2>1, EmptyQueue DEF ThreadsInv, RestInv, JoinsSound
      <3> QED BY <3>1 DEF JoinsSound
    <2>3. NonePreempts'
      BY <1>1 DEF ThreadsInv, RestInv, NonePreempts
    <2>4. \A q \in Procs \ {p} : ~Inside(q)
      BY <1>1, Began
    <2> HIDE DEF c
    <2> QED BY <1>1, <1>8, <2>1, <2>2, <2>3, <2>4, RestFrame
  <1> QED BY <1>9, <1>10, <1>11, <1>14, <1>15 DEF ThreadsInv, PlaceInv

\* A thread that joins one that is alive is in the hands of its handler.
LEMMA JoinThreads ==
    ASSUME Base, ThreadsInv, NEW p \in Procs, NEW u \in Threads,
           [f |-> "join", th |-> u] \in Calls, status[u] # "UNBORN", u # runThread[p],
           Join(p, u), UNCHANGED syncVars
    PROVE  ThreadsInv'
  <1> DEFINE c == [f |-> "join", th |-> u]
             t == runThread[p]
             x == <<"joining", p>>
  <1>1. /\ Start(p, c) /\ c \in Calls /\ c.f = "join" /\ c.th = u
        /\ UNCHANGED <<attrVal, readyQueue, joining, issue>>
    BY DEF Join
  <1>2. SameMutexes /\ SameSems /\ SameConds /\ SameJoining /\ DeadIdle'
    BY <1>1 DEF syncVars, SameMutexes, SameSems, SameConds, SameJoining, ThreadsInv, DeadIdle
  <1>3. CASE Leave(p) /\ UNCHANGED <<runThread, status>>
    <2> HIDE DEF c
    <2> QED BY <1>1, <1>2, <1>3, QuietThreads
  <1>4. CASE /\ status[u] # "DEAD" /\ status' = [status EXCEPT ![t] = "WAITING"] /\ Suspend(p, c)
    <2>1. /\ t \in Threads /\ t # NULL /\ \A q \in Procs : ~Inside(q) /\ Hand(q) = <<>>
      BY <1>1, Began
    <2>2. Hand(p)' = <<t>> /\ \A q \in Procs \ {p} : Hand(q)' = Hand(q)
      <3>1. /\ call' = [call EXCEPT ![p] = c] /\ curThread' = [curThread EXCEPT ![p] = t]
            /\ call \in [Procs -> LockedCalls \cup {NoCall}] /\ curThread \in [Procs -> Threads \cup {NULL}]
        BY <1>4 DEF Suspend, Hold, Base, IInv, TypeOK, HandlerTypes
      <3> HIDE DEF c
      <3> QED BY <1>1, <2>1, <3>1 DEF Hand
    <2>3. x \in WaitSlots /\ WaitQueue[x] = <<>>
      BY <2>1, Slots
    <2>4. WaitQueue' = [WaitQueue EXCEPT ![x] = <<t>>]
      BY <1>2, <2>2, HandSlot
    <2>5. WaitQueue' = [WaitQueue EXCEPT ![x] = Append(@, t)]
      BY <2>3, <2>4
    <2>6. runThread' = [runThread EXCEPT ![p] = NULL]
      BY <1>4 DEF Suspend
    <2>7. OnProcessors' /\ AtWaits' /\ With("READY")' = With("READY")
      <3> HIDE DEF x, c
      <3> QED BY <1>4, <2>1, <2>3, <2>5, <2>6, SleepPlaces DEF Base, ThreadsInv
    <2>8. InQueues'
      BY <1>1, <2>7 DEF InQueues, Holds, ThreadsInv, PlaceInv
    <2>9. Survive
      BY <1>4 DEF Survive, Base, IInv, TypeOK, ThreadTypes
    <2>10. \A q \in Procs \ {p} : runThread'[q] = runThread[q]
      BY <2>6 DEF Base, IInv, TypeOK, ThreadTypes
    <2>11. RestInv'
      <3>1. Alive(u)
        BY <1>4 DEF Alive
      <3> HIDE DEF c
      <3> QED BY <1>1, <1>4, <2>9, <2>10, <3>1, RestKept
    <2> QED BY <1>2, <2>7, <2>8, <2>11 DEF ThreadsInv, PlaceInv
  <1> QED BY <1>3, <1>4 DEF Join

-----------------------------------------------------------------------------
(* findReadyThread returns *)

\* The first thread of a ready queue runs on a processor that was idle.
LEMMA PopPlaces ==
    ASSUME IInv, PlaceInv, NEW q \in Procs, runThread[q] = NULL, NEW l \in Levels, Top(l),
           runThread' = [runThread EXCEPT ![q] = Found(l)],
           status' = [status EXCEPT ![Found(l)] = "RUNNING"],
           readyQueue' = PopQueue(l)
    PROVE  /\ OnProcessors' /\ InQueues' /\ With("WAITING")' = With("WAITING") /\ Survive
           /\ \A r \in Procs : r # q => runThread'[r] = runThread[r]
           /\ runThread'[q] # NULL
  <1> DEFINE t == Found(l)
  <1>1. /\ runThread \in [Procs -> Threads \cup {NULL}] /\ readyQueue \in [Levels -> Seq(Threads)]
        /\ status \in [Threads -> {"UNBORN", "READY", "RUNNING", "WAITING", "DEAD"}]
    BY DEF IInv, TypeOK, ThreadTypes
  <1>2. readyQueue[l] # <<>> /\ t = Head(readyQueue[l]) /\ readyQueue' = [readyQueue EXCEPT ![l] = Tail(@)]
    BY DEF Top, Found, PopQueue
  <1>3. t \in With("READY") /\ Holds(readyQueue', With("READY") \ {t})
    <2>1. Holds(readyQueue, With("READY")) /\ l \in DOMAIN readyQueue
      BY <1>1 DEF PlaceInv, InQueues
    <2>2. /\ Head(readyQueue[l]) \in With("READY")
          /\ Holds([readyQueue EXCEPT ![l] = Tail(@)], With("READY") \ {Head(readyQueue[l])})
      BY <1>2, <2>1, Popped
    <2> QED BY <1>2, <2>2
  <1>4. t \in Threads /\ status[t] = "READY" /\ t # NULL
    BY <1>3, NullAssumption DEF With
  <1> HIDE DEF t
  <1>5. status' = [status EXCEPT ![t] = "RUNNING"] /\ runThread' = [runThread EXCEPT ![q] = t]
    BY DEF t
  <1>6. /\ With("READY")' = With("READY") \ {t} /\ With("WAITING")' = With("WAITING")
        /\ With("RUNNING")' = With("RUNNING") \cup {t} /\ t \notin With("RUNNING")
    BY <1>1, <1>4, <1>5 DEF With
  <1>7. runThread'[q] = t /\ \A r \in Procs : r # q => runThread'[r] = runThread[r]
    BY <1>1, <1>5
  <1>8. OnProcessors'
    <2>1. OnProcessors
      BY DEF PlaceInv
    <2>2. \A r \in Procs : runThread'[r] # NULL => runThread'[r] \in With("RUNNING")'
      BY <1>6, <1>7, <2>1 DEF OnProcessors
    <2>3. \A w \in With("RUNNING")' : \E r \in Procs : runThread'[r] = w
      <3>1. NULL \notin With("RUNNING")
        BY NullAssumption DEF With
      <3> QED BY <1>6, <1>7, <2>1, <3>1 DEF OnProcessors
    <2>4. \A r, s \in Procs : runThread'[r] = runThread'[s] /\ runThread'[r] # NULL => r = s
      BY <1>4, <1>6, <1>7, <2>1 DEF OnProcessors
    <2> QED BY <2>2, <2>3, <2>4 DEF OnProcessors
  <1>9. InQueues'
    <2>1. Holds(readyQueue', With("READY")')
      BY <1>3, <1>6
    <2> QED BY <2>1 DEF InQueues, Holds
  <1>10. Survive
    BY <1>1, <1>5 DEF Survive
  <1> QED BY <1>4, <1>6, <1>7, <1>8, <1>9, <1>10

\* A handler that gave up its processor ends: who joins enters the list of another,
\* and the processor runs the thread that was found, if any.
LEMMA ChosenThreads ==
    ASSUME Base, ThreadsInv, \A d \in Calls : d.f # "joinAll",
           NEW p \in Procs, Chosen(p), UNCHANGED syncVars
    PROVE  ThreadsInv'
  <1> DEFINE c == call[p]
             t == curThread[p]
             x == <<"joining", p>>
  <1>1. CASE Fail("deadlock")
    BY <1>1, FailedThreads
  <1>2. CASE /\ \/ UNCHANGED <<runThread, status, readyQueue>>
                \/ \E l \in Levels :
                      /\ Top(l)
                      /\ runThread' = [runThread EXCEPT ![p] = Found(l)]
                      /\ status' = [status EXCEPT ![Found(l)] = "RUNNING"]
                      /\ readyQueue' = PopQueue(l)
             /\ joining' = Joined(p) /\ Leave(p) /\ UNCHANGED attrVal
    <2>1. /\ c \in Calls /\ c \in LockedCalls /\ runThread[p] = NULL /\ t \in Threads
          /\ \A q \in Procs \ {p} : ~Inside(q) /\ Hand(q) = <<>>
      BY InsideThreads DEF Chosen, Inside
    <2>2. OnProcessors' /\ InQueues' /\ With("WAITING")' = With("WAITING") /\ Survive
          /\ \A q \in Procs \ {p} : runThread'[q] = runThread[q]
      <3>1. CASE UNCHANGED <<runThread, status, readyQueue>>
        BY <3>1 DEF OnProcessors, InQueues, Holds, With, Survive, ThreadsInv, PlaceInv
      <3>2. ASSUME NEW l \in Levels,
                   /\ Top(l)
                   /\ runThread' = [runThread EXCEPT ![p] = Found(l)]
                   /\ status' = [status EXCEPT ![Found(l)] = "RUNNING"]
                   /\ readyQueue' = PopQueue(l)
            PROVE  OnProcessors' /\ InQueues' /\ With("WAITING")' = With("WAITING") /\ Survive
                   /\ \A q \in Procs \ {p} : runThread'[q] = runThread[q]
        BY <2>1, <3>2, PopPlaces DEF Base, ThreadsInv
      <3> QED BY <1>2, <3>1, <3>2
    <2>3. SameMutexes /\ SameSems /\ SameConds /\ DeadIdle'
      BY DEF syncVars, SameMutexes, SameSems, SameConds, ThreadsInv, DeadIdle
    <2>4. Hand(p)' = <<>> /\ \A q \in Procs \ {p} : Hand(q)' = Hand(q)
      <3>1. /\ call' = [call EXCEPT ![p] = NoCall] /\ curThread' = [curThread EXCEPT ![p] = NULL]
            /\ call \in [Procs -> LockedCalls \cup {NoCall}] /\ curThread \in [Procs -> Threads \cup {NULL}]
        BY <1>2 DEF Leave, Base, IInv, TypeOK, HandlerTypes
      <3> QED BY <3>1 DEF Hand
    <2>5. AtWaits' /\ JoinsSound'
      <3>1. CASE c.f # "join"
        <4>1. joining' = joining
          BY <1>2, <2>1, <3>1 DEF Joined
        <4>2. Hand(p) = <<>>
          BY <3>1 DEF Hand
        <4>3. WaitQueue' = WaitQueue
          BY <2>3, <2>4, <4>1, <4>2, SameWaits DEF SameHands, SameJoining
        <4>4. AtWaits'
          BY <2>2, <4>3 DEF AtWaits, Holds, ThreadsInv, PlaceInv
        <4>5. JoinsSound'
          BY <2>2, <4>1, JoinsKept DEF ThreadsInv, RestInv
        <4> QED BY <4>4, <4>5
      <3>2. CASE c.f = "join"
        <4>0. PICK u \in Threads : u = c.th
          BY <2>1, <3>2, CallParts
        <4> DEFINE y == <<"join", u>>
                   Q == [WaitQueue EXCEPT ![x] = <<>>]
                   W == With("WAITING")
        <4>1. u \in Threads /\ Alive(u) /\ u # t
          BY <2>1, <3>2, <4>0 DEF Chosen, ThreadsInv, RestInv, HandlersSound, HandlerSound
        <4>2. joining' = [joining EXCEPT ![u] = Append(@, t)]
          BY <1>2, <3>2, <4>0 DEF Joined
        <4>3. joining \in [Threads -> Seq(Threads)]
          BY DEF Base, IInv, TypeOK, ThreadTypes
        <4>4. joining'[u] = Append(joining[u], t) /\ \A w \in Threads \ {u} : joining'[w] = joining[w]
          BY <4>1, <4>2, <4>3
        <4>5. WaitQueue' = [[WaitQueue EXCEPT ![x] = Hand(p)'] EXCEPT ![y] = joining'[u]]
          BY <2>3, <2>4, <4>1, <4>4, HandJoinSlots
        <4>6. /\ x \in WaitSlots /\ y \in WaitSlots /\ x # y /\ DOMAIN WaitQueue = WaitSlots
              /\ WaitQueue[x] = Hand(p) /\ WaitQueue[y] = joining[u]
          BY <4>1, Slots
        <4>7. Hand(p) = <<t>>
          BY <2>1, <3>2, NullAssumption DEF Hand
        <4> HIDE DEF x, y
        <4>8. WaitQueue' = [Q EXCEPT ![y] = Append(@, t)] /\ y \in DOMAIN Q
          BY <2>4, <4>4, <4>5, <4>6
        <4>9. Holds(Q, W \ {t})
          <5>1. Holds(WaitQueue, W)
            BY DEF ThreadsInv, PlaceInv, AtWaits
          <5>2. Holds(Q, W \ ToSet(WaitQueue[x]))
            BY <4>6, <5>1, Cleared
          <5>3. ToSet(WaitQueue[x]) = {t}
            BY <2>1, <4>6, <4>7, OneQueue
          <5> QED BY <5>2, <5>3
        <4>10. t \in W
          <5>1. Holds(WaitQueue, W)
            BY DEF ThreadsInv, PlaceInv, AtWaits
          <5>2. ToSet(WaitQueue[x]) \subseteq W
            BY <4>6, <5>1, HoldsFacts
          <5>3. ToSet(WaitQueue[x]) = {t}
            BY <2>1, <4>6, <4>7, OneQueue
          <5> QED BY <5>2, <5>3
        <4> HIDE DEF Q, W
        <4>11. Holds([Q EXCEPT ![y] = Append(@, t)], (W \ {t}) \cup {t})
          BY <2>1, <4>8, <4>9, Appended
        <4>12. AtWaits'
          <5>1. With("WAITING")' = (W \ {t}) \cup {t}
            BY <2>2, <4>10 DEF W
          <5>2. Holds(WaitQueue', With("WAITING")')
            BY <4>8, <4>11, <5>1
          <5> QED BY <5>2 DEF AtWaits, Holds
        <4>13. JoinsSound'
          <5>1. Alive(u)'
            BY <2>2, <4>1 DEF Alive, Survive
          <5>2. ToSet(joining'[u]) = ToSet(joining[u]) \cup {t}
            <6>1. joining[u] \in Seq(Threads) /\ IsInjective(joining[u]) /\ t \notin ToSet(joining[u])
              <7>1. Holds(WaitQueue, W)
                BY DEF ThreadsInv, PlaceInv, AtWaits, W
              <7>2. /\ WaitQueue[y] \in Seq(Threads) /\ IsInjective(WaitQueue[y])
                    /\ ToSet(WaitQueue[x]) \cap ToSet(WaitQueue[y]) = {}
                BY <4>6, <7>1 DEF Holds
              <7>3. ToSet(WaitQueue[x]) = {t}
                BY <2>1, <4>6, <4>7, OneQueue
              <7> QED BY <4>6, <7>2, <7>3
            <6> QED BY <2>1, <4>4, <6>1, AppendQueue
          <5>3. ASSUME NEW w \in Threads, w # u
                PROVE  w \notin ToSet(joining'[w]) /\ (joining'[w] # <<>> => Alive(w)')
            BY <2>2, <4>4, <5>3 DEF ThreadsInv, RestInv, JoinsSound, Alive, Survive
          <5>4. u \notin ToSet(joining'[u])
            BY <4>1, <5>2 DEF ThreadsInv, RestInv, JoinsSound
          <5> QED BY <5>1, <5>3, <5>4 DEF JoinsSound
        <4> QED BY <4>12, <4>13
      <3> QED BY <3>1, <3>2
    <2>6. RestInv'
      <3>1. NonePreempts'
        BY <1>2 DEF ThreadsInv, RestInv, NonePreempts
      <3>2. \A w \in Threads : status'[w] = "UNBORN" => status[w] = "UNBORN"
        BY <2>2 DEF Survive
      <3> QED BY <1>2, <2>1, <2>2, <2>5, <3>1, <3>2, RestFrame
    <2> QED BY <2>2, <2>3, <2>5, <2>6 DEF ThreadsInv, PlaceInv
  <1> QED BY <1>1, <1>2 DEF Chosen

LEMMA AttemptNextThreads ==
    ASSUME Base, ThreadsInv, NEW p \in Procs, AttemptNext(p), UNCHANGED syncVars
    PROVE  ThreadsInv'
  <1>1. CASE Fail("deadlock")
    BY <1>1, FailedThreads
  <1>2. ASSUME NEW l \in Levels, NEW q \in FreeProcs(p), Top(l),
               runThread' = [runThread EXCEPT ![q] = Found(l)],
               status' = [status EXCEPT ![Found(l)] = "RUNNING"],
               readyQueue' = PopQueue(l),
               UNCHANGED <<attrOf, attrVal, schedLock, joining, pc, call, curThread, issue>>
        PROVE  ThreadsInv'
    <2>1. q \in Procs /\ runThread[q] = NULL
      BY DEF FreeProcs, Base, IInv, TypeOK, HandlerTypes
    <2>2. /\ OnProcessors' /\ InQueues' /\ With("WAITING")' = With("WAITING") /\ Survive
          /\ \A r \in Procs : r # q => runThread'[r] = runThread[r]
          /\ runThread'[q] # NULL
      BY <1>2, <2>1, PopPlaces DEF Base, ThreadsInv
    <2>3. SameMutexes /\ SameSems /\ SameConds /\ DeadIdle' /\ SameJoining /\ SameHands
      BY <1>2 DEF syncVars, SameMutexes, SameSems, SameConds, ThreadsInv, DeadIdle, SameJoining,
                  SameHands, Hand
    <2>4. AtWaits'
      BY <2>2, <2>3, SameWaits DEF AtWaits, Holds, ThreadsInv, PlaceInv
    <2>5. JoinsSound' /\ NonePreempts'
      BY <1>2, <2>2, JoinsKept DEF ThreadsInv, RestInv, NonePreempts
    <2>6. ASSUME NEW r \in Procs PROVE HandlerSound(r)'
      <3>1. HandlerSound(r) /\ pc[p] = "attempt"
        BY DEF ThreadsInv, RestInv, HandlersSound, AttemptNext
      <3>2. pc[r] # "choose" \/ r = p
        BY <3>1, OnlyInside DEF Base, Inside
      <3>3. pc[r] = "blocked" => r # q
        BY <2>1 DEF Base, IInv, HandlersHaveThread
      <3>4. pc[r] = "blocked" /\ call[r].f = "join" => call[r].th \in Threads
        BY CallParts DEF Base, IInv, HandlersHaveThread
      <3>5. pc'[r] = pc[r] /\ call'[r] = call[r] /\ curThread'[r] = curThread[r]
        BY <1>2
      <3>6. pc[r] # "choose"
        BY <3>1, <3>2
      <3> QED BY <2>2, <3>1, <3>3, <3>4, <3>5, <3>6 DEF HandlerSound, Survive
    <2> QED BY <2>2, <2>3, <2>4, <2>5, <2>6 DEF ThreadsInv, PlaceInv, RestInv, HandlersSound
  <1> QED BY <1>1, <1>2 DEF AttemptNext

-----------------------------------------------------------------------------
(* Calls that find schedLock busy, and calls that take no lock *)

LEMMA BlockThreads ==
    ASSUME Base, ThreadsInv, NEW p \in Procs, NEW c \in Calls, Block(p, c), UNCHANGED syncVars,
           c.f = "join" => status[c.th] # "UNBORN" /\ c.th # runThread[p]
    PROVE  ThreadsInv'
  <1>1. /\ pc \in [Procs -> Phases] /\ call \in [Procs -> LockedCalls \cup {NoCall}]
        /\ pc' = [pc EXCEPT ![p] = "blocked"] /\ call' = [call EXCEPT ![p] = c] /\ pc[p] = "run"
        /\ UNCHANGED <<runThread, status, attrVal, readyQueue, joining, curThread>>
    BY DEF Base, IInv, TypeOK, HandlerTypes, Block, Executing
  <1>2. curThread[p] = NULL
    BY <1>1 DEF ThreadsInv, RestInv, HandlersSound, HandlerSound
  <1>3. SameHands
    <2>1. Hand(p)' = Hand(p)
      BY <1>1, <1>2 DEF Hand
    <2>2. \A q \in Procs \ {p} : Hand(q)' = Hand(q)
      BY <1>1 DEF Hand
    <2> QED BY <2>1, <2>2 DEF SameHands
  <1>4. SameMutexes /\ SameSems /\ SameConds /\ DeadIdle' /\ SameJoining
    BY <1>1 DEF syncVars, SameMutexes, SameSems, SameConds, ThreadsInv, DeadIdle, SameJoining
  <1>5. PlaceInv'
    BY <1>1, <1>3, <1>4, SameWaits, SamePlaces DEF ThreadsInv
  <1>6. JoinsSound' /\ NonePreempts'
    BY <1>1 DEF ThreadsInv, RestInv, JoinsSound, NonePreempts, Alive
  <1>7. ASSUME NEW q \in Procs PROVE HandlerSound(q)'
    <2>1. HandlerSound(q)
      BY DEF ThreadsInv, RestInv, HandlersSound
    <2>2. CASE q = p
      <3>1. pc'[p] = "blocked" /\ call'[p] = c /\ curThread'[p] = NULL
        BY <1>1, <1>2
      <3> QED BY <1>1, <2>2, <3>1 DEF HandlerSound
    <2>3. CASE q # p
      <3>1. pc'[q] = pc[q] /\ call'[q] = call[q]
        BY <1>1, <2>3
      <3> QED BY <1>1, <2>1, <3>1 DEF HandlerSound, Alive
    <2> QED BY <2>2, <2>3
  <1> QED BY <1>4, <1>5, <1>6, <1>7 DEF ThreadsInv, RestInv, HandlersSound

\* A step that leaves the scheduler and the queues alone.
LEMMA StillThreads ==
    ASSUME ThreadsInv,
           UNCHANGED <<runThread, status, readyQueue, joining, pc, call, curThread>>,
           SameMutexes, SameSems, SameConds, DeadIdle', NonePreempts'
    PROVE  ThreadsInv'
  <1>1. WaitQueue' = WaitQueue
    BY SameWaits DEF SameHands, Hand, SameJoining
  <1>2. PlaceInv'
    BY <1>1, SamePlaces DEF ThreadsInv
  <1>3. JoinsSound' /\ HandlersSound'
    BY DEF ThreadsInv, RestInv, JoinsSound, HandlersSound, HandlerSound, Alive
  <1> QED BY <1>2, <1>3 DEF ThreadsInv, RestInv

LEMMA UnlockedThreads ==
    ASSUME Base, ThreadsInv, Disciplined, NEW p \in Procs, NEW c \in Calls \ LockedCalls,
           Unlocked(p, c)
    PROVE  ThreadsInv'
  <1>1. c \in ObjCalls \cup ParamCalls
    BY CallsAssumption
  <1>2. /\ c.f = "destroyMutex" => c.m \in Mutexes
        /\ c.f = "destroySem" => c.s \in Sems
        /\ c.f = "destroyCond" => c.c \in Conds
        /\ c.f = "setschedparam" => c.th \in Threads /\ c.v \in AttrValues
        /\ c.f = "attr_set" => c.attr \in AttrIds /\ c.v \in AttrValues
    BY <1>1 DEF ObjCalls, ParamCalls
  <1>3. /\ mutex \in [Mutexes -> MutexRecord] /\ sem \in [Sems -> SemRecord]
        /\ cond \in [Conds -> CondRecord] /\ attrVal \in [AttrIds -> AttrRecord]
        /\ attrOf \in [Threads -> AttrIds]
    BY DEF Base, IInv, TypeOK, ObjectTypes, ThreadTypes
  <1>4. /\ \A m \in Mutexes : mutex[m].owner = NULL => mutex[m].waiting = <<>>
        /\ \A m \in Mutexes : ~mutex[m].live => mutex[m].waiting = <<>>
    BY DEF Base, MutexCoherent, Coherent, DeadUnowned
  <1>5. NonePreempts /\ Permitted(p, c)
    BY DEF ThreadsInv, RestInv, Unlocked, MayCall
  <1>6. \A i, S : IsNextId(i, S) => i \notin S
    BY DEF IsNextId, IsFirst
  <1>7. ASSUME NEW why, Fail(why), UNCHANGED syncVars PROVE ThreadsInv'
    BY <1>7, FailedThreads
  <1>8. ASSUME NEW m \in Mutexes, NEW x \in {FreshMutex, NoMutex}, mutex' = [mutex EXCEPT ![m] = x],
               mutex[m].waiting = <<>>, UNCHANGED <<schedVars, sem, cond>>
        PROVE  ThreadsInv'
    <2>1. SameMutexes
      BY <1>3, <1>8 DEF SameMutexes, FreshMutex, NoMutex
    <2>2. SameSems /\ SameConds /\ DeadIdle' /\ NonePreempts'
      BY <1>5, <1>8 DEF SameSems, SameConds, ThreadsInv, DeadIdle, NonePreempts, schedVars
    <2> QED BY <1>8, <2>1, <2>2, StillThreads DEF schedVars
  <1>9. ASSUME NEW s \in Sems, NEW x, x.waiting = <<>>, sem' = [sem EXCEPT ![s] = x],
               sem[s].waiting = <<>>, UNCHANGED <<schedVars, mutex, cond>>
        PROVE  ThreadsInv'
    <2>1. SameSems
      BY <1>3, <1>9 DEF SameSems
    <2>2. SameMutexes /\ SameConds /\ DeadIdle' /\ NonePreempts'
      BY <1>3, <1>5, <1>9 DEF SameMutexes, SameConds, ThreadsInv, DeadIdle, NonePreempts, schedVars
    <2> QED BY <1>9, <2>1, <2>2, StillThreads DEF schedVars
  <1>10. ASSUME NEW k \in Conds, NEW x, x.waiting = <<>>, cond' = [cond EXCEPT ![k] = x],
                cond[k].waiting = <<>>, UNCHANGED <<schedVars, mutex, sem>>
         PROVE  ThreadsInv'
    <2>1. SameConds
      BY <1>3, <1>10 DEF SameConds
    <2>2. SameMutexes /\ SameSems /\ DeadIdle' /\ NonePreempts'
      BY <1>3, <1>5, <1>10 DEF SameMutexes, SameSems, ThreadsInv, DeadIdle, NonePreempts, schedVars
    <2> QED BY <1>10, <2>1, <2>2, StillThreads DEF schedVars
  <1>11. CASE c.f = "createMutex" /\ CreateMutex(p)
    <2>1. PICK m \in Mutexes : IsNextId(m, Live(mutex)) /\ mutex' = [mutex EXCEPT ![m] = FreshMutex]
      BY <1>11 DEF CreateMutex
    <2>2. mutex[m].waiting = <<>>
      BY <1>3, <1>4, <1>6, <2>1 DEF Live
    <2> QED BY <1>8, <1>11, <2>1, <2>2 DEF CreateMutex
  <1>12. CASE c.f = "createSem" /\ CreateSem(p, c.v)
    <2>1. PICK s \in Sems : IsNextId(s, Live(sem)) /\ sem' = [sem EXCEPT ![s] = FreshSem(c.v)]
      BY <1>12 DEF CreateSem
    <2>2. sem[s].waiting = <<>>
      BY <1>3, <1>6, <2>1 DEF Live, ThreadsInv, DeadIdle
    <2>3. FreshSem(c.v).waiting = <<>>
      BY DEF FreshSem
    <2> QED BY <1>9, <1>12, <2>1, <2>2, <2>3 DEF CreateSem
  <1>13. CASE c.f = "createCond" /\ CreateCond(p)
    <2>1. PICK k \in Conds : IsNextId(k, Live(cond)) /\ cond' = [cond EXCEPT ![k] = FreshCond]
      BY <1>13 DEF CreateCond
    <2>2. cond[k].waiting = <<>>
      BY <1>3, <1>6, <2>1 DEF Live, ThreadsInv, DeadIdle
    <2>3. FreshCond.waiting = <<>>
      BY DEF FreshCond
    <2> QED BY <1>10, <1>13, <2>1, <2>2, <2>3 DEF CreateCond
  <1>14. CASE c.f = "destroyMutex" /\ DestroyMutex(p, c.m)
    <2>1. c.m \in Mutexes /\ mutex[c.m].waiting = <<>>
      BY <1>2, <1>4, <1>5, <1>14 DEF Permitted, WaitFamily
    <2> QED BY <1>7, <1>8, <1>14, <2>1 DEF DestroyMutex, syncVars
  <1>15. CASE c.f = "destroySem" /\ DestroySem(p, c.s)
    <2>1. c.s \in Sems /\ sem[c.s].waiting = <<>>
      BY <1>2, <1>5, <1>15 DEF Permitted, WaitFamily
    <2>2. NoSem.waiting = <<>>
      BY DEF NoSem, FreshSem
    <2> QED BY <1>7, <1>9, <1>15, <2>1, <2>2 DEF DestroySem, syncVars
  <1>16. CASE c.f = "destroyCond" /\ DestroyCond(p, c.c)
    <2>1. c.c \in Conds /\ cond[c.c].waiting = <<>>
      BY <1>2, <1>5, <1>16 DEF Permitted, WaitFamily
    <2>2. NoCond.waiting = <<>>
      BY DEF NoCond, FreshCond
    <2> QED BY <1>7, <1>10, <1>16, <2>1, <2>2 DEF DestroyCond, syncVars
  <1>17. ASSUME UNCHANGED <<runThread, status, readyQueue, joining, pc, call, curThread>>,
                UNCHANGED syncVars, NonePreempts'
         PROVE  ThreadsInv'
    <2>1. SameMutexes /\ SameSems /\ SameConds /\ DeadIdle'
      BY <1>17 DEF SameMutexes, SameSems, SameConds, ThreadsInv, DeadIdle, syncVars
    <2> QED BY <1>17, <2>1, StillThreads
  <1>18. CASE c.f = "setschedparam" /\ SetSchedParam(p, c.th, c.v) /\ UNCHANGED syncVars
    <2> DEFINE b == attrOf[c.th]
               v == [c.v EXCEPT !.preemptive = attrVal[b].preemptive]
    <2>1. b \in AttrIds /\ c.v \in AttrRecord
      BY <1>2, <1>3, <1>18, AttrAssumption
    <2>2. v.preemptive = attrVal[b].preemptive
      BY <2>1 DEF AttrRecord
    <2>3. attrVal' = [attrVal EXCEPT ![b] = v]
      BY <1>18 DEF SetSchedParam
    <2> HIDE DEF v, b
    <2>4. \A a \in AttrIds : attrVal'[a].preemptive = attrVal[a].preemptive
      BY <1>3, <2>1, <2>2, <2>3
    <2>5. NonePreempts'
      BY <1>5, <2>4 DEF NonePreempts, Unpreemptive
    <2> QED BY <1>17, <1>18, <2>5 DEF SetSchedParam
  <1>19. CASE c.f = "attr_set" /\ SetAttr(p, c.attr, c.v) /\ UNCHANGED syncVars
    <2>1. attrVal' = [attrVal EXCEPT ![c.attr] = c.v] /\ c.v \in AttrValues
      BY <1>2, <1>19 DEF SetAttr
    <2>2. NonePreempts'
      BY <1>3, <1>5, <2>1 DEF NonePreempts, Unpreemptive
    <2> QED BY <1>17, <1>19, <2>2 DEF SetAttr
  <1> QED
    BY <1>11, <1>12, <1>13, <1>14, <1>15, <1>16, <1>18, <1>19 DEF Unlocked

-----------------------------------------------------------------------------
(* The invariant is inductive *)

\* A call is known by its kind and its parameters.
LEMMA CallShape ==
    ASSUME NEW c \in LockedCalls
    PROVE  /\ c.f = "create" => c = [f |-> "create", attr |-> c.attr] /\ c.attr \in AttrIds
           /\ c.f = "exit" => c = [f |-> "exit"]
           /\ c.f = "join" => c = [f |-> "join", th |-> c.th] /\ c.th \in Threads
           /\ c.f \in {"lock", "trylock", "unlock"} => c = [f |-> c.f, m |-> c.m] /\ c.m \in Mutexes
           /\ c.f \in {"post", "semwait"} => c = [f |-> c.f, s |-> c.s] /\ c.s \in Sems
           /\ c.f \in {"signal", "broadcast"} => c = [f |-> c.f, c |-> c.c] /\ c.c \in Conds
           /\ c.f \in {"wait", "timedwait"} =>
                 c = [f |-> c.f, c |-> c.c, m |-> c.m] /\ c.c \in Conds /\ c.m \in Mutexes
  <1>1. CASE c \in ThreadCalls
    BY <1>1 DEF ThreadCalls
  <1>2. CASE c \in MutexCalls
    BY <1>2 DEF MutexCalls
  <1>3. CASE c \in SemCalls
    BY <1>3 DEF SemCalls
  <1>4. CASE c \in CondCalls
    BY <1>4 DEF CondCalls
  <1> QED BY <1>1, <1>2, <1>3, <1>4 DEF LockedCalls

LEMMA HandleThreads ==
    ASSUME Base, ThreadsInv, Lawful, NEW p \in Procs, NEW c \in Calls, c \in LockedCalls,
           Handle(p, c), c.f = "join" => status[c.th] # "UNBORN" /\ c.th # runThread[p]
    PROVE  ThreadsInv'
  <1>1. CASE c.f = "create" /\ CreateThread(p, c.attr) /\ UNCHANGED syncVars
    <2>1. [f |-> "create", attr |-> c.attr] \in Calls /\ c.attr \in AttrIds
      BY <1>1, CallShape
    <2> QED BY <1>1, <2>1, CreateThreadThreads DEF Lawful
  <1>2. CASE c.f = "exit" /\ ExitThread(p) /\ UNCHANGED syncVars
    <2>1. [f |-> "exit"] \in Calls
      BY <1>2, CallShape
    <2> QED BY <1>2, <2>1, ExitThreadThreads
  <1>3. CASE c.f = "join" /\ Join(p, c.th) /\ UNCHANGED syncVars
    <2>1. [f |-> "join", th |-> c.th] \in Calls /\ c.th \in Threads
      BY <1>3, CallShape
    <2> QED BY <1>3, <2>1, JoinThreads
  <1>4. CASE c.f \in {"lock", "trylock"} /\ LockMutex(p, c.m, c.f = "trylock")
    <2>1. [f |-> IF c.f = "trylock" THEN "trylock" ELSE "lock", m |-> c.m] \in Calls /\ c.m \in Mutexes
      BY <1>4, CallShape
    <2> QED BY <1>4, <2>1, LockMutexThreads
  <1>5. CASE c.f = "unlock" /\ UnLockMutex(p, c.m)
    <2>1. [f |-> "unlock", m |-> c.m] \in Calls /\ c.m \in Mutexes
      BY <1>5, CallShape
    <2> QED BY <1>5, <2>1, UnLockMutexThreads
  <1>6. CASE c.f = "post" /\ PostSem(p, c.s)
    <2>1. [f |-> "post", s |-> c.s] \in Calls /\ c.s \in Sems
      BY <1>6, CallShape
    <2> QED BY <1>6, <2>1, PostSemThreads
  <1>7. CASE c.f = "semwait" /\ WaitSem(p, c.s)
    <2>1. [f |-> "semwait", s |-> c.s] \in Calls /\ c.s \in Sems
      BY <1>7, CallShape
    <2> QED BY <1>7, <2>1, WaitSemThreads
  <1>8. CASE c.f \in {"signal", "broadcast"} /\ SignalCond(p, c.c, c.f = "broadcast")
    <2>1. [f |-> IF c.f = "broadcast" THEN "broadcast" ELSE "signal", c |-> c.c] \in Calls /\ c.c \in Conds
      BY <1>8, CallShape
    <2> QED BY <1>8, <2>1, SignalCondThreads
  <1>9. CASE c.f \in {"wait", "timedwait"} /\ WaitCond(p, c.c, c.m, c.f = "timedwait")
    <2>1. /\ [f |-> IF c.f = "timedwait" THEN "timedwait" ELSE "wait", c |-> c.c, m |-> c.m] \in Calls
          /\ c.c \in Conds /\ c.m \in Mutexes
      BY <1>9, CallShape
    <2> QED BY <1>9, <2>1, WaitCondThreads
  <1> QED
    BY <1>1, <1>2, <1>3, <1>4, <1>5, <1>6, <1>7, <1>8, <1>9 DEF Handle, Lawful

LEMMA ThreadsStep ==
    ASSUME Base, ThreadsInv, Lawful, [Next]_vars
    PROVE  ThreadsInv'
  <1>1. ASSUME NEW p \in Procs, NEW c, MayCall(p, c), c.f = "join"
        PROVE  status[c.th] # "UNBORN" /\ c.th # runThread[p]
    BY <1>1 DEF MayCall, Possible, Permitted, Lawful, WaitFamily
  <1>2. ASSUME NEW p \in Procs, Step(p) PROVE ThreadsInv'
    <2>1. CASE Resume(p)
      <3>1. call[p] \in LockedCalls /\ call[p] \in Calls
        BY <2>1 DEF Resume, Base, IInv, HandlersHaveThread, ThreadsInv, RestInv, HandlersSound,
                    HandlerSound
      <3>2. call[p].f = "join" => status[call[p].th] # "UNBORN" /\ call[p].th # runThread[p]
        BY <2>1 DEF Resume, ThreadsInv, RestInv, HandlersSound, HandlerSound
      <3> QED BY <2>1, <3>1, <3>2, HandleThreads DEF Resume
    <2>2. CASE Chosen(p) /\ UNCHANGED syncVars
      BY <2>2, ChosenThreads DEF Lawful
    <2> QED
      BY <1>2, <2>1, <2>2, AttemptNextThreads, AttemptedThreads, WaitCondResumedThreads DEF Step
  <1>3. ASSUME NEW p \in Procs, NEW c \in Calls \cap LockedCalls, Invoke(p, c)
        PROVE  ThreadsInv'
    BY <1>1, <1>3, HandleThreads DEF Invoke
  <1>4. ASSUME NEW p \in Procs, NEW c \in Calls \cap LockedCalls, Wait(p, c)
        PROVE  ThreadsInv'
    BY <1>1, <1>4, BlockThreads DEF Wait
  <1>5. ASSUME NEW p \in Procs, NEW c \in Calls \ LockedCalls, Unlocked(p, c)
        PROVE  ThreadsInv'
    BY <1>5, UnlockedThreads DEF Lawful
  <1>6. CASE UNCHANGED vars
    <2>1. SameMutexes /\ SameSems /\ SameConds /\ DeadIdle' /\ NonePreempts'
      BY <1>6 DEF vars, syncVars, schedVars, SameMutexes, SameSems, SameConds, ThreadsInv, DeadIdle,
                  RestInv, NonePreempts
    <2> QED BY <1>6, <2>1, StillThreads DEF vars, schedVars
  <1> QED
    BY <1>2, <1>3, <1>4, <1>5, <1>6 DEF Next, Finished

LEMMA ThreadsInitially ==
    ASSUME Init
    PROVE  ThreadsInv
  <1>1. /\ \E first \in Procs : runThread = [p \in Procs |-> IF p = first THEN 0 ELSE NULL]
        /\ status = [t \in Threads |-> IF t = 0 THEN "RUNNING" ELSE "UNBORN"]
        /\ attrVal \in [AttrIds -> AttrValues \cup {DefaultValue}]
        /\ readyQueue = [l \in Levels |-> <<>>]
        /\ joining = [t \in Threads |-> <<>>]
        /\ pc = [p \in Procs |-> "run"]
        /\ curThread = [p \in Procs |-> NULL]
    BY DEF Init, SchedInit
  <1>2. /\ \A m \in Mutexes : mutex[m].waiting = <<>>
        /\ \A s \in Sems : sem[s].waiting = <<>>
        /\ \A k \in Conds : cond[k].waiting = <<>>
    <2>1. \A m \in Mutexes : mutex[m].waiting = <<>>
      BY DEF Init, FreshMutex, NoMutex
    <2>2. \A s \in Sems : sem[s].waiting = <<>>
      BY DEF Init, FreshSem, NoSem
    <2>3. \A k \in Conds : cond[k].waiting = <<>>
      BY DEF Init, FreshCond, NoCond
    <2> QED BY <2>1, <2>2, <2>3
  <1>3. With("RUNNING") = {0} /\ With("READY") = {} /\ With("WAITING") = {}
    BY <1>1, ThreadsAssumption DEF With
  <1>4. OnProcessors
    BY <1>1, <1>3, ThreadsAssumption, NullAssumption DEF OnProcessors
  <1>5. ASSUME NEW Q, \A x \in DOMAIN Q : Q[x] = <<>> PROVE Holds(Q, {})
    BY <1>5, EmptyQueue DEF Holds
  <1>6. InQueues
    BY <1>1, <1>3, <1>5 DEF InQueues
  <1>7. AtWaits
    <2>1. \A p \in Procs : Hand(p) = <<>>
      BY <1>1 DEF Hand
    <2>2. \A x \in WaitSlots : WaitQueue[x] = <<>>
      BY <1>1, <1>2, <2>1, Slots
    <2>3. Holds(WaitQueue, {})
      BY <1>5, <2>2, Slots
    <2> QED BY <1>3, <2>3 DEF AtWaits
  <1>8. JoinsSound
    BY <1>1, EmptyQueue DEF JoinsSound
  <1>9. HandlersSound
    BY <1>1 DEF HandlersSound, HandlerSound
  <1>10. NonePreempts
    <2>1. ~DefaultValue.preemptive
      BY DEF DefaultValue
    <2>2. \A a \in AttrIds : attrVal[a] \in AttrValues \/ attrVal[a] = DefaultValue
      BY <1>1
    <2>3. ASSUME Unpreemptive, NEW a \in AttrIds PROVE ~attrVal[a].preemptive
      <3>1. CASE attrVal[a] \in AttrValues
        BY <2>3, <3>1 DEF Unpreemptive
      <3>2. CASE attrVal[a] = DefaultValue
        BY <2>1, <3>2
      <3> QED BY <2>2, <3>1, <3>2
    <2> QED BY <2>3 DEF NonePreempts
  <1> QED BY <1>2, <1>4, <1>6, <1>7, <1>8, <1>9, <1>10
          DEF ThreadsInv, PlaceInv, RestInv, DeadIdle

\* The places of all threads are as they should be in every program that is lawful.
THEOREM ThreadsKept ==
    ASSUME Lawful
    PROVE  Spec => [](Base /\ ThreadsInv)
  <1>1. Init => MutexCoherent /\ DeadUnowned /\ CondInv /\ ThreadsInv
    <2>1. Init => MutexCoherent /\ DeadUnowned
      BY DEF Init, MutexCoherent, Coherent, FreshMutex, NoMutex, DeadUnowned
    <2>2. Init => CondInv
      BY DEF Init, SchedInit, CondInv, CondKnowsMutex, FallingAsleepKnowsMutex, FreshCond, NoCond
    <2> QED BY <2>1, <2>2, ThreadsInitially
  <1>2. /\ IInv /\ MutexCoherent /\ DeadUnowned /\ CondInv /\ ThreadsInv /\ [Next]_vars
        => MutexCoherent' /\ DeadUnowned' /\ CondInv' /\ ThreadsInv'
    BY MutexCoherentStep, OwnersStep, CondStep, ThreadsStep DEF Base, Lawful
  <1>3. IInv /\ MutexCoherent /\ DeadUnowned /\ CondInv => Base
    BY DEF Base
  <1> QED
    BY <1>1, <1>2, <1>3, Invariance, PTL DEF Spec

-----------------------------------------------------------------------------
(* Every thread in one place *)

\* The place of a waiter, as ThreadInOnePlace writes it.
Spot(x, n) == <<x[1], x[2], IF x[1] = "joining" THEN 0 ELSE n>>

LEMMA WaitPlacesAre ==
    ASSUME Base, ThreadsInv, Lawful, NEW t \in Threads
    PROVE  /\ \A w \in WaitPlaces(t) : \E x \in WaitSlots : \E n \in DOMAIN WaitQueue[x] :
                 WaitQueue[x][n] = t /\ w = Spot(x, n)
           /\ \A x \in WaitSlots : \A n \in DOMAIN WaitQueue[x] :
                 WaitQueue[x][n] = t => Spot(x, n) \in WaitPlaces(t)
  <1>1. \A w : w \in WaitPlaces(t) <=>
           \/ \E m \in Mutexes : \E i \in DOMAIN mutex[m].waiting :
                 mutex[m].waiting[i] = t /\ w = <<"mutex", m, i>>
           \/ \E s \in Sems : \E i \in DOMAIN sem[s].waiting :
                 sem[s].waiting[i] = t /\ w = <<"sem", s, i>>
           \/ \E k \in Conds : \E i \in DOMAIN cond[k].waiting :
                 cond[k].waiting[i] = t /\ w = <<"cond", k, i>>
           \/ \E u \in Threads \ {t} : \E i \in DOMAIN joining[u] :
                 joining[u][i] = t /\ w = <<"join", u, i>>
           \/ \E p \in Procs : /\ curThread[p] = t /\ call[p].f \in {"join", "joinAll"}
                               /\ w = <<"joining", p, 0>>
    BY DEF WaitPlaces, PlacesOf, Indices
  <1>2. \A p \in Procs : curThread[p] = t => call[p].f # "joinAll"
    BY NullAssumption DEF ThreadsInv, RestInv, HandlersSound, HandlerSound, Lawful
  <1>3. \A p \in Procs : \A n : n \in DOMAIN Hand(p) /\ Hand(p)[n] = t <=>
                                n = 1 /\ curThread[p] = t /\ call[p].f = "join"
    BY NullAssumption DEF Hand
  <1>4. ASSUME NEW w \in WaitPlaces(t)
        PROVE  \E x \in WaitSlots : \E n \in DOMAIN WaitQueue[x] :
                  WaitQueue[x][n] = t /\ w = Spot(x, n)
    <2>1. ASSUME NEW m \in Mutexes, NEW i \in DOMAIN mutex[m].waiting,
                 mutex[m].waiting[i] = t, w = <<"mutex", m, i>>
          PROVE  \E x \in WaitSlots : \E n \in DOMAIN WaitQueue[x] :
                    WaitQueue[x][n] = t /\ w = Spot(x, n)
      <3>1. <<"mutex", m>> \in WaitSlots /\ w = Spot(<<"mutex", m>>, i)
        BY <2>1, Slots DEF Spot
      <3> QED BY <2>1, <3>1, Slots
    <2>2. ASSUME NEW s \in Sems, NEW i \in DOMAIN sem[s].waiting,
                 sem[s].waiting[i] = t, w = <<"sem", s, i>>
          PROVE  \E x \in WaitSlots : \E n \in DOMAIN WaitQueue[x] :
                    WaitQueue[x][n] = t /\ w = Spot(x, n)
      <3>1. <<"sem", s>> \in WaitSlots /\ w = Spot(<<"sem", s>>, i)
        BY <2>2, Slots DEF Spot
      <3> QED BY <2>2, <3>1, Slots
    <2>3. ASSUME NEW k \in Conds, NEW i \in DOMAIN cond[k].waiting,
                 cond[k].waiting[i] = t, w = <<"cond", k, i>>
          PROVE  \E x \in WaitSlots : \E n \in DOMAIN WaitQueue[x] :
                    WaitQueue[x][n] = t /\ w = Spot(x, n)
      <3>1. <<"cond", k>> \in WaitSlots /\ w = Spot(<<"cond", k>>, i)
        BY <2>3, Slots DEF Spot
      <3> QED BY <2>3, <3>1, Slots
    <2>4. ASSUME NEW u \in Threads, NEW i \in DOMAIN joining[u],
                 joining[u][i] = t, w = <<"join", u, i>>
          PROVE  \E x \in WaitSlots : \E n \in DOMAIN WaitQueue[x] :
                    WaitQueue[x][n] = t /\ w = Spot(x, n)
      <3>1. <<"join", u>> \in WaitSlots /\ w = Spot(<<"join", u>>, i)
        BY <2>4, Slots DEF Spot
      <3> QED BY <2>4, <3>1, Slots
    <2>5. ASSUME NEW p \in Procs, curThread[p] = t, call[p].f \in {"join", "joinAll"},
                 w = <<"joining", p, 0>>
          PROVE  \E x \in WaitSlots : \E n \in DOMAIN WaitQueue[x] :
                    WaitQueue[x][n] = t /\ w = Spot(x, n)
      <3>1. <<"joining", p>> \in WaitSlots /\ w = Spot(<<"joining", p>>, 1)
        BY <2>5, Slots DEF Spot
      <3>2. 1 \in DOMAIN Hand(p) /\ Hand(p)[1] = t
        BY <1>2, <1>3, <2>5
      <3> QED BY <3>1, <3>2, Slots
    <2> QED BY <1>1, <2>1, <2>2, <2>3, <2>4, <2>5
  <1>5. ASSUME NEW x \in WaitSlots, NEW n \in DOMAIN WaitQueue[x], WaitQueue[x][n] = t
        PROVE  Spot(x, n) \in WaitPlaces(t)
    <2>1. CASE \E m \in Mutexes : x = <<"mutex", m>>
      <3>1. PICK m \in Mutexes : x = <<"mutex", m>>
        BY <2>1
      <3> QED BY <1>1, <1>5, <3>1, Slots DEF Spot
    <2>2. CASE \E s \in Sems : x = <<"sem", s>>
      <3>1. PICK s \in Sems : x = <<"sem", s>>
        BY <2>2
      <3> QED BY <1>1, <1>5, <3>1, Slots DEF Spot
    <2>3. CASE \E k \in Conds : x = <<"cond", k>>
      <3>1. PICK k \in Conds : x = <<"cond", k>>
        BY <2>3
      <3> QED BY <1>1, <1>5, <3>1, Slots DEF Spot
    <2>4. CASE \E u \in Threads : x = <<"join", u>>
      <3>1. PICK u \in Threads : x = <<"join", u>>
        BY <2>4
      <3>2. n \in DOMAIN joining[u] /\ joining[u][n] = t
        BY <1>5, <3>1, Slots
      <3>3. u # t
        BY <3>2, QueueBasics DEF Base, IInv, TypeOK, ThreadTypes, ThreadsInv, RestInv, JoinsSound
      <3> QED BY <1>1, <3>1, <3>2, <3>3 DEF Spot
    <2>5. CASE \E p \in Procs : x = <<"joining", p>>
      <3>1. PICK p \in Procs : x = <<"joining", p>>
        BY <2>5
      <3>2. curThread[p] = t /\ call[p].f = "join"
        BY <1>3, <1>5, <3>1, Slots
      <3> QED BY <1>1, <3>1, <3>2 DEF Spot
    <2> QED BY <2>1, <2>2, <2>3, <2>4, <2>5, Slots
  <1> QED BY <1>4, <1>5

\* Queues that hold each thread once give it one place.
LEMMA OnePlace ==
    ASSUME NEW Q, NEW T, Holds(Q, T), NEW t \in Threads
    PROVE  /\ t \in T => \E x \in DOMAIN Q : \E n \in DOMAIN Q[x] : Q[x][n] = t
           /\ t \notin T => \A x \in DOMAIN Q : \A n \in DOMAIN Q[x] : Q[x][n] # t
           /\ \A x, y \in DOMAIN Q : \A n \in DOMAIN Q[x], k \in DOMAIN Q[y] :
                 Q[x][n] = t /\ Q[y][k] = t => x = y /\ n = k
  <1>1. \A x \in DOMAIN Q : /\ Q[x] \in Seq(Threads) /\ IsInjective(Q[x])
                            /\ \A n \in DOMAIN Q[x] : Q[x][n] \in ToSet(Q[x])
                            /\ \A u \in ToSet(Q[x]) : \E n \in DOMAIN Q[x] : Q[x][n] = u
    BY QueueBasics DEF Holds
  <1>2. \A x, y \in DOMAIN Q : x # y => ToSet(Q[x]) \cap ToSet(Q[y]) = {}
    BY DEF Holds
  <1>3. \A u : u \in T <=> \E x \in DOMAIN Q : u \in ToSet(Q[x])
    BY DEF Holds
  <1>4. ASSUME NEW x \in DOMAIN Q, NEW y \in DOMAIN Q,
               NEW n \in DOMAIN Q[x], NEW k \in DOMAIN Q[y], Q[x][n] = t, Q[y][k] = t
        PROVE  x = y /\ n = k
    <2>1. t \in ToSet(Q[x]) /\ t \in ToSet(Q[y])
      BY <1>1, <1>4
    <2>2. x = y
      BY <1>2, <2>1
    <2> QED BY <1>1, <1>4, <2>2 DEF IsInjective
  <1> QED BY <1>1, <1>3, <1>4

LEMMA PlacesCounted ==
    ASSUME Base, ThreadsInv, Lawful
    PROVE  ThreadInOnePlace
  <1> SUFFICES ASSUME NEW t \in Threads
               PROVE  /\ Cardinality(RunPlaces(t))   = IF status[t] = "RUNNING" THEN 1 ELSE 0
                      /\ Cardinality(ReadyPlaces(t)) = IF status[t] = "READY"   THEN 1 ELSE 0
                      /\ Cardinality(WaitPlaces(t))  = IF status[t] = "WAITING" THEN 1 ELSE 0
                      /\ joining[t] # <<>> => status[t] \notin {"UNBORN", "DEAD"}
    BY DEF ThreadInOnePlace
  <1>1. ASSUME NEW S, NEW s, s \in {"RUNNING", "READY", "WAITING"},
               status[t] = s => \E w : w \in S, status[t] # s => S = {},
               \A v, w \in S : v = w
        PROVE  Cardinality(S) = IF status[t] = s THEN 1 ELSE 0
    <2>1. CASE status[t] = s
      <3>1. PICK w : w \in S
        BY <1>1, <2>1
      <3>2. S = {w}
        BY <1>1, <3>1
      <3> QED BY <2>1, <3>2, FS_Singleton
    <2>2. CASE status[t] # s
      BY <1>1, <2>2, FS_EmptySet
    <2> QED BY <2>1, <2>2
  <1>2. Cardinality(RunPlaces(t)) = IF status[t] = "RUNNING" THEN 1 ELSE 0
    <2>1. \A w : w \in RunPlaces(t) <=> \E p \in Procs : runThread[p] = t /\ w = <<"processor", p, 0>>
      BY DEF RunPlaces
    <2>2. t # NULL /\ (t \in With("RUNNING") <=> status[t] = "RUNNING")
      BY NullAssumption DEF With
    <2>3. status[t] = "RUNNING" => \E w : w \in RunPlaces(t)
      BY <2>1, <2>2 DEF ThreadsInv, PlaceInv, OnProcessors
    <2>4. status[t] # "RUNNING" => RunPlaces(t) = {}
      BY <2>1, <2>2 DEF ThreadsInv, PlaceInv, OnProcessors
    <2>5. \A v, w \in RunPlaces(t) : v = w
      <3>1. \A p, q \in Procs : runThread[p] = t /\ runThread[q] = t => p = q
        BY <2>2 DEF ThreadsInv, PlaceInv, OnProcessors
      <3> QED BY <2>1, <3>1
    <2> QED BY <1>1, <2>3, <2>4, <2>5
  <1>3. Cardinality(ReadyPlaces(t)) = IF status[t] = "READY" THEN 1 ELSE 0
    <2>1. \A w : w \in ReadyPlaces(t) <=>
             \E l \in Levels : \E i \in DOMAIN readyQueue[l] :
                readyQueue[l][i] = t /\ w = <<"ready", l, i>>
      BY DEF ReadyPlaces, PlacesOf, Indices
    <2>2. Holds(readyQueue, With("READY")) /\ DOMAIN readyQueue = Levels
      BY DEF ThreadsInv, PlaceInv, InQueues, Base, IInv, TypeOK, ThreadTypes
    <2>3. /\ t \in With("READY") => \E l \in Levels : \E n \in DOMAIN readyQueue[l] : readyQueue[l][n] = t
          /\ t \notin With("READY") => \A l \in Levels : \A n \in DOMAIN readyQueue[l] : readyQueue[l][n] # t
          /\ \A l, k \in Levels : \A n \in DOMAIN readyQueue[l], i \in DOMAIN readyQueue[k] :
                 readyQueue[l][n] = t /\ readyQueue[k][i] = t => l = k /\ n = i
      BY <2>2, OnePlace
    <2>4. t \in With("READY") <=> status[t] = "READY"
      BY DEF With
    <2>5. status[t] = "READY" => \E w : w \in ReadyPlaces(t)
      <3>1. \A l \in Levels : \A n \in DOMAIN readyQueue[l] :
               readyQueue[l][n] = t => <<"ready", l, n>> \in ReadyPlaces(t)
        BY <2>1
      <3> QED BY <2>3, <2>4, <3>1
    <2>6. status[t] # "READY" => ReadyPlaces(t) = {}
      BY <2>1, <2>3, <2>4
    <2>7. \A v, w \in ReadyPlaces(t) : v = w
      BY <2>1, <2>3
    <2> QED BY <1>1, <2>5, <2>6, <2>7
  <1>4. Cardinality(WaitPlaces(t)) = IF status[t] = "WAITING" THEN 1 ELSE 0
    <2>1. Holds(WaitQueue, With("WAITING")) /\ DOMAIN WaitQueue = WaitSlots
      BY Slots DEF ThreadsInv, PlaceInv, AtWaits
    <2>2. /\ t \in With("WAITING") => \E x \in WaitSlots : \E n \in DOMAIN WaitQueue[x] : WaitQueue[x][n] = t
          /\ t \notin With("WAITING") => \A x \in WaitSlots : \A n \in DOMAIN WaitQueue[x] : WaitQueue[x][n] # t
          /\ \A x, y \in WaitSlots : \A n \in DOMAIN WaitQueue[x], k \in DOMAIN WaitQueue[y] :
                 WaitQueue[x][n] = t /\ WaitQueue[y][k] = t => x = y /\ n = k
      BY <2>1, OnePlace
    <2>3. t \in With("WAITING") <=> status[t] = "WAITING"
      BY DEF With
    <2>4. status[t] = "WAITING" => \E w : w \in WaitPlaces(t)
      BY <2>2, <2>3, WaitPlacesAre
    <2>5. status[t] # "WAITING" => WaitPlaces(t) = {}
      BY <2>2, <2>3, WaitPlacesAre
    <2>6. \A v, w \in WaitPlaces(t) : v = w
      <3> SUFFICES ASSUME NEW v \in WaitPlaces(t), NEW w \in WaitPlaces(t) PROVE v = w
        OBVIOUS
      <3>1. PICK x \in WaitSlots : \E n \in DOMAIN WaitQueue[x] :
                    WaitQueue[x][n] = t /\ v = Spot(x, n)
        BY WaitPlacesAre
      <3>2. PICK y \in WaitSlots : \E k \in DOMAIN WaitQueue[y] :
                    WaitQueue[y][k] = t /\ w = Spot(y, k)
        BY WaitPlacesAre
      <3> QED BY <2>2, <3>1, <3>2
    <2> QED BY <1>1, <2>4, <2>5, <2>6
  <1>5. joining[t] # <<>> => status[t] \notin {"UNBORN", "DEAD"}
    BY DEF ThreadsInv, RestInv, JoinsSound, Alive
  <1> QED BY <1>2, <1>3, <1>4, <1>5

\* No thread is lost and none is in two places, in any lawful program: a wait, a signal,
\* a preemption or an exit moves it to exactly one queue or processor, and whoever is in
\* the joining list of a thread waits for one that is alive.
THEOREM ThreadsInOnePlace ==
    ASSUME Lawful
    PROVE  Spec => []ThreadInOnePlace
  <1>1. Base /\ ThreadsInv => ThreadInOnePlace
    BY PlacesCounted
  <1> QED
    BY <1>1, ThreadsKept, PTL

=============================================================================
