----------------------- MODULE ConcurrencyManager_calls -----------------------
(* What the calls of ConcurrencyManager rely on and leave behind: whoever is ready is  *)
(* taken, a program that can never continue is told so, no call is refused, and the    *)
(* owner of a mutex can release it.  Each theorem has an inductive invariant of its    *)
(* own, on top of the invariants of ConcurrencyManager_proofs, which Sound gathers.    *)
(* The last part shows with all of these that the manager implements PthreadSync.      *)
EXTENDS ConcurrencyManager_proofs

\* The programs in which nobody joins: two threads that join one thread can be left
\* ready beside an idle processor.
NoJoins == \A c \in Calls : c.f \notin {"join", "joinAll"}

-----------------------------------------------------------------------------
(* How a handler ends its first part *)

\* waitCond has found the condition bound to another mutex.
Leaked(p) ==
    /\ schedLock' = TRUE
    /\ pc' = [pc EXCEPT ![p] = "run"]
    /\ call' = [call EXCEPT ![p] = NoCall]
    /\ UNCHANGED <<runThread, status, attrOf, attrVal, readyQueue, joining,
                   curThread, scan, issue, mutex, cond>>

Ends(p, c) ==
    \/ \E why \in Issues \ {"none"} : Fail(why)
    \/ Leave(p) /\ UNCHANGED <<runThread, readyQueue, issue>>
    \/ Suspend(p, c) /\ UNCHANGED <<readyQueue, issue>>
    \/ Attempt(p, c) /\ UNCHANGED <<runThread, issue>>
    \/ Leaked(p)

\* Every handler but those of create and exit ends its first part in one of these ways.
LEMMA HandleEnds ==
    ASSUME NEW p \in Procs, NEW c \in LockedCalls, Handle(p, c),
           c.f \notin {"create", "exit"}
    PROVE  Start(p, c) /\ Ends(p, c) /\ UNCHANGED joining
  <1>1. ASSUME NEW why \in Issues \ {"none"}, Fail(why) PROVE Ends(p, c) /\ UNCHANGED joining
    BY <1>1 DEF Ends, Fail
  <1>2. CASE c.f = "join" /\ Join(p, c.th)
    <2>1. c = [f |-> "join", th |-> c.th]
      BY <1>2, CallShape
    <2> QED BY <1>2, <2>1 DEF Join, Ends
  <1>3. CASE c.f = "joinAll" /\ JoinAll(p)
    <2>1. c = [f |-> "joinAll"]
      BY <1>3 DEF LockedCalls, ThreadCalls, MutexCalls, SemCalls, CondCalls
    <2> QED BY <1>3, <2>1 DEF JoinAll, Ends
  <1>4. CASE c.f \in {"lock", "trylock"} /\ LockMutex(p, c.m, c.f = "trylock")
    <2>1. c = [f |-> IF c.f = "trylock" THEN "trylock" ELSE "lock", m |-> c.m]
      BY <1>4, CallShape
    <2>2. "no such mutex" \in Issues \ {"none"}
      BY DEF Issues
    <2> QED BY <1>1, <1>4, <2>1, <2>2 DEF LockMutex, Ends
  <1>5. CASE c.f = "unlock" /\ UnLockMutex(p, c.m)
    <2>1. c = [f |-> "unlock", m |-> c.m]
      BY <1>5, CallShape
    <2>2. "no such mutex" \in Issues \ {"none"} /\ "not the owner" \in Issues \ {"none"}
      BY DEF Issues
    <2> QED BY <1>1, <1>5, <2>1, <2>2 DEF UnLockMutex, Ends
  <1>6. CASE c.f = "post" /\ PostSem(p, c.s)
    <2>1. c = [f |-> "post", s |-> c.s]
      BY <1>6, CallShape
    <2>2. "no such semaphore" \in Issues \ {"none"}
      BY DEF Issues
    <2> QED BY <1>1, <1>6, <2>1, <2>2 DEF PostSem, Ends
  <1>7. CASE c.f = "semwait" /\ WaitSem(p, c.s)
    <2>1. c = [f |-> "semwait", s |-> c.s]
      BY <1>7, CallShape
    <2>2. "no such semaphore" \in Issues \ {"none"}
      BY DEF Issues
    <2> QED BY <1>1, <1>7, <2>1, <2>2 DEF WaitSem, Ends
  <1>8. CASE c.f \in {"signal", "broadcast"} /\ SignalCond(p, c.c, c.f = "broadcast")
    <2>1. c = [f |-> IF c.f = "broadcast" THEN "broadcast" ELSE "signal", c |-> c.c]
      BY <1>8, CallShape
    <2>2. {"no such condition", "condition without mutex", "no such mutex"} \subseteq Issues \ {"none"}
      BY DEF Issues
    <2> QED BY <1>1, <1>8, <2>1, <2>2 DEF SignalCond, Ends
  <1>9. CASE c.f \in {"wait", "timedwait"} /\ WaitCond(p, c.c, c.m, c.f = "timedwait")
    <2>1. c = [f |-> IF c.f = "timedwait" THEN "timedwait" ELSE "wait", c |-> c.c, m |-> c.m]
      BY <1>9, CallShape
    <2>2. {"no such condition", "not the owner", "no such mutex"} \subseteq Issues \ {"none"}
      BY DEF Issues
    <2> QED BY <1>1, <1>9, <2>1, <2>2 DEF WaitCond, CondEnqueue, Leaked, Ends
  <1> QED
    BY <1>2, <1>3, <1>4, <1>5, <1>6, <1>7, <1>8, <1>9 DEF Handle

-----------------------------------------------------------------------------
(* No processor idles while a thread is ready *)

Busy(Q) == \A q \in Q : runThread[q] # NULL

\* Nobody is ready while a processor idles, except that a handler in findReadyThread may
\* leave its own processor idle, and one in attemptScheduling those it has yet to visit.
IdleInv ==
    /\ \A u \in Threads : joining[u] = <<>>
    /\ ~schedLock => NoneReady \/ Busy(Procs)
    /\ \A p \in Procs :
          /\ pc[p] # "run" => call[p] \in Calls
          /\ pc[p] = "choose"  => NoneReady \/ Busy(Procs \ {p})
          /\ pc[p] = "attempt" => Busy(Procs \ scan[p])

\* A handler that works alone leaves the others as they were.
LEMMA IdleFrame ==
    ASSUME IInv, IdleInv, NEW p \in Procs, NEW c \in Calls,
           \A q \in Procs \ {p} : ~Inside(q),
           UNCHANGED joining,
           \/ Leave(p) /\ (NoneReady \/ Busy(Procs))'
           \/ Hold(p, c, "choose", curThread'[p], {}) /\ (NoneReady \/ Busy(Procs \ {p}))'
           \/ Attempt(p, c) /\ runThread'[p] # NULL
    PROVE  IdleInv'
  <1>1. /\ call \in [Procs -> LockedCalls \cup {NoCall}] /\ pc \in [Procs -> Phases]
        /\ scan \in [Procs -> SUBSET Procs]
    BY DEF IInv, TypeOK, HandlerTypes
  <1>2. \A q \in Procs \ {p} : pc'[q] = pc[q] /\ call'[q] = call[q] /\ pc[q] \in {"run", "blocked"}
    BY <1>1 DEF Leave, Attempt, Hold, Inside, Phases
  <1>3. CASE Leave(p) /\ (NoneReady \/ Busy(Procs))'
    <2>1. pc'[p] = "run" /\ schedLock' = FALSE
      BY <1>1, <1>3 DEF Leave
    <2> QED BY <1>2, <1>3, <2>1 DEF IdleInv
  <1>4. CASE Hold(p, c, "choose", curThread'[p], {}) /\ (NoneReady \/ Busy(Procs \ {p}))'
    <2>1. pc'[p] = "choose" /\ call'[p] = c /\ schedLock' = TRUE
      BY <1>1, <1>4 DEF Hold
    <2> QED BY <1>2, <1>4, <2>1 DEF IdleInv
  <1>5. CASE Attempt(p, c) /\ runThread'[p] # NULL
    <2>1. pc'[p] = "attempt" /\ call'[p] = c /\ schedLock' = TRUE /\ scan'[p] = Procs \ {p}
      BY <1>1, <1>5 DEF Attempt, Hold
    <2>2. Busy(Procs \ scan[p])'
      BY <1>5, <2>1 DEF Busy
    <2> QED BY <1>2, <2>1, <2>2 DEF IdleInv
  <1> QED BY <1>3, <1>4, <1>5

\* The end of a thread nobody has joined leaves the ready queues alone.
LEMMA ReadiedNobody ==
    ASSUME ThreadTypes, NEW new \in Readied(readyQueue, <<>>)
    PROVE  new = readyQueue
  <1> DEFINE grown(l) == { readyQueue[l] \o s : s \in OfLevel(<<>>, l) }
             due(l)   == IF l = EdfLevel /\ \E i \in DOMAIN <<>> : Level(<<>>[i]) = l
                         THEN UNION { DeadlineSorts(q, Deadlines) : q \in grown(l) }
                         ELSE grown(l)
  <1>1. new \in [Levels -> UNION { due(l) : l \in Levels }] /\ \A l \in Levels : new[l] \in due(l)
    BY DEF Readied
  <1>2. ASSUME NEW l \in Levels PROVE new[l] = readyQueue[l]
    <2>1. new[l] \in grown(l)
      <3>1. new[l] \in due(l)
        <4> HIDE DEF due
        <4> QED BY <1>1
      <3>2. ~ \E i \in DOMAIN <<>> : Level(<<>>[i]) = l
        <4>1. DOMAIN <<>> = {}
          OBVIOUS
        <4> QED BY <4>1
      <3> HIDE DEF grown
      <3> QED BY <3>1, <3>2
    <2>2. PICK s \in OfLevel(<<>>, l) : new[l] = readyQueue[l] \o s
      BY <2>1
    <2>3. s = <<>>
      <3>1. s \in Seq(Threads) /\ \A t : t \in ToSet(s) <=> t \in ToSet(<<>>) /\ Level(t) = l
        BY EmptyQueue, OfLevelQueue
      <3>2. ToSet(s) = {}
        BY <3>1, EmptyQueue
      <3> QED BY <3>1, <3>2, EmptyQueue
    <2>4. readyQueue[l] \in Seq(Threads)
      BY DEF ThreadTypes
    <2> QED BY <2>2, <2>3, <2>4
  <1>3. readyQueue = [l \in Levels |-> readyQueue[l]] /\ new = [l \in Levels |-> new[l]]
    BY <1>1 DEF ThreadTypes
  <1> QED BY <1>2, <1>3

LEMMA IdleHandle ==
    ASSUME NoJoins, IInv, IdleInv, NEW p \in Procs, NEW c \in Calls, c \in LockedCalls,
           Handle(p, c)
    PROVE  IdleInv'
  <1>1. PICK d : Start(p, d)
    BY DEF Handle, CreateThread, ExitThread, Join, JoinAll, LockMutex, UnLockMutex,
           PostSem, WaitSem, SignalCond, WaitCond
  <1>2. /\ runThread[p] \in Threads /\ runThread[p] # NULL /\ ~schedLock
        /\ \A q \in Procs : ~Inside(q)
    BY <1>1, Started, NullAssumption DEF Start
  <1>3. /\ runThread \in [Procs -> Threads \cup {NULL}] /\ ThreadTypes
        /\ call \in [Procs -> LockedCalls \cup {NoCall}] /\ pc \in [Procs -> Phases]
    BY DEF IInv, TypeOK, ThreadTypes, HandlerTypes
  <1>4. NoneReady \/ Busy(Procs)
    BY <1>2 DEF IdleInv
  <1>5. ASSUME Suspend(p, c), UNCHANGED <<readyQueue, joining>> PROVE IdleInv'
    <2>1. /\ runThread' = [runThread EXCEPT ![p] = NULL]
          /\ Hold(p, c, "choose", runThread[p], {}) /\ curThread'[p] = runThread[p]
      BY <1>5 DEF Suspend, Hold, IInv, TypeOK, HandlerTypes
    <2>2. (NoneReady \/ Busy(Procs \ {p}))'
      BY <1>3, <1>4, <1>5, <2>1 DEF NoneReady, Busy
    <2> QED BY <1>2, <1>5, <2>1, <2>2, IdleFrame
  <1>6. CASE c.f \notin {"create", "exit"}
    <2>1. Ends(p, c) /\ UNCHANGED joining
      BY <1>6, HandleEnds
    <2>2. CASE \E why \in Issues \ {"none"} : Fail(why)
      BY <2>2 DEF Fail, IdleInv, NoneReady, Busy
    <2>3. CASE Leave(p) /\ UNCHANGED <<runThread, readyQueue, issue>>
      <3>1. (NoneReady \/ Busy(Procs))'
        BY <1>4, <2>3 DEF NoneReady, Busy
      <3> QED BY <1>2, <2>1, <2>3, <3>1, IdleFrame
    <2>4. CASE Suspend(p, c) /\ UNCHANGED <<readyQueue, issue>>
      BY <1>5, <2>1, <2>4
    <2>5. CASE Attempt(p, c) /\ UNCHANGED <<runThread, issue>>
      BY <1>2, <2>1, <2>5, IdleFrame
    <2>6. CASE Leaked(p)
      <3>1. \A q \in Procs : pc'[q] \in {"run", "blocked"}
        BY <1>2, <1>3, <2>6 DEF Leaked, Inside, Phases
      <3>2. \A q \in Procs : pc'[q] # "run" => call'[q] \in Calls
        BY <1>3, <2>6 DEF Leaked, IdleInv
      <3> QED BY <2>1, <2>6, <3>1, <3>2 DEF Leaked, IdleInv
    <2> QED BY <2>1, <2>2, <2>3, <2>4, <2>5, <2>6 DEF Ends
  <1>7. CASE c.f = "create"
    <2>1. CreateThread(p, c.attr)
      BY <1>7 DEF Handle
    <2>2. PICK t \in Unborn :
             \/ \E q \in IdleProcs : /\ runThread' = [runThread EXCEPT ![q] = t]
                                     /\ UNCHANGED readyQueue
             \/ \E v \in Procs : IdleProcs = {} /\ runThread' = [runThread EXCEPT ![v] = t]
             \/ IdleProcs = {} /\ UNCHANGED runThread
      BY <2>1 DEF CreateThread
    <2>3. t # NULL
      BY NullAssumption DEF Unborn
    <2>4. (NoneReady \/ Busy(Procs))'
      <3>1. CASE \E q \in IdleProcs : /\ runThread' = [runThread EXCEPT ![q] = t]
                                     /\ UNCHANGED readyQueue
        BY <1>3, <1>4, <2>3, <3>1 DEF NoneReady, Busy
      <3>2. CASE IdleProcs = {}
        BY <1>3, <2>2, <2>3, <3>2 DEF Busy, IdleProcs
      <3> QED BY <2>2, <3>1, <3>2
    <2>5. Leave(p) /\ UNCHANGED joining
      BY <2>1 DEF CreateThread
    <2> QED BY <1>2, <2>4, <2>5, IdleFrame
  <1>8. CASE c.f = "exit"
    <2>1. /\ ExitThread(p) /\ c = [f |-> "exit"]
      BY <1>8, CallShape DEF Handle
    <2>2. /\ Suspend(p, c) /\ readyQueue' \in Readied(readyQueue, joining[runThread[p]])
          /\ joining' = [joining EXCEPT ![runThread[p]] = <<>>]
      BY <2>1 DEF ExitThread
    <2>3. joining[runThread[p]] = <<>> /\ UNCHANGED joining
      BY <1>2, <1>3, <2>2 DEF IdleInv, ThreadTypes
    <2>4. UNCHANGED readyQueue
      BY <1>3, <2>2, <2>3, ReadiedNobody
    <2> QED BY <1>5, <2>2, <2>3, <2>4
  <1> QED BY <1>6, <1>7, <1>8

LEMMA IdleStep ==
    ASSUME NoJoins, IInv, IdleInv, [Next]_vars
    PROVE  IdleInv'
  <1>1. /\ call \in [Procs -> LockedCalls \cup {NoCall}] /\ pc \in [Procs -> Phases]
        /\ scan \in [Procs -> SUBSET Procs] /\ runThread \in [Procs -> Threads \cup {NULL}]
        /\ ThreadTypes
    BY DEF IInv, TypeOK, HandlerTypes, ThreadTypes
  <1>2. ASSUME NEW p \in Procs, Inside(p) PROVE \A q \in Procs \ {p} : ~Inside(q)
    BY <1>2, OnlyInside
  <1>3. ASSUME NEW l \in Levels, Top(l) PROVE Found(l) # NULL
    BY <1>1, <1>3, FoundType, NullAssumption
  <1>4. ASSUME NEW why, Fail(why) PROVE IdleInv'
    BY <1>4 DEF Fail, IdleInv, NoneReady, Busy
  <1>5. ASSUME NEW p \in Procs, Chosen(p) PROVE IdleInv'
    <2>1. call[p] \in Calls /\ Inside(p) /\ (NoneReady \/ Busy(Procs \ {p}))
      BY <1>5 DEF Chosen, IdleInv, Inside
    <2>2. CASE Leave(p) /\ joining' = Joined(p) /\
               \/ NoneReady /\ UNCHANGED <<runThread, status, readyQueue>>
               \/ \E l \in Levels : Top(l) /\ runThread' = [runThread EXCEPT ![p] = Found(l)]
      <3>1. UNCHANGED joining
        BY <2>1, <2>2 DEF Joined, NoJoins
      <3>2. (NoneReady \/ Busy(Procs))'
        <4>1. CASE NoneReady /\ UNCHANGED <<runThread, status, readyQueue>>
          BY <4>1 DEF NoneReady
        <4>2. ASSUME NEW l \in Levels, Top(l), runThread' = [runThread EXCEPT ![p] = Found(l)]
              PROVE  Busy(Procs)'
          <5>1. ~NoneReady
            BY <4>2 DEF Top, NoneReady
          <5> QED BY <1>1, <1>3, <2>1, <4>2, <5>1 DEF Busy
        <4> QED BY <2>2, <4>1, <4>2
      <3> QED BY <1>2, <2>1, <2>2, <3>1, <3>2, IdleFrame
    <2> QED BY <1>4, <1>5, <2>2 DEF Chosen
  <1>6. ASSUME NEW p \in Procs, AttemptNext(p) PROVE IdleInv'
    <2>1. CASE Fail("deadlock")
      BY <1>4, <2>1
    <2>2. ASSUME NEW l \in Levels, NEW q \in FreeProcs(p), Top(l), IsFirst(q, FreeProcs(p)),
                 runThread' = [runThread EXCEPT ![q] = Found(l)],
                 scan' = [scan EXCEPT ![p] = { r \in @ : r > q }],
                 UNCHANGED <<schedLock, joining, pc, call>>
          PROVE  IdleInv'
      <3>1. pc[p] = "attempt" /\ Busy(Procs \ scan[p]) /\ schedLock /\ Inside(p)
        BY <1>6, OnlyInside DEF AttemptNext, IdleInv, Inside
      <3>2. scan'[p] = { r \in scan[p] : r > q } /\ scan[p] \subseteq Procs
        BY <1>1, <2>2
      <3>3. q \in Procs /\ q \in scan[p] /\ \A r \in scan[p] : runThread[r] = NULL => q <= r
        BY <1>1, <2>2 DEF FreeProcs, IsFirst
      <3>4. Busy(Procs \ scan[p])'
        <4> SUFFICES ASSUME NEW r \in Procs, ~(r \in scan[p] /\ r > q) PROVE runThread'[r] # NULL
          BY <3>2 DEF Busy
        <4>1. CASE r = q
          BY <1>1, <1>3, <2>2, <3>3, <4>1
        <4>2. CASE r # q
          <5>1. r \in Nat /\ q \in Nat
            BY <3>3, ProcsAssumption
          <5>2. runThread[r] # NULL
            BY <3>1, <3>3, <4>2, <5>1 DEF Busy
          <5> QED BY <1>1, <2>2, <4>2, <5>2
        <4> QED BY <4>1, <4>2
      <3>5. \A r \in Procs : pc'[r] = "choose" => FALSE
        BY <1>2, <2>2, <3>1 DEF Inside
      <3>6. \A r \in Procs : pc'[r] = "attempt" => r = p
        BY <1>2, <2>2, <3>1 DEF Inside
      <3> QED BY <2>2, <3>1, <3>4, <3>5, <3>6 DEF IdleInv
    <2> QED BY <1>6, <2>1, <2>2 DEF AttemptNext
  <1>7. ASSUME NEW p \in Procs, AttemptOver(p)
        PROVE  /\ Inside(p) /\ call[p] \in Calls
               /\ (UNCHANGED runThread => NoneReady' \/ Busy(Procs)')
               /\ (runThread' = [runThread EXCEPT ![p] = NULL] => NoneReady' \/ Busy(Procs \ {p})')
    <2>1. pc[p] = "attempt" /\ Busy(Procs \ scan[p]) /\ Inside(p) /\ call[p] \in Calls
      BY <1>7 DEF AttemptOver, IdleInv, Inside
    <2>2. (NoneReady /\ UNCHANGED readyQueue) \/ Busy(Procs)
      BY <1>1, <1>7, <2>1 DEF AttemptOver, FreeProcs, Busy
    <2> QED BY <1>1, <2>1, <2>2 DEF NoneReady, Busy
  <1>8. ASSUME NEW p \in Procs, Attempted(p) PROVE IdleInv'
    BY <1>2, <1>7, <1>8, IdleFrame DEF Attempted
  <1>9. ASSUME NEW p \in Procs, WaitCondResumed(p) PROVE IdleInv'
    <2>1. /\ runThread' = [runThread EXCEPT ![p] = NULL] /\ AttemptOver(p) /\ UNCHANGED joining
          /\ Hold(p, call[p], "choose", runThread[p], {}) /\ curThread'[p] = runThread[p]
      BY <1>9 DEF WaitCondResumed, CondEnqueue, Suspend, Hold, IInv, TypeOK, HandlerTypes
    <2> QED BY <1>2, <1>7, <2>1, IdleFrame
  <1>10. ASSUME NEW p \in Procs, Step(p) PROVE IdleInv'
    <2>1. CASE Resume(p)
      <3>1. call[p] \in Calls /\ call[p] \in LockedCalls
        BY <2>1 DEF Resume, IdleInv, IInv, HandlersHaveThread
      <3> QED BY <2>1, <3>1, IdleHandle DEF Resume
    <2> QED BY <1>5, <1>6, <1>8, <1>9, <1>10, <2>1 DEF Step
  <1>11. ASSUME NEW p \in Procs, NEW c \in Calls \cap LockedCalls, Wait(p, c) PROVE IdleInv'
    <2>1. /\ pc' = [pc EXCEPT ![p] = "blocked"] /\ call' = [call EXCEPT ![p] = c]
          /\ UNCHANGED <<runThread, readyQueue, schedLock, joining, scan>>
      BY <1>11 DEF Wait, Block
    <2>2. \A q \in Procs : pc'[q] # "run" => call'[q] \in Calls
      BY <1>1, <2>1 DEF IdleInv
    <2>3. \A q \in Procs : pc'[q] \in {"choose", "attempt"} => pc'[q] = pc[q]
      BY <1>1, <2>1
    <2> QED BY <2>1, <2>2, <2>3 DEF IdleInv, NoneReady, Busy
  <1>12. CASE UNCHANGED <<runThread, readyQueue, schedLock, joining, pc, call, scan>>
    BY <1>12 DEF IdleInv, NoneReady, Busy
  <1>13. ASSUME NEW p \in Procs, NEW c \in Calls \ LockedCalls, Unlocked(p, c) PROVE IdleInv'
    BY <1>4, <1>12, <1>13 DEF Unlocked, CreateMutex, CreateSem, CreateCond, DestroyMutex,
       DestroySem, DestroyCond, SetSchedParam, SetAttr, schedVars
  <1> QED
    BY <1>10, <1>11, <1>12, <1>13, IdleHandle DEF Next, Invoke, Finished, vars, schedVars

\* In a program without joins no processor idles while a thread is ready, unless a
\* handler is at work: whoever makes a thread ready, or gives up its processor, leaves
\* no thread behind that an idle processor could have taken.
THEOREM ReadyIsTaken ==
    ASSUME NoJoins
    PROVE  Spec => []NoIdleWhileReady
  <1>1. Init => IdleInv
    BY DEF Init, SchedInit, IdleInv, NoneReady, Busy
  <1>2. IInv /\ IdleInv /\ [Next]_vars => IdleInv'
    BY IdleStep
  <1>3. IdleInv => NoIdleWhileReady
    BY DEF IdleInv, NoIdleWhileReady, Busy
  <1> QED
    BY <1>1, <1>2, <1>3, Invariance, PTL DEF Spec

-----------------------------------------------------------------------------
(* No silent hang *)

\* The invariants of a lawful program, from the other proof modules.
Sound == Base /\ ThreadsInv /\ WaitsAgree

LEMMA SoundAlways ==
    ASSUME Lawful
    PROVE  Spec => []Sound
  <1>1. Disciplined
    BY DEF Lawful
  <1>2. Init => WaitsAgree /\ LockGivenUp
    BY DEF Init, SchedInit, WaitsAgree, LockGivenUp, NoCall, WaitFamily
  <1>3. IInv /\ WaitsAgree /\ LockGivenUp /\ [Next]_vars => WaitsAgree' /\ LockGivenUp'
    BY <1>1, DisciplineStep
  <1>4. Base /\ ThreadsInv /\ WaitsAgree => Sound
    BY DEF Sound
  <1> QED
    BY <1>2, <1>3, <1>4, Invariance, ThreadsKept, PTL DEF Spec

\* A call that goes past schedLock agrees on the mutex of its condition.
LEMMA SoundCalls ==
    ASSUME Lawful, Sound, NEW p \in Procs, NEW c \in LockedCalls,
           c = call[p] \/ MayCall(p, c)
    PROVE  c.f \in WaitFamily => Agrees(c)
  BY DEF Lawful, Sound, WaitsAgree, MayCall, Permitted, Agrees, WaitFamily

\* Some processor runs a thread as long as one is alive, handlers at work excepted.
AnyRuns ==
    issue = "none" /\ (\A p \in Procs : ~Inside(p)) =>
        (\E p \in Procs : runThread[p] # NULL) \/ \A t \in Threads : ~Alive(t)

LEMMA AnyRunsHandle ==
    ASSUME Lawful, Sound, NEW p \in Procs, NEW c \in LockedCalls, Handle(p, c),
           c.f \in WaitFamily => Agrees(c)
    PROVE  AnyRuns'
  <1>1. PICK d : Start(p, d)
    BY DEF Handle, CreateThread, ExitThread, Join, JoinAll, LockMutex, UnLockMutex,
           PostSem, WaitSem, SignalCond, WaitCond
  <1>2. runThread[p] \in Threads /\ runThread[p] # NULL /\ \A q \in Procs : ~Inside(q)
    BY <1>1, Began DEF Sound
  <1>3. /\ runThread \in [Procs -> Threads \cup {NULL}]
        /\ pc \in [Procs -> Phases] /\ issue = "none"
    BY <1>1 DEF Sound, Base, IInv, TypeOK, ThreadTypes, HandlerTypes, Start
  <1>4. ASSUME Suspend(p, c) \/ Attempt(p, c) PROVE AnyRuns'
    <2>1. pc'[p] \in {"choose", "attempt"}
      BY <1>3, <1>4 DEF Suspend, Attempt, Hold
    <2> QED BY <2>1 DEF AnyRuns, Inside
  <1>5. CASE c.f \notin {"create", "exit"}
    <2>1. CASE \E why \in Issues \ {"none"} : Fail(why)
      BY <2>1 DEF Fail, AnyRuns
    <2>2. CASE Leave(p) /\ UNCHANGED <<runThread, readyQueue, issue>>
      BY <1>2, <2>2 DEF AnyRuns
    <2>3. CASE Leaked(p)
      <3>1. \E q \in Procs : Inside(q)'
        BY <2>3, HandleGivesUp DEF Leaked, LockGivenUp, Sound, Base
      <3> QED BY <3>1 DEF AnyRuns
    <2> QED BY <1>4, <1>5, <2>1, <2>2, <2>3, HandleEnds DEF Ends
  <1>6. CASE c.f = "create"
    <2>1. CreateThread(p, c.attr)
      BY <1>6 DEF Handle
    <2>2. \E t \in Unborn : \/ \E q \in Procs : runThread' = [runThread EXCEPT ![q] = t]
                            \/ UNCHANGED runThread
      BY <2>1 DEF CreateThread, IdleProcs
    <2>3. runThread'[p] # NULL
      BY <1>2, <1>3, <2>2, NullAssumption DEF Unborn
    <2> QED BY <2>3 DEF AnyRuns
  <1>7. CASE c.f = "exit"
    BY <1>4, <1>7, CallShape DEF Handle, ExitThread
  <1> QED BY <1>5, <1>6, <1>7

LEMMA AnyRunsStep ==
    ASSUME Lawful, Sound, AnyRuns, [Next]_vars
    PROVE  AnyRuns'
  <1>1. /\ call \in [Procs -> LockedCalls \cup {NoCall}] /\ pc \in [Procs -> Phases]
        /\ runThread \in [Procs -> Threads \cup {NULL}] /\ ThreadTypes /\ IInv
    BY DEF Sound, Base, IInv, TypeOK, HandlerTypes, ThreadTypes
  <1>2. ASSUME NEW why \in Issues \ {"none"}, Fail(why) PROVE AnyRuns'
    BY <1>2 DEF Fail, AnyRuns
  <1>3. ASSUME NEW p \in Procs, Chosen(p) PROVE AnyRuns'
    <2>1. CASE Fail("deadlock")
      BY <1>2, <2>1 DEF Issues
    <2>2. CASE ~Deadlocked /\ NoneReady /\ UNCHANGED <<runThread, status, readyQueue>>
      <3> SUFFICES ASSUME \A q \in Procs : runThread[q] = NULL, NEW t \in Threads
                   PROVE  ~Alive(t)
        BY <2>2 DEF AnyRuns, Alive
      <3>1. status[t] # "RUNNING" /\ \A u \in Threads : status[u] # "RUNNING"
        BY NullAssumption DEF Sound, ThreadsInv, PlaceInv, OnProcessors, With
      <3>2. status[t] # "WAITING"
        BY <2>2, <3>1 DEF Deadlocked
      <3>3. status[t] # "READY"
        <4>1. DOMAIN readyQueue = Levels /\ \A l \in Levels : ToSet(readyQueue[l]) = {}
          BY <1>1, <2>2, EmptyQueue DEF ThreadTypes, NoneReady
        <4>2. With("READY") = {}
          BY <4>1 DEF Sound, ThreadsInv, PlaceInv, InQueues, Holds
        <4> QED BY <4>2 DEF With
      <3> QED BY <1>1, <3>1, <3>2, <3>3 DEF ThreadTypes, Alive
    <2>3. ASSUME NEW l \in Levels, Top(l), runThread' = [runThread EXCEPT ![p] = Found(l)]
          PROVE  AnyRuns'
      <3>1. runThread'[p] # NULL
        BY <1>1, <2>3, FoundType, NullAssumption
      <3> QED BY <3>1 DEF AnyRuns
    <2> QED BY <1>3, <2>1, <2>2, <2>3 DEF Chosen
  <1>4. ASSUME NEW p \in Procs, AttemptNext(p) PROVE AnyRuns'
    <2>1. CASE Fail("deadlock")
      BY <1>2, <2>1 DEF Issues
    <2>2. CASE UNCHANGED pc /\ pc[p] = "attempt"
      BY <2>2 DEF AnyRuns, Inside
    <2> QED BY <1>4, <2>1, <2>2 DEF AttemptNext
  <1>5. ASSUME NEW p \in Procs, Attempted(p) PROVE AnyRuns'
    <2>1. runThread[p] # NULL
      BY <1>5 DEF Attempted, AttemptOver, Sound, ThreadsInv, RestInv, HandlersSound, HandlerSound
    <2> QED BY <1>5, <2>1 DEF Attempted, AnyRuns
  <1>6. ASSUME NEW p \in Procs, WaitCondResumed(p) PROVE AnyRuns'
    <2>1. pc'[p] = "choose"
      BY <1>1, <1>6 DEF WaitCondResumed, CondEnqueue, Suspend, Hold
    <2> QED BY <2>1 DEF AnyRuns, Inside
  <1>7. ASSUME NEW p \in Procs, Step(p) PROVE AnyRuns'
    <2>1. CASE Resume(p)
      <3>1. call[p] \in LockedCalls
        BY <2>1 DEF Resume, Sound, Base, IInv, HandlersHaveThread
      <3> QED BY <2>1, <3>1, SoundCalls, AnyRunsHandle DEF Resume
    <2> QED BY <1>3, <1>4, <1>5, <1>6, <1>7, <2>1 DEF Step
  <1>8. ASSUME NEW p \in Procs, NEW c \in Calls \cap LockedCalls, Invoke(p, c) PROVE AnyRuns'
    BY <1>8, SoundCalls, AnyRunsHandle DEF Invoke
  <1>9. ASSUME NEW p \in Procs, NEW c \in Calls \cap LockedCalls, Wait(p, c) PROVE AnyRuns'
    BY <1>9 DEF Wait, Block, Executing, AnyRuns
  <1>10. CASE UNCHANGED <<runThread, status, pc, issue>>
    BY <1>10 DEF AnyRuns, Inside, Alive
  <1>11. ASSUME NEW p \in Procs, NEW c \in Calls \ LockedCalls, Unlocked(p, c) PROVE AnyRuns'
    <2>1. {"no such mutex", "no such semaphore", "no such condition"} \subseteq Issues \ {"none"}
      BY DEF Issues
    <2> QED BY <1>2, <1>10, <1>11, <2>1 DEF Unlocked, CreateMutex, CreateSem, CreateCond,
               DestroyMutex, DestroySem, DestroyCond, SetSchedParam, SetAttr, schedVars
  <1> QED
    BY <1>7, <1>8, <1>9, <1>10, <1>11 DEF Next, Finished, vars, schedVars

\* A lawful program never hangs silently: when no processor has a thread any more and no
\* exception was thrown, every thread has ended.  findReadyThread sees every deadlock,
\* because a thread that is alive runs, is in a ready queue or waits.
THEOREM HangsAreReported ==
    ASSUME Lawful
    PROVE  Spec => []NoSilentHang
  <1>1. Init => AnyRuns
    BY NullAssumption, ThreadsAssumption DEF Init, SchedInit, AnyRuns
  <1>2. Sound /\ AnyRuns /\ [Next]_vars => AnyRuns'
    BY AnyRunsStep
  <1>3. AnyRuns => NoSilentHang
    BY DEF AnyRuns, NoSilentHang, Over, Alive, Inside
  <1> QED
    BY <1>1, <1>2, <1>3, SoundAlways, PTL DEF Spec

-----------------------------------------------------------------------------
(* What a handler does to what others rely on *)

\* Whoever is in a queue is asleep, and in no other queue.
LEMMA Sleepers ==
    ASSUME Base, ThreadsInv
    PROVE  /\ \A m \in Mutexes : /\ mutex[m].waiting \in Seq(Threads)
                                 /\ IsInjective(mutex[m].waiting)
                                 /\ ToSet(mutex[m].waiting) \subseteq With("WAITING")
           /\ \A k \in Conds : /\ cond[k].waiting \in Seq(Threads)
                               /\ IsInjective(cond[k].waiting)
                               /\ ToSet(cond[k].waiting) \subseteq With("WAITING")
           /\ \A m \in Mutexes, k \in Conds :
                 ToSet(mutex[m].waiting) \cap ToSet(cond[k].waiting) = {}
           /\ \A p \in Procs : runThread[p] # NULL => runThread[p] \notin With("WAITING")
  <1>1. Holds(WaitQueue, With("WAITING")) /\ DOMAIN WaitQueue = WaitSlots
    BY Slots DEF ThreadsInv, PlaceInv, AtWaits
  <1>2. \A x \in WaitSlots : /\ WaitQueue[x] \in Seq(Threads) /\ IsInjective(WaitQueue[x])
                             /\ ToSet(WaitQueue[x]) \subseteq With("WAITING")
    BY <1>1, HoldsFacts
  <1>3. \A x, y \in WaitSlots : x # y => ToSet(WaitQueue[x]) \cap ToSet(WaitQueue[y]) = {}
    BY <1>1 DEF Holds
  <1>4. ASSUME NEW m \in Mutexes, NEW k \in Conds
        PROVE  ToSet(mutex[m].waiting) \cap ToSet(cond[k].waiting) = {}
    <2> DEFINE x == <<"mutex", m>>
               y == <<"cond", k>>
    <2>1. /\ x \in WaitSlots /\ y \in WaitSlots /\ x # y
          /\ WaitQueue[x] = mutex[m].waiting /\ WaitQueue[y] = cond[k].waiting
      BY Slots
    <2> HIDE DEF x, y
    <2> QED BY <1>3, <2>1
  <1>5. \A p \in Procs : runThread[p] # NULL => runThread[p] \notin With("WAITING")
    BY DEF ThreadsInv, PlaceInv, OnProcessors, With
  <1> QED BY <1>2, <1>4, <1>5, Slots

\* The mutex x becomes y at the hands of p: it stays alive, p takes it from nobody else,
\* and it goes to p or to a thread that sleeps.
Kept(p, x, y) ==
    /\ y.live = x.live
    /\ y.owner # x.owner =>
          /\ x.owner \in {NULL, runThread[p]}
          /\ y.owner = NULL \/ y.owner = runThread[p] \/ y.owner \in With("WAITING")
MutexesKept(p) == \A m \in Mutexes : Kept(p, mutex[m], mutex'[m])

LEMMA KeptRecords ==
    ASSUME NEW p \in Procs, NEW x \in MutexRecord, NEW t \in Threads
    PROVE  /\ Kept(p, x, x)
           /\ Kept(p, x, [x EXCEPT !.rec = @ + 1])
           /\ Kept(p, x, [x EXCEPT !.waiting = Append(@, t)])
           /\ Coherent(x) /\ x.status = "FREE" /\ (t = runThread[p] \/ t \in With("WAITING")) =>
                 Kept(p, x, [x EXCEPT !.status = "LOCKED", !.owner = t])
           /\ Coherent(x) /\ t \in With("WAITING") => Kept(p, x, CondLocked(x, t))
  <1>1. Kept(p, x, x) /\ Kept(p, x, [x EXCEPT !.rec = @ + 1])
    BY DEF Kept, MutexRecord
  <1>2. Kept(p, x, [x EXCEPT !.waiting = Append(@, t)])
    BY DEF Kept, MutexRecord
  <1>3. Coherent(x) /\ x.status = "FREE" /\ (t = runThread[p] \/ t \in With("WAITING")) =>
                 Kept(p, x, [x EXCEPT !.status = "LOCKED", !.owner = t])
    BY DEF Kept, MutexRecord, Coherent
  <1> QED BY <1>1, <1>2, <1>3 DEF CondLocked

LEMMA ReleasedKept ==
    ASSUME Base, ThreadsInv, NEW p \in Procs, NEW m \in Mutexes, mutex[m].owner = runThread[p]
    PROVE  Kept(p, mutex[m], Released(m))
  <1>1. mutex[m] \in MutexRecord /\ mutex[m].rec \in Nat
    BY DEF Base, IInv, TypeOK, ObjectTypes, MutexRecord
  <1>2. CASE mutex[m].rec > 0
    BY <1>1, <1>2 DEF Released, Kept, MutexRecord
  <1>3. CASE mutex[m].rec = 0 /\ mutex[m].waiting # <<>>
    <2>1. Head(mutex[m].waiting) \in With("WAITING")
      BY <1>3, Sleepers, TailQueue
    <2>2. Released(m) = [mutex[m] EXCEPT !.owner = Head(mutex[m].waiting), !.waiting = Tail(mutex[m].waiting)]
      BY <1>3 DEF Released
    <2>3. Released(m).owner = Head(mutex[m].waiting) /\ Released(m).live = mutex[m].live
      BY <1>1, <2>2 DEF MutexRecord
    <2> QED BY <2>1, <2>3 DEF Kept
  <1>4. CASE mutex[m].rec = 0 /\ mutex[m].waiting = <<>>
    BY <1>1, <1>4 DEF Released, Kept, MutexRecord
  <1> QED BY <1>1, <1>2, <1>3, <1>4

\* What a handler does to the mutexes.
LEMMA HandleMutexes ==
    ASSUME Base, ThreadsInv, NEW p \in Procs, NEW c \in LockedCalls, Handle(p, c)
    PROVE  MutexesKept(p)
  <1>1. mutex \in [Mutexes -> MutexRecord]
    BY DEF Base, IInv, TypeOK, ObjectTypes
  <1>2. CASE UNCHANGED mutex
    BY <1>1, <1>2, KeptRecords, ThreadsAssumption DEF MutexesKept
  <1>3. ASSUME NEW m \in Mutexes, NEW y, mutex' = [mutex EXCEPT ![m] = y], Kept(p, mutex[m], y)
        PROVE  MutexesKept(p)
    BY <1>1, <1>3, KeptRecords, ThreadsAssumption DEF MutexesKept
  <1>4. \A m \in Mutexes : mutex[m] \in MutexRecord /\ Coherent(mutex[m])
    BY <1>1 DEF Base, MutexCoherent
  <1>5. ASSUME NEW d, Start(p, d) PROVE runThread[p] \in Threads
    BY <1>5, Started DEF Base
  <1>6. CASE c.f \in {"lock", "trylock"} /\ LockMutex(p, c.m, c.f = "trylock")
    <2> DEFINE x == mutex[c.m]
               t == runThread[p]
    <2>1. c.m \in Mutexes /\ t \in Threads
      BY <1>5, <1>6, CallShape DEF LockMutex
    <2>2. x \in MutexRecord /\ Coherent(x)
      BY <1>4, <2>1
    <2>3. \/ UNCHANGED mutex
          \/ mutex' = [mutex EXCEPT ![c.m] = [x EXCEPT !.rec = @ + 1]]
          \/ /\ x.status = "FREE"
             /\ mutex' = [mutex EXCEPT ![c.m] = [x EXCEPT !.status = "LOCKED", !.owner = t]]
          \/ mutex' = [mutex EXCEPT ![c.m] = [x EXCEPT !.waiting = Append(@, t)]]
      BY <1>1, <1>6, <2>1 DEF LockMutex
    <2>4. /\ Kept(p, x, [x EXCEPT !.rec = @ + 1])
          /\ Kept(p, x, [x EXCEPT !.waiting = Append(@, t)])
          /\ x.status = "FREE" => Kept(p, x, [x EXCEPT !.status = "LOCKED", !.owner = t])
      BY <2>1, <2>2, KeptRecords
    <2> QED BY <1>2, <1>3, <2>1, <2>3, <2>4
  <1>7. ASSUME NEW m \in Mutexes, mutex[m].owner = runThread[p],
               mutex' = [mutex EXCEPT ![m] = Released(m)]
        PROVE  MutexesKept(p)
    BY <1>3, <1>7, ReleasedKept
  <1>8. CASE c.f = "unlock" /\ UnLockMutex(p, c.m)
    BY <1>2, <1>7, <1>8, CallShape DEF UnLockMutex
  <1>9. CASE c.f \in {"wait", "timedwait"} /\ WaitCond(p, c.c, c.m, c.f = "timedwait")
    BY <1>2, <1>7, <1>9, CallShape DEF WaitCond
  <1>10. CASE c.f \in {"signal", "broadcast"} /\ SignalCond(p, c.c, c.f = "broadcast")
    <2> DEFINE k     == c.c
               m     == cond[k].mutex
               first == Head(cond[k].waiting)
               rest  == Tail(cond[k].waiting)
               taken == CondLocked(mutex[m], first)
               y     == IF c.f = "broadcast" THEN [taken EXCEPT !.waiting = @ \o rest] ELSE taken
    <2>1. k \in Conds /\ m \in Mutexes \cup {NULL}
      BY <1>10, CallShape DEF Base, IInv, TypeOK, ObjectTypes, CondRecord
    <2>2. CASE UNCHANGED mutex
      BY <1>2, <2>2
    <2>3. CASE cond[k].waiting # <<>> /\ m # NULL /\ mutex' = [mutex EXCEPT ![m] = y]
      <3>1. first \in With("WAITING") /\ first \in Threads
        BY <2>1, <2>3, Sleepers, TailQueue DEF With
      <3>2. Kept(p, mutex[m], taken) /\ taken \in MutexRecord
        BY <1>4, <2>1, <2>3, <3>1, KeptRecords, CondLockedType
      <3>3. Kept(p, mutex[m], y)
        <4> HIDE DEF taken, rest
        <4> QED BY <3>2 DEF Kept, MutexRecord
      <3> HIDE DEF y
      <3> QED BY <1>3, <2>1, <2>3, <3>3
    <2> QED BY <1>10, <2>2, <2>3 DEF SignalCond
  <1> QED
    BY <1>2, <1>6, <1>8, <1>9, <1>10 DEF Handle, syncVars, PostSem, WaitSem

-----------------------------------------------------------------------------
(* No call is refused *)

\* What the handler of c needs in order not to throw.
Valid(p, c) ==
    /\ c.f \in {"lock", "trylock", "unlock", "wait", "timedwait"} => mutex[c.m].live
    /\ c.f \in {"unlock", "wait", "timedwait"} => mutex[c.m].owner = runThread[p]
    /\ c.f \in {"post", "semwait"} => sem[c.s].live
    /\ c.f \in {"signal", "broadcast", "wait", "timedwait"} => cond[c.c].live

CallsValid   == \A p \in Procs : pc[p] = "blocked" => Valid(p, call[p])
MutexesBound == \A k \in Conds : cond[k].mutex # NULL => mutex[cond[k].mutex].live
Accepted     == CallsValid /\ MutexesBound /\ NoCallRefused

SemsKept   == \A s \in Sems : sem'[s].live = sem[s].live
CondsKept  == \A k \in Conds : cond'[k].live = cond[k].live
RunnersKept(p) == \A q \in Procs \ {p} : runThread[q] # NULL => runThread'[q] = runThread[q]

\* A call that POSIX permits is valid when it is made.
LEMMA PermittedValid ==
    ASSUME Lawful, NEW p \in Procs, NEW c \in LockedCalls, MayCall(p, c)
    PROVE  Valid(p, c)
  <1>1. Permitted(p, c)
    BY DEF MayCall, Lawful
  <1>2. CASE c.f \in {"lock", "trylock"}
    BY <1>1, <1>2 DEF Permitted, Valid
  <1>3. CASE c.f = "unlock"
    BY <1>1, <1>3 DEF Permitted, Valid
  <1>4. CASE c.f \in {"post", "semwait"}
    <2>1. sem[c.s].live
      BY <1>1, <1>4 DEF Permitted, WaitFamily
    <2> QED BY <1>4, <2>1 DEF Valid
  <1>5. CASE c.f \in {"signal", "broadcast"}
    BY <1>1, <1>5 DEF Permitted, Valid
  <1>6. CASE c.f \in WaitFamily
    <2>1. c.f = "wait" \/ c.f = "timedwait"
      BY <1>6 DEF WaitFamily
    <2>2. cond[c.c].live /\ mutex[c.m].live /\ mutex[c.m].owner = runThread[p]
      BY <1>1, <1>6, <2>1 DEF Permitted
    <2> QED BY <2>1, <2>2 DEF Valid
  <1>7. CASE c.f \notin {"lock", "trylock", "unlock", "post", "semwait", "signal", "broadcast",
                         "wait", "timedwait"}
    BY <1>7 DEF Valid
  <1> QED BY <1>2, <1>3, <1>4, <1>5, <1>6, <1>7 DEF WaitFamily

\* A handler whose call is valid throws nothing.
LEMMA ValidAccepted ==
    ASSUME Sound, MutexesBound, NEW p \in Procs, NEW c \in LockedCalls, Handle(p, c), Valid(p, c),
           c.f \in WaitFamily => Agrees(c)
    PROVE  issue' = "none"
  <1>1. PICK d : Start(p, d)
    BY DEF Handle, CreateThread, ExitThread, Join, JoinAll, LockMutex, UnLockMutex,
           PostSem, WaitSem, SignalCond, WaitCond
  <1>2. issue = "none"
    BY <1>1 DEF Start
  <1>3. CASE c.f \in {"create", "exit", "join", "joinAll"}
    BY <1>2, <1>3 DEF Handle, CreateThread, ExitThread, Join, JoinAll
  <1>4. CASE c.f \in {"lock", "trylock"}
    BY <1>2, <1>4 DEF Handle, LockMutex, Valid
  <1>5. CASE c.f = "unlock"
    BY <1>2, <1>5 DEF Handle, UnLockMutex, Valid
  <1>6. CASE c.f \in {"post", "semwait"}
    BY <1>2, <1>6 DEF Handle, PostSem, WaitSem, Valid
  <1>7. CASE c.f \in {"signal", "broadcast"}
    <2>1. c.c \in Conds
      BY <1>7, CallShape
    <2>2. cond[c.c].waiting # <<>> => cond[c.c].mutex # NULL /\ mutex[cond[c.c].mutex].live
      BY <2>1 DEF Sound, Base, CondInv, CondKnowsMutex, MutexesBound
    <2> QED BY <1>2, <1>7, <2>2 DEF Handle, SignalCond, Valid
  <1>8. CASE c.f \in {"wait", "timedwait"}
    <2>1. cond[c.c].mutex \in {NULL, c.m}
      BY <1>8 DEF Agrees, WaitFamily
    <2>2. /\ cond[c.c].live /\ mutex[c.m].live /\ mutex[c.m].owner = runThread[p]
      BY <1>8 DEF Valid
    <2>3. PICK timed \in BOOLEAN : WaitCond(p, c.c, c.m, timed)
      BY <1>8 DEF Handle
    <2> QED BY <1>2, <2>1, <2>2, <2>3 DEF WaitCond
  <1> QED BY <1>3, <1>4, <1>5, <1>6, <1>7, <1>8 DEF Handle

\* A handler of a program that never preempts leaves the others on their processors.
LEMMA HandleRunners ==
    ASSUME Sound, Unpreemptive, NEW p \in Procs, NEW c \in LockedCalls, Handle(p, c)
    PROVE  RunnersKept(p)
  <1>1. /\ runThread \in [Procs -> Threads \cup {NULL}]
        /\ attrOf \in [Threads -> AttrIds]
    BY DEF Sound, Base, IInv, TypeOK, ThreadTypes
  <1>2. ASSUME NEW x, runThread' \in {runThread, [runThread EXCEPT ![p] = x]}
        PROVE  RunnersKept(p)
    BY <1>1, <1>2 DEF RunnersKept
  <1>3. CASE c.f \notin {"create", "exit"}
    <2>1. Ends(p, c)
      BY <1>3, HandleEnds
    <2>2. UNCHANGED runThread \/ runThread' = [runThread EXCEPT ![p] = NULL]
      BY <2>1 DEF Ends, Fail, Leaked, Suspend
    <2> QED BY <1>2, <2>2
  <1>4. CASE c.f = "exit"
    BY <1>2, <1>4 DEF Handle, ExitThread, Suspend
  <1>5. CASE c.f = "create"
    <2>1. CreateThread(p, c.attr)
      BY <1>5 DEF Handle
    <2>2. ASSUME NEW v \in Procs, IdleProcs = {} PROVE ~Preempts(c.attr, runThread[v])
      <3>1. runThread[v] \in Threads
        BY <1>1, <2>2 DEF IdleProcs
      <3>2. attrOf[runThread[v]] \in AttrIds
        BY <1>1, <3>1
      <3>3. ~attrVal[attrOf[runThread[v]]].preemptive
        BY <3>2, Zenon DEF Sound, ThreadsInv, RestInv, NonePreempts
      <3> QED BY <3>3, Zenon DEF Preempts
    <2>3. \/ \E t : \E q \in IdleProcs : runThread' = [runThread EXCEPT ![q] = t]
          \/ UNCHANGED runThread
      BY <2>1, <2>2 DEF CreateThread
    <2>4. CASE UNCHANGED runThread
      BY <1>2, <2>4
    <2>5. ASSUME NEW t, NEW q \in IdleProcs, runThread' = [runThread EXCEPT ![q] = t]
          PROVE  RunnersKept(p)
      BY <1>1, <2>5 DEF RunnersKept, IdleProcs
    <2> QED BY <2>1, <2>2, <2>4, <2>5 DEF CreateThread
  <1> QED BY <1>3, <1>4, <1>5

\* A handler makes and destroys no objects.
LEMMA HandleObjects ==
    ASSUME Base, NEW p \in Procs, NEW c \in LockedCalls, Handle(p, c)
    PROVE  SemsKept /\ CondsKept
  <1>1. sem \in [Sems -> SemRecord] /\ cond \in [Conds -> CondRecord]
    BY DEF Base, IInv, TypeOK, ObjectTypes
  <1>2. ASSUME NEW s \in Sems, NEW y, sem' = [sem EXCEPT ![s] = y], y.live = sem[s].live
        PROVE  SemsKept
    BY <1>1, <1>2 DEF SemsKept
  <1>3. ASSUME NEW k \in Conds, NEW y, cond' = [cond EXCEPT ![k] = y], y.live = cond[k].live
        PROVE  CondsKept
    BY <1>1, <1>3 DEF CondsKept
  <1>4. CASE c.f = "post" /\ PostSem(p, c.s)
    <2>1. c.s \in Sems /\ UNCHANGED cond
      BY <1>4, CallShape DEF PostSem
    <2>2. Posted(sem[c.s]).live = sem[c.s].live
      BY <1>1, <2>1 DEF Posted, SemRecord
    <2> QED BY <1>2, <1>4, <2>1, <2>2 DEF PostSem, SemsKept, CondsKept
  <1>5. CASE c.f = "semwait" /\ WaitSem(p, c.s)
    <2>1. c.s \in Sems /\ UNCHANGED cond
      BY <1>5, CallShape DEF WaitSem
    <2> DEFINE x == sem[c.s]
               t == runThread[p]
    <2>2. /\ [x EXCEPT !.value = @ - 1].live = x.live
          /\ [x EXCEPT !.waiting = Append(@, t)].live = x.live
      BY <1>1, <2>1 DEF SemRecord
    <2>3. \/ UNCHANGED sem
          \/ sem' = [sem EXCEPT ![c.s] = [x EXCEPT !.value = @ - 1]]
          \/ sem' = [sem EXCEPT ![c.s] = [x EXCEPT !.waiting = Append(@, t)]]
      BY <1>1, <1>5, <2>1 DEF WaitSem
    <2> QED BY <1>2, <2>1, <2>2, <2>3 DEF SemsKept, CondsKept
  <1>6. CASE c.f \in {"signal", "broadcast"} /\ SignalCond(p, c.c, c.f = "broadcast")
    <2>1. c.c \in Conds /\ UNCHANGED sem
      BY <1>6, CallShape DEF SignalCond
    <2>2. Signalled(cond[c.c], c.f = "broadcast").live = cond[c.c].live
      BY <1>1, <2>1 DEF Signalled, CondRecord
    <2> QED BY <1>3, <1>6, <2>1, <2>2 DEF SignalCond, SemsKept, CondsKept
  <1>7. CASE c.f \in {"wait", "timedwait"} /\ WaitCond(p, c.c, c.m, c.f = "timedwait")
    <2>1. c.c \in Conds /\ UNCHANGED sem
      BY <1>7, CallShape DEF WaitCond
    <2> DEFINE x == cond[c.c]
               t == runThread[p]
    <2>2. /\ [x EXCEPT !.mutex = c.m].live = x.live
          /\ [x EXCEPT !.mutex = c.m, !.waiting = Append(@, t)].live = x.live
      BY <1>1, <2>1 DEF CondRecord
    <2>3. \/ UNCHANGED cond
          \/ cond' = [cond EXCEPT ![c.c] = [x EXCEPT !.mutex = c.m]]
          \/ cond' = [cond EXCEPT ![c.c] = [x EXCEPT !.mutex = c.m, !.waiting = Append(@, t)]]
      <3>1. \/ UNCHANGED cond
            \/ cond' = [cond EXCEPT ![c.c].mutex = c.m]
            \/ cond' = [cond EXCEPT ![c.c].mutex = c.m, ![c.c].waiting = Append(@, t)]
        BY <1>7 DEF WaitCond
      <3> QED BY <1>1, <2>1, <3>1
    <2> QED BY <1>3, <2>1, <2>2, <2>3 DEF SemsKept, CondsKept
  <1>8. CASE UNCHANGED <<sem, cond>>
    BY <1>8 DEF SemsKept, CondsKept
  <1> QED
    BY <1>4, <1>5, <1>6, <1>7, <1>8 DEF Handle, syncVars, LockMutex, UnLockMutex

\* The call of a processor q that waits for schedLock stays valid.
LEMMA ValidKept ==
    ASSUME Sound, NEW p \in Procs, NEW q \in Procs \ {p}, pc[q] = "blocked",
           Valid(q, call[q]), UNCHANGED <<call[q], runThread[q]>>,
           MutexesKept(p), SemsKept, CondsKept
    PROVE  Valid(q, call[q])'
  <1>1. runThread[q] # NULL /\ call[q] \in LockedCalls
    BY DEF Sound, Base, IInv, HandlersHaveThread
  <1>2. runThread[q] # runThread[p]
    BY <1>1 DEF Sound, ThreadsInv, PlaceInv, OnProcessors
  <1>3. ASSUME NEW m \in Mutexes PROVE /\ mutex'[m].live = mutex[m].live
                                       /\ mutex[m].owner = runThread[q] => mutex'[m].owner = runThread[q]
    BY <1>1, <1>2 DEF MutexesKept, Kept
  <1>4. /\ call[q].f \in {"lock", "trylock", "unlock", "wait", "timedwait"} => call[q].m \in Mutexes
        /\ call[q].f \in {"post", "semwait"} => call[q].s \in Sems
        /\ call[q].f \in {"signal", "broadcast", "wait", "timedwait"} => call[q].c \in Conds
    BY <1>1, CallShape
  <1>5. call[q].f \in {"lock", "trylock", "unlock", "wait", "timedwait"} => mutex'[call[q].m].live
    BY <1>3, <1>4 DEF Valid
  <1>6. call[q].f \in {"unlock", "wait", "timedwait"} => mutex'[call[q].m].owner = runThread[q]
    BY <1>3, <1>4 DEF Valid
  <1>7. call[q].f \in {"post", "semwait"} => sem'[call[q].s].live
    BY <1>4 DEF Valid, SemsKept
  <1>8. call[q].f \in {"signal", "broadcast", "wait", "timedwait"} => cond'[call[q].c].live
    BY <1>4 DEF Valid, CondsKept
  <1> QED BY <1>5, <1>6, <1>7, <1>8 DEF Valid

LEMMA CallsKept ==
    ASSUME Sound, CallsValid, NEW p \in Procs,
           pc' \in {pc, [pc EXCEPT ![p] = "run"], [pc EXCEPT ![p] = "choose"],
                    [pc EXCEPT ![p] = "attempt"]},
           \A q \in Procs \ {p} : call'[q] = call[q],
           pc'[p] # "blocked", MutexesKept(p), SemsKept, CondsKept, RunnersKept(p)
    PROVE  CallsValid'
  <1>1. pc \in [Procs -> Phases]
    BY DEF Sound, Base, IInv, TypeOK, HandlerTypes
  <1>2. ASSUME NEW q \in Procs, pc'[q] = "blocked" PROVE Valid(q, call[q])'
    <2>1. q # p /\ pc[q] = "blocked"
      BY <1>1, <1>2
    <2>2. runThread[q] # NULL
      BY <2>1 DEF Sound, Base, IInv, HandlersHaveThread
    <2>3. UNCHANGED <<call[q], runThread[q]>>
      BY <2>1, <2>2 DEF RunnersKept
    <2>4. Valid(q, call[q])
      BY <2>1 DEF CallsValid
    <2> QED BY <2>1, <2>3, <2>4, ValidKept
  <1> QED BY <1>2 DEF CallsValid

LEMMA AcceptedHandle ==
    ASSUME Lawful, Unpreemptive, Sound, Accepted, NEW p \in Procs, NEW c \in LockedCalls,
           Handle(p, c), Valid(p, c), c.f \in WaitFamily => Agrees(c)
    PROVE  Accepted'
  <1>1. issue' = "none"
    BY ValidAccepted DEF Accepted
  <1>2. MutexesKept(p) /\ SemsKept /\ CondsKept /\ RunnersKept(p)
    BY HandleMutexes, HandleObjects, HandleRunners DEF Sound
  <1>3. /\ pc \in [Procs -> Phases] /\ call \in [Procs -> LockedCalls \cup {NoCall}]
        /\ cond' \in [Conds -> CondRecord]
    <2>1. IInv'
      BY HandleStep DEF Sound, Base
    <2> QED BY <2>1 DEF Sound, Base, IInv, TypeOK, HandlerTypes, ObjectTypes
  <1>4. ASSUME c.f \notin {"create", "exit"}
        PROVE  Leave(p) \/ Suspend(p, c) \/ Attempt(p, c) \/ Leaked(p)
    <2>1. ~ \E why \in Issues \ {"none"} : Fail(why)
      BY <1>1 DEF Fail
    <2>2. Ends(p, c)
      BY <1>4, HandleEnds
    <2> QED BY <2>1, <2>2 DEF Ends
  <1>6. Leave(p) \/ (\E d : Suspend(p, d)) \/ Attempt(p, c) \/ Leaked(p)
    <2>1. c.f = "exit" => Suspend(p, [f |-> "exit"])
      BY DEF Handle, ExitThread
    <2>2. c.f = "create" => Leave(p)
      BY DEF Handle, CreateThread
    <2> QED BY <1>4, <2>1, <2>2
  <1>7. /\ pc' \in {[pc EXCEPT ![p] = "run"], [pc EXCEPT ![p] = "choose"], [pc EXCEPT ![p] = "attempt"]}
        /\ \A q \in Procs \ {p} : call'[q] = call[q]
    BY <1>3, <1>6 DEF Leave, Suspend, Attempt, Hold, Leaked
  <1>8. pc'[p] # "blocked"
    BY <1>3, <1>7
  <1>9. CallsValid'
    BY <1>2, <1>7, <1>8, CallsKept DEF Accepted
  <1>10. MutexesBound'
    <2> SUFFICES ASSUME NEW k \in Conds, cond'[k].mutex # NULL
                 PROVE  mutex'[cond'[k].mutex].live
      BY DEF MutexesBound
    <2>1. cond'[k].mutex \in Mutexes
      BY <1>3 DEF CondRecord
    <2>2. CASE cond'[k].mutex = cond[k].mutex
      BY <1>2, <2>1, <2>2 DEF Accepted, MutexesBound, MutexesKept, Kept
    <2>3. CASE c.f \in WaitFamily /\ cond'[k].mutex = c.m
      <3>1. mutex[c.m].live
        BY <2>3 DEF Valid, WaitFamily
      <3> QED BY <1>2, <2>1, <2>3, <3>1 DEF MutexesKept, Kept
    <2> QED BY <2>2, <2>3, HandleConds DEF Sound, Base
  <1> QED BY <1>1, <1>9, <1>10 DEF Accepted, NoCallRefused

\* The calls that take no lock.
LEMMA AcceptedUnlocked ==
    ASSUME Lawful, Sound, Accepted, NEW p \in Procs, NEW c \in Calls \ LockedCalls, Unlocked(p, c)
    PROVE  Accepted'
  <1>1. /\ mutex \in [Mutexes -> MutexRecord] /\ sem \in [Sems -> SemRecord]
        /\ cond \in [Conds -> CondRecord]
    BY DEF Sound, Base, IInv, TypeOK, ObjectTypes
  <1>2. c \in ObjCalls \cup ParamCalls
    BY CallsAssumption
  <1>3. Possible(p, c) /\ Permitted(p, c)
    BY DEF Unlocked, MayCall, Lawful
  <1>4. ASSUME NEW q \in Procs, pc[q] = "blocked" PROVE call[q] \in LockedCalls /\ Valid(q, call[q])
    BY <1>4 DEF Sound, Base, IInv, HandlersHaveThread, Accepted, CallsValid
  <1>5. ASSUME NEW i, NEW S, IsNextId(i, S) PROVE i \notin S
    BY <1>5 DEF IsNextId, IsFirst
  <1>6. ASSUME UNCHANGED <<pc, call, runThread, issue>>,
               \A q \in Procs : pc[q] = "blocked" =>
                  /\ call[q].f \in {"lock", "trylock", "unlock", "wait", "timedwait"} =>
                        mutex'[call[q].m] = mutex[call[q].m]
                  /\ call[q].f \in {"post", "semwait"} => sem'[call[q].s] = sem[call[q].s]
                  /\ call[q].f \in {"signal", "broadcast", "wait", "timedwait"} =>
                        cond'[call[q].c] = cond[call[q].c],
               MutexesBound'
        PROVE  Accepted'
    BY <1>4, <1>6 DEF Accepted, CallsValid, Valid, NoCallRefused
  <1>7. CASE c.f = "createMutex" /\ CreateMutex(p)
    <2>1. PICK m \in Mutexes : /\ IsNextId(m, Live(mutex))
                               /\ mutex' = [mutex EXCEPT ![m] = FreshMutex]
      BY <1>7 DEF CreateMutex
    <2>2. ~mutex[m].live /\ mutex'[m].live /\ \A n \in Mutexes \ {m} : mutex'[n] = mutex[n]
      BY <1>1, <1>5, <2>1 DEF Live, FreshMutex
    <2>3. UNCHANGED <<schedVars, sem, cond>>
      BY <1>7 DEF CreateMutex
    <2>4. MutexesBound'
      BY <1>1, <2>2, <2>3 DEF Accepted, MutexesBound, CondRecord
    <2> QED BY <1>4, <1>6, <2>2, <2>3, <2>4, CallShape DEF schedVars, Valid
  <1>8. CASE c.f = "createSem" /\ CreateSem(p, c.v)
    <2>1. PICK s \in Sems : /\ IsNextId(s, Live(sem))
                            /\ sem' = [sem EXCEPT ![s] = FreshSem(c.v)]
      BY <1>8 DEF CreateSem
    <2>2. ~sem[s].live /\ \A n \in Sems \ {s} : sem'[n] = sem[n]
      BY <1>1, <1>5, <2>1 DEF Live
    <2>3. UNCHANGED <<schedVars, mutex, cond>>
      BY <1>8 DEF CreateSem
    <2>4. MutexesBound'
      BY <2>3 DEF Accepted, MutexesBound
    <2> QED BY <1>4, <1>6, <2>2, <2>3, <2>4, CallShape DEF schedVars, Valid
  <1>9. CASE c.f = "createCond" /\ CreateCond(p)
    <2>1. PICK k \in Conds : /\ IsNextId(k, Live(cond))
                             /\ cond' = [cond EXCEPT ![k] = FreshCond]
      BY <1>9 DEF CreateCond
    <2>2. ~cond[k].live /\ cond'[k].mutex = NULL /\ \A n \in Conds \ {k} : cond'[n] = cond[n]
      BY <1>1, <1>5, <2>1 DEF Live, FreshCond
    <2>3. UNCHANGED <<schedVars, mutex, sem>>
      BY <1>9 DEF CreateCond
    <2>4. MutexesBound'
      BY <2>2, <2>3 DEF Accepted, MutexesBound
    <2> QED BY <1>4, <1>6, <2>2, <2>3, <2>4, CallShape DEF schedVars, Valid
  <1>10. CASE c.f = "destroyMutex" /\ DestroyMutex(p, c.m)
    <2>1. /\ mutex[c.m].live /\ (\A k \in Conds : cond[k].mutex # c.m) /\ Unused("m", c.m)
      BY <1>3, <1>10 DEF Permitted, Possible, WaitFamily
    <2>2. /\ mutex' = [mutex EXCEPT ![c.m] = NoMutex] /\ UNCHANGED <<schedVars, sem, cond>>
      BY <1>10, <2>1 DEF DestroyMutex
    <2>3. ASSUME NEW q \in Procs, pc[q] = "blocked",
                 call[q].f \in {"lock", "trylock", "unlock", "wait", "timedwait"}
          PROVE  call[q].m # c.m /\ call[q].m \in Mutexes
      <3>1. "m" \in DOMAIN call[q] /\ call[q].m \in Mutexes
        BY <1>4, <2>3, CallShape
      <3> QED BY <2>1, <3>1 DEF Unused
    <2>4. MutexesBound'
      BY <1>1, <2>1, <2>2 DEF Accepted, MutexesBound, CondRecord
    <2> QED BY <1>1, <1>6, <2>2, <2>3, <2>4 DEF schedVars
  <1>11. CASE c.f = "destroySem" /\ DestroySem(p, c.s)
    <2>1. sem[c.s].live /\ Unused("s", c.s)
      BY <1>3, <1>11 DEF Permitted, Possible, WaitFamily
    <2>2. /\ sem' = [sem EXCEPT ![c.s] = NoSem] /\ UNCHANGED <<schedVars, mutex, cond>>
      BY <1>11, <2>1 DEF DestroySem
    <2>3. ASSUME NEW q \in Procs, pc[q] = "blocked", call[q].f \in {"post", "semwait"}
          PROVE  call[q].s # c.s /\ call[q].s \in Sems
      <3>1. "s" \in DOMAIN call[q] /\ call[q].s \in Sems
        BY <1>4, <2>3, CallShape
      <3> QED BY <2>1, <3>1 DEF Unused
    <2>4. MutexesBound'
      BY <2>2 DEF Accepted, MutexesBound
    <2> QED BY <1>1, <1>6, <2>2, <2>3, <2>4 DEF schedVars
  <1>12. CASE c.f = "destroyCond" /\ DestroyCond(p, c.c)
    <2>1. cond[c.c].live /\ Unused("c", c.c) /\ c.c \in Conds
      BY <1>2, <1>3, <1>12 DEF Permitted, Possible, WaitFamily, ObjCalls, ParamCalls
    <2>2. /\ cond' = [cond EXCEPT ![c.c] = NoCond] /\ UNCHANGED <<schedVars, mutex, sem>>
      BY <1>12, <2>1 DEF DestroyCond
    <2>3. ASSUME NEW q \in Procs, pc[q] = "blocked",
                 call[q].f \in {"signal", "broadcast", "wait", "timedwait"}
          PROVE  call[q].c # c.c /\ call[q].c \in Conds
      <3>1. "c" \in DOMAIN call[q] /\ call[q].c \in Conds
        BY <1>4, <2>3, CallShape
      <3> QED BY <2>1, <3>1 DEF Unused
    <2>4. MutexesBound'
      <3>1. cond'[c.c].mutex = NULL /\ \A k \in Conds \ {c.c} : cond'[k] = cond[k]
        BY <1>1, <2>1, <2>2 DEF NoCond, FreshCond
      <3> QED BY <2>2, <3>1 DEF Accepted, MutexesBound
    <2> QED BY <1>1, <1>6, <2>2, <2>3, <2>4 DEF schedVars
  <1>13. CASE UNCHANGED syncVars /\ UNCHANGED <<pc, call, runThread, issue>>
    BY <1>13 DEF syncVars, Accepted, CallsValid, Valid, MutexesBound, NoCallRefused
  <1> QED
    BY <1>7, <1>8, <1>9, <1>10, <1>11, <1>12, <1>13 DEF Unlocked, SetSchedParam, SetAttr

LEMMA InitAccepted ==
    ASSUME Init
    PROVE  Accepted
  BY DEF Init, SchedInit, Accepted, CallsValid, MutexesBound, NoCallRefused, FreshCond, NoCond

LEMMA AcceptedStep ==
    ASSUME Lawful, Unpreemptive, Sound, Accepted, [Next]_vars
    PROVE  Accepted'
  <1>1. /\ pc \in [Procs -> Phases] /\ call \in [Procs -> LockedCalls \cup {NoCall}]
        /\ runThread \in [Procs -> Threads \cup {NULL}]
        /\ cond \in [Conds -> CondRecord] /\ mutex \in [Mutexes -> MutexRecord]
    BY DEF Sound, Base, IInv, TypeOK, ThreadTypes, HandlerTypes, ObjectTypes
  <1>2. ASSUME UNCHANGED <<pc, call, runThread, mutex, sem, cond>>, issue' \in {issue, "deadlock"}
        PROVE  Accepted'
    BY <1>2 DEF Accepted, CallsValid, Valid, MutexesBound, NoCallRefused
  <1>3. CASE UNCHANGED syncVars /\ Fail("deadlock")
    BY <1>2, <1>3 DEF Fail, syncVars
  <1>4. ASSUME NEW p \in Procs, UNCHANGED <<mutex, sem, issue>>, CondsKept,
               \A k \in Conds : cond'[k].mutex = cond[k].mutex,
               pc' \in {pc, [pc EXCEPT ![p] = "run"], [pc EXCEPT ![p] = "choose"]},
               \A q \in Procs \ {p} : call'[q] = call[q],
               pc[p] # "blocked", RunnersKept(p)
        PROVE  Accepted'
    <2>1. MutexesKept(p) /\ SemsKept
      BY <1>4 DEF MutexesKept, Kept, SemsKept
    <2>2. pc'[p] # "blocked"
      BY <1>1, <1>4
    <2>3. CallsValid'
      BY <1>4, <2>1, <2>2, CallsKept DEF Accepted
    <2> QED BY <1>4, <2>3 DEF Accepted, MutexesBound, NoCallRefused
  <1>5. ASSUME NEW p \in Procs, Chosen(p), UNCHANGED syncVars PROVE Accepted'
    <2>1. runThread[p] = NULL /\ pc[p] = "choose"
      BY <1>5 DEF Chosen, Sound, ThreadsInv, RestInv, HandlersSound, HandlerSound
    <2>2. CASE Leave(p) /\ UNCHANGED issue /\
               (UNCHANGED runThread \/ \E l \in Levels : runThread' = [runThread EXCEPT ![p] = Found(l)])
      <3>1. RunnersKept(p) /\ CondsKept
        BY <1>1, <1>5, <2>2 DEF RunnersKept, CondsKept, syncVars
      <3>2. pc' = [pc EXCEPT ![p] = "run"] /\ \A q \in Procs \ {p} : call'[q] = call[q]
        BY <1>1, <2>2 DEF Leave
      <3> QED BY <1>4, <1>5, <2>1, <2>2, <3>1, <3>2 DEF syncVars
    <2> QED BY <1>3, <1>5, <2>2 DEF Chosen
  <1>6. ASSUME NEW p \in Procs, AttemptNext(p), UNCHANGED syncVars PROVE Accepted'
    <2>1. ASSUME NEW l \in Levels, NEW q \in FreeProcs(p),
                 runThread' = [runThread EXCEPT ![q] = Found(l)], UNCHANGED <<pc, call, issue>>
          PROVE  Accepted'
      <3>1. RunnersKept(p) /\ CondsKept /\ pc[p] # "blocked"
        BY <1>1, <1>6, <2>1 DEF RunnersKept, CondsKept, syncVars, FreeProcs, AttemptNext
      <3> QED BY <1>4, <1>6, <2>1, <3>1 DEF syncVars
    <2> QED BY <1>3, <1>6, <2>1 DEF AttemptNext
  <1>7. ASSUME NEW p \in Procs, Attempted(p) PROVE Accepted'
    <2>1. /\ UNCHANGED <<mutex, sem, cond, issue, runThread>> /\ pc[p] # "blocked"
          /\ RunnersKept(p) /\ CondsKept
      BY <1>7 DEF Attempted, syncVars, AttemptOver, RunnersKept, CondsKept
    <2>2. pc' = [pc EXCEPT ![p] = "run"] /\ \A q \in Procs \ {p} : call'[q] = call[q]
      BY <1>1, <1>7 DEF Attempted, Leave
    <2> QED BY <1>4, <2>1, <2>2
  <1>8. ASSUME NEW p \in Procs, WaitCondResumed(p) PROVE Accepted'
    <2>1. /\ cond' = [cond EXCEPT ![call[p].c].waiting = Append(@, runThread[p])]
          /\ UNCHANGED <<mutex, sem, issue>> /\ pc[p] # "blocked"
          /\ runThread' = [runThread EXCEPT ![p] = NULL]
          /\ pc' = [pc EXCEPT ![p] = "choose"] /\ call' = [call EXCEPT ![p] = call[p]]
      BY <1>8 DEF WaitCondResumed, AttemptOver, CondEnqueue, Suspend, Hold
    <2>2. CondsKept /\ \A k \in Conds : cond'[k].mutex = cond[k].mutex
      BY <1>1, <2>1 DEF CondsKept, CondRecord
    <2>3. RunnersKept(p) /\ \A q \in Procs \ {p} : call'[q] = call[q]
      BY <1>1, <2>1 DEF RunnersKept
    <2> QED BY <1>4, <2>1, <2>2, <2>3
  <1>9. ASSUME NEW p \in Procs, Step(p) PROVE Accepted'
    <2>1. CASE Resume(p)
      <3>1. call[p] \in LockedCalls /\ Valid(p, call[p])
        BY <2>1 DEF Resume, Sound, Base, IInv, HandlersHaveThread, Accepted, CallsValid
      <3> QED BY <2>1, <3>1, SoundCalls, AcceptedHandle DEF Resume
    <2> QED BY <1>5, <1>6, <1>7, <1>8, <1>9, <2>1 DEF Step
  <1>10. ASSUME NEW p \in Procs, NEW c \in Calls \cap LockedCalls, Invoke(p, c) PROVE Accepted'
    BY <1>10, SoundCalls, PermittedValid, AcceptedHandle DEF Invoke
  <1>11. ASSUME NEW p \in Procs, NEW c \in Calls \cap LockedCalls, Wait(p, c) PROVE Accepted'
    <2>1. /\ pc' = [pc EXCEPT ![p] = "blocked"] /\ call' = [call EXCEPT ![p] = c]
          /\ UNCHANGED <<runThread, mutex, sem, cond, issue>>
      BY <1>11 DEF Wait, Block, syncVars
    <2>2. Valid(p, c)
      BY <1>11, PermittedValid DEF Wait
    <2>3. ASSUME NEW q \in Procs, pc'[q] = "blocked" PROVE Valid(q, call'[q])
      BY <1>1, <2>1, <2>2, <2>3 DEF Accepted, CallsValid
    <2>4. CallsValid'
      BY <2>1, <2>3 DEF CallsValid, Valid
    <2> QED BY <2>1, <2>4 DEF Accepted, MutexesBound, NoCallRefused
  <1>12. ASSUME NEW p \in Procs, NEW c \in Calls \ LockedCalls, Unlocked(p, c) PROVE Accepted'
    BY <1>12, AcceptedUnlocked
  <1>13. CASE UNCHANGED vars
    BY <1>2, <1>13 DEF vars, schedVars, syncVars
  <1> QED
    BY <1>9, <1>10, <1>11, <1>12, <1>13 DEF Next, Finished

\* A lawful program that never preempts is never refused a call: what a thread may do
\* when it calls, it still may when its handler gets past schedLock, whatever the other
\* processors did meanwhile.
THEOREM CallsAreAccepted ==
    ASSUME Lawful, Unpreemptive
    PROVE  Spec => []NoCallRefused
  <1>1. Init => Accepted
    BY InitAccepted
  <1>2. Sound /\ Accepted /\ [Next]_vars => Accepted'
    BY AcceptedStep
  <1>3. Accepted => NoCallRefused
    BY DEF Accepted
  <1> QED
    BY <1>1, <1>2, <1>3, SoundAlways, PTL DEF Spec

-----------------------------------------------------------------------------
(* Owners can release *)

NoBroadcast == \A c \in Calls : c.f # "broadcast"

OwnersLive   == \A m \in Mutexes : mutex[m].owner # NULL => Alive(mutex[m].owner)
Apart(x)     == x.owner \notin ToSet(x.waiting)
OwnersApart  == \A m \in Mutexes : Apart(mutex[m])

\* What a thread may not own when the handler of its call c begins.
Entitled(p, c) ==
    /\ c.f = "exit" => \A m \in Mutexes : mutex[m].owner # runThread[p]
    /\ RecMax = 0 /\ c.f \in {"lock", "trylock"} => mutex[c.m].owner # runThread[p]
BlockedEntitled == \A p \in Procs : pc[p] = "blocked" => Entitled(p, call[p])

\* Where nothing is locked twice, whoever sleeps on a condition does not own its mutex.
Gave(p)  == pc[p] = "attempt" /\ call[p].f \in WaitFamily => mutex[call[p].m].owner # runThread[p]
Plain ==
    /\ \A m \in Mutexes : mutex[m].rec = 0
    /\ \A k \in Conds : cond[k].waiting # <<>> =>
          mutex[cond[k].mutex].owner \notin ToSet(cond[k].waiting)
    /\ \A p \in Procs : Gave(p)

OwnersInv == OwnersLive /\ OwnersApart /\ BlockedEntitled /\ (RecMax = 0 => Plain)

\* Nobody dies in a handler but the thread that exits.
LEMMA HandleLives ==
    ASSUME Sound, NEW p \in Procs, NEW c \in LockedCalls, Handle(p, c),
           NEW t \in Threads, Alive(t), c.f = "exit" => t # runThread[p]
    PROVE  Alive(t)'
  <1>1. status \in [Threads -> {"UNBORN", "READY", "RUNNING", "WAITING", "DEAD"}]
    BY DEF Sound, Base, IInv, TypeOK, ThreadTypes
  <1>2. ASSUME status'[t] \in {status[t], "READY", "RUNNING", "WAITING"} PROVE Alive(t)'
    BY <1>2 DEF Alive
  <1>3. ASSUME NEW u, Awake(u) PROVE Alive(t)'
    BY <1>1, <1>2, <1>3 DEF Awake
  <1>4. ASSUME NEW u, NEW s \in {"READY", "RUNNING", "WAITING"}, status' = [status EXCEPT ![u] = s]
        PROVE  Alive(t)'
    BY <1>1, <1>2, <1>4
  <1>5. CASE UNCHANGED status
    BY <1>2, <1>5
  <1>6. ASSUME NEW why, Fail(why) PROVE Alive(t)'
    BY <1>5, <1>6 DEF Fail
  <1>7. CASE c.f = "create"
    <2>1. CreateThread(p, c.attr)
      BY <1>7 DEF Handle
    <2>2. \/ \E u : status' = [status EXCEPT ![u] = "RUNNING"]
          \/ \E u, v : status' = [status EXCEPT ![u] = "RUNNING", ![v] = "READY"]
          \/ \E u : status' = [status EXCEPT ![u] = "READY"]
      BY <2>1 DEF CreateThread
    <2>3. ASSUME NEW u, NEW v, status' = [status EXCEPT ![u] = "RUNNING", ![v] = "READY"]
          PROVE  Alive(t)'
      BY <1>1, <1>2, <2>3
    <2> QED BY <1>4, <2>2, <2>3
  <1>8. CASE c.f = "exit"
    <2>1. ExitThread(p)
      BY <1>8 DEF Handle
    <2>2. status'[t] \in {status[t], "READY"}
      BY <1>8, <2>1 DEF ExitThread
    <2> QED BY <1>2, <2>2
  <1>9. CASE c.f \in {"join", "joinAll"}
    BY <1>4, <1>5, <1>9 DEF Handle, Join, JoinAll
  <1>10. CASE c.f \in {"lock", "trylock"}
    BY <1>4, <1>5, <1>6, <1>10 DEF Handle, LockMutex
  <1>11. CASE c.f = "unlock"
    <2>1. UnLockMutex(p, c.m)
      BY <1>11 DEF Handle
    <2> QED BY <1>3, <1>5, <1>6, <2>1 DEF UnLockMutex
  <1>12. CASE c.f \in {"post", "semwait"}
    BY <1>3, <1>4, <1>5, <1>6, <1>12 DEF Handle, PostSem, WaitSem
  <1>13. CASE c.f \in {"signal", "broadcast"}
    <2>1. PICK b \in BOOLEAN : SignalCond(p, c.c, b)
      BY <1>13 DEF Handle
    <2> QED BY <1>3, <1>5, <1>6, <2>1 DEF SignalCond
  <1>14. CASE c.f \in {"wait", "timedwait"}
    <2>1. PICK timed \in BOOLEAN : WaitCond(p, c.c, c.m, timed)
      BY <1>14 DEF Handle
    <2> QED BY <1>3, <1>4, <1>5, <1>6, <2>1 DEF WaitCond, CondEnqueue
  <1> QED
    BY <1>7, <1>8, <1>9, <1>10, <1>11, <1>12, <1>13, <1>14 DEF Handle

\* What the handlers do to the record of a mutex leaves its owner out of its queue.
LEMMA ApartRecords ==
    ASSUME NEW x \in MutexRecord, Coherent(x), Apart(x), IsInjective(x.waiting),
           NEW t \in Threads, t \notin ToSet(x.waiting)
    PROVE  /\ Apart([x EXCEPT !.rec = @ + 1])
           /\ x.status = "FREE" => Apart([x EXCEPT !.status = "LOCKED", !.owner = t])
           /\ x.owner # t => Apart([x EXCEPT !.waiting = Append(@, t)])
           /\ Apart(CondLocked(x, t))
  <1>1. Apart([x EXCEPT !.rec = @ + 1])
    BY DEF Apart, MutexRecord
  <1>2. ASSUME x.status = "FREE" PROVE Apart([x EXCEPT !.status = "LOCKED", !.owner = t])
    <2>1. x.waiting = <<>>
      BY <1>2 DEF Coherent
    <2> QED BY <2>1, EmptyQueue DEF Apart, MutexRecord
  <1>3. ASSUME x.owner # t PROVE Apart([x EXCEPT !.waiting = Append(@, t)])
    <2>1. ToSet(Append(x.waiting, t)) = ToSet(x.waiting) \cup {t}
      BY AppendQueue DEF MutexRecord
    <2> QED BY <1>3, <2>1 DEF Apart, MutexRecord
  <1> QED BY <1>1, <1>2, <1>3 DEF CondLocked

\* A mutex that is released goes to a waiter that leaves the queue, or to nobody.
LEMMA ReleasedApart ==
    ASSUME Sound, OwnersApart, NEW m \in Mutexes
    PROVE  /\ Apart(Released(m))
           /\ mutex[m].rec = 0 =>
                 Released(m).owner = NULL \/ Released(m).owner \in ToSet(mutex[m].waiting)
           /\ mutex[m].rec = 0 => Released(m).rec = 0
  <1>1. mutex[m] \in MutexRecord /\ mutex[m].rec \in Nat /\ Apart(mutex[m])
    BY DEF Sound, Base, IInv, TypeOK, ObjectTypes, MutexRecord, OwnersApart
  <1>2. mutex[m].waiting \in Seq(Threads) /\ IsInjective(mutex[m].waiting)
    BY Sleepers DEF Sound
  <1>3. CASE mutex[m].rec > 0
    <2>1. Released(m) = [mutex[m] EXCEPT !.rec = @ - 1]
      BY <1>3 DEF Released
    <2>2. Released(m).owner = mutex[m].owner /\ Released(m).waiting = mutex[m].waiting
      BY <1>1, <2>1 DEF MutexRecord
    <2> QED BY <1>1, <1>3, <2>2 DEF Apart
  <1>4. CASE mutex[m].rec = 0 /\ mutex[m].waiting # <<>>
    <2>1. Released(m) = [mutex[m] EXCEPT !.owner = Head(mutex[m].waiting), !.waiting = Tail(mutex[m].waiting)]
      BY <1>4 DEF Released
    <2>2. /\ Released(m).owner = Head(mutex[m].waiting) /\ Released(m).waiting = Tail(mutex[m].waiting)
          /\ Released(m).rec = 0
      BY <1>1, <1>4, <2>1 DEF MutexRecord
    <2> QED BY <1>2, <1>4, <2>2, TailQueue DEF Apart
  <1>5. CASE mutex[m].rec = 0 /\ mutex[m].waiting = <<>>
    <2>1. Released(m) = [mutex[m] EXCEPT !.status = "FREE", !.owner = NULL, !.waiting = <<>>]
      BY <1>5 DEF Released
    <2>2. Released(m).owner = NULL /\ Released(m).waiting = <<>> /\ Released(m).rec = 0
      BY <1>1, <1>5, <2>1 DEF MutexRecord
    <2> QED BY <2>2, EmptyQueue DEF Apart
  <1> QED BY <1>1, <1>3, <1>4, <1>5

\* No thread sleeps on two conditions.
LEMMA CondsApart ==
    ASSUME Sound, NEW j \in Conds, NEW k \in Conds, j # k
    PROVE  ToSet(cond[j].waiting) \cap ToSet(cond[k].waiting) = {}
  <1> DEFINE x == <<"cond", j>>
             y == <<"cond", k>>
  <1>1. Holds(WaitQueue, With("WAITING")) /\ DOMAIN WaitQueue = WaitSlots
    BY Slots DEF Sound, ThreadsInv, PlaceInv, AtWaits
  <1>2. /\ x \in WaitSlots /\ y \in WaitSlots /\ x # y
        /\ WaitQueue[x] = cond[j].waiting /\ WaitQueue[y] = cond[k].waiting
    BY Slots
  <1> HIDE DEF x, y
  <1> QED BY <1>1, <1>2 DEF Holds

\* What a signal on condition k does to its mutex.
Woken(k, broadcast) ==
    LET taken == CondLocked(mutex[cond[k].mutex], Head(cond[k].waiting))
    IN  IF broadcast THEN [taken EXCEPT !.waiting = @ \o Tail(cond[k].waiting)] ELSE taken

\* A signal changes nothing, or wakes the sleepers of k.
LEMMA SignalMutex ==
    ASSUME NEW p \in Procs, NEW k \in Conds, NEW broadcast \in BOOLEAN, SignalCond(p, k, broadcast)
    PROVE  \/ UNCHANGED <<mutex, cond>>
           \/ /\ cond[k].waiting # <<>> /\ cond[k].mutex # NULL
              /\ mutex' = [mutex EXCEPT ![cond[k].mutex] = Woken(k, broadcast)]
              /\ cond' = [cond EXCEPT ![k] = Signalled(cond[k], broadcast)]
  BY DEF SignalCond, Woken

\* The first sleeper does not wait for a mutex that it gets, nor do those of a broadcast.
LEMMA WokenApart ==
    ASSUME Sound, OwnersApart, NEW k \in Conds, cond[k].waiting # <<>>, cond[k].mutex # NULL,
           NEW broadcast \in BOOLEAN, broadcast => Plain
    PROVE  /\ cond[k].mutex \in Mutexes
           /\ Apart(Woken(k, broadcast))
           /\ Woken(k, broadcast).owner \in {mutex[cond[k].mutex].owner, Head(cond[k].waiting)}
           /\ mutex[cond[k].mutex].owner # Head(cond[k].waiting) =>
                 Woken(k, broadcast).rec = mutex[cond[k].mutex].rec
  <1> DEFINE m     == cond[k].mutex
             first == Head(cond[k].waiting)
             rest  == Tail(cond[k].waiting)
             x     == mutex[m]
             taken == CondLocked(x, first)
  <1>1. m \in Mutexes /\ x \in MutexRecord /\ Coherent(x) /\ Apart(x)
    BY DEF Sound, Base, IInv, TypeOK, ObjectTypes, CondRecord, MutexCoherent, OwnersApart
  <1>2. /\ first \in Threads /\ rest \in Seq(Threads) /\ IsInjective(rest) /\ first \notin ToSet(rest)
        /\ ToSet(rest) \subseteq ToSet(cond[k].waiting) /\ first \in ToSet(cond[k].waiting)
    BY Sleepers, TailQueue DEF Sound
  <1>3. /\ x.waiting \in Seq(Threads) /\ IsInjective(x.waiting)
        /\ ToSet(x.waiting) \cap ToSet(cond[k].waiting) = {}
    BY <1>1, Sleepers DEF Sound
  <1>4. Apart(taken) /\ taken \in MutexRecord
    BY <1>1, <1>2, <1>3, ApartRecords, CondLockedType
  <1>5. taken.owner \in {x.owner, first} /\ (x.owner # first => taken.rec = x.rec)
    BY <1>1 DEF CondLocked, MutexRecord
  <1>6. taken.waiting = x.waiting \/ taken.waiting = Append(x.waiting, first)
    BY <1>1 DEF CondLocked, MutexRecord
  <1>7. CASE broadcast
    <2> DEFINE y == [taken EXCEPT !.waiting = @ \o rest]
    <2>1. /\ taken.waiting \in Seq(Threads) /\ IsInjective(taken.waiting)
          /\ ToSet(taken.waiting) \cap ToSet(rest) = {}
      <3>1. first \notin ToSet(x.waiting)
        BY <1>2, <1>3
      <3>2. CASE taken.waiting = x.waiting
        BY <1>2, <1>3, <3>2
      <3>3. CASE taken.waiting = Append(x.waiting, first)
        <4>1. /\ taken.waiting \in Seq(Threads) /\ IsInjective(taken.waiting)
              /\ ToSet(taken.waiting) = ToSet(x.waiting) \cup {first}
          BY <1>2, <1>3, <3>1, <3>3, AppendQueue
        <4> QED BY <1>2, <1>3, <4>1
      <3> QED BY <1>6, <3>2, <3>3
    <2>2. ToSet(taken.waiting \o rest) = ToSet(taken.waiting) \cup ToSet(rest)
      BY <1>2, <2>1, ConcatQueue
    <2>3. x.owner \notin ToSet(cond[k].waiting)
      BY <1>7 DEF Plain
    <2>4. y.owner = taken.owner /\ y.waiting = taken.waiting \o rest /\ y.rec = taken.rec
      BY <1>4 DEF MutexRecord
    <2>5. taken.owner \notin ToSet(rest)
      BY <1>2, <1>5, <2>3
    <2>6. Apart(y)
      BY <1>4, <2>2, <2>4, <2>5 DEF Apart
    <2>7. Woken(k, broadcast) = y
      BY <1>7 DEF Woken
    <2> HIDE DEF taken, y
    <2> QED BY <1>1, <1>5, <2>4, <2>6, <2>7
  <1>8. CASE ~broadcast
    BY <1>1, <1>4, <1>5, <1>8 DEF Woken
  <1> QED BY <1>7, <1>8

LEMMA HandleApart ==
    ASSUME Sound, OwnersApart, NEW p \in Procs, NEW c \in LockedCalls, Handle(p, c),
           c.f = "broadcast" => Plain
    PROVE  OwnersApart'
  <1>1. mutex \in [Mutexes -> MutexRecord]
    BY DEF Sound, Base, IInv, TypeOK, ObjectTypes
  <1>2. CASE UNCHANGED mutex
    BY <1>2 DEF OwnersApart
  <1>3. ASSUME NEW m \in Mutexes, NEW y, mutex' = [mutex EXCEPT ![m] = y], Apart(y)
        PROVE  OwnersApart'
    BY <1>1, <1>3 DEF OwnersApart, Apart
  <1>4. ASSUME NEW d, Start(p, d) PROVE runThread[p] \in Threads /\ runThread[p] # NULL
    BY <1>4, Started, NullAssumption DEF Sound, Base
  <1>5. ASSUME NEW m \in Mutexes, mutex' = [mutex EXCEPT ![m] = Released(m)]
        PROVE  OwnersApart'
    BY <1>3, <1>5, ReleasedApart
  <1>6. CASE c.f \in {"lock", "trylock"} /\ LockMutex(p, c.m, c.f = "trylock")
    <2> DEFINE x == mutex[c.m]
               t == runThread[p]
    <2>1. c.m \in Mutexes /\ t \in Threads /\ t # NULL
      BY <1>4, <1>6, CallShape DEF LockMutex
    <2>2. x \in MutexRecord /\ Coherent(x) /\ Apart(x)
      BY <1>1, <2>1 DEF Sound, Base, MutexCoherent, OwnersApart
    <2>3. t \notin ToSet(x.waiting) /\ IsInjective(x.waiting)
      BY <2>1, Sleepers DEF Sound
    <2>4. \/ UNCHANGED mutex
          \/ mutex' = [mutex EXCEPT ![c.m] = [x EXCEPT !.rec = @ + 1]]
          \/ /\ x.status = "FREE"
             /\ mutex' = [mutex EXCEPT ![c.m] = [x EXCEPT !.status = "LOCKED", !.owner = t]]
          \/ /\ x.owner # t
             /\ mutex' = [mutex EXCEPT ![c.m] = [x EXCEPT !.waiting = Append(@, t)]]
      BY <1>1, <1>6, <2>1 DEF LockMutex
    <2>5. /\ Apart([x EXCEPT !.rec = @ + 1])
          /\ x.status = "FREE" => Apart([x EXCEPT !.status = "LOCKED", !.owner = t])
          /\ x.owner # t => Apart([x EXCEPT !.waiting = Append(@, t)])
      BY <2>1, <2>2, <2>3, ApartRecords
    <2> HIDE DEF x, t
    <2> QED BY <1>2, <1>3, <2>1, <2>4, <2>5
  <1>7. CASE c.f = "unlock" /\ UnLockMutex(p, c.m)
    BY <1>2, <1>5, <1>7, CallShape DEF UnLockMutex
  <1>8. CASE c.f \in {"wait", "timedwait"} /\ WaitCond(p, c.c, c.m, c.f = "timedwait")
    BY <1>2, <1>5, <1>8, CallShape DEF WaitCond
  <1>9. CASE c.f \in {"signal", "broadcast"} /\ SignalCond(p, c.c, c.f = "broadcast")
    <2>1. c.c \in Conds
      BY <1>9, CallShape
    <2> QED BY <1>2, <1>3, <1>9, <2>1, SignalMutex, WokenApart
  <1> QED
    BY <1>2, <1>6, <1>7, <1>8, <1>9 DEF Handle, syncVars, PostSem, WaitSem

\* The mutex x, never locked twice, becomes y at the hands of p without a signal.
Takes(p, x, y) ==
    /\ y.rec = 0
    /\ y.owner \in {x.owner, NULL, runThread[p]} \cup ToSet(x.waiting)

LEMMA HandleTakes ==
    ASSUME Sound, OwnersApart, Plain, RecMax = 0, NEW p \in Procs, NEW c \in LockedCalls,
           Handle(p, c), Entitled(p, c), c.f \notin {"signal", "broadcast"}
    PROVE  \A m \in Mutexes : Takes(p, mutex[m], mutex'[m])
  <1>1. mutex \in [Mutexes -> MutexRecord] /\ \A m \in Mutexes : mutex[m].rec = 0
    BY DEF Sound, Base, IInv, TypeOK, ObjectTypes, Plain
  <1>2. CASE UNCHANGED mutex
    BY <1>1, <1>2 DEF Takes
  <1>3. ASSUME NEW m \in Mutexes, NEW y, mutex' = [mutex EXCEPT ![m] = y], Takes(p, mutex[m], y)
        PROVE  \A n \in Mutexes : Takes(p, mutex[n], mutex'[n])
    BY <1>1, <1>3 DEF Takes
  <1>4. ASSUME NEW m \in Mutexes, mutex' = [mutex EXCEPT ![m] = Released(m)]
        PROVE  \A n \in Mutexes : Takes(p, mutex[n], mutex'[n])
    <2>1. Takes(p, mutex[m], Released(m))
      BY <1>1, ReleasedApart DEF Takes
    <2> QED BY <1>3, <1>4, <2>1
  <1>5. CASE c.f \in {"lock", "trylock"} /\ LockMutex(p, c.m, c.f = "trylock")
    <2> DEFINE x == mutex[c.m]
               t == runThread[p]
    <2>1. c.m \in Mutexes /\ x \in MutexRecord /\ x.rec = 0
      BY <1>1, <1>5, CallShape
    <2>2. x.owner # t
      BY <1>5 DEF Entitled
    <2>3. \/ UNCHANGED mutex
          \/ mutex' = [mutex EXCEPT ![c.m] = [x EXCEPT !.status = "LOCKED", !.owner = t]]
          \/ mutex' = [mutex EXCEPT ![c.m] = [x EXCEPT !.waiting = Append(@, t)]]
      BY <1>1, <1>5, <2>1, <2>2 DEF LockMutex
    <2>4. /\ Takes(p, x, [x EXCEPT !.status = "LOCKED", !.owner = t])
          /\ Takes(p, x, [x EXCEPT !.waiting = Append(@, t)])
      BY <2>1 DEF Takes, MutexRecord
    <2> HIDE DEF x, t
    <2> QED BY <1>2, <1>3, <2>1, <2>3, <2>4 DEF x
  <1>6. CASE c.f = "unlock" /\ UnLockMutex(p, c.m)
    BY <1>2, <1>4, <1>6, CallShape DEF UnLockMutex
  <1>7. CASE c.f \in {"wait", "timedwait"} /\ WaitCond(p, c.c, c.m, c.f = "timedwait")
    BY <1>2, <1>4, <1>7, CallShape DEF WaitCond
  <1> QED
    BY <1>2, <1>5, <1>6, <1>7 DEF Handle, syncVars, PostSem, WaitSem

\* The sleepers of a condition that nobody touches still do not own its mutex.
LEMMA SleepersPlain ==
    ASSUME Sound, Plain, NEW p \in Procs, runThread[p] # NULL,
           \A m \in Mutexes : Takes(p, mutex[m], mutex'[m]),
           NEW k \in Conds, cond[k].waiting # <<>>
    PROVE  mutex'[cond[k].mutex].owner \notin ToSet(cond[k].waiting)
  <1> DEFINE m == cond[k].mutex
  <1>1. m \in Mutexes
    BY DEF Sound, Base, CondInv, CondKnowsMutex, IInv, TypeOK, ObjectTypes, CondRecord
  <1>2. /\ ToSet(cond[k].waiting) \subseteq With("WAITING")
        /\ ToSet(mutex[m].waiting) \cap ToSet(cond[k].waiting) = {}
        /\ runThread[p] \notin With("WAITING")
    BY <1>1, Sleepers DEF Sound
  <1>3. NULL \notin With("WAITING") /\ mutex[m].owner \notin ToSet(cond[k].waiting)
    BY NullAssumption DEF With, Plain
  <1>4. mutex'[m].owner \in {mutex[m].owner, NULL, runThread[p]} \cup ToSet(mutex[m].waiting)
    BY <1>1 DEF Takes
  <1> QED BY <1>2, <1>3, <1>4

\* The condition k gets thread t of p, which has just let its mutex go.
LEMMA AsleepPlain ==
    ASSUME Sound, NEW p \in Procs, runThread[p] # NULL, NEW k \in Conds,
           NEW o, o # runThread[p], o \notin ToSet(cond[k].waiting)
    PROVE  o \notin ToSet(Append(cond[k].waiting, runThread[p]))
  <1>1. /\ cond[k].waiting \in Seq(Threads) /\ IsInjective(cond[k].waiting)
        /\ runThread[p] \notin ToSet(cond[k].waiting) /\ runThread[p] \in Threads
    BY Sleepers DEF Sound, Base, IInv, TypeOK, ThreadTypes
  <1>2. ToSet(Append(cond[k].waiting, runThread[p])) = ToSet(cond[k].waiting) \cup {runThread[p]}
    BY <1>1, AppendQueue
  <1> QED BY <1>2

\* What a wait that is not refused does: its thread sleeps, or will, and does not own the
\* mutex any more.
LEMMA WaitMutex ==
    ASSUME Sound, OwnersApart, Plain, NEW p \in Procs, NEW k \in Conds, NEW m \in Mutexes,
           NEW timed \in BOOLEAN, WaitCond(p, k, m, timed)
    PROVE  \/ UNCHANGED <<mutex, cond>> /\ pc'[p] # "attempt"
           \/ /\ cond[k].mutex \in {NULL, m}
              /\ \/ cond' = [cond EXCEPT ![k].mutex = m]
                 \/ cond' = [cond EXCEPT ![k].mutex = m, ![k].waiting = Append(@, runThread[p])]
              /\ mutex'[m].owner # runThread[p]
              /\ pc'[p] = "attempt" => UNCHANGED runThread
  <1>1. /\ mutex \in [Mutexes -> MutexRecord] /\ pc \in [Procs -> Phases]
        /\ mutex[m].rec = 0
    BY DEF Sound, Base, IInv, TypeOK, ObjectTypes, HandlerTypes, Plain
  <1>2. /\ runThread[p] \in Threads /\ runThread[p] # NULL
        /\ pc[p] # "attempt"
    BY Started, NullAssumption DEF Sound, Base, WaitCond, Start
  <1>3. runThread[p] \notin With("WAITING") /\ ToSet(mutex[m].waiting) \subseteq With("WAITING")
    BY <1>2, Sleepers DEF Sound
  <1>4. Released(m).owner # runThread[p]
    BY <1>1, <1>2, <1>3, ReleasedApart
  <1>5. CASE UNCHANGED <<mutex, cond>> /\ UNCHANGED pc
    BY <1>2, <1>5
  <1>6. CASE UNCHANGED <<mutex, cond>> /\ pc' = [pc EXCEPT ![p] = "run"]
    BY <1>1, <1>6
  <1>7. CASE /\ cond[k].mutex \in {NULL, m} /\ mutex[m].owner \in {NULL, runThread[p]}
             /\ mutex' = IF mutex[m].owner = NULL THEN mutex
                         ELSE [mutex EXCEPT ![m] = Released(m)]
             /\ cond' = [cond EXCEPT ![k].mutex = m, ![k].waiting = Append(@, runThread[p])]
             /\ \E e : Suspend(p, e)
    <2>1. pc'[p] = "choose"
      BY <1>1, <1>7 DEF Suspend, Hold
    <2>2. mutex'[m].owner # runThread[p]
      BY <1>1, <1>2, <1>4, <1>7
    <2> QED BY <1>7, <2>1, <2>2
  <1>8. CASE /\ cond[k].mutex \in {NULL, m}
             /\ mutex' = [mutex EXCEPT ![m] = Released(m)]
             /\ cond' = [cond EXCEPT ![k].mutex = m] /\ UNCHANGED runThread
    BY <1>1, <1>4, <1>8
  <1> QED
    BY <1>5, <1>6, <1>7, <1>8 DEF WaitCond, CondEnqueue, Fail

LEMMA HandlePlain ==
    ASSUME Sound, OwnersApart, Plain, RecMax = 0, NEW p \in Procs, NEW c \in LockedCalls,
           Handle(p, c), Entitled(p, c)
    PROVE  Plain'
  <1>1. /\ mutex \in [Mutexes -> MutexRecord] /\ cond \in [Conds -> CondRecord]
        /\ pc \in [Procs -> Phases] /\ call \in [Procs -> LockedCalls \cup {NoCall}]
    BY DEF Sound, Base, IInv, TypeOK, ObjectTypes, HandlerTypes
  <1>2. PICK d : Start(p, d)
    BY DEF Handle, CreateThread, ExitThread, Join, JoinAll, LockMutex, UnLockMutex,
           PostSem, WaitSem, SignalCond, WaitCond
  <1>3. runThread[p] \in Threads /\ runThread[p] # NULL
    BY <1>2, Started, NullAssumption DEF Sound, Base
  <1>4. \A q \in Procs : pc'[q] = "attempt" => q = p /\ call'[p] = c
    BY <1>1, HandlePhase DEF Inside, Sound, Base
  <1>5. ASSUME NEW k \in Conds, cond[k].waiting # <<>>
        PROVE  cond[k].mutex \in Mutexes /\ mutex[cond[k].mutex].owner \notin ToSet(cond[k].waiting)
    BY <1>1, <1>5 DEF Sound, Base, CondInv, CondKnowsMutex, CondRecord, Plain
  <1>6. CASE c.f \notin {"signal", "broadcast"}
    <2>1. \A m \in Mutexes : Takes(p, mutex[m], mutex'[m])
      BY <1>6, HandleTakes
    <2>2. \A m \in Mutexes : mutex'[m].rec = 0
      BY <2>1 DEF Takes
    <2>3. ASSUME NEW k \in Conds, cond[k].waiting # <<>>
          PROVE  mutex'[cond[k].mutex].owner \notin ToSet(cond[k].waiting)
      BY <1>3, <2>1, <2>3, SleepersPlain
    <2>4. CASE c.f \notin WaitFamily
      <3>1. UNCHANGED cond
        BY <1>6, <2>4 DEF Handle, WaitFamily, syncVars, LockMutex, UnLockMutex, PostSem, WaitSem
      <3>2. \A q \in Procs : Gave(q)'
        BY <1>4, <2>4 DEF Gave
      <3> QED BY <2>2, <2>3, <3>1, <3>2 DEF Plain
    <2>5. CASE c.f \in WaitFamily
      <3> DEFINE m == c.m
                 j == c.c
      <3>1. m \in Mutexes /\ j \in Conds /\ \E timed \in BOOLEAN : WaitCond(p, j, m, timed)
        BY <2>5, CallShape DEF Handle, WaitFamily
      <3>2. CASE UNCHANGED <<mutex, cond>> /\ pc'[p] # "attempt"
        <4>1. \A q \in Procs : Gave(q)'
          BY <1>4, <3>2 DEF Gave
        <4> QED BY <2>2, <2>3, <3>2, <4>1 DEF Plain
      <3>3. CASE /\ cond[j].mutex \in {NULL, m}
                 /\ \/ cond' = [cond EXCEPT ![j].mutex = m]
                    \/ cond' = [cond EXCEPT ![j].mutex = m, ![j].waiting = Append(@, runThread[p])]
                 /\ mutex'[m].owner # runThread[p]
                 /\ pc'[p] = "attempt" => UNCHANGED runThread
        <4>1. \A q \in Procs : Gave(q)'
          BY <1>4, <3>3 DEF Gave
        <4>2. \A k \in Conds \ {j} : cond'[k] = cond[k]
          BY <1>1, <3>3
        <4>3. mutex'[m].owner \notin ToSet(cond[j].waiting)
          <5>1. CASE cond[j].waiting = <<>>
            BY <5>1, EmptyQueue
          <5>2. CASE cond[j].waiting # <<>>
            <6>1. cond[j].mutex = m
              BY <1>5, <3>1, <3>3, <5>2, CondNullAssumption
            <6> QED BY <2>3, <3>1, <5>2, <6>1
          <5> QED BY <5>1, <5>2
        <4>4. /\ cond'[j].mutex = m
              /\ cond'[j].waiting \in {cond[j].waiting, Append(cond[j].waiting, runThread[p])}
          BY <1>1, <3>1, <3>3 DEF CondRecord
        <4>5. mutex'[m].owner \notin ToSet(cond'[j].waiting)
          BY <1>3, <3>1, <3>3, <4>3, <4>4, AsleepPlain
        <4> HIDE DEF m, j
        <4> QED BY <2>2, <2>3, <4>1, <4>2, <4>4, <4>5 DEF Plain
      <3> HIDE DEF m, j
      <3> QED BY <3>1, <3>2, <3>3, WaitMutex
    <2> QED BY <2>4, <2>5
  <1>7. CASE c.f \in {"signal", "broadcast"}
    <2> DEFINE j     == c.c
               m     == cond[j].mutex
               all   == c.f = "broadcast"
               first == Head(cond[j].waiting)
    <2>1. j \in Conds /\ all \in BOOLEAN /\ SignalCond(p, j, all)
      BY <1>7, CallShape DEF Handle
    <2>2. \A q \in Procs : Gave(q)'
      BY <1>4, <1>7 DEF Gave, WaitFamily
    <2>3. CASE UNCHANGED <<mutex, cond>>
      BY <2>2, <2>3 DEF Plain
    <2>4. CASE /\ cond[j].waiting # <<>> /\ m # NULL
               /\ mutex' = [mutex EXCEPT ![m] = Woken(j, all)]
               /\ cond' = [cond EXCEPT ![j] = Signalled(cond[j], all)]
      <3>1. /\ m \in Mutexes /\ Woken(j, all).owner \in {mutex[m].owner, first}
            /\ mutex[m].owner # first => Woken(j, all).rec = mutex[m].rec
        BY <2>1, <2>4, WokenApart
      <3>2. /\ first \in ToSet(cond[j].waiting) /\ first \notin ToSet(Tail(cond[j].waiting))
            /\ ToSet(Tail(cond[j].waiting)) \subseteq ToSet(cond[j].waiting)
        BY <2>1, <2>4, Sleepers, TailQueue DEF Sound
      <3>3. mutex[m].owner \notin ToSet(cond[j].waiting)
        BY <1>5, <2>1, <2>4
      <3>4. \A n \in Mutexes : mutex'[n].rec = 0
        BY <1>1, <2>4, <3>1, <3>2, <3>3 DEF Plain
      <3>5. \A n \in Mutexes : mutex'[n].owner \in {mutex[n].owner, first}
        BY <1>1, <2>4, <3>1
      <3>6. ASSUME NEW k \in Conds, cond'[k].waiting # <<>>
            PROVE  mutex'[cond'[k].mutex].owner \notin ToSet(cond'[k].waiting)
        <4>1. CASE k = j
          <5>1. cond'[j] = Signalled(cond[j], all) /\ cond[j] \in CondRecord
            BY <1>1, <2>1, <2>4
          <5>2. /\ cond'[j].waiting = IF all THEN <<>> ELSE Tail(cond[j].waiting)
                /\ cond'[j].mutex = IF all \/ Tail(cond[j].waiting) = <<>> THEN NULL ELSE m
            BY <5>1 DEF Signalled, CondRecord
          <5>3. cond'[j].waiting = Tail(cond[j].waiting) /\ cond'[j].mutex = m
            BY <3>6, <4>1, <5>2
          <5> QED BY <3>1, <3>2, <3>3, <3>5, <4>1, <5>3
        <4>2. CASE k # j
          <5>1. cond'[k] = cond[k]
            BY <1>1, <2>4, <4>2
          <5>2. cond[k].mutex \in Mutexes /\ mutex[cond[k].mutex].owner \notin ToSet(cond[k].waiting)
            BY <1>5, <3>6, <5>1
          <5>3. first \notin ToSet(cond[k].waiting)
            BY <2>1, <3>2, <4>2, CondsApart
          <5> QED BY <3>5, <5>1, <5>2, <5>3
        <4> QED BY <4>1, <4>2
      <3> QED BY <2>2, <3>4, <3>6 DEF Plain
    <2> HIDE DEF j, all
    <2> QED BY <2>1, <2>3, <2>4, SignalMutex
  <1> QED BY <1>6, <1>7

\* A handler leaves the threads of the other processors where they are, or a new one
\* takes the place of one of them.
LEMMA HandleSuccessors ==
    ASSUME Sound, NEW p \in Procs, NEW c \in LockedCalls, Handle(p, c),
           NEW q \in Procs \ {p}, runThread[q] # NULL
    PROVE  runThread'[q] = runThread[q] \/ (runThread'[q] \in Unborn /\ UNCHANGED mutex)
  <1>1. runThread \in [Procs -> Threads \cup {NULL}]
    BY DEF Sound, Base, IInv, TypeOK, ThreadTypes
  <1>2. CASE c.f \notin {"create", "exit"}
    BY <1>1, <1>2, HandleEnds DEF Ends, Fail, Leaked, Suspend
  <1>3. CASE c.f = "exit"
    BY <1>1, <1>3 DEF Handle, ExitThread, Suspend
  <1>4. CASE c.f = "create"
    <2>1. CreateThread(p, c.attr) /\ UNCHANGED mutex
      BY <1>4 DEF Handle, syncVars
    <2>2. \E t \in Unborn : \/ \E v \in Procs : runThread' = [runThread EXCEPT ![v] = t]
                            \/ UNCHANGED runThread
      BY <2>1 DEF CreateThread, IdleProcs
    <2> QED BY <1>1, <2>1, <2>2
  <1> QED BY <1>2, <1>3, <1>4

\* A handler ends its first part, or is refused and nothing has changed.
LEMMA HandleMoves ==
    ASSUME IInv, NEW p \in Procs, NEW c \in LockedCalls, Handle(p, c)
    PROVE  pc'[p] # "blocked" \/ UNCHANGED <<runThread, status, pc, call, mutex, cond>>
  <1> DEFINE Moved == pc'[p] # "blocked"
             Stays == UNCHANGED <<runThread, status, pc, call>>
  <1>1. pc \in [Procs -> Phases]
    BY DEF IInv, TypeOK, HandlerTypes
  <1>2. ASSUME NEW why, Fail(why) PROVE Stays
    BY <1>2 DEF Fail
  <1>3. ASSUME Leave(p) PROVE Moved
    BY <1>1, <1>3 DEF Leave
  <1>4. ASSUME NEW d, Suspend(p, d) \/ Attempt(p, d) PROVE Moved
    BY <1>1, <1>4 DEF Suspend, Attempt, Hold
  <1>5. ASSUME pc' = [pc EXCEPT ![p] = "run"] PROVE Moved
    BY <1>1, <1>5
  <1> HIDE DEF Moved, Stays
  <1>6. CASE c.f \in {"create", "exit", "join", "joinAll"}
    BY <1>3, <1>4, <1>6 DEF Handle, CreateThread, ExitThread, Join, JoinAll, Moved
  <1>7. CASE c.f \in {"lock", "trylock", "unlock"}
    BY <1>2, <1>3, <1>4, <1>7 DEF Handle, LockMutex, UnLockMutex, Moved, Stays
  <1>8. CASE c.f \in {"post", "semwait"}
    BY <1>2, <1>3, <1>4, <1>8 DEF Handle, PostSem, WaitSem, Moved, Stays
  <1>9. CASE c.f \in {"signal", "broadcast"}
    BY <1>2, <1>4, <1>9 DEF Handle, SignalCond, Moved, Stays
  <1>10. CASE c.f \in {"wait", "timedwait"}
    BY <1>2, <1>4, <1>5, <1>10 DEF Handle, WaitCond, CondEnqueue, Moved, Stays
  <1> QED
    BY <1>6, <1>7, <1>8, <1>9, <1>10 DEF Handle

\* A handler touches no call but its own.
LEMMA HandleCalls ==
    ASSUME IInv, NEW p \in Procs, NEW c \in LockedCalls, Handle(p, c), NEW q \in Procs \ {p}
    PROVE  call'[q] = call[q]
  <1>1. call \in [Procs -> LockedCalls \cup {NoCall}]
    BY DEF IInv, TypeOK, HandlerTypes
  <1>2. CASE c.f \notin {"create", "exit"}
    BY <1>1, <1>2, HandleEnds DEF Ends, Fail, Leave, Suspend, Attempt, Hold, Leaked
  <1>3. CASE c.f = "create"
    BY <1>1, <1>3 DEF Handle, CreateThread, Leave
  <1>4. CASE c.f = "exit"
    BY <1>1, <1>4 DEF Handle, ExitThread, Suspend, Hold
  <1> QED BY <1>2, <1>3, <1>4

\* A handler leaves the mutexes to threads that are alive, and gives none to a thread
\* whose call waits for schedLock.
LEMMA HandleOwners ==
    ASSUME Sound, OwnersLive, BlockedEntitled, NEW p \in Procs, NEW c \in LockedCalls,
           Handle(p, c), Entitled(p, c), pc'[p] # "blocked"
    PROVE  OwnersLive' /\ BlockedEntitled'
  <1>1. /\ mutex \in [Mutexes -> MutexRecord] /\ mutex' \in [Mutexes -> MutexRecord]
        /\ pc \in [Procs -> Phases] /\ call \in [Procs -> LockedCalls \cup {NoCall}]
        /\ runThread \in [Procs -> Threads \cup {NULL}]
    <2>1. IInv'
      BY HandleStep DEF Sound, Base
    <2> QED BY <2>1 DEF Sound, Base, IInv, TypeOK, ObjectTypes, HandlerTypes, ThreadTypes
  <1>2. PICK d : Start(p, d)
    BY DEF Handle, CreateThread, ExitThread, Join, JoinAll, LockMutex, UnLockMutex,
           PostSem, WaitSem, SignalCond, WaitCond
  <1>3. runThread[p] \in Threads /\ runThread[p] # NULL /\ issue = "none" /\ ~schedLock
    BY <1>2, Started, NullAssumption DEF Sound, Base, Start
  <1>4. MutexesKept(p)
    BY HandleMutexes DEF Sound
  <1>5. \A q \in Procs : runThread[q] # NULL => runThread[q] \in With("RUNNING")
    BY DEF Sound, ThreadsInv, PlaceInv, OnProcessors
  <1>6. c.f = "exit" => UNCHANGED mutex
    BY DEF Handle, syncVars
  <1>7. OwnersLive'
    <2> SUFFICES ASSUME NEW m \in Mutexes, NEW o \in Threads, o = mutex'[m].owner
                 PROVE  Alive(o)'
      BY <1>1 DEF OwnersLive, MutexRecord, Alive
    <2>1. CASE o = mutex[m].owner
      <3>1. Alive(o)
        BY <2>1, NullAssumption DEF OwnersLive
      <3>2. c.f = "exit" => o # runThread[p]
        BY <2>1 DEF Entitled
      <3> QED BY <3>1, <3>2, HandleLives
    <2>2. CASE o # mutex[m].owner
      <3>1. o = runThread[p] \/ o \in With("WAITING")
        BY <1>4, <2>2, NullAssumption DEF MutexesKept, Kept
      <3>2. Alive(o) /\ c.f # "exit"
        BY <1>3, <1>5, <1>6, <2>2, <3>1 DEF With, Alive
      <3> QED BY <3>2, HandleLives
    <2> QED BY <2>1, <2>2
  <1>8. BlockedEntitled'
    <2> SUFFICES ASSUME NEW q \in Procs, pc'[q] = "blocked" PROVE Entitled(q, call[q])'
      BY DEF BlockedEntitled
    <2>1. q # p /\ pc[q] = "blocked" /\ call'[q] = call[q]
      <3>1. q # p
        OBVIOUS
      <3>2. pc[q] = "blocked"
        BY <1>1, <3>1, HandlePhase DEF Sound, Base
      <3>3. call'[q] = call[q]
        BY <1>1, <3>1, HandleCalls DEF Sound, Base
      <3> QED BY <3>1, <3>2, <3>3
    <2>2. Entitled(q, call[q]) /\ runThread[q] # NULL /\ call[q] \in LockedCalls
      BY <2>1 DEF BlockedEntitled, Sound, Base, IInv, HandlersHaveThread
    <2>3. ASSUME NEW m \in Mutexes, mutex[m].owner # runThread[q]
          PROVE  mutex'[m].owner # runThread'[q]
      <3>1. CASE runThread'[q] = runThread[q]
        <4>1. runThread[q] # runThread[p] /\ runThread[q] \notin With("WAITING")
          BY <1>5, <2>1, <2>2 DEF Sound, ThreadsInv, PlaceInv, OnProcessors, With
        <4> QED BY <1>4, <2>2, <2>3, <3>1, <4>1 DEF MutexesKept, Kept
      <3>2. CASE runThread'[q] \in Unborn /\ UNCHANGED mutex
        <4>1. status[runThread'[q]] = "UNBORN" /\ runThread'[q] # NULL
          BY <3>2, NullAssumption DEF Unborn
        <4> QED BY <3>2, <4>1 DEF OwnersLive, Alive
      <3> QED BY <2>1, <2>2, <3>1, <3>2, HandleSuccessors
    <2>4. call[q].f \in {"lock", "trylock"} => call[q].m \in Mutexes
      BY <2>2, CallShape
    <2> QED BY <2>1, <2>2, <2>3, <2>4 DEF Entitled
  <1> QED BY <1>7, <1>8

\* What an owner relies on: nothing is locked twice, or nobody broadcasts.
Once == RecMax = 0 \/ NoBroadcast

LEMMA PermittedEntitled ==
    ASSUME Lawful, Sound, NEW p \in Procs, NEW c \in LockedCalls, MayCall(p, c)
    PROVE  Entitled(p, c)
  <1>1. Permitted(p, c) /\ Possible(p, c)
    BY DEF MayCall, Lawful
  <1>2. c.f = "exit" => \A m \in Mutexes : mutex[m].owner # runThread[p]
    BY <1>1 DEF Permitted, WaitFamily
  <1>3. ASSUME RecMax = 0, c.f \in {"lock", "trylock"} PROVE mutex[c.m].owner # runThread[p]
    <2>1. c.m \in Mutexes
      BY <1>3, CallShape
    <2>2. mutex[c.m].rec \in Nat
      BY <2>1 DEF Sound, Base, IInv, TypeOK, ObjectTypes, MutexRecord
    <2>3. mutex[c.m].owner = runThread[p] => mutex[c.m].rec < RecMax
      BY <1>1, <1>3 DEF Possible
    <2> QED BY <1>3, <2>2, <2>3
  <1> QED BY <1>2, <1>3 DEF Entitled

LEMMA OwnersHandle ==
    ASSUME Once, Sound, OwnersInv, NEW p \in Procs, NEW c \in Calls, c \in LockedCalls,
           Handle(p, c), Entitled(p, c)
    PROVE  OwnersInv'
  <1>1. CASE pc'[p] # "blocked"
    <2>1. OwnersLive' /\ BlockedEntitled'
      BY <1>1, HandleOwners DEF OwnersInv
    <2>2. c.f = "broadcast" => Plain
      BY DEF Once, NoBroadcast, OwnersInv
    <2>3. OwnersApart'
      BY <2>2, HandleApart DEF OwnersInv
    <2>4. RecMax = 0 => Plain'
      BY HandlePlain DEF OwnersInv
    <2> QED BY <2>1, <2>3, <2>4 DEF OwnersInv
  <1>2. CASE UNCHANGED <<runThread, status, pc, call, mutex, cond>>
    BY <1>2 DEF OwnersInv, OwnersLive, OwnersApart, Apart, BlockedEntitled, Entitled, Plain, Gave, Alive
  <1> QED BY <1>1, <1>2, HandleMoves DEF Sound, Base

\* The steps that leave the mutexes to their owners.
LEMMA OwnersFrame ==
    ASSUME Sound, OwnersInv, UNCHANGED mutex,
           \A t \in Threads : Alive(t) => Alive(t)',
           \A q \in Procs : pc'[q] \in {"blocked", "attempt"} =>
               pc[q] = pc'[q] /\ UNCHANGED <<call[q], runThread[q]>>,
           RecMax = 0 => \A k \in Conds : cond'[k].waiting # <<>> =>
               mutex[cond'[k].mutex].owner \notin ToSet(cond'[k].waiting)
    PROVE  OwnersInv'
  <1>1. mutex \in [Mutexes -> MutexRecord]
    BY DEF Sound, Base, IInv, TypeOK, ObjectTypes
  <1>2. OwnersLive'
    <2> SUFFICES ASSUME NEW m \in Mutexes, NEW o \in Threads, o = mutex[m].owner, Alive(o)
                 PROVE  Alive(o)'
      BY <1>1 DEF OwnersInv, OwnersLive, MutexRecord, Alive
    <2> QED OBVIOUS
  <1>3. OwnersApart'
    BY DEF OwnersInv, OwnersApart, Apart
  <1>4. BlockedEntitled'
    <2> SUFFICES ASSUME NEW q \in Procs, pc'[q] = "blocked" PROVE Entitled(q, call[q])'
      BY DEF BlockedEntitled
    <2>1. pc[q] = "blocked" /\ UNCHANGED <<call[q], runThread[q]>> /\ Entitled(q, call[q])
      BY DEF OwnersInv, BlockedEntitled
    <2> QED BY <2>1 DEF Entitled
  <1>5. ASSUME RecMax = 0 PROVE Plain'
    <2>1. \A q \in Procs : Gave(q)'
      BY <1>5 DEF OwnersInv, Plain, Gave
    <2> QED BY <1>5, <2>1 DEF OwnersInv, Plain
  <1> QED BY <1>2, <1>3, <1>4, <1>5 DEF OwnersInv

\* The calls that take no lock: an object is made or destroyed while nobody owns it.
LEMMA OwnersUnlocked ==
    ASSUME Lawful, Sound, OwnersInv, NEW p \in Procs, NEW c \in Calls \ LockedCalls, Unlocked(p, c)
    PROVE  OwnersInv'
  <1>1. /\ mutex \in [Mutexes -> MutexRecord] /\ cond \in [Conds -> CondRecord]
    BY DEF Sound, Base, IInv, TypeOK, ObjectTypes
  <1>2. Possible(p, c) /\ Permitted(p, c)
    BY DEF Unlocked, MayCall, Lawful
  <1>3. ASSUME NEW i, NEW S, IsNextId(i, S) PROVE i \notin S
    BY <1>3 DEF IsNextId, IsFirst
  <1>4. UNCHANGED <<runThread, status, pc, call>>
    BY DEF Unlocked, CreateMutex, CreateSem, CreateCond, DestroyMutex, DestroySem, DestroyCond,
           SetSchedParam, SetAttr, schedVars, Fail
  <1>5. CASE UNCHANGED mutex /\ \A k \in Conds : cond'[k] \in {cond[k], FreshCond, NoCond}
    <2>1. \A t \in Threads : Alive(t) => Alive(t)'
      BY <1>4 DEF Alive
    <2>2. FreshCond.waiting = <<>> /\ NoCond.waiting = <<>>
      BY DEF FreshCond, NoCond
    <2>3. RecMax = 0 => \A k \in Conds : cond'[k].waiting # <<>> =>
               mutex[cond'[k].mutex].owner \notin ToSet(cond'[k].waiting)
      BY <1>5, <2>2 DEF OwnersInv, Plain
    <2> QED BY <1>4, <1>5, <2>1, <2>3, OwnersFrame
  <1>6. ASSUME NEW m \in Mutexes, mutex[m].owner = NULL, UNCHANGED cond,
               NEW y \in {FreshMutex, NoMutex}, mutex' = [mutex EXCEPT ![m] = y]
        PROVE  OwnersInv'
    <2>1. y.owner = NULL /\ y.waiting = <<>> /\ y.rec = 0
      BY <1>6 DEF FreshMutex, NoMutex
    <2>2. /\ \A n \in Mutexes : mutex'[n].owner = mutex[n].owner
          /\ \A n \in Mutexes \ {m} : mutex'[n] = mutex[n]
          /\ mutex'[m].waiting = <<>> /\ mutex'[m].rec = 0
      BY <1>1, <1>6, <2>1
    <2>3. OwnersLive'
      BY <1>4, <2>2 DEF OwnersInv, OwnersLive, Alive
    <2>4. OwnersApart'
      BY <2>2, EmptyQueue DEF OwnersInv, OwnersApart, Apart
    <2>5. BlockedEntitled'
      <3> SUFFICES ASSUME NEW q \in Procs, pc[q] = "blocked" PROVE Entitled(q, call[q])'
        BY <1>4 DEF BlockedEntitled
      <3>1. Entitled(q, call[q]) /\ call[q] \in LockedCalls
        BY DEF OwnersInv, BlockedEntitled, Sound, Base, IInv, HandlersHaveThread
      <3>2. call[q].f \in {"lock", "trylock"} => call[q].m \in Mutexes
        BY <3>1, CallShape
      <3> QED BY <1>4, <2>2, <3>1, <3>2 DEF Entitled
    <2>6. ASSUME RecMax = 0 PROVE Plain'
      <3>1. Plain
        BY <2>6 DEF OwnersInv
      <3>2. \A q \in Procs : Gave(q)'
        <4> SUFFICES ASSUME NEW q \in Procs, pc[q] = "attempt", call[q].f \in WaitFamily
                     PROVE  mutex'[call[q].m].owner # runThread[q]
          BY <1>4 DEF Gave
        <4>1. call[q] \in LockedCalls
          BY DEF Sound, Base, IInv, HandlersHaveThread, LockedCalls
        <4>2. call[q].m \in Mutexes /\ mutex[call[q].m].owner # runThread[q]
          <5>1. call[q].f \in {"wait", "timedwait"}
            BY DEF WaitFamily
          <5>2. Gave(q)
            BY <3>1 DEF Plain
          <5> QED BY <4>1, <5>1, <5>2, CallShape DEF Gave
        <4> QED BY <2>2, <4>2
      <3>3. ASSUME NEW k \in Conds, cond[k].waiting # <<>>
            PROVE  mutex'[cond[k].mutex].owner \notin ToSet(cond[k].waiting)
        <4>1. cond[k].mutex \in Mutexes
          BY <1>1, <3>3 DEF Sound, Base, CondInv, CondKnowsMutex, CondRecord
        <4> QED BY <2>2, <3>1, <3>3, <4>1 DEF Plain
      <3> QED BY <1>6, <2>2, <3>1, <3>2, <3>3 DEF Plain
    <2> QED BY <2>3, <2>4, <2>5, <2>6 DEF OwnersInv
  <1>7. CASE c.f = "createMutex" /\ CreateMutex(p)
    <2>1. PICK m \in Mutexes : /\ IsNextId(m, Live(mutex))
                               /\ mutex' = [mutex EXCEPT ![m] = FreshMutex]
      BY <1>7 DEF CreateMutex
    <2>2. mutex[m].owner = NULL
      BY <1>1, <1>3, <2>1 DEF Live, Sound, Base, DeadUnowned
    <2> QED BY <1>6, <1>7, <2>1, <2>2 DEF CreateMutex
  <1>8. CASE c.f = "destroyMutex" /\ DestroyMutex(p, c.m)
    <2>1. mutex[c.m].live /\ mutex[c.m].owner = NULL
      BY <1>2, <1>8 DEF Permitted, WaitFamily
    <2>2. c.m \in Mutexes
      BY <1>8, CallsAssumption DEF ObjCalls, ParamCalls
    <2> QED BY <1>6, <1>8, <2>1, <2>2 DEF DestroyMutex
  <1>9. CASE c.f = "createCond" /\ CreateCond(p)
    BY <1>1, <1>5, <1>9 DEF CreateCond
  <1>10. CASE c.f = "destroyCond" /\ DestroyCond(p, c.c)
    BY <1>1, <1>5, <1>10 DEF DestroyCond
  <1>11. CASE UNCHANGED <<mutex, cond>>
    BY <1>5, <1>11
  <1> QED
    BY <1>7, <1>8, <1>9, <1>10, <1>11 DEF Unlocked, CreateSem, DestroySem, syncVars

LEMMA InitOwners ==
    ASSUME Init
    PROVE  OwnersInv
  <1>1. \A m \in Mutexes : mutex[m].owner = NULL /\ mutex[m].waiting = <<>> /\ mutex[m].rec = 0
    <2>1. /\ FreshMutex.owner = NULL /\ FreshMutex.waiting = <<>> /\ FreshMutex.rec = 0
          /\ NoMutex.owner = NULL /\ NoMutex.waiting = <<>> /\ NoMutex.rec = 0
      BY DEF FreshMutex, NoMutex
    <2> QED BY <2>1 DEF Init
  <1>2. (\A k \in Conds : cond[k].waiting = <<>>) /\ \A p \in Procs : pc[p] = "run"
    BY DEF Init, SchedInit, FreshCond, NoCond
  <1>3. OwnersLive /\ OwnersApart
    BY <1>1, EmptyQueue DEF OwnersLive, OwnersApart, Apart
  <1>4. BlockedEntitled /\ Plain
    BY <1>1, <1>2 DEF BlockedEntitled, Plain, Gave
  <1> QED BY <1>3, <1>4 DEF OwnersInv

LEMMA OwnersInvStep ==
    ASSUME Lawful, Once, Sound, OwnersInv, [Next]_vars
    PROVE  OwnersInv'
  <1>1. /\ pc \in [Procs -> Phases] /\ call \in [Procs -> LockedCalls \cup {NoCall}]
        /\ runThread \in [Procs -> Threads \cup {NULL}] /\ ThreadTypes
        /\ status \in [Threads -> {"UNBORN", "READY", "RUNNING", "WAITING", "DEAD"}]
        /\ cond \in [Conds -> CondRecord] /\ mutex \in [Mutexes -> MutexRecord]
    BY DEF Sound, Base, IInv, TypeOK, ThreadTypes, HandlerTypes, ObjectTypes
  <1>2. RecMax = 0 => \A k \in Conds : cond[k].waiting # <<>> =>
               mutex[cond[k].mutex].owner \notin ToSet(cond[k].waiting)
    BY DEF OwnersInv, Plain
  <1>3. CASE UNCHANGED <<runThread, status, pc, call, mutex, cond>>
    <2>1. \A t \in Threads : Alive(t) => Alive(t)'
      BY <1>3 DEF Alive
    <2> QED BY <1>2, <1>3, <2>1, OwnersFrame
  <1>4. \A q \in Procs : pc[q] \in {"blocked", "attempt"} => runThread[q] # NULL
    BY DEF Sound, Base, IInv, HandlersHaveThread, ThreadsInv, RestInv, HandlersSound, HandlerSound
  <1>5. ASSUME NEW p \in Procs, Chosen(p), UNCHANGED syncVars PROVE OwnersInv'
    <2>1. CASE Fail("deadlock")
      BY <1>3, <1>5, <2>1 DEF Fail, syncVars
    <2>2. CASE Leave(p) /\
               \/ UNCHANGED <<runThread, status>>
               \/ \E l \in Levels : /\ runThread' = [runThread EXCEPT ![p] = Found(l)]
                                    /\ status' = [status EXCEPT ![Found(l)] = "RUNNING"]
      <3>1. \A t \in Threads : Alive(t) => Alive(t)'
        BY <1>1, <2>2 DEF Alive
      <3>2. /\ pc'[p] = "run"
            /\ \A q \in Procs \ {p} : UNCHANGED <<pc[q], call[q], runThread[q]>>
        BY <1>1, <2>2 DEF Leave
      <3> QED BY <1>2, <1>5, <3>1, <3>2, OwnersFrame DEF syncVars
    <2> QED BY <1>5, <2>1, <2>2 DEF Chosen
  <1>6. ASSUME NEW p \in Procs, AttemptNext(p), UNCHANGED syncVars PROVE OwnersInv'
    <2>1. CASE Fail("deadlock")
      BY <1>3, <1>6, <2>1 DEF Fail, syncVars
    <2>2. ASSUME NEW l \in Levels, NEW q \in FreeProcs(p),
                 runThread' = [runThread EXCEPT ![q] = Found(l)],
                 status' = [status EXCEPT ![Found(l)] = "RUNNING"], UNCHANGED <<pc, call>>
          PROVE  OwnersInv'
      <3>1. \A t \in Threads : Alive(t) => Alive(t)'
        BY <1>1, <2>2 DEF Alive
      <3>2. \A r \in Procs : pc'[r] \in {"blocked", "attempt"} =>
               pc[r] = pc'[r] /\ UNCHANGED <<call[r], runThread[r]>>
        BY <1>1, <1>4, <2>2 DEF FreeProcs
      <3> QED BY <1>2, <1>6, <3>1, <3>2, OwnersFrame DEF syncVars
    <2> QED BY <1>6, <2>1, <2>2 DEF AttemptNext
  <1>7. ASSUME NEW p \in Procs, Attempted(p) PROVE OwnersInv'
    <2>1. /\ UNCHANGED <<runThread, status, mutex, cond>> /\ Leave(p)
      BY <1>7 DEF Attempted, syncVars
    <2>2. \A t \in Threads : Alive(t) => Alive(t)'
      BY <2>1 DEF Alive
    <2>3. pc'[p] = "run" /\ \A q \in Procs \ {p} : UNCHANGED <<pc[q], call[q], runThread[q]>>
      BY <1>1, <2>1 DEF Leave
    <2> QED BY <1>2, <2>1, <2>2, <2>3, OwnersFrame
  <1>8. ASSUME NEW p \in Procs, WaitCondResumed(p) PROVE OwnersInv'
    <2> DEFINE k == call[p].c
               t == runThread[p]
    <2>1. /\ cond' = [cond EXCEPT ![k].waiting = Append(@, t)]
          /\ status' = [status EXCEPT ![t] = "WAITING"] /\ UNCHANGED mutex
          /\ runThread' = [runThread EXCEPT ![p] = NULL]
          /\ pc' = [pc EXCEPT ![p] = "choose"] /\ call' = [call EXCEPT ![p] = call[p]]
          /\ pc[p] = "attempt" /\ call[p].f \in WaitFamily
      BY <1>8 DEF WaitCondResumed, AttemptOver, CondEnqueue, Suspend, Hold
    <2>2. call[p] \in LockedCalls /\ t # NULL
      BY <2>1 DEF Sound, Base, IInv, HandlersHaveThread, LockedCalls
    <2>3. k \in Conds /\ call[p].m \in Mutexes
      <3>1. call[p].f \in {"wait", "timedwait"}
        BY <2>1 DEF WaitFamily
      <3> QED BY <2>2, <3>1, CallShape
    <2>4. cond[k].mutex = call[p].m
      BY <2>1 DEF Sound, Base, CondInv, FallingAsleepKnowsMutex, WaitsAgree, Agrees
    <2>5. \A u \in Threads : Alive(u) => Alive(u)'
      BY <1>1, <2>1 DEF Alive
    <2>6. \A q \in Procs : pc'[q] \in {"blocked", "attempt"} =>
               pc[q] = pc'[q] /\ UNCHANGED <<call[q], runThread[q]>>
      BY <1>1, <2>1
    <2>7. ASSUME RecMax = 0, NEW j \in Conds, cond'[j].waiting # <<>>
          PROVE  mutex[cond'[j].mutex].owner \notin ToSet(cond'[j].waiting)
      <3>1. CASE j # k
        BY <1>1, <1>2, <2>1, <2>7, <3>1
      <3>2. CASE j = k
        <4>1. cond'[j].waiting = Append(cond[k].waiting, t) /\ cond'[j].mutex = call[p].m
          BY <1>1, <2>1, <2>3, <2>4, <3>2 DEF CondRecord
        <4>2. mutex[call[p].m].owner # t
          BY <2>1, <2>7 DEF OwnersInv, Plain, Gave
        <4>3. mutex[call[p].m].owner \notin ToSet(cond[k].waiting)
          BY <1>2, <2>3, <2>4, <2>7, EmptyQueue
        <4> QED BY <2>2, <2>3, <4>1, <4>2, <4>3, AsleepPlain
      <3> QED BY <3>1, <3>2
    <2> QED BY <2>1, <2>5, <2>6, <2>7, OwnersFrame
  <1>9. ASSUME NEW p \in Procs, Step(p) PROVE OwnersInv'
    <2>1. CASE Resume(p)
      <3>1. call[p] \in LockedCalls /\ call[p] \in Calls /\ Entitled(p, call[p])
        BY <2>1 DEF Resume, Sound, Base, IInv, HandlersHaveThread, ThreadsInv, RestInv,
                    HandlersSound, HandlerSound, OwnersInv, BlockedEntitled
      <3> QED BY <2>1, <3>1, OwnersHandle DEF Resume
    <2> QED BY <1>5, <1>6, <1>7, <1>8, <1>9, <2>1 DEF Step
  <1>10. ASSUME NEW p \in Procs, NEW c \in Calls \cap LockedCalls, Invoke(p, c) PROVE OwnersInv'
    BY <1>10, PermittedEntitled, OwnersHandle DEF Invoke
  <1>11. ASSUME NEW p \in Procs, NEW c \in Calls \cap LockedCalls, Wait(p, c) PROVE OwnersInv'
    <2>1. /\ pc' = [pc EXCEPT ![p] = "blocked"] /\ call' = [call EXCEPT ![p] = c]
          /\ UNCHANGED <<runThread, status, mutex, cond>>
      BY <1>11 DEF Wait, Block, syncVars
    <2>2. Entitled(p, c)
      BY <1>11, PermittedEntitled DEF Wait
    <2>3. ASSUME NEW q \in Procs, pc'[q] = "blocked" PROVE Entitled(q, call'[q])
      BY <1>1, <2>1, <2>2, <2>3 DEF OwnersInv, BlockedEntitled
    <2>4. BlockedEntitled'
      BY <2>1, <2>3 DEF BlockedEntitled, Entitled
    <2>5. \A q \in Procs : pc'[q] = "attempt" => pc[q] = "attempt" /\ call'[q] = call[q]
      BY <1>1, <2>1
    <2>6. Plain => Plain'
      BY <2>1, <2>5 DEF Plain, Gave
    <2> QED BY <2>1, <2>4, <2>6 DEF OwnersInv, OwnersLive, OwnersApart, Apart, Alive
  <1>12. ASSUME NEW p \in Procs, NEW c \in Calls \ LockedCalls, Unlocked(p, c) PROVE OwnersInv'
    BY <1>12, OwnersUnlocked
  <1>13. CASE UNCHANGED vars
    BY <1>3, <1>13 DEF vars, schedVars, syncVars
  <1> QED
    BY <1>9, <1>10, <1>11, <1>12, <1>13 DEF Next, Finished

\* In a lawful program that locks no mutex twice, or never broadcasts, the owner of a
\* mutex is alive and does not wait for it: whoever waits for a mutex waits for a thread
\* that can still give it up.
THEOREM OwnersCanRelease ==
    ASSUME Lawful, Once
    PROVE  Spec => []OwnerCanRelease
  <1>1. Init => OwnersInv
    BY InitOwners
  <1>2. Sound /\ OwnersInv /\ [Next]_vars => OwnersInv'
    BY OwnersInvStep
  <1>3. OwnersInv => OwnerCanRelease
    BY DEF OwnersInv, OwnersLive, OwnersApart, Apart, Alive, OwnerCanRelease
  <1> QED
    BY <1>1, <1>2, <1>3, SoundAlways, PTL DEF Spec

-----------------------------------------------------------------------------
(* The manager implements PthreadSync *)

\* What stands for the variables of PthreadSync.
Life     == [t \in Threads |-> CASE status[t] = "UNBORN" -> "unborn"
                                 [] status[t] = "DEAD"   -> "dead"
                                 [] OTHER                -> "alive"]
Owners   == [m \in Mutexes |-> mutex[m].owner]
Depths   == [m \in Mutexes |-> mutex[m].rec]
Lockers  == [m \in Mutexes |-> mutex[m].waiting]
Credits  == [s \in Sems |-> sem[s].value]
Takers   == [s \in Sems |-> sem[s].waiting]
Dozers   == [k \in Conds |-> SleepersOf(k)]
Joiners  == [u \in Threads |-> JoinersOf(u)]
InUse    == [mutex |-> Live(mutex), sem |-> Live(sem), cond |-> Live(cond)]

\* One release of m by its owner.
GivesUp(m) ==
    IF Depths[m] > 0
    THEN Depths' = [Depths EXCEPT ![m] = @ - 1] /\ UNCHANGED <<Owners, Lockers>>
    ELSE /\ Owners' = [Owners EXCEPT ![m] =
                IF Lockers[m] = <<>> THEN NULL ELSE Head(Lockers[m])]
         /\ Lockers' = [Lockers EXCEPT ![m] = IF @ = <<>> THEN @ ELSE Tail(@)]
         /\ UNCHANGED Depths

LEMMA MapsStutter ==
    ASSUME UNCHANGED <<Life, Owners, Depths, Lockers, Credits, Takers, Dozers, Joiners, InUse>>
    PROVE  UNCHANGED Pthreads!vars
  BY DEF Pthreads!vars, Pthreads!objects, Life, Owners, Depths, Lockers, Credits, Takers, Dozers, Joiners, InUse

LEMMA MapsSpawn ==
    ASSUME NEW t \in Threads, NEW u \in Threads,
           Pthreads!Active(t),
           Life[u] = "unborn",
           Life' = [Life EXCEPT ![u] = "alive"],
           UNCHANGED <<Owners, Depths, Lockers, Credits, Takers, Dozers, Joiners, InUse>>
    PROVE  Pthreads!Next
  BY DEF Pthreads!Next, Pthreads!Spawn, Pthreads!objects, Life, Owners, Depths, Lockers, Credits, Takers, Dozers, Joiners, InUse

LEMMA MapsExit ==
    ASSUME NEW t \in Threads,
           Pthreads!Active(t),
           Life' = [Life EXCEPT ![t] = "dead"],
           Joiners' = [Joiners EXCEPT ![t] = {}],
           UNCHANGED <<Owners, Depths, Lockers, Credits, Takers, Dozers, InUse>>
    PROVE  Pthreads!Next
  BY DEF Pthreads!Next, Pthreads!Exit, Pthreads!objects, Life, Owners, Depths, Lockers, Credits, Takers, Dozers, Joiners, InUse

LEMMA MapsJoin ==
    ASSUME NEW t \in Threads, NEW u \in Threads,
           Pthreads!Active(t),
           Life[u] = "alive",
           Joiners' = [Joiners EXCEPT ![u] = @ \cup {t}],
           UNCHANGED <<Life, Owners, Depths, Lockers, Credits, Takers, Dozers, InUse>>
    PROVE  Pthreads!Next
  BY DEF Pthreads!Next, Pthreads!Join, Pthreads!objects, Life, Owners, Depths, Lockers, Credits, Takers, Dozers, Joiners, InUse

LEMMA MapsLock ==
    ASSUME NEW t \in Threads, NEW m \in Mutexes,
           Pthreads!Active(t),
           m \in Live(mutex),
           \/ /\ Owners[m] = NULL
              /\ Owners' = [Owners EXCEPT ![m] = t]
              /\ UNCHANGED <<Depths, Lockers>>
           \/ /\ Owners[m] = t
              /\ Depths' = [Depths EXCEPT ![m] = @ + 1]
              /\ UNCHANGED <<Owners, Lockers>>
           \/ /\ Owners[m] \notin {t, NULL}
              /\ Lockers' = [Lockers EXCEPT ![m] = Append(@, t)]
              /\ UNCHANGED <<Owners, Depths>>,
           UNCHANGED <<Life, Credits, Takers, Dozers, Joiners, InUse>>
    PROVE  Pthreads!Next
  BY DEF Pthreads!Next, Pthreads!Lock, Life, Owners, Depths, Lockers, Credits, Takers, Dozers, Joiners, InUse

LEMMA MapsUnlock ==
    ASSUME NEW t \in Threads, NEW m \in Mutexes,
           Pthreads!Active(t),
           Owners[m] = t,
           GivesUp(m),
           UNCHANGED <<Life, Credits, Takers, Dozers, Joiners, InUse>>
    PROVE  Pthreads!Next
  BY DEF Pthreads!Next, Pthreads!Unlock, Pthreads!Release, GivesUp, Life, Owners, Depths, Lockers, Credits, Takers, Dozers, Joiners, InUse

LEMMA MapsSleep ==
    ASSUME NEW t \in Threads, NEW k \in Conds, NEW m \in Mutexes,
           Pthreads!Active(t),
           Owners[m] = t,
           k \in Live(cond),
           GivesUp(m),
           Dozers' = [Dozers EXCEPT ![k] = Append(@, [t |-> t, m |-> m])],
           UNCHANGED <<Life, Credits, Takers, Joiners, InUse>>
    PROVE  Pthreads!Next
  BY DEF Pthreads!Next, Pthreads!Sleep, Pthreads!Release, GivesUp, Life, Owners, Depths, Lockers, Credits, Takers, Dozers, Joiners, InUse

LEMMA MapsPost ==
    ASSUME NEW t \in Threads, NEW s \in Sems,
           Pthreads!Active(t),
           s \in Live(sem),
           IF Takers[s] = <<>>
           THEN Credits' = [Credits EXCEPT ![s] = @ + 1] /\ UNCHANGED Takers
           ELSE Takers' = [Takers EXCEPT ![s] = Tail(@)] /\ UNCHANGED Credits,
           UNCHANGED <<Life, Owners, Depths, Lockers, Dozers, Joiners, InUse>>
    PROVE  Pthreads!Next
  BY DEF Pthreads!Next, Pthreads!Post, Life, Owners, Depths, Lockers, Credits, Takers, Dozers, Joiners, InUse

LEMMA MapsTake ==
    ASSUME NEW t \in Threads, NEW s \in Sems,
           Pthreads!Active(t),
           s \in Live(sem),
           IF Credits[s] > 0
           THEN Credits' = [Credits EXCEPT ![s] = @ - 1] /\ UNCHANGED Takers
           ELSE Takers' = [Takers EXCEPT ![s] = Append(@, t)] /\ UNCHANGED Credits,
           UNCHANGED <<Life, Owners, Depths, Lockers, Dozers, Joiners, InUse>>
    PROVE  Pthreads!Next
  BY DEF Pthreads!Next, Pthreads!Take, Life, Owners, Depths, Lockers, Credits, Takers, Dozers, Joiners, InUse

\* The sleepers ws ask for the mutex m.
Asked(m, ws) ==
    LET free == Owners[m] = NULL /\ ws # <<>> IN
    /\ Owners' = [Owners EXCEPT ![m] = IF free THEN Head(ws) ELSE @]
    /\ Lockers' = [Lockers EXCEPT ![m] = @ \o (IF free THEN Tail(ws) ELSE ws)]

LEMMA MapsWake ==
    ASSUME NEW t \in Threads, NEW k \in Conds, NEW n,
           Pthreads!Active(t), n = 1 \/ n = Len(Dozers[k]), n \in 1 .. Len(Dozers[k]),
           Asked(Dozers[k][1].m, [i \in 1 .. n |-> Dozers[k][i].t]),
           Dozers' = [Dozers EXCEPT ![k] = SubSeq(@, n + 1, Len(@))],
           UNCHANGED <<Life, Depths, Credits, Takers, Joiners, InUse>>
    PROVE  Pthreads!Next
  <1>1. Pthreads!Reacquire(Dozers[k][1].m, [i \in 1 .. n |-> Dozers[k][i].t])
    BY DEF Pthreads!Reacquire, Asked, Owners, Lockers
  <1>2. Pthreads!Wake(t, k, n)
    BY <1>1 DEF Pthreads!Wake, Life, Depths, Credits, Takers, Dozers, Joiners, InUse
  <1>3. CASE n = 1
    BY <1>2, <1>3 DEF Pthreads!Next, Pthreads!Signal
  <1>4. CASE n = Len(Dozers[k])
    BY <1>2, <1>4 DEF Pthreads!Next, Pthreads!Broadcast, Dozers
  <1> QED BY <1>3, <1>4

LEMMA MapsMakeMutex ==
    ASSUME NEW t \in Threads, NEW m \in Mutexes,
           Pthreads!Active(t),
           m \notin Live(mutex),
           Owners[m] = NULL,
           Depths[m] = 0,
           Lockers[m] = <<>>,
           InUse' = [InUse EXCEPT !.mutex = @ \cup {m}],
           UNCHANGED <<Life, Owners, Depths, Lockers, Credits, Takers, Dozers, Joiners>>
    PROVE  Pthreads!Next
  BY DEF Pthreads!Next, Pthreads!MakeMutex, Pthreads!objects, Life, Owners, Depths, Lockers, Credits, Takers, Dozers, Joiners, InUse

LEMMA MapsMakeSem ==
    ASSUME NEW t \in Threads, NEW s \in Sems, NEW v \in SemInit,
           Pthreads!Active(t),
           s \notin Live(sem),
           Takers[s] = <<>>,
           InUse' = [InUse EXCEPT !.sem = @ \cup {s}],
           Credits' = [Credits EXCEPT ![s] = v],
           UNCHANGED <<Life, Owners, Depths, Lockers, Takers, Dozers, Joiners>>
    PROVE  Pthreads!Next
  BY DEF Pthreads!Next, Pthreads!MakeSem, Life, Owners, Depths, Lockers, Credits, Takers, Dozers, Joiners, InUse

LEMMA MapsMakeCond ==
    ASSUME NEW t \in Threads, NEW k \in Conds,
           Pthreads!Active(t),
           k \notin Live(cond),
           Dozers[k] = <<>>,
           InUse' = [InUse EXCEPT !.cond = @ \cup {k}],
           UNCHANGED <<Life, Owners, Depths, Lockers, Credits, Takers, Dozers, Joiners>>
    PROVE  Pthreads!Next
  BY DEF Pthreads!Next, Pthreads!MakeCond, Pthreads!objects, Life, Owners, Depths, Lockers, Credits, Takers, Dozers, Joiners, InUse

LEMMA MapsDropMutex ==
    ASSUME NEW t \in Threads, NEW m \in Mutexes,
           Pthreads!Active(t),
           m \in Live(mutex),
           Owners[m] = NULL,
           InUse' = [InUse EXCEPT !.mutex = @ \ {m}],
           UNCHANGED <<Life, Owners, Depths, Lockers, Credits, Takers, Dozers, Joiners>>
    PROVE  Pthreads!Next
  BY DEF Pthreads!Next, Pthreads!DropMutex, Pthreads!objects, Life, Owners, Depths, Lockers, Credits, Takers, Dozers, Joiners, InUse

LEMMA MapsDropSem ==
    ASSUME NEW t \in Threads, NEW s \in Sems,
           Pthreads!Active(t),
           s \in Live(sem),
           Takers[s] = <<>>,
           InUse' = [InUse EXCEPT !.sem = @ \ {s}],
           Credits' = [Credits EXCEPT ![s] = 0],
           UNCHANGED <<Life, Owners, Depths, Lockers, Takers, Dozers, Joiners>>
    PROVE  Pthreads!Next
  BY DEF Pthreads!Next, Pthreads!DropSem, Life, Owners, Depths, Lockers, Credits, Takers, Dozers, Joiners, InUse

LEMMA MapsDropCond ==
    ASSUME NEW t \in Threads, NEW k \in Conds,
           Pthreads!Active(t),
           k \in Live(cond),
           Dozers[k] = <<>>,
           InUse' = [InUse EXCEPT !.cond = @ \ {k}],
           UNCHANGED <<Life, Owners, Depths, Lockers, Credits, Takers, Dozers, Joiners>>
    PROVE  Pthreads!Next
  BY DEF Pthreads!Next, Pthreads!DropCond, Pthreads!objects, Life, Owners, Depths, Lockers, Credits, Takers, Dozers, Joiners, InUse

\* The steps that change one object, or none.
LEMMA SameLife ==
    ASSUME \A t \in Threads : status'[t] = status[t] \/ (Alive(t) /\ Alive(t)')
    PROVE  UNCHANGED Life
  BY DEF Life, Alive

LEMMA SameMutexMaps ==
    ASSUME UNCHANGED mutex
    PROVE  UNCHANGED <<Owners, Depths, Lockers, Live(mutex)>>
  BY DEF Owners, Depths, Lockers, Live

LEMMA SameSemMaps ==
    ASSUME UNCHANGED sem
    PROVE  UNCHANGED <<Credits, Takers, Live(sem)>>
  BY DEF Credits, Takers, Live

LEMMA NewMutex ==
    ASSUME ObjectTypes, NEW m \in Mutexes, NEW y, mutex' = [mutex EXCEPT ![m] = y]
    PROVE  /\ Owners'  = [Owners EXCEPT ![m] = y.owner]
           /\ Depths'  = [Depths EXCEPT ![m] = y.rec]
           /\ Lockers' = [Lockers EXCEPT ![m] = y.waiting]
           /\ y.owner = mutex[m].owner => UNCHANGED Owners
           /\ y.rec = mutex[m].rec => UNCHANGED Depths
           /\ y.waiting = mutex[m].waiting => UNCHANGED Lockers
           /\ y.live = mutex[m].live => UNCHANGED Live(mutex)
           /\ y.live /\ ~mutex[m].live => Live(mutex)' = Live(mutex) \cup {m}
           /\ ~y.live => Live(mutex)' = Live(mutex) \ {m}
  BY DEF Owners, Depths, Lockers, Live, ObjectTypes

LEMMA NewSem ==
    ASSUME ObjectTypes, NEW s \in Sems, NEW y, sem' = [sem EXCEPT ![s] = y]
    PROVE  /\ Credits' = [Credits EXCEPT ![s] = y.value]
           /\ Takers'  = [Takers EXCEPT ![s] = y.waiting]
           /\ y.value = sem[s].value => UNCHANGED Credits
           /\ y.waiting = sem[s].waiting => UNCHANGED Takers
           /\ y.live = sem[s].live => UNCHANGED Live(sem)
           /\ y.live /\ ~sem[s].live => Live(sem)' = Live(sem) \cup {s}
           /\ ~y.live => Live(sem)' = Live(sem) \ {s}
  BY DEF Credits, Takers, Live, ObjectTypes

LEMMA LiveConds ==
    ASSUME ObjectTypes, NEW k \in Conds, NEW y, cond' = [cond EXCEPT ![k] = y]
    PROVE  /\ y.live = cond[k].live => UNCHANGED Live(cond)
           /\ y.live /\ ~cond[k].live => Live(cond)' = Live(cond) \cup {k}
           /\ ~y.live => Live(cond)' = Live(cond) \ {k}
  BY DEF Live, ObjectTypes

LEMMA SameInUse ==
    ASSUME UNCHANGED <<Live(mutex), Live(sem), Live(cond)>>
    PROVE  UNCHANGED InUse
  BY DEF InUse

-----------------------------------------------------------------------------
(* Who sleeps and who joins *)

Dozing(x) == [i \in DOMAIN x.waiting |-> [t |-> x.waiting[i], m |-> x.mutex]]
Doze(p)   == [t |-> runThread[p], m |-> call[p].m]
JoinCall(u) == [f |-> "join", th |-> u]

LEMMA NobodyFalls ==
    ASSUME NEW k \in Conds, FallingAsleep(k) = {}
    PROVE  SleepersOf(k) = Dozing(cond[k])
  BY DEF SleepersOf, Dozing

LEMMA OneFalls ==
    ASSUME IInv, NEW p \in Procs, pc[p] = "attempt", call[p].f \in WaitFamily
    PROVE  /\ SleepersOf(call[p].c) = Append(Dozing(cond[call[p].c]), Doze(p))
           /\ FallingAsleep(call[p].c) = {p}
           /\ \A k \in Conds \ {call[p].c} : FallingAsleep(k) = {}
  <1>1. \A q \in Procs : Inside(q) => q = p
    BY OnlyInside DEF Inside
  <1>2. FallingAsleep(call[p].c) = {p}
    BY <1>1 DEF FallingAsleep, Inside
  <1>3. \A k \in Conds \ {call[p].c} : FallingAsleep(k) = {}
    BY <1>1 DEF FallingAsleep, Inside
  <1>4. (CHOOSE q \in FallingAsleep(call[p].c) : TRUE) = p
    BY <1>2
  <1> QED BY <1>2, <1>3, <1>4 DEF SleepersOf, Dozing, Doze

\* Nobody is in the middle of a handler.
LEMMA AtQuiet ==
    ASSUME \A q \in Procs : ~Inside(q)
    PROVE  /\ \A k \in Conds : SleepersOf(k) = Dozing(cond[k])
           /\ \A u \in Threads : JoinersOf(u) = ToSet(joining[u])
  <1>1. \A k \in Conds : FallingAsleep(k) = {}
    BY DEF Inside, FallingAsleep
  <1>2. \A u \in Threads : JoinersOf(u) = ToSet(joining[u])
    BY DEF Inside, JoinersOf
  <1> QED BY <1>1, <1>2, NobodyFalls

LEMMA QuietAfter ==
    ASSUME (\A q \in Procs : ~Inside(q))'
    PROVE  /\ \A k \in Conds : SleepersOf(k)' = Dozing(cond'[k])
           /\ \A u \in Threads : JoinersOf(u)' = ToSet(joining'[u])
  <1>1. \A k \in Conds : FallingAsleep(k)' = {}
    BY DEF Inside, FallingAsleep
  <1>2. \A u \in Threads : JoinersOf(u)' = ToSet(joining'[u])
    BY DEF Inside, JoinersOf
  <1>3. \A k \in Conds : SleepersOf(k)' = Dozing(cond'[k])
    BY <1>1 DEF SleepersOf, Dozing
  <1> QED BY <1>2, <1>3

LEMMA SuspendingAfter ==
    ASSUME IInv, \A q \in Procs : ~Inside(q), NEW p \in Procs, NEW c, Suspend(p, c)
    PROVE  /\ \A k \in Conds : SleepersOf(k)' = Dozing(cond'[k])
           /\ \A u \in Threads : JoinersOf(u)' =
                  ToSet(joining'[u]) \cup { t \in {runThread[p]} : c = JoinCall(u) }
  <1>1. /\ pc \in [Procs -> Phases] /\ call \in [Procs -> LockedCalls \cup {NoCall}]
        /\ curThread \in [Procs -> Threads \cup {NULL}]
    BY DEF IInv, TypeOK, HandlerTypes
  <1>2. /\ pc' = [pc EXCEPT ![p] = "choose"] /\ call' = [call EXCEPT ![p] = c]
        /\ curThread' = [curThread EXCEPT ![p] = runThread[p]]
    BY DEF Suspend, Hold
  <1>3. pc'[p] = "choose" /\ call'[p] = c /\ curThread'[p] = runThread[p]
        /\ \A q \in Procs \ {p} : pc'[q] \notin {"choose", "attempt"}
    BY <1>1, <1>2 DEF Inside
  <1>4. \A k \in Conds : FallingAsleep(k)' = {}
    BY <1>3 DEF FallingAsleep
  <1>5. \A k \in Conds : SleepersOf(k)' = Dozing(cond'[k])
    BY <1>4 DEF SleepersOf, Dozing
  <1>6. ASSUME NEW u \in Threads
        PROVE  JoinersOf(u)' = ToSet(joining'[u]) \cup { t \in {runThread[p]} : c = JoinCall(u) }
    <2>1. { q \in Procs : call'[q] = JoinCall(u) /\ pc'[q] = "choose" }
             = { q \in {p} : c = JoinCall(u) }
      BY <1>3
    <2>2. { curThread'[q] : q \in { q \in Procs : call'[q] = JoinCall(u) /\ pc'[q] = "choose" } }
             = { t \in {runThread[p]} : c = JoinCall(u) }
      BY <1>3, <2>1
    <2> QED BY <2>2 DEF JoinersOf, JoinCall
  <1> QED BY <1>5, <1>6

LEMMA AttemptingAfter ==
    ASSUME IInv, \A q \in Procs : ~Inside(q), NEW p \in Procs, NEW c, Attempt(p, c)
    PROVE  /\ \A u \in Threads : JoinersOf(u)' = ToSet(joining'[u])
           /\ c.f \notin WaitFamily => \A k \in Conds : SleepersOf(k)' = Dozing(cond'[k])
           /\ c.f \in WaitFamily =>
                 /\ \A k \in Conds \ {c.c} : SleepersOf(k)' = Dozing(cond'[k])
                 /\ SleepersOf(c.c)' = Append(Dozing(cond'[c.c]), [t |-> runThread'[p], m |-> c.m])
  <1>1. pc \in [Procs -> Phases] /\ call \in [Procs -> LockedCalls \cup {NoCall}]
    BY DEF IInv, TypeOK, HandlerTypes
  <1>2. pc' = [pc EXCEPT ![p] = "attempt"] /\ call' = [call EXCEPT ![p] = c]
    BY DEF Attempt, Hold
  <1>3. pc'[p] = "attempt" /\ call'[p] = c
        /\ \A q \in Procs \ {p} : pc'[q] \notin {"choose", "attempt"}
    BY <1>1, <1>2 DEF Inside
  <1>4. \A u \in Threads : JoinersOf(u)' = ToSet(joining'[u])
    BY <1>3 DEF JoinersOf
  <1>5. \A k \in Conds : FallingAsleep(k)' = { q \in {p} : c.f \in WaitFamily /\ c.c = k }
    BY <1>3 DEF FallingAsleep
  <1>6. \A k \in Conds : FallingAsleep(k)' = {} => SleepersOf(k)' = Dozing(cond'[k])
    BY DEF SleepersOf, Dozing
  <1>7. ASSUME c.f \in WaitFamily
        PROVE  SleepersOf(c.c)' = Append(Dozing(cond'[c.c]), [t |-> runThread'[p], m |-> c.m])
    <2>1. FallingAsleep(c.c)' = {p}
      BY <1>3, <1>7 DEF FallingAsleep
    <2>2. (CHOOSE q \in FallingAsleep(c.c)' : TRUE) = p
      BY <2>1
    <2> QED BY <1>3, <2>1, <2>2 DEF SleepersOf, Dozing
  <1> QED BY <1>4, <1>5, <1>6, <1>7

\* Handlers that leave conditions and joins alone.
LEMMA SameSleep ==
    ASSUME \/ /\ \A k \in Conds : SleepersOf(k)' = SleepersOf(k)
              /\ \A u \in Threads : JoinersOf(u)' = JoinersOf(u)
           \/ /\ \A k \in Conds : SleepersOf(k) = Dozing(cond[k]) /\ SleepersOf(k)' = Dozing(cond'[k])
              /\ \A u \in Threads : JoinersOf(u) = ToSet(joining[u]) /\ JoinersOf(u)' = ToSet(joining'[u])
              /\ UNCHANGED <<cond, joining>>
    PROVE  UNCHANGED <<Dozers, Joiners>>
  BY DEF Dozers, Joiners

LEMMA SameSleepers ==
    ASSUME IInv, NEW p \in Procs, NEW c, Start(p, c), UNCHANGED <<cond, joining>>,
           \/ pc' = [pc EXCEPT ![p] = "run"]
           \/ UNCHANGED pc
           \/ Suspend(p, c) /\ \A u \in Threads : c # JoinCall(u)
           \/ Attempt(p, c) /\ c.f \notin WaitFamily
    PROVE  UNCHANGED <<Dozers, Joiners>>
  <1>1. \A q \in Procs : ~Inside(q)
    BY Started
  <1>2. pc \in [Procs -> Phases]
    BY DEF IInv, TypeOK, HandlerTypes
  <1>3. CASE pc' = [pc EXCEPT ![p] = "run"] \/ UNCHANGED pc
    <2>1. (\A q \in Procs : ~Inside(q))'
      BY <1>1, <1>2, <1>3 DEF Inside
    <2> QED BY <1>1, <2>1, AtQuiet, QuietAfter, SameSleep
  <1>4. CASE Suspend(p, c) /\ \A u \in Threads : c # JoinCall(u)
    <2>1. /\ \A k \in Conds : SleepersOf(k)' = Dozing(cond'[k])
          /\ \A u \in Threads : JoinersOf(u)' = ToSet(joining'[u]) \cup { t \in {runThread[p]} : c = JoinCall(u) }
      BY <1>1, <1>4, SuspendingAfter
    <2>2. \A u \in Threads : JoinersOf(u)' = ToSet(joining'[u])
      BY <1>4, <2>1
    <2> QED BY <1>1, <2>1, <2>2, AtQuiet, SameSleep
  <1>5. CASE Attempt(p, c) /\ c.f \notin WaitFamily
    BY <1>1, <1>5, AtQuiet, AttemptingAfter, SameSleep
  <1> QED BY <1>3, <1>4, <1>5

\* Whoever waits for something is asleep, and not on a processor.
LEMMA Waiters ==
    ASSUME Sound
    PROVE  /\ \A m \in Mutexes : ToSet(mutex[m].waiting) \subseteq With("WAITING")
           /\ \A s \in Sems : ToSet(sem[s].waiting) \subseteq With("WAITING")
           /\ \A k \in Conds : ToSet(cond[k].waiting) \subseteq With("WAITING")
           /\ \A u \in Threads : ToSet(joining[u]) \subseteq With("WAITING")
           /\ \A p \in Procs : ToSet(Hand(p)) \subseteq With("WAITING")
  <1>1. Holds(WaitQueue, With("WAITING")) /\ DOMAIN WaitQueue = WaitSlots
    BY Slots DEF Sound, ThreadsInv, PlaceInv, AtWaits
  <1>2. \A x \in WaitSlots : ToSet(WaitQueue[x]) \subseteq With("WAITING")
    BY <1>1, HoldsFacts
  <1> QED BY <1>2, Slots

LEMMA ActorActive ==
    ASSUME Sound, NEW p \in Procs, runThread[p] # NULL, pc[p] # "attempt"
    PROVE  runThread[p] \in Threads /\ Pthreads!Active(runThread[p])
  <1> DEFINE t == runThread[p]
  <1>1. t \in Threads /\ t \in With("RUNNING") /\ t \notin With("WAITING")
    BY DEF Sound, ThreadsInv, PlaceInv, OnProcessors, With
  <1>2. Life[t] = "alive"
    BY <1>1 DEF Life, With
  <1>3. \A m \in Mutexes : t \notin ToSet(Lockers[m])
    BY <1>1, Waiters DEF Lockers
  <1>4. \A s \in Sems : t \notin ToSet(Takers[s])
    BY <1>1, Waiters DEF Takers
  <1>5. ASSUME NEW k \in Conds, NEW i \in DOMAIN Dozers[k]
        PROVE  Dozers[k][i].t # t
    <2>1. cond[k].waiting \in Seq(Threads) /\ Dozers[k] = SleepersOf(k)
      BY DEF Sound, Base, IInv, TypeOK, ObjectTypes, CondRecord, Dozers
    <2>2. \A j \in DOMAIN cond[k].waiting : cond[k].waiting[j] # t
      BY <1>1, Waiters DEF ToSet
    <2>3. CASE FallingAsleep(k) = {}
      BY <2>1, <2>2, <2>3, NobodyFalls DEF Dozing
    <2>4. ASSUME NEW q \in FallingAsleep(k) PROVE Dozers[k][i].t # t
      <3>1. q \in Procs /\ pc[q] = "attempt" /\ call[q].f \in WaitFamily /\ call[q].c = k
        BY DEF FallingAsleep
      <3>2. Dozers[k] = Append(Dozing(cond[k]), Doze(q))
        BY <2>1, <3>1, OneFalls DEF Sound, Base
      <3>3. runThread[q] # t
        BY <3>1 DEF Sound, ThreadsInv, PlaceInv, OnProcessors
      <3>4. Dozing(cond[k]) \in Seq([t : Threads, m : {cond[k].mutex}])
        <4>1. Len(cond[k].waiting) \in Nat /\ DOMAIN cond[k].waiting = 1 .. Len(cond[k].waiting)
              /\ \A j \in 1 .. Len(cond[k].waiting) : cond[k].waiting[j] \in Threads
          BY <2>1
        <4> QED BY <4>1, SeqIntro DEF Dozing
      <3>5. i \in 1 .. Len(Dozing(cond[k])) \/ i = Len(Dozing(cond[k])) + 1
        BY <3>2, <3>4
      <3>6. CASE i \in 1 .. Len(Dozing(cond[k]))
        <4>1. Dozers[k][i] = Dozing(cond[k])[i] /\ i \in DOMAIN cond[k].waiting
          BY <3>2, <3>4, <3>6 DEF Dozing
        <4> QED BY <2>2, <4>1 DEF Dozing
      <3>7. CASE i = Len(Dozing(cond[k])) + 1
        BY <3>2, <3>3, <3>4, <3>7 DEF Doze
      <3> QED BY <3>5, <3>6, <3>7
    <2> QED BY <2>3, <2>4
  <1>6. ASSUME NEW u \in Threads PROVE t \notin Joiners[u]
    <2>1. \A q \in Procs : call[q] = JoinCall(u) /\ pc[q] = "choose" => curThread[q] # t
      <3> SUFFICES ASSUME NEW q \in Procs, call[q] = JoinCall(u), pc[q] = "choose"
                   PROVE  curThread[q] # t
        OBVIOUS
      <3>1. Hand(q) = <<curThread[q]>>
        BY DEF Hand, JoinCall, Sound, Base, IInv, HandlersHaveThread
      <3> QED BY <1>1, <3>1, Waiters DEF ToSet
    <2>2. t \notin ToSet(joining[u])
      BY <1>1, Waiters
    <2> QED BY <2>1, <2>2 DEF Joiners, JoinersOf, JoinCall
  <1>7. ~Pthreads!Sleeping(t)
    BY <1>5 DEF Pthreads!Sleeping, Dozers
  <1>8. Pthreads!Active(t)
    BY <1>2, <1>3, <1>4, <1>6, <1>7 DEF Pthreads!Active, Pthreads!Blocked, Pthreads!ToSet, ToSet, Life, Lockers, Takers, Joiners
  <1> QED BY <1>1, <1>8

-----------------------------------------------------------------------------
(* What each handler is in PthreadSync *)

\* A step is one of PthreadSync, or none.
Maps == Pthreads!Next \/ UNCHANGED Pthreads!vars

LEMMA UnseenMaps ==
    ASSUME UNCHANGED <<runThread, status, joining, pc, call, curThread, syncVars>>
    PROVE  Maps
  <1>1. UNCHANGED <<mutex, sem, cond>>
    BY DEF syncVars
  <1>2. UNCHANGED <<Dozers, Joiners>>
    BY <1>1 DEF Dozers, Joiners, SleepersOf, JoinersOf, FallingAsleep
  <1>3. UNCHANGED <<Life, Owners, Depths, Lockers, Credits, Takers, InUse>>
    BY <1>1 DEF Life, Owners, Depths, Lockers, Credits, Takers, InUse, Live
  <1> QED BY <1>2, <1>3, MapsStutter DEF Maps

LEMMA FailMaps ==
    ASSUME NEW why, Fail(why), UNCHANGED syncVars
    PROVE  Maps
  BY UnseenMaps DEF Fail

\* The thread for which a handler works.
LEMMA Actor ==
    ASSUME Sound, NEW p \in Procs, NEW c, Start(p, c)
    PROVE  /\ runThread[p] \in Threads /\ Pthreads!Active(runThread[p])
           /\ Alive(runThread[p])
           /\ \A q \in Procs : ~Inside(q)
           /\ \A k \in Conds : SleepersOf(k) = Dozing(cond[k])
           /\ \A u \in Threads : JoinersOf(u) = ToSet(joining[u])
  <1>1. runThread[p] \in Threads /\ \A q \in Procs : ~Inside(q)
    BY Started DEF Sound, Base
  <1>2. pc[p] # "attempt" /\ runThread[p] # NULL
    BY <1>1, NullAssumption DEF Inside
  <1>3. Alive(runThread[p])
    BY <1>2 DEF Sound, ThreadsInv, PlaceInv, OnProcessors, With, Alive
  <1> QED BY <1>1, <1>2, <1>3, ActorActive, AtQuiet

LEMMA LockMutexMaps ==
    ASSUME Sound, NEW p \in Procs, NEW m \in Mutexes, NEW nonbl \in BOOLEAN,
           LockMutex(p, m, nonbl)
    PROVE  Maps
  <1> DEFINE c == [f |-> IF nonbl THEN "trylock" ELSE "lock", m |-> m]
             t == runThread[p]
             x == mutex[m]
  <1>1. Start(p, c) /\ UNCHANGED <<sem, cond>>
    BY DEF LockMutex
  <1>2. /\ t \in Threads /\ Pthreads!Active(t) /\ Alive(t)
        /\ x \in MutexRecord /\ Coherent(x) /\ ObjectTypes /\ IInv
    BY <1>1, Actor DEF Sound, Base, IInv, TypeOK, ObjectTypes, MutexCoherent
  <1>3. CASE Fail("no such mutex") /\ UNCHANGED mutex
    BY <1>1, <1>3, FailMaps DEF syncVars
  <1>4. ASSUME Leave(p) \/ Suspend(p, c), UNCHANGED joining
        PROVE  UNCHANGED <<Dozers, Joiners, Live(cond)>>
    <2>1. pc' = [pc EXCEPT ![p] = "run"] \/ Suspend(p, c)
      BY <1>4 DEF Leave
    <2>2. \A u \in Threads : c # JoinCall(u)
      BY DEF JoinCall
    <2>3. UNCHANGED <<Dozers, Joiners>>
      BY <1>1, <1>2, <1>4, <2>1, <2>2, SameSleepers
    <2> QED BY <1>1, <2>3 DEF Live
  <1>5. ASSUME x.live, NEW y, mutex' = [mutex EXCEPT ![m] = y], y.live,
               Leave(p) \/ Suspend(p, c), UNCHANGED joining,
               \/ y.owner = t /\ x.owner = NULL /\ y.rec = x.rec /\ y.waiting = x.waiting
               \/ y.owner = t /\ x.owner = t /\ y.rec = x.rec + 1 /\ y.waiting = x.waiting
               \/ /\ y.owner = x.owner /\ x.owner \notin {t, NULL} /\ y.rec = x.rec
                  /\ y.waiting = Append(x.waiting, t),
               status' = status \/ status' = [status EXCEPT ![t] = "WAITING"]
        PROVE  Maps
    <2>1. UNCHANGED Life
      <3>1. \A u \in Threads : status'[u] = status[u] \/ (u = t /\ status'[u] = "WAITING")
        BY <1>2, <1>5 DEF IInv, TypeOK, ThreadTypes
      <3> QED BY <1>2, <3>1, SameLife DEF Alive
    <2>2. UNCHANGED <<Dozers, Joiners, Live(cond)>>
      BY <1>4, <1>5
    <2>3. UNCHANGED <<Credits, Takers, Live(sem)>>
      BY <1>1, SameSemMaps
    <2>4. /\ Owners'  = [Owners EXCEPT ![m] = y.owner]
          /\ Depths'  = [Depths EXCEPT ![m] = y.rec]
          /\ Lockers' = [Lockers EXCEPT ![m] = y.waiting]
          /\ y.owner = x.owner => UNCHANGED Owners
          /\ y.rec = x.rec => UNCHANGED Depths
          /\ y.waiting = x.waiting => UNCHANGED Lockers
          /\ UNCHANGED Live(mutex)
      BY <1>2, <1>5, NewMutex
    <2>5. UNCHANGED InUse
      BY <2>2, <2>3, <2>4, SameInUse
    <2>6. Owners[m] = x.owner /\ Depths[m] = x.rec /\ Lockers[m] = x.waiting
      BY DEF Owners, Depths, Lockers
    <2>7. m \in Live(mutex)
      BY <1>2, <1>5 DEF Live, ObjectTypes
    <2>8. \/ /\ Owners[m] = NULL /\ Owners' = [Owners EXCEPT ![m] = t]
             /\ UNCHANGED <<Depths, Lockers>>
          \/ /\ Owners[m] = t /\ Depths' = [Depths EXCEPT ![m] = @ + 1]
             /\ UNCHANGED <<Owners, Lockers>>
          \/ /\ Owners[m] \notin {t, NULL} /\ Lockers' = [Lockers EXCEPT ![m] = Append(@, t)]
             /\ UNCHANGED <<Owners, Depths>>
      BY <1>5, <2>4, <2>6
    <2> QED BY <1>2, <2>1, <2>2, <2>3, <2>5, <2>7, <2>8, MapsLock DEF Maps
  <1>6. CASE x.live /\ UNCHANGED <<mutex, status, joining>> /\ Leave(p)
    <2>1. UNCHANGED <<Dozers, Joiners, Live(cond)>>
      BY <1>4, <1>6
    <2> QED BY <1>1, <1>6, <2>1, SameMutexMaps, SameSemMaps, SameInUse, MapsStutter DEF Maps, Life
  <1>7. CASE /\ x.live /\ x.owner = t /\ Leave(p) /\ UNCHANGED <<status, joining>>
             /\ mutex' = [mutex EXCEPT ![m].rec = @ + 1]
    <2> DEFINE y == [x EXCEPT !.rec = @ + 1]
    <2>1. mutex' = [mutex EXCEPT ![m] = y]
      BY <1>2, <1>7 DEF ObjectTypes
    <2>2. y.live /\ y.owner = t /\ y.rec = x.rec + 1 /\ y.waiting = x.waiting
      BY <1>2, <1>7 DEF MutexRecord
    <2> QED BY <1>5, <1>7, <2>1, <2>2
  <1>8. CASE /\ x.live /\ x.owner # t /\ x.status = "FREE" /\ Leave(p) /\ UNCHANGED <<status, joining>>
             /\ mutex' = [mutex EXCEPT ![m].status = "LOCKED", ![m].owner = t]
    <2> DEFINE y == [x EXCEPT !.status = "LOCKED", !.owner = t]
    <2>1. mutex' = [mutex EXCEPT ![m] = y]
      BY <1>2, <1>8 DEF ObjectTypes
    <2>2. y.live /\ y.owner = t /\ x.owner = NULL /\ y.rec = x.rec /\ y.waiting = x.waiting
      BY <1>2, <1>8 DEF MutexRecord, Coherent
    <2> QED BY <1>5, <1>8, <2>1, <2>2
  <1>9. CASE /\ x.live /\ x.owner # t /\ x.status = "LOCKED" /\ Suspend(p, c) /\ UNCHANGED joining
             /\ mutex' = [mutex EXCEPT ![m].waiting = Append(@, t)]
             /\ status' = [status EXCEPT ![t] = "WAITING"]
    <2> DEFINE y == [x EXCEPT !.waiting = Append(@, t)]
    <2>1. mutex' = [mutex EXCEPT ![m] = y]
      BY <1>2, <1>9 DEF ObjectTypes
    <2>2. /\ y.live /\ y.owner = x.owner /\ x.owner \notin {t, NULL} /\ y.rec = x.rec
          /\ y.waiting = Append(x.waiting, t)
      BY <1>2, <1>9 DEF MutexRecord, Coherent
    <2> QED BY <1>5, <1>9, <2>1, <2>2
  <1> QED
    BY <1>3, <1>6, <1>7, <1>8, <1>9 DEF LockMutex

LEMMA ReleasedMaps ==
    ASSUME ObjectTypes, NEW m \in Mutexes, mutex' = [mutex EXCEPT ![m] = Released(m)]
    PROVE  GivesUp(m) /\ UNCHANGED Live(mutex)
  <1> DEFINE x == mutex[m]
             y == Released(m)
  <1>1. x \in MutexRecord /\ x.rec \in Nat
    BY DEF ObjectTypes, MutexRecord
  <1>2. /\ Owners'  = [Owners EXCEPT ![m] = y.owner]
        /\ Depths'  = [Depths EXCEPT ![m] = y.rec]
        /\ Lockers' = [Lockers EXCEPT ![m] = y.waiting]
        /\ y.owner = x.owner => UNCHANGED Owners
        /\ y.rec = x.rec => UNCHANGED Depths
        /\ y.waiting = x.waiting => UNCHANGED Lockers
        /\ y.live = x.live => UNCHANGED Live(mutex)
    BY NewMutex
  <1>3. Owners[m] = x.owner /\ Depths[m] = x.rec /\ Lockers[m] = x.waiting
    BY DEF Owners, Depths, Lockers
  <1>4. y.live = x.live
    BY <1>1 DEF Released, MutexRecord
  <1>5. x.rec > 0 => y.owner = x.owner /\ y.waiting = x.waiting /\ y.rec = x.rec - 1
    BY <1>1 DEF Released, MutexRecord
  <1>6. ~(x.rec > 0) =>
           /\ y.rec = x.rec
           /\ y.owner = IF x.waiting = <<>> THEN NULL ELSE Head(x.waiting)
           /\ y.waiting = IF x.waiting = <<>> THEN x.waiting ELSE Tail(x.waiting)
    BY <1>1 DEF Released, MutexRecord
  <1> HIDE DEF x, y
  <1> QED
    BY <1>2, <1>3, <1>4, <1>5, <1>6 DEF GivesUp

\* The first of those who wait becomes ready.
LEMMA AwakeLife ==
    ASSUME Sound, NEW t \in With("WAITING"), Awake(t)
    PROVE  UNCHANGED Life
  <1>1. \A u \in Threads : status'[u] = status[u] \/ (u = t /\ status'[u] = "READY")
    BY DEF Awake, Sound, Base, IInv, TypeOK, ThreadTypes
  <1>2. Alive(t)
    BY DEF With, Alive
  <1> QED BY <1>1, <1>2, SameLife DEF Alive

LEMMA HeadWaits ==
    ASSUME NEW q \in Seq(Threads), q # <<>>, ToSet(q) \subseteq With("WAITING")
    PROVE  Head(q) \in With("WAITING")
  <1>1. 1 \in DOMAIN q /\ Head(q) = q[1]
    BY QueueBasics, EmptySeq
  <1> QED BY <1>1 DEF ToSet

LEMMA UnLockMutexMaps ==
    ASSUME Sound, NEW p \in Procs, NEW m \in Mutexes, UnLockMutex(p, m)
    PROVE  Maps
  <1> DEFINE c == [f |-> "unlock", m |-> m]
             t == runThread[p]
             x == mutex[m]
  <1>1. Start(p, c) /\ UNCHANGED <<sem, cond>>
    BY DEF UnLockMutex
  <1>2. /\ t \in Threads /\ Pthreads!Active(t) /\ Alive(t)
        /\ x \in MutexRecord /\ ObjectTypes /\ IInv
    BY <1>1, Actor DEF Sound, Base, IInv, TypeOK, ObjectTypes
  <1>3. CASE \E why : Fail(why) /\ UNCHANGED mutex
    BY <1>1, <1>3, FailMaps DEF syncVars
  <1>4. ASSUME Leave(p) \/ Attempt(p, c), UNCHANGED joining
        PROVE  UNCHANGED <<Dozers, Joiners, Live(cond)>>
    <2>1. pc' = [pc EXCEPT ![p] = "run"] \/ (Attempt(p, c) /\ c.f \notin WaitFamily)
      BY <1>4 DEF Leave, WaitFamily
    <2>2. UNCHANGED <<Dozers, Joiners>>
      BY <1>1, <1>2, <1>4, <2>1, SameSleepers
    <2> QED BY <1>1, <2>2 DEF Live
  <1>5. CASE UNCHANGED <<mutex, status, joining>> /\ Leave(p)
    <2>1. UNCHANGED <<Dozers, Joiners, Live(cond)>>
      BY <1>4, <1>5
    <2> QED BY <1>1, <1>5, <2>1, SameMutexMaps, SameSemMaps, SameInUse, MapsStutter DEF Maps, Life
  <1>6. CASE /\ x.live /\ x.owner = t /\ UNCHANGED joining
             /\ mutex' = [mutex EXCEPT ![m] = Released(m)]
             /\ \/ NextOwner(m) # NULL /\ Awake(NextOwner(m)) /\ Attempt(p, c)
                \/ Leave(p) /\ UNCHANGED status
    <2>1. UNCHANGED Life
      <3>1. CASE UNCHANGED status
        BY <3>1 DEF Life
      <3>2. CASE NextOwner(m) # NULL /\ Awake(NextOwner(m))
        <4>1. x.waiting # <<>> /\ NextOwner(m) = Head(x.waiting)
          BY <3>2 DEF NextOwner
        <4>2. NextOwner(m) \in With("WAITING")
          BY <1>2, <4>1, HeadWaits, Waiters DEF MutexRecord
        <4> QED BY <3>2, <4>2, AwakeLife
      <3> QED BY <1>6, <3>1, <3>2
    <2>2. UNCHANGED <<Dozers, Joiners, Live(cond)>>
      BY <1>4, <1>6
    <2>3. UNCHANGED <<Credits, Takers, Live(sem)>>
      BY <1>1, SameSemMaps
    <2>4. GivesUp(m) /\ UNCHANGED Live(mutex)
      BY <1>2, <1>6, ReleasedMaps
    <2>5. UNCHANGED InUse
      BY <2>2, <2>3, <2>4, SameInUse
    <2>6. Owners[m] = t
      BY <1>6 DEF Owners
    <2> QED BY <1>2, <2>1, <2>2, <2>3, <2>4, <2>5, <2>6, MapsUnlock DEF Maps
  <1> QED
    BY <1>3, <1>5, <1>6 DEF UnLockMutex

LEMMA PostSemMaps ==
    ASSUME Sound, NEW p \in Procs, NEW s \in Sems, PostSem(p, s)
    PROVE  Maps
  <1> DEFINE c == [f |-> "post", s |-> s]
             t == runThread[p]
             x == sem[s]
             y == Posted(x)
  <1>1. Start(p, c) /\ UNCHANGED <<mutex, cond>>
    BY DEF PostSem
  <1>2. /\ t \in Threads /\ Pthreads!Active(t) /\ Alive(t)
        /\ x \in SemRecord /\ ObjectTypes /\ IInv
    BY <1>1, Actor DEF Sound, Base, IInv, TypeOK, ObjectTypes
  <1>3. CASE \E why : Fail(why) /\ UNCHANGED sem
    BY <1>1, <1>3, FailMaps DEF syncVars
  <1>4. CASE /\ x.live /\ sem' = [sem EXCEPT ![s] = y] /\ UNCHANGED joining
             /\ \/ x.waiting # <<>> /\ Awake(Head(x.waiting)) /\ Attempt(p, c)
                \/ Leave(p) /\ UNCHANGED status
    <2>1. UNCHANGED Life
      <3>1. CASE UNCHANGED status
        BY <3>1 DEF Life
      <3>2. CASE x.waiting # <<>> /\ Awake(Head(x.waiting))
        <4>1. Head(x.waiting) \in With("WAITING")
          BY <1>2, <3>2, HeadWaits, Waiters DEF SemRecord
        <4> QED BY <3>2, <4>1, AwakeLife
      <3> QED BY <1>4, <3>1, <3>2
    <2>2. UNCHANGED <<Dozers, Joiners, Live(cond)>>
      <3>1. pc' = [pc EXCEPT ![p] = "run"] \/ (Attempt(p, c) /\ c.f \notin WaitFamily)
        BY <1>4 DEF Leave, WaitFamily
      <3>2. UNCHANGED <<Dozers, Joiners>>
        BY <1>1, <1>2, <1>4, <3>1, SameSleepers
      <3> QED BY <1>1, <3>2 DEF Live
    <2>3. /\ y.live = x.live
          /\ x.waiting # <<>> => y.value = x.value /\ y.waiting = Tail(x.waiting)
          /\ x.waiting = <<>> => y.value = x.value + 1 /\ y.waiting = x.waiting
      BY <1>2 DEF Posted, SemRecord
    <2>4. /\ Credits' = [Credits EXCEPT ![s] = y.value]
          /\ Takers'  = [Takers EXCEPT ![s] = y.waiting]
          /\ y.value = x.value => UNCHANGED Credits
          /\ y.waiting = x.waiting => UNCHANGED Takers
          /\ UNCHANGED Live(sem)
      BY <1>2, <1>4, <2>3, NewSem
    <2>5. UNCHANGED <<Owners, Depths, Lockers, InUse>> /\ s \in Live(sem)
      BY <1>1, <1>2, <1>4, <2>2, <2>4, SameMutexMaps, SameInUse DEF Live, ObjectTypes
    <2>6. Credits[s] = x.value /\ Takers[s] = x.waiting
      BY DEF Credits, Takers
    <2> HIDE DEF x, y
    <2>7. IF Takers[s] = <<>>
          THEN Credits' = [Credits EXCEPT ![s] = @ + 1] /\ UNCHANGED Takers
          ELSE Takers' = [Takers EXCEPT ![s] = Tail(@)] /\ UNCHANGED Credits
      BY <2>3, <2>4, <2>6
    <2> QED BY <1>2, <2>1, <2>2, <2>5, <2>7, MapsPost DEF Maps
  <1> QED
    BY <1>3, <1>4 DEF PostSem

LEMMA WaitSemMaps ==
    ASSUME Sound, NEW p \in Procs, NEW s \in Sems, WaitSem(p, s)
    PROVE  Maps
  <1> DEFINE c == [f |-> "semwait", s |-> s]
             t == runThread[p]
             x == sem[s]
  <1>1. Start(p, c) /\ UNCHANGED <<mutex, cond>>
    BY DEF WaitSem
  <1>2. /\ t \in Threads /\ Pthreads!Active(t) /\ Alive(t)
        /\ x \in SemRecord /\ ObjectTypes /\ IInv
    BY <1>1, Actor DEF Sound, Base, IInv, TypeOK, ObjectTypes
  <1>3. CASE \E why : Fail(why) /\ UNCHANGED sem
    BY <1>1, <1>3, FailMaps DEF syncVars
  <1>4. ASSUME x.live, NEW y, sem' = [sem EXCEPT ![s] = y], y.live, UNCHANGED joining,
               Leave(p) \/ Suspend(p, c),
               \/ x.value > 0 /\ y.value = x.value - 1 /\ y.waiting = x.waiting
               \/ x.value = 0 /\ y.value = x.value /\ y.waiting = Append(x.waiting, t),
               status' = status \/ status' = [status EXCEPT ![t] = "WAITING"]
        PROVE  Maps
    <2>1. UNCHANGED Life
      <3>1. \A u \in Threads : status'[u] = status[u] \/ (u = t /\ status'[u] = "WAITING")
        BY <1>2, <1>4 DEF IInv, TypeOK, ThreadTypes
      <3> QED BY <1>2, <3>1, SameLife DEF Alive
    <2>2. UNCHANGED <<Dozers, Joiners, Live(cond)>>
      <3>1. pc' = [pc EXCEPT ![p] = "run"] \/ Suspend(p, c)
        BY <1>4 DEF Leave
      <3>2. \A u \in Threads : c # JoinCall(u)
        BY DEF JoinCall
      <3>3. UNCHANGED <<Dozers, Joiners>>
        BY <1>1, <1>2, <1>4, <3>1, <3>2, SameSleepers
      <3> QED BY <1>1, <3>3 DEF Live
    <2>4. /\ Credits' = [Credits EXCEPT ![s] = y.value]
          /\ Takers'  = [Takers EXCEPT ![s] = y.waiting]
          /\ y.value = x.value => UNCHANGED Credits
          /\ y.waiting = x.waiting => UNCHANGED Takers
          /\ UNCHANGED Live(sem)
      BY <1>2, <1>4, NewSem
    <2>5. UNCHANGED <<Owners, Depths, Lockers, InUse>> /\ s \in Live(sem)
      BY <1>1, <1>2, <1>4, <2>2, <2>4, SameMutexMaps, SameInUse DEF Live, ObjectTypes
    <2>6. Credits[s] = x.value /\ Takers[s] = x.waiting
      BY DEF Credits, Takers
    <2>7. IF Credits[s] > 0
          THEN Credits' = [Credits EXCEPT ![s] = @ - 1] /\ UNCHANGED Takers
          ELSE Takers' = [Takers EXCEPT ![s] = Append(@, t)] /\ UNCHANGED Credits
      <3>1. x.value \in Nat
        BY <1>2 DEF SemRecord
      <3> HIDE DEF x, t
      <3>2. CASE x.value > 0 /\ y.value = x.value - 1 /\ y.waiting = x.waiting
        BY <3>2, <2>4, <2>6
      <3>3. CASE x.value = 0 /\ y.value = x.value /\ y.waiting = Append(x.waiting, t)
        <4>1. ~(Credits[s] > 0)
          BY <2>6, <3>3
        <4> QED BY <4>1, <3>3, <2>4, <2>6
      <3> QED BY <1>4, <3>2, <3>3
    <2> QED BY <1>2, <2>1, <2>2, <2>5, <2>7, MapsTake DEF Maps
  <1>5. CASE /\ x.live /\ x.value > 0 /\ Leave(p) /\ UNCHANGED <<status, joining>>
             /\ sem' = [sem EXCEPT ![s].value = @ - 1]
    <2> DEFINE y == [x EXCEPT !.value = @ - 1]
    <2>1. sem' = [sem EXCEPT ![s] = y]
      BY <1>2, <1>5 DEF ObjectTypes
    <2>2. y.live /\ y.value = x.value - 1 /\ y.waiting = x.waiting
      BY <1>2, <1>5 DEF SemRecord
    <2> HIDE DEF y
    <2> QED BY <1>4, <1>5, <2>1, <2>2
  <1>6. CASE /\ x.live /\ x.value = 0 /\ Suspend(p, c) /\ UNCHANGED joining
             /\ sem' = [sem EXCEPT ![s].waiting = Append(@, t)]
             /\ status' = [status EXCEPT ![t] = "WAITING"]
    <2> DEFINE y == [x EXCEPT !.waiting = Append(@, t)]
    <2>1. sem' = [sem EXCEPT ![s] = y]
      BY <1>2, <1>6 DEF ObjectTypes
    <2>2. y.live /\ y.value = x.value /\ y.waiting = Append(x.waiting, t)
      BY <1>2, <1>6 DEF SemRecord
    <2> HIDE DEF y
    <2> QED BY <1>4, <1>6, <2>1, <2>2
  <1> QED
    BY <1>3, <1>5, <1>6 DEF WaitSem

LEMMA JoinTail ==
    ASSUME NEW S, NEW a \in Seq(S), NEW w \in Seq(S), w # <<>>
    PROVE  Append(a, Head(w)) \o Tail(w) = a \o w
  <1> DEFINE l == Append(a, Head(w)) \o Tail(w)
             r == a \o w
  <1>1. Len(a) \in Nat /\ Len(w) \in Nat /\ Len(w) > 0 /\ Head(w) \in S /\ Head(w) = w[1]
    BY HeadTailProperties, EmptySeq, LenProperties
  <1>2. /\ Tail(w) \in Seq(S) /\ Len(Tail(w)) = Len(w) - 1
        /\ \A i \in 1 .. Len(w) - 1 : Tail(w)[i] = w[i + 1]
    BY <1>1, HeadTailProperties
  <1>3. /\ Append(a, Head(w)) \in Seq(S) /\ Len(Append(a, Head(w))) = Len(a) + 1
        /\ \A i \in 1 .. Len(a) : Append(a, Head(w))[i] = a[i]
        /\ Append(a, Head(w))[Len(a) + 1] = w[1]
    BY <1>1, AppendProperties
  <1>4. /\ r \in Seq(S) /\ Len(r) = Len(a) + Len(w)
        /\ \A i \in 1 .. Len(a) + Len(w) : r[i] = IF i <= Len(a) THEN a[i] ELSE w[i - Len(a)]
    BY ConcatProperties
  <1>5. /\ l \in Seq(S) /\ Len(l) = Len(a) + Len(w)
        /\ \A i \in 1 .. Len(a) + Len(w) :
              l[i] = IF i <= Len(a) + 1 THEN Append(a, Head(w))[i] ELSE Tail(w)[i - (Len(a) + 1)]
    BY <1>1, <1>2, <1>3, ConcatProperties
  <1> HIDE DEF l, r
  <1>6. ASSUME NEW i \in 1 .. Len(a) + Len(w) PROVE l[i] = r[i]
    <2>1. CASE i \in 1 .. Len(a)
      <3>1. i <= Len(a) /\ i <= Len(a) + 1
        BY <1>1, <2>1
      <3>2. l[i] = Append(a, Head(w))[i]
        BY <1>5, <3>1
      <3> QED BY <1>3, <1>4, <2>1, <3>1, <3>2
    <2>2. CASE i = Len(a) + 1
      BY <1>1, <1>3, <1>4, <1>5, <2>2
    <2>3. CASE i > Len(a) + 1
      <3>1. /\ i - (Len(a) + 1) \in 1 .. Len(w) - 1 /\ ~(i <= Len(a) + 1) /\ ~(i <= Len(a))
            /\ i - (Len(a) + 1) + 1 = i - Len(a)
        BY <1>1, <2>3
      <3> QED BY <1>2, <1>4, <1>5, <3>1
    <2> QED BY <1>1, <2>1, <2>2, <2>3
  <1>7. l = r
    BY <1>4, <1>5, <1>6, SeqEqual
  <1> QED BY <1>7 DEF l, r

LEMMA DozingShape ==
    ASSUME NEW x, x.waiting \in Seq(Threads)
    PROVE  /\ Dozing(x) \in Seq([t : Threads, m : {x.mutex}])
           /\ Len(Dozing(x)) = Len(x.waiting)
           /\ \A i \in 1 .. Len(x.waiting) : Dozing(x)[i] = [t |-> x.waiting[i], m |-> x.mutex]
           /\ x.waiting = <<>> => Dozing(x) = <<>>
  <1>1. /\ Len(x.waiting) \in Nat /\ DOMAIN x.waiting = 1 .. Len(x.waiting)
        /\ \A i \in 1 .. Len(x.waiting) : x.waiting[i] \in Threads
    BY QueueBasics
  <1>2. Dozing(x) = [i \in 1 .. Len(x.waiting) |-> [t |-> x.waiting[i], m |-> x.mutex]]
    BY <1>1 DEF Dozing
  <1>3. \A i \in 1 .. Len(x.waiting) : [t |-> x.waiting[i], m |-> x.mutex] \in [t : Threads, m : {x.mutex}]
    BY <1>1
  <1>4. Dozing(x) \in Seq([t : Threads, m : {x.mutex}]) /\ Len(Dozing(x)) = Len(x.waiting)
    BY <1>1, <1>2, <1>3, SeqIntro
  <1>5. x.waiting = <<>> => Dozing(x) = <<>>
    BY <1>4, EmptySeq
  <1> QED BY <1>2, <1>4, <1>5

\* The sleepers that a signal leaves.
LEMMA SignalledDozing ==
    ASSUME NEW x, x.waiting \in Seq(Threads), x.waiting # <<>>, NEW broadcast \in BOOLEAN,
           NEW n, n = IF broadcast THEN Len(x.waiting) ELSE 1,
           NEW y, y.waiting = IF broadcast THEN <<>> ELSE Tail(x.waiting),
           y.waiting # <<>> => y.mutex = x.mutex
    PROVE  Dozing(y) = SubSeq(Dozing(x), n + 1, Len(Dozing(x)))
  <1> DEFINE d == Dozing(x)
             w == x.waiting
             S == [t : Threads, m : {x.mutex}]
  <1>1. /\ d \in Seq(S) /\ Len(d) = Len(w) /\ Len(w) \in Nat /\ Len(w) > 0
        /\ \A i \in 1 .. Len(w) : d[i] = [t |-> w[i], m |-> x.mutex]
    <2>1. Len(w) \in Nat \ {0}
      BY EmptySeq
    <2>2. Len(w) \in Nat /\ Len(w) > 0
      BY <2>1
    <2> QED BY <2>2, DozingShape
  <1>2. y.waiting \in Seq(Threads)
    BY HeadTailProperties, EmptySeq
  <1>3. CASE y.waiting = <<>>
    <2>1. Dozing(y) = <<>>
      BY <1>2, <1>3, DozingShape
    <2>2. n = Len(w)
      <3>1. ~broadcast => Len(Tail(w)) = Len(w) - 1
        BY HeadTailProperties
      <3>2. ~broadcast => Len(Tail(w)) = 0
        BY <1>2, <1>3, EmptySeq
      <3> QED BY <1>1, <3>1, <3>2
    <2>3. Len(d) < n + 1 /\ n + 1 \in Int /\ Len(d) \in Int
      BY <1>1, <2>2
    <2>4. SubSeq(d, n + 1, Len(d)) = <<>>
      BY <2>3, SubSeqEmpty
    <2> QED BY <2>1, <2>4
  <1>4. CASE y.waiting # <<>>
    <2>1. ~broadcast /\ n = 1 /\ y.waiting = Tail(w) /\ y.mutex = x.mutex
      BY <1>4
    <2>2. /\ Tail(w) \in Seq(Threads) /\ Len(Tail(w)) = Len(w) - 1
          /\ \A i \in 1 .. Len(w) - 1 : Tail(w)[i] = w[i + 1]
      BY HeadTailProperties
    <2>3. d # <<>>
      BY <1>1, EmptySeq
    <2>4. /\ Tail(d) = SubSeq(d, 2, Len(d)) /\ Tail(d) \in Seq(S) /\ Len(Tail(d)) = Len(d) - 1
          /\ \A i \in 1 .. Len(d) - 1 : Tail(d)[i] = d[i + 1]
      BY <1>1, <2>3, HeadTailProperties, TailIsSubSeq
    <2>5. /\ Dozing(y) \in Seq(S) /\ Len(Dozing(y)) = Len(w) - 1
          /\ \A i \in 1 .. Len(w) - 1 : Dozing(y)[i] = [t |-> w[i + 1], m |-> x.mutex]
      <3>1. /\ Dozing(y) \in Seq([t : Threads, m : {y.mutex}]) /\ Len(Dozing(y)) = Len(y.waiting)
            /\ \A i \in 1 .. Len(y.waiting) : Dozing(y)[i] = [t |-> y.waiting[i], m |-> y.mutex]
        BY <1>2, DozingShape
      <3>2. Len(y.waiting) = Len(w) - 1 /\ \A i \in 1 .. Len(w) - 1 : y.waiting[i] = w[i + 1]
        BY <2>1, <2>2
      <3> QED BY <2>1, <3>1, <3>2
    <2>6. \A i \in 1 .. Len(w) - 1 : i + 1 \in 1 .. Len(w)
      BY <1>1
    <2> HIDE DEF d, w, S
    <2>7. \A i \in 1 .. Len(w) - 1 : Dozing(y)[i] = Tail(d)[i]
      BY <1>1, <2>4, <2>5, <2>6
    <2>8. Dozing(y) = Tail(d)
      <3>1. /\ Dozing(y) \in Seq(S) /\ Tail(d) \in Seq(S) /\ Len(Dozing(y)) = Len(Tail(d))
            /\ \A i \in 1 .. Len(Dozing(y)) : Dozing(y)[i] = Tail(d)[i]
        BY <1>1, <2>4, <2>5, <2>7
      <3> QED BY <3>1, SeqEqual, Zenon
    <2> QED BY <2>1, <2>4, <2>8 DEF d
  <1> QED BY <1>3, <1>4

\* What the sleepers of k that a signal wakes do to its mutex, which none of them owns.
LEMMA WokenAsked ==
    ASSUME IInv, MutexCoherent, NEW k \in Conds, NEW broadcast \in BOOLEAN,
           cond[k].waiting # <<>>, cond[k].mutex \in Mutexes,
           mutex[cond[k].mutex].owner # Head(cond[k].waiting),
           SleepersOf(k) = Dozing(cond[k]),
           NEW n, n = IF broadcast THEN Len(cond[k].waiting) ELSE 1,
           mutex' = [mutex EXCEPT ![cond[k].mutex] = Woken(k, broadcast)]
    PROVE  /\ n \in 1 .. Len(Dozers[k]) /\ (n = 1 \/ n = Len(Dozers[k]))
           /\ Asked(Dozers[k][1].m, [i \in 1 .. n |-> Dozers[k][i].t])
           /\ UNCHANGED <<Depths, Live(mutex)>>
  <1> DEFINE m     == cond[k].mutex
             x     == mutex[m]
             w     == cond[k].waiting
             first == Head(w)
             y     == Woken(k, broadcast)
             ws    == [i \in 1 .. n |-> Dozers[k][i].t]
  <1>1. /\ ObjectTypes /\ x \in MutexRecord /\ Coherent(x) /\ w \in Seq(Threads)
        /\ x.waiting \in Seq(Threads)
    BY DEF IInv, TypeOK, ObjectTypes, MutexRecord, CondRecord, MutexCoherent
  <1>2. /\ Len(w) \in Nat /\ Len(w) > 0 /\ first \in Threads /\ first = w[1]
        /\ Tail(w) \in Seq(Threads) /\ DOMAIN w = 1 .. Len(w)
    <2>1. Len(w) \in Nat \ {0}
      BY <1>1, EmptySeq
    <2>2. Len(w) \in Nat /\ Len(w) > 0
      BY <2>1
    <2> QED BY <1>1, <2>2, HeadTailProperties, LenProperties
  <1>3. Len(Dozers[k]) = Len(w) /\ \A i \in 1 .. Len(w) : Dozers[k][i].t = w[i] /\ Dozers[k][i].m = m
    <2>1. Dozers[k] = Dozing(cond[k])
      BY DEF Dozers
    <2>2. /\ Len(Dozing(cond[k])) = Len(w)
          /\ \A i \in 1 .. Len(w) : Dozing(cond[k])[i] = [t |-> w[i], m |-> m]
      BY <1>1, DozingShape
    <2>3. ASSUME NEW i \in 1 .. Len(w) PROVE Dozing(cond[k])[i].t = w[i] /\ Dozing(cond[k])[i].m = m
      <3>1. Dozing(cond[k])[i] = [t |-> w[i], m |-> m]
        BY <2>2
      <3>2. \A a, b : [t |-> a, m |-> b].t = a /\ [t |-> a, m |-> b].m = b
        OBVIOUS
      <3> QED BY <3>1, <3>2
    <2> QED BY <2>1, <2>2, <2>3
  <1>4. n \in 1 .. Len(w) /\ (n = 1 \/ n = Len(w))
    BY <1>2
  <1>5. ws = IF broadcast THEN w ELSE <<first>>
    <2>1. ws = [i \in 1 .. n |-> w[i]]
      <3>1. \A i \in 1 .. n : i \in 1 .. Len(w)
        BY <1>2, <1>4
      <3>2. \A i \in 1 .. n : Dozers[k][i].t = w[i]
        BY <1>3, <3>1
      <3>3. ASSUME NEW e, e = [i \in 1 .. n |-> w[i]] PROVE ws = e
        BY <3>2, <3>3
      <3> QED BY <3>3
    <2>2. CASE broadcast
      <3>1. w = [i \in 1 .. Len(w) |-> w[i]]
        BY <1>1, LenProperties
      <3> QED BY <2>1, <2>2, <3>1
    <2>3. CASE ~broadcast
      <3>1. n = 1
        BY <2>3
      <3>2. ws = [i \in 1 .. 1 |-> w[i]]
        BY <2>1, <3>1
      <3>3. <<first>> = [i \in 1 .. 1 |-> first]
        OBVIOUS
      <3> QED BY <1>2, <2>3, <3>2, <3>3
    <2> QED BY <2>2, <2>3
  <1>6. ws # <<>> /\ Head(ws) = first /\ Tail(ws) = IF broadcast THEN Tail(w) ELSE <<>>
    <2>1. <<first>> # <<>> /\ Head(<<first>>) = first /\ Tail(<<first>>) = <<>>
      OBVIOUS
    <2> HIDE DEF ws, w, first
    <2>2. CASE broadcast
      BY <1>5, <2>2 DEF w, first
    <2>3. CASE ~broadcast
      BY <1>5, <2>1, <2>3
    <2> QED BY <2>2, <2>3
  <1>7. Dozers[k][1].m = m
    BY <1>2, <1>3
  <1> DEFINE taken == CondLocked(x, first)
  <1>8. /\ taken.owner = IF x.owner = NULL THEN first ELSE x.owner
        /\ taken.waiting = IF x.owner = NULL THEN x.waiting ELSE Append(x.waiting, first)
        /\ taken.rec = x.rec /\ taken.live = x.live
        /\ DOMAIN taken = {"live", "owner", "status", "rec", "waiting"}
    <2>1. x.owner # first
      OBVIOUS
    <2> HIDE DEF first, x
    <2>2. CASE x.owner = NULL
      BY <1>1, <2>1, <2>2 DEF CondLocked, Coherent, MutexRecord
    <2>3. CASE x.owner # NULL
      BY <1>1, <2>1, <2>3 DEF CondLocked, Coherent, MutexRecord
    <2> QED BY <2>2, <2>3
  <1>9. /\ y.owner = taken.owner /\ y.rec = x.rec /\ y.live = x.live
        /\ y.waiting = IF broadcast THEN taken.waiting \o Tail(w) ELSE taken.waiting
    <2>1. y = IF broadcast THEN [taken EXCEPT !.waiting = @ \o Tail(w)] ELSE taken
      BY DEF Woken
    <2> HIDE DEF y, taken
    <2> QED BY <1>8, <2>1
  <1>10. y.waiting = x.waiting \o (IF x.owner = NULL THEN Tail(ws) ELSE ws)
    <2>1. CASE broadcast
      <3>1. Append(x.waiting, first) \o Tail(w) = x.waiting \o w
        BY <1>1, JoinTail
      <3> HIDE DEF ws, y, taken
      <3> QED BY <1>5, <1>6, <1>8, <1>9, <2>1, <3>1
    <2>2. CASE ~broadcast
      <3>1. x.waiting \o <<>> = x.waiting /\ Append(x.waiting, first) = x.waiting \o <<first>>
        BY <1>1, <1>2, ConcatEmptySeq, AppendIsConcat
      <3> HIDE DEF ws, y, taken
      <3> QED BY <1>5, <1>6, <1>8, <1>9, <2>2, <3>1
    <2> QED BY <2>1, <2>2
  <1>11. /\ Owners'  = [Owners EXCEPT ![m] = y.owner]
         /\ Lockers' = [Lockers EXCEPT ![m] = y.waiting]
         /\ UNCHANGED <<Depths, Live(mutex)>>
    BY <1>1, <1>9, NewMutex
  <1>12. Owners[m] = x.owner /\ Lockers[m] = x.waiting
    BY DEF Owners, Lockers
  <1>13. Asked(m, ws)
    <2> HIDE DEF ws, y, taken, x, m, first
    <2> QED BY <1>6, <1>8, <1>9, <1>10, <1>11, <1>12 DEF Asked
  <1> QED BY <1>3, <1>4, <1>7, <1>11, <1>13

LEMMA SignalCondMaps ==
    ASSUME Sound, Plain, NEW p \in Procs, NEW k \in Conds, NEW broadcast \in BOOLEAN,
           SignalCond(p, k, broadcast)
    PROVE  Maps
  <1> DEFINE c == [f |-> IF broadcast THEN "broadcast" ELSE "signal", c |-> k]
             t == runThread[p]
             m == cond[k].mutex
             w == cond[k].waiting
  <1>1. Start(p, c) /\ UNCHANGED sem
    BY DEF SignalCond
  <1>2. /\ t \in Threads /\ Pthreads!Active(t) /\ Alive(t) /\ IInv /\ ObjectTypes /\ MutexCoherent
        /\ \A q \in Procs : ~Inside(q)
        /\ \A j \in Conds : SleepersOf(j) = Dozing(cond[j])
        /\ \A u \in Threads : JoinersOf(u) = ToSet(joining[u])
    BY <1>1, Actor DEF Sound, Base, IInv, TypeOK
  <1>3. CASE \E why : Fail(why) /\ UNCHANGED <<mutex, cond>>
    BY <1>1, <1>3, FailMaps DEF syncVars
  <1>4. c.f \notin WaitFamily
    BY DEF WaitFamily
  <1>5. CASE UNCHANGED <<mutex, cond, status, joining>> /\ Attempt(p, c)
    <2>1. UNCHANGED <<Dozers, Joiners>>
      BY <1>1, <1>2, <1>4, <1>5, SameSleepers
    <2>2. UNCHANGED Live(cond)
      BY <1>5 DEF Live
    <2> QED BY <1>1, <1>5, <2>1, <2>2, SameMutexMaps, SameSemMaps, SameInUse, MapsStutter DEF Maps, Life
  <1>6. CASE /\ w # <<>> /\ m # NULL /\ UNCHANGED joining /\ Attempt(p, c)
             /\ mutex' = [mutex EXCEPT ![m] = Woken(k, broadcast)]
             /\ cond' = [cond EXCEPT ![k] = Signalled(cond[k], broadcast)]
             /\ Awake(Head(w)) \/ UNCHANGED status
    <2> DEFINE n == IF broadcast THEN Len(w) ELSE 1
               y == Signalled(cond[k], broadcast)
    <2>1. m \in Mutexes /\ w \in Seq(Threads) /\ cond[k] \in CondRecord
      BY <1>2, <1>6 DEF ObjectTypes, CondRecord
    <2>2. Head(w) \in ToSet(w) /\ Head(w) \in With("WAITING")
      <3>1. 1 \in DOMAIN w /\ Head(w) = w[1]
        BY <1>6, <2>1, QueueBasics, EmptySeq
      <3> QED BY <1>6, <2>1, <3>1, HeadWaits, Waiters DEF ToSet
    <2>3. mutex[m].owner # Head(w)
      BY <1>6, <2>2 DEF Plain
    <2>4. /\ n \in 1 .. Len(Dozers[k]) /\ (n = 1 \/ n = Len(Dozers[k]))
          /\ Asked(Dozers[k][1].m, [i \in 1 .. n |-> Dozers[k][i].t])
          /\ UNCHANGED <<Depths, Live(mutex)>>
      BY <1>2, <1>6, <2>1, <2>3, WokenAsked
    <2>5. UNCHANGED Life
      BY <1>6, <2>2, AwakeLife DEF Life
    <2>6. /\ \A u \in Threads : JoinersOf(u)' = ToSet(joining'[u])
          /\ \A j \in Conds : SleepersOf(j)' = Dozing(cond'[j])
      BY <1>2, <1>4, <1>6, AttemptingAfter
    <2>7. UNCHANGED Joiners
      BY <1>2, <1>6, <2>6 DEF Joiners
    <2>8. /\ y.waiting = IF broadcast THEN <<>> ELSE Tail(w)
          /\ y.waiting # <<>> => y.mutex = m
          /\ y.live = cond[k].live
      BY <2>1 DEF Signalled, CondRecord
    <2>9. Dozing(y) = SubSeq(Dozing(cond[k]), n + 1, Len(Dozing(cond[k])))
      <3> HIDE DEF y, n
      <3>1. n = IF broadcast THEN Len(w) ELSE 1
        BY DEF n
      <3> QED BY <1>6, <2>1, <2>8, <3>1, SignalledDozing
    <2>10. Dozers' = [Dozers EXCEPT ![k] = SubSeq(@, n + 1, Len(@))]
      <3>1. cond'[k] = y /\ \A j \in Conds \ {k} : cond'[j] = cond[j]
        BY <1>2, <1>6 DEF ObjectTypes
      <3> HIDE DEF y, n
      <3> QED BY <1>2, <2>6, <2>9, <3>1 DEF Dozers
    <2>11. UNCHANGED <<Credits, Takers, Live(sem), Live(cond)>>
      BY <1>1, <1>2, <1>6, <2>8, SameSemMaps, LiveConds
    <2>12. UNCHANGED InUse
      BY <2>4, <2>11, SameInUse
    <2> HIDE DEF n
    <2> QED BY <1>2, <2>4, <2>5, <2>7, <2>10, <2>11, <2>12, MapsWake DEF Maps
  <1> QED
    BY <1>3, <1>5, <1>6 DEF SignalCond, Woken

LEMMA SameDozing ==
    ASSUME NEW x, NEW y, y.waiting = x.waiting, x.waiting \in Seq(Threads),
           x.waiting # <<>> => y.mutex = x.mutex
    PROVE  Dozing(y) = Dozing(x)
  <1>1. CASE x.waiting = <<>>
    BY <1>1, DozingShape
  <1>2. CASE x.waiting # <<>>
    BY <1>2 DEF Dozing
  <1> QED BY <1>1, <1>2

LEMMA OneMoreDozing ==
    ASSUME NEW x, NEW y, NEW t \in Threads, NEW m, y.waiting = Append(x.waiting, t), y.mutex = m,
           x.waiting \in Seq(Threads), x.waiting # <<>> => x.mutex = m
    PROVE  Dozing(y) = Append(Dozing(x), [t |-> t, m |-> m])
  <1> DEFINE S == [t : Threads, m : {x.mutex, m}]
             w == x.waiting
             a == Append(Dozing(x), [t |-> t, m |-> m])
             n == Len(w)
  <1>1. n \in Nat
    BY LenProperties
  <1>2. /\ Dozing(x) \in Seq(S) /\ Len(Dozing(x)) = n
        /\ \A i \in 1 .. n : Dozing(x)[i] = [t |-> w[i], m |-> m]
    <2>1. /\ Dozing(x) \in Seq([t : Threads, m : {x.mutex}]) /\ Len(Dozing(x)) = n
          /\ \A i \in 1 .. n : Dozing(x)[i] = [t |-> w[i], m |-> x.mutex]
      BY DozingShape
    <2>2. \A i \in 1 .. n : x.mutex = m
      <3>1. w = <<>> => n = 0
        BY EmptySeq
      <3> QED BY <1>1, <3>1
    <2>3. Dozing(x) \in [1 .. n -> [t : Threads, m : {x.mutex}]]
      BY <2>1, LenProperties
    <2>4. Dozing(x) \in [1 .. n -> S]
      BY <2>3
    <2>5. Dozing(x) \in Seq(S)
      BY <1>1, <2>4, SeqIntro
    <2> QED BY <2>1, <2>2, <2>5
  <1>3. /\ a \in Seq(S) /\ Len(a) = n + 1
        /\ \A i \in 1 .. n : a[i] = [t |-> w[i], m |-> m]
        /\ a[n + 1] = [t |-> t, m |-> m]
    <2>1. [t |-> t, m |-> m] \in S
      OBVIOUS
    <2> HIDE DEF S
    <2> QED BY <1>2, <2>1, AppendProperties
  <1>4. /\ y.waiting \in Seq(Threads) /\ Len(y.waiting) = n + 1
        /\ \A i \in 1 .. n : y.waiting[i] = w[i]
        /\ y.waiting[n + 1] = t
    BY AppendProperties
  <1>5. /\ Dozing(y) \in Seq([t : Threads, m : {y.mutex}]) /\ Len(Dozing(y)) = n + 1
        /\ \A i \in 1 .. n + 1 : Dozing(y)[i] = [t |-> y.waiting[i], m |-> y.mutex]
    BY <1>4, DozingShape
  <1>6. Dozing(y) \in Seq(S)
    <2>1. Dozing(y) \in [1 .. n + 1 -> [t : Threads, m : {y.mutex}]]
      BY <1>5, LenProperties
    <2>2. Dozing(y) \in [1 .. n + 1 -> S]
      BY <2>1
    <2>3. n + 1 \in Nat
      BY <1>1
    <2> QED BY <2>2, <2>3, SeqIntro
  <1> HIDE DEF a, n, S, w
  <1>7. \A i \in 1 .. n + 1 : Dozing(y)[i] = a[i]
    <2>1. \A i \in 1 .. n + 1 : i \in 1 .. n \/ i = n + 1
      BY <1>1
    <2> QED BY <1>3, <1>4, <1>5, <2>1
  <1>8. Dozing(y) = a
    BY <1>3, <1>5, <1>6, <1>7, SeqEqual
  <1> QED BY <1>8 DEF a

LEMMA WaitCondMaps ==
    ASSUME Sound, NEW p \in Procs, NEW k \in Conds, NEW m \in Mutexes, NEW timed \in BOOLEAN,
           WaitCond(p, k, m, timed), cond[k].mutex \in {NULL, m}, mutex[m].owner = runThread[p]
    PROVE  Maps
  <1> DEFINE c == [f |-> IF timed THEN "timedwait" ELSE "wait", c |-> k, m |-> m]
             t == runThread[p]
  <1>1. Start(p, c) /\ UNCHANGED sem
    BY DEF WaitCond
  <1>2. /\ t \in Threads /\ Pthreads!Active(t) /\ Alive(t) /\ IInv /\ ObjectTypes
        /\ \A q \in Procs : ~Inside(q)
        /\ \A j \in Conds : SleepersOf(j) = Dozing(cond[j])
        /\ \A u \in Threads : JoinersOf(u) = ToSet(joining[u])
    BY <1>1, Actor DEF Sound, Base, IInv, TypeOK
  <1>3. CASE \E why : Fail(why) /\ UNCHANGED <<mutex, cond>>
    BY <1>1, <1>3, FailMaps DEF syncVars
  <1>4. c.f \in WaitFamily /\ c.c = k /\ c.m = m /\ \A u \in Threads : c # JoinCall(u)
    BY DEF WaitFamily, JoinCall
  <1>5. /\ cond[k].waiting \in Seq(Threads) /\ (cond[k].waiting # <<>> => cond[k].mutex = m)
        /\ t # NULL /\ cond[k] \in CondRecord
    BY <1>2, NullAssumption DEF ObjectTypes, CondRecord, Sound, Base, CondInv, CondKnowsMutex
  <1>6. ASSUME cond[k].live, NEW y, cond' = [cond EXCEPT ![k] = y], y.live = cond[k].live,
               mutex' = [mutex EXCEPT ![m] = Released(m)], UNCHANGED Life, UNCHANGED joining,
               \A j \in Conds \ {k} : SleepersOf(j)' = Dozing(cond'[j]),
               SleepersOf(k)' = Append(Dozing(cond[k]), [t |-> t, m |-> m]),
               \A u \in Threads : JoinersOf(u)' = ToSet(joining'[u])
        PROVE  Maps
    <2>1. GivesUp(m) /\ UNCHANGED Live(mutex)
      BY <1>2, <1>6, ReleasedMaps
    <2>2. UNCHANGED <<Credits, Takers, Live(sem), Live(cond)>>
      BY <1>1, <1>2, <1>6, SameSemMaps, LiveConds
    <2>3. UNCHANGED <<InUse, Joiners>>
      BY <1>2, <1>6, <2>1, <2>2, SameInUse DEF Joiners
    <2>4. Owners[m] = t /\ k \in Live(cond)
      BY <1>2, <1>6 DEF Owners, Live, ObjectTypes
    <2>5. Dozers' = [Dozers EXCEPT ![k] = Append(@, [t |-> t, m |-> m])]
      <3>1. \A j \in Conds \ {k} : cond'[j] = cond[j]
        BY <1>2, <1>6 DEF ObjectTypes
      <3> HIDE DEF t
      <3>2. \A j \in Conds : SleepersOf(j)' =
               IF j = k THEN Append(SleepersOf(k), [t |-> t, m |-> m]) ELSE SleepersOf(j)
        BY <1>2, <1>6, <3>1
      <3> QED BY <3>2 DEF Dozers
    <2> HIDE DEF t
    <2> QED BY <1>2, <1>6, <2>1, <2>2, <2>3, <2>4, <2>5, MapsSleep DEF Maps
  <1>7. CASE /\ cond[k].live /\ UNCHANGED joining
             /\ mutex' = IF mutex[m].owner = NULL THEN mutex
                         ELSE [mutex EXCEPT ![m] = Released(m)]
             /\ cond' = [cond EXCEPT ![k].mutex = m, ![k].waiting = Append(@, t)]
             /\ CondEnqueue(p, c)
    <2> DEFINE y == [cond[k] EXCEPT !.mutex = m, !.waiting = Append(@, t)]
    <2>1. cond' = [cond EXCEPT ![k] = y]
      BY <1>2, <1>7 DEF ObjectTypes
    <2>2. y.live = cond[k].live /\ y.mutex = m /\ y.waiting = Append(cond[k].waiting, t)
      BY <1>5 DEF CondRecord
    <2>3. UNCHANGED Life
      <3>1. \A u \in Threads : status'[u] = status[u] \/ (u = t /\ status'[u] = "WAITING")
        BY <1>2, <1>7 DEF CondEnqueue, IInv, TypeOK, ThreadTypes
      <3> QED BY <1>2, <3>1, SameLife DEF Alive
    <2> HIDE DEF y
    <2>4. /\ \A j \in Conds : SleepersOf(j)' = Dozing(cond'[j])
          /\ \A u \in Threads : JoinersOf(u)' = ToSet(joining'[u])
      <3>1. /\ \A j \in Conds : SleepersOf(j)' = Dozing(cond'[j])
            /\ \A u \in Threads : JoinersOf(u)' =
                  ToSet(joining'[u]) \cup { v \in {runThread[p]} : c = JoinCall(u) }
        <4>1. Suspend(p, c)
          BY <1>7 DEF CondEnqueue
        <4> HIDE DEF c, t
        <4> QED BY <1>2, <4>1, SuspendingAfter
      <3> QED BY <1>4, <3>1
    <2>5. Dozing(y) = Append(Dozing(cond[k]), [t |-> t, m |-> m])
      <3> HIDE DEF t
      <3>1. /\ t \in Threads /\ y.waiting = Append(cond[k].waiting, t) /\ y.mutex = m
            /\ cond[k].waiting \in Seq(Threads) /\ (cond[k].waiting # <<>> => cond[k].mutex = m)
        BY <1>2, <1>5, <2>2
      <3> QED BY <3>1, OneMoreDozing, Zenon
    <2>6. cond'[k] = y
      BY <1>2, <2>1 DEF ObjectTypes
    <2>7. mutex' = [mutex EXCEPT ![m] = Released(m)]
      BY <1>5, <1>7
    <2> QED BY <1>6, <1>7, <2>1, <2>2, <2>3, <2>4, <2>5, <2>6, <2>7
  <1>8. CASE /\ cond[k].live /\ UNCHANGED <<joining, runThread>>
             /\ NextOwner(m) # NULL
             /\ mutex' = [mutex EXCEPT ![m] = Released(m)]
             /\ cond' = [cond EXCEPT ![k].mutex = m]
             /\ Awake(NextOwner(m))
             /\ Attempt(p, c)
    <2> DEFINE y == [cond[k] EXCEPT !.mutex = m]
    <2>1. cond' = [cond EXCEPT ![k] = y]
      BY <1>2, <1>8 DEF ObjectTypes
    <2>2. y.live = cond[k].live /\ y.mutex = m /\ y.waiting = cond[k].waiting
      BY <1>5 DEF CondRecord
    <2>3. UNCHANGED Life
      <3>1. mutex[m].waiting # <<>> /\ NextOwner(m) = Head(mutex[m].waiting)
        BY <1>8 DEF NextOwner
      <3>2. NextOwner(m) \in With("WAITING")
        BY <1>2, <3>1, HeadWaits, Waiters DEF ObjectTypes, MutexRecord
      <3> QED BY <1>8, <3>2, AwakeLife
    <2> HIDE DEF y
    <2>4. /\ \A u \in Threads : JoinersOf(u)' = ToSet(joining'[u])
          /\ \A j \in Conds \ {k} : SleepersOf(j)' = Dozing(cond'[j])
          /\ SleepersOf(k)' = Append(Dozing(cond'[k]), [t |-> t, m |-> m])
      <3>1. /\ \A u \in Threads : JoinersOf(u)' = ToSet(joining'[u])
            /\ \A j \in Conds \ {c.c} : SleepersOf(j)' = Dozing(cond'[j])
            /\ SleepersOf(c.c)' = Append(Dozing(cond'[c.c]), [t |-> runThread'[p], m |-> c.m])
        <4> HIDE DEF c
        <4> QED BY <1>2, <1>4, <1>8, AttemptingAfter
      <3> QED BY <1>4, <1>8, <3>1
    <2>5. cond'[k] = y
      BY <1>2, <2>1 DEF ObjectTypes
    <2>6. Dozing(y) = Dozing(cond[k])
      <3>1. /\ y.waiting = cond[k].waiting /\ cond[k].waiting \in Seq(Threads)
            /\ (cond[k].waiting # <<>> => y.mutex = cond[k].mutex)
        BY <1>5, <2>2
      <3> QED BY <3>1, SameDozing, Zenon
    <2> QED BY <1>6, <1>8, <2>1, <2>2, <2>3, <2>4, <2>5, <2>6
  <1> QED
    BY <1>3, <1>5, <1>7, <1>8 DEF WaitCond

-----------------------------------------------------------------------------
(* The scheduler and the second parts of the handlers *)

\* The steps of the scheduler, which PthreadSync does not see.
LEMMA ScheduleMaps ==
    ASSUME UNCHANGED <<mutex, sem, Live(cond), Life, Dozers, Joiners>>
    PROVE  Maps
  BY SameMutexMaps, SameSemMaps, SameInUse, MapsStutter DEF Maps

LEMMA WaitCondResumedMaps ==
    ASSUME Sound, NEW p \in Procs, WaitCondResumed(p)
    PROVE  Maps
  <1> DEFINE k == call[p].c
             t == runThread[p]
             m == call[p].m
  <1>1. /\ cond' = [cond EXCEPT ![k].waiting = Append(@, t)]
        /\ status' = [status EXCEPT ![t] = "WAITING"] /\ UNCHANGED <<mutex, sem, joining>>
        /\ pc' = [pc EXCEPT ![p] = "choose"] /\ call' = [call EXCEPT ![p] = call[p]]
        /\ pc[p] = "attempt" /\ call[p].f \in WaitFamily
    BY DEF WaitCondResumed, AttemptOver, CondEnqueue, Suspend, Hold
  <1>2. /\ IInv /\ call \in [Procs -> LockedCalls \cup {NoCall}] /\ pc \in [Procs -> Phases]
        /\ curThread' = [curThread EXCEPT ![p] = t]
        /\ status \in [Threads -> {"UNBORN", "READY", "RUNNING", "WAITING", "DEAD"}]
        /\ cond \in [Conds -> CondRecord]
    BY DEF Sound, Base, IInv, TypeOK, HandlerTypes, ThreadTypes, ObjectTypes, WaitCondResumed,
           CondEnqueue, Suspend, Hold
  <1>3. call[p] \in LockedCalls /\ t # NULL /\ t \in Threads
    BY <1>1 DEF Sound, Base, IInv, HandlersHaveThread, LockedCalls, TypeOK, ThreadTypes
  <1>4. k \in Conds /\ m \in Mutexes
    <2>1. call[p].f \in {"wait", "timedwait"}
      BY <1>1 DEF WaitFamily
    <2> QED BY <1>3, <2>1, CallShape
  <1>5. cond[k].mutex = m
    BY <1>1 DEF Sound, Base, CondInv, FallingAsleepKnowsMutex, WaitsAgree, Agrees
  <1>6. UNCHANGED Life
    <2>1. t \in With("RUNNING")
      BY <1>3 DEF Sound, ThreadsInv, PlaceInv, OnProcessors
    <2>2. Alive(t) /\ \A u \in Threads : status'[u] = status[u] \/ (u = t /\ status'[u] = "WAITING")
      BY <1>1, <1>2, <2>1 DEF With, Alive
    <2> QED BY <2>2, SameLife DEF Alive
  <1> DEFINE y == [cond[k] EXCEPT !.waiting = Append(@, t)]
  <1>7. /\ cond' = [cond EXCEPT ![k] = y] /\ cond'[k] = y /\ \A j \in Conds \ {k} : cond'[j] = cond[j]
        /\ y.live = cond[k].live /\ y.mutex = m /\ y.waiting = Append(cond[k].waiting, t)
        /\ cond[k].waiting \in Seq(Threads)
    BY <1>1, <1>2, <1>4, <1>5 DEF CondRecord
  <1> HIDE DEF y
  <1>8. Dozing(y) = Append(Dozing(cond[k]), Doze(p))
    <2>1. Doze(p) = [t |-> t, m |-> m]
      BY DEF Doze
    <2> HIDE DEF t, k, m
    <2>2. /\ t \in Threads /\ y.waiting = Append(cond[k].waiting, t) /\ y.mutex = m
          /\ cond[k].waiting \in Seq(Threads) /\ (cond[k].waiting # <<>> => cond[k].mutex = m)
      BY <1>3, <1>5, <1>7
    <2>3. Dozing(y) = Append(Dozing(cond[k]), [t |-> t, m |-> m])
      BY <2>2, OneMoreDozing, Zenon
    <2> QED BY <2>1, <2>3
  <1>9. /\ SleepersOf(k) = Append(Dozing(cond[k]), Doze(p))
        /\ \A j \in Conds \ {k} : FallingAsleep(j) = {}
        /\ \A q \in Procs \ {p} : ~Inside(q)
    BY <1>1, <1>2, OneFalls, OnlyInside DEF Inside
  <1>10. \A j \in Conds : FallingAsleep(j)' = {}
    BY <1>1, <1>2, <1>9 DEF FallingAsleep, Inside
  <1>11. \A j \in Conds : SleepersOf(j)' = Dozing(cond'[j])
    BY <1>10 DEF SleepersOf, Dozing
  <1>12. \A j \in Conds \ {k} : SleepersOf(j) = Dozing(cond[j])
    BY <1>9, NobodyFalls
  <1>13. \A j \in Conds : SleepersOf(j)' = SleepersOf(j)
    BY <1>7, <1>8, <1>9, <1>11, <1>12
  <1>14. ASSUME NEW u \in Threads PROVE JoinersOf(u)' = JoinersOf(u)
    <2>1. \A q \in Procs : ~(call[q] = JoinCall(u) /\ pc[q] = "choose")
      BY <1>1, <1>9 DEF Inside
    <2>2. call[p] # JoinCall(u)
      BY <1>1 DEF JoinCall, WaitFamily
    <2>3. \A q \in Procs : ~(call'[q] = JoinCall(u) /\ pc'[q] = "choose")
      BY <1>1, <1>2, <2>1, <2>2
    <2> QED BY <1>1, <2>1, <2>3 DEF JoinersOf, JoinCall
  <1>15. UNCHANGED <<Dozers, Joiners>>
    BY <1>13, <1>14, SameSleep
  <1>16. UNCHANGED Live(cond)
    BY <1>2, <1>4, <1>7, LiveConds DEF IInv, TypeOK
  <1> QED BY <1>1, <1>6, <1>15, <1>16, ScheduleMaps

LEMMA AttemptedMaps ==
    ASSUME Sound, NEW p \in Procs, Attempted(p)
    PROVE  Maps
  <1>1. /\ UNCHANGED <<status, joining, mutex, sem, cond>> /\ Leave(p)
        /\ pc[p] = "attempt" /\ call[p].f \notin WaitFamily
    BY DEF Attempted, syncVars, AttemptOver
  <1>2. IInv /\ pc \in [Procs -> Phases] /\ \A q \in Procs \ {p} : ~Inside(q)
    BY <1>1, OnlyInside DEF Sound, Base, IInv, TypeOK, HandlerTypes, Inside
  <1>3. (\A q \in Procs : ~Inside(q))'
    BY <1>1, <1>2 DEF Leave, Inside
  <1>4. \A k \in Conds : FallingAsleep(k) = {}
    BY <1>1, <1>2 DEF FallingAsleep, Inside
  <1>5. \A k \in Conds : SleepersOf(k) = Dozing(cond[k])
    BY <1>4, NobodyFalls
  <1>6. \A u \in Threads : JoinersOf(u) = ToSet(joining[u])
    BY <1>1, <1>2 DEF JoinersOf, Inside
  <1>7. UNCHANGED <<Dozers, Joiners>>
    BY <1>1, <1>3, <1>5, <1>6, QuietAfter, SameSleep
  <1> QED BY <1>1, <1>7, ScheduleMaps DEF Life, Live

\* The thread that findReadyThread takes was ready.
LEMMA FoundLife ==
    ASSUME Sound, NEW l \in Levels, Top(l), status' = [status EXCEPT ![Found(l)] = "RUNNING"]
    PROVE  UNCHANGED Life
  <1>1. readyQueue[l] \in Seq(Threads) /\ readyQueue[l] # <<>> /\ l \in DOMAIN readyQueue
        /\ status \in [Threads -> {"UNBORN", "READY", "RUNNING", "WAITING", "DEAD"}]
    BY DEF Sound, Base, IInv, TypeOK, ThreadTypes, Top
  <1>2. ToSet(readyQueue[l]) \subseteq With("READY")
    BY <1>1, HoldsFacts DEF Sound, ThreadsInv, PlaceInv, InQueues
  <1>3. 1 \in DOMAIN readyQueue[l] /\ Found(l) = readyQueue[l][1]
    BY <1>1, QueueBasics, EmptySeq DEF Found
  <1>4. Found(l) \in With("READY")
    BY <1>2, <1>3 DEF ToSet
  <1>5. Alive(Found(l)) /\ \A u \in Threads : status'[u] = status[u] \/ (u = Found(l) /\ status'[u] = "RUNNING")
    BY <1>1, <1>4 DEF With, Alive
  <1> QED BY <1>5, SameLife DEF Alive

LEMMA AttemptNextMaps ==
    ASSUME Sound, NEW p \in Procs, AttemptNext(p), UNCHANGED syncVars
    PROVE  Maps
  <1>1. CASE Fail("deadlock")
    BY <1>1, FailMaps
  <1>2. ASSUME NEW l \in Levels, NEW q \in FreeProcs(p), Top(l),
               runThread' = [runThread EXCEPT ![q] = Found(l)],
               status' = [status EXCEPT ![Found(l)] = "RUNNING"],
               UNCHANGED <<joining, pc, call, curThread>>
        PROVE  Maps
    <2>1. UNCHANGED Life
      BY <1>2, FoundLife
    <2>2. runThread \in [Procs -> Threads \cup {NULL}] /\ runThread[q] = NULL
      BY <1>2 DEF Sound, Base, IInv, TypeOK, ThreadTypes, FreeProcs
    <2>3. \A r \in Procs : pc[r] = "attempt" => runThread'[r] = runThread[r]
      BY <1>2, <2>2 DEF Sound, ThreadsInv, RestInv, HandlersSound, HandlerSound
    <2>4. UNCHANGED <<mutex, sem, cond>>
      BY DEF syncVars
    <2>5. \A k \in Conds : FallingAsleep(k)' = FallingAsleep(k)
      BY <1>2 DEF FallingAsleep
    <2>6. ASSUME NEW k \in Conds PROVE SleepersOf(k)' = SleepersOf(k)
      <3>1. CASE FallingAsleep(k) = {}
        BY <2>4, <2>5, <3>1 DEF SleepersOf
      <3>2. CASE FallingAsleep(k) # {}
        <4> DEFINE r == CHOOSE r \in FallingAsleep(k) : TRUE
        <4>1. r \in FallingAsleep(k)
          BY <3>2
        <4>2. r \in Procs /\ pc[r] = "attempt"
          BY <4>1 DEF FallingAsleep
        <4>3. runThread'[r] = runThread[r] /\ call'[r] = call[r]
          BY <1>2, <2>3, <4>2
        <4>4. r' = r
          BY <2>5
        <4> QED BY <2>4, <2>5, <3>2, <4>3, <4>4 DEF SleepersOf
      <3> QED BY <3>1, <3>2
    <2>7. \A u \in Threads : JoinersOf(u)' = JoinersOf(u)
      BY <1>2 DEF JoinersOf
    <2>8. UNCHANGED <<Dozers, Joiners>>
      BY <2>6, <2>7, SameSleep
    <2> QED BY <2>1, <2>4, <2>8, ScheduleMaps DEF Live
  <1> QED BY <1>1, <1>2 DEF AttemptNext

LEMMA AppendMembers ==
    ASSUME NEW q \in Seq(Threads), NEW t \in Threads
    PROVE  ToSet(Append(q, t)) = ToSet(q) \cup {t}
  <1>1. /\ Len(q) \in Nat /\ Append(q, t) \in Seq(Threads) /\ Len(Append(q, t)) = Len(q) + 1
        /\ \A i \in 1 .. Len(q) : Append(q, t)[i] = q[i]
        /\ Append(q, t)[Len(q) + 1] = t
    BY AppendProperties, LenProperties
  <1>2. \A u : u \in ToSet(q) <=> \E i \in 1 .. Len(q) : q[i] = u
    BY QueueBasics
  <1>3. \A u : u \in ToSet(Append(q, t)) <=> \E i \in 1 .. Len(q) + 1 : Append(q, t)[i] = u
    BY <1>1, QueueBasics
  <1>4. \A i : i \in 1 .. Len(q) + 1 <=> i \in 1 .. Len(q) \/ i = Len(q) + 1
    BY <1>1
  <1> QED BY <1>1, <1>2, <1>3, <1>4

LEMMA ChosenMaps ==
    ASSUME Sound, Lawful, NEW p \in Procs, Chosen(p), UNCHANGED syncVars
    PROVE  Maps
  <1> DEFINE me == curThread[p]
  <1>1. CASE Fail("deadlock")
    BY <1>1, FailMaps
  <1>2. CASE /\ joining' = Joined(p) /\ Leave(p)
             /\ \/ UNCHANGED status
                \/ \E l \in Levels : Top(l) /\ status' = [status EXCEPT ![Found(l)] = "RUNNING"]
    <2>1. UNCHANGED Life
      BY <1>2, FoundLife DEF Life
    <2>2. UNCHANGED <<mutex, sem, cond>>
      BY DEF syncVars
    <2>3. /\ IInv /\ pc \in [Procs -> Phases] /\ joining \in [Threads -> Seq(Threads)]
          /\ pc[p] = "choose" /\ me \in Threads /\ call[p] \in LockedCalls /\ call[p] \in Calls
          /\ \A q \in Procs \ {p} : ~Inside(q)
      <3>1. pc[p] = "choose" /\ IInv
        BY DEF Chosen, Sound, Base
      <3>2. me # NULL /\ call[p] \in LockedCalls /\ call[p] \in Calls
        BY <3>1 DEF IInv, HandlersHaveThread, Sound, ThreadsInv, RestInv, HandlersSound, HandlerSound
      <3> QED BY <3>1, <3>2, OnlyInside DEF IInv, TypeOK, HandlerTypes, ThreadTypes, Inside
    <2>4. (\A q \in Procs : ~Inside(q))'
      BY <1>2, <2>3 DEF Leave, Inside
    <2>5. \A k \in Conds : FallingAsleep(k) = {}
      BY <2>3 DEF FallingAsleep, Inside
    <2>6. \A k \in Conds : SleepersOf(k) = Dozing(cond[k])
      BY <2>5, NobodyFalls
    <2>7. \A k \in Conds : SleepersOf(k)' = SleepersOf(k)
      BY <2>2, <2>4, <2>6, QuietAfter
    <2>8. ASSUME NEW u \in Threads
          PROVE  JoinersOf(u) = ToSet(joining[u]) \cup { t \in {me} : call[p] = JoinCall(u) }
      <3>1. { q \in Procs : call[q] = JoinCall(u) /\ pc[q] = "choose" } = { q \in {p} : call[p] = JoinCall(u) }
        BY <2>3 DEF Inside
      <3>2. { curThread[q] : q \in { q \in Procs : call[q] = JoinCall(u) /\ pc[q] = "choose" } }
               = { t \in {me} : call[p] = JoinCall(u) }
        BY <3>1
      <3> QED BY <3>2 DEF JoinersOf, JoinCall
    <2>9. ASSUME NEW u \in Threads PROVE JoinersOf(u)' = JoinersOf(u)
      <3>1. JoinersOf(u)' = ToSet(joining'[u])
        BY <2>4, QuietAfter
      <3>2. CASE call[p].f = "join"
        <4>1. call[p] = JoinCall(call[p].th) /\ call[p].th \in Threads
          BY <2>3, <3>2, CallShape DEF JoinCall
        <4>2. joining' = [joining EXCEPT ![call[p].th] = Append(@, me)]
          BY <1>2, <3>2 DEF Joined
        <4>3. CASE u = call[p].th
          <5>1. joining'[u] = Append(joining[u], me)
            BY <2>3, <4>2, <4>3
          <5>2. ToSet(Append(joining[u], me)) = ToSet(joining[u]) \cup {me}
            BY <2>3, AppendMembers
          <5> QED BY <2>8, <3>1, <4>1, <4>3, <5>1, <5>2
        <4>4. CASE u # call[p].th
          <5>1. joining'[u] = joining[u]
            BY <2>3, <4>2, <4>4
          <5>2. call[p] # JoinCall(u)
            BY <4>4 DEF JoinCall
          <5> QED BY <2>8, <3>1, <5>1, <5>2
        <4> QED BY <4>3, <4>4
      <3>3. CASE call[p].f # "join"
        <4>1. joining' = joining
          BY <1>2, <2>3, <3>3 DEF Joined, Lawful
        <4>2. call[p] # JoinCall(u)
          BY <3>3 DEF JoinCall
        <4> QED BY <2>8, <3>1, <4>1, <4>2
      <3> QED BY <3>2, <3>3
    <2>10. UNCHANGED <<Dozers, Joiners>>
      BY <2>7, <2>9, SameSleep
    <2> QED BY <2>1, <2>2, <2>10, ScheduleMaps DEF Live
  <1> QED BY <1>1, <1>2 DEF Chosen

\* A handler that finds schedLock busy.
LEMMA BlockMaps ==
    ASSUME Sound, NEW p \in Procs, NEW c, Block(p, c), UNCHANGED syncVars
    PROVE  Maps
  <1>1. /\ pc[p] = "run" /\ pc' = [pc EXCEPT ![p] = "blocked"] /\ call' = [call EXCEPT ![p] = c]
        /\ UNCHANGED <<runThread, status, joining, curThread, mutex, sem, cond>>
    BY DEF Block, Executing, syncVars
  <1>2. /\ pc \in [Procs -> Phases] /\ call \in [Procs -> LockedCalls \cup {NoCall}]
    BY DEF Sound, Base, IInv, TypeOK, HandlerTypes
  <1>3. \A q \in Procs : /\ q = p => pc[q] \notin {"choose", "attempt"} /\ pc'[q] \notin {"choose", "attempt"}
                         /\ q # p => pc'[q] = pc[q] /\ call'[q] = call[q]
    BY <1>1, <1>2
  <1>4. \A k \in Conds : FallingAsleep(k)' = FallingAsleep(k)
    BY <1>3 DEF FallingAsleep
  <1>5. ASSUME NEW k \in Conds PROVE SleepersOf(k)' = SleepersOf(k)
    <2>1. CASE FallingAsleep(k) = {}
      BY <1>1, <1>4, <2>1 DEF SleepersOf
    <2>2. CASE FallingAsleep(k) # {}
      <3> DEFINE r == CHOOSE r \in FallingAsleep(k) : TRUE
      <3>1. r \in FallingAsleep(k)
        BY <2>2
      <3>2. r \in Procs /\ pc[r] = "attempt"
        BY <3>1 DEF FallingAsleep
      <3>3. runThread'[r] = runThread[r] /\ call'[r] = call[r]
        BY <1>1, <1>3, <3>2
      <3>4. r' = r
        BY <1>4
      <3>5. UNCHANGED cond
        BY <1>1
      <3> QED BY <1>4, <2>2, <3>3, <3>4, <3>5 DEF SleepersOf
    <2> QED BY <2>1, <2>2
  <1>6. ASSUME NEW u \in Threads PROVE JoinersOf(u)' = JoinersOf(u)
    <2>1. { q \in Procs : call'[q] = JoinCall(u) /\ pc'[q] = "choose" }
             = { q \in Procs : call[q] = JoinCall(u) /\ pc[q] = "choose" }
      BY <1>3
    <2> QED BY <1>1, <2>1 DEF JoinersOf, JoinCall
  <1>7. UNCHANGED <<Dozers, Joiners>>
    BY <1>5, <1>6, SameSleep
  <1> QED BY <1>1, <1>7, ScheduleMaps DEF Life, Live

-----------------------------------------------------------------------------
(* Threads *)

LEMMA CreateThreadMaps ==
    ASSUME Sound, NEW p \in Procs, NEW a \in AttrIds, CreateThread(p, a), UNCHANGED syncVars
    PROVE  Maps
  <1> DEFINE c == [f |-> "create", attr |-> a]
             t == runThread[p]
  <1>1. Start(p, c) /\ UNCHANGED <<joining, mutex, sem, cond>> /\ Leave(p)
    BY DEF CreateThread, syncVars
  <1>2. /\ t \in Threads /\ Pthreads!Active(t) /\ IInv
        /\ status \in [Threads -> {"UNBORN", "READY", "RUNNING", "WAITING", "DEAD"}]
    BY <1>1, Actor DEF Sound, Base, IInv, TypeOK, ThreadTypes
  <1>3. PICK u \in Unborn : /\ IsFirst(u, Unborn)
              /\ \/ status' = [status EXCEPT ![u] = "RUNNING"]
                 \/ \E v \in Procs : IdleProcs = {} /\
                       status' = [status EXCEPT ![u] = "RUNNING", ![runThread[v]] = "READY"]
                 \/ status' = [status EXCEPT ![u] = "READY"]
    BY DEF CreateThread
  <1>4. u \in Threads /\ status[u] = "UNBORN"
    BY <1>3 DEF Unborn
  <1>5. /\ status'[u] \in {"READY", "RUNNING"}
        /\ \A w \in Threads \ {u} : status'[w] = status[w] \/ (Alive(w) /\ status'[w] = "READY")
    <2>1. CASE status' = [status EXCEPT ![u] = "RUNNING"] \/ status' = [status EXCEPT ![u] = "READY"]
      BY <1>2, <1>4, <2>1
    <2>2. ASSUME NEW v \in Procs, IdleProcs = {},
                 status' = [status EXCEPT ![u] = "RUNNING", ![runThread[v]] = "READY"]
          PROVE  /\ status'[u] \in {"READY", "RUNNING"}
                 /\ \A w \in Threads \ {u} : status'[w] = status[w] \/ (Alive(w) /\ status'[w] = "READY")
      <3>1. runThread[v] # NULL
        BY <2>2 DEF IdleProcs
      <3>2. runThread[v] \in With("RUNNING")
        BY <3>1 DEF Sound, ThreadsInv, PlaceInv, OnProcessors
      <3>3. runThread[v] \in Threads /\ Alive(runThread[v]) /\ runThread[v] # u
        BY <1>4, <3>2 DEF With, Alive
      <3> QED BY <1>2, <1>4, <2>2, <3>3
    <2> QED BY <1>3, <2>1, <2>2
  <1>6. Life[u] = "unborn" /\ Life' = [Life EXCEPT ![u] = "alive"]
    <2>1. \A w \in Threads \ {u} : Life'[w] = Life[w]
      BY <1>5 DEF Life, Alive
    <2>2. Life[u] = "unborn" /\ Life'[u] = "alive"
      BY <1>4, <1>5 DEF Life
    <2>3. DOMAIN Life = Threads /\ DOMAIN Life' = Threads
          /\ Life = [w \in Threads |-> Life[w]] /\ Life' = [w \in Threads |-> Life'[w]]
      BY DEF Life
    <2> QED BY <1>4, <2>1, <2>2, <2>3
  <1>7. UNCHANGED <<Dozers, Joiners>>
    <2>1. pc' = [pc EXCEPT ![p] = "run"]
      BY <1>1 DEF Leave
    <2> QED BY <1>1, <1>2, <2>1, SameSleepers
  <1>8. UNCHANGED <<Owners, Depths, Lockers, Credits, Takers, InUse>>
    BY <1>1, SameMutexMaps, SameSemMaps, SameInUse DEF Live
  <1> QED BY <1>2, <1>4, <1>6, <1>7, <1>8, MapsSpawn DEF Maps

LEMMA ExitThreadMaps ==
    ASSUME Sound, NEW p \in Procs, ExitThread(p), UNCHANGED syncVars
    PROVE  Maps
  <1> DEFINE c == [f |-> "exit"]
             t == runThread[p]
             woken == ToSet(joining[t])
  <1>1. /\ Start(p, c) /\ UNCHANGED <<mutex, sem, cond>> /\ Suspend(p, c)
        /\ joining' = [joining EXCEPT ![t] = <<>>]
        /\ status' = [u \in Threads |-> CASE u \in woken -> "READY"
                                          [] u = t /\ u \notin woken -> "DEAD"
                                          [] OTHER -> status[u]]
    BY DEF ExitThread, syncVars
  <1>2. /\ t \in Threads /\ Pthreads!Active(t) /\ Alive(t) /\ IInv
        /\ \A q \in Procs : ~Inside(q)
        /\ \A k \in Conds : SleepersOf(k) = Dozing(cond[k])
        /\ \A u \in Threads : JoinersOf(u) = ToSet(joining[u])
        /\ joining \in [Threads -> Seq(Threads)]
    BY <1>1, Actor DEF Sound, Base, IInv, TypeOK, ThreadTypes
  <1>3. t \notin woken /\ woken \subseteq With("WAITING")
    BY <1>2, Waiters DEF Sound, ThreadsInv, RestInv, JoinsSound
  <1>4. /\ status'[t] = "DEAD"
        /\ \A u \in Threads \ {t} : status'[u] = status[u] \/ (Alive(u) /\ status'[u] = "READY")
    <2>1. \A u \in woken : Alive(u)
      BY <1>3 DEF With, Alive
    <2> HIDE DEF woken
    <2> QED BY <1>1, <1>2, <1>3, <2>1
  <1>5. Life' = [Life EXCEPT ![t] = "dead"]
    <2>1. \A u \in Threads \ {t} : Life'[u] = Life[u]
      BY <1>4 DEF Life, Alive
    <2>2. Life'[t] = "dead"
      BY <1>2, <1>4 DEF Life
    <2>3. Life = [w \in Threads |-> Life[w]] /\ Life' = [w \in Threads |-> Life'[w]]
      BY DEF Life
    <2> QED BY <1>2, <2>1, <2>2, <2>3
  <1>6. /\ \A k \in Conds : SleepersOf(k)' = Dozing(cond'[k])
        /\ \A u \in Threads : JoinersOf(u)' = ToSet(joining'[u])
    <2>1. /\ \A k \in Conds : SleepersOf(k)' = Dozing(cond'[k])
          /\ \A u \in Threads : JoinersOf(u)' =
                 ToSet(joining'[u]) \cup { v \in {runThread[p]} : c = JoinCall(u) }
      BY <1>1, <1>2, SuspendingAfter
    <2>2. \A u \in Threads : c # JoinCall(u)
      BY DEF JoinCall
    <2> QED BY <2>1, <2>2
  <1>7. UNCHANGED Dozers
    BY <1>1, <1>2, <1>6 DEF Dozers
  <1>8. Joiners' = [Joiners EXCEPT ![t] = {}]
    <2>1. \A u \in Threads : JoinersOf(u)' = IF u = t THEN {} ELSE JoinersOf(u)
      BY <1>1, <1>2, <1>6, EmptyQueue
    <2> HIDE DEF t
    <2> QED BY <2>1 DEF Joiners
  <1>9. UNCHANGED <<Owners, Depths, Lockers, Credits, Takers, InUse>>
    BY <1>1, SameMutexMaps, SameSemMaps, SameInUse DEF Live
  <1> QED BY <1>2, <1>5, <1>7, <1>8, <1>9, MapsExit DEF Maps

LEMMA JoinMaps ==
    ASSUME Sound, NEW p \in Procs, NEW u \in Threads, Join(p, u), status[u] # "UNBORN",
           UNCHANGED syncVars
    PROVE  Maps
  <1> DEFINE t == runThread[p]
  <1>1. Start(p, JoinCall(u)) /\ UNCHANGED <<joining, mutex, sem, cond>>
    BY DEF Join, JoinCall, syncVars
  <1>2. /\ t \in Threads /\ Pthreads!Active(t) /\ Alive(t) /\ IInv
        /\ \A q \in Procs : ~Inside(q)
        /\ \A k \in Conds : SleepersOf(k) = Dozing(cond[k])
        /\ \A v \in Threads : JoinersOf(v) = ToSet(joining[v])
        /\ status \in [Threads -> {"UNBORN", "READY", "RUNNING", "WAITING", "DEAD"}]
    BY <1>1, Actor DEF Sound, Base, IInv, TypeOK, ThreadTypes
  <1>3. UNCHANGED <<Owners, Depths, Lockers, Credits, Takers, InUse, Live(cond)>>
    BY <1>1, SameMutexMaps, SameSemMaps, SameInUse DEF Live
  <1>4. CASE Leave(p) /\ UNCHANGED status
    <2>1. pc' = [pc EXCEPT ![p] = "run"]
      BY <1>4 DEF Leave
    <2>2. UNCHANGED <<Dozers, Joiners>>
      BY <1>1, <1>2, <2>1, SameSleepers
    <2> QED BY <1>1, <1>3, <1>4, <2>2, ScheduleMaps DEF Life
  <1>5. CASE /\ status[u] # "DEAD" /\ status' = [status EXCEPT ![t] = "WAITING"]
             /\ Suspend(p, JoinCall(u))
    <2>1. UNCHANGED Life
      <3>1. \A v \in Threads : status'[v] = status[v] \/ (v = t /\ status'[v] = "WAITING")
        BY <1>2, <1>5
      <3> QED BY <1>2, <3>1, SameLife DEF Alive
    <2>2. Life[u] = "alive"
      BY <1>5 DEF Life
    <2>3. /\ \A k \in Conds : SleepersOf(k)' = Dozing(cond'[k])
          /\ \A v \in Threads : JoinersOf(v)' =
                 ToSet(joining'[v]) \cup { w \in {runThread[p]} : JoinCall(u) = JoinCall(v) }
      BY <1>2, <1>5, SuspendingAfter
    <2>4. UNCHANGED Dozers
      BY <1>1, <1>2, <2>3 DEF Dozers
    <2>5. \A v \in Threads : JoinCall(u) = JoinCall(v) <=> u = v
      BY DEF JoinCall
    <2>6. \A v \in Threads : JoinersOf(v)' = IF v = u THEN JoinersOf(v) \cup {t} ELSE JoinersOf(v)
      <3>1. \A v \in Threads : { w \in {runThread[p]} : JoinCall(u) = JoinCall(v) }
                = IF v = u THEN {t} ELSE {}
        BY <2>5
      <3> QED BY <1>1, <1>2, <2>3, <3>1
    <2>7. Joiners' = [Joiners EXCEPT ![u] = @ \cup {t}]
      <3> HIDE DEF t
      <3> QED BY <2>6 DEF Joiners
    <2> QED BY <1>2, <1>3, <2>1, <2>2, <2>4, <2>7, MapsJoin DEF Maps
  <1> QED BY <1>4, <1>5 DEF Join, JoinCall

-----------------------------------------------------------------------------
(* The calls that take no lock *)

\* The calls that take no lock leave handlers and joins alone.
LEMMA UnlockedFrame ==
    ASSUME UNCHANGED schedVars
    PROVE  /\ UNCHANGED <<Life, Joiners>>
           /\ \A k \in Conds : FallingAsleep(k)' = FallingAsleep(k)
           /\ \A k \in Conds : cond'[k] = cond[k] => SleepersOf(k)' = SleepersOf(k)
  <1>1. UNCHANGED <<runThread, status, joining, pc, call, curThread>>
    BY DEF schedVars
  <1>2. UNCHANGED <<Life, Joiners>>
    BY <1>1 DEF Life, Joiners, JoinersOf
  <1>3. \A k \in Conds : FallingAsleep(k)' = FallingAsleep(k)
    BY <1>1 DEF FallingAsleep
  <1>4. \A k \in Conds : cond'[k] = cond[k] => SleepersOf(k)' = SleepersOf(k)
    <2> SUFFICES ASSUME NEW k \in Conds, cond'[k] = cond[k]
                 PROVE  SleepersOf(k)' = SleepersOf(k)
      OBVIOUS
    <2>1. CASE FallingAsleep(k) = {}
      BY <1>3, <2>1 DEF SleepersOf
    <2>2. CASE FallingAsleep(k) # {}
      <3> DEFINE r == CHOOSE r \in FallingAsleep(k) : TRUE
      <3>1. r' = r
        BY <1>3
      <3>2. runThread'[r] = runThread[r] /\ call'[r] = call[r]
        BY <1>1
      <3> QED BY <1>3, <2>2, <3>1, <3>2 DEF SleepersOf
    <2> QED BY <2>1, <2>2
  <1> QED BY <1>2, <1>3, <1>4

LEMMA NextIdFresh ==
    ASSUME NEW i, NEW S, IsNextId(i, S)
    PROVE  i \notin S
  BY DEF IsNextId, IsFirst

LEMMA CallerActive ==
    ASSUME Sound, NEW p \in Procs, Executing(p)
    PROVE  runThread[p] \in Threads /\ Pthreads!Active(runThread[p])
  <1>1. runThread[p] # NULL /\ pc[p] # "attempt"
    BY DEF Executing
  <1> QED BY <1>1, ActorActive

LEMMA CreateMutexMaps ==
    ASSUME Sound, NEW p \in Procs, CreateMutex(p)
    PROVE  Maps
  <1>1. PICK m \in Mutexes : IsNextId(m, Live(mutex)) /\ mutex' = [mutex EXCEPT ![m] = FreshMutex]
    BY DEF CreateMutex
  <1>2. Executing(p) /\ UNCHANGED <<schedVars, sem, cond>>
    BY DEF CreateMutex
  <1>3. ObjectTypes /\ m \notin Live(mutex) /\ ~mutex[m].live
    BY <1>1, NextIdFresh DEF Sound, Base, IInv, TypeOK, ObjectTypes, Live
  <1>4. mutex[m].owner = NULL /\ mutex[m].rec = 0 /\ mutex[m].waiting = <<>>
    BY <1>3 DEF Sound, Base, DeadUnowned, MutexCoherent, Coherent
  <1>5. /\ FreshMutex.live /\ FreshMutex.owner = NULL /\ FreshMutex.rec = 0
        /\ FreshMutex.waiting = <<>>
    BY DEF FreshMutex
  <1>6. /\ UNCHANGED <<Owners, Depths, Lockers>>
        /\ Live(mutex)' = Live(mutex) \cup {m}
    BY <1>1, <1>3, <1>4, <1>5, NewMutex
  <1>7. UNCHANGED <<Credits, Takers, Live(sem), Live(cond), Life, Joiners, Dozers>>
    BY <1>2, SameSemMaps, UnlockedFrame DEF Live, Dozers
  <1>8. InUse' = [InUse EXCEPT !.mutex = @ \cup {m}]
    BY <1>6, <1>7 DEF InUse
  <1>9. Owners[m] = NULL /\ Depths[m] = 0 /\ Lockers[m] = <<>>
    BY <1>4 DEF Owners, Depths, Lockers
  <1> QED BY <1>2, <1>3, <1>6, <1>7, <1>8, <1>9, CallerActive, MapsMakeMutex DEF Maps

LEMMA CreateSemMaps ==
    ASSUME Sound, NEW p \in Procs, NEW v \in SemInit, CreateSem(p, v)
    PROVE  Maps
  <1>1. PICK s \in Sems : IsNextId(s, Live(sem)) /\ sem' = [sem EXCEPT ![s] = FreshSem(v)]
    BY DEF CreateSem
  <1>2. Executing(p) /\ UNCHANGED <<schedVars, mutex, cond>>
    BY DEF CreateSem
  <1>3. ObjectTypes /\ s \notin Live(sem) /\ ~sem[s].live
    BY <1>1, NextIdFresh DEF Sound, Base, IInv, TypeOK, ObjectTypes, Live
  <1>4. sem[s].waiting = <<>>
    BY <1>3 DEF Sound, ThreadsInv, DeadIdle
  <1>5. FreshSem(v).live /\ FreshSem(v).value = v /\ FreshSem(v).waiting = <<>>
    BY DEF FreshSem
  <1>6. /\ UNCHANGED Takers /\ Credits' = [Credits EXCEPT ![s] = v]
        /\ Live(sem)' = Live(sem) \cup {s}
    BY <1>1, <1>3, <1>4, <1>5, NewSem
  <1>7. UNCHANGED <<Owners, Depths, Lockers, Live(mutex), Live(cond), Life, Joiners, Dozers>>
    BY <1>2, SameMutexMaps, UnlockedFrame DEF Live, Dozers
  <1>8. InUse' = [InUse EXCEPT !.sem = @ \cup {s}]
    <2>1. Live(sem)' = Live(sem) \cup {s} /\ UNCHANGED <<Live(mutex), Live(cond)>>
      BY <1>6, <1>7
    <2> QED BY <2>1 DEF InUse
  <1>9. Takers[s] = <<>>
    BY <1>4 DEF Takers
  <1> QED BY <1>2, <1>3, <1>6, <1>7, <1>8, <1>9, CallerActive, MapsMakeSem DEF Maps

\* A condition on which nobody waits or is about to.
LEMMA UnusedCond ==
    ASSUME ObjectTypes, UNCHANGED schedVars, NEW k \in Conds, cond[k].waiting = <<>>,
           FallingAsleep(k) = {}, NEW y, y.waiting = <<>>, cond' = [cond EXCEPT ![k] = y]
    PROVE  Dozers[k] = <<>> /\ UNCHANGED Dozers
  <1>1. Dozing(cond[k]) = <<>> /\ Dozing(y) = <<>>
    <2>1. <<>> \in Seq(Threads)
      BY EmptyQueue
    <2> QED BY <2>1, DozingShape
  <1>2. SleepersOf(k) = <<>>
    BY <1>1, NobodyFalls
  <1>3. FallingAsleep(k)' = {} /\ cond'[k] = y
    BY UnlockedFrame DEF ObjectTypes
  <1>4. SleepersOf(k)' = <<>>
    BY <1>1, <1>3 DEF SleepersOf, Dozing
  <1>5. \A j \in Conds \ {k} : SleepersOf(j)' = SleepersOf(j)
    BY UnlockedFrame DEF ObjectTypes
  <1> QED BY <1>2, <1>4, <1>5 DEF Dozers

LEMMA CreateCondMaps ==
    ASSUME Sound, NEW p \in Procs, CreateCond(p)
    PROVE  Maps
  <1>1. PICK k \in Conds : IsNextId(k, Live(cond)) /\ cond' = [cond EXCEPT ![k] = FreshCond]
    BY DEF CreateCond
  <1>2. Executing(p) /\ UNCHANGED <<schedVars, mutex, sem>>
    BY DEF CreateCond
  <1>3. ObjectTypes /\ k \notin Live(cond) /\ ~cond[k].live
    BY <1>1, NextIdFresh DEF Sound, Base, IInv, TypeOK, ObjectTypes, Live
  <1>4. cond[k].waiting = <<>> /\ FallingAsleep(k) = {}
    BY <1>3 DEF Sound, ThreadsInv, DeadIdle, Base, CondInv, FallingAsleepKnowsMutex, FallingAsleep
  <1>5. FreshCond.live /\ FreshCond.waiting = <<>>
    BY DEF FreshCond
  <1>6. Dozers[k] = <<>> /\ UNCHANGED Dozers
    BY <1>1, <1>2, <1>3, <1>4, <1>5, UnusedCond
  <1>7. /\ UNCHANGED <<Owners, Depths, Lockers, Credits, Takers, Live(mutex), Live(sem), Life, Joiners>>
        /\ Live(cond)' = Live(cond) \cup {k}
    BY <1>1, <1>2, <1>3, <1>5, SameMutexMaps, SameSemMaps, UnlockedFrame, LiveConds
  <1>8. InUse' = [InUse EXCEPT !.cond = @ \cup {k}]
    BY <1>7 DEF InUse
  <1> QED BY <1>2, <1>3, <1>6, <1>7, <1>8, CallerActive, MapsMakeCond DEF Maps

LEMMA DestroyMutexMaps ==
    ASSUME Sound, NEW p \in Procs, NEW m \in Mutexes, DestroyMutex(p, m),
           mutex[m].live, mutex[m].owner = NULL
    PROVE  Maps
  <1>1. /\ Executing(p) /\ UNCHANGED <<schedVars, sem, cond>>
        /\ mutex' = [mutex EXCEPT ![m] = NoMutex]
    BY DEF DestroyMutex
  <1>2. ObjectTypes /\ m \in Live(mutex)
    BY DEF Sound, Base, IInv, TypeOK, ObjectTypes, Live
  <1>3. mutex[m].rec = 0 /\ mutex[m].waiting = <<>>
    BY DEF Sound, Base, MutexCoherent, Coherent
  <1>4. ~NoMutex.live /\ NoMutex.owner = NULL /\ NoMutex.rec = 0 /\ NoMutex.waiting = <<>>
    BY DEF NoMutex, FreshMutex
  <1>5. UNCHANGED <<Owners, Depths, Lockers>> /\ Live(mutex)' = Live(mutex) \ {m}
    <2>1. /\ NoMutex.owner = mutex[m].owner /\ NoMutex.rec = mutex[m].rec
          /\ NoMutex.waiting = mutex[m].waiting /\ ~NoMutex.live
      BY <1>3, <1>4
    <2>2. mutex' = [mutex EXCEPT ![m] = NoMutex]
      BY <1>1
    <2> QED BY <1>2, <2>1, <2>2, NewMutex, Zenon
  <1>6. UNCHANGED <<Credits, Takers, Live(sem), Live(cond), Life, Joiners, Dozers>>
    BY <1>1, SameSemMaps, UnlockedFrame DEF Live, Dozers
  <1>7. InUse' = [InUse EXCEPT !.mutex = @ \ {m}]
    BY <1>5, <1>6 DEF InUse
  <1>8. Owners[m] = NULL
    BY DEF Owners
  <1> QED BY <1>1, <1>2, <1>5, <1>6, <1>7, <1>8, CallerActive, MapsDropMutex DEF Maps

LEMMA DestroySemMaps ==
    ASSUME Sound, NEW p \in Procs, NEW s \in Sems, DestroySem(p, s),
           sem[s].live, sem[s].waiting = <<>>
    PROVE  Maps
  <1>1. /\ Executing(p) /\ UNCHANGED <<schedVars, mutex, cond>>
        /\ sem' = [sem EXCEPT ![s] = NoSem]
    BY DEF DestroySem
  <1>2. ObjectTypes /\ s \in Live(sem)
    BY DEF Sound, Base, IInv, TypeOK, ObjectTypes, Live
  <1>3. ~NoSem.live /\ NoSem.value = 0 /\ NoSem.waiting = <<>>
    BY DEF NoSem, FreshSem
  <1>4. /\ UNCHANGED Takers /\ Credits' = [Credits EXCEPT ![s] = 0]
        /\ Live(sem)' = Live(sem) \ {s}
    BY <1>1, <1>2, <1>3, NewSem
  <1>5. UNCHANGED <<Owners, Depths, Lockers, Live(mutex), Live(cond), Life, Joiners, Dozers>>
    BY <1>1, SameMutexMaps, UnlockedFrame DEF Live, Dozers
  <1>6. InUse' = [InUse EXCEPT !.sem = @ \ {s}]
    <2>1. Live(sem)' = Live(sem) \ {s} /\ UNCHANGED <<Live(mutex), Live(cond)>>
      BY <1>4, <1>5
    <2> QED BY <2>1 DEF InUse
  <1>7. Takers[s] = <<>>
    BY DEF Takers
  <1> QED BY <1>1, <1>2, <1>4, <1>5, <1>6, <1>7, CallerActive, MapsDropSem DEF Maps

LEMMA DestroyCondMaps ==
    ASSUME Sound, NEW p \in Procs, NEW k \in Conds, DestroyCond(p, k),
           cond[k].live, cond[k].waiting = <<>>, Unused("c", k)
    PROVE  Maps
  <1>1. /\ Executing(p) /\ UNCHANGED <<schedVars, mutex, sem>>
        /\ cond' = [cond EXCEPT ![k] = NoCond]
    BY DEF DestroyCond
  <1>2. ObjectTypes /\ k \in Live(cond)
    BY DEF Sound, Base, IInv, TypeOK, ObjectTypes, Live
  <1>3. ~NoCond.live /\ NoCond.waiting = <<>>
    BY DEF NoCond, FreshCond
  <1>4. FallingAsleep(k) = {}
    <2> SUFFICES ASSUME NEW q \in Procs, pc[q] = "attempt", call[q].f \in WaitFamily, call[q].c = k
                 PROVE  FALSE
      BY DEF FallingAsleep
    <2>1. call[q] \in CondCalls
      BY DEF Sound, Base, IInv, HandlersHaveThread
    <2>2. "c" \in DOMAIN call[q]
      BY <2>1 DEF CondCalls
    <2> QED BY <2>2 DEF Unused
  <1>5. Dozers[k] = <<>> /\ UNCHANGED Dozers
    BY <1>1, <1>2, <1>3, <1>4, UnusedCond
  <1>6. /\ UNCHANGED <<Owners, Depths, Lockers, Credits, Takers, Live(mutex), Live(sem), Life, Joiners>>
        /\ Live(cond)' = Live(cond) \ {k}
    BY <1>1, <1>2, <1>3, SameMutexMaps, SameSemMaps, UnlockedFrame, LiveConds
  <1>7. InUse' = [InUse EXCEPT !.cond = @ \ {k}]
    BY <1>6 DEF InUse
  <1> QED BY <1>1, <1>2, <1>5, <1>6, <1>7, CallerActive, MapsDropCond DEF Maps

LEMMA UnlockedMaps ==
    ASSUME Sound, Lawful, NEW p \in Procs, NEW c \in Calls \ LockedCalls, Unlocked(p, c)
    PROVE  Maps
  <1>1. Permitted(p, c) /\ Possible(p, c)
    BY DEF Unlocked, MayCall, Lawful
  <1>2. c \in ObjCalls \cup ParamCalls
    BY CallsAssumption
  <1>3. CASE c.f = "createMutex" /\ CreateMutex(p)
    BY <1>3, CreateMutexMaps
  <1>4. CASE c.f = "createSem" /\ CreateSem(p, c.v)
    <2>1. c.v \in SemInit
      BY <1>2, <1>4 DEF ObjCalls, ParamCalls
    <2> QED BY <1>4, <2>1, CreateSemMaps
  <1>5. CASE c.f = "createCond" /\ CreateCond(p)
    BY <1>5, CreateCondMaps
  <1>6. CASE c.f = "destroyMutex" /\ DestroyMutex(p, c.m)
    <2>1. c.m \in Mutexes
      BY <1>2, <1>6 DEF ObjCalls, ParamCalls
    <2>2. mutex[c.m].live /\ mutex[c.m].owner = NULL
      BY <1>1, <1>6 DEF Permitted, WaitFamily
    <2> QED BY <1>6, <2>1, <2>2, DestroyMutexMaps
  <1>7. CASE c.f = "destroySem" /\ DestroySem(p, c.s)
    <2>1. c.s \in Sems
      BY <1>2, <1>7 DEF ObjCalls, ParamCalls
    <2>2. sem[c.s].live /\ sem[c.s].waiting = <<>>
      BY <1>1, <1>7 DEF Permitted, WaitFamily
    <2> QED BY <1>7, <2>1, <2>2, DestroySemMaps
  <1>8. CASE c.f = "destroyCond" /\ DestroyCond(p, c.c)
    <2>1. c.c \in Conds
      BY <1>2, <1>8 DEF ObjCalls, ParamCalls
    <2>2. cond[c.c].live /\ cond[c.c].waiting = <<>>
      BY <1>1, <1>8 DEF Permitted, WaitFamily
    <2>3. Unused("c", c.c)
      BY <1>1, <1>8 DEF Possible
    <2> QED BY <1>8, <2>1, <2>2, <2>3, DestroyCondMaps
  <1>9. CASE UNCHANGED <<runThread, status, joining, pc, call, curThread, syncVars>>
    BY <1>9, UnseenMaps
  <1> QED
    BY <1>3, <1>4, <1>5, <1>6, <1>7, <1>8, <1>9 DEF Unlocked, SetSchedParam, SetAttr

-----------------------------------------------------------------------------
(* Every step, and every behaviour *)

LEMMA HandleMaps ==
    ASSUME Sound, Lawful, Plain, NEW p \in Procs, NEW c \in Calls, c \in LockedCalls,
           Handle(p, c), Valid(p, c), c.f \in WaitFamily => Agrees(c),
           c.f = "join" => status[c.th] # "UNBORN"
    PROVE  Maps
  <1>1. CASE c.f = "create" /\ CreateThread(p, c.attr) /\ UNCHANGED syncVars
    <2>1. c.attr \in AttrIds
      BY <1>1, CallShape
    <2> QED BY <1>1, <2>1, CreateThreadMaps
  <1>2. CASE c.f = "exit" /\ ExitThread(p) /\ UNCHANGED syncVars
    BY <1>2, ExitThreadMaps
  <1>3. CASE c.f = "join" /\ Join(p, c.th) /\ UNCHANGED syncVars
    <2>1. c.th \in Threads
      BY <1>3, CallShape
    <2> QED BY <1>3, <2>1, JoinMaps
  <1>4. ASSUME c.f \in {"lock", "trylock"}, NEW nonbl \in BOOLEAN, LockMutex(p, c.m, nonbl)
        PROVE  Maps
    <2>1. c.m \in Mutexes
      BY <1>4, CallShape
    <2> QED BY <1>4, <2>1, LockMutexMaps
  <1>5. CASE c.f = "unlock" /\ UnLockMutex(p, c.m)
    <2>1. c.m \in Mutexes
      BY <1>5, CallShape
    <2> QED BY <1>5, <2>1, UnLockMutexMaps
  <1>6. CASE c.f \in {"post", "semwait"} /\ (PostSem(p, c.s) \/ WaitSem(p, c.s))
    <2>1. c.s \in Sems
      BY <1>6, CallShape
    <2> QED BY <1>6, <2>1, PostSemMaps, WaitSemMaps
  <1>7. ASSUME c.f \in {"signal", "broadcast"}, NEW broadcast \in BOOLEAN,
               SignalCond(p, c.c, broadcast)
        PROVE  Maps
    <2>1. c.c \in Conds
      BY <1>7, CallShape
    <2> QED BY <1>7, <2>1, SignalCondMaps
  <1>8. ASSUME c.f \in {"wait", "timedwait"}, NEW timed \in BOOLEAN,
               WaitCond(p, c.c, c.m, timed)
        PROVE  Maps
    <2>1. c.c \in Conds /\ c.m \in Mutexes
      BY <1>8, CallShape
    <2>2. cond[c.c].mutex \in {NULL, c.m}
      BY <1>8 DEF WaitFamily, Agrees
    <2>3. mutex[c.m].owner = runThread[p]
      BY <1>8 DEF Valid
    <2> QED BY <1>8, <2>1, <2>2, <2>3, WaitCondMaps
  <1>9. c.f # "joinAll"
    BY DEF Lawful
  <1> QED
    BY <1>1, <1>2, <1>3, <1>4, <1>5, <1>6, <1>7, <1>8, <1>9 DEF Handle

\* Every step of the manager is one of PthreadSync, or none.
LEMMA NextMaps ==
    ASSUME Lawful, Sound, Accepted, Plain, [Next]_vars
    PROVE  Maps
  <1>1. ASSUME NEW p \in Procs, Step(p) PROVE Maps
    <2>1. CASE Resume(p)
      <3>1. call[p] \in LockedCalls /\ call[p] \in Calls /\ Valid(p, call[p])
        BY <2>1 DEF Resume, Sound, Base, IInv, HandlersHaveThread, ThreadsInv, RestInv,
                    HandlersSound, HandlerSound, Accepted, CallsValid
      <3>2. call[p].f = "join" => status[call[p].th] # "UNBORN"
        BY <2>1 DEF Resume, Sound, ThreadsInv, RestInv, HandlersSound, HandlerSound
      <3>3. call[p].f \in WaitFamily => Agrees(call[p])
        BY <3>1, SoundCalls
      <3> QED BY <2>1, <3>1, <3>2, <3>3, HandleMaps DEF Resume
    <2> QED
      BY <1>1, <2>1, ChosenMaps, AttemptNextMaps, AttemptedMaps, WaitCondResumedMaps DEF Step
  <1>2. ASSUME NEW p \in Procs, NEW c \in Calls \cap LockedCalls, Invoke(p, c) PROVE Maps
    <2>1. MayCall(p, c) /\ Handle(p, c)
      BY <1>2 DEF Invoke
    <2>2. Valid(p, c) /\ (c.f \in WaitFamily => Agrees(c))
      BY <2>1, PermittedValid, SoundCalls
    <2>3. c.f = "join" => status[c.th] # "UNBORN"
      BY <2>1 DEF MayCall, Possible
    <2> QED BY <2>1, <2>2, <2>3, HandleMaps
  <1>3. ASSUME NEW p \in Procs, NEW c \in Calls \cap LockedCalls, Wait(p, c) PROVE Maps
    BY <1>3, BlockMaps DEF Wait
  <1>4. ASSUME NEW p \in Procs, NEW c \in Calls \ LockedCalls, Unlocked(p, c) PROVE Maps
    BY <1>4, UnlockedMaps
  <1>5. CASE UNCHANGED vars
    BY <1>5, UnseenMaps DEF vars, schedVars
  <1> QED BY <1>1, <1>2, <1>3, <1>4, <1>5 DEF Next, Finished

LEMMA InitMaps ==
    ASSUME Init
    PROVE  Pthreads!Init
  <1>1. /\ FreshMutex.live /\ FreshMutex.owner = NULL /\ FreshMutex.rec = 0
        /\ FreshMutex.waiting = <<>>
        /\ ~NoMutex.live /\ NoMutex.owner = NULL /\ NoMutex.rec = 0 /\ NoMutex.waiting = <<>>
    BY DEF FreshMutex, NoMutex
  <1>2. /\ FreshCond.live /\ FreshCond.waiting = <<>>
        /\ ~NoCond.live /\ NoCond.waiting = <<>>
    BY DEF FreshCond, NoCond
  <1>3. /\ \A v \in SemInit : FreshSem(v).live /\ FreshSem(v).value = v /\ FreshSem(v).waiting = <<>>
        /\ ~NoSem.live /\ NoSem.value = 0 /\ NoSem.waiting = <<>>
    BY DEF FreshSem, NoSem
  <1>4. /\ Premade \in [mutex : SUBSET Mutexes, sem : SUBSET Sems, cond : SUBSET Conds]
        /\ Premade = [mutex |-> Premade.mutex, sem |-> Premade.sem, cond |-> Premade.cond]
    BY IdsAssumption
  <1>5. /\ mutex = [m \in Mutexes |-> IF m \in Premade.mutex THEN FreshMutex ELSE NoMutex]
        /\ cond = [k \in Conds |-> IF k \in Premade.cond THEN FreshCond ELSE NoCond]
        /\ sem \in [Sems -> { FreshSem(v) : v \in SemInit } \cup {NoSem}]
        /\ \A s \in Sems : s \in Premade.sem <=> sem[s].live
    BY DEF Init
  <1>6. /\ Owners = [m \in Mutexes |-> NULL] /\ Depths = [m \in Mutexes |-> 0]
        /\ Lockers = [m \in Mutexes |-> <<>>] /\ Live(mutex) = Premade.mutex
    BY <1>1, <1>4, <1>5 DEF Owners, Depths, Lockers, Live
  <1>7. \A s \in Sems : /\ sem[s].waiting = <<>>
                        /\ IF s \in Premade.sem THEN sem[s].value \in SemInit ELSE sem[s].value = 0
    BY <1>3, <1>5
  <1>8. /\ Takers = [s \in Sems |-> <<>>] /\ Live(sem) = Premade.sem
        /\ Credits \in { v \in [Sems -> SemInit \cup {0}] :
                            \A s \in Sems : IF s \in Premade.sem THEN v[s] \in SemInit
                                                                 ELSE v[s] = 0 }
    BY <1>4, <1>5, <1>7 DEF Takers, Credits, Live
  <1>9. Live(cond) = Premade.cond /\ \A k \in Conds : cond[k].waiting = <<>>
    BY <1>2, <1>4, <1>5 DEF Live
  <1>10. InUse = Premade
    BY <1>4, <1>6, <1>8, <1>9 DEF InUse
  <1>11. /\ \A q \in Procs : ~Inside(q)
         /\ status = [t \in Threads |-> IF t = 0 THEN "RUNNING" ELSE "UNBORN"]
         /\ joining = [t \in Threads |-> <<>>]
    BY DEF Init, SchedInit, Inside
  <1>12. Dozers = [k \in Conds |-> <<>>] /\ Joiners = [u \in Threads |-> {}]
    <2>1. \A k \in Conds : SleepersOf(k) = <<>>
      BY <1>9, <1>11, AtQuiet DEF Dozing
    <2>2. \A u \in Threads : JoinersOf(u) = {}
      BY <1>11, AtQuiet, EmptyQueue
    <2> QED BY <2>1, <2>2 DEF Dozers, Joiners
  <1>13. Life = [t \in Threads |-> IF t = 0 THEN "alive" ELSE "unborn"]
    BY <1>11 DEF Life
  <1> QED
    BY <1>6, <1>8, <1>10, <1>12, <1>13
    DEF Pthreads!Init, Owners, Depths, Lockers, Takers, Credits, InUse, Dozers, Joiners, Life

\* The manager implements PthreadSync: whatever the processors and the scheduler do, the
\* emulated pthreads calls of a lawful program that locks nothing twice and never preempts
\* have the effects the abstract primitives have, one at a time and in the order in which
\* their handlers get schedLock.
THEOREM PthreadsImplemented ==
    ASSUME Lawful, Unpreemptive, RecMax = 0
    PROVE  Spec => ImplementsPthreads
  <1>1. Init => Accepted /\ OwnersInv
    BY InitAccepted, InitOwners
  <1>2. Sound /\ Accepted /\ [Next]_vars => Accepted'
    BY AcceptedStep
  <1>3. Sound /\ OwnersInv /\ [Next]_vars => OwnersInv'
    BY OwnersInvStep DEF Once
  <1>4. Sound /\ Accepted /\ OwnersInv /\ [Next]_vars => [Pthreads!Next]_(Pthreads!vars)
    <2> SUFFICES ASSUME Sound, Accepted, OwnersInv, [Next]_vars PROVE Maps
      BY DEF Maps
    <2> QED BY NextMaps DEF OwnersInv
  <1>5. Init => Pthreads!Init
    BY InitMaps
  <1> QED
    BY <1>1, <1>2, <1>3, <1>4, <1>5, SoundAlways, PTL DEF Spec, ImplementsPthreads, Pthreads!Spec

===============================================================================
