---------------------------- MODULE PthreadSync ----------------------------
(***************************************************************************)
(* What the pthread emulation promises the emulated program, whatever the  *)
(* number of processors, the priorities and the scheduler: recursive       *)
(* mutexes and semaphores that are handed over in FIFO order, condition    *)
(* variables whose wait releases the mutex and starts waiting in one step, *)
(* and joins that end with the thread they wait for.                       *)
(*                                                                         *)
(* ConcurrencyManager implements this specification; see ImplementsPthreads*)
(* in ConcurrencyManager.                                                  *)
(***************************************************************************)
EXTENDS Integers, Sequences, SequencesExt

CONSTANTS Threads, Mutexes, Sems, Conds, Premade, SemInit, Main, Nobody

VARIABLES
    life,      \* unborn, alive or dead
    owner,     \* owner of each mutex
    depth,     \* how many times more its owner has locked it
    lockers,   \* the threads blocked on each mutex, first to come first
    credit,    \* value of each semaphore
    takers,    \* the threads blocked on each semaphore
    sleepers,  \* the threads waiting on each condition: [t |-> ., m |-> .]
    joiners,   \* the threads that join each thread
    inUse      \* the mutexes, semaphores and conditions that exist

objects == <<owner, depth, lockers, credit, takers, sleepers>>
vars    == <<life, objects, joiners, inUse>>

Sleeping(t) == \E k \in Conds : \E i \in DOMAIN sleepers[k] : sleepers[k][i].t = t
Blocked(t) ==
    \/ \E m \in Mutexes : t \in ToSet(lockers[m])
    \/ \E s \in Sems : t \in ToSet(takers[s])
    \/ Sleeping(t)
    \/ \E u \in Threads : t \in joiners[u]
Active(t) == life[t] = "alive" /\ ~Blocked(t)

Init ==
    /\ life = [t \in Threads |-> IF t = Main THEN "alive" ELSE "unborn"]
    /\ owner = [m \in Mutexes |-> Nobody]
    /\ depth = [m \in Mutexes |-> 0]
    /\ lockers = [m \in Mutexes |-> <<>>]
    /\ credit \in { v \in [Sems -> SemInit \cup {0}] :
                     \A s \in Sems : IF s \in Premade.sem THEN v[s] \in SemInit ELSE v[s] = 0 }
    /\ inUse = Premade
    /\ takers = [s \in Sems |-> <<>>]
    /\ sleepers = [k \in Conds |-> <<>>]
    /\ joiners = [t \in Threads |-> {}]

Spawn(t, u) ==
    /\ Active(t) /\ life[u] = "unborn"
    /\ life' = [life EXCEPT ![u] = "alive"]
    /\ UNCHANGED <<objects, joiners, inUse>>

Exit(t) ==
    /\ Active(t)
    /\ life' = [life EXCEPT ![t] = "dead"]
    /\ joiners' = [joiners EXCEPT ![t] = {}]
    /\ UNCHANGED <<objects, inUse>>

Join(t, u) ==
    /\ Active(t) /\ life[u] = "alive"
    /\ joiners' = [joiners EXCEPT ![u] = @ \cup {t}]
    /\ UNCHANGED <<life, objects, inUse>>

Lock(t, m) ==
    /\ Active(t) /\ m \in inUse.mutex
    /\ \/ /\ owner[m] = Nobody
          /\ owner' = [owner EXCEPT ![m] = t]
          /\ UNCHANGED <<depth, lockers>>
       \/ /\ owner[m] = t
          /\ depth' = [depth EXCEPT ![m] = @ + 1]
          /\ UNCHANGED <<owner, lockers>>
       \/ /\ owner[m] \notin {t, Nobody}
          /\ lockers' = [lockers EXCEPT ![m] = Append(@, t)]
          /\ UNCHANGED <<owner, depth>>
    /\ UNCHANGED <<life, credit, takers, sleepers, joiners, inUse>>

\* One release of m by its owner.
Release(m) ==
    IF depth[m] > 0
    THEN depth' = [depth EXCEPT ![m] = @ - 1] /\ UNCHANGED <<owner, lockers>>
    ELSE /\ owner' = [owner EXCEPT ![m] = IF lockers[m] = <<>> THEN Nobody ELSE Head(lockers[m])]
         /\ lockers' = [lockers EXCEPT ![m] = IF @ = <<>> THEN @ ELSE Tail(@)]
         /\ UNCHANGED depth

Unlock(t, m) ==
    /\ Active(t) /\ owner[m] = t
    /\ Release(m)
    /\ UNCHANGED <<life, credit, takers, sleepers, joiners, inUse>>

Post(t, s) ==
    /\ Active(t) /\ s \in inUse.sem
    /\ IF takers[s] = <<>>
       THEN credit' = [credit EXCEPT ![s] = @ + 1] /\ UNCHANGED takers
       ELSE takers' = [takers EXCEPT ![s] = Tail(@)] /\ UNCHANGED credit
    /\ UNCHANGED <<life, owner, depth, lockers, sleepers, joiners, inUse>>

Take(t, s) ==
    /\ Active(t) /\ s \in inUse.sem
    /\ IF credit[s] > 0
       THEN credit' = [credit EXCEPT ![s] = @ - 1] /\ UNCHANGED takers
       ELSE takers' = [takers EXCEPT ![s] = Append(@, t)] /\ UNCHANGED credit
    /\ UNCHANGED <<life, owner, depth, lockers, sleepers, joiners, inUse>>

\* Release and sleep in one step: no signal can fall in between.
Sleep(t, k, m) ==
    /\ Active(t) /\ owner[m] = t /\ k \in inUse.cond
    /\ Release(m)
    /\ sleepers' = [sleepers EXCEPT ![k] = Append(@, [t |-> t, m |-> m])]
    /\ UNCHANGED <<life, credit, takers, joiners, inUse>>

\* The sleepers ws, in order, ask for m: the first gets it if it is free.
Reacquire(m, ws) ==
    LET free == owner[m] = Nobody /\ ws # <<>> IN
    /\ owner' = [owner EXCEPT ![m] = IF free THEN Head(ws) ELSE @]
    /\ lockers' = [lockers EXCEPT ![m] = @ \o (IF free THEN Tail(ws) ELSE ws)]

Wake(t, k, n) ==
    /\ Active(t)
    /\ n \in 1..Len(sleepers[k])
    /\ Reacquire(sleepers[k][1].m, [i \in 1..n |-> sleepers[k][i].t])
    /\ sleepers' = [sleepers EXCEPT ![k] = SubSeq(@, n + 1, Len(@))]
    /\ UNCHANGED <<life, depth, credit, takers, joiners, inUse>>

Signal(t, k)    == Wake(t, k, 1)
Broadcast(t, k) == Wake(t, k, Len(sleepers[k]))

\* Objects are made idle, under an identifier that is not in use, and nobody
\* holds or waits for the ones that are destroyed.
MakeMutex(t, m) ==
    /\ Active(t) /\ m \notin inUse.mutex
    /\ owner[m] = Nobody /\ depth[m] = 0 /\ lockers[m] = <<>>
    /\ inUse' = [inUse EXCEPT !.mutex = @ \cup {m}]
    /\ UNCHANGED <<life, objects, joiners>>
MakeSem(t, s, v) ==
    /\ Active(t) /\ s \notin inUse.sem /\ takers[s] = <<>>
    /\ inUse' = [inUse EXCEPT !.sem = @ \cup {s}]
    /\ credit' = [credit EXCEPT ![s] = v]
    /\ UNCHANGED <<life, owner, depth, lockers, takers, sleepers, joiners>>
MakeCond(t, k) ==
    /\ Active(t) /\ k \notin inUse.cond /\ sleepers[k] = <<>>
    /\ inUse' = [inUse EXCEPT !.cond = @ \cup {k}]
    /\ UNCHANGED <<life, objects, joiners>>
DropMutex(t, m) ==
    /\ Active(t) /\ m \in inUse.mutex /\ owner[m] = Nobody
    /\ inUse' = [inUse EXCEPT !.mutex = @ \ {m}]
    /\ UNCHANGED <<life, objects, joiners>>
DropSem(t, s) ==
    /\ Active(t) /\ s \in inUse.sem /\ takers[s] = <<>>
    /\ inUse' = [inUse EXCEPT !.sem = @ \ {s}]
    /\ credit' = [credit EXCEPT ![s] = 0]
    /\ UNCHANGED <<life, owner, depth, lockers, takers, sleepers, joiners>>
DropCond(t, k) ==
    /\ Active(t) /\ k \in inUse.cond /\ sleepers[k] = <<>>
    /\ inUse' = [inUse EXCEPT !.cond = @ \ {k}]
    /\ UNCHANGED <<life, objects, joiners>>

Next ==
    \E t \in Threads :
        \/ Exit(t)
        \/ \E u \in Threads : Spawn(t, u) \/ Join(t, u)
        \/ \E m \in Mutexes : Lock(t, m) \/ Unlock(t, m) \/ MakeMutex(t, m) \/ DropMutex(t, m)
        \/ \E s \in Sems : Post(t, s) \/ Take(t, s) \/ DropSem(t, s)
        \/ \E s \in Sems, v \in SemInit : MakeSem(t, s, v)
        \/ \E k \in Conds : \/ Signal(t, k) \/ Broadcast(t, k)
                            \/ MakeCond(t, k) \/ DropCond(t, k)
        \/ \E k \in Conds, m \in Mutexes : Sleep(t, k, m)

Spec == Init /\ [][Next]_vars

=============================================================================
