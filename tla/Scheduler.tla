----------------------------- MODULE Scheduler -----------------------------
(***************************************************************************)
(* The processor scheduler of ReSP's ConcurrencyManager (src/src/cm): the  *)
(* emulated processors, the threads, the ready queues, schedLock and the   *)
(* thread life cycle (create, exit, join).                                 *)
(*                                                                         *)
(* A processor is one SystemC process.  SystemC is cooperative: code runs  *)
(* without interruption up to its next wait(), so an action is everything  *)
(* a handler does between two waits.  A handler waits at two places only:  *)
(*   "blocked"  in SysCLock::lock, while another handler is inside;        *)
(*   "choose"   in findReadyThread, about to schedule on its own processor;*)
(*   "attempt"  in findReadyThread as called by attemptScheduling.         *)
(* In "choose" and "attempt" the handler holds schedLock.  In "run" the    *)
(* processor executes emulated code, or the idle loop if it has no thread. *)
(***************************************************************************)
EXTENDS Integers, Sequences, FiniteSets, FiniteSetsExt, SequencesExt

CONSTANTS
    Procs,        \* the identifiers in managedProc, visited in their order
    Threads,      \* the identifiers createThread can hand out, 0 is main
    AttrIds,      \* the thread attributes, DefaultAttr among them
    DefaultAttr,  \* ConcurrencyManager::defaultAttr
    AttrValues,   \* the values an attribute can be given
    PrioMax,      \* SYSC_PRIO_MAX
    NULL

ASSUME ProcsAssumption   == Procs \subseteq Nat /\ IsFiniteSet(Procs) /\ Procs # {}
ASSUME ThreadsAssumption == Threads \subseteq Nat /\ IsFiniteSet(Threads) /\ 0 \in Threads
ASSUME NullAssumption    == NULL \notin Threads
ASSUME PrioAssumption    == PrioMax \in Nat
AttrRecord == [prio : 0..PrioMax, edf : BOOLEAN, deadline : Nat, preemptive : BOOLEAN]
ASSUME AttrAssumption    == DefaultAttr \in AttrIds /\ AttrValues \subseteq AttrRecord

VARIABLES
    runThread,    \* Processor::runThread
    status,       \* ThreadEmu::status, UNBORN before createThread
    attrOf,       \* ThreadEmu::attr
    attrVal,      \* the contents of the attributes
    readyQueue,   \* one queue per priority, the last one sorted by deadline
    schedLock,    \* SysCLock::busy
    joining,      \* ThreadEmu::joining
    pc,           \* where the processor is, see above
    call,         \* the emulated call its handler serves
    curThread,    \* the thread that handler has descheduled
    scan,         \* the processors attemptScheduling has still to visit
    issue         \* the exception that stopped the simulation, or "none"

schedVars == <<runThread, status, attrOf, attrVal, readyQueue, schedLock,
               joining, pc, call, curThread, scan, issue>>

DefaultValue == [prio |-> 0, edf |-> FALSE, deadline |-> 0, preemptive |-> FALSE]
NoCall       == [f |-> "none"]

-----------------------------------------------------------------------------
(* Ready queues *)

EdfLevel == PrioMax + 1
Levels   == 0..EdfLevel

LevelOf(a) == IF attrVal[a].edf THEN EdfLevel ELSE attrVal[a].prio
Level(t)   == LevelOf(attrOf[t])
Deadlines  == [t \in Threads |-> attrVal[attrOf[t]].deadline]

\* What std::sort(..., deadlineSort) can leave of a queue of distinct threads:
\* the order of equal deadlines is not specified.
DeadlineSorts(q, due) ==
    { s \in [DOMAIN q -> ToSet(q)] :
        /\ ToSet(s) = ToSet(q)
        /\ \A i, j \in DOMAIN q : i < j => due[s[i]] <= due[s[j]] }

\* The queues after t is pushed at the back of level l.
Pushed(rq, l, t, due) ==
    LET grown == Append(rq[l], t)
    IN  { [rq EXCEPT ![l] = q] :
            q \in IF l = EdfLevel THEN DeadlineSorts(grown, due) ELSE {grown} }

\* The members of ts of level l, in their order: one sequence, as a set of one.
OfLevel(ts, l) ==
    LET at == { i \in DOMAIN ts : Level(ts[i]) = l }
        n  == Cardinality(at)
    IN  { [i \in 1..n |-> ts[x[i]]] :
            x \in { y \in [1..n -> at] : \A i, j \in 1..n : i < j => y[i] < y[j] } }

\* The queues after each of ts is pushed at the back of its own level.
Readied(rq, ts) ==
    LET grown(l) == { rq[l] \o s : s \in OfLevel(ts, l) }
        due(l)   == IF l = EdfLevel /\ \E i \in DOMAIN ts : Level(ts[i]) = l
                    THEN UNION { DeadlineSorts(q, Deadlines) : q \in grown(l) }
                    ELSE grown(l)
    IN  { new \in [Levels -> UNION { due(l) : l \in Levels }] :
            \A l \in Levels : new[l] \in due(l) }

\* Variant: the search stops before queue 0.
NoneReadySkippingZero == \A l \in Levels \ {0} : readyQueue[l] = <<>>
NoneReady == \A l \in Levels : readyQueue[l] = <<>>

\* findReadyThread takes the first thread of the highest queue that has one.
Top(l)      == /\ readyQueue[l] # <<>>
               /\ \A k \in Levels : k > l => readyQueue[k] = <<>>
Found(l)    == Head(readyQueue[l])
\* Variant: front() without pop_front().
PopQueueKeeping(l) == readyQueue
PopQueue(l) == [readyQueue EXCEPT ![l] = Tail(@)]

\* x comes first in S, in the order in which the code visits identifiers.
IsFirst(x, S) == x \in S /\ \A y \in S : x <= y

\* Variant: looks for threads that are ready instead of waiting.
DeadlockedIfReady ==
    /\ NoneReady
    /\ \E t \in Threads : status[t] = "READY"
    /\ \A t \in Threads : status[t] # "RUNNING"

\* findReadyThread throws when nothing can ever run again.
Deadlocked ==
    /\ NoneReady
    /\ \E t \in Threads : status[t] = "WAITING"
    /\ \A t \in Threads : status[t] # "RUNNING"

-----------------------------------------------------------------------------
(* schedLock and the phases of a handler *)

Fail(why) ==
    /\ issue' = why
    /\ UNCHANGED <<runThread, status, attrOf, attrVal, readyQueue, schedLock,
                   joining, pc, call, curThread, scan>>

\* The processor executes a thread and can issue an emulated call.
Executing(p) == issue = "none" /\ pc[p] = "run" /\ runThread[p] # NULL

\* Call c of p gets past SysCLock::lock, at once or after having waited.
Start(p, c) ==
    /\ issue = "none"
    /\ ~schedLock
    /\ \/ pc[p] = "run" /\ runThread[p] # NULL
       \/ pc[p] = "blocked" /\ call[p] = c

\* SysCLock::lock finds the lock busy.
Block(p, c) ==
    /\ Executing(p)
    /\ schedLock
    /\ pc' = [pc EXCEPT ![p] = "blocked"]
    /\ call' = [call EXCEPT ![p] = c]
    /\ UNCHANGED <<runThread, status, attrOf, attrVal, readyQueue, schedLock,
                   joining, curThread, scan, issue>>

\* Variant: the handler returns without unlocking.
LeaveLocked(p) ==
    /\ UNCHANGED schedLock
    /\ pc' = [pc EXCEPT ![p] = "run"]
    /\ call' = [call EXCEPT ![p] = NoCall]
    /\ curThread' = [curThread EXCEPT ![p] = NULL]
    /\ scan' = [scan EXCEPT ![p] = {}]

\* SysCLock::unlock and the return of the handler.
Leave(p) ==
    /\ schedLock' = FALSE
    /\ pc' = [pc EXCEPT ![p] = "run"]
    /\ call' = [call EXCEPT ![p] = NoCall]
    /\ curThread' = [curThread EXCEPT ![p] = NULL]
    /\ scan' = [scan EXCEPT ![p] = {}]

\* Variant: the lock is released before the wait.
HoldUnlocked(p, c, where, th, rest) ==
    /\ schedLock' = FALSE
    /\ pc' = [pc EXCEPT ![p] = where]
    /\ call' = [call EXCEPT ![p] = c]
    /\ curThread' = [curThread EXCEPT ![p] = th]
    /\ scan' = [scan EXCEPT ![p] = rest]

\* The handler of c keeps the lock and waits in findReadyThread.
Hold(p, c, where, th, rest) ==
    /\ schedLock' = TRUE
    /\ pc' = [pc EXCEPT ![p] = where]
    /\ call' = [call EXCEPT ![p] = c]
    /\ curThread' = [curThread EXCEPT ![p] = th]
    /\ scan' = [scan EXCEPT ![p] = rest]

\* Variant: reads the thread after it was descheduled.
SuspendForgetting(p, c) ==
    /\ runThread' = [runThread EXCEPT ![p] = NULL]
    /\ Hold(p, c, "choose", NULL, {})

\* deSchedule of the handler's own processor, then findReadyThread.
Suspend(p, c) ==
    /\ runThread' = [runThread EXCEPT ![p] = NULL]
    /\ Hold(p, c, "choose", runThread[p], {})

\* Variant: visits only the processors after the handler's own.
AttemptAfter(p, c) == Hold(p, c, "attempt", NULL, { q \in Procs : q > p })

\* attemptScheduling: findReadyThread, for the other processors.
Attempt(p, c) == Hold(p, c, "attempt", NULL, Procs \ {p})

-----------------------------------------------------------------------------
(* Thread calls *)

ThreadCalls ==
    [f : {"create"}, attr : AttrIds] \cup [f : {"exit"}]
    \cup [f : {"join"}, th : Threads] \cup [f : {"joinAll"}]

Unborn    == { t \in Threads : status[t] = "UNBORN" }
IdleProcs == { p \in Procs : runThread[p] = NULL }

\* preemptLowerPrio: v is the first processor running a thread of the lowest
\* level; a new thread with attribute a takes it over or not.
Victim(v) ==
    \A q \in Procs : \/ Level(runThread[v]) < Level(runThread[q])
                     \/ Level(runThread[v]) = Level(runThread[q]) /\ v <= q
Preempts(a, old) ==
    /\ attrVal[attrOf[old]].preemptive
    /\ \/ Level(old) < LevelOf(a)
       \/ attrVal[a].edf /\ attrVal[a].deadline < Deadlines[old]

\* createThread: on a free processor, else by preemption, else in a ready queue.
\* It never waits, so it holds schedLock for no time.
CreateThread(p, a) ==
    /\ Start(p, [f |-> "create", attr |-> a])
    /\ \E t \in Unborn :                             \* bound: Threads
          LET due == [Deadlines EXCEPT ![t] = attrVal[a].deadline] IN
          /\ IsFirst(t, Unborn)
          /\ attrOf' = [attrOf EXCEPT ![t] = a]
          /\ \/ \E q \in IdleProcs :
                   /\ IsFirst(q, IdleProcs)
                   /\ runThread' = [runThread EXCEPT ![q] = t]
                   /\ status' = [status EXCEPT ![t] = "RUNNING"]
                   /\ UNCHANGED readyQueue
             \/ \E v \in Procs :
                   LET old == runThread[v] IN
                   /\ IdleProcs = {} /\ Victim(v) /\ Preempts(a, old)
                   /\ readyQueue' \in Pushed(readyQueue, Level(old), old, due)
                   /\ runThread' = [runThread EXCEPT ![v] = t]
                   /\ status' = [status EXCEPT ![t] = "RUNNING", ![old] = "READY"]
             \/ \E v \in Procs :
                   /\ IdleProcs = {} /\ Victim(v) /\ ~Preempts(a, runThread[v])
                   /\ readyQueue' \in
                          Pushed(readyQueue, IF a = DefaultAttr THEN 0 ELSE LevelOf(a), t, due)
                   /\ status' = [status EXCEPT ![t] = "READY"]
                   /\ UNCHANGED runThread
    /\ Leave(p)
    /\ UNCHANGED <<attrVal, joining, issue>>

\* exitThread: every joiner becomes ready, one thread is chosen for p.
ExitThread(p) ==
    /\ Start(p, [f |-> "exit"])
    /\ LET t     == runThread[p]
           woken == ToSet(joining[t])
       IN  /\ status' = [u \in Threads |-> CASE u \in woken -> "READY"
                                             [] u = t /\ u \notin woken -> "DEAD"
                                             [] OTHER -> status[u]]
           /\ readyQueue' \in Readied(readyQueue, joining[t])
           /\ joining' = [joining EXCEPT ![t] = <<>>]
    /\ Suspend(p, [f |-> "exit"])
    /\ UNCHANGED <<attrOf, attrVal, issue>>

\* join: the caller enters joining only after findReadyThread, see Chosen.
Join(p, u) ==
    LET c == [f |-> "join", th |-> u] IN
    /\ Start(p, c)
    /\ \/ /\ status[u] = "DEAD"
          /\ Leave(p)
          /\ UNCHANGED <<runThread, status>>
       \/ /\ status[u] # "DEAD"
          /\ status' = [status EXCEPT ![runThread[p]] = "WAITING"]
          /\ Suspend(p, c)
    /\ UNCHANGED <<attrOf, attrVal, readyQueue, joining, issue>>

JoinAll(p) ==
    /\ Start(p, [f |-> "joinAll"])
    /\ status' = [status EXCEPT ![runThread[p]] = "WAITING"]
    /\ Suspend(p, [f |-> "joinAll"])
    /\ UNCHANGED <<attrOf, attrVal, readyQueue, joining, issue>>

\* What join and joinAll do once findReadyThread has returned.  joinAll queues
\* the caller on itself, once for each other thread that is alive.
Joined(p) ==
    LET me    == curThread[p]
        alive == { u \in Threads \ {me} : status[u] \notin {"UNBORN", "DEAD"} }
    IN  CASE call[p].f = "join"    -> [joining EXCEPT ![call[p].th] = Append(@, me)]
          [] call[p].f = "joinAll" ->
                [joining EXCEPT ![me] = @ \o [i \in 1..Cardinality(alive) |-> me]]
          [] OTHER -> joining

\* findReadyThread returns to a handler that has given up its processor.
Chosen(p) ==
    /\ issue = "none"
    /\ pc[p] = "choose"
    /\ \/ Deadlocked /\ Fail("deadlock")
       \/ /\ ~Deadlocked
          /\ \/ /\ NoneReady
                /\ UNCHANGED <<runThread, status, readyQueue>>
             \/ \E l \in Levels :
                   /\ Top(l)
                   /\ runThread' = [runThread EXCEPT ![p] = Found(l)]
                   /\ status' = [status EXCEPT ![Found(l)] = "RUNNING"]
                   /\ readyQueue' = PopQueue(l)
          /\ joining' = Joined(p)
          /\ Leave(p)
          /\ UNCHANGED <<attrOf, attrVal, issue>>

\* findReadyThread returns to attemptScheduling, which gives the thread to the
\* next idle processor and calls findReadyThread again.
FreeProcs(p) == { q \in scan[p] : runThread[q] = NULL }

AttemptNext(p) ==
    /\ issue = "none"
    /\ pc[p] = "attempt"
    /\ \/ Deadlocked /\ Fail("deadlock")
       \/ \E l \in Levels, q \in FreeProcs(p) :
          /\ Top(l) /\ IsFirst(q, FreeProcs(p))
          /\ runThread' = [runThread EXCEPT ![q] = Found(l)]
          /\ status' = [status EXCEPT ![Found(l)] = "RUNNING"]
          /\ readyQueue' = PopQueue(l)
          /\ scan' = [scan EXCEPT ![p] = { r \in @ : r > q }]
          /\ UNCHANGED <<attrOf, attrVal, schedLock, joining, pc, call, curThread, issue>>

\* attemptScheduling returns: no thread was found, or no processor is left for
\* the one that was, which goes to the front of queue 0.
AttemptOver(p) ==
    /\ issue = "none"
    /\ pc[p] = "attempt"
    /\ \/ NoneReady /\ ~Deadlocked /\ UNCHANGED readyQueue
       \/ \E l \in Levels :
          /\ Top(l) /\ FreeProcs(p) = {}
          /\ readyQueue' = [PopQueue(l) EXCEPT ![0] = <<Found(l)>> \o @]

\* pthread_setschedparam on thread u, and the pthread_attr_set* calls on
\* attribute a: no lock is taken and no queue is reordered.
SetSchedParam(p, u, v) ==
    /\ Executing(p)
    /\ status[u] # "UNBORN"
    /\ attrVal' = [attrVal EXCEPT ![attrOf[u]] = [v EXCEPT !.preemptive = attrVal[attrOf[u]].preemptive]]
    /\ UNCHANGED <<runThread, status, attrOf, readyQueue, schedLock, joining,
                   pc, call, curThread, scan, issue>>

SetAttr(p, a, v) ==
    /\ Executing(p)
    /\ a # DefaultAttr
    /\ attrVal' = [attrVal EXCEPT ![a] = v]
    /\ UNCHANGED <<runThread, status, attrOf, readyQueue, schedLock, joining,
                   pc, call, curThread, scan, issue>>

\* addProcessor for every processor: the first one added runs main.  An
\* attribute has any of the values that pthread_attr_set*, the command line
\* (defThreadInfo) or, in the fields nobody sets, uninitialised memory gave it.
SchedInit ==
    /\ \E first \in Procs :
          runThread = [p \in Procs |-> IF p = first THEN 0 ELSE NULL]
    /\ status = [t \in Threads |-> IF t = 0 THEN "RUNNING" ELSE "UNBORN"]
    /\ attrOf = [t \in Threads |-> DefaultAttr]
    /\ attrVal \in { v \in [AttrIds -> AttrValues \cup {DefaultValue}] :
                        v[DefaultAttr] = DefaultValue }
    /\ readyQueue = [l \in Levels |-> <<>>]
    /\ schedLock = FALSE
    /\ joining = [t \in Threads |-> <<>>]
    /\ pc = [p \in Procs |-> "run"]
    /\ call = [p \in Procs |-> NoCall]
    /\ curThread = [p \in Procs |-> NULL]
    /\ scan = [p \in Procs |-> {}]
    /\ issue = "none"

=============================================================================
