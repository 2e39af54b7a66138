------------------------- MODULE ConcurrencyManager -------------------------
(***************************************************************************)
(* The emulation of pthreads in ReSP (src/src/cm): the scheduler of module *)
(* Scheduler together with mutexes, semaphores and condition variables.    *)
(*                                                                         *)
(* The emulated program is any program whose threads issue the calls in    *)
(* Calls.  With Disciplined = TRUE it uses them the way POSIX asks for:    *)
(* see Permitted.                                                          *)
(***************************************************************************)
EXTENDS Scheduler

CONSTANTS
    Mutexes, Sems, Conds,   \* identifiers create* can hand out
    Premade,                \* [mutex, sem, cond |-> those that exist when main starts]
    SemInit,                \* initial values of the semaphores
    Calls,                  \* the calls the emulated program makes
    Disciplined,            \* the program respects Permitted
    RecMax, SemMax          \* bounds on recursive locks and semaphore values

ASSUME IdsAssumption ==
    /\ Mutexes \subseteq Nat /\ Sems \subseteq Nat /\ Conds \subseteq Nat
    /\ Premade \in [mutex : SUBSET Mutexes, sem : SUBSET Sems, cond : SUBSET Conds]
ASSUME BoundsAssumption ==
    /\ RecMax \in Nat /\ SemMax \in Nat /\ SemInit \subseteq Nat
    /\ Disciplined \in BOOLEAN
ASSUME CondNullAssumption == NULL \notin Mutexes

VARIABLES
    mutex,   \* existingMutex
    sem,     \* existingSem
    cond     \* existingCond

syncVars == <<mutex, sem, cond>>
vars     == <<schedVars, syncVars>>

FreshMutex    == [live |-> TRUE, owner |-> NULL, status |-> "FREE", rec |-> 0, waiting |-> <<>>]
FreshSem(v)   == [live |-> TRUE, value |-> v, waiting |-> <<>>]
FreshCond     == [live |-> TRUE, mutex |-> NULL, waiting |-> <<>>]
NoMutex       == [FreshMutex EXCEPT !.live = FALSE]
NoSem         == [FreshSem(0) EXCEPT !.live = FALSE]
NoCond        == [FreshCond EXCEPT !.live = FALSE]

MutexCalls == [f : {"lock", "trylock", "unlock"}, m : Mutexes]
SemCalls   == [f : {"post", "semwait"}, s : Sems]
CondCalls  == [f : {"signal", "broadcast"}, c : Conds]
              \cup [f : {"wait", "timedwait"}, c : Conds, m : Mutexes]
ObjCalls   == [f : {"createMutex", "createCond"}] \cup [f : {"createSem"}, v : SemInit]
              \cup [f : {"destroyMutex"}, m : Mutexes] \cup [f : {"destroySem"}, s : Sems]
              \cup [f : {"destroyCond"}, c : Conds]
ParamCalls == [f : {"setschedparam"}, th : Threads, v : AttrValues]
              \cup [f : {"attr_set"}, attr : AttrIds, v : AttrValues]
WaitFamily  == {"wait", "timedwait"}
LockedCalls == ThreadCalls \cup MutexCalls \cup SemCalls \cup CondCalls

ASSUME CallsAssumption == Calls \subseteq (LockedCalls \cup ObjCalls \cup ParamCalls)

\* The identifier create* gives out next, the objects S existing: the first gap
\* above an existing one.
IsNextId(i, S) == IF S = {} THEN i = 0 ELSE IsFirst(i, { j + 1 : j \in S } \ S)
Live(obj) == { i \in DOMAIN obj : obj[i].live }

-----------------------------------------------------------------------------
(* Mutexes *)

\* Thread t becomes ready in queue 0, whatever its priority.
Awake(t) ==
    /\ status' = [status EXCEPT ![t] = "READY"]
    /\ readyQueue' = [readyQueue EXCEPT ![0] = Append(@, t)]

\* lockMutex up to its first wait.
LockMutex(p, m, nonbl) ==
    LET c == [f |-> IF nonbl THEN "trylock" ELSE "lock", m |-> m]
        t == runThread[p]
    IN
    /\ Start(p, c)
    /\ \/ ~mutex[m].live /\ Fail("no such mutex") /\ UNCHANGED mutex
       \/ /\ mutex[m].live
          /\ \/ /\ mutex[m].owner = t
                /\ mutex' = [mutex EXCEPT ![m].rec = @ + 1]
                /\ Leave(p)
                /\ UNCHANGED <<runThread, status>>
             \/ /\ mutex[m].owner # t
                /\ mutex[m].status = "FREE"
                /\ mutex' = [mutex EXCEPT ![m].status = "LOCKED", ![m].owner = t]
                /\ Leave(p)
                /\ UNCHANGED <<runThread, status>>
             \/ /\ mutex[m].owner # t
                /\ mutex[m].status = "LOCKED"
                /\ nonbl
                /\ Leave(p)
                /\ UNCHANGED <<mutex, runThread, status>>
             \/ /\ mutex[m].owner # t
                /\ mutex[m].status = "LOCKED"
                /\ ~nonbl
                /\ mutex' = [mutex EXCEPT ![m].waiting = Append(@, t)]
                /\ status' = [status EXCEPT ![t] = "WAITING"]
                /\ Suspend(p, c)
          /\ UNCHANGED <<attrOf, attrVal, readyQueue, joining, issue>>
    /\ UNCHANGED <<sem, cond>>

\* The mutex after its owner has released it once, and the waiter it goes to.
NextOwner(m)  == IF mutex[m].rec = 0 /\ mutex[m].waiting # <<>>
                 THEN Head(mutex[m].waiting) ELSE NULL
\* Variants: the head stays queued; the last waiter is served first; the mutex is set
\* free although a thread was waiting.
ReleasedKeepingHead(m) ==
    IF mutex[m].rec = 0 /\ mutex[m].waiting # <<>>
    THEN [mutex[m] EXCEPT !.owner = Head(mutex[m].waiting)]
    ELSE [mutex[m] EXCEPT !.status = "FREE", !.owner = NULL]
ReleasedLastFirst(m) ==
    IF mutex[m].rec = 0 /\ mutex[m].waiting # <<>>
    THEN [mutex[m] EXCEPT !.owner = Last(mutex[m].waiting), !.waiting = Front(@)]
    ELSE [mutex[m] EXCEPT !.status = "FREE", !.owner = NULL]
ReleasedNotHanded(m) ==
    [mutex[m] EXCEPT !.status = "FREE", !.owner = NULL,
                     !.waiting = IF @ = <<>> THEN @ ELSE Tail(@)]

Released(m)   ==
    CASE mutex[m].rec > 0 -> [mutex[m] EXCEPT !.rec = @ - 1]
      [] mutex[m].rec = 0 /\ mutex[m].waiting # <<>> ->
            [mutex[m] EXCEPT !.owner = Head(mutex[m].waiting), !.waiting = Tail(@)]
      [] OTHER -> [mutex[m] EXCEPT !.status = "FREE", !.owner = NULL, !.waiting = <<>>]

\* unLockMutex up to its first wait.
UnLockMutex(p, m) ==
    LET c == [f |-> "unlock", m |-> m] IN
    /\ Start(p, c)
    /\ \/ ~mutex[m].live /\ Fail("no such mutex") /\ UNCHANGED mutex
       \/ /\ mutex[m].live /\ mutex[m].owner = NULL
          /\ Leave(p)
          /\ UNCHANGED <<mutex, runThread, status, attrOf, attrVal, readyQueue, joining, issue>>
       \/ /\ mutex[m].live /\ mutex[m].owner \notin {NULL, runThread[p]}
          /\ Fail("not the owner")
          /\ UNCHANGED mutex
       \/ /\ mutex[m].live /\ mutex[m].owner = runThread[p]
          /\ mutex' = [mutex EXCEPT ![m] = Released(m)]
          /\ IF NextOwner(m) # NULL
             THEN Awake(NextOwner(m)) /\ Attempt(p, c)
             ELSE Leave(p) /\ UNCHANGED <<status, readyQueue>>
          /\ UNCHANGED <<runThread, attrOf, attrVal, joining, issue>>
    /\ UNCHANGED <<sem, cond>>

-----------------------------------------------------------------------------
(* Semaphores *)

\* Variant: the credit is added although a waiter takes it.
PostedTwice(x) ==
    [x EXCEPT !.value = @ + 1, !.waiting = IF @ = <<>> THEN @ ELSE Tail(@)]

\* The semaphore after a post: the first waiter takes it, or it is a credit.
Posted(x) == IF x.waiting # <<>> THEN [x EXCEPT !.waiting = Tail(@)]
                                 ELSE [x EXCEPT !.value = @ + 1]

PostSem(p, s) ==
    LET c == [f |-> "post", s |-> s] IN
    /\ Start(p, c)
    /\ \/ ~sem[s].live /\ Fail("no such semaphore") /\ UNCHANGED sem
       \/ /\ sem[s].live
          /\ sem' = [sem EXCEPT ![s] = Posted(sem[s])]
          /\ IF sem[s].waiting # <<>>
             THEN Awake(Head(sem[s].waiting)) /\ Attempt(p, c)
             ELSE Leave(p) /\ UNCHANGED <<status, readyQueue>>
          /\ UNCHANGED <<runThread, attrOf, attrVal, joining, issue>>
    /\ UNCHANGED <<mutex, cond>>

WaitSem(p, s) ==
    LET c == [f |-> "semwait", s |-> s]
        t == runThread[p]
    IN
    /\ Start(p, c)
    /\ \/ ~sem[s].live /\ Fail("no such semaphore") /\ UNCHANGED sem
       \/ /\ sem[s].live
          /\ \/ /\ sem[s].value > 0
                /\ sem' = [sem EXCEPT ![s].value = @ - 1]
                /\ Leave(p)
                /\ UNCHANGED <<runThread, status>>
             \/ /\ sem[s].value = 0
                /\ sem' = [sem EXCEPT ![s].waiting = Append(@, t)]
                /\ status' = [status EXCEPT ![t] = "WAITING"]
                /\ Suspend(p, c)
          /\ UNCHANGED <<attrOf, attrVal, readyQueue, joining, issue>>
    /\ UNCHANGED <<mutex, cond>>

-----------------------------------------------------------------------------
(* Condition variables *)

\* lockConditionMutex on mutex record x: whether t gets it, and what becomes of it.
GetsMutex(x, t) == x.owner = t \/ x.status = "FREE"
\* Variant: the thread is not queued on the busy mutex.
CondLockedNotQueued(x, t) ==
    CASE x.owner = t -> [x EXCEPT !.rec = @ + 1]
      [] x.owner # t /\ x.status = "FREE" -> [x EXCEPT !.status = "LOCKED", !.owner = t]
      [] OTHER -> x
\* Variant: the thread gets the mutex even if another one owns it.
CondLockedStealing(x, t) ==
    IF x.owner = t THEN [x EXCEPT !.rec = @ + 1]
    ELSE [x EXCEPT !.status = "LOCKED", !.owner = t]
CondLocked(x, t) ==
    CASE x.owner = t -> [x EXCEPT !.rec = @ + 1]
      [] x.owner # t /\ x.status = "FREE" -> [x EXCEPT !.status = "LOCKED", !.owner = t]
      [] OTHER -> [x EXCEPT !.waiting = Append(@, t)]

\* Variant: every signal makes the condition forget its mutex.
SignalledForgetting(x, broadcast) ==
    [x EXCEPT !.waiting = IF broadcast THEN <<>> ELSE Tail(@), !.mutex = NULL]

\* The condition after a signal: it forgets its mutex with its last waiter.
Signalled(x, broadcast) ==
    [x EXCEPT !.waiting = IF broadcast THEN <<>> ELSE Tail(@),
              !.mutex   = IF broadcast \/ Tail(x.waiting) = <<>> THEN NULL ELSE @]

\* signalCond: the first waiter takes the mutex or queues for it; a broadcast
\* queues all the others for it.
SignalCond(p, k, broadcast) ==
    LET c     == [f |-> IF broadcast THEN "broadcast" ELSE "signal", c |-> k]
        m     == cond[k].mutex
        first == Head(cond[k].waiting)
        rest  == Tail(cond[k].waiting)
        taken == CondLocked(mutex[m], first)
    IN
    /\ Start(p, c)
    /\ \/ ~cond[k].live /\ Fail("no such condition") /\ UNCHANGED <<mutex, cond>>
       \/ /\ cond[k].live /\ cond[k].waiting # <<>> /\ m = NULL
          /\ Fail("condition without mutex")
          /\ UNCHANGED <<mutex, cond>>
       \/ \* the exception of the debug build; the other one uses a null pointer
          /\ cond[k].live /\ cond[k].waiting # <<>> /\ m # NULL /\ ~mutex[m].live
          /\ Fail("no such mutex")
          /\ UNCHANGED <<mutex, cond>>
       \/ /\ cond[k].live /\ cond[k].waiting = <<>>
          /\ Attempt(p, c)
          /\ UNCHANGED <<mutex, cond, status, readyQueue>>
          /\ UNCHANGED <<runThread, attrOf, attrVal, joining, issue>>
       \/ /\ cond[k].live /\ cond[k].waiting # <<>> /\ m # NULL /\ mutex[m].live
          /\ mutex' = [mutex EXCEPT ![m] =
                          IF broadcast THEN [taken EXCEPT !.waiting = @ \o rest] ELSE taken]
          /\ cond' = [cond EXCEPT ![k] = Signalled(cond[k], broadcast)]
          /\ IF GetsMutex(mutex[m], first) THEN Awake(first)
                                           ELSE UNCHANGED <<status, readyQueue>>
          /\ Attempt(p, c)
          /\ UNCHANGED <<runThread, attrOf, attrVal, joining, issue>>
    /\ UNCHANGED sem

\* waitCond.  It unlocks schedLock, calls unLockMutex and locks schedLock again;
\* nothing can come between those, as SystemC switches processes at wait() only.
\* If unLockMutex hands the mutex over, attemptScheduling makes it wait, and
\* WaitCondResumed is the rest of the call.
\* The time limit of a timed wait is not used.
CondEnqueue(p, c) ==
    /\ status' = [status EXCEPT ![runThread[p]] = "WAITING"]
    /\ Suspend(p, c)

WaitCond(p, k, m, timed) ==
    LET c == [f |-> IF timed THEN "timedwait" ELSE "wait", c |-> k, m |-> m]
        t == runThread[p]
    IN
    /\ Start(p, c)
    /\ \/ ~cond[k].live /\ Fail("no such condition") /\ UNCHANGED <<mutex, cond>>
       \/ \* the early return -1 leaves schedLock busy
          /\ cond[k].live /\ cond[k].mutex \notin {NULL, m}
          /\ schedLock' = TRUE
          /\ pc' = [pc EXCEPT ![p] = "run"]
          /\ call' = [call EXCEPT ![p] = NoCall]
          /\ UNCHANGED <<runThread, status, attrOf, attrVal, readyQueue, joining,
                         curThread, scan, issue, mutex, cond>>
       \/ /\ cond[k].live /\ cond[k].mutex \in {NULL, m}
          /\ \/ ~mutex[m].live /\ Fail("no such mutex") /\ UNCHANGED <<mutex, cond>>
             \/ /\ mutex[m].live /\ mutex[m].owner \notin {NULL, t}
                /\ Fail("not the owner")
                /\ UNCHANGED <<mutex, cond>>
             \/ /\ mutex[m].live /\ mutex[m].owner \in {NULL, t}
                /\ \/ /\ mutex[m].owner = NULL \/ NextOwner(m) = NULL
                      /\ mutex' = IF mutex[m].owner = NULL THEN mutex
                                  ELSE [mutex EXCEPT ![m] = Released(m)]
                      /\ cond' = [cond EXCEPT ![k].mutex = m, ![k].waiting = Append(@, t)]
                      /\ CondEnqueue(p, c)
                      /\ UNCHANGED readyQueue
                   \/ /\ mutex[m].owner = t /\ NextOwner(m) # NULL
                      /\ mutex' = [mutex EXCEPT ![m] = Released(m)]
                      /\ cond' = [cond EXCEPT ![k].mutex = m]
                      /\ Awake(NextOwner(m))
                      /\ Attempt(p, c)
                      /\ UNCHANGED runThread
                /\ UNCHANGED <<attrOf, attrVal, joining, issue>>
    /\ UNCHANGED sem

WaitCondResumed(p) ==
    /\ call[p].f \in WaitFamily
    /\ AttemptOver(p)
    /\ cond' = [cond EXCEPT ![call[p].c].waiting = Append(@, runThread[p])]
    /\ CondEnqueue(p, call[p])
    /\ UNCHANGED <<attrOf, attrVal, joining, issue, mutex, sem>>

\* unLockMutex, postSem and signalCond return from attemptScheduling.
Attempted(p) ==
    /\ call[p].f \notin WaitFamily
    /\ AttemptOver(p)
    /\ Leave(p)
    /\ UNCHANGED <<runThread, status, attrOf, attrVal, joining, issue, syncVars>>

-----------------------------------------------------------------------------
(* Creation and destruction of objects: no lock is taken *)

CreateMutex(p) ==
    /\ Executing(p)
    /\ \E m \in Mutexes :                               \* bound: Mutexes
          /\ IsNextId(m, Live(mutex))
          /\ mutex' = [mutex EXCEPT ![m] = FreshMutex]
    /\ UNCHANGED <<schedVars, sem, cond>>

CreateSem(p, v) ==
    /\ Executing(p)
    /\ \E s \in Sems :                                  \* bound: Sems
          /\ IsNextId(s, Live(sem))
          /\ sem' = [sem EXCEPT ![s] = FreshSem(v)]
    /\ UNCHANGED <<schedVars, mutex, cond>>

CreateCond(p) ==
    /\ Executing(p)
    /\ \E k \in Conds :                                 \* bound: Conds
          /\ IsNextId(k, Live(cond))
          /\ cond' = [cond EXCEPT ![k] = FreshCond]
    /\ UNCHANGED <<schedVars, mutex, sem>>

DestroyMutex(p, m) ==
    /\ Executing(p)
    /\ IF mutex[m].live
       THEN mutex' = [mutex EXCEPT ![m] = NoMutex] /\ UNCHANGED schedVars
       ELSE Fail("no such mutex") /\ UNCHANGED mutex
    /\ UNCHANGED <<sem, cond>>

DestroySem(p, s) ==
    /\ Executing(p)
    /\ IF sem[s].live
       THEN sem' = [sem EXCEPT ![s] = NoSem] /\ UNCHANGED schedVars
       ELSE Fail("no such semaphore") /\ UNCHANGED sem
    /\ UNCHANGED <<mutex, cond>>

DestroyCond(p, k) ==
    /\ Executing(p)
    /\ IF cond[k].live
       THEN cond' = [cond EXCEPT ![k] = NoCond] /\ UNCHANGED schedVars
       ELSE Fail("no such condition") /\ UNCHANGED cond
    /\ UNCHANGED <<mutex, sem>>

-----------------------------------------------------------------------------
(* The emulated program *)

\* No handler is inside a call on object i of the kind that field of a call names.
Unused(field, i) ==
    \A p \in Procs : field \in DOMAIN call[p] => call[p][field] # i

\* Calls no program can make, or that would leave a bound.
Possible(p, c) ==
    CASE c.f \in {"lock", "trylock"} ->
            mutex[c.m].owner = runThread[p] => mutex[c.m].rec < RecMax   \* bound: RecMax
      [] c.f = "create" ->                                               \* bound: Threads
            Cardinality(Unborn) > Cardinality({ q \in Procs : call[q].f = "create" })
      [] c.f = "post" -> sem[c.s].value < SemMax                         \* bound: SemMax
      [] c.f = "join" -> status[c.th] # "UNBORN"
      [] c.f = "destroyMutex" -> Unused("m", c.m)
      [] c.f = "destroySem"   -> Unused("s", c.s)
      [] c.f = "destroyCond"  -> Unused("c", c.c)
      [] OTHER -> TRUE

\* What POSIX asks of a program: only the owner unlocks a mutex or waits with
\* it, all waits on a condition use one mutex, nobody exits owning a mutex or
\* joins itself, objects are used while they exist and destroyed when idle.
Permitted(p, c) ==
    LET t == runThread[p] IN
    CASE c.f \in {"lock", "trylock"} -> mutex[c.m].live
      [] c.f = "unlock" -> mutex[c.m].live /\ mutex[c.m].owner = t
      [] c.f \in {"post", "semwait"} -> sem[c.s].live
      [] c.f \in {"signal", "broadcast"} -> cond[c.c].live
      [] c.f \in WaitFamily ->
                         /\ cond[c.c].live /\ mutex[c.m].live
                         /\ mutex[c.m].owner = t
                         /\ cond[c.c].mutex \in {NULL, c.m}
                         /\ \A q \in Procs :
                               call[q].f \in WaitFamily /\ call[q].c = c.c => call[q].m = c.m
      [] c.f = "exit" -> \A m \in Mutexes : mutex[m].owner # t
      [] c.f = "join" -> c.th # t
      [] c.f = "destroyMutex" -> /\ mutex[c.m].live /\ mutex[c.m].owner = NULL
                                 /\ \A k \in Conds : cond[k].mutex # c.m
      [] c.f = "destroySem" -> sem[c.s].live /\ sem[c.s].waiting = <<>>
      [] c.f = "destroyCond" -> cond[c.c].live /\ cond[c.c].waiting = <<>>
      [] OTHER -> TRUE

MayCall(p, c) == Possible(p, c) /\ (Disciplined => Permitted(p, c))

\* The handler of call c of processor p, up to its first wait.
Handle(p, c) ==
    \/ c.f = "create"    /\ CreateThread(p, c.attr) /\ UNCHANGED syncVars
    \/ c.f = "exit"      /\ ExitThread(p)           /\ UNCHANGED syncVars
    \/ c.f = "join"      /\ Join(p, c.th)           /\ UNCHANGED syncVars
    \/ c.f = "joinAll"   /\ JoinAll(p)              /\ UNCHANGED syncVars
    \/ c.f = "lock"      /\ LockMutex(p, c.m, FALSE)
    \/ c.f = "trylock"   /\ LockMutex(p, c.m, TRUE)
    \/ c.f = "unlock"    /\ UnLockMutex(p, c.m)
    \/ c.f = "post"      /\ PostSem(p, c.s)
    \/ c.f = "semwait"   /\ WaitSem(p, c.s)
    \/ c.f = "signal"    /\ SignalCond(p, c.c, FALSE)
    \/ c.f = "broadcast" /\ SignalCond(p, c.c, TRUE)
    \/ c.f = "wait"      /\ WaitCond(p, c.c, c.m, FALSE)
    \/ c.f = "timedwait" /\ WaitCond(p, c.c, c.m, TRUE)

\* A thread makes a call and its handler runs, or finds schedLock busy.
Invoke(p, c) == pc[p] = "run" /\ Executing(p) /\ MayCall(p, c) /\ Handle(p, c)
Wait(p, c)   == Executing(p) /\ MayCall(p, c) /\ Block(p, c) /\ UNCHANGED syncVars
\* SysCLock::lock returns to a handler that had to wait for it.
Resume(p)    == pc[p] = "blocked" /\ Handle(p, call[p])

\* The calls that take no lock.
Unlocked(p, c) ==
    /\ MayCall(p, c)
    /\ \/ c.f = "createMutex"  /\ CreateMutex(p)
       \/ c.f = "createSem"    /\ CreateSem(p, c.v)
       \/ c.f = "createCond"   /\ CreateCond(p)
       \/ c.f = "destroyMutex" /\ DestroyMutex(p, c.m)
       \/ c.f = "destroySem"   /\ DestroySem(p, c.s)
       \/ c.f = "destroyCond"  /\ DestroyCond(p, c.c)
       \/ c.f = "setschedparam" /\ SetSchedParam(p, c.th, c.v) /\ UNCHANGED syncVars
       \/ c.f = "attr_set"      /\ SetAttr(p, c.attr, c.v)     /\ UNCHANGED syncVars

\* The simulation is over: an exception stopped it or no thread is left to run.
Over == issue # "none" \/ \A p \in Procs : pc[p] = "run" /\ runThread[p] = NULL
Finished == Over /\ UNCHANGED vars

Step(p) ==
    \/ Resume(p)
    \/ Chosen(p) /\ UNCHANGED syncVars
    \/ AttemptNext(p) /\ UNCHANGED syncVars
    \/ Attempted(p)
    \/ WaitCondResumed(p)

Init ==
    /\ SchedInit
    /\ mutex = [m \in Mutexes |-> IF m \in Premade.mutex THEN FreshMutex ELSE NoMutex]
    /\ sem \in { x \in [Sems -> { FreshSem(v) : v \in SemInit } \cup {NoSem}] :
                    \A s \in Sems : s \in Premade.sem <=> x[s].live }
    /\ cond = [k \in Conds |-> IF k \in Premade.cond THEN FreshCond ELSE NoCond]

Next ==
    \/ \E p \in Procs :
         \/ Step(p)
         \/ \E c \in Calls \cap LockedCalls : Invoke(p, c) \/ Wait(p, c)
         \/ \E c \in Calls \ LockedCalls : Unlocked(p, c)
    \/ Finished

Spec == Init /\ [][Next]_vars

(***************************************************************************)
(* Fairness.  SystemC runs every process whose wait() is over, and wakes   *)
(* the processes waiting on awakeEvent in the order they arrived, so that  *)
(* none of them loses schedLock for ever.  The program is one whose        *)
(* threads do not keep what others need: whoever owns a mutex unlocks it   *)
(* in the end, and every thread ends.                                      *)
(***************************************************************************)
Kernel  == \A p \in Procs : WF_vars(Step(p)) /\ SF_vars(Resume(p))
Program == \A p \in Procs :
              \A c \in Calls \cap ([f : {"unlock"}, m : Mutexes] \cup [f : {"exit"}]) :
                 SF_vars(Invoke(p, c))
FairSpec == Spec /\ Kernel /\ Program

-----------------------------------------------------------------------------
(* Types *)

MutexRecord == [live : BOOLEAN, owner : Threads \cup {NULL}, status : {"FREE", "LOCKED"},
                rec : Nat, waiting : Seq(Threads)]
SemRecord   == [live : BOOLEAN, value : Nat, waiting : Seq(Threads)]
CondRecord  == [live : BOOLEAN, mutex : Mutexes \cup {NULL}, waiting : Seq(Threads)]

Phases == {"run", "blocked", "choose", "attempt"}
Issues == {"none", "deadlock", "not the owner", "no such mutex", "no such semaphore",
           "no such condition", "condition without mutex"}

HandlerTypes ==
    /\ schedLock \in BOOLEAN
    /\ pc \in [Procs -> Phases]
    /\ call \in [Procs -> LockedCalls \cup {NoCall}]
    /\ curThread \in [Procs -> Threads \cup {NULL}]
    /\ scan \in [Procs -> SUBSET Procs]
    /\ issue \in Issues
ThreadTypes ==
    /\ runThread \in [Procs -> Threads \cup {NULL}]
    /\ status \in [Threads -> {"UNBORN", "READY", "RUNNING", "WAITING", "DEAD"}]
    /\ attrOf \in [Threads -> AttrIds]
    /\ attrVal \in [AttrIds -> AttrRecord]
    /\ readyQueue \in [Levels -> Seq(Threads)]
    /\ joining \in [Threads -> Seq(Threads)]
ObjectTypes ==
    /\ mutex \in [Mutexes -> MutexRecord]
    /\ sem \in [Sems -> SemRecord]
    /\ cond \in [Conds -> CondRecord]

\* The types of all variables: no handler stores a processor, a thread or an
\* object that does not exist in the structures it updates.
TypeOK == HandlerTypes /\ ThreadTypes /\ ObjectTypes

-----------------------------------------------------------------------------
(* Safety *)

Inside(p) == pc[p] \in {"choose", "attempt"}

\* Whatever the program does, two handlers never work on the queues at once:
\* whoever waits in findReadyThread keeps every other handler out.
HandlersExclude ==
    \A p \in Procs : Inside(p) => schedLock /\ \A q \in Procs : Inside(q) => q = p

\* No handler of a program that respects POSIX leaves schedLock busy behind.
SchedLockDiscipline == HandlersExclude /\ (schedLock => \E p \in Procs : Inside(p))

\* Where thread t can be found.  A thread in join is, until findReadyThread
\* returns, known only to the handler that descheduled it.
Indices(q, t) == { i \in DOMAIN q : q[i] = t }
PlacesOf(kind, obj, queue(_), t) ==
    UNION { { <<kind, x, i>> : i \in Indices(queue(x), t) } : x \in obj }
RunPlaces(t)   == { <<"processor", p, 0>> : p \in { q \in Procs : runThread[q] = t } }
ReadyPlaces(t) == PlacesOf("ready", Levels, LAMBDA l : readyQueue[l], t)
WaitPlaces(t)  ==
    PlacesOf("mutex", Mutexes, LAMBDA m : mutex[m].waiting, t)
    \cup PlacesOf("sem", Sems, LAMBDA s : sem[s].waiting, t)
    \cup PlacesOf("cond", Conds, LAMBDA k : cond[k].waiting, t)
    \cup PlacesOf("join", Threads \ {t}, LAMBDA u : joining[u], t)
    \cup { <<"joining", p, 0>> :
            p \in { q \in Procs : curThread[q] = t /\ call[q].f \in {"join", "joinAll"} } }

\* No thread is lost or duplicated: it runs on one processor, or is once in one
\* ready queue, or is once in one list from which a call of another thread
\* wakes it, as its status says; a dead thread is nowhere.  And who is in the joining
\* list of another waits for one that is alive: no thread dies between the test of
\* join and the entry in the list.
ThreadInOnePlace ==
    \A t \in Threads :
        /\ Cardinality(RunPlaces(t))   = IF status[t] = "RUNNING" THEN 1 ELSE 0
        /\ Cardinality(ReadyPlaces(t)) = IF status[t] = "READY"   THEN 1 ELSE 0
        /\ Cardinality(WaitPlaces(t))  = IF status[t] = "WAITING" THEN 1 ELSE 0
        /\ joining[t] # <<>> => status[t] \notin {"UNBORN", "DEAD"}

Coherent(x) ==
    /\ x.status = "FREE" <=> x.owner = NULL
    /\ x.status = "FREE" => x.rec = 0 /\ x.waiting = <<>>

\* What unLockMutex, lockMutex and the debug build assert of a mutex: it is free
\* iff nobody owns it, and then nobody waits and it is not held recursively.
MutexCoherent == \A m \in Mutexes : Coherent(mutex[m])

\* A mutex with waiters has a living owner other than them: whoever waits for
\* it waits for a thread that can still give it up.
OwnerCanRelease ==
    \A m \in Mutexes : mutex[m].owner # NULL =>
        /\ status[mutex[m].owner] \notin {"UNBORN", "DEAD"}
        /\ mutex[m].owner \notin ToSet(mutex[m].waiting)

\* The assertion of postSem: a semaphore has no credit while a thread waits on it.
NoIdleCredit ==
    \A s \in Sems : sem[s].value > 0 => sem[s].waiting = <<>>

\* What the handlers assert of the objects they share, together: nobody waits for a
\* mutex that is free or a semaphore that has a credit, and a mutex that is handed over
\* while its new owner sleeps is never seen without owner.
ObjectsCoherent == MutexCoherent /\ NoIdleCredit

\* The exception of signalCond can never be thrown: a condition with waiters
\* knows their mutex.
CondKnowsMutex ==
    \A k \in Conds : cond[k].waiting # <<>> => cond[k].mutex # NULL

\* A program that respects POSIX is never refused a call by an exception.
NoCallRefused == issue \in {"none", "deadlock"}

\* When every processor idles and nothing was reported, every thread has ended:
\* a program that can never continue does not hang silently.
NoSilentHang ==
    (Over /\ issue = "none") => \A t \in Threads : status[t] \in {"UNBORN", "DEAD"}

\* An idle processor while a thread is ready: only in the middle of a handler.
NoIdleWhileReady ==
    ~schedLock => NoneReady \/ \A p \in Procs : runThread[p] # NULL

\* Whoever is the last thread alive is not left waiting for the others.
LastThreadRuns ==
    \A t \in Threads :
        /\ \A u \in Threads \ {t} : status[u] \in {"UNBORN", "DEAD"}
        /\ \A p \in Procs : curThread[p] # t
        => status[t] # "WAITING"

\* A mutex is taken from its owner only while the owner runs: nobody else
\* unlocks it, and no signal takes it for the thread it wakes.
OnlyOwnerReleases ==
    [][ \A m \in Mutexes :
          mutex[m].owner \notin {NULL, mutex'[m].owner} =>
              \E p \in Procs : runThread[p] = mutex[m].owner ]_vars

-----------------------------------------------------------------------------
(* Liveness *)

Stopped == issue # "none"

\* Every call gets through schedLock and returns to the program or suspends.
HandlersEnd == \A p \in Procs : pc[p] # "run" ~> pc[p] = "run" \/ Stopped

\* Every thread that is ready is given a processor.
ReadyRuns == \A t \in Threads : status[t] = "READY" ~> status[t] # "READY" \/ Stopped

\* Every thread that waits for a mutex owns it in the end.
MutexGranted ==
    \A t \in Threads, m \in Mutexes :
        t \in ToSet(mutex[m].waiting) ~> mutex[m].owner = t \/ Stopped

-----------------------------------------------------------------------------
(* Refinement *)

\* The thread of a waitCond that has released its mutex and is held up in
\* attemptScheduling counts as asleep already, the thread of a join that waits
\* in findReadyThread as joining already.
FallingAsleep(k) == { p \in Procs : pc[p] = "attempt" /\ call[p].f \in WaitFamily /\ call[p].c = k }
SleepersOf(k) ==
    LET queue == [i \in DOMAIN cond[k].waiting |->
                     [t |-> cond[k].waiting[i], m |-> cond[k].mutex]]
    IN  IF FallingAsleep(k) = {} THEN queue
        ELSE LET p == CHOOSE q \in FallingAsleep(k) : TRUE
             IN  Append(queue, [t |-> runThread[p], m |-> call[p].m])
JoinersOf(u) ==
    ToSet(joining[u]) \cup
    { curThread[p] : p \in { q \in Procs : call[q] = [f |-> "join", th |-> u]
                                           /\ pc[q] = "choose" } }

Pthreads == INSTANCE PthreadSync WITH
    Main     <- 0,
    Nobody   <- NULL,
    life     <- [t \in Threads |-> CASE status[t] = "UNBORN" -> "unborn"
                                     [] status[t] = "DEAD"   -> "dead"
                                     [] OTHER                -> "alive"],
    owner    <- [m \in Mutexes |-> mutex[m].owner],
    depth    <- [m \in Mutexes |-> mutex[m].rec],
    lockers  <- [m \in Mutexes |-> mutex[m].waiting],
    credit   <- [s \in Sems |-> sem[s].value],
    takers   <- [s \in Sems |-> sem[s].waiting],
    sleepers <- [k \in Conds |-> SleepersOf(k)],
    joiners  <- [u \in Threads |-> JoinersOf(u)],
    inUse    <- [mutex |-> Live(mutex), sem |-> Live(sem), cond |-> Live(cond)]

\* Every behaviour of the scheduler and of the handlers is one of PthreadSync:
\* locking, handing over, signalling and joining never depend on where and when
\* threads are scheduled, and an object is made under an identifier no other has.
ImplementsPthreads == Pthreads!Spec

=============================================================================
