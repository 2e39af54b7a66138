----------------------------- MODULE ConfigEngine -----------------------------
(***************************************************************************)
(* The configuration engine (configEngine.cpp) with its central table      *)
(* (cEAllocationTable.cpp) and the devices it drives (eFPGA.cpp).  Threads  *)
(* of the simulated program configure, execute and remove hardware         *)
(* functions.  SystemC threads are cooperative: an action runs from one     *)
(* wait() to the next, and the device commands W0, W1 and R1, which do not  *)
(* wait, are part of the action that sends them.                           *)
(*                                                                         *)
(* The counters ctr and delUtil of the table are natural numbers: they      *)
(* would have to wrap at 2^32 to give out an address twice.                *)
(***************************************************************************)
EXTENDS AllocationTable, FiniteSets

CONSTANTS
    Threads, Names,
    Devices,          \* number of devices bound to the engine
    Width, Height,    \* cells of every device
    Size,             \* cells of each function: <<width, height>>
    Policies,         \* deletion algorithms: FIFO, LRU, RANDOM
    Calls,            \* the calls each thread may make
    MaxCalls,         \* bound: calls of each thread
    MaxAddress        \* bound: configurations made, one address each

Addresses == 1 .. MaxAddress

NoCall     == [op |-> "none"]
ConfigOps  == {"configure", "executeForce"}
ExecuteOps == {"execute", "executeName"}
RemoveOps  == {"remove", "removeName"}

\* Every device takes each function when it is empty.
ASSUME ConfigEngineAssumption ==
    /\ Devices \in Nat \ {0} /\ MaxCalls \in Nat /\ MaxAddress \in Nat
    /\ Policies \subseteq {"FIFO", "LRU", "RANDOM"}
    /\ \A n \in Names : Size[n] \in (1 .. Width) \X (1 .. Height)
    /\ \A t \in Threads : \A c \in Calls[t] :
        \/ c.op \in ConfigOps /\ c.name \in Names /\ c.reUse \in BOOLEAN
        \/ c.op \in {"execute", "remove"} /\ c.address \in Addresses
        \/ c.op \in {"executeName", "removeName"} /\ c.name \in Names

VARIABLES
    pc,              \* where each thread waits
    call,            \* the call it is in
    at,              \* the address it works on, 0 if none
    made,            \* the calls it has begun
    configBusy, nextConfigWake,    \* configLock
    locks,           \* execLock: the locked addresses and who waits for each
    tab,             \* the central table: name, device and deletion data by address
    ctr, delUtil,    \* its counters
    policy,          \* its deletion algorithm
    devices,         \* the tables of the devices
    error            \* the exception that has ended the simulation

threads == <<pc, call, at, made>>
config  == <<configBusy, nextConfigWake>>
table   == <<tab, ctr, delUtil, policy>>
vars == <<threads, config, locks, table, devices, error>>

Init ==
    /\ pc = [t \in Threads |-> "idle"]
    /\ call = [t \in Threads |-> NoCall]
    /\ at = [t \in Threads |-> 0]
    /\ made = [t \in Threads |-> 0]
    /\ configBusy = FALSE /\ nextConfigWake = <<>>
    /\ locks = [executing |-> {}, wake |-> [a \in Addresses |-> <<>>]]
    /\ tab = [a \in {} |-> NoCall]
    /\ ctr = 1 /\ delUtil = 1
    /\ policy \in Policies
    /\ devices = [d \in 1 .. Devices |->
                    [occupied |-> [a \in {} |-> Whole(Width, Height)],
                     free |-> <<Whole(Width, Height)>>]]
    /\ error = "none"

-----------------------------------------------------------------------------
(* What becomes of a thread *)

Goes(t, where, a) ==
    /\ pc' = [pc EXCEPT ![t] = where]
    /\ at' = [at EXCEPT ![t] = a]
    /\ UNCHANGED <<call, made>>

Returns(t) ==
    /\ pc' = [pc EXCEPT ![t] = "idle"]
    /\ at' = [at EXCEPT ![t] = 0]
    /\ call' = [call EXCEPT ![t] = NoCall]
    /\ UNCHANGED made

\* THROW_EXCEPTION: nobody catches it, the simulation ends.
Throws(what) == error' = what /\ UNCHANGED <<threads, config, locks, table, devices>>

-----------------------------------------------------------------------------
(* configLock, configUnlock, execLock, execUnlock *)

\* The lock stays busy on behalf of the first who waits.
ConfigUnlock ==
    IF nextConfigWake = <<>> THEN configBusy' = FALSE /\ UNCHANGED nextConfigWake
    ELSE nextConfigWake' = Tail(nextConfigWake) /\ UNCHANGED configBusy

ExecLock(l, t, a) ==
    IF a \in l.executing THEN [l EXCEPT !.wake[a] = Append(@, t)]
    ELSE [l EXCEPT !.executing = @ \cup {a}]

\* Variant: who waits is forgotten.
ExecUnlockAlone(l, a) == [l EXCEPT !.executing = @ \ {a}]

\* Variant: who waits is woken and the address is free all the same.
ExecUnlockFree(l, a) ==
    [l EXCEPT !.executing = @ \ {a}, !.wake[a] = IF @ = <<>> THEN @ ELSE Tail(@)]

ExecUnlock(l, a) ==
    IF l.wake[a] = <<>> THEN [l EXCEPT !.executing = @ \ {a}]
    ELSE [l EXCEPT !.wake[a] = Tail(@)]

Awaits(t, queue) == t \in ToSet(queue)

-----------------------------------------------------------------------------
(* The central table *)

Mapped == DOMAIN tab

Copies(n) == { a \in Mapped : tab[a].name = n }

\* What removeList and getAddressList may have in front when they list the functions
\* of S: that of the oldest insertion (FIFO) or execution (LRU), where one that was
\* never executed is older than all others, or a random one.
Older(a, b) == tab[a].used < tab[b].used \/ (tab[a].used = tab[b].used /\ a < b)
Firsts(S) == IF policy = "RANDOM" THEN S ELSE { a \in S : \A b \in S \ {a} : Older(a, b) }

\* The first of the list that is not executing, or else the first of all.
FirstFree(S) ==
    LET free == S \ locks.executing IN Firsts(IF free # {} THEN free ELSE S)

TableAdd(n, d) ==
    /\ tab' = [a \in Mapped \cup {ctr} |->
                IF a = ctr
                THEN [name |-> n, device |-> d, used |-> IF policy = "FIFO" THEN delUtil ELSE 0]
                ELSE tab[a]]
    /\ ctr' = ctr + 1
    /\ delUtil' = IF policy = "FIFO" THEN delUtil + 1 ELSE delUtil
    /\ UNCHANGED policy

TableExec(a) ==
    IF policy = "LRU"
    THEN /\ tab' = [tab EXCEPT ![a].used = delUtil]
         /\ delUtil' = delUtil + 1
         /\ UNCHANGED <<ctr, policy>>
    ELSE UNCHANGED table

-----------------------------------------------------------------------------
(* The devices *)

\* R1 to every device.
Search(n) == [d \in 1 .. Devices |-> AllocationFit(devices[d].free, Size[n][1], Size[n][2])]

\* The first device with the least heuristic, if any has space.
Fitting(found) == { d \in 1 .. Devices : found[d] # NoFit }
Best(found) ==
    { d \in Fitting(found) : \A e \in Fitting(found) \ {d} :
        \/ found[d].heuristic < found[e].heuristic
        \/ found[d].heuristic = found[e].heuristic /\ d < e }

\* W0 to device d.
DeviceAdd(d, a, o) ==
    devices' = [devices EXCEPT ![d] =
        [occupied |-> [b \in DOMAIN @.occupied \cup {a} |-> IF b = a THEN o ELSE @.occupied[b]],
         free     |-> FreeAfterAdd(@.free, o)]]

\* Variant: the device is told nothing.
UnmapsTable(a) ==
    /\ tab' = [b \in Mapped \ {a} |-> tab[b]]
    /\ UNCHANGED <<ctr, delUtil, policy, devices>>

\* remove of the central table, then W1 to the device it names.
Unmaps(a) ==
    LET d == tab[a].device IN
    /\ tab' = [b \in Mapped \ {a} |-> tab[b]]
    /\ UNCHANGED <<ctr, delUtil, policy>>
    /\ devices' = [devices EXCEPT ![d] =
        [occupied |-> [b \in DOMAIN @.occupied \ {a} |-> @.occupied[b]],
         free     |-> FreeAfterRemove(@.free, @.occupied[a])]]

OnDevice(a) == a \in DOMAIN devices[tab[a].device].occupied

-----------------------------------------------------------------------------
(* exec: its caller holds the lock of a, and l are the locks with that one *)

ExecBegins(t, a, l) ==
    /\ a \in Mapped
    /\ Goes(t, "launching", a)
    /\ locks' = l
    /\ UNCHANGED config

\* The function is no longer mapped: execute returns FALSE, executeForce goes
\* back to config with the configuration lock it still holds.
ExecFails(t, a, l) ==
    /\ a \notin Mapped
    /\ locks' = ExecUnlock(l, a)
    /\ IF call[t].op = "executeForce" THEN Goes(t, "request", 0) ELSE Returns(t)
    /\ UNCHANGED config

LockToExec(t, a, l) ==
    IF a \in l.executing
    THEN Goes(t, "turn", a) /\ locks' = ExecLock(l, t, a) /\ UNCHANGED config
    ELSE LET held == ExecLock(l, t, a) IN ExecBegins(t, a, held) \/ ExecFails(t, a, held)

\* execDelay has passed: R0 finds the function on its device and waits for its latency.
Launch(t) ==
    /\ pc[t] = "launching"
    /\ IF at[t] \in Mapped /\ OnDevice(at[t])
       THEN Goes(t, "running", at[t]) /\ UNCHANGED <<config, locks, table, devices, error>>
       ELSE Throws("not on the device")

Finish(t) ==
    /\ pc[t] = "running"
    /\ IF at[t] \in Mapped
       THEN /\ TableExec(at[t])
            /\ locks' = ExecUnlock(locks, at[t])
            /\ IF call[t].op = "executeForce" THEN ConfigUnlock ELSE UNCHANGED config
            /\ Returns(t)
            /\ UNCHANGED <<devices, error>>
       ELSE Throws("not in the table")

-----------------------------------------------------------------------------
(* Calls: a thread enters one, and goes on to its first wait *)

Call(t) ==
    /\ pc[t] = "idle" /\ made[t] < MaxCalls
    /\ \E c \in Calls[t] : call' = [call EXCEPT ![t] = c]
    /\ pc' = [pc EXCEPT ![t] = "calling"]
    /\ made' = [made EXCEPT ![t] = @ + 1]
    /\ UNCHANGED <<at, config, locks, table, devices, error>>

Enters(t, ops) == pc[t] = "calling" /\ call[t].op \in ops

\* Variant: the lock is not looked at.
ConfigLockOpen(t) ==
    /\ Enters(t, ConfigOps)
    /\ configBusy' = TRUE /\ UNCHANGED nextConfigWake
    /\ Goes(t, "request", 0)
    /\ UNCHANGED <<locks, table, devices, error>>

ConfigLock(t) ==
    /\ Enters(t, ConfigOps)
    /\ IF configBusy
       THEN nextConfigWake' = Append(nextConfigWake, t) /\ UNCHANGED configBusy /\ Goes(t, "queued", 0)
       ELSE configBusy' = TRUE /\ UNCHANGED nextConfigWake /\ Goes(t, "request", 0)
    /\ UNCHANGED <<locks, table, devices, error>>

ConfigTurn(t) ==
    /\ pc[t] = "queued" /\ ~Awaits(t, nextConfigWake)
    /\ Goes(t, "request", 0)
    /\ UNCHANGED <<config, locks, table, devices, error>>

Execute(t) ==
    /\ \/ Enters(t, {"execute"}) /\ LockToExec(t, call[t].address, locks)
       \/ /\ Enters(t, {"executeName"})
          /\ \/ Copies(call[t].name) = {} /\ Returns(t) /\ UNCHANGED <<config, locks>>
             \/ \E a \in FirstFree(Copies(call[t].name)) : LockToExec(t, a, locks)
    /\ UNCHANGED <<table, devices, error>>

ExecTurn(t) ==
    /\ pc[t] = "turn" /\ ~Awaits(t, locks.wake[at[t]])
    /\ ExecBegins(t, at[t], locks) \/ ExecFails(t, at[t], locks)
    /\ UNCHANGED <<table, devices, error>>

-----------------------------------------------------------------------------
(* config, for the holder of the configuration lock *)

\* config has returned the address a, and l are the locks then.
ConfigReturns(t, a, l) ==
    IF call[t].op = "configure" THEN ConfigUnlock /\ Returns(t) /\ locks' = l
    ELSE LockToExec(t, a, l)

\* requestDelay has passed and the function may be used again.
Reuse(t) ==
    /\ pc[t] = "request" /\ call[t].reUse
    /\ \E a \in Firsts(Copies(call[t].name)) : ConfigReturns(t, a, locks)
    /\ UNCHANGED <<table, devices, error>>

\* requestDelay has passed, or removeDelay after space was made: the search.
Searches(t) ==
    \/ pc[t] = "request" /\ (call[t].reUse => Copies(call[t].name) = {})
    \/ pc[t] = "evicting"

\* The new function is locked until it is fully configured.
Place(t) ==
    /\ Searches(t)
    /\ ctr \in Addresses
    /\ LET n == call[t].name
           found == Search(n)
       IN  \E d \in Best(found) :
            /\ TableAdd(n, d)
            /\ DeviceAdd(d, ctr, Occupied(found[d].position, Size[n][1], Size[n][2]))
    /\ locks' = ExecLock(locks, t, ctr)
    /\ Goes(t, "configuring", ctr)
    /\ UNCHANGED <<config, error>>

\* configDelay and the transfer of the bitstream are over.
Configured(t) ==
    /\ pc[t] = "configuring"
    /\ ConfigReturns(t, at[t], ExecUnlock(locks, at[t]))
    /\ UNCHANGED <<table, devices, error>>

NoSpace(n) == Fitting(Search(n)) = {}

\* Variant: the victim is removed at once, whoever executes it.
EvictAtOnce(t) ==
    /\ Searches(t) /\ NoSpace(call[t].name)
    /\ \E victim \in Firsts(Mapped) : Unmaps(victim)
    /\ Goes(t, "evicting", 0)
    /\ UNCHANGED <<config, locks, error>>

\* No device has space: a function has to go.
Evict(t) ==
    /\ Searches(t) /\ NoSpace(call[t].name)
    /\ \/ Mapped = {} /\ Throws("too big")
       \/ \E victim \in FirstFree(Mapped) :
            /\ IF victim \in locks.executing
               THEN /\ Goes(t, "victim", victim)
                    /\ locks' = ExecLock(locks, t, victim)
                    /\ UNCHANGED <<table, devices>>
               ELSE Goes(t, "evicting", 0) /\ Unmaps(victim) /\ UNCHANGED locks
            /\ UNCHANGED <<config, error>>

\* Every function was executing; the first has ended.
VictimFree(t) ==
    /\ pc[t] = "victim" /\ ~Awaits(t, locks.wake[at[t]])
    /\ IF at[t] \in Mapped
       THEN /\ Unmaps(at[t])
            /\ locks' = ExecUnlock(locks, at[t])
            /\ Goes(t, "evicting", 0)
            /\ UNCHANGED <<config, error>>
       ELSE Throws("victim gone")

-----------------------------------------------------------------------------
(* manualRemove, by address and by name *)

RemovesNow(t, a) == Unmaps(a) /\ Goes(t, "removing", 0) /\ UNCHANGED <<config, locks, error>>

RemovesLater(t, a) ==
    /\ locks' = ExecLock(locks, t, a)
    /\ Goes(t, "removal", a)
    /\ UNCHANGED <<config, table, devices, error>>

Refused(t) == Returns(t) /\ UNCHANGED <<config, locks, table, devices, error>>

Removes(t, a) == IF a \in locks.executing THEN RemovesLater(t, a) ELSE RemovesNow(t, a)

RemoveAddress(t) ==
    /\ Enters(t, {"remove"})
    /\ LET a == call[t].address IN
        \/ Mapped = {} /\ Throws("nothing mapped")
        \/ Mapped # {} /\ a \notin Mapped /\ Refused(t)
        \/ a \in Mapped /\ Removes(t, a)

RemoveName(t) ==
    /\ Enters(t, {"removeName"})
    /\ \/ Copies(call[t].name) = {} /\ Refused(t)
       \/ \E a \in FirstFree(Copies(call[t].name)) : Removes(t, a)

\* Its execution has ended.  Somebody else may have removed it meanwhile: by
\* name that is noticed; by address the lock of 0, which nobody holds, is
\* released (the end of a list is erased) and an exception is thrown.
RemovalTurn(t) ==
    /\ pc[t] = "removal" /\ ~Awaits(t, locks.wake[at[t]])
    /\ IF at[t] \in Mapped
       THEN /\ Unmaps(at[t])
            /\ locks' = ExecUnlock(locks, at[t])
            /\ Goes(t, "removing", 0)
            /\ UNCHANGED <<config, error>>
       ELSE IF call[t].op = "removeName"
       THEN /\ locks' = ExecUnlock(locks, at[t])
            /\ Returns(t)
            /\ UNCHANGED <<config, table, devices, error>>
       ELSE Throws("removal lost")

\* removeDelay has passed.
Removed(t) == pc[t] = "removing" /\ Refused(t)

-----------------------------------------------------------------------------

Step(t) ==
    \/ ConfigLock(t) \/ ConfigTurn(t)
    \/ Reuse(t) \/ Place(t) \/ Configured(t) \/ Evict(t) \/ VictimFree(t)
    \/ Execute(t) \/ ExecTurn(t) \/ Launch(t) \/ Finish(t)
    \/ RemoveAddress(t) \/ RemoveName(t) \/ RemovalTurn(t) \/ Removed(t)

\* The program has made its calls, or an exception has ended the simulation.
Ended == error # "none" \/ \A t \in Threads : pc[t] = "idle" /\ made[t] = MaxCalls

Next ==
    \/ error = "none" /\ \E t \in Threads : Call(t) \/ Step(t)
    \/ Ended /\ UNCHANGED vars

Spec == Init /\ [][Next]_vars

-----------------------------------------------------------------------------
(* Properties *)

Working == {"configuring", "launching", "running"}

\* The threads that hold the lock of their address: those who work on it and
\* those it was handed to.
HoldsLock(t) ==
    \/ pc[t] \in Working
    \/ pc[t] \in {"turn", "victim", "removal"} /\ ~Awaits(t, locks.wake[at[t]])

\* An address is locked exactly while one thread holds it, through every hand-over
\* in execUnlock: a lock nobody holds would stop all who wait for the function.
LockDiscipline ==
    /\ locks.executing = { at[t] : t \in { u \in Threads : HoldsLock(u) } }
    /\ \A t, u \in Threads : HoldsLock(t) /\ HoldsLock(u) /\ at[t] = at[u] => t = u

\* "the function at a given address can be executed only by one thread at a time"
\* (configEngine.hpp:163), and none while it is being configured; what a thread
\* executes is still mapped, in both tables, and is the function it asked for, even
\* if it has waited for its turn while others evicted and removed functions.
ExecutesMapped ==
    \A t \in Threads : pc[t] \in {"launching", "running"} =>
        /\ at[t] \in Mapped /\ OnDevice(at[t])
        /\ call[t].op \notin {"execute"} => tab[at[t]].name = call[t].name
        /\ \A u \in Threads \ {t} : pc[u] \in Working => at[u] # at[t]

\* Between two waits the central table and the tables of the devices map the same
\* functions, so that no command to a device is ever refused.
TablesAgree ==
    \A d \in 1 .. Devices :
        DOMAIN devices[d].occupied = { a \in Mapped : tab[a].device = d }

\* A function that is only ever configured with reUse is mapped once: the search
\* for a copy and the insertion of the new one are separated by waits, and only
\* the configuration lock keeps two threads from both finding none.
OneCopyWhenReused ==
    \A n \in Names :
        (\A t \in Threads : \A c \in Calls[t] : c.op \in ConfigOps /\ c.name = n => c.reUse)
            => Cardinality(Copies(n)) <= 1

\* Only programs that remove by hand meet an exception, and only three: the removal
\* by address with nothing mapped, and two races, of which each leaves somebody with an
\* address that a removal has taken while it waited.  The function that is executed
\* "existed at the beginning of the execution" (configEngine.cpp:401) and still does, the
\* devices agree to every command, and a function is never too big.
OnlyRemovalsThrow ==
    \/ error = "none"
    \/ /\ error \in {"nothing mapped", "victim gone", "removal lost"}
       /\ \E t \in Threads : \E c \in Calls[t] : c.op \in RemoveOps

\* The threads never all wait for each other: config holds the configuration lock
\* while it waits for the lock of a victim, and executeForce while it waits for its
\* turn; as long as a call is under way some thread can go on.
Waits(t) ==
    \/ pc[t] = "queued" /\ Awaits(t, nextConfigWake)
    \/ pc[t] \in {"turn", "victim", "removal"} /\ Awaits(t, locks.wake[at[t]])
SomeoneGoesOn ==
    (\E t \in Threads : pc[t] # "idle") => \E t \in Threads : pc[t] # "idle" /\ ~Waits(t)

\* "it is guaranteed that the (potentially) configured function is executed at least
\* one time before it is removed from the fabric" (configEngine.hpp:179-180).  No run
\* checks it: a removal by hand that waits for the end of the configuration gets the
\* lock before the thread that configured.
ConfiguredIsExecuted ==
    \A t \in Threads :
        pc[t] = "turn" /\ call[t].op = "executeForce" /\ ~call[t].reUse => at[t] \in Mapped

=============================================================================
