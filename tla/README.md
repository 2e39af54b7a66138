# ReSP in TLA+

ReSP (Reflective Simulation Platform) simulates multi-processor systems: SystemC/TLM
components wrapped in Python, a controller that runs, pauses and stops the simulation from a
console, and an emulation of POSIX threads that lets a program run on the simulated processors
without an operating system. This directory holds the TLA+ model of the parts whose correctness
depends on the order in which things happen, the TLC runs over small instances, and proofs
checked by TLAPS. `PROJECT.json` has the index: which definition models which lines, what each
run checks, the hazards of the code and the property that watches each of them.

    tlc -config CM_refine.cfg MCConcurrencyManager      a run
    tlapm ConcurrencyManager_proofs.tla                 the proofs of a module

Contents: [1 Inventory](#1-inventory), [2 Modules](#2-modules-and-plan),
[3 Concurrency manager](#3-the-concurrency-manager), [4 Controller](#4-the-controller),
[5 Caches](#5-the-coherent-caches), [6 Configuration engine](#6-the-configuration-engine-and-its-devices),
[7 Interconnects](#7-the-interconnects), [8 Proofs](#8-proofs),
[9 Divergences](#9-where-code-and-documentation-disagree), [10 Limits](#10-what-is-not-covered).

## 1 Inventory

### Concurrency manager: `src/src/cm`

*State.* `Processor` (the thread it runs), `ThreadEmu` (status, attribute, who joins it),
`AttributeEmu`, `MutexEmu`, `SemaphoreEmu`, `CondEmu`, all in maps by integer identifier; a
ready queue per priority and one more sorted by deadline; `schedLock`, an `SysCLock` that
serialises the handlers.

*Operations.* A pthread call of the emulated program is intercepted by `ConcurrencyEmulator`
and becomes a call of `concurrency_syscalls.hpp`, which calls one method of
`ConcurrencyManager`: createThread, exitThread, join, joinAll, lockMutex, unLockMutex,
waitSem, postSem, waitCond, signalCond, create/destroy of the objects, setSchedParam and the
setters of attributes. All of them take `schedLock`, change threads and queues, and schedule.

*Interaction.* Every processor is one SystemC process. SystemC is cooperative, so a handler is
atomic between two waits, and waits in `SysCLock::lock` and in `findReadyThread` only. A handler
on one processor changes what the others execute: it preempts their thread, or starts one on an
idle processor.

*Hard.* Work done before and after a wait in a handler while handlers of other processors queue;
preemption of a processor whose own handler waits; hand-over of mutexes and semaphores to a
thread that is not running; conditions and recursive mutexes together; destroy and create that
reuse identifiers; default attributes with fields that nobody initialises.

*Correct if* handlers exclude each other and leave `schedLock` free; no thread is lost or queued
twice; mutexes, semaphores, conditions and joins behave as POSIX says wherever threads are
scheduled; no processor idles while a thread is ready; a program that can make no progress is
reported; everybody who can be served is served.

### Simulation controller: `src/src/controller`, patched kernel in `src/lib/systemc`

*State.* A Boost state machine (`Reset`, `Running`, `Paused`, `Stopped`); the flags and mutexes of
`simulation_engine`; the status of the SystemC kernel.

*Operations.* Console: `run_simulation`, `pause_simulation`, `stop_simulation`. Simulation:
`pause` (from `simulation_engine::pause` as a SystemC method, from breakpoints or from the
console's request), end of simulation (model stops, fails, or has nothing left to do).

*Interaction.* Two operating-system threads, the console's and the simulation's, which exchange
events through `process_event`, condition variables without predicates, and `reset_mutex`, which
is locked and unlocked by constructors and destructors of the states.

*Hard.* `process_event` destroys the old state before it constructs the new one, and events that
arrive in between are discarded; notifications nobody waits for are lost; a simulation may pause
or end before the machine has reached `Running`.

*Correct if* an event of the simulation is never discarded because the machine is still in
`Reset`; `Paused` is shown only when the simulation stands still; a stop returns when the
simulation is over; the commands return; whoever sleeps can be woken.

### Coherent caches: `src/components/memories/coherentCache`

*State.* `CoherentCacheLT`: blocks grouped by tag, each with data and state, and two busy flags.
`DirectoryLT`: for each block its privilege, the caches that hold it, and a FIFO of requests.
Memory and interconnect behind them.

*Operations.* Reads and writes of the processor (`b_transport`), debug accesses of the emulation of
the operating system (`transport_dbg`), messages of the directory to other caches
(`dir_transport`: write back, invalidate), eviction, three write policies.

*Interaction.* The thread of the processor executes its cache, the directory, and `dir_transport` of
*the other caches*; it waits for the directory's queue, for busy flags, and for transfers.

*Hard.* Pointers to blocks kept over waits; debug accesses whose transfers wait after the directory has let
the next request in; flags tested with `if`; copies the directory does not
know of; policies mixed in one system; queues that wait for each other.

*Correct if* a block is exclusive in one place or shared with equal copies, the directory knows all
copies, every access ends, and the whole behaves as one memory; the code does not quite manage the last with debug
writes (section 9).

### Configuration engine and eFPGA: `src/components/reconfigurable`

*State.* `configEngine`: the configuration lock (`configBusy` and a FIFO of events), a lock for each
address (`executing` and a FIFO for each), and the central table `cEAllocationTable` (name, device
and deletion data of each address). Each `eFPGA`: the rectangle of each function and the list of
free blocks.

*Operations.* `configure`, `execute` by address or name, `executeForce`, `manualRemove` by address or
name; `config` searches the devices for space, evicts functions (FIFO, LRU, RANDOM) until there is
some, and configures. The devices answer W0 (map), W1 (remove), R0 (execute), R1 (search).

*Interaction.* Every thread of the emulated program may call at any time. Calls wait for
delays, for the bitstream, for the execution itself, and for the two kinds of locks; the two tables
are changed one after the other by four methods, without a wait in between.

*Hard.* Addresses read before a wait and used after it; `config` waits for the lock of its victim with
the configuration lock in its hand, `executeForce` waits for its turn with it; a removal that loses
a race; the geometry of the free blocks, which are cut, merged and blended.

*Correct if* each lock has one holder through every hand-over, what is executed is mapped in both
tables and is the function that was asked for, the tables agree between two waits, a function that is
reused is there once, free and occupied blocks tile the device, and the threads never all wait.

### Packet network: `src/components/interconnect/packetNoc`

*State.* `masterPE`: the queue of packets, a session number, an event and a time-out flag for each
session, the flits of answers that are incomplete. `Switch`: a `Buffer` for each of five ports, routes.
`slavePE`: the queue of answers, incomplete requests, one transport at a time with a FIFO behind it.
`packetNocGovernor`: thresholds, and the sizes of the buffers.

*Operations.* `b_transport` of a master opens a session and sends a request, repeats it after a
time-out, and returns when an answer or acknowledgement notifies it; at every clock edge the elements and
switches read their links and write them; a slave performs the access and answers.

*Interaction.* Flits on signals; a pointer to the caller's payload inside the request, which slave and
memory read and change.

*Hard.* Full buffers drop flits; a time-out races the answer; retries of a call that was performed
already; several sessions of one call under way; buffer sizes that change with flits inside.

*Correct if* a call returns after its access was performed and no access is performed for a call that
is over, no answer meets a session that is gone, a buffer never holds more than its size, and
every call ends as long as sessions are left.

### Bus and simple network: `src/components/interconnect/simpleBus`, `simpleNoc`

*State.* `BusLT`: the address map, `busy`, `locking`, a FIFO of requests with one event for each master.
`NocLT`: a graph of switches (ring, star, tree or full) and the shortest routes in it; `SwitchLT`:
`busy`, a FIFO of requests, `maxQueue` events that are given out round and round.

*Operations.* `b_transport` and `transport_dbg`: decode, `lock`, the slave or the next switch, `unlock`;
the data of a read crosses every switch again on the way back.

*Interaction.* The thread of the master goes through all of them and waits for latencies and for
events; it is the members they share that threads compete for.

*Hard.* `unlock` hands the medium to a thread that has not run yet; the event that wakes a request may
be shared with another one; `locking` belongs to the bus and is written for each request
before its turn; a read takes each switch twice, against requests that come the other way.

*Correct if* one transfer at a time has the bus or a switch and none overtakes who waits, each access reaches
the cell that its address names before its call returns, and all calls return.

### The other components

| Component | Sources | State and operations | Here |
|---|---|---|---|
| Traffic generator, dummy end | `interconnect/packetNoc` | load and statistics | no |
| Memory | `memories/simpleMem` | array of words; TLM phases in the AT variant | a block read or written at one instant |
| Simple cache | `memories/simpleCache` | as the coherent one, without a directory | planned as an instance |
| Timer, interrupt generator | `testComponents` | counters and events | planned |
| Concurrency emulator | `src/cm/concurrency_emulator.*` | registers the calls at the addresses of the symbols | no state machine |
| Callbacks, breakpoints | `controller/callback.*`, `breakpoints.py` | lists of functions | a breakpoint is a pause of the simulation |
| Console, server, gdb manager | `src/hci` | the console issues the controller's commands | the console only |
| Reconfiguration emulator, reliability tools, fault injection | | callbacks, masks, statistics | no |
| Loader, BFD, power models, wrappers, utilities, component manager, kernel scripts | | sequential input, arithmetic, reflection | no |
| Processors, DSE, tools, software, architectures, docs, `lib`, `ext` | | generated, clients, vendored | no, but the patched `sc_simcontext.cpp` belongs to the controller |

## 2 Modules and plan

| Module | What it is |
|---|---|
| `Scheduler` | processors, threads, ready queues, `schedLock`, create/exit/join, preemption, attributes |
| `ConcurrencyManager` | EXTENDS `Scheduler`: mutexes, semaphores, conditions, the calls, the properties |
| `PthreadSync` | abstract: what the primitives promise, without processors or queues of ready threads |
| `ConcurrencyManager_proofs` | its theorems: types, exclusion, coherence of the objects, every thread in one place |
| `ConcurrencyManager_calls` | EXTENDS that: hangs are reported, calls accepted, owners can release, who is ready is taken; the manager implements `PthreadSync` |
| `Controller`, `Controller_proofs` | the two threads, the state machine, the kernel's flags; the theorems |
| `Directory` | requests, privileges and messages of the directory |
| `CoherentCache` | EXTENDS `Directory`: the caches, the interconnect, the memory, the properties |
| `CoherentCache_proofs` | its theorems |
| `AtomicMemory` | abstract: one memory, every access takes effect at one instant while it lasts |
| `AllocationTable` | the algorithms of a device's table: cut, merge, blend, fit |
| `EFPGA` | EXTENDS `AllocationTable`: one device and its commands |
| `EFPGA_proofs` | its theorems: every cell is in one block, a device implements `Fabric` |
| `Fabric` | abstract: what a device promises, functions on disjoint rectangles of cells |
| `ConfigEngine` | EXTENDS `AllocationTable`: the calls, the locks, the central table and the devices together |
| `ConfigEngine_proofs` | its theorems |
| `PacketNoc` | masters, switches, slaves and governor, one step for each clock edge |
| `PacketNoc_proofs` | its theorems |
| `Interconnect`, `Interconnect_proofs` | bus and switches, one step from each wait of a thread to the next; the theorems |
| `RemoteMemory` | abstract, of both interconnects: calls that are performed, perhaps more than once, before they return |
| `MC*` | small sets and inputs for the `.cfg` files |

An operator that is called *Variant* in a comment is a plausible error in the definition after it;
it takes no part in the specification and serves to show that the properties notice it.

Order of work, the most important behaviour first:

1. concurrency manager, its abstraction, a theorem for each of its safety properties and for the abstraction: done;
2. controller and its theorems: done;
3. caches and directory, their abstraction, a theorem for each of their safety properties and for the abstraction: done;
4. devices and configuration engine, the abstraction of a device, two theorems of the devices and six of the engine: done;
5. packet network with its governor, its abstraction, a theorem for each of its safety properties and for the abstraction: done;
6. bus and simple network, the same abstraction, theorems for it and for `OneAtATime`: done;
7. left: stack allocator of the concurrency manager (`concurrency_manager.cpp:349-374`), simple
   cache, timer and interrupt generator, second simulation after a reset.

Every safety property that a passing run checks has a theorem, some under the hypotheses of section 8.

## 3 The concurrency manager

### Correspondence

An action is what a handler does between two waits. `pc[p]` says where processor `p` is:

- `"run"`: it executes emulated code, or idles in the idle loop;
- `"blocked"`: its handler waits in `SysCLock::lock`, `Resume` is its way through;
- `"choose"`: it waits in `findReadyThread` for its own processor, `Chosen` goes on;
- `"attempt"`: it waits in `findReadyThread` as called from `attemptScheduling`, `AttemptNext` visits
  the next idle processor, `Attempted` and `WaitCondResumed` are the rest of the handlers.

`Invoke` is a call that finds `schedLock` free, `Wait` one that does not, `Unlocked` a call that takes
no lock (the setters of attributes and the destroys). Names of variables and operators are those
of the code: `runThread`, `readyQueue`, `joining`, `LockMutex`, `SignalCond`. `issue` is the exception
that stops the simulation. Assertions that exist in the debug build only are not guards; they are
invariants.

The calls come from a set `Calls` that the instance chooses. With `Disciplined` the program respects
POSIX as far as it can tell (unlocks what it owns, destroys what nobody uses, joins a thread once); without it
the program may break the rules. Calls on thread identifiers never created are excluded. A
`default` attribute is zero and hence not preemptive; the fields of an attribute on the heap are
not initialised by the constructor, so a new one holds any value of `AttrValues`.

### Runs

| Run | Instance | What it shows |
|---|---|---|
| `CM_refine` | 2 processors, 3 threads, 1 mutex, 1 semaphore, 1 condition, all made and destroyed by the program; every call | types; handlers exclude each other and give `schedLock` up; no thread is lost; mutexes and semaphores stay coherent (`ObjectsCoherent`); conditions know their mutex; whoever waits to join waits for somebody alive (part of `ThreadInOnePlace`); no silent hang; no legal call refused; only owners release; the manager implements `PthreadSync` |
| `CM_prio` | the same threads, 1 mutex that may be recursive, two attributes with priorities, deadline, preemption, changed at any time; trylock and `joinAll` | owners can release; no processor idles while a thread is ready |
| `CM_live` | 3 threads, 1 mutex, fairness | handlers end, ready threads run, waiters for a mutex get it |

*Why these bounds are enough.* The handlers treat processors and threads alike; what matters is that
there can be one more thread than processors (a ready queue with somebody in it), two threads in
one waiting list (order, broadcast), a handler that waits while another one is inside, and an idle
processor beside a busy one. Two processors and three threads have all of these. One object of a kind suffices where calls name one object; conditions with two
mutexes are in section 9. `PrioMax = 1` gives two priorities and the deadline queue. `RecMax`,
the depth of recursive locks, is 1 where recursion matters, `SemMax`, the greatest credit, is 1.
`NoIdleWhileReady` is stated for programs without `join`: `exitThread` makes the joiners ready and
schedules on its own processor only, so that after it a processor may idle beside a ready thread.
(`joinAll` never wakes anybody, section 9.)

Programs that break the rules of POSIX (`Disciplined = FALSE`) have no run: what is claimed of them, `HandlersExclude`,
`TypeOK`, `ObjectsCoherent` and `CondKnowsMutex`, is proved for every program in section 8.

### Fairness

`Kernel`: weak fairness of `Step(p)`, because SystemC runs every process whose wait is over, and
strong fairness of `Resume(p)`, because it wakes those that wait for `awakeEvent` in the order of
their arrival, so that none finds the lock taken for ever. `Program`: strong fairness of the
unlock and exit calls. It is a hypothesis on the emulated program, without which nobody can be
promised a mutex.

### The abstract specification

`PthreadSync` has owners, depths and queues of waiters of mutexes, credits, sleepers of
conditions with the mutex they gave up, joiners, and the set of objects in use. A mutex is handed
over in the order of the queue, a signal moves a sleeper to its mutex. The refinement mapping takes
the fields of the emulated objects; a thread in the middle of `waitCond` that has released its
mutex counts as asleep already, and one in the middle of `join` as joining. Preemption, ready
queues and `schedLock` all map to stuttering: where and when threads are scheduled has no effect on
who gets what.

## 4 The controller

### Correspondence

Two threads, `User` (the console) and `Sim`, each with a `pc`. `ProcessEvent` destroys the current
state, `Construct` makes the new one; in between `machine = "none"` and every event is discarded.
`reset_mutex` has an owner and follows the constructor and destructor of `Reset_st` and the scopes
in the simulation engine. The console's `Run`, `Pause`, `Stop` go through the same handshakes as the
code (`AwaitStart`, `LeaveReset`, `NotifyPause`, `AwaitEnd`), the simulation through
`Elaborate`, `Prepare`, `Initialised`, `CheckStatus`, `Simulate` and the kernel's flags (`forced_stop`,
`started`, `in_control` in the patched SystemC). `Elapse`, `Breakpoint`, `ModelStops`, `ModelFails`
and `Exhausted` are what a model may do at any moment. `pause_mutex` is left out: it is held only
within steps in which the other thread has nothing to do. Spurious wake-ups, the non-interactive
mode, clocks and `reset_controller` are not modelled.

The model is finite as it is: no constant bounds it.

### Runs

`Controller`: `ResetIsLeft`, `PausedIsQuiet`, `StopMeansStopped`, and under fairness `RunReturns` and
`PauseTakesEffect`. It does not look for deadlocks: a simulation may end or fail, after which nothing
has to happen, and a stop can hang, when the simulation sleeps or when it has ended too soon (section 9).
`Controller_v_asleep`: see section 9.

*Fairness.* Weak fairness of each thread's own steps, which the operating system's scheduler and the
SystemC kernel give. None for `Command`, since nobody has to type one, and none for `ModelStep`,
since a model may go on for ever.

## 5 The coherent caches

### Correspondence

Every processor has a thread, and every thread executes its cache, the directory and
`dir_transport` of other caches. `running` is the thread that has not waited yet: SystemC is
cooperative, so until it waits (an action that sets `running' = NULL`) only this thread has steps.
That lets the model have an action for each idea (`Serve`, `Grant`, `SendWaiting`, `Deliver`, `Evict`,
`Use`, ...) without letting others in where the code does not.

`Directory` has the queue, the privileges and the list of caches that must be told; `CoherentCache`
has the accesses and the messages. `system` fixes the interconnect and the policy of every cache at
the start. With `ordered` the transfers are served in the order of the requests, and those of one
tag that share an event are woken at the same instant, as in `BusLT`; without it they end in any
order, as on a network. A transfer reads or writes memory at one instant and memory is zero at
first. `transport_dbg` does not set the busy flags, and while the directory protects it until the privilege
is granted, what it does then is in steps of its own: `DebugAsk` and `DebugLoad` for a block that is not cached
(`CoherentCacheLT.hpp:703`), `DebugRead`, or `DebugWrite` and `DebugStore` (`726`). The transfers take no time, but they
wait in `lock` of the bus (`BusLT.hpp:400`) or of the switches (`SwitchLT.hpp:245`, `274`) whenever these are busy,
perhaps with what others than the caches want; on a network the data of a read wait once more on their way back. Other
caches run meanwhile. `DebugData` is the block the pointer of the access shows: that of the cache, the one it
has lost, or its copy of the one in memory. `Tag` is computed from the address as `GET_TAG` does, from the high bits. `Evict` takes any
block of the tag, which covers RANDOM, LRU and FIFO.

Not modelled: accesses that span blocks, the scratchpad, uncached addresses, latencies and
statistics, `EXPLICIT_REMOVE` (commented out in `protocolUtils.hpp`), exceptions.

### Runs

| Run | Instance | What it shows |
|---|---|---|
| `Cache` | 2 caches of one way, 2 blocks under one tag, 2 words, 2 values; network with write-back, bus with the write-through policies; debug reads, and debug writes that are `Undisturbed` | exclusive blocks are alone and copies agree, the directory knows all copies, and the whole implements `AtomicMemory` |
| `Cache_live` | 3 caches, 1 block of 1 word, 1 value; bus with all three policies at once; reads, writes and debug writes at any moment | a cache is never used while `dir_transport` is in it, and every access ends |

*Why these bounds are enough.* Blocks of different tags do not interact but in the interconnect, and
of the blocks under one tag all but the one accessed matter only as something to evict: the second
block is there for this, one way makes every second access evict. Two values tell the last write
from an older one; with two words a write must leave the other word as it is, the one a stale block
would go over. Two caches show exclusive and shared copies; three, in `Cache_live`, make one
request wait in the directory's queue behind another and a write invalidate two copies in
sequence. `FewAccesses` has the reads, writes, debug reads and debug writes of block 0, with one value for each
kind of write to its first word and one for its second, and of block 1 the read that evicts. `Cache_live` needs
no values. It is on the bus, where transfers wait for each other: on a network they end in any order and the access
that is waited for has one reason less to wait. A debug write waits wherever a debug read does. All safety
properties are proved for any number of caches, `CopiesAgree` and `ImplementsMemory` with write-back (section 8).

*What is left out of `Cache`.* Its specification is `UndisturbedSpec`: while a debug write is under way nobody else has
to do with its block. Without this `CopiesAgree` and `ImplementsMemory` are violated, which is a fault of the code that
section 9 describes. Debug reads and writes of other blocks are not restricted, nor is anything
in `Cache_live` and in the theorems on types, on what the directory knows and on who is inside a cache.

*Policies and interconnects.* Write-through is checked on the bus only. The cache releases `busyBus`
before it writes a word through (`CoherentCacheLT.hpp:515-516` and `563-565`), so that on an
interconnect that may overtake, two such writes can reach memory in the wrong order: coherence with
write-through rests on the order of `BusLT`, and on a network write-back is the policy that is
modelled.

*Fairness.* Strong fairness of each `Step(c)`: the kernel executes every thread that can run, but while
another thread is running this one has no step, so weak fairness would say nothing. Every
transfer takes a finite time.

### The abstract specification

`AtomicMemory` has a store and clients; an access is called, takes effect on the whole store at one
instant, and returns. A read may look more than once and returns what it saw last, which is one instant too. `Contents(b)` is the store seen through the caches: the block that is being
evicted, else any copy, else memory. An access takes effect when it uses its block, but for two. A debug read that was overtaken
by an invalidation takes effect when its block leaves, one that loads its block from memory when it asks
the interconnect (`Seen` is what it would return from then on). A debug write takes effect where `Contents` has the block: on a hit when the
block in the cache changes, on a miss when memory does.

## 6 The configuration engine and its devices

### Correspondence

`AllocationTable` has the algorithms as operators on rectangles: `Cut` and `FreeAfterAdd` (the loop of
`add`), `Merge` (`merge`, whose recursion ends when a pass joins nothing: one `Pass` for each block is as
many as there can be), `Blended`, `Grew` and `Largest` (the three parts of `max_blocks`) and
`AllocationFit`. The four cases of `Confining` and of `Adjacent` are the four `if`s of the code; its
twelve formulas for the block that spans two are two here, one for each direction. `EFPGA` is one device
with its commands.

In `ConfigEngine` an action is what a thread does between two waits, and `pc[t]` is the wait:

- `"queued"`: in `configLock`; `"turn"`, `"victim"`, `"removal"`: in `execLock`, to execute, to evict, to remove;
- `"request"`, `"evicting"`, `"configuring"`, `"launching"`, `"running"`, `"removing"`: a delay
  (`requestDelay`, `removeDelay`, `configDelay` and the bitstream, `execDelay`, the latency of the function);
- `"calling"`: it has chosen its call; `"idle"`: between two calls.

Commands to a device do not wait, except R0, and belong to the action that sends them. `locks` has
`executing` and the FIFOs; a thread in a FIFO waits, one that has left it and has not run yet
holds the lock, as in `execUnlock`. `Firsts` and `FirstFree` are what `removeList` and `getAddressList` have
in front; RANDOM is any. An exception ends the simulation (`error`), nobody catches it.

### Runs

| Run | Instance | What it shows |
|---|---|---|
| `EFPGA` | 3 x 3 cells, 4 functions of 1x1, 2x1, 1x3, 2x2 | every cell is in one block (`FreeIsExact`), and the device implements `Fabric` |
| `ConfigEngine` | 3 threads with 2 calls each, 2 devices of 2 cells, a function of one cell and one of two, FIFO, LRU and RANDOM | the locks have one holder; what is executed is mapped; the tables agree; a reused function is there once; only programs with manual removals meet exceptions; somebody can always go on |

*Why these bounds are enough.* On nine cells four functions leave free space that is cut on all four
sides, merged in both directions, and of which some overlapping blocks can be made. In `ConfigEngine`
the geometry is kept small because `EFPGA` checks it: two cells are enough for a function that needs
another one evicted and one that needs two. Two devices make the search choose. The three threads have
different calls so that each pair that can race is there (two that configure, configure and
execute, execute and remove by address and by name, `executeForce` and all of them): thread 1 forces,
thread 2 configures with reuse and executes by name, thread 3 configures without reuse, executes by address and
removes. Two calls each: a call and a later one that finds what the first has left. `MaxAddress`, the
number of configurations, is 6, as many as six calls can make without a retry; `Place` is bounded by it.

*Fairness.* None is stated: `SomeoneGoesOn` and the search for deadlocks say that the threads
never all wait, in every state. That each call returns is not claimed; a program that removes
without end what `executeForce` configures keeps it from ever executing. That it executes what it has configured
before somebody removes it, which its documentation promises, does not hold (section 9).

`Fabric` has the cells of each function and the answer of the last command: a function is mapped
to a free rectangle of its size or refused; a removal frees its cells. It may refuse what fits, because
the code does (section 9).

## 7 The interconnects

### The packet network

Everybody works at the same clock edge and reads the links as they were before it, so that an edge is one
action, `Tick`: `packet_queue`, `wire`, `buffer`, `openSessions` all change together. In a module, `rxProcess` and
`txProcess` are two SystemC methods sensitive to the same edge, and which goes first is not defined: `rxFirst` is
the set of modules whose `rxProcess` does. A flit received and forwarded at one edge, or a full
buffer from which a flit leaves at the edge at which another one comes, depend on it. It has no effect on
slaves, whose `rxProcess` leaves the queue alone, and on masters only when an answer arrives.

`b_transport` of a master is `Begin`, `Retry` and `Return`; `Timeout` is the thread that `sc_spawn` starts for each session,
at any moment at which its session is the last and has an event (timers of earlier sessions find them marked
already, or gone). `Start` and `Served` are `launchTLMRead` and `launchTLMWrite` with `lockTLM`, `unlockTLM` and `b_t2`;
the memory takes any time. Threads that can go on do so before the next edge (`Settled`).

A request has a number instead of a pointer: `payload` is the call it belongs to, 0 for `NULL`. The
contents of the payload are `command` and `address`, and `address` is what `b_t2` changes. HEAD, BODY and TAIL are
treated alike by the code, and are one kind here. The route of a flit is its table `Route`; forced routes and
changes of routes are not modelled. `Govern` takes a slot from a port that may be decreased and gives it to
one that dropped flits or has none; the thresholds, which decide whether it does, are left open. It acts between two edges. In
the code it is a method sensitive to the clock too, and may come between `rxProcess` and `txProcess` of a switch; a port it
takes a slot from then has a free one either way, so that `NeverOverfull` does not depend on it.

| Run | Instance | What it shows |
|---|---|---|
| `Noc` | 2 masters that write or read the same address, one with two data flits, one with one; one slave, one switch of three ports with buffers of one slot; one call and two sessions each | no packet outlives its call, buffers stay within their sizes, calls end, and the network implements `RemoteMemory` |
| `Noc_v_address` | 1 master that writes, 2 slaves | section 9 |

*Why these bounds are enough.* Two masters that send to one slave meet at the switch's way out, and
with buffers of one slot drop each other's flits; a request of four flits can lose any of them, and its
answer too. Two sessions are a call and its retry, with requests and answers of the first one still under way
when the second one is opened. The governor can leave a port without a slot. A second switch would make ways
longer and add no kind of step: all four properties are proved for any network (section 8), `NothingOutlives` and `ImplementsCalls` for slaves that are `Separate`. `MaxSessions` also bounds `Timeout`, so that the last session
of an instance does not time out; `CallsEnd` excepts a call whose last session has lost a flit.

*Why there is one slave.* Both masters write and read one address: memory shows which of them wrote last, so that an access
performed after its call has returned or for the wrong call changes what the other one has written, and a read
that returns anything but what the memory had when it was performed is seen. With two slaves at different addresses the divergence of section 9 ends the behaviour.

*Fairness.* None is stated. `CallsEnd` says that the network cannot come to rest with a call unfinished; the number of
steps a call can make is bounded by its sessions, so that it ends if the clock ticks and memories answer. Port 0
of a switch is served before port 1 at every edge (`Switch.cpp:55`), so that a port may wait for as
long as others send: the bound on calls hides this.

`RemoteMemory` is a memory and clients: an access is called, is performed at least once while the call lasts, and
returns. *At least once* is what the code does (`slavePE.cpp:60` has a TODO about it): a request that was
answered too late is performed again, so that a write may overwrite a later write of another master.

### The bus and the simple network

`Interconnect` has both: `system` is `"bus"` or a topology, and `medium` the members of the bus or of each
switch. The two `lock` and the two `unlock` have the same text, so there is one `Ask` and one `Unlock`; they
differ in the event a request waits for (`Ticket`): that of its master on the bus, the next of
`MaxQueue` at a switch. `pc[m]` is where the thread of master `m` waits:

- `"waits"`: in `lock`; `"woken"`: notified, and not yet run (`Resume`);
- `"crosses"`: for the latency, holding the bus or a switch (`Cross`);
- `"works"`, `"answered"`: in the slave, before and after the access (`Perform`, `Answer`).

`path` is the stack of switches the call is in, since a switch calls the next one and a read comes back
through all of them. The bus keeps its lock while the slave works, a switch only while something crosses
it. `Links` are the links `makeNocMap` makes, `Predecessors` the switches that Dijkstra's algorithm may put before
each switch; the code keeps one of them for each, the model lets each request take any. A wait for a latency takes
any time, none included, so that debug accesses, which do not wait in switches, are among
the behaviours. Not modelled: unmapped addresses (an exception), `addBinding`'s refusals, new
bindings while transfers are under way, a network whose switches do not lock (a parameter of `NocLT`), several transfers of one master on the bus (in `CoherentCache`), statistics.

| Run | Instance | What it shows |
|---|---|---|
| `Interconnect` | 3 masters, 2 slaves of two cells; bus, ring, star, tree, full graph; switches with 2 events | one transfer at a time and no overtaking (`OneAtATime`), all calls end, and each implements `RemoteMemory` |

*Why these bounds are enough.* Three masters: one that has the medium, one that waits and one that comes in
between, or two that wait in order. Five leaves make routes of different lengths in the ring and four levels in the
tree; each route is the only shortest one (a ring of even length would have two). Two events per switch are as many as can wait at once there;
with one, section 9. Two masters use one slave, one to read and one to write; the third master uses the
other slave. The slave they share begins at address 2, so that relative addresses differ from those of the calls.
In the run all slaves ask for the lock of the bus, which is the case the code handles. `OneAtATime` is
proved for any number of masters and slaves (section 8).

*Fairness.* Weak fairness of `Proceed(m)`: SystemC runs a thread that was notified or whose time has come. A
thread that waits for an event has no step, and depends on whoever notifies it.

## 8 Proofs

All theorems hold for all values of the constants that satisfy the named assumptions of the
modules: finite sets of natural numbers for `Procs` and `Threads`, with thread 0 (main) among them,
`NULL` no thread, attribute values of the right type (`Scheduler`); mutexes, semaphores and
conditions with natural identifiers (`ConcurrencyManager`); two different threads (`Controller`); calls,
policies and sizes of the right type, functions no larger than a device (`ConfigEngine`); addresses, ways and positions
that are numbers, `NULL` no cache, no access and no block (`CoherentCache`); links with one writer and one reader each, and a link into an element that carries what is for it (`PacketNoc`);
at least one master, one slave and one event, regions that do not overlap (`Interconnect`). TLC
evaluates all of them in the runs. What else a theorem supposes it states itself, and the tables below say what is lost without it:

| Hypothesis | Meaning | Theorems | Without it |
|---|---|---|---|
| `Disciplined` | the program respects POSIX | `LockAlwaysGivenUp`, `OnlyOwnersRelease` | a program can unlock with two mutexes on one condition, or unlock what it does not own |
| `Lawful` | `Disciplined`, nobody calls `joinAll`, and the program does not both join and preempt | `ThreadsInOnePlace`, `HangsAreReported`, `CallsAreAccepted`, `OwnersCanRelease`, `PthreadsImplemented` | `joinAll` registers its caller nowhere; a joiner that was preempted before its handler went on is queued in the name of the thread that took its place |
| `Unpreemptive` | no attribute preempts | `CallsAreAccepted`, `PthreadsImplemented` | a blocked handler goes on with the wrong thread and refuses its call (section 9) |
| `Once` | no mutex is locked twice by its owner, or nobody broadcasts | `OwnersCanRelease` | a broadcast queues the owner behind itself (section 9) |
| `RecMax = 0` | no mutex is locked twice by its owner | `PthreadsImplemented` | a wait gives up one of several locks, so that a sleeper may own its mutex; a signal then counts its depth up, where `PthreadSync` queues it |
| `NoJoins` | nobody joins | `ReadyIsTaken` | `exitThread` makes all joiners ready and schedules its own processor only |
| `EnoughEvents`, `Locks = Slaves` | a switch has an event for each master but one, and all slaves ask for the lock of the bus | `OneTransferAtATime` | two requests share an event, or a request is let in unlocked (section 9) |
| `WriteBackOnly` | every cache writes back | `CachesAreCoherent`, `CachesImplementMemory` | a word written through is on its way when the cache is free again: whether the copies agree with it depends on the order in which the bus serves, and the case stays with `Cache` |
| `[]Undisturbed` | while a debug write is under way nobody else has to do with its block | `CachesAreCoherent`, `CachesImplementMemory` | another cache loads the block while the debug write waits for the interconnect and keeps it as it was, or a stale block goes over what it has written (section 9) |
| `[]EmptyTakes` | while no function is mapped, each finds space on some device | `NothingElseThrows` | an empty device in pieces refuses a function it could hold, and the call throws that it is too big (section 9) |
| `Connected` | from every switch a link leads closer to each slave | `CallsAreCarriedOut` | a request would stop at a switch that is not its slave's |
| `Separate` | no address is that of two slaves, nor, made relative to the slave it belongs to, that of another | `PayloadsAlive`, `AddressesRestored`, `CallsImplementMemory` | a retry that reads the address while the memory works goes to another slave (section 9, `Noc_v_address`) |

`CM_refine` satisfies `Lawful`, `Unpreemptive`, `RecMax = 0` and so `Once`. `CM_prio`, which checks `OwnerCanRelease` and `NoIdleWhileReady`,
calls `joinAll` and preempts, so that it shows more than the theorems for its one instance (no two threads can join one thread
there, since `joinAll` never comes back), and they more for all others. `Connected` is about what `makeNocMap` and
`updateMaps` compute; the model has their results as a recursive function over the graph, which is why it is a hypothesis:
`MCInterconnect` has TLC evaluate it for the networks of the run. `Separate` is what a platform must keep to because of the
divergence of `Noc_v_address`: each address, made relative to the slave it belongs to, is that slave's own or nobody's. Slaves that all start above the size of the largest
satisfy it (no relative address is then an address of anybody, and a retry that reads one throws), and so does a slave alone at 0, as in `Noc`; a slave that starts at 0
next to others does not, since address 0 relative to any of the others is its own. `EmptyTakes` is about the states
a device can come to, not about a constant: in `ConfigEngine`, on devices of one by two cells, it holds, and so no call there is
told that its function is too big.

**`ConcurrencyManager_proofs`.** `Invariance`: `Spec => []IInv` with

    IInv == TypeOK /\ HandlersExclude /\ HandlersHaveThread

`TypeOK` alone is not inductive: a handler that goes on after a wait stores `runThread[p]` or
`curThread[p]` in queues and as owner of objects, which is a thread only if the processor *has* one.
That is `HandlersHaveThread`: a blocked handler and one that falls asleep on a condition still have a
thread on their processor, and one in `choose` remembers whose processor it gave up. It holds because
a processor loses its thread only to its own handler or by preemption, which puts another one in
its place; the second case is the cause of what section 9 says of the preemption of a waiting handler: the processor has a thread, but not the one
that called. `HandlersExclude` is needed because a handler that goes on after a wait writes
back what it read before. From `Invariance`:

- `TypeCorrect` (`TypeOK`), `Exclusion` (`HandlersExclude`);
- `CreditIsTaken` (`NoIdleCredit`): with `IInv`, each action on semaphores leaves credit or waiters;
- `MutexesCoherent` (`MutexCoherent`): free iff not owned, and then nobody waits and the depth is 0;
- `ObjectsStayCoherent` (`ObjectsCoherent`): both together;
- `ConditionsKnowMutex` (`CondKnowsMutex`): the exception of `signalCond` cannot be thrown;
- `LockAlwaysGivenUp` (`SchedLockDiscipline`, for `Disciplined` programs): while no handler is inside,
  `schedLock` is free. The early return of `waitCond` keeps the lock when the condition is bound to another mutex.
  The program waits on a condition with one mutex, but it says so when it *calls*, and the handler reads the
  mutex of the condition after it waited for `schedLock`. The strengthening `WaitsAgree` closes the gap: all
  waits under way on a condition have the same mutex, and the condition names no other.

- `OnlyOwnersRelease` (`OnlyOwnerReleases`, for `Disciplined` programs, an action property): a mutex that is owned stays with its owner unless
  a processor runs the owner. The unlock checks it, the destroy does not, and a create gives an identifier out again: the strengthening
  is that a mutex that does not exist belongs to nobody (`DeadUnowned`). A signal hands the mutex to the sleeper only when it is free,
  which is `MutexCoherent`.

`CreditIsTaken`, `MutexesCoherent` and an extension of `CondKnowsMutex` are each inductive relative to `IInv`. The proofs go handler by handler:
`LockMutex`, `UnLockMutex`, ... have one lemma each that says what they do to types, and the scheduler's
operators (`Readied`, `Pushed`, `DeadlineSorts`) have lemmas about what they return, cited by all.

The second half of the module is `ThreadsInOnePlace` (`ThreadInOnePlace`, for `Lawful` programs). The property counts, for each thread, the
places where it is; the invariant behind it, `ThreadsInv`, does not count. It says that the processors hold the running
threads, one each (`OnProcessors`), the ready queues the ready ones (`InQueues`), and the queues of mutexes, semaphores,
conditions and joins the waiting ones (`AtWaits`). `Holds(Q, T)` says of a family `Q` of queues that no thread is twice in one
or in two of them and that together they have the threads `T`. To say it once for all kinds of waiting, `WaitQueue` is one function from slots
(a kind and an identifier) to queues, with a slot for each processor whose handler has taken a thread off and
not yet put it on the list of joiners (`Hand`). Each handler then changes one or two of these queues (`Appended`, `Popped`, `Cleared`, `Extended`), and puts a thread to sleep, wakes one, or
moves those who wait (`SleepPlaces`, `WakePlaces`, `MovePlaces`). Two more parts are needed: `RestInv`, that who joins waits for somebody else who is
alive, in the list and on the way to it; and `DeadIdle`, that nobody waits for an object that does not exist,
since a create would throw its queue away.

**`ConcurrencyManager_calls`.** On top of the invariants so far, which `Sound` gathers:

- `HangsAreReported` (`NoSilentHang`), from `AnyRuns`: between two handlers some processor has a thread, or nobody is alive. A handler
  that leaves its processor without one has been through `findReadyThread`, which throws when no processor runs, no thread is ready and one is
  alive. That all who are alive are running, ready or waiting is `ThreadsInOnePlace`.
- `ReadyIsTaken` (`NoIdleWhileReady`), from `IdleInv`: a handler in `choose` may leave its own processor idle, one in
  `attempt` those it has still to visit, and nobody else does. It holds for every program without joins, also for those that
  break the rules.
- `CallsAreAccepted` (`NoCallRefused`): the program is permitted a call when it makes it, the handler looks at the objects when it gets
  `schedLock`. `CallsValid` says that what it needs is still so: the object exists, the caller still owns the
  mutex. `MutexesKept` is the reason, that no step of a processor takes from another one's thread what it owns or destroys it.
- `OwnersCanRelease` (`OwnerCanRelease`), from `OwnersInv`: owners are alive (`OwnersLive`), not in the queue of their own mutex
  (`OwnersApart`), and no thread is on its way into a handler in which it would end or lock again while it owns something
  (`BlockedEntitled`, `Entitled`). The hard case are signals, which move sleepers from a condition to
  its mutex: if mutexes are locked once only, a sleeper has given up the mutex and does not own it (`Plain`); if they may be recursive,
  it may, and a signal puts it into the queue only if it does not find the mutex free, and a broadcast puts in all but the first, whoever they
  are. `OwnersInv` was checked by TLC before it was proved; with both, `OwnersApart` is what fails.
- `PthreadsImplemented` (`ImplementsPthreads`): every behaviour of the manager is one of `PthreadSync`, under the mapping of section 3. The
  variables of `PthreadSync` are written out as `Owners`, `Lockers`, `Dozers`, ... , and one lemma for each of its actions (`MapsLock`, `MapsSleep`, ...)
  says what a step must do to them. Then one lemma for each handler (`LockMutexMaps`, `SignalCondMaps`, ...) says which of these it is,
  and `NextMaps` puts them together. It needs all of the above: whoever calls is active in `PthreadSync`, that is, nowhere in a
  queue, which is `ThreadsInOnePlace` (`ActorActive`); calls that were permitted when they were made still are (`Accepted`); a sleeper does not
  own the mutex it is woken for (`Plain`). The cases with substance are those in which the manager takes two steps for one: a wait
  that hands the mutex over and is held up in `attemptScheduling` sleeps in `PthreadSync` from the first one on, and its entry in the queue is then a stutter,
  because nobody else gets past `schedLock` meanwhile (`OneFalls`, `WaitCondResumedMaps`); a join is in the list of `PthreadSync` when it
  gives its processor up (`JoinMaps`), in the manager's only when it goes on (`ChosenMaps`).

**`Controller_proofs`.** `Invariance`: `Spec => []IInv`, where `IInv` says where each thread can be in
each state of the machine: `InReset` (until the machine leaves `Reset`, `User` owns `reset_mutex`, and so
nothing of the simulation has got past it), `Starting`, `Transit` (a transition in progress has exactly
one thread to finish it, which knows where it leads), `Ending`, and `PausedIsQuiet`. From it
`ResetLeft` (`ResetIsLeft`), `PausedQuiet` (`PausedIsQuiet`) and `StopStops` (`StopMeansStopped`, an action
property).

**`ConfigEngine_proofs`.** `SpecIInv`: `Spec => []IInv` with

    IInv == Locked /\ CallTypes /\ TableTypes /\ Configuring /\ Named /\ Single

- `Locked`: each FIFO has no thread twice and only threads that wait for it, and `executing` is what
  the holders hold. The lemmas `Acquire`, `QueueUp` and `Release` say what `ExecLock` and `ExecUnlock` do to
  it, `ToTurn` and `ToExec` what the callers make of that.
- `Configuring`: the same for the configuration lock: it is busy iff one thread is inside `config` or
  `executeForce`, or has been handed the lock. `ConfigFreed` and `ConfigHandedOver` are the two ways out of it.
- `CallTypes`, `TableTypes`: types of what the others speak of; that every mapped address is below
  `ctr`, so that a new one is new, and that the tables agree, is part of `TableTypes`.
- `Named`: whoever has an address has the one of the function it asked for, as long as it is mapped. It is
  needed for `ExecutesMapped`, since a thread in `"turn"` waits while the table changes.
- `Single`: a function that is only reused has one copy, and none while a thread is between its search and
  its insertion. The last is what the configuration lock gives, and what `OneCopyWhenReused`
  alone does not say.

None of the properties is inductive by itself: each speaks of a moment (the execution, the insertion) that
depends on what was true before a wait. The proof has a lemma for each part and splits each into the
actions; what an action leaves alone is in `OnlyItself` and `RoleStep`. From `SpecIInv` follow `LockDisciplineHolds`,
`ExecutesMappedHolds`, `TablesAgreeHolds`, `OneCopyHolds` and `SomeoneGoesOnHolds`. For the last: if all who are inside
a call waited, some would wait for an address; its holder works, or was handed the lock, or waits for nothing; and a thread
in the configuration queue waits for its holder, who is one of these. The geometry of the devices does not
enter, but for their tables of occupied blocks.

`NothingElseThrows` (`OnlyRemovalsThrow`) supposes `[]EmptyTakes`: when no function is mapped, every function finds space. It adds
two invariants. `Removing`: who removes by hand was asked to. `VictimsStay`: in a program without manual removals, the victim
for which a thread waits stays mapped. It does because the thread waits inside the configuration lock (`Configuring`), and without
manual removals only who holds that lock unmaps; nothing in the engine says so, since `removeAddr` takes other locks. The two exceptions that are left
without a race are excluded by `Named` (what is executed is mapped) and `TablesAgree` (the device knows it). The
hypothesis cannot be dropped, although `ConfigEngineAssumption` has every function fit a device: `max_blocks` does not find all the
space that removals leave of an empty one (section 9). The theorems of `EFPGA_proofs` say that what it returns is free, not that it
finds all that is.

**`EFPGA_proofs`.** `AlwaysFreeIsExact` (`FreeIsExact`) and `ImplementsFabric` (`KeepsPromise`) for devices and functions of any
size, from `SizeAssumption` alone (they are not empty). The invariant is

    IInv == what mapped functions occupy are blocks of the device, no two with a common cell, and
            Exact(freeSpace, Device \ CellsTaken)

where `Exact(list, C)` says that the blocks of a list are not empty (`Rects`), that no two overlap, and that together they are the cells `C`.
`FreeIsExact` counts, for each cell, the blocks it is in; it does not say that a block ends where it should,
nor that what is taken lies in the device, and `Cut` of an inverted block would be anything.
What `add` and `remove` do to the list is a chain of lemmas about the operators of `AllocationTable`, each for every list:
the four parts of `Cut` are the free block without what was occupied (`CutExact`), putting parts in place of blocks keeps a list exact
(`FlattenExact`), two blocks with a common side are the cells of their bounds (`BoundsOfTwo`), so that each pass of `merge` and all of them change
no cell (`JoinedExact`, `PassExact`, `MergeExact`). Together: `FreeAfterAddExact`, `FreeAfterRemoveExact`.

For the place of a function, what `max_blocks` returns must be free. `Free(N, C)` are the rectangles whose cells are all
in `C`; two adjacent free rectangles span a free one (`SpanningIn`, `FreeClosed`), so that a pass stays among them (`BlendedType`, for any set `Closed` under
spanning). That the loop ends is proved too: `Largest` covers what the pass covered (`LargestCovers`), a pass that `Grew` covers a rectangle
that nothing covered before (`PassCovers`), and of these there are finitely many (`Uncovered` gets smaller). Without it the
recursive function would say nothing of its own value (`LoopExists`, `MaxBlocksType`). Then `AllocationFit` returns such a block of sufficient size
(`AllocationFitIn`), its upper left corner is free (`OccupiedIn`, `AddedFits`), and each command is a step of `Fabric` or a refusal.

The recursive functions are reasoned about without the library's induction theorems: `IsHistory(h, n, X, base, step)` says that `h` lists
the values of a recursion up to `n`; that there is one such function and no other (`HistoryExists`, `HistoryUnique`) is
proved from the well-foundedness of the numbers, whose least counterexample is taken by `WFMin`.

**`CoherentCache_proofs`.** `NobodyElseInside` (`NobodyInside`) from `CInv == Shape /\ OneServed /\ NobodyBetween /\ Users`.
`busyDir` of a cache is set by a thread that the directory serves, `busyBus` by the cache's own thread once its
request *has been* served, so that it takes the whole protocol of the directory to keep them apart. `OneServed`: at most one
request is served, and those in the queue wait, each once. `NobodyBetween`: a thread that has its privilege and has not
entered its cache yet is the one that runs, and no cache is messaged. `Users`: whose thread has set which flag. It holds
for any policies, interconnects and accesses, debug accesses included: these set no flag.

`NothingForgotten` (`DirectoryKnows`) adds `DInv == Frames /\ Lists /\ Known /\ Progress /\ Occupied`. That caches with a block are in its list is not inductive,
because a write makes its requester the whole list in one step, after all messages. `Known` says it also of those that are about to have
the block or are still storing it on eviction (`Concerned`). `Progress` says that while a request is served, whoever has anything to do with the
block is its requester or still to be messaged (`ToInvalidate`), and what a read has to flush is the one owner (`ToFlush`). `Lists` is needed for the
latter: an exclusive block has a list of one. `Occupied` is why nobody begins to use a cache between its message and its answer.

`CachesAreCoherent` (`CopiesAgree`, with write-back) adds `Coherent`. `Writers`: who writes is alone with its block, which is exclusive or still to be flushed
(`Sole`; a read downgrades the block in the directory before its owner has stored it, and this is the gap). `CurrentIn`: a block that is not `Sole` is in every cache and on
every eviction what memory holds; `CleanIn`: so is a copy that is not dirty. `LoadedBy` and `StoredBy`: a block in transfer is what it must be
when it arrives. An eviction stores the old block after it has left the cache, and the evicting cache remains on the list meanwhile (`Concerned`);
so that a request for the old block messages it, waits for its `busyBus` and finds the memory up to date. `Roles` is about `transport_dbg`: what
it has not found when it asked is not in its cache later. It waits for its transfers (`PendingPlaces`) when the directory serves others already. A
debug write is alone with its block then only because nobody asks for it, which is what `[]Undisturbed` says; its own copy, changed and not
dirty, is the one exception of `CleanIn` until it is stored.

`CachesImplementMemory` (`ImplementsMemory`, with write-back and `[]Undisturbed`) adds `Held`: what an access has and has not got at each of its places,
so that a block that is read or changed is there; and `Modified`: a debug write still has the block it has found, and what it stores otherwise is
what memory has, but for its own word. All that `Contents` could choose from then agrees (`AllAgree`), and is what memory has unless
one cache alone may have the block; what that cache loads is the contents, as nobody else has the block or is storing it (`ContentsInMemory`).
So a message, a fill, an eviction and its store change nothing that `AtomicMemory` sees: they stutter. Accesses take effect at `Use`, `DebugRead`,
`DebugWrite` on a hit and `DebugStore` on a miss. The exceptions are debug reads. One whose block is invalidated between its lookup and its use takes
effect with the invalidation, in the step of another thread (`MessageMaps`). One that waits for its block from memory looks when it asks the interconnect and again in each step that changes
the block there (`Looks`); at these instants memory is the contents, and what the read returns is what it saw last, even if another cache, which
the directory has served since, has changed its copy before the block arrives.

`Cache` satisfies both hypotheses in its system with write-back; what it checks beyond the two theorems is the bus with the write-through policies.

`CachesNeverOverfull` (`TypeOK`) holds for any policies and interconnects. What is not obvious in it is that no tag ever has more
blocks than ways: the thread tests the number, waits for the eviction, and inserts without another test.
`TInv == CInv /\ DInv /\ Typed /\ Placed /\ Room`. `Room`: from the eviction to the insertion
there is one block less than ways, since blocks of other threads enter other caches only. `Placed`: where a block is read, changed or stored
it is still there. For one that is to be stored for another cache (`pc = "store"`) this needs the directory: blocks leave a cache by an answer
or an eviction (`Leaving`), and while a request is served the first is its own (`OneServed`) and the second does not happen (`Occupied`).

`DInv`, `Coherent`, `Held`, `Placed` and `Room` were checked by TLC with the constants of `Cache` before they were proved.

**`PacketNoc_proofs`.** `BuffersNeverOverfull` (`NeverOverfull`) for any topology, routes and sizes. The invariant is the property and that buffers
are queues; the work is in the step: at one edge a flit enters a buffer before or after another one leaves it, as the order of the
two processes of its port has it, and the governor takes a slot only from a port that has one to spare and never gives it to the same port.

`UnfinishedCallsLost` (`CallsEnd`) for any network that satisfies `LinkAssumption`, any sizes of packets and any number of retries. The invariant is

    Types /\ WaitsForSomething

`Types` says what a flit is (`Flit`: between a master and a slave, for a session of the master that has been opened, numbered from the size of its packet down
to 1), and that what enters an element is for it. `WaitsForSomething`: a master that waits has lost a flit of its session, or its packet is at the
slave (`AtSlave`), or each flit of one packet of the session, request or answer, is on its way or has been got (`Travels`). The last two change places when
the last flit arrives: that this is noticed although flits are counted and not looked at (`Complete`) needs `Sized`, that all
of the packet has the size it should have, and that what was got of it is a proper part (`GotPart`, `AllComplete`). The work is that a clock edge loses no flit without
noting it: `QueueMoves` says what becomes of the first packet of a queue, `LineMoves` of what is on a link and in the buffer behind it, for whatever
order the two processes of the modules run in. That two flits never leave a switch by one link, or one link twice, is `TickLines`. At
rest nothing is under way, so that who waits has lost a flit, in its last session (`RestLost`).

`PayloadsAlive` (`NothingOutlives`), `AddressesRestored` (`RightAddress`) and `CallsImplementMemory` (`ImplementsCalls`, the refinement of `RemoteMemory`)
rest on one invariant, `NocInv`, with `Separate`. Why a request of a session that timed out is not left when its call returns is an argument about order, and the invariant is that order:

    Ordered /\ AllBelong /\ AnswersAfter /\ ArrivedBefore /\ SlavesOrdered /\ GotBefore /\ NothingLeft /\ Addressed

`Ordered`: two flits from one element to another are on their way in the order of their sessions and of their numbers, the later one behind on
the same line, or on a link from which the earlier one's is still to come (`After`, the links a route leads through, a set closed under `Route` and not a path,
so that nothing is assumed of routes, loops included), and what is in a queue is later than what has left it. A clock edge keeps it for whatever order the
processes run in: `CameFrom` says where each flit was, `StaysBehind` that who was behind still is. `AllBelong`: what is under way or at a slave belongs to
a call that has not returned, to a session that has an event, and to the slave of the call (`Target`), so that all the requests of a call take one way
and all its answers another. `AnswersAfter`, `ArrivedBefore`, `SlavesOrdered`, `GotBefore`: what has been got came before what is on its way, requests at a
slave are served in the order of their sessions, and before a request is answered there is nothing of an answer to it or to a later one. Hence
`NothingLeft`: when the answer that ends the call has come, whose session is the last one, all else came before it, and nothing is left of the call.
`Addressed`: the shared address is the one asked for but while a slave works on it, and then it is relative to that slave; with `Separate` a retry
that reads it in between goes to the same slave or throws. Drops only take flits away. In the refinement
`Begin` is an invocation, `Served` the access, `Return` the return, and everything else stutters.

**`Interconnect_proofs`.** `OneTransferAtATime` (`OneAtATime`) from `LInv`, which says of each medium (`MediumOK`) that it is busy iff
one master has it, counting the one that was notified and has not run, and that the requests are the events of the masters
that wait, each of its own. On the bus the events are the masters' own. At a switch they are handed out round and round, and the
strengthening is that those who wait have the last ones handed out without a gap: the request `i` places from the end has
the event `i` tickets back (`Back`). With `EnoughEvents` the next one is then nobody's: `FewRequests` is the pigeonhole that
bounds the queue by the masters that do not have the switch. Section 9 shows what happens without either hypothesis.

`CallsAreCarriedOut` (`ImplementsCalls`): bus and network implement `RemoteMemory`. Calls, accesses and returns map to those of the abstract
memory, everything else stutters. The invariant, `RouteInv`, says that a thread whose access is under way in a
network is at the switch of the slave that its address names, that one that answers has performed it, and that the stack of switches has no gap
(`HopsLead`). It needs neither hypothesis of `OneTransferAtATime`: two transfers at once, which section 9 shows, do not send an access astray.

*Only model-checked:* all liveness properties, since liveness under fairness is out of the prover's reach; that no
function is too big for the devices of `ConfigEngine` (no theorem says what `max_blocks` finds, which would be an induction over
its rounds); `CopiesAgree` and `ImplementsMemory` with the write-through policies, for which the invariant would
have to follow the order of the writes on the bus. No module here has a
RECURSIVE operator: recursion is written as recursive functions.

## 9 Where code and documentation disagree

With a run that shows it:

- `Controller_v_asleep` (`simulation_engine.cpp:107`). A pause that arrives between the destruction of
  `Reset_st` and the construction of `Running_st` is discarded and the simulation sleeps all the same:
  the machine says `Running`, and a run of the user, which notifies in `Paused` only, does not wake it.
- `Noc_v_address` (`packetNoc.cpp:75`). While a memory works on a request, the address in the shared
  payload is relative to its slave. A session that times out meanwhile is sent again at once, and the
  master looks the relative address up: the request goes to another slave, or the simulation ends with an
  exception. The comment beside the line that restores the address (`packetNoc.cpp:77`) says that
  retransmission is what it is for.

Without a run among those above, each with the configuration in which TLC finds it:

- A broadcast to a recursive owner (`concurrency_manager.cpp:1266`). On a broadcast every waiter but the first goes into
  the mutex's waiting list, whoever owns it. A thread that locked the mutex twice and waits still owns
  it, and ends queued behind itself. `CM_refine` with `RecMax = 1`, `Premade <- MutexAndCond`, `Sems <- None`,
  `Calls <- WakeCalls` violates `OwnerCanRelease`.
- Preemption of a waiting handler (`concurrency_manager.cpp:216`). `preemptLowerPrio` replaces the thread of a processor
  whose handler waits for `schedLock`. The handler goes on with the wrong thread, and for example refuses
  the rightful owner's unlock with an exception. `CM_prio` with `RecMax = 0`, `Threads <- Four`,
  `AttrValues <- PreemptValues`, `Calls <- PairCalls` violates `NoCallRefused`.
- `joinAll` by the last thread (`concurrency_manager.cpp:845`). It puts the caller on its own list of joiners, so
  it sleeps for ever even when nobody else is alive, against `concurrency_syscalls.hpp:885`. `CM_refine` with `Mutexes`,
  `Sems` and `Conds <- None` and `Calls <- AllJoins` violates `LastThreadRuns`.
- A debug write that is disturbed (`CoherentCacheLT.hpp:703`, `726`). The comment on `transport_dbg` (`588`) says that there is "no
  time concept" in it, and `doc/Manual/general.tex:12` that the directory is there "to assign unique privileges to
  concurrent cache systems". But its transfers wait in `lock` of the bus (`BusLT.hpp:400`) or of a switch (`SwitchLT.hpp:245`, `274`) after
  the directory has given the privilege and has let the next request in. On a hit the block is changed in the cache and does not
  become dirty; another cache that asks for it while the write waits makes the directory flush a clean block, which stores nothing,
  and loads the old memory. On a miss another cache can load the block between the read of the memory and the write.
  Either way the two copies differ from then on, although the debug write has returned. The pointer to the block is also
  kept while the request waits at the directory (`667`): if the block was invalidated meanwhile, the old block goes to memory as a whole,
  over the words that another cache has written. `Cache` with `SPECIFICATION Spec` in place of `UndisturbedSpec` and
  `Systems <- OnNoC`, or `OnBus`, violates `CopiesAgree`, and without this invariant `ImplementsMemory`. (A stale *read* is harmless: it takes effect at the
  invalidation.) This is the hypothesis `[]Undisturbed` of section 8. `Undisturbed` is not something the code
  sees to: a platform has it if the emulated operating system writes only memory that no other processor has to do with at the time.
- An empty device that refuses (`allocationFit.cpp:70`). `eFPGAAllocationTable.hpp:102-105` has -1 returned "if the
  allocation is not feasible". Removals can leave the free blocks of an empty device in a pinwheel, four dominoes around
  one cell: no two share a whole side, so that `merge` joins none of them, and the search for larger blocks puts
  adjacent ones together but never overlapping ones, so that it does not find the whole. The device then refuses a
  function as large as itself. `EFPGA` with five keys and `Shapes <- Dominoes` violates `EmptyTakesAll`.

- A stop that is not heard (`controller.cpp:279`, `288`). `stop_simulation` calls `sc_stop`, takes its event to the machine and then waits for `end_condition`
  without a predicate; the TODO at its test says that it "may cause a deadlock". The simulation may see the stop and notify before the wait
  begins, and the console waits for ever. `Controller` with the invariant `EndIsHeard` violates it.
- A function that is removed before it is executed (`configEngine.cpp:468`). `configEngine.hpp:179-180` says of `executeForce` that "it is
  guaranteed that the (potentially) configured function is executed at least one time before it is removed from the
  fabric". `config` gives the lock of the new address up before `executeForce` asks for it. A removal by hand that came
  during the configuration waits for this lock, gets it and unmaps the function; `executeForce`, which queues behind it,
  finds it gone and configures another. `ConfigEngine` with the invariant `ConfiguredIsExecuted` violates it.
- Regions of the bus that do not lock (`BusLT.hpp:320`). `decode` writes the member `locking` of the bus when a
  request comes, and `lock` and `unlock` use it whenever they run. A request to a region that does not lock, coming while
  others wait, makes `unlock` set the bus free for the one it notifies, and makes that one not take it: two transfers
  to locked regions overlap, against the comment in `BusLT.hpp:158-161` ("when it becomes free it goes on (and sets the bus
  to busy)"). `Interconnect` with `Locks <- LastLocked` violates `OneAtATime`.
- More requests at a switch than it has events (`SwitchLT.hpp:182`). Two requests then wait for the same event,
  and are both inside when it is notified; the default of the constructor is a maximum of 100 (`SwitchLT.hpp:143`).
  `Interconnect` with `MaxQueue = 1` violates `OneAtATime`.

Read in the code, without a run:

- `waitCond` with a mutex other than the one of the waiters returns -1 without giving `schedLock` up
  (`concurrency_manager.cpp:1313`). The model has the same; `SchedLockDiscipline` is proved
  for programs that wait on a condition with one mutex (section 8) and fails for others.
- A thread with a deadline that `unLockMutex` and the others wake is pushed in the queue of its
  priority, which is 0 (`concurrency_manager.cpp:1030`), although `concurrency_manager.hpp:247-250`
  has the last queue for them; and a queue is not sorted again when a deadline changes
  (`concurrency_manager.cpp:738`). The deadline queue is hence not one to state an order of.
- A timed wait never expires (`concurrency_manager.cpp:1298`; the code for it is commented out at
  `1339-1358`), against `concurrency_syscalls.hpp:1187-1188`. In the model it is a wait.
- `manualRemove` by address throws when no function is mapped (`configEngine.cpp:480-485`) and when
  another removal has been faster (`508-513`, after it has released the lock of address 0, which nobody holds and
  which is the end of a list, and kept its own), although `configEngine.hpp:185` has it return FALSE "if the address is empty or some error
  happens"; by name the second case is handled (`577`). `config` throws in the same way when its victim is
  removed by hand while it waits (`243`). In the model these are the three exceptions that `OnlyRemovalsThrow` permits: the first
  needs no race, only a removal while nothing is mapped.
- A session that timed out keeps its entry in `endTransm` for ever (`masterPE.cpp:65-68` erases the last one of a call),
  and its number comes round to another master after 1000 sessions (`masterPE.cpp:285`, with a TODO).
- The thresholds of the governor are unsigned and `threshold -= red_factor` (`packetNocGovernor.cpp:88`) wraps
  below zero, past the comparison with the minimum; `addDestination` and `modifyDestination` write
  `invPortTo` at the number of an element instead of a port (`Switch.cpp:157`, `164`).
- `GET_TAG` takes the high bits of the address, so consecutive blocks share a tag and the number
  of blocks a cache holds is not bounded by its size; a fully associative cache never evicts.
- The express star passes one edge more to the graph than it has written (`NocLT.hpp:205-216`, `252`); a tree over six leaves
  has eleven links and its arrays room for ten (`NocLT.hpp:244`); `transport_dbg` of a switch returns no value
  (`SwitchLT.hpp:242-283`). The model has the links that are written.
- A condition whose mutex is statically initialised stores its own identifier where that of the mutex
  belongs (`concurrency_syscalls.hpp:1144`); the return value of a join is never written
  (`concurrency_manager.cpp:821`); the setters of priorities do not check the range that indexes the
  ready queues (`concurrency_manager.cpp:213`); a stop from `Paused` counts the elapsed time twice
  (`sc_state_machine.cpp:155`); a stop between `initialize` and `simulate` runs the end-of-simulation
  callbacks in both threads (`sc_simcontext.cpp:833`). The data they concern is not modelled.

## 10 What is not covered

- Manager: where stacks are placed, thread-local data and keys, interrupt service routines, `reset()`,
  returned values other than exceptions, time-outs.
- Controller: several console threads, non-interactive mode, a second simulation.
- Caches: the list at the end of *Correspondence* in section 5; several threads on one cache.
- Configuration engine: the wrap-around of `ctr` and `delUtil` at 2^32 (natural numbers here, a configuration
  each), binding devices to addresses, errors of the bus while the bitstream is copied, status printouts.
- Packet network: the debug transport, reading the description and computing routes, forced and changed routes (a packet
  without a route throws), `initialize` of the governor, which may make a buffer smaller than what it holds, more
  than 1000 sessions of a master, statistics.
- Bus and simple network: the list at the end of their description in section 7.
- The map covers a small share of the lines of the repository: nearly all of these are generated
  processors, vendored libraries and benchmark programs (`src/components/processors`, `src/software`, `src/lib`), which
  have no protocol of their own to model. What is left of the simulator's own code is listed in section 1.
- TLC explores all behaviours of the instances and no larger one; only the theorems of section 8 are
  independent of the size.
- Components of section 1 marked planned or no, for the reasons `PROJECT.json` gives.
