----------------------------- MODULE Interconnect -----------------------------
(***************************************************************************)
(* The two ways to connect masters to slaves at one instant per hop: the   *)
(* bus (BusLT.hpp) and the simple network (NocLT.hpp), whose switches      *)
(* (SwitchLT.hpp) form a ring, a star, a tree or a full graph.             *)
(*                                                                         *)
(* Both have lock() and unlock() of their own, with the same text.  A bus   *)
(* is locked while the slave works; a switch while a request, or the data  *)
(* of a read on the way back, crosses it.  Between two waits of SystemC    *)
(* nobody else runs, hence each action here goes from one wait to the next. *)
(* A wait for a time takes any time, so that a debug access, which differs *)
(* from another one in waiting for no time, takes part as one of them.     *)
(***************************************************************************)
EXTENDS Integers, Sequences, FiniteSets, SequencesExt, FiniteSetsExt

CONSTANTS
    NumMasters, NumSlaves,
    Systems,        \* what may connect them: "bus" or a topology of the network
    Start, End,     \* the addresses of each slave
    Locks,          \* the slaves for which the bus is to be locked (addBinding)
    MaxQueue,       \* the events of a switch
    Commands        \* accesses each master may ask for: op and address

Masters   == 1 .. NumMasters
Slaves    == NumMasters + 1 .. NumMasters + NumSlaves
Leaves    == NumMasters + NumSlaves
Addresses == UNION { Start[s] .. End[s] : s \in Slaves }

\* addBinding refuses overlapping slaves, callers ask for mapped addresses, and
\* somebody has something to ask.
ASSUME InterconnectAssumption ==
    /\ NumMasters \in Nat \ {0} /\ NumSlaves \in Nat \ {0} /\ MaxQueue \in Nat \ {0}
    /\ Systems \subseteq {"bus", "ring", "star", "full", "tree"} /\ Locks \subseteq Slaves
    /\ \A s \in Slaves : Start[s] \in Nat /\ End[s] \in Nat
    /\ \A s, r \in Slaves : s # r => (Start[s] .. End[s]) \cap (Start[r] .. End[r]) = {}
    /\ \A m \in Masters : Commands[m] \subseteq [op : {"read", "write"}, address : Addresses]
    /\ \E m \in Masters : Commands[m] # {}

VARIABLES
    system,     \* what connects them
    command,    \* the access each master asks for
    pc,         \* how far its thread is
    path,       \* the media it is in: the bus, or the switches on its stack
    event,      \* the event for which it waits in lock()
    medium,     \* the members of the bus and of each switch
    performed,  \* whether the slave has performed the access
    cells,      \* who wrote each cell of each slave last
    data        \* what the last read of each master has found

vars == <<system, command, pc, path, event, medium, performed, cells, data>>

-----------------------------------------------------------------------------
(* Topology and routes *)

Bus == 0

\* A level of switches, and above it one for every two of them.
TreeLinks[first \in Nat, last \in Nat] ==
    IF first = last THEN {}
    ELSE LET Above(i) == last + 1 + (i - first) \div 2
         IN  { {i, Above(i)} : i \in first .. last } \cup TreeLinks[last + 1, Above(last)]

Links(topology) ==
    CASE topology = "ring" -> { {i, (i % Leaves) + 1} : i \in 1 .. Leaves }
      [] topology = "star" -> { {i, Leaves + 1} : i \in 1 .. Leaves }
      [] topology = "full" -> kSubset(2, 1 .. Leaves)
      [] topology = "tree" -> TreeLinks[1, Leaves]

Switches(topology) == UNION Links(topology)

\* The switches that are at most n links away from s.
Ball(topology, s) ==
    LET Around(b) == b \cup { w \in Switches(topology) : \E v \in b : {v, w} \in Links(topology) }
        B[n \in Nat] == IF n = 0 THEN {s} ELSE Around(B[n - 1])
    IN  B

Distance(topology, w, s) ==
    CHOOSE n \in 0 .. Cardinality(Switches(topology)) :
        w \in Ball(topology, s)[n] /\ (n > 0 => w \notin Ball(topology, s)[n - 1])

\* updateMaps: the switches that may precede each switch among the shortest paths from s.
Predecessors ==
    [topology \in Systems \ {"bus"} |-> [s \in Slaves |-> [w \in Switches(topology) |->
        { v \in Switches(topology) : {v, w} \in Links(topology)
              /\ Distance(topology, v, s) < Distance(topology, w, s) }]]]

\* From every switch but the slave's own a link leads closer to the slave.
Connected ==
    \A t \in Systems \ {"bus"} :
        /\ Masters \subseteq Switches(t)
        /\ \A s \in Slaves : \A w \in Switches(t) \ {s} : Predecessors[t][s][w] # {}

SlaveAt(a) == CHOOSE s \in Slaves : a \in Start[s] .. End[s]

\* Variant: every switch with a slave delivers to it.
HopsEarly(w, a) == IF w \in Slaves THEN {} ELSE Predecessors[system][SlaveAt(a)][w]

\* Where a request goes from switch w, unless the slave is behind w.
Hops(w, a) == IF w = SlaveAt(a) THEN {} ELSE Predecessors[system][SlaveAt(a)][w]

-----------------------------------------------------------------------------
(* lock() and unlock() *)

\* A request waits for the event of its master (bus) or of the next ticket (switch).
Ticket(m, w, l) == IF w = Bus THEN m ELSE l.ticket

Ask(m, w, l) ==
    [l EXCEPT !.ticket   = IF w = Bus THEN @ ELSE (@ + 1) % MaxQueue,
              !.requests = IF l.busy THEN Append(@, Ticket(m, w, l)) ELSE @,
              !.busy     = @ \/ l.locking]

\* Variant: it is free until who is notified runs.
UnlockFree(l) ==
    [l EXCEPT !.busy = FALSE, !.requests = IF @ = <<>> THEN @ ELSE Tail(@)]

\* Variant: nobody is notified.
UnlockSilent(l) == [l EXCEPT !.busy = FALSE]

Unlock(l) ==
    IF l.requests = <<>> THEN [l EXCEPT !.busy = FALSE]
    ELSE [l EXCEPT !.busy = l.locking, !.requests = Tail(@)]

Top(m) == Last(path[m])

At(m, w) == path[m] # <<>> /\ Top(m) = w

\* Everyone who waits for the event in front.
Notified(w) ==
    { u \in Masters : At(u, w) /\ pc[u] = "waits" /\ medium[w].requests # <<>>
                      /\ event[u] = Head(medium[w].requests) }

\* What a thread does once it has the medium: the bus forwards at once.
Has(w) == IF w = Bus THEN "works" ELSE "crosses"

\* The thread of m, with stack p, calls lock() of w, after what has left pcs and
\* media behind.
Enters(m, w, p, pcs, media) ==
    /\ path'   = [path EXCEPT ![m] = p]
    /\ medium' = [media EXCEPT ![w] = Ask(m, w, @)]
    /\ pc'     = [pcs EXCEPT ![m] = IF media[w].busy THEN "waits" ELSE Has(w)]
    /\ event'  = [event EXCEPT ![m] = IF media[w].busy THEN Ticket(m, w, media[w]) ELSE 0]

Returns(m, pcs) ==
    /\ path' = [path EXCEPT ![m] = <<>>]
    /\ pc'   = [pcs EXCEPT ![m] = "idle"]
    /\ event' = [event EXCEPT ![m] = 0]

-----------------------------------------------------------------------------

\* b_transport of the bus, or of the network and the switch of the master, up to the
\* first wait.  decode writes the member locking of the bus before lock() is called.
Call(m) ==
    /\ pc[m] = "idle"
    /\ \E c \in Commands[m] :
        /\ command' = [command EXCEPT ![m] = c]
        /\ IF system = "bus"
           THEN Enters(m, Bus, <<Bus>>, pc, [medium EXCEPT ![Bus].locking = SlaveAt(c.address) \in Locks])
           ELSE Enters(m, m, <<m>>, pc, medium)
    /\ performed' = [performed EXCEPT ![m] = FALSE]
    /\ UNCHANGED <<system, cells, data>>

\* A thread that was notified goes on in lock().
Resume(m) ==
    /\ pc[m] = "woken"
    /\ medium' = [medium EXCEPT ![Top(m)].busy = @ \/ medium[Top(m)].locking]
    /\ pc' = [pc EXCEPT ![m] = Has(Top(m))]
    /\ UNCHANGED <<system, command, path, event, performed, cells, data>>

\* The slave performs the access, at the address relative to its first one.
Perform(m) ==
    /\ pc[m] = "works"
    /\ LET a == command[m].address
           s == IF Top(m) = Bus THEN SlaveAt(a) ELSE Top(m)
           i == a - Start[SlaveAt(a)]
       IN  IF command[m].op = "read"
           THEN data' = [data EXCEPT ![m] = cells[s][i]] /\ UNCHANGED cells
           ELSE cells' = [cells EXCEPT ![s][i] = m] /\ UNCHANGED data
    /\ performed' = [performed EXCEPT ![m] = TRUE]
    /\ pc' = [pc EXCEPT ![m] = "answered"]
    /\ UNCHANGED <<system, command, path, event, medium>>

\* The slave returns.  On the bus the latency follows, in a network the way back:
\* the data of a read crosses all switches again, the end of a write none.
Answer(m) ==
    /\ pc[m] = "answered"
    /\ \/ /\ Top(m) = Bus
          /\ pc' = [pc EXCEPT ![m] = "crosses"]
          /\ UNCHANGED <<path, event, medium>>
       \/ /\ Top(m) # Bus /\ command[m].op = "read"
          /\ Enters(m, Top(m), path[m], pc, medium)
       \/ /\ Top(m) # Bus /\ command[m].op = "write"
          /\ Returns(m, pc)
          /\ UNCHANGED medium
    /\ UNCHANGED <<system, command, performed, cells, data>>

\* The latency is over: unlock(), then on to the next switch, the slave, the switch
\* before this one, or the end of the call.
Cross(m) ==
    /\ pc[m] = "crosses"
    /\ LET w     == Top(m)
           media == [medium EXCEPT ![w] = Unlock(@)]
           pcs   == [u \in Masters |-> IF u \in Notified(w) THEN "woken" ELSE pc[u]]
           hops  == Hops(w, command[m].address)
       IN  \/ /\ w # Bus /\ ~performed[m]
              /\ \/ \E v \in hops : Enters(m, v, Append(path[m], v), pcs, media)
                 \/ /\ hops = {}
                    /\ pc' = [pcs EXCEPT ![m] = "works"]
                    /\ medium' = media
                    /\ UNCHANGED <<path, event>>
           \/ /\ performed[m] /\ Len(path[m]) > 1
              /\ Enters(m, path[m][Len(path[m]) - 1], Front(path[m]), pcs, media)
           \/ /\ performed[m] /\ Len(path[m]) = 1
              /\ Returns(m, pcs)
              /\ medium' = media
    /\ UNCHANGED <<system, command, performed, cells, data>>

Proceed(m) == Resume(m) \/ Perform(m) \/ Answer(m) \/ Cross(m)

Free == [busy |-> FALSE, locking |-> TRUE, requests |-> <<>>, ticket |-> 0]

Media == IF system = "bus" THEN {Bus} ELSE Switches(system)

Init ==
    /\ system \in Systems
    /\ command \in [Masters -> {CHOOSE c \in UNION { Commands[m] : m \in Masters } : TRUE}]
    /\ pc = [m \in Masters |-> "idle"]
    /\ path = [m \in Masters |-> <<>>]
    /\ event = [m \in Masters |-> 0]
    /\ medium = [w \in Media |-> Free]
    /\ performed = [m \in Masters |-> FALSE]
    /\ cells = [s \in Slaves |-> [i \in 0 .. End[s] - Start[s] |-> 1]]
    /\ data = [m \in Masters |-> 1]

Next == \E m \in Masters : Call(m) \/ Proceed(m)

Spec == Init /\ [][Next]_vars

\* SystemC runs every thread that is notified or whose time has come.
FairSpec == Spec /\ \A m \in Masters : WF_vars(Proceed(m))

-----------------------------------------------------------------------------
(* Properties *)

\* Who has got the medium w: inside it, or notified and not yet running.
HasGot(m, w) ==
    /\ At(m, w)
    /\ pc[m] \in {"woken", "crosses"} \/ (w = Bus /\ pc[m] \in {"works", "answered"})

\* "requests have to be queued" (BusLT.hpp:158, SwitchLT.hpp:106): one transfer at a
\* time is on the bus or in a switch, the notified one counted, although the events
\* for which requests wait are handed out round and round; and nobody overtakes: as long
\* as somebody waits, it is not free.  On the bus this concerns the slaves that ask for it.
OneAtATime ==
    \A w \in Media :
        LET Asks(m) == w = Bus => SlaveAt(command[m].address) \in Locks
        IN  /\ \A m, u \in Masters : HasGot(m, w) /\ HasGot(u, w) /\ Asks(m) /\ Asks(u) => m = u
            /\ \A m \in Masters : At(m, w) /\ pc[m] \in {"waits", "woken"} /\ Asks(m) => medium[w].busy

\* Every transfer ends, although the data of reads go back through the switches that
\* requests come through.
TransfersEnd == \A m \in Masters : pc[m] # "idle" ~> pc[m] = "idle"

\* Each call performs its access at the slave and the cell its address names, before
\* it returns, by whichever way through the network.
Remote == INSTANCE RemoteMemory WITH
    mem   <- [a \in Addresses |-> cells[SlaveAt(a)][a - Start[SlaveAt(a)]]],
    phase <- [m \in Masters |-> IF pc[m] = "idle" THEN "idle"
                                ELSE IF performed[m] THEN "performed" ELSE "called"]
ImplementsCalls == Remote!Spec

=============================================================================
