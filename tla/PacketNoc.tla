------------------------------- MODULE PacketNoc -------------------------------
(***************************************************************************)
(* The packet network: masters (masterPE.cpp) turn the calls of             *)
(* b_transport into packets, switches (Switch.cpp, Buffer.cpp) forward them  *)
(* flit by flit, slaves (slavePE.cpp, b_t2 of packetNoc.cpp) perform the     *)
(* access and answer, and a governor (packetNocGovernor.cpp) moves buffer    *)
(* space between the ports of a switch.                                     *)
(*                                                                         *)
(* Everybody works at the same clock edge and reads the wires as they were  *)
(* before it: Tick.  Whether a module's rxProcess or txProcess goes first    *)
(* at an edge is not defined by SystemC.  A session may time out at any      *)
(* moment, and the memory behind a slave takes any time to answer.          *)
(***************************************************************************)
EXTENDS Integers, Sequences, FiniteSets, SequencesExt, FiniteSetsExt

CONSTANTS
    Masters, Slaves, Switches,
    InPorts,        \* the links that enter a switch, in the order of its ports
    Route,          \* for a switch and a destination, the link to take
    Edge,           \* the links of a processing element: [to, from]
    Base, Top,    \* the addresses of each slave
    DefaultSize,    \* slots of a buffer at the start
    Commands,       \* accesses each master may ask for: op, address and data flits
    MaxCalls,       \* bound: calls of each master
    MaxSessions     \* bound: sessions of each master, retries included

Elements  == Masters \cup Slaves
Buffered  == UNION { ToSet(InPorts[w]) : w \in Switches }
Links     == Buffered \cup { Edge[e].to : e \in Elements }
Addresses == UNION { Base[s] .. Top[s] : s \in Slaves }

\* The switch and the port a link enters, and which element writes to it.
SwitchOf == [l \in Buffered |-> CHOOSE w \in Switches : l \in ToSet(InPorts[w])]
PortOf   == [l \in Buffered |-> CHOOSE i \in DOMAIN InPorts[SwitchOf[l]] : InPorts[SwitchOf[l]][i] = l]
Writer   == [l \in { Edge[e].from : e \in Elements } |-> CHOOSE e \in Elements : Edge[e].from = l]

\* The network is connected as its description says: each edge has a signal of its
\* own, with one writer and one reader, and a link that enters an element carries
\* what is for that element.
ASSUME LinkAssumption ==
    /\ \A w \in Switches : InPorts[w] \in Seq(ToSet(InPorts[w]))
    /\ \A e \in Elements : Edge[e].from \in Buffered /\ Edge[e].to \notin Buffered
    /\ \A e, x \in Elements : e # x => Edge[e].from # Edge[x].from /\ Edge[e].to # Edge[x].to
    /\ \A w \in Switches, d \in Elements :
        /\ Route[w][d] \in Links
        /\ \A e \in Elements : Route[w][d] # Edge[e].from /\ (Route[w][d] = Edge[e].to => e = d)
        /\ \A v \in Switches, e \in Elements : Route[v][e] = Route[w][d] => v = w

ASSUME NocAssumption ==
    /\ MaxCalls \in Nat /\ (\A m \in Masters : MaxSessions[m] \in Nat) /\ DefaultSize \in Nat
    /\ Masters # {} /\ Masters \cap Slaves = {}
    /\ \A s \in Slaves : Base[s] \in Nat /\ Top[s] \in Nat
    /\ \A m \in Masters :
        /\ Commands[m] # {}
        /\ \A c \in Commands[m] : c.op \in {"read", "write"} /\ c.address \in Addresses /\ c.flits \in Nat

Silence == [kind |-> "none"]     \* the packet of which every field is -1
Nobody  == [payload |-> 0]       \* no transport in a slave

VARIABLES
    pc,            \* b_transport of each master: idle, waiting for its event, or awake
    calls,         \* the calls each master has begun
    command,       \* the payload of the call: what is asked for
    address,       \* and its address, which the slave changes
    last_session_id,
    endTransm,     \* the sessions that have an event
    timedOut,      \* those that timed out
    packet_queue,  \* of masters and slaves
    openSessions,  \* the flits received of each packet that is not complete
    serving, waiting,    \* the transport of each slave, and those in nextTLMWake
    mem,           \* the memories behind the slaves: who wrote an address last
    data,          \* what the last read of each master has found
    performed,     \* whether the call of each master has been performed
    wire,          \* the signals
    buffer, room,  \* of the switches
    dropping,      \* the ports that have dropped flits since the governor looked
    lost,          \* the sessions of which a flit was dropped
    error          \* an exception has ended the simulation

calling  == <<pc, calls, command, last_session_id>>
sessions == <<endTransm, timedOut>>
slaves   == <<serving, mem, data, performed, address>>
network  == <<wire, buffer, lost, dropping>>
vars == <<calling, sessions, packet_queue, openSessions, slaves, waiting, network, room, error>>

Init ==
    /\ pc = [m \in Masters |-> "idle"]
    /\ calls = [m \in Masters |-> 0]
    /\ command = [m \in Masters |-> CHOOSE c \in Commands[m] : TRUE]
    /\ address = [m \in Masters |-> command[m].address]
    /\ last_session_id = [m \in Masters |-> 0]
    /\ endTransm = [m \in Masters |-> {}]
    /\ timedOut = [m \in Masters |-> {}]
    /\ packet_queue = [e \in Elements |-> <<>>]
    /\ openSessions = [e \in Elements |-> [i \in {} |-> {}]]
    /\ serving = [s \in Slaves |-> Nobody]
    /\ waiting = [s \in Slaves |-> <<>>]
    /\ mem = [a \in Addresses |-> CHOOSE m \in Masters : TRUE]
    /\ data = [m \in Masters |-> CHOOSE n \in Masters : TRUE]
    /\ performed = [m \in Masters |-> FALSE]
    /\ wire = [l \in Links |-> Silence]
    /\ buffer = [l \in Buffered |-> <<>>]
    /\ room = [l \in Buffered |-> DefaultSize]
    /\ lost = {} /\ dropping = {}
    /\ error = "none"

-----------------------------------------------------------------------------
(* Packets and flits *)

\* A packet of n data flits: one flit, or n between a head and a tail, which
\* differ from the others in nothing but their name.
SizeFor(n) == IF n = 1 THEN 1 ELSE n + 2
Packet(kind, src, dst, session, size, payload) ==
    [kind |-> IF size = 1 THEN kind ELSE "PART", src |-> src, dst |-> dst,
     session |-> session, size |-> size, flit_left |-> size, payload |-> payload]

Ack(e, p) == Packet("ACK", e, p.src, p.session, 1, 0)

\* nextFlit: what leaves a queue, and what remains.
NextFlit(q) == IF q = <<>> THEN Silence ELSE Head(q)
AfterFlit(q) ==
    IF q = <<>> THEN q
    ELSE IF Head(q).flit_left = 1 THEN Tail(q)
    ELSE <<[Head(q) EXCEPT !.flit_left = @ - 1]>> \o Tail(q)

\* The flits of its packet that e has when f arrives.
Got(e, f) ==
    {f.flit_left} \cup (IF f.session \in DOMAIN openSessions[e]
                        THEN openSessions[e][f.session] ELSE {})
Complete(e, f) == Cardinality(Got(e, f)) = f.size

\* The sessions of which e has a part, with the flits of f's or without it.
Kept(e, f)   == [i \in DOMAIN openSessions[e] \cup {f.session} |->
                    IF i = f.session THEN Got(e, f) ELSE openSessions[e][i]]
Closed(e, f) == [i \in DOMAIN openSessions[e] \ {f.session} |-> openSessions[e][i]]

-----------------------------------------------------------------------------
(* b_transport of a master *)

Current(m) == last_session_id[m]

SlaveAt(a) == { s \in Slaves : a \in Base[s] .. Top[s] }

\* genPacket for the command c of the call k of m, when its address is a.
Request(m, k, c, a, n) ==
    Packet("DATA", m, CHOOSE s \in SlaveAt(a) : TRUE, <<m, n>>,
           IF c.op = "read" THEN 1 ELSE SizeFor(c.flits), k)

\* Variant: the event of a session is erased by the next one.
OpensAlone(m, n) ==
    /\ last_session_id' = [last_session_id EXCEPT ![m] = n]
    /\ endTransm' = [endTransm EXCEPT ![m] = {n}]

Opens(m, n) ==
    /\ last_session_id' = [last_session_id EXCEPT ![m] = n]
    /\ endTransm' = [endTransm EXCEPT ![m] = @ \cup {n}]

Queues(e, p) == packet_queue' = [packet_queue EXCEPT ![e] = Append(@, p)]

Begin(m) ==
    /\ pc[m] = "idle" /\ calls[m] < MaxCalls /\ Current(m) < MaxSessions[m]
    /\ calls' = [calls EXCEPT ![m] = @ + 1]
    /\ \E c \in Commands[m] :
        /\ command' = [command EXCEPT ![m] = c]
        /\ address' = [address EXCEPT ![m] = c.address]
        /\ Queues(m, Request(m, calls[m] + 1, c, c.address, Current(m) + 1))
    /\ Opens(m, Current(m) + 1)
    /\ pc' = [pc EXCEPT ![m] = "waiting"]
    /\ performed' = [performed EXCEPT ![m] = FALSE]
    /\ UNCHANGED <<timedOut, openSessions, serving, waiting, mem, data, network, room, error>>

\* Variant: the timer marks the session and wakes nobody.
TimeoutSilent(m) ==
    /\ pc[m] # "idle" /\ Current(m) \in endTransm[m] \ timedOut[m]
    /\ Current(m) < MaxSessions[m]
    /\ timedOut' = [timedOut EXCEPT ![m] = @ \cup {Current(m)}]
    /\ UNCHANGED <<calling, endTransm, packet_queue, openSessions, slaves, waiting,
                   network, room, error>>

\* The timer of the session has run out before the call went on.
Timeout(m) ==
    /\ pc[m] # "idle" /\ Current(m) \in endTransm[m] \ timedOut[m]
    /\ Current(m) < MaxSessions[m]
    /\ timedOut' = [timedOut EXCEPT ![m] = @ \cup {Current(m)}]
    /\ pc' = [pc EXCEPT ![m] = "awake"]
    /\ UNCHANGED <<calls, command, last_session_id, endTransm, packet_queue, openSessions,
                   slaves, waiting, network, room, error>>

\* The loop of b_transport: another session for the same payload, whose address
\* is read again.
Retry(m) ==
    /\ pc[m] = "awake" /\ Current(m) \in timedOut[m]
    /\ IF SlaveAt(address[m]) # {}
       THEN /\ UNCHANGED <<calls, command>>
            /\ Queues(m, Request(m, calls[m], command[m], address[m], Current(m) + 1))
            /\ Opens(m, Current(m) + 1)
            /\ pc' = [pc EXCEPT ![m] = "waiting"]
            /\ UNCHANGED error
       ELSE /\ error' = "not bound to a slave device"
            /\ UNCHANGED <<calling, packet_queue, endTransm>>
    /\ UNCHANGED <<timedOut, openSessions, slaves, waiting, network, room>>

Return(m) ==
    /\ pc[m] = "awake" /\ Current(m) \notin timedOut[m]
    /\ endTransm' = [endTransm EXCEPT ![m] = @ \ {Current(m)}]
    /\ pc' = [pc EXCEPT ![m] = "idle"]
    /\ UNCHANGED <<calls, command, last_session_id, timedOut, packet_queue, openSessions,
                   slaves, waiting, network, room, error>>

-----------------------------------------------------------------------------
(* The transport of a slave *)

\* lockTLM: launchTLMRead and launchTLMWrite get the slave in the order they were
\* spawned; b_t2 makes the address relative to the slave it belongs to.
Start(s) ==
    /\ serving[s] = Nobody /\ waiting[s] # <<>>
    /\ LET p == Head(waiting[s])
           at == SlaveAt(address[p.src])
       IN  /\ serving' = [serving EXCEPT ![s] =
                [payload |-> p.payload, packet |-> p, addr_old |-> address[p.src]]]
           /\ address' = [address EXCEPT ![p.src] =
                IF at = {} THEN @ ELSE @ - Base[CHOOSE x \in at : TRUE]]
    /\ waiting' = [waiting EXCEPT ![s] = Tail(@)]
    /\ UNCHANGED <<calling, sessions, packet_queue, openSessions, mem, data, performed,
                   network, room, error>>

\* The answer to a read has the data, that to a write is an acknowledgement.
Answer(s, p) ==
    IF command[p.src].op = "read"
    THEN Packet("DATA", s, p.src, p.session, SizeFor(command[p.src].flits), 0)
    ELSE Ack(s, p)

\* The memory has performed the access; b_t2 restores the address, unlockTLM lets
\* the next one in, and the answer is queued.
Served(s) ==
    /\ serving[s] # Nobody
    /\ LET p == serving[s].packet
           m == p.src
           cell == Base[s] + address[m]
       IN  /\ IF command[m].op = "read"
              THEN data' = [data EXCEPT ![m] = mem[cell]] /\ UNCHANGED mem
              ELSE mem' = [mem EXCEPT ![cell] = m] /\ UNCHANGED data
           /\ performed' = [performed EXCEPT ![m] = TRUE]
           /\ address' = [address EXCEPT ![m] = serving[s].addr_old]
           /\ Queues(s, Answer(s, p))
    /\ serving' = [serving EXCEPT ![s] = Nobody]
    /\ UNCHANGED <<calling, sessions, openSessions, waiting, network, room, error>>

-----------------------------------------------------------------------------
(* The clock edge *)

\* The flit is the last of its packet, and e can work on the packet.
Arrives(e, f) == f.kind = "DATA" \/ (f.kind = "PART" /\ Complete(e, f))

\* rxProcess of a master: an answer to a session that timed out wakes nobody, and
\* if it has several flits it stays among the open sessions.
Accepted(m, f) ==
    /\ Arrives(m, f)
    /\ f.kind = "PART" => f.session[2] \notin timedOut[m]
Notified(m, f) == f.kind = "ACK" \/ Accepted(m, f)
Unknown(m, f)  == Notified(m, f) /\ f.session[2] \notin endTransm[m]

\* Variant: an answer to an earlier session wakes its call as well.
WokenByAny(m, f) == Notified(m, f) /\ pc[m] # "idle"
Woken(m, f)      == Notified(m, f) /\ f.session[2] = Current(m) /\ pc[m] # "idle"

QueueAfter(e, rxFirst) ==
    LET f == wire[Edge[e].to]
        q == packet_queue[e]
        acks == IF e \in Masters /\ Accepted(e, f) THEN <<Ack(e, f)>> ELSE <<>>
    IN  IF rxFirst THEN AfterFlit(q \o acks) ELSE AfterFlit(q) \o acks

Emitted(e, rxFirst) ==
    LET f == wire[Edge[e].to] IN
    IF rxFirst /\ e \in Masters /\ Accepted(e, f) /\ packet_queue[e] = <<>>
    THEN Ack(e, f)
    ELSE NextFlit(packet_queue[e])

OpenAfter(e, f) ==
    IF f.kind # "PART" THEN openSessions[e]
    ELSE IF (e \in Masters /\ Accepted(e, f)) \/ (e \in Slaves /\ Complete(e, f))
    THEN Closed(e, f)
    ELSE Kept(e, f)

\* Buffer::push; a buffer is full when it is as long as its room, neither more
\* nor less.
Full(b, l) == Len(b) = room[l]
Pushed(b, l) == IF wire[l] = Silence \/ Full(b, l) THEN b ELSE Append(b, wire[l])

\* The buffers that txProcess works on, when rxFirst are the switches whose
\* rxProcess has run before.
Seen(rxFirst) ==
    [l \in Buffered |-> IF SwitchOf[l] \in rxFirst THEN Pushed(buffer[l], l) ELSE buffer[l]]

\* txProcess: the ports in order, one flit for each way out.  Where the first flit
\* of a buffer goes, if it goes now.
OutLink(b, l) == Route[SwitchOf[l]][Head(b[l]).dst]
Forwards(b, l) ==
    /\ b[l] # <<>>
    /\ \A j \in 1 .. PortOf[l] - 1 :
        LET k == InPorts[SwitchOf[l]][j] IN b[k] # <<>> => OutLink(b, k) # OutLink(b, l)

Leaving(b) == { l \in Buffered : Forwards(b, l) }

\* What is left in the buffer of l before its rxProcess if that comes second.
Popped(b, leaving, l) == IF l \in leaving THEN Tail(b[l]) ELSE b[l]

Forwarded(b, leaving, out) ==
    LET from == { l \in leaving : OutLink(b, l) = out }
    IN  IF from = {} THEN Silence ELSE Head(b[CHOOSE l \in from : TRUE])

\* Threads that can go on do so before time advances.
Settled ==
    /\ \A m \in Masters : pc[m] # "awake"
    /\ \A s \in Slaves : serving[s] = Nobody => waiting[s] = <<>>

Into(e) == wire[Edge[e].to]

Tick ==
    /\ Settled
    /\ \E rxFirst \in SUBSET (Switches \cup { m \in Masters : Accepted(m, Into(m)) }) :
        LET b       == Seen(rxFirst)
            leaving == Leaving(b)
            before  == [l \in Buffered |-> IF SwitchOf[l] \in rxFirst THEN buffer[l]
                                           ELSE Popped(b, leaving, l)]
            dropped == { l \in Buffered : wire[l] # Silence /\ Full(before[l], l) }
        IN  /\ packet_queue' = [e \in Elements |-> QueueAfter(e, e \in rxFirst)]
            /\ wire' = [l \in Links |->
                    IF l \in DOMAIN Writer THEN Emitted(Writer[l], Writer[l] \in rxFirst)
                    ELSE Forwarded(b, leaving, l)]
            /\ buffer' = [l \in Buffered |->
                    IF SwitchOf[l] \in rxFirst THEN Popped(b, leaving, l)
                    ELSE Pushed(before[l], l)]
            /\ lost' = lost \cup { wire[l].session : l \in dropped }
            /\ dropping' = dropping \cup dropped
    /\ openSessions' = [e \in Elements |-> OpenAfter(e, Into(e))]
    /\ waiting' = [s \in Slaves |->
            IF Arrives(s, Into(s)) THEN Append(waiting[s], Into(s)) ELSE waiting[s]]
    /\ pc' = [m \in Masters |-> IF Woken(m, Into(m)) THEN "awake" ELSE pc[m]]
    /\ error' = IF \E m \in Masters : Unknown(m, Into(m)) THEN "unknown session" ELSE "none"
    /\ UNCHANGED <<calls, command, last_session_id, sessions, slaves, room>>

\* Variant: the slot that is taken may have a flit in it.
GovernAnyway(w) ==
    /\ \E from, to \in ToSet(InPorts[w]) :
        /\ from \notin dropping /\ room[from] > 0
        /\ to \in dropping \/ room[to] = 0
        /\ room' = [room EXCEPT ![from] = @ - 1, ![to] = @ + 1]
        /\ dropping' = dropping \ {to}
    /\ UNCHANGED <<calling, sessions, packet_queue, openSessions, slaves, waiting,
                   wire, buffer, lost, error>>

\* The governor looks at the switch.  It may take a slot from a port that dropped
\* nothing and has one to spare (getBufferCurrentFreeSlots is an unsigned number),
\* for a port that dropped flits or has no slot at all.  The thresholds that decide
\* whether it does are left open.
Govern(w) ==
    /\ \/ \E from, to \in ToSet(InPorts[w]) :
            /\ from \notin dropping
            /\ to \in dropping \/ room[to] = 0
            /\ room[from] > 0 /\ room[from] # Len(buffer[from])
            /\ room' = [room EXCEPT ![from] = @ - 1, ![to] = @ + 1]
            /\ dropping' = dropping \ {to}
       \/ /\ ToSet(InPorts[w]) \cap dropping # {}
          /\ dropping' = dropping \ ToSet(InPorts[w])
          /\ UNCHANGED room
    /\ UNCHANGED <<calling, sessions, packet_queue, openSessions, slaves, waiting,
                   wire, buffer, lost, error>>

-----------------------------------------------------------------------------

Next ==
    /\ error = "none"
    /\ \/ \E m \in Masters : Begin(m) \/ Timeout(m) \/ Retry(m) \/ Return(m)
       \/ \E s \in Slaves : Start(s) \/ Served(s)
       \/ Tick
       \/ \E w \in Switches : Govern(w)

Spec == Init /\ [][Next]_vars

-----------------------------------------------------------------------------
(* Properties *)

\* A call of b_transport returns only after the slave has performed its access, the
\* slave never performs an access whose call has returned, and a read has the data
\* of one of the times it was performed: all this although sessions time out, flits
\* are dropped, and the same payload is under way in several sessions.
Remote == INSTANCE RemoteMemory WITH
    command <- [m \in Masters |-> [op |-> command[m].op, address |-> command[m].address]],
    phase   <- [m \in Masters |-> IF pc[m] = "idle" THEN "idle"
                                  ELSE IF performed[m] THEN "performed" ELSE "called"]
ImplementsCalls == Remote!Spec

\* Every flit that is somewhere in the network, and every packet in a slave.
Flits ==
    (UNION { ToSet(packet_queue[e]) : e \in Elements })
    \cup (UNION { ToSet(buffer[l]) : l \in Buffered })
    \cup ({ wire[l] : l \in Links } \ {Silence})
AtSlaves ==
    (UNION { ToSet(waiting[s]) : s \in Slaves })
    \cup { serving[s].packet : s \in { x \in Slaves : serving[x] # Nobody } }

\* Nothing outlives what it points to.  The payload in a request belongs to the call
\* its master is still in (masterPE::b_transport sends a pointer to its argument),
\* and an answer belongs to a session that has an event (rxProcess throws else):
\* retries rely on the order of the packets of a master, and on entries that only
\* the last session of a call erases.
NothingOutlives ==
    /\ \A p \in Flits \cup AtSlaves :
        p.payload # 0 => p.payload = calls[p.src] /\ pc[p.src] # "idle"
    /\ \A p \in Flits : p.dst \in Masters => p.session[2] \in endTransm[p.dst]
    /\ error # "unknown session"

\* A buffer never has more flits than slots: isFull compares with ==, so that a
\* buffer which the governor had made too small would never drop anything again.
NeverOverfull ==
    \A l \in Buffered : Len(buffer[l]) <= room[l]

\* "it is necessary to restore original address otherwise in case of timeout the
\* retransmission of the request will contain a wrong address" (packetNoc.cpp:77):
\* a slave works on the address that the master was asked for.
RightAddress ==
    \A s \in Slaves : serving[s] # Nobody =>
        LET m == serving[s].packet.src IN Base[s] + address[m] = command[m].address

\* A call ends, unless a flit of the last session the bound allows was dropped: the
\* timer makes up for a request or an answer that is lost, and whoever waits for a
\* slave is woken.  A call makes finitely many steps, so that it ends if the network
\* never comes to rest with the call unfinished.
AtRest ==
    /\ Settled /\ Flits = {} /\ \A s \in Slaves : serving[s] = Nobody
    /\ \A m \in Masters : pc[m] = "idle" \/ Current(m) \in timedOut[m] \/ Current(m) = MaxSessions[m]

CallsEnd ==
    AtRest => \A m \in Masters : pc[m] = "idle" \/ <<m, MaxSessions[m]>> \in lost

=============================================================================
