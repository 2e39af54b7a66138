--------------------------- MODULE PacketNoc_proofs ---------------------------
(***************************************************************************)
(* Proofs about PacketNoc, for any masters, slaves, switches, links and     *)
(* routes that LinkAssumption allows, and any size of the buffers.          *)
(*                                                                         *)
(* Although isFull compares with == a buffer never has more flits than      *)
(* slots: the governor takes a slot from a buffer that has one to spare,    *)
(* and never from the port it gives it to.                                  *)
(*                                                                         *)
(* A call that does not end has lost a flit of the last session it may      *)
(* have.  The invariant is that a master which waits has lost a flit of its *)
(* session, or waits for something: for a packet at a slave, or for one of  *)
(* which every flit is on its way or has been got, the one as the other     *)
(* numbered from the size of the packet down to 1.                          *)
(*                                                                          *)
(* Where no address is that of two slaves, nor made relative to its slave   *)
(* that of another (Separate), nothing outlives the call it belongs to, a   *)
(* slave works on the address it was asked for, and the calls implement     *)
(* those of a memory.  The invariant is an order: what one element has sent *)
(* another is on its way in the order of the sessions, one flit behind the  *)
(* other along the route, behind it in the queue what is sent later, and    *)
(* before it what has been got.  All the requests of a call are for one     *)
(* slave, which answers them in that order, so that the answer to the last  *)
(* session, for which the call returns, comes after everything else.        *)
(***************************************************************************)
EXTENDS PacketNoc, SequenceTheorems, FiniteSetTheorems, TLAPS

IsQueue(b) == \E S : b \in Seq(S)

\* The buffer b holds flits, and no more than n of them.
Fits(b, n) == IsQueue(b) /\ n \in Nat /\ Len(b) <= n

BuffersFit ==
    /\ room \in [Buffered -> Nat]
    /\ \A l \in Buffered : Fits(buffer[l], room[l])

-----------------------------------------------------------------------------

\* A queue with one more element.
LEMMA QueueAppend ==
    ASSUME NEW b, IsQueue(b), NEW x
    PROVE  IsQueue(Append(b, x)) /\ Len(Append(b, x)) = Len(b) + 1 /\ Len(b) \in Nat
  <1>1. PICK S : b \in Seq(S)
    BY DEF IsQueue
  <1>2. b \in Seq(S \cup {x})
    <2>1. b \in [1 .. Len(b) -> S] /\ Len(b) \in Nat
      BY <1>1, LenProperties
    <2>2. b \in [1 .. Len(b) -> S \cup {x}]
      BY <2>1
    <2> QED BY <2>1, <2>2, SeqDef
  <1> QED
    BY <1>1, <1>2, AppendProperties, LenProperties DEF IsQueue

\* A queue without its first element.
LEMMA QueueTail ==
    ASSUME NEW b, IsQueue(b), b # <<>>
    PROVE  IsQueue(Tail(b)) /\ Len(Tail(b)) = Len(b) - 1 /\ Len(b) \in Nat
  <1>1. PICK S : b \in Seq(S)
    BY DEF IsQueue
  <1> QED
    BY <1>1, HeadTailProperties, LenProperties DEF IsQueue

\* push leaves a full buffer alone, pop shortens it.
LEMMA PushFits ==
    ASSUME NEW l \in Buffered, NEW b, Fits(b, room[l])
    PROVE  Fits(Pushed(b, l), room[l])
  <1>1. CASE wire[l] = Silence \/ Full(b, l)
    BY <1>1 DEF Pushed
  <1>2. CASE ~(wire[l] = Silence \/ Full(b, l))
    <2>1. Pushed(b, l) = Append(b, wire[l])
      BY <1>2 DEF Pushed
    <2>2. IsQueue(Append(b, wire[l])) /\ Len(Append(b, wire[l])) = Len(b) + 1 /\ Len(b) \in Nat
      BY QueueAppend DEF Fits
    <2>3. Len(b) < room[l] /\ room[l] \in Nat
      BY <1>2, <2>2 DEF Full, Fits
    <2> QED BY <2>1, <2>2, <2>3 DEF Fits
  <1> QED BY <1>1, <1>2

\* A buffer from which a flit is forwarded is not empty.
LEMMA PopFits ==
    ASSUME NEW l \in Buffered, NEW b, Fits(b[l], room[l])
    PROVE  Fits(Popped(b, Leaving(b), l), room[l])
  <1>1. CASE l \in Leaving(b)
    <2>1. b[l] # <<>> /\ Popped(b, Leaving(b), l) = Tail(b[l])
      BY <1>1 DEF Leaving, Forwards, Popped
    <2>2. IsQueue(Tail(b[l])) /\ Len(Tail(b[l])) = Len(b[l]) - 1 /\ Len(b[l]) \in Nat
      BY <2>1, QueueTail DEF Fits
    <2> QED BY <2>1, <2>2 DEF Fits
  <1>2. CASE l \notin Leaving(b)
    BY <1>2 DEF Popped
  <1> QED BY <1>1, <1>2

\* At a clock edge, in whatever order the modules work.
LEMMA TickFits ==
    ASSUME BuffersFit, Tick
    PROVE  BuffersFit'
  <1>1. PICK rxFirst :
           buffer' = [l \in Buffered |->
              IF SwitchOf[l] \in rxFirst THEN Popped(Seen(rxFirst), Leaving(Seen(rxFirst)), l)
              ELSE Pushed([k \in Buffered |->
                              IF SwitchOf[k] \in rxFirst THEN buffer[k]
                              ELSE Popped(Seen(rxFirst), Leaving(Seen(rxFirst)), k)][l], l)]
    BY DEF Tick
  <1> DEFINE b == Seen(rxFirst)
  <1>2. ASSUME NEW l \in Buffered PROVE Fits(b[l], room[l])
    <2>1. b[l] = IF SwitchOf[l] \in rxFirst THEN Pushed(buffer[l], l) ELSE buffer[l]
      BY DEF Seen
    <2> QED BY <2>1, PushFits DEF BuffersFit
  <1> HIDE DEF b
  <1>3. ASSUME NEW l \in Buffered PROVE Fits(buffer'[l], room[l])
    <2>1. Fits(Popped(b, Leaving(b), l), room[l])
      BY <1>2, PopFits
    <2>2. Fits(Pushed(Popped(b, Leaving(b), l), l), room[l])
      BY <2>1, PushFits
    <2>3. buffer'[l] = IF SwitchOf[l] \in rxFirst THEN Popped(b, Leaving(b), l)
                       ELSE Pushed(Popped(b, Leaving(b), l), l)
      BY <1>1 DEF b
    <2> QED BY <2>1, <2>2, <2>3
  <1>4. UNCHANGED room
    BY DEF Tick
  <1> QED
    BY <1>3, <1>4 DEF BuffersFit

\* The governor takes a slot from a port that dropped nothing, for one that has
\* dropped flits or has no slot: these are two.
LEMMA GovernFits ==
    ASSUME BuffersFit, NEW w \in Switches, Govern(w)
    PROVE  BuffersFit'
  <1>1. UNCHANGED buffer
    BY DEF Govern
  <1>2. CASE UNCHANGED room
    BY <1>1, <1>2 DEF BuffersFit
  <1>3. ASSUME NEW from \in ToSet(InPorts[w]), NEW to \in ToSet(InPorts[w]), from \notin dropping,
               to \in dropping \/ room[to] = 0, room[from] > 0, room[from] # Len(buffer[from]),
               room' = [room EXCEPT ![from] = @ - 1, ![to] = @ + 1]
        PROVE  BuffersFit'
    <2>1. from \in Buffered /\ to \in Buffered /\ from # to
      BY <1>3 DEF Buffered
    <2>2. ASSUME NEW l \in Buffered PROVE Len(buffer[l]) \in Nat /\ Len(buffer[l]) <= room[l] /\ room[l] \in Nat
      BY LenProperties DEF BuffersFit, Fits, IsQueue
    <2>3. room' \in [Buffered -> Nat]
      BY <1>3, <2>1, <2>2 DEF BuffersFit
    <2>4. ASSUME NEW l \in Buffered PROVE Len(buffer[l]) <= room'[l]
      BY <1>3, <2>1, <2>2 DEF BuffersFit
    <2> QED BY <1>1, <2>3, <2>4 DEF BuffersFit, Fits
  <1> QED
    BY <1>2, <1>3 DEF Govern

\* The buffers fit after every step.
LEMMA BuffersFitStep ==
    ASSUME BuffersFit, [Next]_vars
    PROVE  BuffersFit'
  <1>1. CASE UNCHANGED <<buffer, room>>
    BY <1>1 DEF BuffersFit
  <1>2. ASSUME NEW m \in Masters, Begin(m) \/ Timeout(m) \/ Retry(m) \/ Return(m)
        PROVE  UNCHANGED <<buffer, room>>
    BY <1>2 DEF Begin, Timeout, Retry, Return, network
  <1>3. ASSUME NEW s \in Slaves, Start(s) \/ Served(s) PROVE UNCHANGED <<buffer, room>>
    BY <1>3 DEF Start, Served, network
  <1>4. CASE UNCHANGED vars
    BY <1>1, <1>4 DEF vars, network
  <1> QED
    BY <1>1, <1>2, <1>3, <1>4, TickFits, GovernFits DEF Next

\* No buffer of a switch has more flits than slots, however the governor moves the slots
\* and in whatever order the modules of a clock edge run.
THEOREM BuffersNeverOverfull == Spec => []NeverOverfull
  <1>1. Init => BuffersFit
    <2>1. <<>> \in Seq({}) /\ Len(<<>>) = 0
      OBVIOUS
    <2> QED BY <2>1, NocAssumption DEF Init, BuffersFit, Fits, IsQueue
  <1>2. BuffersFit /\ [Next]_vars => BuffersFit'
    BY BuffersFitStep
  <1>3. BuffersFit => NeverOverfull
    BY DEF BuffersFit, Fits, NeverOverfull
  <1> QED
    BY <1>1, <1>2, <1>3, PTL DEF Spec

-----------------------------------------------------------------------------
(* What is under way, and its types *)

\* What is under way: between a master and a slave, for a session of the master.
\* Requests have a payload, acknowledgements and answers have none.
Flit == { f \in [kind : {"DATA", "ACK", "PART"}, src : Elements, dst : Elements,
                 session : Masters \X (Nat \ {0}), size : Nat \ {0}, flit_left : Nat \ {0},
                 payload : Nat] :
            /\ f.flit_left <= f.size
            /\ f.kind = "PART" <=> f.size # 1
            /\ \/ /\ f.src \in Masters /\ f.dst \in Slaves /\ f.session[1] = f.src
                  /\ f.payload # 0 <=> f.kind # "ACK"
               \/ f.src \in Slaves /\ f.dst \in Masters /\ f.session[1] = f.dst /\ f.payload = 0 }

\* The sessions there have been.
Opened == { i \in Masters \X (Nat \ {0}) : i[2] <= last_session_id[i[1]] }

\* The flits on a link and in the buffer behind it, in their order.
Line(l) ==
    IF l \in Buffered
    THEN IF wire[l] = Silence THEN buffer[l] ELSE Append(buffer[l], wire[l])
    ELSE IF wire[l] = Silence THEN <<>> ELSE <<wire[l]>>

CallTypes ==
    /\ pc \in [Masters -> {"idle", "waiting", "awake"}]
    /\ calls \in [Masters -> Nat]
    /\ DOMAIN command = Masters /\ \A m \in Masters : command[m] \in Commands[m]
    /\ address \in [Masters -> Int]
    /\ last_session_id \in [Masters -> Nat]
    /\ endTransm \in [Masters -> SUBSET Nat] /\ timedOut \in [Masters -> SUBSET Nat]
    /\ \A m \in Masters : \A n \in endTransm[m] \cup timedOut[m] : n <= last_session_id[m]
    /\ \A m \in Masters : pc[m] # "idle" => last_session_id[m] # 0 /\ calls[m] # 0
    /\ \A m \in Masters : pc[m] = "waiting" => last_session_id[m] \notin timedOut[m]

FlitTypes ==
    /\ packet_queue \in [Elements -> Seq(Flit)]
    /\ buffer \in [Buffered -> Seq(Flit)]
    /\ wire \in [Links -> Flit \cup {Silence}]
    /\ \A e \in Elements : \A i \in DOMAIN packet_queue[e] :
          packet_queue[e][i].src = e /\ packet_queue[e][i].session \in Opened
    /\ \A l \in Buffered : \A i \in DOMAIN buffer[l] : buffer[l][i].session \in Opened
    /\ \A l \in Links : wire[l] # Silence => wire[l].session \in Opened
    /\ \A e \in Elements : wire[Edge[e].to] # Silence => wire[Edge[e].to].dst = e

\* A packet that a slave works on, or will.
Job(s) == { p \in Flit : p.dst = s /\ p.kind # "ACK" /\ p.session \in Opened }

EndTypes ==
    /\ DOMAIN openSessions = Elements
    /\ \A e \in Elements :
          /\ openSessions[e] \in [DOMAIN openSessions[e] -> SUBSET Nat]
          /\ DOMAIN openSessions[e] \subseteq Opened
    /\ DOMAIN waiting = Slaves /\ \A s \in Slaves : waiting[s] \in Seq(Job(s))
    /\ DOMAIN serving = Slaves
    /\ \A s \in Slaves : serving[s] # Nobody =>
          serving[s] \in [payload : Nat, packet : Job(s), addr_old : Int]

Types == CallTypes /\ FlitTypes /\ EndTypes

\* The fields of a flit.
LEMMA FlitFields ==
    ASSUME NEW f \in Flit
    PROVE  /\ f # Silence
           /\ f.kind \in {"DATA", "ACK", "PART"} /\ f.src \in Elements /\ f.dst \in Elements
           /\ f.session \in Masters \X (Nat \ {0}) /\ f.session[1] \in Masters /\ f.session[2] \in Nat \ {0}
           /\ f.size \in Nat \ {0} /\ f.flit_left \in Nat \ {0} /\ f.payload \in Nat
           /\ f.flit_left <= f.size
           /\ f.kind = "PART" <=> f.size # 1
           /\ f.dst \in Slaves => f.src \in Masters /\ f.session[1] = f.src /\ (f.payload # 0 <=> f.kind # "ACK")
           /\ f.dst \in Masters => f.src \in Slaves /\ f.session[1] = f.dst /\ f.payload = 0
           /\ f.session = <<f.session[1], f.session[2]>>
  <1>1. f.kind # "none"
    BY DEF Flit
  <1>2. Silence.kind = "none"
    BY DEF Silence
  <1>3. Masters \cap Slaves = {}
    BY NocAssumption
  <1> QED BY <1>1, <1>2, <1>3 DEF Flit

\* A packet is a flit as long as it waits in the queue, whatever part of it has left.
LEMMA PacketType ==
    ASSUME NEW kind \in {"DATA", "ACK"}, NEW src \in Elements, NEW dst \in Elements,
           NEW m \in Masters, NEW n \in Nat \ {0}, NEW size \in Nat \ {0}, NEW payload \in Nat,
           \/ src = m /\ dst \in Slaves /\ payload # 0 /\ kind = "DATA"
           \/ src = m /\ dst \in Slaves /\ payload = 0 /\ kind = "ACK" /\ size = 1
           \/ src \in Slaves /\ dst = m /\ payload = 0
    PROVE  /\ Packet(kind, src, dst, <<m, n>>, size, payload) \in Flit
           /\ Packet(kind, src, dst, <<m, n>>, size, payload).src = src
           /\ Packet(kind, src, dst, <<m, n>>, size, payload).dst = dst
           /\ Packet(kind, src, dst, <<m, n>>, size, payload).session = <<m, n>>
           /\ Packet(kind, src, dst, <<m, n>>, size, payload).size = size
           /\ Packet(kind, src, dst, <<m, n>>, size, payload).flit_left = size
           /\ Packet(kind, src, dst, <<m, n>>, size, payload).payload = payload
           /\ size = 1 => Packet(kind, src, dst, <<m, n>>, size, payload).kind = kind
           /\ size # 1 => Packet(kind, src, dst, <<m, n>>, size, payload).kind = "PART"
  <1> DEFINE p == Packet(kind, src, dst, <<m, n>>, size, payload)
  <1>1. p = [kind |-> IF size = 1 THEN kind ELSE "PART", src |-> src, dst |-> dst,
             session |-> <<m, n>>, size |-> size, flit_left |-> size, payload |-> payload]
    BY DEF Packet
  <1>2. /\ p.kind = (IF size = 1 THEN kind ELSE "PART") /\ p.src = src /\ p.dst = dst
        /\ p.session = <<m, n>> /\ p.size = size /\ p.flit_left = size /\ p.payload = payload
    BY <1>1
  <1>3. p \in [kind : {"DATA", "ACK", "PART"}, src : Elements, dst : Elements,
               session : Masters \X (Nat \ {0}), size : Nat \ {0}, flit_left : Nat \ {0},
               payload : Nat]
    BY <1>1
  <1>4. p.session[1] = m
    BY <1>2
  <1>5. Masters \cap Slaves = {}
    BY NocAssumption
  <1> HIDE DEF p
  <1>6. p \in Flit
    BY <1>2, <1>3, <1>4, <1>5 DEF Flit
  <1> QED BY <1>2, <1>6 DEF p

\* What is left of a packet when a flit has left the queue.
LEMMA LessOne ==
    ASSUME NEW p \in Flit, p.flit_left # 1
    PROVE  LET r == [p EXCEPT !.flit_left = @ - 1] IN
           /\ r \in Flit /\ r.kind = p.kind /\ r.src = p.src /\ r.dst = p.dst
           /\ r.session = p.session /\ r.size = p.size /\ r.flit_left = p.flit_left - 1
           /\ r.payload = p.payload
  <1> DEFINE r == [p EXCEPT !.flit_left = @ - 1]
  <1>1. /\ r.kind = p.kind /\ r.src = p.src /\ r.dst = p.dst
        /\ r.session = p.session /\ r.size = p.size /\ r.flit_left = p.flit_left - 1
        /\ r.payload = p.payload
    BY DEF Flit
  <1>2. p.flit_left - 1 \in Nat \ {0}
    BY DEF Flit
  <1>3. r \in [kind : {"DATA", "ACK", "PART"}, src : Elements, dst : Elements,
               session : Masters \X (Nat \ {0}), size : Nat \ {0}, flit_left : Nat \ {0},
               payload : Nat]
    BY <1>2 DEF Flit
  <1>4. p.flit_left - 1 <= p.size
    BY DEF Flit
  <1> HIDE DEF r
  <1>5. r \in Flit
    BY <1>1, <1>3, <1>4 DEF Flit
  <1> QED BY <1>1, <1>5 DEF r

\* Facts about queues, that the provers do not see for themselves.
LEMMA AppendHas ==
    ASSUME NEW S, NEW q \in Seq(S), NEW x \in S
    PROVE  /\ Append(q, x) \in Seq(S) /\ Len(q) \in Nat /\ Len(Append(q, x)) = Len(q) + 1
           /\ DOMAIN q = 1 .. Len(q) /\ DOMAIN Append(q, x) = 1 .. Len(q) + 1
           /\ \A i \in 1 .. Len(q) : Append(q, x)[i] = q[i] /\ q[i] \in S
           /\ Append(q, x)[Len(q) + 1] = x
  BY AppendProperties, LenProperties, ElementOfSeq

\* What is left of a queue without its first element.
LEMMA TailHas ==
    ASSUME NEW S, NEW q \in Seq(S), q # <<>>
    PROVE  /\ Tail(q) \in Seq(S) /\ Len(q) \in Nat \ {0} /\ Len(Tail(q)) = Len(q) - 1
           /\ DOMAIN q = 1 .. Len(q) /\ DOMAIN Tail(q) = 1 .. Len(q) - 1
           /\ Head(q) = q[1] /\ Head(q) \in S
           /\ \A i \in 1 .. Len(q) - 1 : Tail(q)[i] = q[i + 1] /\ q[i + 1] \in S
  <1>1. /\ Tail(q) \in Seq(S) /\ Len(q) \in Nat /\ Len(q) # 0 /\ Len(Tail(q)) = Len(q) - 1
        /\ Head(q) = q[1] /\ Head(q) \in S /\ DOMAIN q = 1 .. Len(q)
    BY HeadTailProperties, LenProperties, EmptySeq
  <1>2. DOMAIN Tail(q) = 1 .. Len(q) - 1
    BY <1>1, LenProperties
  <1>3. \A i \in 1 .. Len(q) - 1 : Tail(q)[i] = q[i + 1] /\ q[i + 1] \in S
    BY <1>1, <1>2, HeadTailProperties, ElementOfSeq
  <1> QED BY <1>1, <1>2, <1>3

-----------------------------------------------------------------------------
(* The queues of the elements at a clock edge *)

Same(f, g) ==
    /\ f.kind = g.kind /\ f.src = g.src /\ f.dst = g.dst /\ f.session = g.session
    /\ f.size = g.size /\ f.payload = g.payload

\* The acknowledgement that a master adds to its queue at a clock edge.
NewAck(e, g) ==
    /\ e \in Masters /\ Into(e) \in Flit /\ Accepted(e, Into(e)) /\ g = Ack(e, Into(e))
    /\ g \in Flit /\ g.kind = "ACK" /\ g.dst \in Slaves /\ g.src = e /\ g.session = Into(e).session

\* nextFlit has sent the first flit of q, and one packet may have been added.
QueueMoves(e, c) ==
    LET q == packet_queue[e]
        r == packet_queue'[e]
        out == wire'[Edge[e].from]
    IN  /\ r \in Seq(Flit) /\ Len(r) >= Len(q) - c
        /\ q # <<>> => out = q[1] /\ q[1] \in Flit
        /\ q = <<>> => out = Silence \/ NewAck(e, out)
        /\ q # <<>> => (c = 1 <=> q[1].flit_left = 1)
        /\ q = <<>> => c = 0
        /\ \A i \in 1 .. Len(q) - c :
              /\ Same(r[i], q[i + c])
              /\ r[i].flit_left = IF i + c = 1 THEN q[1].flit_left - 1 ELSE q[i + c].flit_left
        /\ \A i \in DOMAIN r : i > Len(q) - c => NewAck(e, r[i])

\* The acknowledgement of a master for an answer it accepts.
LEMMA AckType ==
    ASSUME Types, NEW m \in Masters, Accepted(m, Into(m))
    PROVE  NewAck(m, Ack(m, Into(m))) /\ Ack(m, Into(m)).flit_left = 1
  <1> DEFINE f == Into(m)
  <1>1. f # Silence
    BY DEF Accepted, Arrives, Silence
  <1>2. f \in Flit /\ f.dst = m
    <2>1. m \in Elements
      BY DEF Elements
    <2>2. Edge[m].to \in Links
      BY <2>1 DEF Links
    <2> QED BY <1>1, <2>1, <2>2 DEF Into, Types, FlitTypes
  <1> HIDE DEF f
  <1>3. /\ f.src \in Slaves /\ f.session[1] = m /\ f.session[2] \in Nat \ {0}
        /\ f.session = <<f.session[1], f.session[2]>>
    BY <1>2, FlitFields
  <1>4. Ack(m, f) = Packet("ACK", m, f.src, <<m, f.session[2]>>, 1, 0)
    BY <1>3 DEF Ack
  <1>5. m \in Elements /\ f.src \in Elements
    BY <1>3 DEF Elements
  <1> DEFINE n == f.session[2]   src == f.src
  <1>6. n \in Nat \ {0} /\ src \in Slaves /\ src \in Elements
    BY <1>3, <1>5
  <1>7. Ack(m, f) = Packet("ACK", m, src, <<m, n>>, 1, 0) /\ f.session = <<m, n>>
    BY <1>3, <1>4
  <1> HIDE DEF n, src
  <1>8. /\ Packet("ACK", m, src, <<m, n>>, 1, 0) \in Flit
        /\ Packet("ACK", m, src, <<m, n>>, 1, 0).kind = "ACK"
        /\ Packet("ACK", m, src, <<m, n>>, 1, 0).dst = src
        /\ Packet("ACK", m, src, <<m, n>>, 1, 0).src = m
        /\ Packet("ACK", m, src, <<m, n>>, 1, 0).session = <<m, n>>
        /\ Packet("ACK", m, src, <<m, n>>, 1, 0).flit_left = 1
    BY <1>5, <1>6, PacketType
  <1> QED BY <1>2, <1>6, <1>7, <1>8 DEF NewAck, f

\* AfterFlit of a queue that has a packet.
LEMMA AfterFlitHas ==
    ASSUME NEW q \in Seq(Flit), q # <<>>
    PROVE  \E c \in {0, 1} :
             /\ c = 1 <=> q[1].flit_left = 1
             /\ AfterFlit(q) \in Seq(Flit) /\ Len(AfterFlit(q)) = Len(q) - c
             /\ q[1] \in Flit /\ Len(q) \in Nat \ {0}
             /\ \A i \in 1 .. Len(q) - c :
                  /\ Same(AfterFlit(q)[i], q[i + c])
                  /\ AfterFlit(q)[i].flit_left = IF i + c = 1 THEN q[1].flit_left - 1 ELSE q[i + c].flit_left
  <1>1. /\ Tail(q) \in Seq(Flit) /\ Len(q) \in Nat \ {0} /\ Len(Tail(q)) = Len(q) - 1
        /\ Head(q) = q[1] /\ Head(q) \in Flit
        /\ \A i \in 1 .. Len(q) - 1 : Tail(q)[i] = q[i + 1] /\ q[i + 1] \in Flit
    BY TailHas
  <1>2. CASE q[1].flit_left = 1
    <2>1. AfterFlit(q) = Tail(q)
      BY <1>1, <1>2 DEF AfterFlit
    <2>2. \A i \in 1 .. Len(q) - 1 : i + 1 # 1
      BY <1>1
    <2> QED BY <1>1, <1>2, <2>1, <2>2 DEF Same
  <1>3. CASE q[1].flit_left # 1
    <2> DEFINE p == [q[1] EXCEPT !.flit_left = @ - 1]   s == <<p>>
    <2>1. /\ p \in Flit /\ p.flit_left = q[1].flit_left - 1 /\ Same(p, q[1])
      BY <1>1, <1>3, LessOne DEF Same
    <2>2. AfterFlit(q) = s \o Tail(q)
      BY <1>1, <1>3 DEF AfterFlit
    <2> HIDE DEF p
    <2>3. s \in Seq(Flit) /\ Len(s) = 1 /\ s[1] = p
      BY <2>1
    <2> HIDE DEF s
    <2>4. /\ s \o Tail(q) \in Seq(Flit) /\ Len(s \o Tail(q)) = Len(s) + Len(Tail(q))
          /\ \A i \in 1 .. Len(s) + Len(Tail(q)) :
                (s \o Tail(q))[i] = IF i <= Len(s) THEN s[i] ELSE Tail(q)[i - Len(s)]
      BY <1>1, <2>3, ConcatProperties
    <2>5. ASSUME NEW i \in 1 .. Len(q) - 0
          PROVE  /\ Same(AfterFlit(q)[i], q[i + 0])
                 /\ AfterFlit(q)[i].flit_left = IF i + 0 = 1 THEN q[1].flit_left - 1 ELSE q[i + 0].flit_left
      <3>1. CASE i = 1
        BY <1>1, <2>1, <2>2, <2>3, <2>4, <3>1
      <3>2. CASE i # 1
        <4>1. i - 1 \in 1 .. Len(q) - 1 /\ (i - 1) + 1 = i
          BY <1>1, <3>2
        <4>2. AfterFlit(q)[i] = q[i]
          <5>1. (s \o Tail(q))[i] = Tail(q)[i - 1]
            BY <1>1, <2>3, <2>4, <3>2
          <5> QED BY <1>1, <2>2, <4>1, <5>1
        <4> QED BY <1>1, <3>2, <4>2 DEF Same
      <3> QED BY <3>1, <3>2
    <2>6. AfterFlit(q) \in Seq(Flit) /\ Len(AfterFlit(q)) = Len(q) - 0
      BY <1>1, <2>2, <2>3, <2>4
    <2>7. 0 = 1 <=> q[1].flit_left = 1
      BY <1>3
    <2> HIDE DEF s
    <2> WITNESS 0 \in {0, 1}
    <2> QED BY ONLY <1>1, <2>5, <2>6, <2>7
  <1> QED BY <1>2, <1>3

\* The queue of an element at a clock edge.
LEMMA TickQueue ==
    ASSUME Types, Tick, NEW e \in Elements
    PROVE  \E c \in {0, 1} : QueueMoves(e, c)
  <1> DEFINE q == packet_queue[e]   f == Into(e)   a == Ack(e, f)
  <1>1. PICK rxFirst :
          /\ packet_queue' = [x \in Elements |-> QueueAfter(x, x \in rxFirst)]
          /\ wire' = [l \in Links |->
                IF l \in DOMAIN Writer THEN Emitted(Writer[l], Writer[l] \in rxFirst)
                ELSE Forwarded(Seen(rxFirst), Leaving(Seen(rxFirst)), l)]
    BY DEF Tick
  <1>2. Edge[e].from \in DOMAIN Writer /\ Edge[e].from \in Links /\ Writer[Edge[e].from] = e
    BY LinkAssumption DEF Writer, Links
  <1>3. packet_queue'[e] = QueueAfter(e, e \in rxFirst) /\ wire'[Edge[e].from] = Emitted(e, e \in rxFirst)
    BY <1>1, <1>2
  <1>4. q \in Seq(Flit)
    BY DEF Types, FlitTypes
  <1> DEFINE has == e \in Masters /\ Accepted(e, f)
  <1>5. ASSUME has PROVE NewAck(e, a) /\ a \in Flit /\ a.flit_left = 1
    BY <1>5, AckType DEF NewAck
  <1>6. CASE ~has
    <2>1. packet_queue'[e] = AfterFlit(q) /\ wire'[Edge[e].from] = NextFlit(q)
      <3>1. q \o <<>> = q /\ AfterFlit(q) \in Seq(Flit)
        <4>1. CASE q = <<>>
          BY <1>4, <4>1, ConcatEmptySeq DEF AfterFlit
        <4>2. CASE q # <<>>
          BY <1>4, <4>2, ConcatEmptySeq, AfterFlitHas
        <4> QED BY <4>1, <4>2
      <3>2. AfterFlit(q) \o <<>> = AfterFlit(q)
        BY <3>1, ConcatEmptySeq
      <3> QED BY <1>3, <1>6, <3>1, <3>2 DEF QueueAfter, Emitted, Into
    <2> HIDE DEF f, a, has
    <2>2. CASE q = <<>>
      <3>1. packet_queue'[e] = <<>> /\ wire'[Edge[e].from] = Silence
        BY <2>1, <2>2 DEF AfterFlit, NextFlit
      <3>2. <<>> \in Seq(Flit) /\ Len(<<>>) = 0 /\ DOMAIN (<<>>) = 1 .. 0
        BY LenProperties, EmptySeq
      <3>3. QueueMoves(e, 0)
        BY <2>2, <3>1, <3>2 DEF QueueMoves
      <3> QED BY <3>3
    <2>3. CASE q # <<>>
      <3>1. PICK c \in {0, 1} :
             /\ c = 1 <=> q[1].flit_left = 1
             /\ AfterFlit(q) \in Seq(Flit) /\ Len(AfterFlit(q)) = Len(q) - c
             /\ q[1] \in Flit /\ Len(q) \in Nat \ {0}
             /\ \A i \in 1 .. Len(q) - c :
                  /\ Same(AfterFlit(q)[i], q[i + c])
                  /\ AfterFlit(q)[i].flit_left = IF i + c = 1 THEN q[1].flit_left - 1 ELSE q[i + c].flit_left
        BY <1>4, <2>3, AfterFlitHas
      <3>2. NextFlit(q) = q[1]
        BY <1>4, <2>3, TailHas DEF NextFlit
      <3>3. DOMAIN AfterFlit(q) = 1 .. Len(q) - c
        BY <3>1, LenProperties
      <3>4. QueueMoves(e, c)
        BY <2>1, <2>3, <3>1, <3>2, <3>3 DEF QueueMoves
      <3> QED BY <3>4
    <2> QED BY <2>2, <2>3
  <1>7. CASE has
    <2>0. NewAck(e, a) /\ a \in Flit /\ a.flit_left = 1
      BY <1>5, <1>7
    <2>1. packet_queue'[e] = (IF e \in rxFirst THEN AfterFlit(q \o <<a>>) ELSE AfterFlit(q) \o <<a>>)
      BY <1>3, <1>7 DEF QueueAfter, Into
    <2>2. wire'[Edge[e].from] = IF e \in rxFirst /\ q = <<>> THEN a ELSE NextFlit(q)
      BY <1>3, <1>7 DEF Emitted, Into
    <2> HIDE DEF f, a, has
    <2> DEFINE s == <<a>>
    <2>3. s \in Seq(Flit) /\ Len(s) = 1 /\ s[1] = a /\ s # <<>> /\ Head(s) = a /\ Tail(s) = <<>>
      BY <2>0
    <2>4. <<>> \in Seq(Flit) /\ Len(<<>>) = 0 /\ DOMAIN (<<>>) = 1 .. 0 /\ DOMAIN s = 1 .. 1
      BY <2>3, LenProperties, EmptySeq
    <2>5. packet_queue'[e] = IF e \in rxFirst THEN AfterFlit(q \o s) ELSE AfterFlit(q) \o s
      BY <2>1
    <2> HIDE DEF s
    <2>6. CASE q = <<>>
      <3>1. q \o s = s
        BY <2>3, <2>6, ConcatEmptySeq
      <3>2. AfterFlit(s) = <<>>
        BY <2>0, <2>3 DEF AfterFlit
      <3>3. AfterFlit(q) \o s = s
        BY <2>6, <3>1 DEF AfterFlit
      <3>4. CASE e \in rxFirst
        <4>1. packet_queue'[e] = <<>> /\ wire'[Edge[e].from] = a
          BY <2>2, <2>5, <2>6, <3>1, <3>2, <3>4
        <4>2. QueueMoves(e, 0)
          BY <2>0, <2>4, <2>6, <4>1 DEF QueueMoves
        <4> QED BY <4>2
      <3>5. CASE e \notin rxFirst
        <4>1. packet_queue'[e] = s /\ wire'[Edge[e].from] = Silence
          BY <2>2, <2>5, <2>6, <3>3, <3>5 DEF NextFlit
        <4>2. \A i \in 1 .. 1 : s[i] = a
          BY <2>3
        <4>3. QueueMoves(e, 0)
          BY <2>0, <2>3, <2>4, <2>6, <4>1, <4>2 DEF QueueMoves
        <4> QED BY <4>3
      <3> QED BY <3>4, <3>5
    <2>7. CASE q # <<>>
      <3>1. PICK c \in {0, 1} :
             /\ c = 1 <=> q[1].flit_left = 1
             /\ AfterFlit(q) \in Seq(Flit) /\ Len(AfterFlit(q)) = Len(q) - c
             /\ q[1] \in Flit /\ Len(q) \in Nat \ {0}
             /\ \A i \in 1 .. Len(q) - c :
                  /\ Same(AfterFlit(q)[i], q[i + c])
                  /\ AfterFlit(q)[i].flit_left = IF i + c = 1 THEN q[1].flit_left - 1 ELSE q[i + c].flit_left
        BY <1>4, <2>7, AfterFlitHas
      <3>2. wire'[Edge[e].from] = q[1]
        BY <1>4, <2>2, <2>7, TailHas DEF NextFlit
      <3>3. AfterFlit(q \o s) = AfterFlit(q) \o s
        <4>1. q \o s \in Seq(Flit) /\ Head(q \o s) = Head(q) /\ Tail(q \o s) = Tail(q) \o s /\ q \o s # <<>>
          <5>1. q \o s = Append(q, a)
            BY <1>4, <2>0 DEF s
          <5>2. /\ Append(q, a) \in Seq(Flit) /\ Append(q, a) # <<>>
                /\ Head(Append(q, a)) = Head(q) /\ Tail(Append(q, a)) = Append(Tail(q), a)
            BY <1>4, <2>0, <2>7, AppendProperties
          <5>3. Append(Tail(q), a) = Tail(q) \o s
            BY <1>4, <2>0, <2>7, TailHas DEF s
          <5> QED BY <5>1, <5>2, <5>3
        <4>2. CASE Head(q).flit_left = 1
          BY <2>7, <4>1, <4>2 DEF AfterFlit
        <4>3. CASE Head(q).flit_left # 1
          <5> DEFINE p == <<[Head(q) EXCEPT !.flit_left = @ - 1]>>
          <5>1. p \in Seq(Flit)
            <6>1. [Head(q) EXCEPT !.flit_left = @ - 1] \in Flit
              BY <1>4, <2>7, <4>3, TailHas, LessOne
            <6> QED BY <6>1
          <5>2. AfterFlit(q \o s) = p \o Tail(q \o s) /\ AfterFlit(q) = p \o Tail(q)
            BY <2>7, <4>1, <4>3 DEF AfterFlit
          <5> HIDE DEF p
          <5>3. Tail(q) \in Seq(Flit)
            BY <1>4, <2>7, TailHas
          <5>4. p \o (Tail(q) \o s) = (p \o Tail(q)) \o s
            <6> DEFINE t == Tail(q)
            <6>1. t \in Seq(Flit)
              BY <5>3
            <6> HIDE DEF t
            <6>2. (p \o t) \o s = p \o (t \o s)
              BY <2>3, <5>1, <6>1, ConcatAssociative
            <6> QED BY <6>2 DEF t
          <5> QED BY <4>1, <5>2, <5>4
        <4> QED BY <4>2, <4>3
      <3>4. packet_queue'[e] = AfterFlit(q) \o s
        BY <2>5, <3>3
      <3> DEFINE r == AfterFlit(q)
      <3>5. /\ r \o s \in Seq(Flit) /\ Len(r \o s) = Len(r) + Len(s)
            /\ \A i \in 1 .. Len(r) + Len(s) : (r \o s)[i] = IF i <= Len(r) THEN r[i] ELSE s[i - Len(r)]
        BY <2>3, <3>1, ConcatProperties
      <3>6. DOMAIN (r \o s) = 1 .. Len(q) - c + 1
        BY <2>3, <3>1, <3>5, LenProperties
      <3>7. \A i \in 1 .. Len(q) - c : (r \o s)[i] = r[i]
        BY <2>3, <3>1, <3>5
      <3>8. \A i \in 1 .. Len(q) - c + 1 : i > Len(q) - c => (r \o s)[i] = a
        BY <2>3, <3>1, <3>5, SMTT(30)
      <3>9. QueueMoves(e, c)
        <4>1. Len(r \o s) >= Len(q) - c
          BY <2>3, <3>1, <3>5
        <4>2. q # <<>> => (c = 1 <=> q[1].flit_left = 1)
          BY <3>1
        <4>3. \A i \in 1 .. Len(q) - c :
                  /\ Same((r \o s)[i], q[i + c])
                  /\ (r \o s)[i].flit_left = IF i + c = 1 THEN q[1].flit_left - 1 ELSE q[i + c].flit_left
          BY <3>1, <3>7
        <4>4. \A i \in DOMAIN (r \o s) : i > Len(q) - c => NewAck(e, (r \o s)[i])
          BY <2>0, <3>6, <3>8
        <4> HIDE DEF r
        <4> QED BY <2>7, <3>1, <3>2, <3>4, <3>5, <4>1, <4>2, <4>3, <4>4 DEF QueueMoves, r
      <3> QED BY <3>9
    <2> QED BY <2>6, <2>7
  <1> QED BY <1>6, <1>7

-----------------------------------------------------------------------------
(* The links, and the buffers behind them, at a clock edge *)

OutOf(l) == Route[SwitchOf[l]][Line(l)[1].dst]

\* What a clock edge makes of a line: its first flit may leave, its last one be lost.
LineKeeps(l, left) ==
    \E c \in {0, 1}, n \in Nat :
        /\ c = 1 <=> l \in left
        /\ c <= n
        /\ \/ n = Len(Line(l))
           \/ n = Len(Line(l)) - 1 /\ wire[l] # Silence /\ wire[l].session \in lost'
        /\ buffer'[l] \in Seq(Flit) /\ Len(buffer'[l]) = n - c
        /\ \A i \in 1 .. n - c : buffer'[l][i] = Line(l)[i + c]

\* The first flits of the lines in left go to the next line, each to its own.
LineMoves(left) ==
    /\ left \subseteq Buffered
    /\ \A l \in Buffered : LineKeeps(l, left)
    /\ \A k \in left : /\ Len(Line(k)) >= 1 /\ OutOf(k) \in Links \ DOMAIN Writer
                       /\ wire'[OutOf(k)] = Line(k)[1]
    /\ \A l \in Links \ DOMAIN Writer :
          wire'[l] = Silence \/ \E k \in left : OutOf(k) = l /\ wire'[l] = Line(k)[1]

\* A line is a queue of flits.
LEMMA LineHas ==
    ASSUME Types, NEW l \in Links
    PROVE  /\ Line(l) \in Seq(Flit) /\ Len(Line(l)) \in Nat /\ DOMAIN Line(l) = 1 .. Len(Line(l))
           /\ \A i \in 1 .. Len(Line(l)) : Line(l)[i] \in Flit /\ Line(l)[i].session \in Opened
           /\ wire[l] # Silence => /\ wire[l] \in Flit /\ Len(Line(l)) >= 1
                                   /\ Line(l)[Len(Line(l))] = wire[l]
           /\ l \in Buffered =>
                /\ buffer[l] \in Seq(Flit) /\ Len(buffer[l]) \in Nat
                /\ Len(Line(l)) = IF wire[l] = Silence THEN Len(buffer[l]) ELSE Len(buffer[l]) + 1
                /\ \A i \in 1 .. Len(buffer[l]) : Line(l)[i] = buffer[l][i]
           /\ l \notin Buffered => Len(Line(l)) = IF wire[l] = Silence THEN 0 ELSE 1
  <1>1. wire[l] \in Flit \cup {Silence}
    BY DEF Types, FlitTypes
  <1>2. CASE l \in Buffered
    <2>1. buffer[l] \in Seq(Flit)
      BY <1>2 DEF Types, FlitTypes
    <2>2. CASE wire[l] = Silence
      <3>1. Line(l) = buffer[l]
        BY <1>2, <2>2 DEF Line
      <3>2. Len(buffer[l]) \in Nat /\ DOMAIN buffer[l] = 1 .. Len(buffer[l])
        BY <2>1, LenProperties
      <3>3. \A i \in 1 .. Len(buffer[l]) : buffer[l][i] \in Flit
        BY <2>1, ElementOfSeq
      <3>4. \A i \in DOMAIN Line(l) : Line(l)[i].session \in Opened
        BY <1>2, <3>1 DEF Types, FlitTypes
      <3> QED BY ONLY <1>2, <2>1, <2>2, <3>1, <3>2, <3>3, <3>4
    <2>3. CASE wire[l] # Silence
      <3> DEFINE x == wire[l]   q == buffer[l]
      <3>0. x \in Flit /\ q \in Seq(Flit)
        BY <1>1, <2>1, <2>3
      <3>1. Line(l) = Append(q, x)
        BY <1>2, <2>3 DEF Line
      <3>2. x.session \in Opened /\ \A i \in DOMAIN q : q[i].session \in Opened
        BY <1>2, <2>3 DEF Types, FlitTypes
      <3> HIDE DEF x, q
      <3>3. /\ Append(q, x) \in Seq(Flit) /\ Len(q) \in Nat /\ Len(Append(q, x)) = Len(q) + 1
            /\ DOMAIN Append(q, x) = 1 .. Len(q) + 1
            /\ \A i \in 1 .. Len(q) : Append(q, x)[i] = q[i] /\ q[i] \in Flit
            /\ Append(q, x)[Len(q) + 1] = x
        BY <3>0, AppendHas
      <3>4. \A i \in 1 .. Len(q) + 1 : Append(q, x)[i] \in Flit /\ Append(q, x)[i].session \in Opened
        <4>1. \A i \in 1 .. Len(q) + 1 : i = Len(q) + 1 \/ i \in 1 .. Len(q)
          BY <3>3
        <4>2. DOMAIN q = 1 .. Len(q)
          BY <3>0, LenProperties
        <4> QED BY ONLY <3>0, <3>2, <3>3, <4>1, <4>2
      <3> QED BY ONLY <1>2, <2>3, <3>0, <3>1, <3>2, <3>3, <3>4 DEF x, q
    <2> QED BY <2>2, <2>3
  <1>3. CASE l \notin Buffered
    <2>1. CASE wire[l] = Silence
      <3>1. Line(l) = <<>>
        BY <1>3, <2>1 DEF Line
      <3>2. <<>> \in Seq(Flit) /\ Len(<<>>) = 0 /\ DOMAIN (<<>>) = 1 .. 0
        BY LenProperties, EmptySeq
      <3> QED BY ONLY <1>3, <2>1, <3>1, <3>2
    <2>2. CASE wire[l] # Silence
      <3> DEFINE x == wire[l]
      <3>1. Line(l) = <<x>> /\ x \in Flit
        BY <1>1, <1>3, <2>2 DEF Line
      <3>2. x.session \in Opened
        BY <2>2 DEF Types, FlitTypes
      <3> HIDE DEF x
      <3>3. <<x>> \in Seq(Flit) /\ Len(<<x>>) = 1 /\ <<x>>[1] = x
        BY <3>1
      <3>4. DOMAIN (<<x>>) = 1 .. 1 /\ \A i \in 1 .. 1 : i = 1
        BY <3>3, LenProperties
      <3> QED BY ONLY <1>3, <2>2, <3>1, <3>2, <3>3, <3>4 DEF x
    <2> QED BY <2>1, <2>2
  <1> QED BY <1>2, <1>3

\* The switch and the port a link enters.
LEMMA Enters ==
    ASSUME NEW l \in Buffered
    PROVE  /\ l \in Links /\ SwitchOf[l] \in Switches
           /\ PortOf[l] \in Nat \ {0} /\ PortOf[l] \in DOMAIN InPorts[SwitchOf[l]]
           /\ InPorts[SwitchOf[l]][PortOf[l]] = l
           /\ \A j \in 1 .. PortOf[l] - 1 : j \in DOMAIN InPorts[SwitchOf[l]]
  <1>1. \E w \in Switches : l \in ToSet(InPorts[w])
    BY DEF Buffered
  <1>2. SwitchOf[l] \in Switches /\ l \in ToSet(InPorts[SwitchOf[l]])
    BY <1>1 DEF SwitchOf
  <1> DEFINE w == SwitchOf[l]
  <1>3. \E i \in DOMAIN InPorts[w] : InPorts[w][i] = l
    BY <1>2 DEF ToSet
  <1>4. PortOf[l] \in DOMAIN InPorts[w] /\ InPorts[w][PortOf[l]] = l
    BY <1>3 DEF PortOf
  <1>5. DOMAIN InPorts[w] = 1 .. Len(InPorts[w]) /\ Len(InPorts[w]) \in Nat
    BY <1>2, LinkAssumption, LenProperties
  <1> QED BY <1>2, <1>4, <1>5 DEF Links

\* What push and pop do to the buffer of a port at a clock edge.
LEMMA BufferKeeps ==
    ASSUME Types, NEW l \in Buffered, NEW first \in BOOLEAN, NEW leaves \in BOOLEAN,
           NEW seen, seen = (IF first THEN Pushed(buffer[l], l) ELSE buffer[l]),
           leaves => seen # <<>>,
           NEW before, before = IF first THEN buffer[l] ELSE IF leaves THEN Tail(seen) ELSE seen,
           wire[l] # Silence /\ Full(before, l) => wire[l].session \in lost',
           buffer'[l] = IF first THEN IF leaves THEN Tail(seen) ELSE seen ELSE Pushed(before, l)
    PROVE  /\ LineKeeps(l, IF leaves THEN {l} ELSE {})
           /\ seen \in Seq(Flit)
           /\ seen # <<>> => Head(seen) = Line(l)[1] /\ Len(Line(l)) >= 1
  <1> DEFINE L == Line(l)   q == buffer[l]   x == wire[l]   c == IF leaves THEN 1 ELSE 0
  <1>1. /\ L \in Seq(Flit) /\ Len(L) \in Nat /\ q \in Seq(Flit) /\ Len(q) \in Nat
        /\ Len(L) = IF x = Silence THEN Len(q) ELSE Len(q) + 1
        /\ \A i \in 1 .. Len(q) : L[i] = q[i]
        /\ x # Silence => x \in Flit /\ L[Len(L)] = x
    BY LineHas, Enters
  <1>2. c \in {0, 1} /\ (c = 1 <=> l \in IF leaves THEN {l} ELSE {})
    OBVIOUS
  <1>3. L = IF x = Silence THEN q ELSE Append(q, x)
    BY DEF Line
  <1>4. /\ x # Silence /\ Full(before, l) => x.session \in lost'
        /\ seen = IF first THEN (IF x = Silence \/ Full(q, l) THEN q ELSE Append(q, x)) ELSE q
        /\ before = IF first THEN q ELSE IF leaves THEN Tail(seen) ELSE seen
        /\ buffer'[l] = IF first THEN IF leaves THEN Tail(seen) ELSE seen
                        ELSE IF x = Silence \/ Full(before, l) THEN before ELSE Append(before, x)
    BY DEF Pushed
  <1> HIDE DEF L, q, x, c
  <1> SUFFICES /\ \E n \in Nat :
                    /\ c <= n
                    /\ n = Len(L) \/ (n = Len(L) - 1 /\ x # Silence /\ x.session \in lost')
                    /\ buffer'[l] \in Seq(Flit) /\ Len(buffer'[l]) = n - c
                    /\ \A i \in 1 .. n - c : buffer'[l][i] = L[i + c]
               /\ seen \in Seq(Flit)
               /\ seen # <<>> => Head(seen) = L[1] /\ Len(L) >= 1
    BY <1>2 DEF LineKeeps, L, x
  <1>5. ASSUME NEW v \in Seq(Flit), NEW n \in Nat, Len(v) = n, \A i \in 1 .. n : v[i] = L[i],
               leaves => v # <<>>
        PROVE  LET r == IF leaves THEN Tail(v) ELSE v IN
               /\ r \in Seq(Flit) /\ Len(r) = n - c /\ c <= n
               /\ \A i \in 1 .. n - c : r[i] = L[i + c]
    <2>1. CASE leaves
      <3>1. /\ Tail(v) \in Seq(Flit) /\ Len(v) \in Nat \ {0} /\ Len(Tail(v)) = Len(v) - 1
            /\ \A i \in 1 .. Len(v) - 1 : Tail(v)[i] = v[i + 1]
        BY <1>5, <2>1, TailHas
      <3>2. \A i \in 1 .. n - 1 : i + 1 \in 1 .. n
        OBVIOUS
      <3> QED BY <1>5, <2>1, <3>1, <3>2 DEF c
    <2>2. CASE ~leaves
      BY <1>5, <2>2 DEF c
    <2> QED BY <2>1, <2>2
  <1>6. ASSUME NEW v \in Seq(Flit), NEW n \in Nat, Len(v) = n, \A i \in 1 .. n : v[i] = L[i], v # <<>>
        PROVE  Head(v) = L[1] /\ n >= 1
    <2>1. Head(v) = v[1] /\ Len(v) \in Nat \ {0}
      BY <1>6, TailHas
    <2> QED BY <1>6, <2>1
  <1>7. CASE first
    <2> DEFINE n == Len(seen)
    <2>1. /\ seen \in Seq(Flit) /\ n \in Nat /\ \A i \in 1 .. n : seen[i] = L[i]
          /\ n = Len(L) \/ (n = Len(L) - 1 /\ x # Silence /\ x.session \in lost')
      <3>1. CASE x # Silence /\ Full(q, l)
        BY <1>1, <1>4, <1>7, <3>1
      <3>2. CASE ~(x # Silence /\ Full(q, l))
        BY <1>1, <1>3, <1>4, <1>7, <3>2
      <3> QED BY <3>1, <3>2
    <2>2. LET r == IF leaves THEN Tail(seen) ELSE seen IN
               /\ r \in Seq(Flit) /\ Len(r) = n - c /\ c <= n
               /\ \A i \in 1 .. n - c : r[i] = L[i + c]
      BY <1>5, <2>1
    <2>3. buffer'[l] = IF leaves THEN Tail(seen) ELSE seen
      BY <1>4, <1>7
    <2>4. seen # <<>> => Head(seen) = L[1] /\ n >= 1
      BY <1>6, <2>1
    <2>5. n <= Len(L)
      BY <1>1, <2>1
    <2> HIDE DEF n
    <2>6. /\ buffer'[l] \in Seq(Flit) /\ Len(buffer'[l]) = n - c /\ c <= n
          /\ \A i \in 1 .. n - c : buffer'[l][i] = L[i + c]
      BY ONLY <2>2, <2>3
    <2>7. n \in Nat /\ (n = Len(L) \/ (n = Len(L) - 1 /\ x # Silence /\ x.session \in lost'))
      BY <2>1
    <2>8. seen # <<>> => Head(seen) = L[1] /\ Len(L) >= 1
      BY <1>1, <2>4, <2>5, <2>7
    <2>9. \E k \in Nat :
                    /\ c <= k
                    /\ k = Len(L) \/ (k = Len(L) - 1 /\ x # Silence /\ x.session \in lost')
                    /\ buffer'[l] \in Seq(Flit) /\ Len(buffer'[l]) = k - c
                    /\ \A i \in 1 .. k - c : buffer'[l][i] = L[i + c]
      BY ONLY <2>6, <2>7
    <2> QED BY ONLY <2>1, <2>8, <2>9
  <1>8. CASE ~first
    <2> DEFINE r == IF leaves THEN Tail(q) ELSE q
    <2>1. seen = q /\ before = r /\ buffer'[l] = IF x = Silence \/ Full(r, l) THEN r ELSE Append(r, x)
      BY <1>4, <1>8
    <2>2. /\ r \in Seq(Flit) /\ Len(r) = Len(q) - c /\ c <= Len(q)
          /\ \A i \in 1 .. Len(q) - c : r[i] = L[i + c]
      BY <1>1, <1>5, <2>1
    <2>3. seen \in Seq(Flit) /\ (seen # <<>> => Head(seen) = L[1] /\ Len(q) >= 1) /\ Len(q) <= Len(L)
      BY <1>1, <1>6, <2>1
    <2>4. c \in {0, 1}
      BY <1>2
    <2>5. x # Silence /\ Full(r, l) => x.session \in lost'
      BY <1>4, <2>1
    <2> HIDE DEF r
    <2>9. seen # <<>> => Head(seen) = L[1] /\ Len(L) >= 1
      BY ONLY <1>1, <2>3
    <2>6. CASE x = Silence
      <3>1. buffer'[l] = r /\ Len(q) = Len(L)
        BY ONLY <1>1, <2>1, <2>6
      <3>2. \E n \in Nat :
                    /\ c <= n /\ n = Len(L)
                    /\ buffer'[l] \in Seq(Flit) /\ Len(buffer'[l]) = n - c
                    /\ \A i \in 1 .. n - c : buffer'[l][i] = L[i + c]
        BY ONLY <1>1, <2>2, <3>1
      <3> QED BY ONLY <2>3, <2>9, <3>2
    <2>7. CASE x # Silence /\ Full(r, l)
      <3>1. buffer'[l] = r /\ Len(q) = Len(L) - 1 /\ x.session \in lost'
        <4>1. Len(L) = Len(q) + 1 /\ Len(q) \in Nat
          BY ONLY <1>1, <2>7
        <4>2. buffer'[l] = r
          BY ONLY <2>1, <2>7
        <4>3. x.session \in lost'
          BY ONLY <2>5, <2>7
        <4> QED BY ONLY <4>1, <4>2, <4>3
      <3>2. \E n \in Nat :
                    /\ c <= n /\ n = Len(L) - 1 /\ x # Silence /\ x.session \in lost'
                    /\ buffer'[l] \in Seq(Flit) /\ Len(buffer'[l]) = n - c
                    /\ \A i \in 1 .. n - c : buffer'[l][i] = L[i + c]
        BY ONLY <1>1, <2>2, <2>7, <3>1
      <3> QED BY ONLY <2>3, <2>9, <3>2
    <2>8. CASE x # Silence /\ ~Full(r, l)
      <3>1. buffer'[l] = Append(r, x) /\ Len(L) = Len(q) + 1 /\ x \in Flit /\ L[Len(L)] = x
        BY ONLY <1>1, <2>1, <2>8
      <3>2. /\ Append(r, x) \in Seq(Flit) /\ Len(Append(r, x)) = Len(r) + 1
            /\ \A i \in 1 .. Len(r) : Append(r, x)[i] = r[i]
            /\ Append(r, x)[Len(r) + 1] = x
        BY <2>2, <3>1, AppendHas
      <3>3. \A i \in 1 .. Len(L) - c : buffer'[l][i] = L[i + c]
        <4> SUFFICES ASSUME NEW i \in 1 .. Len(L) - c PROVE buffer'[l][i] = L[i + c]
          OBVIOUS
        <4>1. CASE i = Len(r) + 1
          <5>1. i + c = Len(L) /\ i = Len(r) + 1
            BY ONLY <1>1, <2>2, <2>4, <3>1, <4>1
          <5> QED BY ONLY <3>1, <3>2, <5>1
        <4>2. CASE i # Len(r) + 1
          <5>1. i \in 1 .. Len(q) - c
            BY ONLY <1>1, <2>2, <2>4, <3>1, <4>2, i \in 1 .. Len(L) - c
          <5>2. i \in 1 .. Len(r)
            BY ONLY <2>2, <5>1
          <5> QED BY ONLY <2>2, <3>1, <3>2, <5>1, <5>2
        <4> QED BY <4>1, <4>2
      <3>4. c <= Len(L) /\ Len(buffer'[l]) = Len(L) - c /\ buffer'[l] \in Seq(Flit)
        BY ONLY <1>1, <2>2, <2>4, <3>1, <3>2
      <3>5. \E n \in Nat :
                    /\ c <= n /\ n = Len(L)
                    /\ buffer'[l] \in Seq(Flit) /\ Len(buffer'[l]) = n - c
                    /\ \A i \in 1 .. n - c : buffer'[l][i] = L[i + c]
        BY ONLY <1>1, <3>3, <3>4
      <3> QED BY ONLY <2>3, <2>9, <3>5
    <2> QED BY <2>6, <2>7, <2>8
  <1> QED BY <1>7, <1>8

\* Every flit in the buffers and on the wires at a clock edge goes on, stays, or is lost.
LEMMA TickLines ==
    ASSUME Types, Tick
    PROVE  \E left : LineMoves(left)
  <1>1. PICK rxFirst :
          /\ wire' = [l \in Links |->
                IF l \in DOMAIN Writer THEN Emitted(Writer[l], Writer[l] \in rxFirst)
                ELSE Forwarded(Seen(rxFirst), Leaving(Seen(rxFirst)), l)]
          /\ buffer' = [l \in Buffered |->
                    IF SwitchOf[l] \in rxFirst THEN Popped(Seen(rxFirst), Leaving(Seen(rxFirst)), l)
                    ELSE Pushed([k \in Buffered |-> IF SwitchOf[k] \in rxFirst THEN buffer[k]
                                           ELSE Popped(Seen(rxFirst), Leaving(Seen(rxFirst)), k)][l], l)]
          /\ lost' = lost \cup { wire[l].session : l \in { l \in Buffered : wire[l] # Silence
                /\ Full([k \in Buffered |-> IF SwitchOf[k] \in rxFirst THEN buffer[k]
                                           ELSE Popped(Seen(rxFirst), Leaving(Seen(rxFirst)), k)][l], l) } }
    BY DEF Tick
  <1> DEFINE b == Seen(rxFirst)   left == Leaving(b)
             before == [k \in Buffered |-> IF SwitchOf[k] \in rxFirst THEN buffer[k] ELSE Popped(b, left, k)]
  <1>2. ASSUME NEW l \in Buffered
        PROVE  b[l] = IF SwitchOf[l] \in rxFirst THEN Pushed(buffer[l], l) ELSE buffer[l]
    BY <1>2 DEF Seen
  <1>3. ASSUME NEW l \in Buffered
        PROVE  /\ before[l] = IF SwitchOf[l] \in rxFirst THEN buffer[l] ELSE IF l \in left THEN Tail(b[l]) ELSE b[l]
               /\ buffer'[l] = IF SwitchOf[l] \in rxFirst THEN IF l \in left THEN Tail(b[l]) ELSE b[l]
                               ELSE Pushed(before[l], l)
               /\ wire[l] # Silence /\ Full(before[l], l) => wire[l].session \in lost'
    <2>1. before[l] = IF SwitchOf[l] \in rxFirst THEN buffer[l] ELSE Popped(b, left, l)
      BY <1>3
    <2>2. Popped(b, left, l) = IF l \in left THEN Tail(b[l]) ELSE b[l]
      BY DEF Popped
    <2>3. buffer'[l] = IF SwitchOf[l] \in rxFirst THEN Popped(b, left, l) ELSE Pushed(before[l], l)
      BY <1>1, <1>3
    <2>4. wire[l] # Silence /\ Full(before[l], l) => wire[l].session \in lost'
      BY <1>1, <1>3
    <2> QED BY ONLY <2>1, <2>2, <2>3, <2>4
  <1>4. \A l \in Links : wire'[l] = IF l \in DOMAIN Writer THEN Emitted(Writer[l], Writer[l] \in rxFirst)
                                    ELSE Forwarded(b, left, l)
    BY <1>1
  <1>5. left = { l \in Buffered : Forwards(b, l) }
    BY DEF Leaving
  <1> HIDE DEF b, left, before
  <1>6. left \subseteq Buffered /\ \A l \in left : b[l] # <<>> /\ Forwards(b, l)
    BY ONLY <1>5 DEF Forwards
  <1>7. ASSUME NEW l \in Buffered
        PROVE  LineKeeps(l, left) /\ b[l] \in Seq(Flit)
               /\ (b[l] # <<>> => Head(b[l]) = Line(l)[1] /\ Len(Line(l)) >= 1)
    <2> DEFINE first == SwitchOf[l] \in rxFirst   leaves == l \in left   seen == b[l]   bef == before[l]
    <2>1. first \in BOOLEAN /\ leaves \in BOOLEAN
      OBVIOUS
    <2>2. seen = (IF first THEN Pushed(buffer[l], l) ELSE buffer[l])
      BY <1>2, <1>7
    <2>3. leaves => seen # <<>>
      BY <1>6
    <2>4. /\ bef = IF first THEN buffer[l] ELSE IF leaves THEN Tail(seen) ELSE seen
          /\ wire[l] # Silence /\ Full(bef, l) => wire[l].session \in lost'
          /\ buffer'[l] = IF first THEN IF leaves THEN Tail(seen) ELSE seen ELSE Pushed(bef, l)
      BY <1>3, <1>7
    <2>5. l \in left <=> leaves
      OBVIOUS
    <2> HIDE DEF first, leaves, seen, bef
    <2>6. LineKeeps(l, IF leaves THEN {l} ELSE {}) /\ seen \in Seq(Flit)
          /\ (seen # <<>> => Head(seen) = Line(l)[1] /\ Len(Line(l)) >= 1)
      BY ONLY Types, l \in Buffered, <2>1, <2>2, <2>3, <2>4, BufferKeeps, ZenonT(60)
    <2>7. LineKeeps(l, left)
      <3>1. l \in left <=> l \in IF leaves THEN {l} ELSE {}
        BY ONLY <2>5
      <3> QED BY ONLY <2>6, <3>1 DEF LineKeeps
    <2> QED BY ONLY <2>6, <2>7 DEF seen
  <1>8. ASSUME NEW k \in left
        PROVE  /\ Len(Line(k)) >= 1 /\ Head(b[k]) = Line(k)[1] /\ OutLink(b, k) = OutOf(k)
               /\ OutOf(k) \in Links \ DOMAIN Writer /\ k \in Buffered
               /\ SwitchOf[k] \in Switches /\ Line(k)[1].dst \in Elements
    <2>1. k \in Buffered /\ b[k] # <<>>
      BY <1>6, <1>8
    <2>2. Head(b[k]) = Line(k)[1] /\ Len(Line(k)) >= 1
      BY <1>7, <2>1
    <2>3. OutLink(b, k) = OutOf(k)
      BY <2>2 DEF OutLink, OutOf
    <2>4. k \in Links /\ SwitchOf[k] \in Switches
      BY <2>1, Enters
    <2>5. Line(k)[1].dst \in Elements
      <3>1. Line(k)[1] \in Flit
        BY <2>2, <2>4, LineHas
      <3> QED BY <3>1, FlitFields
    <2>6. OutOf(k) \in Links /\ \A e \in Elements : OutOf(k) # Edge[e].from
      BY <2>4, <2>5, LinkAssumption DEF OutOf
    <2>7. OutOf(k) \notin DOMAIN Writer
      BY <2>6 DEF Writer
    <2> QED BY <2>1, <2>2, <2>3, <2>4, <2>5, <2>6, <2>7
  <1>9. ASSUME NEW k \in left, NEW l \in left, OutOf(k) = OutOf(l) PROVE k = l
    <2>1. SwitchOf[k] = SwitchOf[l]
      <3>1. /\ SwitchOf[k] \in Switches /\ SwitchOf[l] \in Switches
            /\ Line(k)[1].dst \in Elements /\ Line(l)[1].dst \in Elements
        BY <1>8, <1>9
      <3> QED BY ONLY <1>9, <3>1, LinkAssumption DEF OutOf
    <2> DEFINE w == SwitchOf[k]
    <2>2. ASSUME NEW x \in left, NEW y \in left, SwitchOf[x] = SwitchOf[y], OutOf(x) = OutOf(y)
          PROVE  ~(PortOf[x] < PortOf[y])
      <3> SUFFICES ASSUME PortOf[x] < PortOf[y] PROVE FALSE
        OBVIOUS
      <3>1. /\ x \in Buffered /\ y \in Buffered /\ b[x] # <<>> /\ Forwards(b, y)
            /\ OutLink(b, x) = OutOf(x) /\ OutLink(b, y) = OutOf(y)
        BY <1>6, <1>8
      <3>2. /\ PortOf[x] \in Nat \ {0} /\ InPorts[SwitchOf[x]][PortOf[x]] = x /\ PortOf[y] \in Nat \ {0}
        BY <3>1, Enters
      <3>3. PortOf[x] \in 1 .. PortOf[y] - 1
        BY <3>2
      <3>4. OutLink(b, x) # OutLink(b, y)
        BY <2>2, <3>1, <3>2, <3>3 DEF Forwards
      <3> QED BY <2>2, <3>1, <3>4
    <2>3. PortOf[k] = PortOf[l]
      <3>1. PortOf[k] \in Nat /\ PortOf[l] \in Nat
        BY <1>8, Enters
      <3>2. ~(PortOf[k] < PortOf[l]) /\ ~(PortOf[l] < PortOf[k])
        BY <1>9, <2>1, <2>2
      <3> QED BY <3>1, <3>2
    <2> QED
      <3>1. InPorts[SwitchOf[k]][PortOf[k]] = k /\ InPorts[SwitchOf[l]][PortOf[l]] = l
        BY <1>8, Enters
      <3> QED BY <2>1, <2>3, <3>1
  <1>10. ASSUME NEW l \in Links \ DOMAIN Writer
         PROVE  /\ wire'[l] = Silence \/ \E k \in left : OutOf(k) = l /\ wire'[l] = Line(k)[1]
                /\ \A k \in left : OutOf(k) = l => wire'[l] = Line(k)[1]
    <2> DEFINE from == { k \in left : OutLink(b, k) = l }
    <2>1. wire'[l] = IF from = {} THEN Silence ELSE Head(b[CHOOSE k \in from : TRUE])
      BY <1>4, <1>10 DEF Forwarded
    <2>2. from = { k \in left : OutOf(k) = l }
      BY <1>8
    <2> HIDE DEF from
    <2>3. CASE from = {}
      BY <2>1, <2>2, <2>3
    <2>4. CASE from # {}
      <3> DEFINE k == CHOOSE x \in from : TRUE
      <3>1. k \in left /\ OutOf(k) = l
        BY <2>2, <2>4
      <3>2. wire'[l] = Head(b[k])
        BY <2>1, <2>4
      <3> HIDE DEF k
      <3>3. wire'[l] = Line(k)[1]
        BY <1>8, <3>1, <3>2
      <3>4. \A x \in left : OutOf(x) = l => x = k
        BY <1>9, <3>1
      <3> QED BY ONLY <3>1, <3>3, <3>4
    <2> QED BY <2>3, <2>4
  <1>11. \A k \in left : /\ Len(Line(k)) >= 1 /\ OutOf(k) \in Links \ DOMAIN Writer
                         /\ wire'[OutOf(k)] = Line(k)[1]
    <2> SUFFICES ASSUME NEW k \in left
                 PROVE  /\ Len(Line(k)) >= 1 /\ OutOf(k) \in Links \ DOMAIN Writer
                        /\ wire'[OutOf(k)] = Line(k)[1]
      OBVIOUS
    <2>1. Len(Line(k)) >= 1 /\ OutOf(k) \in Links \ DOMAIN Writer
      BY <1>8
    <2> QED BY <1>10, <2>1
  <1>12. LineMoves(left)
    BY ONLY <1>6, <1>7, <1>10, <1>11 DEF LineMoves
  <1> QED BY <1>12

-----------------------------------------------------------------------------
(* The types are kept *)

\* A queue of elements of S is one of elements of a larger set.
LEMMA SeqMono ==
    ASSUME NEW S, NEW T, S \subseteq T, NEW q \in Seq(S)
    PROVE  q \in Seq(T)
  <1>1. q \in [1 .. Len(q) -> S] /\ Len(q) \in Nat
    BY LenProperties
  <1>2. q \in [1 .. Len(q) -> T]
    BY <1>1
  <1> QED BY <1>1, <1>2, SeqDef

\* Sessions are never forgotten.
LEMMA OpenedGrows ==
    ASSUME last_session_id \in [Masters -> Nat], last_session_id' \in [Masters -> Nat],
           \A m \in Masters : last_session_id[m] <= last_session_id'[m]
    PROVE  Opened \subseteq Opened'
  BY DEF Opened

\* A packet that a slave may have, it may have when there are more sessions.
LEMMA JobGrows ==
    ASSUME Opened \subseteq Opened', NEW s
    PROVE  Job(s) \subseteq Job(s)'
  BY DEF Job

\* The slaves and their open sessions, when sessions are only added.
LEMMA SameEnds ==
    ASSUME EndTypes, Opened \subseteq Opened', UNCHANGED <<openSessions, waiting, serving>>
    PROVE  EndTypes'
  <1>1. ASSUME NEW s \in Slaves PROVE Job(s) \subseteq Job(s)'
    BY JobGrows
  <1>2. ASSUME NEW s \in Slaves PROVE waiting'[s] \in Seq(Job(s)')
    <2>1. waiting[s] \in Seq(Job(s))
      BY DEF EndTypes
    <2> QED BY <1>1, <2>1, SeqMono
  <1>3. ASSUME NEW s \in Slaves, serving'[s] # Nobody
        PROVE  serving'[s] \in [payload : Nat, packet : Job(s)', addr_old : Int]
    BY <1>1, <1>3 DEF EndTypes
  <1> QED BY <1>2, <1>3 DEF EndTypes

\* The network, when an element adds a packet to its queue.
LEMMA QueuesTypes ==
    ASSUME FlitTypes, Opened \subseteq Opened', UNCHANGED <<buffer, wire>>,
           NEW e \in Elements, NEW p \in Flit, p.src = e, p.session \in Opened', Queues(e, p)
    PROVE  FlitTypes'
  <1>1. packet_queue' = [packet_queue EXCEPT ![e] = Append(@, p)]
    BY DEF Queues
  <1>2. ASSUME NEW x \in Elements
        PROVE  /\ packet_queue'[x] \in Seq(Flit)
               /\ \A i \in DOMAIN packet_queue'[x] :
                    packet_queue'[x][i].src = x /\ packet_queue'[x][i].session \in Opened'
    <2> DEFINE q == packet_queue[x]
    <2>1. q \in Seq(Flit) /\ \A i \in DOMAIN q : q[i].src = x /\ q[i].session \in Opened'
      BY DEF FlitTypes
    <2>2. packet_queue'[x] = IF x = e THEN Append(q, p) ELSE q
      BY <1>1 DEF FlitTypes
    <2> HIDE DEF q
    <2>3. CASE x = e
      <3>1. /\ Append(q, p) \in Seq(Flit) /\ Len(q) \in Nat /\ DOMAIN q = 1 .. Len(q)
            /\ DOMAIN Append(q, p) = 1 .. Len(q) + 1
            /\ \A i \in 1 .. Len(q) : Append(q, p)[i] = q[i]
            /\ Append(q, p)[Len(q) + 1] = p
        BY <2>1, AppendHas
      <3>2. \A i \in 1 .. Len(q) + 1 : i = Len(q) + 1 \/ i \in 1 .. Len(q)
        BY <3>1
      <3> QED BY ONLY <2>1, <2>2, <2>3, <3>1, <3>2, p \in Flit, p.src = e, p.session \in Opened'
    <2>4. CASE x # e
      BY ONLY <2>1, <2>2, <2>4
    <2> QED BY <2>3, <2>4
  <1>3. packet_queue' \in [Elements -> Seq(Flit)]
    BY <1>1, <1>2 DEF FlitTypes
  <1> QED BY <1>2, <1>3 DEF FlitTypes

\* The network, when it does not change.
LEMMA SameFlits ==
    ASSUME FlitTypes, Opened \subseteq Opened', UNCHANGED <<packet_queue, buffer, wire>>
    PROVE  FlitTypes'
  BY DEF FlitTypes

\* The slave whose region an address is in.
LEMMA SlaveOf ==
    ASSUME NEW a, SlaveAt(a) # {}
    PROVE  (CHOOSE s \in SlaveAt(a) : TRUE) \in SlaveAt(a) /\ SlaveAt(a) \subseteq Slaves
  BY DEF SlaveAt

\* How many flits a master sends and expects for what it is asked for.
RequestSize(m) == IF command[m].op = "read" THEN 1 ELSE SizeFor(command[m].flits)
AnswerSize(m)  == IF command[m].op = "read" THEN SizeFor(command[m].flits) ELSE 1

\* A packet has a flit.
LEMMA SizeType == ASSUME NEW n \in Nat PROVE SizeFor(n) \in Nat \ {0}
  BY DEF SizeFor

\* The request of a session.
LEMMA RequestType ==
    ASSUME NEW m \in Masters, NEW k \in Nat \ {0}, NEW c \in Commands[m], NEW a, SlaveAt(a) # {},
           NEW n \in Nat \ {0}
    PROVE  LET p == Request(m, k, c, a, n) IN
           /\ p \in Flit /\ p.src = m /\ p.dst \in SlaveAt(a) /\ p.dst \in Slaves /\ p.session = <<m, n>>
           /\ p.dst = CHOOSE s \in SlaveAt(a) : TRUE
           /\ p.size = (IF c.op = "read" THEN 1 ELSE SizeFor(c.flits)) /\ p.flit_left = p.size
           /\ p.payload = k /\ p.kind # "ACK"
  <1> DEFINE s == CHOOSE x \in SlaveAt(a) : TRUE
             size == IF c.op = "read" THEN 1 ELSE SizeFor(c.flits)
  <1>1. s \in SlaveAt(a) /\ s \in Slaves
    BY SlaveOf
  <1>2. size \in Nat \ {0}
    BY NocAssumption, SizeType
  <1>3. Request(m, k, c, a, n) = Packet("DATA", m, s, <<m, n>>, size, k)
    BY DEF Request
  <1>4. m \in Elements /\ s \in Elements
    BY <1>1 DEF Elements
  <1> HIDE DEF s, size
  <1> DEFINE p == Packet("DATA", m, s, <<m, n>>, size, k)
  <1>5. /\ p \in Flit /\ p.src = m /\ p.dst = s /\ p.session = <<m, n>> /\ p.size = size
        /\ p.flit_left = size /\ p.payload = k
        /\ (size = 1 => p.kind = "DATA") /\ (size # 1 => p.kind = "PART")
    BY <1>1, <1>2, <1>4, PacketType
  <1> HIDE DEF p
  <1>6. p.kind # "ACK"
    BY <1>5
  <1> QED BY <1>1, <1>3, <1>5, <1>6 DEF p, s, size

\* The answer of a slave.
LEMMA AnswerType ==
    ASSUME CallTypes, NEW s \in Slaves, NEW p \in Job(s)
    PROVE  LET r == Answer(s, p) IN
           /\ r \in Flit /\ r.src = s /\ r.dst = p.src /\ r.dst \in Masters /\ r.session = p.session
           /\ r.size = AnswerSize(p.src) /\ r.flit_left = r.size /\ r.payload = 0
  <1>1. p \in Flit /\ p.dst \in Slaves
    BY DEF Job
  <1> DEFINE m == p.src   n == p.session[2]
  <1>2. m \in Masters /\ n \in Nat \ {0} /\ p.session = <<m, n>>
    BY <1>1, FlitFields
  <1>3. m \in Elements /\ s \in Elements
    BY <1>2 DEF Elements
  <1>4. command[m] \in Commands[m] /\ SizeFor(command[m].flits) \in Nat \ {0}
    BY <1>2, NocAssumption, SizeType DEF CallTypes
  <1>5. Answer(s, p) = IF command[m].op = "read" THEN Packet("DATA", s, m, <<m, n>>, SizeFor(command[m].flits), 0)
                       ELSE Packet("ACK", s, m, <<m, n>>, 1, 0)
    BY <1>2 DEF Answer, Ack
  <1>6. p.session = <<m, n>> /\ p.src = m
    BY <1>2
  <1> DEFINE size == SizeFor(command[m].flits)
  <1>7. AnswerSize(m) = IF command[m].op = "read" THEN size ELSE 1
    BY DEF AnswerSize
  <1>8. size \in Nat \ {0}
    BY <1>4
  <1> HIDE DEF m, n, size
  <1>9. CASE command[m].op = "read"
    <2> DEFINE r == Packet("DATA", s, m, <<m, n>>, size, 0)
    <2>1. /\ r \in Flit /\ r.src = s /\ r.dst = m /\ r.session = <<m, n>>
          /\ r.size = size /\ r.flit_left = size /\ r.payload = 0
      BY <1>2, <1>3, <1>8, PacketType
    <2> HIDE DEF r
    <2>2. Answer(s, p) = r
      BY <1>5, <1>9 DEF r, size
    <2> QED BY <1>2, <1>6, <1>7, <1>9, <2>1, <2>2
  <1>10. CASE command[m].op # "read"
    <2> DEFINE one == 1
    <2>0. one \in Nat \ {0} /\ one = 1
      OBVIOUS
    <2> HIDE DEF one
    <2> DEFINE r == Packet("ACK", s, m, <<m, n>>, one, 0)
    <2>1. /\ r \in Flit /\ r.src = s /\ r.dst = m /\ r.session = <<m, n>>
          /\ r.size = one /\ r.flit_left = one /\ r.payload = 0
      BY <1>2, <1>3, <2>0, PacketType, SMTT(30)
    <2> HIDE DEF r
    <2>2. Answer(s, p) = r
      BY <1>5, <1>10, <2>0 DEF r
    <2> QED BY <1>2, <1>6, <1>7, <1>10, <2>0, <2>1, <2>2
  <1> QED BY <1>9, <1>10

\* The types, for each action.
LEMMA BeginTypes ==
    ASSUME Types, NEW m \in Masters, Begin(m)
    PROVE  Types'
  <1> DEFINE n == last_session_id[m] + 1
  <1>1. PICK c \in Commands[m] :
          /\ command' = [command EXCEPT ![m] = c]
          /\ address' = [address EXCEPT ![m] = c.address]
          /\ Queues(m, Request(m, calls[m] + 1, c, c.address, n))
    BY DEF Begin, Current
  <1>2. /\ calls' = [calls EXCEPT ![m] = @ + 1]
        /\ last_session_id' = [last_session_id EXCEPT ![m] = n]
        /\ endTransm' = [endTransm EXCEPT ![m] = @ \cup {n}]
        /\ pc' = [pc EXCEPT ![m] = "waiting"]
        /\ UNCHANGED <<timedOut, openSessions, serving, waiting, wire, buffer>>
    BY DEF Begin, Opens, Current, network
  <1>3. n \in Nat \ {0} /\ calls[m] + 1 \in Nat \ {0}
    BY DEF Types, CallTypes
  <1>4. c.address \in Addresses /\ c.address \in Int
    <2>1. c.address \in Addresses
      BY NocAssumption
    <2>2. PICK s \in Slaves : c.address \in Base[s] .. Top[s]
      BY <2>1 DEF Addresses
    <2> QED BY <2>1, <2>2
  <1>5. SlaveAt(c.address) # {}
    BY <1>4 DEF SlaveAt, Addresses
  <1>6. CallTypes'
    <2>1. last_session_id' \in [Masters -> Nat]
      BY <1>2, <1>3 DEF Types, CallTypes
    <2>2. \A x \in Masters : \A i \in endTransm'[x] \cup timedOut'[x] : i <= last_session_id'[x]
      BY <1>2, <1>3 DEF Types, CallTypes
    <2>3. n \notin timedOut[m]
      BY <1>3 DEF Types, CallTypes
    <2> QED BY <1>1, <1>2, <1>3, <1>4, <2>1, <2>2, <2>3 DEF Types, CallTypes
  <1>7. Opened \subseteq Opened' /\ <<m, n>> \in Opened'
    <2>1. \A x \in Masters : last_session_id[x] <= last_session_id'[x]
      BY <1>2, <1>3 DEF Types, CallTypes
    <2>2. last_session_id'[m] = n
      BY <1>2 DEF Types, CallTypes
    <2> QED BY <1>3, <1>6, <2>1, <2>2, OpenedGrows DEF Types, CallTypes, Opened
  <1> DEFINE p == Request(m, calls[m] + 1, c, c.address, n)
  <1>8. p \in Flit /\ p.src = m /\ p.session = <<m, n>>
    BY <1>3, <1>5, RequestType
  <1>9. m \in Elements
    BY DEF Elements
  <1> HIDE DEF p, n
  <1>10. FlitTypes'
    BY <1>1, <1>2, <1>7, <1>8, <1>9, QueuesTypes DEF Types, p
  <1>11. EndTypes'
    BY <1>2, <1>7, SameEnds DEF Types
  <1> QED BY <1>6, <1>10, <1>11 DEF Types

\* The timer changes what is known of a session only.
LEMMA TimeoutTypes ==
    ASSUME Types, NEW m \in Masters, Timeout(m)
    PROVE  Types'
  <1>1. /\ pc[m] # "idle" /\ last_session_id[m] \in endTransm[m]
        /\ timedOut' = [timedOut EXCEPT ![m] = @ \cup {last_session_id[m]}]
        /\ pc' = [pc EXCEPT ![m] = "awake"]
        /\ UNCHANGED <<calls, command, address, last_session_id, endTransm, packet_queue, openSessions,
                       serving, waiting, wire, buffer>>
    BY DEF Timeout, Current, slaves, network
  <1>2. CallTypes'
    BY <1>1 DEF Types, CallTypes
  <1>3. Opened \subseteq Opened'
    BY <1>1 DEF Opened
  <1> QED BY <1>1, <1>2, <1>3, SameEnds, SameFlits DEF Types

\* A call that returns leaves the network alone.
LEMMA ReturnTypes ==
    ASSUME Types, NEW m \in Masters, Return(m)
    PROVE  Types'
  <1>1. /\ endTransm' = [endTransm EXCEPT ![m] = @ \ {last_session_id[m]}]
        /\ pc' = [pc EXCEPT ![m] = "idle"]
        /\ UNCHANGED <<calls, command, address, last_session_id, timedOut, packet_queue, openSessions,
                       serving, waiting, wire, buffer>>
    BY DEF Return, Current, slaves, network
  <1>2. CallTypes'
    BY <1>1 DEF Types, CallTypes
  <1>3. Opened \subseteq Opened'
    BY <1>1 DEF Opened
  <1> QED BY <1>1, <1>2, <1>3, SameEnds, SameFlits DEF Types

\* A retry opens the session of the request it sends.
LEMMA RetryTypes ==
    ASSUME Types, NEW m \in Masters, Retry(m)
    PROVE  Types'
  <1> DEFINE n == last_session_id[m] + 1
  <1>0. /\ pc[m] = "awake"
        /\ UNCHANGED <<timedOut, openSessions, serving, waiting, wire, buffer, address>>
    BY DEF Retry, slaves, network
  <1>1. CASE SlaveAt(address[m]) # {}
    <2>1. /\ UNCHANGED <<calls, command>>
          /\ Queues(m, Request(m, calls[m], command[m], address[m], n))
          /\ last_session_id' = [last_session_id EXCEPT ![m] = n]
          /\ endTransm' = [endTransm EXCEPT ![m] = @ \cup {n}]
          /\ pc' = [pc EXCEPT ![m] = "waiting"]
      BY <1>1 DEF Retry, Opens, Current
    <2>2. n \in Nat \ {0} /\ calls[m] \in Nat \ {0} /\ command[m] \in Commands[m]
      BY <1>0 DEF Types, CallTypes
    <2>3. CallTypes'
      <3>1. last_session_id' \in [Masters -> Nat]
        BY <2>1, <2>2 DEF Types, CallTypes
      <3>2. \A x \in Masters : \A i \in endTransm'[x] \cup timedOut'[x] : i <= last_session_id'[x]
        BY <1>0, <2>1, <2>2 DEF Types, CallTypes
      <3>3. n \notin timedOut[m]
        BY <2>2 DEF Types, CallTypes
      <3> QED BY <1>0, <2>1, <2>2, <3>1, <3>2, <3>3 DEF Types, CallTypes
    <2>4. Opened \subseteq Opened' /\ <<m, n>> \in Opened'
      <3>1. \A x \in Masters : last_session_id[x] <= last_session_id'[x]
        BY <2>1, <2>2 DEF Types, CallTypes
      <3>2. last_session_id'[m] = n
        BY <2>1 DEF Types, CallTypes
      <3> QED BY <2>2, <2>3, <3>1, <3>2, OpenedGrows DEF Types, CallTypes, Opened
    <2> DEFINE p == Request(m, calls[m], command[m], address[m], n)
    <2>5. p \in Flit /\ p.src = m /\ p.session = <<m, n>>
      BY <1>1, <2>2, RequestType
    <2>6. m \in Elements
      BY DEF Elements
    <2> HIDE DEF p, n
    <2>7. FlitTypes'
      BY <1>0, <2>1, <2>4, <2>5, <2>6, QueuesTypes DEF Types, p
    <2>8. EndTypes'
      BY <1>0, <2>4, SameEnds DEF Types
    <2> QED BY <2>3, <2>7, <2>8 DEF Types
  <1>2. CASE SlaveAt(address[m]) = {}
    <2>1. UNCHANGED <<pc, calls, command, last_session_id, packet_queue, endTransm>>
      BY <1>2 DEF Retry, calling
    <2>2. CallTypes'
      BY <1>0, <2>1 DEF Types, CallTypes
    <2>3. Opened \subseteq Opened'
      BY <2>1 DEF Opened
    <2> QED BY <1>0, <2>1, <2>2, <2>3, SameEnds, SameFlits DEF Types
  <1> QED BY <1>1, <1>2

\* A slave works on the first of those that wait.
LEMMA StartTypes ==
    ASSUME Types, NEW s \in Slaves, Start(s)
    PROVE  Types' /\ serving[s] = Nobody /\ serving'[s] # Nobody /\ waiting[s] # <<>>
           /\ serving'[s].packet = Head(waiting[s]) /\ Head(waiting[s]) \in Job(s)
  <1> DEFINE p == Head(waiting[s])   at == SlaveAt(address[p.src])
  <1>1. /\ serving[s] = Nobody /\ waiting[s] # <<>>
        /\ serving' = [serving EXCEPT ![s] = [payload |-> p.payload, packet |-> p, addr_old |-> address[p.src]]]
        /\ address' = [address EXCEPT ![p.src] = IF at = {} THEN @ ELSE @ - Base[CHOOSE x \in at : TRUE]]
        /\ waiting' = [waiting EXCEPT ![s] = Tail(@)]
        /\ UNCHANGED <<pc, calls, command, last_session_id, endTransm, timedOut, packet_queue,
                       openSessions, wire, buffer>>
    BY DEF Start, calling, sessions, network
  <1>2. waiting[s] \in Seq(Job(s)) /\ DOMAIN waiting = Slaves /\ DOMAIN serving = Slaves
    BY DEF Types, EndTypes
  <1>3. p \in Job(s) /\ Tail(waiting[s]) \in Seq(Job(s))
    BY <1>1, <1>2, TailHas
  <1>4. p \in Flit /\ p.src \in Masters /\ p.payload \in Nat
    BY <1>3, FlitFields DEF Job
  <1>5. address[p.src] \in Int
    BY <1>4 DEF Types, CallTypes
  <1>6. at # {} => Base[CHOOSE x \in at : TRUE] \in Int
    <2>1. at # {} => (CHOOSE x \in at : TRUE) \in Slaves
      BY SlaveOf
    <2> QED BY <2>1, NocAssumption
  <1>7. [payload |-> p.payload, packet |-> p, addr_old |-> address[p.src]] # Nobody
    <2>1. "packet" \in DOMAIN [payload |-> p.payload, packet |-> p, addr_old |-> address[p.src]]
      OBVIOUS
    <2>2. "packet" \notin DOMAIN [payload |-> 0]
      OBVIOUS
    <2> QED BY <2>1, <2>2 DEF Nobody
  <1> HIDE DEF p, at
  <1>8. CallTypes'
    <2>1. address' \in [Masters -> Int]
      BY <1>1, <1>4, <1>5, <1>6 DEF Types, CallTypes
    <2> QED BY <1>1, <2>1 DEF Types, CallTypes
  <1>9. Opened' = Opened
    BY <1>1 DEF Opened
  <1>10. \A x \in Slaves : Job(x)' = Job(x)
    BY <1>9 DEF Job
  <1>11. FlitTypes'
    BY <1>1, <1>9, SameFlits DEF Types
  <1>12. EndTypes'
    <2>1. \A x \in Slaves : waiting'[x] \in Seq(Job(x)')
      BY <1>1, <1>2, <1>3, <1>10 DEF Types, EndTypes
    <2>2. \A x \in Slaves : serving'[x] # Nobody =>
            serving'[x] \in [payload : Nat, packet : Job(x)', addr_old : Int]
      BY <1>1, <1>2, <1>3, <1>4, <1>5, <1>10 DEF Types, EndTypes
    <2>3. DOMAIN waiting' = Slaves /\ DOMAIN serving' = Slaves
      BY <1>1, <1>2
    <2>4. UNCHANGED openSessions
      BY <1>1
    <2> QED BY <1>9, <2>1, <2>2, <2>3, <2>4 DEF Types, EndTypes
  <1>13. serving'[s] = [payload |-> p.payload, packet |-> p, addr_old |-> address[p.src]]
    BY <1>1, <1>2
  <1> QED BY <1>1, <1>3, <1>7, <1>8, <1>11, <1>12, <1>13 DEF Types, p

\* The answer of a slave is for the master that sent the request, in its session.
LEMMA ServedTypes ==
    ASSUME Types, NEW s \in Slaves, Served(s)
    PROVE  Types' /\ serving[s].packet \in Job(s)
  <1> DEFINE p == serving[s].packet   m == p.src
  <1>1. /\ serving[s] # Nobody
        /\ address' = [address EXCEPT ![m] = serving[s].addr_old]
        /\ Queues(s, Answer(s, p))
        /\ serving' = [serving EXCEPT ![s] = Nobody]
        /\ UNCHANGED <<pc, calls, command, last_session_id, endTransm, timedOut,
                       openSessions, waiting, wire, buffer>>
    BY DEF Served, calling, sessions, network
  <1>2. serving[s] \in [payload : Nat, packet : Job(s), addr_old : Int]
    BY <1>1 DEF Types, EndTypes
  <1>3. p \in Job(s) /\ serving[s].addr_old \in Int
    BY <1>2
  <1>4. p \in Flit /\ m \in Masters /\ p.session \in Opened
    BY <1>3, FlitFields DEF Job
  <1>5. CallTypes'
    BY <1>1, <1>3, <1>4 DEF Types, CallTypes
  <1>6. Opened' = Opened
    BY <1>1 DEF Opened
  <1>7. s \in Elements
    BY DEF Elements
  <1> DEFINE r == Answer(s, p)
  <1>8. r \in Flit /\ r.src = s /\ r.session = p.session
    BY <1>3, AnswerType DEF Types
  <1> HIDE DEF r, p
  <1>9. FlitTypes'
    BY <1>1, <1>4, <1>6, <1>7, <1>8, QueuesTypes DEF Types, r
  <1>10. EndTypes'
    BY <1>1, <1>6 DEF Types, EndTypes, Job
  <1> QED BY <1>3, <1>5, <1>9, <1>10 DEF Types, p

\* What enters an element is for it.
LEMMA IntoType ==
    ASSUME Types, NEW e \in Elements, Into(e) # Silence
    PROVE  Into(e) \in Flit /\ Into(e).dst = e /\ Into(e).session \in Opened
  <1>1. Edge[e].to \in Links
    BY DEF Links
  <1> QED BY <1>1 DEF Types, FlitTypes, Into

\* What an element sends is its own.
LEMMA SentType ==
    ASSUME Types, Tick, NEW e \in Elements
    PROVE  LET f == wire'[Edge[e].from] IN
           f # Silence => f \in Flit /\ f.src = e /\ f.session \in Opened
  <1>1. PICK c \in {0, 1} : QueueMoves(e, c)
    BY TickQueue
  <1> DEFINE f == wire'[Edge[e].from]   q == packet_queue[e]
  <1>2. /\ q # <<>> => f = q[1] /\ q[1] \in Flit
        /\ q = <<>> => f = Silence \/ NewAck(e, f)
    BY <1>1 DEF QueueMoves
  <1>3. q \in Seq(Flit) /\ \A i \in DOMAIN q : q[i].src = e /\ q[i].session \in Opened
    BY DEF Types, FlitTypes
  <1> HIDE DEF f, q
  <1>4. CASE q # <<>>
    <2>1. 1 \in DOMAIN q
      BY <1>3, <1>4, TailHas
    <2> QED BY <1>2, <1>3, <1>4, <2>1 DEF f
  <1>5. CASE q = <<>> /\ f # Silence
    <2>1. NewAck(e, f)
      BY <1>2, <1>5
    <2>2. f \in Flit /\ f.src = e /\ Into(e) \in Flit /\ f.session = Into(e).session
      BY <2>1 DEF NewAck
    <2>3. Into(e) # Silence
      BY <2>2, FlitFields
    <2>4. Into(e).session \in Opened
      BY <2>3, IntoType
    <2> QED BY <2>2, <2>4 DEF f
  <1> QED BY <1>4, <1>5 DEF f

\* What is on a wire after a clock edge.
LEMMA WireType ==
    ASSUME Types, Tick, NEW l \in Links, wire'[l] # Silence
    PROVE  /\ wire'[l] \in Flit /\ wire'[l].session \in Opened
           /\ \A e \in Elements : l = Edge[e].to => wire'[l].dst = e
  <1>1. PICK left : LineMoves(left)
    BY TickLines
  <1>2. CASE l \in DOMAIN Writer
    <2>1. PICK e \in Elements : l = Edge[e].from
      BY <1>2 DEF Writer
    <2>2. wire'[l] \in Flit /\ wire'[l].session \in Opened
      BY <2>1, SentType
    <2>3. \A x \in Elements : l # Edge[x].to
      BY <2>1, LinkAssumption
    <2> QED BY <2>2, <2>3
  <1>3. CASE l \notin DOMAIN Writer
    <2>1. PICK k \in left : OutOf(k) = l /\ wire'[l] = Line(k)[1] /\ Len(Line(k)) >= 1 /\ k \in Buffered
      BY <1>1, <1>3 DEF LineMoves
    <2>2. k \in Links /\ SwitchOf[k] \in Switches
      BY <2>1, Enters
    <2>3. Line(k)[1] \in Flit /\ Line(k)[1].session \in Opened
      BY <2>1, <2>2, LineHas
    <2>4. Line(k)[1].dst \in Elements
      BY <2>3, FlitFields
    <2>5. \A e \in Elements : l = Edge[e].to => e = Line(k)[1].dst
      BY <2>1, <2>2, <2>4, LinkAssumption DEF OutOf
    <2> QED BY <2>1, <2>3, <2>5
  <1> QED BY <1>2, <1>3

\* The network after a clock edge.
LEMMA TickFlits ==
    ASSUME Types, Tick
    PROVE  FlitTypes'
  <1>0. UNCHANGED last_session_id /\ Opened' = Opened
    BY DEF Tick, Opened
  <1>1. ASSUME NEW e \in Elements
        PROVE  /\ packet_queue'[e] \in Seq(Flit)
               /\ \A i \in DOMAIN packet_queue'[e] :
                     packet_queue'[e][i].src = e /\ packet_queue'[e][i].session \in Opened
    <2>1. PICK c \in {0, 1} : QueueMoves(e, c)
      BY TickQueue
    <2> DEFINE q == packet_queue[e]   r == packet_queue'[e]
    <2>2. /\ r \in Seq(Flit)
          /\ \A i \in 1 .. Len(q) - c : Same(r[i], q[i + c])
          /\ \A i \in DOMAIN r : i > Len(q) - c => NewAck(e, r[i])
      BY <2>1 DEF QueueMoves
    <2>3. q \in Seq(Flit) /\ \A i \in DOMAIN q : q[i].src = e /\ q[i].session \in Opened
      BY DEF Types, FlitTypes
    <2>4. Len(q) \in Nat /\ DOMAIN q = 1 .. Len(q) /\ DOMAIN r = 1 .. Len(r) /\ Len(r) \in Nat
      BY <2>2, <2>3, LenProperties
    <2> HIDE DEF q, r
    <2>5. ASSUME NEW i \in DOMAIN r PROVE r[i].src = e /\ r[i].session \in Opened
      <3>1. CASE i > Len(q) - c
        <4>1. NewAck(e, r[i])
          BY <2>2, <2>5, <3>1
        <4>2. Into(e) \in Flit /\ r[i].session = Into(e).session /\ r[i].src = e
          BY <4>1 DEF NewAck
        <4>3. Into(e) # Silence
          BY <4>2, FlitFields
        <4> QED BY <4>2, <4>3, IntoType
      <3>2. CASE ~(i > Len(q) - c)
        <4>1. i \in 1 .. Len(q) - c /\ i + c \in DOMAIN q
          BY <2>4, <2>5, <3>2
        <4> QED BY <2>2, <2>3, <4>1 DEF Same
      <3> QED BY <3>1, <3>2
    <2> QED BY <2>2, <2>5 DEF r
  <1>2. packet_queue' \in [Elements -> Seq(Flit)]
    <2>1. \E rxFirst : packet_queue' = [e \in Elements |-> QueueAfter(e, e \in rxFirst)]
      BY DEF Tick
    <2> QED BY <1>1, <2>1
  <1>3. PICK left : LineMoves(left)
    BY TickLines
  <1>4. ASSUME NEW l \in Buffered
        PROVE  /\ buffer'[l] \in Seq(Flit)
               /\ \A i \in DOMAIN buffer'[l] : buffer'[l][i].session \in Opened
    <2>1. LineKeeps(l, left)
      BY <1>3 DEF LineMoves
    <2>2. PICK c \in {0, 1}, n \in Nat :
            /\ n = Len(Line(l)) \/ n = Len(Line(l)) - 1
            /\ buffer'[l] \in Seq(Flit) /\ Len(buffer'[l]) = n - c
            /\ \A i \in 1 .. n - c : buffer'[l][i] = Line(l)[i + c]
      BY ONLY <2>1 DEF LineKeeps
    <2>3. DOMAIN buffer'[l] = 1 .. n - c
      BY <2>2, LenProperties
    <2>4. l \in Links
      BY Enters
    <2>5. Len(Line(l)) \in Nat /\ \A i \in 1 .. Len(Line(l)) : Line(l)[i].session \in Opened
      BY <2>4, LineHas
    <2>6. \A i \in 1 .. n - c : i + c \in 1 .. Len(Line(l))
      <3> DEFINE k == Len(Line(l))
      <3>1. k \in Nat /\ (n = k \/ n = k - 1)
        BY ONLY <2>2, <2>5
      <3> HIDE DEF k
      <3>2. \A i \in 1 .. n - c : i + c \in 1 .. k
        BY ONLY <3>1, c \in {0, 1}, n \in Nat
      <3> QED BY ONLY <3>2 DEF k
    <2> QED BY ONLY <2>2, <2>3, <2>5, <2>6
  <1>5. buffer' \in [Buffered -> Seq(Flit)]
    <2>1. \E b : buffer' = [l \in Buffered |-> b[l]]
      <3>1. DOMAIN buffer' = Buffered /\ buffer' = [l \in DOMAIN buffer' |-> buffer'[l]]
        BY DEF Tick
      <3> QED BY <3>1
    <2> QED BY <1>4, <2>1
  <1>6. wire' \in [Links -> Flit \cup {Silence}]
    <2>1. DOMAIN wire' = Links /\ wire' = [l \in DOMAIN wire' |-> wire'[l]]
      BY DEF Tick
    <2>2. \A l \in Links : wire'[l] \in Flit \cup {Silence}
      BY WireType
    <2> QED BY <2>1, <2>2
  <1>7. \A l \in Links : wire'[l] # Silence => wire'[l].session \in Opened
    BY WireType
  <1>8. \A e \in Elements : wire'[Edge[e].to] # Silence => wire'[Edge[e].to].dst = e
    <2>1. \A e \in Elements : Edge[e].to \in Links
      BY DEF Links
    <2> QED BY <2>1, WireType
  <1> QED BY <1>0, <1>1, <1>2, <1>4, <1>5, <1>6, <1>7, <1>8 DEF FlitTypes

\* The slaves and the open sessions after a clock edge.
LEMMA TickEnds ==
    ASSUME Types, Tick
    PROVE  EndTypes'
  <1>0. UNCHANGED <<last_session_id, serving>> /\ Opened' = Opened
    BY DEF Tick, Opened, slaves
  <1>1. \A s \in Slaves : Job(s)' = Job(s)
    BY <1>0 DEF Job
  <1>2. ASSUME NEW e \in Elements
        PROVE  /\ openSessions'[e] \in [DOMAIN openSessions'[e] -> SUBSET Nat]
               /\ DOMAIN openSessions'[e] \subseteq Opened
    <2> DEFINE f == Into(e)   o == openSessions[e]
    <2>1. openSessions'[e] = OpenAfter(e, f)
      BY <1>2 DEF Tick
    <2>2. o \in [DOMAIN o -> SUBSET Nat] /\ DOMAIN o \subseteq Opened
      BY DEF Types, EndTypes
    <2>3. CASE f.kind # "PART"
      BY <2>1, <2>2, <2>3 DEF OpenAfter
    <2>4. CASE f.kind = "PART"
      <3>1. f # Silence
        BY <2>4 DEF Silence
      <3>2. f \in Flit /\ f.session \in Opened /\ f.flit_left \in Nat
        BY <3>1, IntoType, FlitFields
      <3>3. Got(e, f) \in SUBSET Nat
        BY <2>2, <3>2 DEF Got
      <3>4. Kept(e, f) = [i \in DOMAIN o \cup {f.session} |-> IF i = f.session THEN Got(e, f) ELSE o[i]]
        BY DEF Kept
      <3>5. Closed(e, f) = [i \in DOMAIN o \ {f.session} |-> o[i]]
        BY DEF Closed
      <3>6. openSessions'[e] = Kept(e, f) \/ openSessions'[e] = Closed(e, f)
        BY <2>1, <2>4 DEF OpenAfter
      <3> HIDE DEF f, o
      <3> QED BY <2>2, <3>2, <3>3, <3>4, <3>5, <3>6
    <2> QED BY <2>3, <2>4
  <1>3. DOMAIN openSessions' = Elements
    BY DEF Tick
  <1>4. ASSUME NEW s \in Slaves PROVE waiting'[s] \in Seq(Job(s))
    <2>1. waiting'[s] = IF Arrives(s, Into(s)) THEN Append(waiting[s], Into(s)) ELSE waiting[s]
      BY DEF Tick
    <2>2. waiting[s] \in Seq(Job(s))
      BY DEF Types, EndTypes
    <2>3. CASE Arrives(s, Into(s))
      <3>1. s \in Elements
        BY DEF Elements
      <3>2. Into(s).kind # "ACK" /\ Into(s) # Silence
        BY <2>3 DEF Arrives, Silence
      <3>3. Into(s) \in Job(s)
        BY <3>1, <3>2, IntoType DEF Job
      <3> QED BY <2>1, <2>2, <2>3, <3>3, AppendHas
    <2> QED BY <2>1, <2>2, <2>3
  <1>5. DOMAIN waiting' = Slaves
    BY DEF Tick
  <1> QED BY <1>0, <1>1, <1>2, <1>3, <1>4, <1>5 DEF EndTypes, Types

\* The types after a clock edge.
LEMMA TickTypes ==
    ASSUME Types, Tick
    PROVE  Types'
  <1>1. /\ pc' = [m \in Masters |-> IF Woken(m, Into(m)) THEN "awake" ELSE pc[m]]
        /\ UNCHANGED <<calls, command, last_session_id, endTransm, timedOut, address>>
    BY DEF Tick, sessions, slaves
  <1>2. \A m \in Masters : Woken(m, Into(m)) => pc[m] # "idle"
    BY DEF Woken
  <1>3. CallTypes'
    BY <1>1, <1>2 DEF Types, CallTypes
  <1> QED BY <1>3, TickFlits, TickEnds DEF Types

\* The types, to begin with.
LEMMA TypesInit == Init => Types
  <1> SUFFICES ASSUME Init PROVE Types
    OBVIOUS
  <1>1. /\ pc = [m \in Masters |-> "idle"] /\ calls = [m \in Masters |-> 0]
        /\ command = [m \in Masters |-> CHOOSE c \in Commands[m] : TRUE]
        /\ address = [m \in Masters |-> command[m].address]
        /\ last_session_id = [m \in Masters |-> 0]
        /\ endTransm = [m \in Masters |-> {}] /\ timedOut = [m \in Masters |-> {}]
        /\ packet_queue = [e \in Elements |-> <<>>]
        /\ openSessions = [e \in Elements |-> [i \in {} |-> {}]]
        /\ serving = [s \in Slaves |-> Nobody] /\ waiting = [s \in Slaves |-> <<>>]
        /\ wire = [l \in Links |-> Silence] /\ buffer = [l \in Buffered |-> <<>>]
    BY DEF Init
  <1>2. \A m \in Masters : command[m] \in Commands[m]
    BY <1>1, NocAssumption
  <1>3. address \in [Masters -> Int]
    <2>1. ASSUME NEW m \in Masters PROVE command[m].address \in Int
      <3>1. command[m].address \in Addresses
        BY <1>2, NocAssumption
      <3>2. PICK s \in Slaves : command[m].address \in Base[s] .. Top[s]
        BY <3>1 DEF Addresses
      <3> QED BY <3>2
    <2> QED BY <1>1, <2>1
  <1>4. CallTypes
    BY <1>1, <1>2, <1>3 DEF CallTypes
  <1>5. \A S : <<>> \in Seq(S) /\ DOMAIN (<<>>) = {}
    OBVIOUS
  <1>6. FlitTypes
    <2>1. \A e \in Elements : Edge[e].to \in Links
      BY DEF Links
    <2> QED BY <1>1, <1>5, <2>1 DEF FlitTypes
  <1>7. EndTypes
    BY <1>1, <1>5 DEF EndTypes
  <1> QED BY <1>4, <1>6, <1>7 DEF Types

\* The types are kept by every step.
LEMMA TypesStep ==
    ASSUME Types, [Next]_vars
    PROVE  Types'
  <1>1. ASSUME UNCHANGED <<calling, sessions, packet_queue, openSessions, slaves, waiting, wire, buffer>>
        PROVE  Types'
    <2>1. UNCHANGED <<pc, calls, command, last_session_id, endTransm, timedOut, packet_queue,
                      openSessions, serving, address, waiting, wire, buffer>>
      BY <1>1 DEF calling, sessions, slaves
    <2>2. CallTypes'
      BY <2>1 DEF Types, CallTypes
    <2>3. Opened \subseteq Opened'
      BY <2>1 DEF Opened
    <2> QED BY <2>1, <2>2, <2>3, SameFlits, SameEnds DEF Types
  <1>2. CASE UNCHANGED vars
    BY <1>1, <1>2 DEF vars, network
  <1>3. ASSUME NEW w \in Switches, Govern(w) PROVE Types'
    BY <1>1, <1>3 DEF Govern
  <1> QED
    BY <1>2, <1>3, BeginTypes, TimeoutTypes, RetryTypes, ReturnTypes, StartTypes, ServedTypes, TickTypes DEF Next

-----------------------------------------------------------------------------
(* Who waits, waits for something *)

\* What is known of a line: it is its buffer, and the wire at the end of it.
Lines ==
    \A l \in Links :
        /\ Line(l) \in Seq(Flit) /\ Len(Line(l)) \in Nat /\ DOMAIN Line(l) = 1 .. Len(Line(l))
        /\ \A i \in 1 .. Len(Line(l)) : Line(l)[i] \in Flit /\ Line(l)[i].session \in Opened
        /\ wire[l] # Silence => /\ wire[l] \in Flit /\ Len(Line(l)) >= 1
                                /\ Line(l)[Len(Line(l))] = wire[l]
        /\ l \in Buffered =>
                /\ buffer[l] \in Seq(Flit) /\ Len(buffer[l]) \in Nat
                /\ Len(Line(l)) = IF wire[l] = Silence THEN Len(buffer[l]) ELSE Len(buffer[l]) + 1
                /\ \A i \in 1 .. Len(buffer[l]) : Line(l)[i] = buffer[l][i]
        /\ l \notin Buffered => Len(Line(l)) = IF wire[l] = Silence THEN 0 ELSE 1

\* What is known of the lines follows from the types,
LEMMA LinesFine == Types => Lines
  BY LineHas DEF Lines

\* and so after a step.
LEMMA LinesNext == Types' => Lines'
  BY LinesFine, PTL

\* Acknowledgements that masters send are read by nobody.
Counts(f) == f.dst \in Masters \/ f.kind # "ACK"

\* A master's session, and how many flits it is about on their way to d.
Session(m)   == <<m, last_session_id[m]>>
SizeTo(d, m) == IF d \in Masters THEN AnswerSize(m) ELSE RequestSize(m)

\* The flit number i of what is sent to d in session S is still to come, or has been got.
Coming(d, S, i) ==
    \/ \E l \in Links : \E j \in DOMAIN Line(l) :
          /\ Counts(Line(l)[j]) /\ Line(l)[j].dst = d /\ Line(l)[j].session = S
          /\ Line(l)[j].flit_left = i
    \/ \E e \in Elements : \E j \in DOMAIN packet_queue[e] :
          /\ Counts(packet_queue[e][j]) /\ packet_queue[e][j].dst = d /\ packet_queue[e][j].session = S
          /\ i <= packet_queue[e][j].flit_left
Has(d, S, i) == S \in DOMAIN openSessions[d] /\ i \in openSessions[d][S]

Travels(m, d) == \A i \in 1 .. SizeTo(d, m) : Coming(d, Session(m), i) \/ Has(d, Session(m), i)

AtSlave(S) ==
    \E s \in Slaves : \/ \E j \in DOMAIN waiting[s] : waiting[s][j].session = S
                      \/ serving[s] # Nobody /\ serving[s].packet.session = S

Underway(m) == (\E d \in Slaves \cup {m} : Travels(m, d)) \/ AtSlave(Session(m))

\* All that is under way in the session of m has the size it should have, and what was
\* got of it is a part.
Sized(m) ==
    /\ \A l \in Links : \A j \in DOMAIN Line(l) :
          Counts(Line(l)[j]) /\ Line(l)[j].session = Session(m) => Line(l)[j].size = SizeTo(Line(l)[j].dst, m)
    /\ \A e \in Elements : \A j \in DOMAIN packet_queue[e] :
          Counts(packet_queue[e][j]) /\ packet_queue[e][j].session = Session(m)
             => packet_queue[e][j].size = SizeTo(packet_queue[e][j].dst, m)
    /\ \A d \in Elements : Session(m) \in DOMAIN openSessions[d] =>
          /\ openSessions[d][Session(m)] \subseteq 1 .. SizeTo(d, m)
          /\ ~ (1 .. SizeTo(d, m) \subseteq openSessions[d][Session(m)])

\* A call that waits has lost a flit of its session, or waits for something.
WaitsForSomething ==
    \A m \in Masters : pc[m] = "waiting" => Sized(m) /\ (Session(m) \in lost \/ Underway(m))

\* The queues, when packets of the set new are added to them.
QueuesGrow(new) ==
    /\ \A e \in Elements : \A j \in DOMAIN packet_queue[e] :
          j \in DOMAIN packet_queue'[e] /\ packet_queue'[e][j] = packet_queue[e][j]
    /\ \A e \in Elements : \A j \in DOMAIN packet_queue'[e] :
          \/ j \in DOMAIN packet_queue[e] /\ packet_queue'[e][j] = packet_queue[e][j]
          \/ packet_queue'[e][j] \in new
    /\ \A p \in new : \E e \in Elements : \E j \in DOMAIN packet_queue'[e] : packet_queue'[e][j] = p

\* What Queues does to the queues.
LEMMA QueuesHas ==
    ASSUME FlitTypes, NEW e \in Elements, NEW p \in Flit, Queues(e, p)
    PROVE  QueuesGrow({p})
  <1>1. packet_queue' = [packet_queue EXCEPT ![e] = Append(@, p)] /\ DOMAIN packet_queue = Elements
    BY DEF Queues, FlitTypes
  <1>2. ASSUME NEW x \in Elements
        PROVE  /\ \A j \in DOMAIN packet_queue[x] :
                     j \in DOMAIN packet_queue'[x] /\ packet_queue'[x][j] = packet_queue[x][j]
               /\ \A j \in DOMAIN packet_queue'[x] :
                     \/ j \in DOMAIN packet_queue[x] /\ packet_queue'[x][j] = packet_queue[x][j]
                     \/ packet_queue'[x][j] = p
               /\ x = e => \E j \in DOMAIN packet_queue'[x] : packet_queue'[x][j] = p
    <2> DEFINE q == packet_queue[x]
    <2>1. q \in Seq(Flit) /\ packet_queue'[x] = IF x = e THEN Append(q, p) ELSE q
      BY <1>1 DEF FlitTypes
    <2> HIDE DEF q
    <2>2. /\ Len(q) \in Nat /\ DOMAIN q = 1 .. Len(q)
          /\ DOMAIN Append(q, p) = 1 .. Len(q) + 1
          /\ \A i \in 1 .. Len(q) : Append(q, p)[i] = q[i]
          /\ Append(q, p)[Len(q) + 1] = p
      BY <2>1, AppendHas
    <2>3. \A i \in 1 .. Len(q) + 1 : i = Len(q) + 1 \/ i \in 1 .. Len(q)
      BY <2>2
    <2>4. \A i \in 1 .. Len(q) : i \in 1 .. Len(q) + 1
      BY <2>2
    <2>5. Len(q) + 1 \in 1 .. Len(q) + 1
      BY <2>2
    <2>6. CASE x = e
      <3>1. packet_queue'[x] = Append(q, p)
        BY <2>1, <2>6
      <3> QED BY ONLY <2>2, <2>3, <2>4, <2>5, <3>1 DEF q
    <2>7. CASE x # e
      <3>1. packet_queue'[x] = q
        BY <2>1, <2>7
      <3> QED BY ONLY <2>7, <3>1 DEF q
    <2> QED BY <2>6, <2>7
  <1> QED BY <1>2 DEF QueuesGrow

\* A session that nothing touches but the queues, to which others' packets are added.
LEMMA SameSession ==
    ASSUME Types, NEW m \in Masters, UNCHANGED <<wire, buffer, openSessions>>,
           Session(m)' = Session(m), command'[m] = command[m], NEW new, QueuesGrow(new),
           \A p \in new : Counts(p) /\ p.session = Session(m) => p.size = SizeTo(p.dst, m)
    PROVE  /\ Sized(m) => Sized(m)'
           /\ \A d : Travels(m, d) => Travels(m, d)'
  <1>1. \A l : Line(l)' = Line(l)
    BY DEF Line
  <1>2. \A d : SizeTo(d, m)' = SizeTo(d, m)
    BY DEF SizeTo, AnswerSize, RequestSize
  <1>3. ASSUME Sized(m) PROVE Sized(m)'
    <2>1. ASSUME NEW e \in Elements, NEW j \in DOMAIN packet_queue'[e],
                 Counts(packet_queue'[e][j]), packet_queue'[e][j].session = Session(m)
          PROVE  packet_queue'[e][j].size = SizeTo(packet_queue'[e][j].dst, m)
      BY <1>3, <2>1 DEF Sized, QueuesGrow
    <2> QED BY <1>1, <1>2, <1>3, <2>1 DEF Sized, Counts
  <1>4. ASSUME NEW d, NEW S, NEW i, Coming(d, S, i) PROVE Coming(d, S, i)'
    <2>1. CASE \E l \in Links : \E j \in DOMAIN Line(l) :
                  /\ Counts(Line(l)[j]) /\ Line(l)[j].dst = d /\ Line(l)[j].session = S
                  /\ Line(l)[j].flit_left = i
      BY <1>1, <2>1 DEF Coming, Counts
    <2>2. CASE \E e \in Elements : \E j \in DOMAIN packet_queue[e] :
                  /\ Counts(packet_queue[e][j]) /\ packet_queue[e][j].dst = d /\ packet_queue[e][j].session = S
                  /\ i <= packet_queue[e][j].flit_left
      <3>0. PICK e \in Elements : \E j \in DOMAIN packet_queue[e] :
                  /\ Counts(packet_queue[e][j]) /\ packet_queue[e][j].dst = d /\ packet_queue[e][j].session = S
                  /\ i <= packet_queue[e][j].flit_left
        BY <2>2
      <3>1. PICK j \in DOMAIN packet_queue[e] :
                  /\ Counts(packet_queue[e][j]) /\ packet_queue[e][j].dst = d /\ packet_queue[e][j].session = S
                  /\ i <= packet_queue[e][j].flit_left
        BY <3>0
      <3>2. j \in DOMAIN packet_queue'[e] /\ packet_queue'[e][j] = packet_queue[e][j]
        BY DEF QueuesGrow
      <3> QED BY <3>1, <3>2 DEF Coming, Counts
    <2> QED BY <1>4, <2>1, <2>2 DEF Coming
  <1>5. \A d, S, i : Has(d, S, i)' = Has(d, S, i)
    BY DEF Has
  <1>6. ASSUME NEW d, Travels(m, d) PROVE Travels(m, d)'
    BY <1>2, <1>4, <1>5, <1>6 DEF Travels
  <1> QED BY <1>3, <1>6

\* A session that has just been opened: nothing is under way but its request.
LEMMA NewSession ==
    ASSUME Types, NEW m \in Masters, UNCHANGED <<wire, buffer, openSessions>>,
           NEW S, S = <<m, last_session_id[m] + 1>>, Session(m)' = S,
           NEW p \in Flit, QueuesGrow({p}),
           p.kind # "ACK", p.dst \in Slaves, p.session = S,
           p.size = RequestSize(m)', p.flit_left = p.size
    PROVE  Sized(m)' /\ Underway(m)'
  <1>1. S \notin Opened
    <2>1. last_session_id[m] \in Nat
      BY DEF Types, CallTypes
    <2> QED BY <2>1 DEF Opened
  <1>2. \A l : Line(l)' = Line(l)
    BY DEF Line
  <1>3. \A l \in Links : \A j \in DOMAIN Line(l) : Line(l)[j].session # S
    <2>1. Lines
      BY LinesFine
    <2>2. ASSUME NEW l \in Links, NEW j \in DOMAIN Line(l) PROVE Line(l)[j].session \in Opened
      BY <2>1, <2>2 DEF Lines
    <2> QED BY ONLY <1>1, <2>2
  <1>4. \A e \in Elements : \A j \in DOMAIN packet_queue[e] : packet_queue[e][j].session # S
    <2>1. ASSUME NEW e \in Elements, NEW j \in DOMAIN packet_queue[e]
          PROVE  packet_queue[e][j].session \in Opened
      BY <2>1 DEF Types, FlitTypes
    <2> QED BY ONLY <1>1, <2>1
  <1>5. \A d \in Elements : S \notin DOMAIN openSessions[d]
    BY <1>1 DEF Types, EndTypes
  <1>6. p.dst \notin Masters /\ SizeTo(p.dst, m)' = RequestSize(m)'
    BY NocAssumption DEF SizeTo
  <1>7. ASSUME NEW e \in Elements, NEW j \in DOMAIN packet_queue'[e], packet_queue'[e][j].session = S
        PROVE  packet_queue'[e][j] = p
    BY <1>4, <1>7 DEF QueuesGrow
  <1>8. Sized(m)'
    <2>1. ASSUME NEW e \in Elements, NEW j \in DOMAIN packet_queue'[e], packet_queue'[e][j].session = S,
                 NEW d, d = packet_queue'[e][j].dst
          PROVE  packet_queue'[e][j].size = SizeTo(d, m)'
      <3>1. packet_queue'[e][j] = p
        BY <1>7, <2>1
      <3>2. d = p.dst
        BY <2>1, <3>1
      <3> QED BY <1>6, <3>1, <3>2
    <2>2. \A l \in Links : \A j \in DOMAIN Line(l)' : Line(l)'[j].session # S
      BY <1>2, <1>3
    <2>3. \A d \in Elements : S \notin DOMAIN openSessions'[d]
      BY <1>5
    <2> QED BY <2>1, <2>2, <2>3 DEF Sized
  <1>9. Travels(m, p.dst)'
    <2>0. PICK e \in Elements : \E j \in DOMAIN packet_queue'[e] : packet_queue'[e][j] = p
      BY DEF QueuesGrow
    <2>1. PICK j \in DOMAIN packet_queue'[e] : packet_queue'[e][j] = p
      BY <2>0
    <2>2. Counts(p)'
      BY DEF Counts
    <2>3. \A i \in 1 .. SizeTo(p.dst, m)' : i <= p.flit_left
      BY <1>6
    <2>5. \A i \in 1 .. SizeTo(p.dst, m)' : Coming(p.dst, S, i)'
      BY <2>1, <2>2, <2>3 DEF Coming
    <2> QED BY <2>5 DEF Travels
  <1> QED BY <1>8, <1>9 DEF Underway

-----------------------------------------------------------------------------
(* What a clock edge makes of the flits of a session *)

\* What g was before the clock edge: a flit on a line, the first of a queue, or nothing
\* but an acknowledgement that a master makes of what enters it.
Came(g) ==
    \/ \E k \in Links : \E i \in DOMAIN Line(k) : g = Line(k)[i]
    \/ \E e \in Elements : packet_queue[e] # <<>> /\ g = packet_queue[e][1]
    \/ \E e \in Elements : NewAck(e, g)

\* Where the flits on the wires come from.
LEMMA WireCame ==
    ASSUME Types, Tick, NEW l \in Links, NEW g, g = wire'[l], g # Silence
    PROVE  Came(g)
  <1>1. CASE l \in DOMAIN Writer
    <2>1. PICK e \in Elements : l = Edge[e].from
      BY <1>1 DEF Writer
    <2>2. PICK c \in {0, 1} : QueueMoves(e, c)
      BY TickQueue
    <2>3. /\ packet_queue[e] # <<>> => g = packet_queue[e][1]
          /\ packet_queue[e] = <<>> => NewAck(e, g)
      BY <2>1, <2>2 DEF QueueMoves
    <2> QED BY <2>3 DEF Came
  <1>2. CASE l \notin DOMAIN Writer
    <2>1. PICK left : LineMoves(left)
      BY TickLines
    <2>2. PICK k \in left : g = Line(k)[1] /\ Len(Line(k)) >= 1 /\ k \in Buffered
      BY <1>2, <2>1 DEF LineMoves
    <2>3. k \in Links
      BY <2>2, Enters
    <2>4. 1 \in DOMAIN Line(k)
      BY <2>2, <2>3, LineHas
    <2> QED BY <2>2, <2>3, <2>4 DEF Came
  <1> QED BY <1>1, <1>2

\* Where the flits on the lines come from.
LEMMA LineCame ==
    ASSUME Types, Tick, NEW l \in Links, NEW j \in DOMAIN Line(l)', NEW g, g = Line(l)'[j]
    PROVE  Came(g)
  <1>1. Lines'
    BY TickTypes, LinesNext
  <1>2. /\ DOMAIN Line(l)' = 1 .. Len(Line(l)') /\ Len(Line(l)') \in Nat
        /\ wire'[l] # Silence => Line(l)'[Len(Line(l)')] = wire'[l]
        /\ l \in Buffered =>
             /\ Len(buffer'[l]) \in Nat
             /\ Len(Line(l)') = IF wire'[l] = Silence THEN Len(buffer'[l]) ELSE Len(buffer'[l]) + 1
             /\ \A i \in 1 .. Len(buffer'[l]) : Line(l)'[i] = buffer'[l][i]
        /\ l \notin Buffered => Len(Line(l)') = IF wire'[l] = Silence THEN 0 ELSE 1
    BY <1>1 DEF Lines
  <1>0. j \in 1 .. Len(Line(l)')
    BY ONLY <1>2, j \in DOMAIN Line(l)'
  <1>3. CASE wire'[l] # Silence /\ j = Len(Line(l)')
    BY <1>2, <1>3, WireCame
  <1>4. CASE ~(wire'[l] # Silence /\ j = Len(Line(l)'))
    <2>0. l \in Buffered /\ j \in 1 .. Len(buffer'[l])
      <3> DEFINE n == Len(Line(l)')   b == Len(buffer'[l])
      <3>1. j \in 1 .. n /\ n \in Nat
        BY <1>0, <1>2
      <3>2. l \in Buffered => b \in Nat /\ n = IF wire'[l] = Silence THEN b ELSE b + 1
        BY <1>2
      <3>3. l \notin Buffered => n = IF wire'[l] = Silence THEN 0 ELSE 1
        BY <1>2
      <3>4. wire'[l] = Silence \/ j # n
        BY <1>4
      <3> HIDE DEF n, b
      <3>5. l \in Buffered /\ j \in 1 .. b
        BY ONLY <3>1, <3>2, <3>3, <3>4
      <3> QED BY ONLY <3>5 DEF b
    <2>1. l \in Buffered /\ j \in 1 .. Len(buffer'[l]) /\ g = buffer'[l][j]
      BY ONLY <1>2, <2>0, g = Line(l)'[j]
    <2>2. PICK left : LineMoves(left)
      BY TickLines
    <2>3. LineKeeps(l, left)
      BY <2>1, <2>2 DEF LineMoves
    <2>4. DOMAIN Line(l) = 1 .. Len(Line(l)) /\ Len(Line(l)) \in Nat
      BY LineHas
    <2>5. PICK c \in {0, 1}, n \in Nat :
            /\ n = Len(Line(l)) \/ n = Len(Line(l)) - 1
            /\ Len(buffer'[l]) = n - c /\ \A i \in 1 .. n - c : buffer'[l][i] = Line(l)[i + c]
      BY ONLY <2>3 DEF LineKeeps
    <2>6. j + c \in DOMAIN Line(l) /\ g = Line(l)[j + c]
      <3>1. j \in 1 .. n - c /\ g = Line(l)[j + c]
        BY ONLY <2>1, <2>5
      <3> DEFINE k == Len(Line(l))
      <3>2. k \in Nat /\ (n = k \/ n = k - 1) /\ DOMAIN Line(l) = 1 .. k
        BY ONLY <2>4, <2>5
      <3>3. j \in 1 .. n - c
        BY ONLY <3>1
      <3> HIDE DEF k
      <3>4. j + c \in 1 .. k
        BY ONLY <3>2, <3>3, c \in {0, 1}, n \in Nat
      <3> QED BY ONLY <3>1, <3>2, <3>4
    <2> QED BY <2>6 DEF Came
  <1> QED BY <1>3, <1>4

\* Where the packets in the queues come from.
LEMMA QueueCame ==
    ASSUME Types, Tick, NEW e \in Elements, NEW j \in DOMAIN packet_queue'[e],
           NEW g, g = packet_queue'[e][j]
    PROVE  \/ \E i \in DOMAIN packet_queue[e] : Same(g, packet_queue[e][i])
           \/ NewAck(e, g)
  <1>1. PICK c \in {0, 1} : QueueMoves(e, c)
    BY TickQueue
  <1> DEFINE q == packet_queue[e]   r == packet_queue'[e]
  <1>2. /\ r \in Seq(Flit)
        /\ \A i \in 1 .. Len(q) - c : Same(r[i], q[i + c])
        /\ \A i \in DOMAIN r : i > Len(q) - c => NewAck(e, r[i])
    BY <1>1 DEF QueueMoves
  <1>3. q \in Seq(Flit)
    BY DEF Types, FlitTypes
  <1>4. Len(q) \in Nat /\ DOMAIN q = 1 .. Len(q) /\ DOMAIN r = 1 .. Len(r) /\ Len(r) \in Nat
    BY <1>2, <1>3, LenProperties
  <1>5. j \in DOMAIN r /\ g = r[j]
    OBVIOUS
  <1> HIDE DEF q, r
  <1>6. CASE j > Len(q) - c
    BY <1>2, <1>5, <1>6
  <1>7. CASE ~(j > Len(q) - c)
    <2>1. j \in 1 .. Len(q) - c /\ j + c \in DOMAIN q
      BY <1>4, <1>5, <1>7
    <2>2. Same(g, q[j + c])
      BY <1>2, <1>5, <2>1
    <2> QED BY <2>1, <2>2 DEF q
  <1> QED BY <1>6, <1>7

\* What is on a wire is on a line.
LEMMA WireOnLine ==
    ASSUME Types, Tick, NEW l \in Links, NEW g, g = wire'[l], g # Silence
    PROVE  \E j \in DOMAIN Line(l)' : Line(l)'[j] = g
  <1>1. Lines'
    BY TickTypes, LinesNext
  <1>2. /\ DOMAIN Line(l)' = 1 .. Len(Line(l)') /\ Len(Line(l)') \in Nat
        /\ Len(Line(l)') >= 1 /\ Line(l)'[Len(Line(l)')] = wire'[l]
    BY <1>1 DEF Lines
  <1>3. Len(Line(l)') \in DOMAIN Line(l)'
    BY <1>2
  <1> QED BY <1>2, <1>3

\* A flit on a line goes on, is lost, or enters an element.
LEMMA LineGoes ==
    ASSUME Types, Tick, NEW l \in Links, NEW j \in DOMAIN Line(l), NEW g, g = Line(l)[j]
    PROVE  \/ \E k \in Links : \E i \in DOMAIN Line(k)' : Line(k)'[i] = g
           \/ g.session \in lost'
           \/ g = Into(g.dst) /\ g.dst \in Elements
  <1>1. Lines' /\ Types'
    BY TickTypes, LinesNext
  <1>2. /\ DOMAIN Line(l) = 1 .. Len(Line(l)) /\ Len(Line(l)) \in Nat
        /\ wire[l] # Silence => Line(l)[Len(Line(l))] = wire[l]
        /\ l \notin Buffered => Len(Line(l)) = IF wire[l] = Silence THEN 0 ELSE 1
        /\ g \in Flit
    BY LineHas
  <1>0. j \in 1 .. Len(Line(l)) /\ Len(Line(l)) \in Nat
    BY ONLY <1>2, j \in DOMAIN Line(l)
  <1>3. CASE l \notin Buffered
    <2>1. PICK e \in Elements : l = Edge[e].to
      BY <1>3 DEF Links
    <2>2. g = wire[l] /\ wire[l] # Silence
      BY <1>2, <1>3
    <2>3. g.dst = e
      BY <2>1, <2>2 DEF Types, FlitTypes
    <2> QED BY <2>1, <2>2, <2>3 DEF Into
  <1>4. CASE l \in Buffered
    <2>1. PICK left : LineMoves(left)
      BY TickLines
    <2>2. PICK c \in {0, 1}, n \in Nat :
            /\ c = 1 <=> l \in left
            /\ c <= n
            /\ \/ n = Len(Line(l))
               \/ n = Len(Line(l)) - 1 /\ wire[l] # Silence /\ wire[l].session \in lost'
            /\ Len(buffer'[l]) = n - c
            /\ \A i \in 1 .. n - c : buffer'[l][i] = Line(l)[i + c]
      BY <1>4, <2>1 DEF LineMoves, LineKeeps
    <2>3. CASE j > n
      <3>1. j = Len(Line(l)) /\ wire[l] # Silence /\ wire[l].session \in lost'
        BY ONLY <1>0, <2>2, <2>3
      <3>2. g = wire[l]
        BY ONLY <1>2, <3>1, g = Line(l)[j]
      <3> QED BY ONLY <3>1, <3>2
    <2>4. CASE j <= n /\ j > c
      <3>1. j - c \in 1 .. n - c /\ (j - c) + c = j
        BY ONLY <1>0, <2>2, <2>4
      <3>2. buffer'[l][j - c] = g
        BY <2>2, <3>1
      <3>3. /\ DOMAIN Line(l)' = 1 .. Len(Line(l)') /\ Len(Line(l)') \in Nat
            /\ Len(Line(l)') >= Len(buffer'[l])
            /\ \A i \in 1 .. Len(buffer'[l]) : Line(l)'[i] = buffer'[l][i]
        BY <1>1, <1>4 DEF Lines
      <3>4. j - c \in DOMAIN Line(l)' /\ Line(l)'[j - c] = g
        BY <2>2, <3>1, <3>2, <3>3
      <3> QED BY <3>4
    <2>5. CASE j = 1 /\ c = 1
      <3>1. l \in left
        BY <2>2, <2>5
      <3>2. OutOf(l) \in Links /\ wire'[OutOf(l)] = g
        BY <2>1, <2>5, <3>1 DEF LineMoves
      <3>3. g # Silence
        BY <1>2, FlitFields
      <3> QED BY <3>2, <3>3, WireOnLine
    <2>6. j > n \/ (j <= n /\ j > c) \/ (j = 1 /\ c = 1)
      BY ONLY <1>0, <2>2
    <2> QED BY ONLY <2>3, <2>4, <2>5, <2>6
  <1> QED BY <1>3, <1>4

\* A packet in a queue goes on in it, but for the flit that is sent.
LEMMA QueueGoes ==
    ASSUME Types, Tick, NEW e \in Elements, NEW j \in DOMAIN packet_queue[e],
           NEW g, g = packet_queue[e][j], NEW i \in Nat \ {0}, i <= g.flit_left
    PROVE  \/ \E x \in DOMAIN packet_queue'[e] :
                 Same(packet_queue'[e][x], g) /\ i <= packet_queue'[e][x].flit_left
           \/ wire'[Edge[e].from] = g /\ g.flit_left = i
  <1>1. PICK c \in {0, 1} : QueueMoves(e, c)
    BY TickQueue
  <1> DEFINE q == packet_queue[e]   r == packet_queue'[e]   out == wire'[Edge[e].from]
  <1>2. /\ r \in Seq(Flit) /\ Len(r) >= Len(q) - c
        /\ q # <<>> => out = q[1]
        /\ q # <<>> => (c = 1 <=> q[1].flit_left = 1)
        /\ \A k \in 1 .. Len(q) - c :
              /\ Same(r[k], q[k + c])
              /\ r[k].flit_left = IF k + c = 1 THEN q[1].flit_left - 1 ELSE q[k + c].flit_left
    BY <1>1 DEF QueueMoves
  <1>3. q \in Seq(Flit)
    BY DEF Types, FlitTypes
  <1>4. Len(q) \in Nat /\ DOMAIN q = 1 .. Len(q) /\ DOMAIN r = 1 .. Len(r) /\ Len(r) \in Nat
    BY <1>2, <1>3, LenProperties
  <1>5. j \in 1 .. Len(q) /\ g = q[j]
    BY <1>4
  <1>6. g.flit_left \in Nat \ {0}
    <2>1. g \in Flit
      BY <1>3, <1>4, <1>5, ElementOfSeq
    <2> QED BY <2>1, FlitFields
  <1>7. q # <<>>
    BY <1>3, <1>4, <1>5, EmptySeq
  <1> HIDE DEF q, r, out
  <1>8. CASE j > c
    <2>1. j - c \in 1 .. Len(q) - c /\ (j - c) + c = j
      BY ONLY <1>4, <1>5, <1>8, c \in {0, 1}
    <2>2. /\ Same(r[j - c], g)
          /\ r[j - c].flit_left = IF j = 1 THEN q[1].flit_left - 1 ELSE g.flit_left
      BY ONLY <1>2, <1>5, <2>1
    <2>3. j - c \in DOMAIN r
      BY ONLY <1>2, <1>4, <2>1
    <2>4. CASE i <= r[j - c].flit_left
      BY <2>2, <2>3, <2>4 DEF r
    <2>5. CASE ~(i <= r[j - c].flit_left)
      <3>1. j = 1
        BY <1>6, <2>2, <2>5
      <3>2. r[j - c].flit_left = g.flit_left - 1
        BY <1>5, <2>2, <3>1
      <3>3. g.flit_left = i
        BY <1>6, <2>5, <3>2
      <3> QED BY <1>2, <1>5, <1>7, <3>1, <3>3 DEF out
    <2> QED BY <2>4, <2>5
  <1>9. CASE ~(j > c)
    <2>1. j = 1 /\ c = 1
      BY ONLY <1>4, <1>5, <1>9, c \in {0, 1}
    <2>2. g.flit_left = 1 /\ out = g
      BY <1>2, <1>5, <1>7, <2>1
    <2>3. i = 1
      BY <2>2
    <2> QED BY <2>2, <2>3 DEF out
  <1> QED BY <1>8, <1>9

\* A flit that is to come is still to come after a clock edge, unless it has been lost or
\* has entered the element it is for.
LEMMA ComingTick ==
    ASSUME Types, Tick, NEW d, NEW S, NEW i \in Nat \ {0}, Coming(d, S, i)
    PROVE  \/ Coming(d, S, i)'
           \/ S \in lost'
           \/ \E g : g = Into(d) /\ g \in Flit /\ Counts(g) /\ g.dst = d /\ g.session = S /\ g.flit_left = i
  <1>1. CASE \E l \in Links : \E j \in DOMAIN Line(l) :
                /\ Counts(Line(l)[j]) /\ Line(l)[j].dst = d /\ Line(l)[j].session = S
                /\ Line(l)[j].flit_left = i
    <2>1. PICK l \in Links : \E j \in DOMAIN Line(l) :
                /\ Counts(Line(l)[j]) /\ Line(l)[j].dst = d /\ Line(l)[j].session = S
                /\ Line(l)[j].flit_left = i
      BY <1>1
    <2>2. PICK j \in DOMAIN Line(l) :
                /\ Counts(Line(l)[j]) /\ Line(l)[j].dst = d /\ Line(l)[j].session = S
                /\ Line(l)[j].flit_left = i
      BY <2>1
    <2> DEFINE h == Line(l)[j]
    <2>3. \E g : g = h
      OBVIOUS
    <2>4. PICK g : g = Line(l)[j]
      BY <2>3
    <2>5. Counts(g) /\ g.dst = d /\ g.session = S /\ g.flit_left = i
      BY <2>2, <2>4
    <2>6. g \in Flit
      BY <2>4, LineHas
    <2>7. \/ \E k \in Links : \E x \in DOMAIN Line(k)' : Line(k)'[x] = g
          \/ g.session \in lost'
          \/ g = Into(g.dst) /\ g.dst \in Elements
      BY <2>4, LineGoes
    <2>8. CASE \E k \in Links : \E x \in DOMAIN Line(k)' : Line(k)'[x] = g
      BY <2>5, <2>8 DEF Coming, Counts
    <2> QED BY <2>5, <2>6, <2>7, <2>8
  <1>2. CASE \E e \in Elements : \E j \in DOMAIN packet_queue[e] :
                /\ Counts(packet_queue[e][j]) /\ packet_queue[e][j].dst = d /\ packet_queue[e][j].session = S
                /\ i <= packet_queue[e][j].flit_left
    <2>1. PICK e \in Elements : \E j \in DOMAIN packet_queue[e] :
                /\ Counts(packet_queue[e][j]) /\ packet_queue[e][j].dst = d /\ packet_queue[e][j].session = S
                /\ i <= packet_queue[e][j].flit_left
      BY <1>2
    <2>2. PICK j \in DOMAIN packet_queue[e] :
                /\ Counts(packet_queue[e][j]) /\ packet_queue[e][j].dst = d /\ packet_queue[e][j].session = S
                /\ i <= packet_queue[e][j].flit_left
      BY <2>1
    <2>3. \E g : g = packet_queue[e][j]
      OBVIOUS
    <2>4. PICK g : g = packet_queue[e][j]
      BY <2>3
    <2>5. Counts(g) /\ g.dst = d /\ g.session = S /\ i <= g.flit_left
      BY <2>2, <2>4
    <2>6. \/ \E x \in DOMAIN packet_queue'[e] :
                 Same(packet_queue'[e][x], g) /\ i <= packet_queue'[e][x].flit_left
          \/ wire'[Edge[e].from] = g /\ g.flit_left = i
      BY <2>4, <2>5, QueueGoes
    <2>7. CASE \E x \in DOMAIN packet_queue'[e] :
                 Same(packet_queue'[e][x], g) /\ i <= packet_queue'[e][x].flit_left
      <3>1. PICK x \in DOMAIN packet_queue'[e] :
                 Same(packet_queue'[e][x], g) /\ i <= packet_queue'[e][x].flit_left
        BY <2>7
      <3>2. /\ packet_queue'[e][x].dst = d /\ packet_queue'[e][x].session = S
            /\ packet_queue'[e][x].dst \in Masters \/ packet_queue'[e][x].kind # "ACK"
        BY <2>5, <3>1 DEF Same, Counts
      <3> QED BY <3>1, <3>2 DEF Coming, Counts
    <2>8. CASE wire'[Edge[e].from] = g /\ g.flit_left = i
      <3>1. Edge[e].from \in Links
        BY LinkAssumption DEF Links
      <3>2. g # Silence
        <4>1. packet_queue[e] \in Seq(Flit)
          BY DEF Types, FlitTypes
        <4>2. g \in Flit
          BY <2>4, <4>1, LenProperties, ElementOfSeq
        <4> QED BY <4>2, FlitFields
      <3>3. \E x \in DOMAIN Line(Edge[e].from)' : Line(Edge[e].from)'[x] = g
        BY <2>8, <3>1, <3>2, WireOnLine
      <3> QED BY <2>5, <2>8, <3>1, <3>3 DEF Coming, Counts
    <2> QED BY <2>6, <2>7, <2>8
  <1> QED BY <1>1, <1>2 DEF Coming

\* What enters an element is on a line.
LEMMA IntoOnLine ==
    ASSUME Types, NEW e \in Elements, NEW g, g = Into(e), g # Silence
    PROVE  /\ g \in Flit /\ g.dst = e
           /\ \E l \in Links : \E j \in DOMAIN Line(l) : g = Line(l)[j]
  <1>1. Edge[e].to \in Links
    BY DEF Links
  <1>2. Lines
    BY LinesFine
  <1> DEFINE l == Edge[e].to
  <1>3. /\ DOMAIN Line(l) = 1 .. Len(Line(l)) /\ Len(Line(l)) \in Nat
        /\ Len(Line(l)) >= 1 /\ Line(l)[Len(Line(l))] = g
    BY <1>1, <1>2 DEF Lines, Into
  <1>4. Len(Line(l)) \in DOMAIN Line(l)
    BY <1>3
  <1>5. g \in Flit /\ g.dst = e
    BY IntoType
  <1> QED BY <1>1, <1>3, <1>4, <1>5

\* All the flits of a packet make it complete.
LEMMA AllComplete ==
    ASSUME NEW n \in Nat, NEW G, G \subseteq 1 .. n, 1 .. n \subseteq G
    PROVE  Cardinality(G) = n
  <1>1. G = 1 .. n
    BY ONLY G \subseteq 1 .. n, 1 .. n \subseteq G
  <1>2. Cardinality(1 .. n) = n
    <2> DEFINE one == 1
    <2>1. one \in Int /\ n \in Int /\ one <= n + 1
      OBVIOUS
    <2>2. Cardinality(1 .. n) = IF 1 > n THEN 0 ELSE n - 1 + 1
      BY FS_Interval
    <2> QED BY <2>2
  <1> QED BY <1>1, <1>2

\* What an element has of a packet that is not complete, when a flit of it arrives.
LEMMA GotPart ==
    ASSUME Types, NEW m \in Masters, Sized(m), NEW d \in Elements, NEW f, f = Into(d),
           f.kind = "PART", f.session = Session(m)
    PROVE  /\ f \in Flit /\ f.dst = d /\ Counts(f) /\ f.size = SizeTo(d, m)
           /\ Got(d, f) \subseteq 1 .. SizeTo(d, m)
           /\ ~Complete(d, f) => ~(1 .. SizeTo(d, m) \subseteq Got(d, f))
  <1>1. f # Silence
    BY DEF Silence
  <1>2. f \in Flit /\ f.dst = d /\ \E l \in Links : \E j \in DOMAIN Line(l) : f = Line(l)[j]
    BY <1>1, IntoOnLine
  <1>3. Counts(f)
    BY DEF Counts
  <1>4. f.size = SizeTo(d, m)
    BY <1>2, <1>3 DEF Sized
  <1>5. f.size \in Nat /\ f.flit_left \in 1 .. f.size
    BY <1>2, FlitFields
  <1>6. Got(d, f) \subseteq 1 .. SizeTo(d, m)
    <2>1. f.session \in DOMAIN openSessions[d] => openSessions[d][f.session] \subseteq 1 .. SizeTo(d, m)
      BY DEF Sized
    <2> QED BY <1>4, <1>5, <2>1 DEF Got
  <1>7. ASSUME ~Complete(d, f), 1 .. SizeTo(d, m) \subseteq Got(d, f) PROVE FALSE
    <2> DEFINE G == Got(d, f)   n == f.size
    <2>1. n \in Nat /\ G \subseteq 1 .. n /\ 1 .. n \subseteq G
      BY <1>4, <1>5, <1>6, <1>7
    <2> HIDE DEF G, n
    <2>2. Cardinality(G) = n
      BY <2>1, AllComplete
    <2> QED BY <1>7, <2>2 DEF G, n, Complete
  <1> QED BY <1>2, <1>3, <1>4, <1>6, <1>7

\* The session of a master that waits is not closed before it is complete.
LEMMA OpenTick ==
    ASSUME Types, Tick, NEW m \in Masters, Sized(m), pc[m] = "waiting", NEW d \in Elements,
           NEW S, S = Session(m), NEW f, f = Into(d)
    PROVE  /\ f.kind = "PART" /\ f.session = S /\ ~Arrives(d, f) =>
                S \in DOMAIN openSessions'[d] /\ openSessions'[d][S] = Got(d, f)
           /\ S \in DOMAIN openSessions'[d] =>
                \/ S \in DOMAIN openSessions[d] /\ openSessions'[d][S] = openSessions[d][S]
                \/ f.kind = "PART" /\ f.session = S /\ ~Complete(d, f) /\ openSessions'[d][S] = Got(d, f)
           /\ S \in DOMAIN openSessions[d] =>
                \/ S \in DOMAIN openSessions'[d] /\ openSessions'[d][S] = openSessions[d][S]
                \/ f.kind = "PART" /\ f.session = S
  <1>1. openSessions'[d] = OpenAfter(d, f)
    BY DEF Tick
  <1>2. CASE f.kind # "PART"
    <2>1. openSessions'[d] = openSessions[d]
      BY <1>1, <1>2 DEF OpenAfter
    <2> QED BY <1>2, <2>1
  <1>3. CASE f.kind = "PART" /\ f.session # S
    <2>1. openSessions'[d] = Kept(d, f) \/ openSessions'[d] = Closed(d, f)
      BY <1>1, <1>3 DEF OpenAfter
    <2>2. CASE openSessions'[d] = Kept(d, f)
      BY <1>3, <2>2 DEF Kept
    <2>3. CASE openSessions'[d] = Closed(d, f)
      BY <1>3, <2>3 DEF Closed
    <2> QED BY <2>1, <2>2, <2>3
  <1>4. CASE f.kind = "PART" /\ f.session = S
    <2>1. f \in Flit /\ f.dst = d
      BY <1>4, GotPart
    <2>2. d \in Masters => d = m
      BY <1>4, <2>1, FlitFields DEF Session
    <2>3. f.session[2] = last_session_id[m]
      BY <1>4 DEF Session
    <2>4. d \in Masters => f.session[2] \notin timedOut[d]
      BY <2>2, <2>3 DEF Types, CallTypes
    <2>5. Arrives(d, f) <=> Complete(d, f)
      BY <1>4 DEF Arrives
    <2>6. openSessions'[d] = IF Complete(d, f) THEN Closed(d, f) ELSE Kept(d, f)
      BY <1>1, <1>4, <2>4, <2>5 DEF OpenAfter, Accepted, Elements
    <2>7. S \notin DOMAIN Closed(d, f)
      BY <1>4 DEF Closed
    <2>8. S \in DOMAIN Kept(d, f) /\ Kept(d, f)[S] = Got(d, f)
      BY <1>4 DEF Kept
    <2> QED BY ONLY <1>4, <2>5, <2>6, <2>7, <2>8
  <1> QED BY <1>2, <1>3, <1>4

\* A master that waits after a clock edge has waited before it, in the same session.
LEMMA WaitsBefore ==
    ASSUME Types, Tick, NEW m \in Masters, pc'[m] = "waiting"
    PROVE  /\ pc[m] = "waiting" /\ Session(m)' = Session(m) /\ ~Woken(m, Into(m))
           /\ \A d : SizeTo(d, m)' = SizeTo(d, m)
  <1>1. /\ pc' = [x \in Masters |-> IF Woken(x, Into(x)) THEN "awake" ELSE pc[x]]
        /\ UNCHANGED <<command, last_session_id>>
    BY DEF Tick
  <1>2. pc[m] = "waiting" /\ ~Woken(m, Into(m))
    BY <1>1
  <1> QED BY <1>1, <1>2 DEF Session, SizeTo, RequestSize, AnswerSize

\* The packets of a session keep their size, and what was got of them is a part.
LEMMA SizedTick ==
    ASSUME Types, Tick, NEW m \in Masters, pc'[m] = "waiting", Sized(m)
    PROVE  Sized(m)'
  <1>0. /\ pc[m] = "waiting" /\ Session(m)' = Session(m)
        /\ \A d : SizeTo(d, m)' = SizeTo(d, m)
    BY WaitsBefore
  <1>1. ASSUME NEW e \in Elements, NEW g, NewAck(e, g) PROVE ~Counts(g)
    BY <1>1, NocAssumption DEF NewAck, Counts
  <1>2. ASSUME NEW e \in Elements, NEW j \in DOMAIN packet_queue[e], NEW g,
               Counts(g), g.session = Session(m), Same(g, packet_queue[e][j])
        PROVE  g.size = SizeTo(g.dst, m)
    BY <1>2 DEF Sized, Same, Counts
  <1>3. ASSUME NEW g, Came(g), Counts(g), g.session = Session(m) PROVE g.size = SizeTo(g.dst, m)
    <2>1. CASE \E k \in Links : \E i \in DOMAIN Line(k) : g = Line(k)[i]
      BY <1>3, <2>1 DEF Sized
    <2>2. CASE \E e \in Elements : packet_queue[e] # <<>> /\ g = packet_queue[e][1]
      <3>1. PICK e \in Elements : packet_queue[e] # <<>> /\ g = packet_queue[e][1]
        BY <2>2
      <3>2. packet_queue[e] \in Seq(Flit)
        BY DEF Types, FlitTypes
      <3>3. 1 \in DOMAIN packet_queue[e]
        BY <3>1, <3>2, TailHas
      <3> QED BY <1>3, <3>1, <3>3 DEF Sized
    <2>3. CASE \E e \in Elements : NewAck(e, g)
      BY <1>1, <1>3, <2>3
    <2> QED BY <1>3, <2>1, <2>2, <2>3 DEF Came
  <1>4. ASSUME NEW l \in Links, NEW j \in DOMAIN Line(l)', NEW g, g = Line(l)'[j],
               Counts(g), g.session = Session(m)
        PROVE  g.size = SizeTo(g.dst, m)
    BY <1>3, <1>4, LineCame
  <1>5. ASSUME NEW e \in Elements, NEW j \in DOMAIN packet_queue'[e], NEW g, g = packet_queue'[e][j],
               Counts(g), g.session = Session(m)
        PROVE  g.size = SizeTo(g.dst, m)
    <2>1. (\E i \in DOMAIN packet_queue[e] : Same(g, packet_queue[e][i])) \/ NewAck(e, g)
      BY <1>5, QueueCame
    <2> QED BY <1>1, <1>2, <1>5, <2>1
  <1>6. ASSUME NEW d \in Elements, Session(m) \in DOMAIN openSessions'[d]
        PROVE  /\ openSessions'[d][Session(m)] \subseteq 1 .. SizeTo(d, m)
               /\ ~ (1 .. SizeTo(d, m) \subseteq openSessions'[d][Session(m)])
    <2> DEFINE f == Into(d)   S == Session(m)
    <2>1. \/ S \in DOMAIN openSessions[d] /\ openSessions'[d][S] = openSessions[d][S]
          \/ f.kind = "PART" /\ f.session = S /\ ~Complete(d, f) /\ openSessions'[d][S] = Got(d, f)
      BY <1>0, <1>6, OpenTick
    <2>2. CASE S \in DOMAIN openSessions[d] /\ openSessions'[d][S] = openSessions[d][S]
      BY <2>2 DEF Sized
    <2>3. CASE f.kind = "PART" /\ f.session = S /\ ~Complete(d, f) /\ openSessions'[d][S] = Got(d, f)
      BY <2>3, GotPart
    <2> QED BY <2>1, <2>2, <2>3
  <1>7. \A g : Counts(g)' = Counts(g)
    BY DEF Counts
  <1> QED BY <1>0, <1>4, <1>5, <1>6 DEF Sized, Counts

\* What was under way to an element is under way to it after a clock edge, unless a flit
\* was lost, or the last one that was missing has arrived.
LEMMA TravelsTick ==
    ASSUME Types, Tick, NEW m \in Masters, pc'[m] = "waiting", Sized(m),
           NEW d \in Slaves \cup {m}, Travels(m, d), NEW S, S = Session(m), S \notin lost'
    PROVE  Travels(m, d)' \/ AtSlave(S)'
  <1>0. /\ pc[m] = "waiting" /\ Session(m)' = S /\ ~Woken(m, Into(m)) /\ SizeTo(d, m)' = SizeTo(d, m)
        /\ d \in Elements
    BY WaitsBefore DEF Elements
  <1> DEFINE in == Into(d)
  <1>1. PICK f : f = in
    OBVIOUS
  <1> HIDE DEF in
  <1>2. CASE f \in Flit /\ Counts(f) /\ f.dst = d /\ f.session = S /\ (Arrives(d, f) \/ (d = m /\ f.kind = "ACK"))
    <2>1. CASE d \in Slaves
      <3>1. d \notin Masters
        BY <2>1, NocAssumption
      <3>2. Arrives(d, f)
        BY <1>2, <3>1
      <3>3. waiting'[d] = Append(waiting[d], f)
        BY <1>1, <2>1, <3>2 DEF Tick, in
      <3>4. waiting[d] \in Seq(Job(d))
        BY <2>1 DEF Types, EndTypes
      <3> DEFINE q == waiting[d]
      <3>5. /\ DOMAIN Append(q, f) = 1 .. Len(q) + 1 /\ Len(q) \in Nat
            /\ Append(q, f)[Len(q) + 1] = f
        <4>1. q \in Seq(Job(d) \cup {f}) /\ f \in Job(d) \cup {f}
          BY <3>4, SeqMono
        <4> HIDE DEF q
        <4> QED BY <4>1, AppendHas
      <3>6. Len(q) + 1 \in DOMAIN waiting'[d] /\ waiting'[d][Len(q) + 1] = f
        BY <3>3, <3>5
      <3> QED BY <1>2, <2>1, <3>6 DEF AtSlave
    <2>2. CASE d \notin Slaves
      <3>1. d = m
        BY <2>2
      <3>2. f.session[2] = last_session_id[m]
        BY <1>2 DEF Session
      <3>3. last_session_id[m] \notin timedOut[m]
        BY <1>0 DEF Types, CallTypes
      <3>4. Notified(m, f)
        BY <1>2, <3>1, <3>2, <3>3 DEF Notified, Accepted
      <3>5. Woken(m, f)
        BY <1>0, <3>2, <3>4 DEF Woken, Current
      <3> QED BY <1>0, <1>1, <3>1, <3>5 DEF in
    <2> QED BY <2>1, <2>2
  <1>3. CASE ~(f \in Flit /\ Counts(f) /\ f.dst = d /\ f.session = S /\ (Arrives(d, f) \/ (d = m /\ f.kind = "ACK")))
    <2>1. ASSUME f \in Flit, Counts(f), f.dst = d, f.session = S
          PROVE  f.kind = "PART" /\ ~Arrives(d, f)
      <3>1. ~Arrives(d, f) /\ ~(d = m /\ f.kind = "ACK")
        BY <1>3, <2>1
      <3>2. f.kind # "ACK"
        BY <2>1, <3>1, NocAssumption DEF Counts
      <3>3. f.kind # "DATA"
        BY <3>1 DEF Arrives
      <3> QED BY <2>1, <3>1, <3>2, <3>3, FlitFields
    <2>2. /\ f.kind = "PART" /\ f.session = S /\ ~Arrives(d, f) =>
                S \in DOMAIN openSessions'[d] /\ openSessions'[d][S] = Got(d, f)
          /\ S \in DOMAIN openSessions[d] =>
                \/ S \in DOMAIN openSessions'[d] /\ openSessions'[d][S] = openSessions[d][S]
                \/ f.kind = "PART" /\ f.session = S
      BY <1>0, <1>1, OpenTick DEF in
    <2>3. ASSUME NEW i, Has(d, S, i) PROVE Has(d, S, i)'
      <3>1. S \in DOMAIN openSessions[d] /\ i \in openSessions[d][S]
        BY <2>3 DEF Has
      <3>2. CASE f.kind = "PART" /\ f.session = S
        <4>1. f \in Flit /\ f.dst = d /\ Counts(f)
          BY <1>0, <1>1, <3>2, GotPart DEF in
        <4>2. S \in DOMAIN openSessions'[d] /\ openSessions'[d][S] = Got(d, f)
          BY <2>1, <2>2, <3>2, <4>1
        <4>3. i \in Got(d, f)
          BY <3>1, <3>2 DEF Got
        <4> QED BY <4>2, <4>3 DEF Has
      <3>3. CASE ~(f.kind = "PART" /\ f.session = S)
        <4>1. S \in DOMAIN openSessions'[d] /\ openSessions'[d][S] = openSessions[d][S]
          BY <2>2, <3>1, <3>3
        <4> QED BY <3>1, <4>1 DEF Has
      <3> QED BY <3>2, <3>3
    <2>4. ASSUME NEW i \in Nat \ {0}, Coming(d, S, i) PROVE Coming(d, S, i)' \/ Has(d, S, i)'
      <3>1. \/ Coming(d, S, i)'
            \/ S \in lost'
            \/ f \in Flit /\ Counts(f) /\ f.dst = d /\ f.session = S /\ f.flit_left = i
        BY <1>1, <2>4, ComingTick DEF in
      <3>2. CASE f \in Flit /\ Counts(f) /\ f.dst = d /\ f.session = S /\ f.flit_left = i
        <4>1. f.kind = "PART" /\ ~Arrives(d, f)
          BY <2>1, <3>2
        <4>2. S \in DOMAIN openSessions'[d] /\ openSessions'[d][S] = Got(d, f)
          BY <2>2, <3>2, <4>1
        <4>3. i \in Got(d, f)
          BY <3>2 DEF Got
        <4> QED BY <4>2, <4>3 DEF Has
      <3> QED BY <3>1, <3>2
    <2>5. \A i \in 1 .. SizeTo(d, m) : Coming(d, S, i)' \/ Has(d, S, i)'
      <3>1. \A i \in 1 .. SizeTo(d, m) : Coming(d, S, i) \/ Has(d, S, i)
        BY DEF Travels
      <3>2. SizeTo(d, m) \in Nat
        <4>1. command[m] \in Commands[m]
          BY DEF Types, CallTypes
        <4>2. SizeFor(command[m].flits) \in Nat
          BY <4>1, NocAssumption, SizeType
        <4> QED BY <4>2 DEF SizeTo, AnswerSize, RequestSize
      <3>3. \A i \in 1 .. SizeTo(d, m) : i \in Nat \ {0}
        BY <3>2
      <3> QED BY ONLY <2>3, <2>4, <3>1, <3>3
    <2>6. Travels(m, d)'
      BY ONLY <1>0, <2>5 DEF Travels
    <2> QED BY <2>6
  <1> QED BY <1>2, <1>3

\* A packet that is at a slave is there after a clock edge.
LEMMA AtSlaveTick ==
    ASSUME Types, Tick, NEW S, AtSlave(S)
    PROVE  AtSlave(S)'
  <1>1. UNCHANGED serving
    BY DEF Tick, slaves
  <1>2. PICK s \in Slaves : \/ \E j \in DOMAIN waiting[s] : waiting[s][j].session = S
                            \/ serving[s] # Nobody /\ serving[s].packet.session = S
    BY DEF AtSlave
  <1>3. CASE serving[s] # Nobody /\ serving[s].packet.session = S
    BY <1>1, <1>3 DEF AtSlave
  <1>4. CASE \E j \in DOMAIN waiting[s] : waiting[s][j].session = S
    <2>1. PICK j \in DOMAIN waiting[s] : waiting[s][j].session = S
      BY <1>4
    <2>2. waiting'[s] = IF Arrives(s, Into(s)) THEN Append(waiting[s], Into(s)) ELSE waiting[s]
      BY DEF Tick
    <2>3. CASE ~Arrives(s, Into(s))
      BY <2>1, <2>2, <2>3 DEF AtSlave
    <2>4. CASE Arrives(s, Into(s))
      <3> DEFINE q == waiting[s]   f == Into(s)
      <3>1. q \in Seq(Job(s) \cup {f}) /\ f \in Job(s) \cup {f}
        <4>1. waiting[s] \in Seq(Job(s))
          BY DEF Types, EndTypes
        <4> QED BY <4>1, SeqMono
      <3>2. waiting'[s] = Append(q, f) /\ j \in DOMAIN q /\ q[j].session = S
        BY <2>1, <2>2, <2>4
      <3> HIDE DEF q, f
      <3>3. /\ Len(q) \in Nat /\ DOMAIN q = 1 .. Len(q) /\ DOMAIN Append(q, f) = 1 .. Len(q) + 1
            /\ \A i \in 1 .. Len(q) : Append(q, f)[i] = q[i]
        BY <3>1, AppendHas
      <3>4. j \in DOMAIN waiting'[s] /\ waiting'[s][j].session = S
        BY <3>2, <3>3
      <3> QED BY <3>4 DEF AtSlave
    <2> QED BY <2>3, <2>4
  <1> QED BY <1>2, <1>3, <1>4

\* At a clock edge nobody that waits is left with nothing to wait for.
LEMMA WaitsTick ==
    ASSUME Types, Tick, WaitsForSomething
    PROVE  WaitsForSomething'
  <1> SUFFICES ASSUME NEW m \in Masters, pc'[m] = "waiting"
               PROVE  Sized(m)' /\ (Session(m)' \in lost' \/ Underway(m)')
    BY DEF WaitsForSomething
  <1>1. PICK S : S = Session(m)
    OBVIOUS
  <1>2. pc[m] = "waiting" /\ Session(m)' = S
    BY <1>1, WaitsBefore
  <1>3. Sized(m) /\ (S \in lost \/ Underway(m))
    BY <1>1, <1>2 DEF WaitsForSomething
  <1>4. Sized(m)'
    BY <1>3, SizedTick
  <1>5. lost \subseteq lost'
    BY DEF Tick
  <1>6. CASE S \in lost'
    BY <1>2, <1>4, <1>6
  <1>7. CASE S \notin lost'
    <2>1. Underway(m)
      BY <1>3, <1>5, <1>7
    <2>2. CASE AtSlave(S)
      <3>1. AtSlave(S)'
        BY <2>2, AtSlaveTick
      <3> QED BY <1>2, <1>4, <3>1 DEF Underway
    <2>3. CASE ~AtSlave(S)
      <3>1. PICK d \in Slaves \cup {m} : Travels(m, d)
        BY <1>1, <2>1, <2>3 DEF Underway
      <3>2. Travels(m, d)' \/ AtSlave(S)'
        BY <1>1, <1>3, <1>7, <3>1, TravelsTick
      <3> QED BY <1>2, <1>4, <3>2 DEF Underway
    <2> QED BY <2>2, <2>3
  <1> QED BY <1>6, <1>7

-----------------------------------------------------------------------------
(* A call that does not end has lost a flit *)

\* A master that waits goes on waiting for something when others add their packets.
LEMMA StillWaits ==
    ASSUME Types, WaitsForSomething, NEW m \in Masters, pc[m] = "waiting",
           UNCHANGED <<wire, buffer, openSessions, lost>>,
           NEW S, S = Session(m), Session(m)' = S, command'[m] = command[m],
           NEW new, QueuesGrow(new),
           \A p \in new : Counts(p) /\ p.session = S => p.size = SizeTo(p.dst, m),
           AtSlave(S) => AtSlave(S)' \/ Travels(m, m)'
    PROVE  Sized(m)' /\ (Session(m)' \in lost' \/ Underway(m)')
  <1>1. /\ Sized(m) => Sized(m)'
        /\ \A d : Travels(m, d) => Travels(m, d)'
    BY SameSession
  <1>2. Sized(m) /\ (S \in lost \/ Underway(m))
    BY DEF WaitsForSomething
  <1>3. CASE S \in lost
    BY <1>1, <1>2, <1>3
  <1>4. CASE \E d \in Slaves \cup {m} : Travels(m, d)
    BY <1>1, <1>2, <1>4 DEF Underway
  <1>5. CASE AtSlave(S)
    BY <1>1, <1>2, <1>5 DEF Underway
  <1> QED BY <1>2, <1>3, <1>4, <1>5 DEF Underway

\* No packet is added to queues that do not change.
LEMMA NoneNew == ASSUME UNCHANGED packet_queue PROVE QueuesGrow({})
  BY DEF QueuesGrow

\* A step that leaves the network and the slaves alone.
LEMMA WaitsAlone ==
    ASSUME Types, WaitsForSomething,
           UNCHANGED <<wire, buffer, openSessions, lost, packet_queue, waiting, serving,
                       command, last_session_id>>,
           \A m \in Masters : pc'[m] = "waiting" => pc[m] = "waiting"
    PROVE  WaitsForSomething'
  <1> SUFFICES ASSUME NEW m \in Masters, pc'[m] = "waiting"
               PROVE  Sized(m)' /\ (Session(m)' \in lost' \/ Underway(m)')
    BY DEF WaitsForSomething
  <1>1. PICK S : S = Session(m)
    OBVIOUS
  <1>2. pc[m] = "waiting" /\ Session(m)' = S
    BY <1>1 DEF Session
  <1>3. AtSlave(S) => AtSlave(S)'
    BY DEF AtSlave
  <1>4. QueuesGrow({})
    BY NoneNew
  <1> QED BY <1>1, <1>2, <1>3, <1>4, StillWaits

\* A step that opens a session of a master, and sends the request of it.
LEMMA WaitsOpened ==
    ASSUME Types, WaitsForSomething, NEW m \in Masters, NEW n, n = last_session_id[m] + 1,
           UNCHANGED <<wire, buffer, openSessions, lost, waiting, serving>>,
           last_session_id' = [last_session_id EXCEPT ![m] = n],
           pc' = [pc EXCEPT ![m] = "waiting"],
           \A x \in Masters \ {m} : command'[x] = command[x],
           NEW p \in Flit, Queues(m, p), p.kind # "ACK", p.dst \in Slaves, p.session = <<m, n>>,
           p.size = RequestSize(m)', p.flit_left = p.size
    PROVE  WaitsForSomething'
  <1> SUFFICES ASSUME NEW x \in Masters, pc'[x] = "waiting"
               PROVE  Sized(x)' /\ (Session(x)' \in lost' \/ Underway(x)')
    BY DEF WaitsForSomething
  <1>1. QueuesGrow({p})
    <2>1. m \in Elements /\ FlitTypes
      BY DEF Elements, Types
    <2> QED BY <2>1, QueuesHas
  <1>2. CASE x = m
    <2>1. PICK S : S = <<m, last_session_id[m] + 1>>
      OBVIOUS
    <2>2. Session(m)' = S /\ p.session = S
      BY <2>1 DEF Session, Types, CallTypes
    <2>3. Sized(m)' /\ Underway(m)'
      BY <1>1, <2>1, <2>2, NewSession
    <2> QED BY <1>2, <2>3
  <1>3. CASE x # m
    <2>1. PICK S : S = Session(x)
      OBVIOUS
    <2>2. pc[x] = "waiting" /\ Session(x)' = S
      BY <1>3, <2>1 DEF Session, Types, CallTypes
    <2>3. p.session # S
      BY <1>3, <2>1 DEF Session
    <2>4. AtSlave(S) => AtSlave(S)'
      BY DEF AtSlave
    <2>5. \A q \in {p} : q.session # S
      BY <2>3
    <2>6. command'[x] = command[x]
      BY <1>3
    <2> QED BY <1>1, <2>1, <2>2, <2>4, <2>5, <2>6, StillWaits
  <1> QED BY <1>2, <1>3

\* A call begins: its request is under way.
LEMMA BeginWaits ==
    ASSUME Types, WaitsForSomething, NEW m \in Masters, Begin(m)
    PROVE  WaitsForSomething'
  <1> DEFINE n == last_session_id[m] + 1
  <1>1. PICK c \in Commands[m] :
          /\ command' = [command EXCEPT ![m] = c]
          /\ Queues(m, Request(m, calls[m] + 1, c, c.address, n))
    BY DEF Begin, Current
  <1>2. /\ last_session_id' = [last_session_id EXCEPT ![m] = n]
        /\ pc' = [pc EXCEPT ![m] = "waiting"]
        /\ UNCHANGED <<openSessions, serving, waiting, wire, buffer, lost>>
    BY DEF Begin, Opens, Current, network
  <1>3. n \in Nat \ {0} /\ calls[m] + 1 \in Nat \ {0}
    BY DEF Types, CallTypes
  <1>4. SlaveAt(c.address) # {}
    <2>1. c.address \in Addresses
      BY NocAssumption
    <2> QED BY <2>1 DEF SlaveAt, Addresses
  <1> DEFINE p == Request(m, calls[m] + 1, c, c.address, n)
  <1>5. /\ p \in Flit /\ p.dst \in Slaves /\ p.session = <<m, n>> /\ p.kind # "ACK"
        /\ p.size = (IF c.op = "read" THEN 1 ELSE SizeFor(c.flits)) /\ p.flit_left = p.size
    BY <1>3, <1>4, RequestType
  <1>6. command'[m] = c /\ \A x \in Masters \ {m} : command'[x] = command[x]
    BY <1>1 DEF Types, CallTypes
  <1>7. p.size = RequestSize(m)'
    BY <1>5, <1>6 DEF RequestSize
  <1>8. Queues(m, p)
    BY <1>1
  <1> HIDE DEF p
  <1> QED BY <1>2, <1>5, <1>6, <1>7, <1>8, WaitsOpened

\* A call begins again: its request is under way.
LEMMA RetryWaits ==
    ASSUME Types, WaitsForSomething, NEW m \in Masters, Retry(m)
    PROVE  WaitsForSomething'
  <1> DEFINE n == last_session_id[m] + 1
  <1>0. /\ pc[m] = "awake"
        /\ UNCHANGED <<openSessions, serving, waiting, wire, buffer, lost>>
    BY DEF Retry, slaves, network
  <1>1. CASE SlaveAt(address[m]) # {}
    <2>1. /\ UNCHANGED <<calls, command>>
          /\ Queues(m, Request(m, calls[m], command[m], address[m], n))
          /\ last_session_id' = [last_session_id EXCEPT ![m] = n]
          /\ pc' = [pc EXCEPT ![m] = "waiting"]
      BY <1>1 DEF Retry, Opens, Current
    <2>2. n \in Nat \ {0} /\ calls[m] \in Nat \ {0} /\ command[m] \in Commands[m]
      BY <1>0 DEF Types, CallTypes
    <2> DEFINE p == Request(m, calls[m], command[m], address[m], n)
    <2>3. /\ p \in Flit /\ p.dst \in Slaves /\ p.session = <<m, n>> /\ p.kind # "ACK"
          /\ p.size = (IF command[m].op = "read" THEN 1 ELSE SizeFor(command[m].flits)) /\ p.flit_left = p.size
      BY <1>1, <2>2, RequestType
    <2>4. p.size = RequestSize(m)'
      BY <2>1, <2>3 DEF RequestSize
    <2>5. Queues(m, p) /\ \A x \in Masters \ {m} : command'[x] = command[x]
      BY <2>1
    <2> HIDE DEF p
    <2> QED BY <1>0, <2>1, <2>3, <2>4, <2>5, WaitsOpened
  <1>2. CASE SlaveAt(address[m]) = {}
    <2>1. UNCHANGED <<pc, calls, command, last_session_id, packet_queue, endTransm>>
      BY <1>2 DEF Retry, calling
    <2> QED BY <1>0, <2>1, WaitsAlone
  <1> QED BY <1>1, <1>2

\* A slave starts on a packet: it is at the slave as before.
LEMMA StartWaits ==
    ASSUME Types, WaitsForSomething, NEW s \in Slaves, Start(s)
    PROVE  WaitsForSomething'
  <1>0. /\ serving[s] = Nobody /\ serving'[s] # Nobody /\ waiting[s] # <<>>
        /\ serving'[s].packet = Head(waiting[s])
    BY StartTypes
  <1>1. /\ \A x \in Slaves \ {s} : serving'[x] = serving[x] /\ waiting'[x] = waiting[x]
        /\ waiting'[s] = Tail(waiting[s])
        /\ UNCHANGED <<pc, command, last_session_id, packet_queue, openSessions, wire, buffer, lost>>
    <2>1. \E v : serving' = [serving EXCEPT ![s] = v]
      BY DEF Start
    <2> QED BY <2>1 DEF Start, calling, network, Types, EndTypes
  <1>2. ASSUME NEW S, AtSlave(S) PROVE AtSlave(S)'
    <2>1. PICK x \in Slaves : \/ \E j \in DOMAIN waiting[x] : waiting[x][j].session = S
                              \/ serving[x] # Nobody /\ serving[x].packet.session = S
      BY <1>2 DEF AtSlave
    <2>2. CASE x # s
      BY <1>1, <2>1, <2>2 DEF AtSlave
    <2>3. CASE x = s
      <3>1. PICK j \in DOMAIN waiting[s] : waiting[s][j].session = S
        BY <1>0, <2>1, <2>3
      <3> DEFINE q == waiting[s]
      <3>2. q \in Seq(Job(s)) /\ q # <<>> /\ j \in DOMAIN q /\ q[j].session = S
        BY <1>0, <3>1 DEF Types, EndTypes
      <3> HIDE DEF q
      <3>3. /\ Len(q) \in Nat \ {0} /\ DOMAIN q = 1 .. Len(q) /\ DOMAIN Tail(q) = 1 .. Len(q) - 1
            /\ Head(q) = q[1] /\ \A i \in 1 .. Len(q) - 1 : Tail(q)[i] = q[i + 1]
        BY <3>2, TailHas
      <3>4. CASE j = 1
        BY <1>0, <3>2, <3>3, <3>4 DEF AtSlave, q
      <3>5. CASE j # 1
        <4>1. j - 1 \in 1 .. Len(q) - 1 /\ (j - 1) + 1 = j
          BY <3>2, <3>3, <3>5
        <4>2. j - 1 \in DOMAIN Tail(q) /\ Tail(q)[j - 1].session = S
          BY <3>2, <3>3, <4>1
        <4> QED BY <1>1, <4>2 DEF AtSlave, q
      <3> QED BY <3>4, <3>5
    <2> QED BY <2>2, <2>3
  <1> SUFFICES ASSUME NEW m \in Masters, pc'[m] = "waiting"
               PROVE  Sized(m)' /\ (Session(m)' \in lost' \/ Underway(m)')
    BY DEF WaitsForSomething
  <1>3. PICK S : S = Session(m)
    OBVIOUS
  <1>4. pc[m] = "waiting" /\ Session(m)' = S /\ command'[m] = command[m]
    BY <1>1, <1>3 DEF Session
  <1>5. QueuesGrow({})
    BY <1>1, NoneNew
  <1> QED BY <1>1, <1>2, <1>3, <1>4, <1>5, StillWaits

\* A slave is done with a packet: the answer is under way.
LEMMA ServedWaits ==
    ASSUME Types, WaitsForSomething, NEW s \in Slaves, Served(s)
    PROVE  WaitsForSomething'
  <1>1. PICK p : p = serving[s].packet
    OBVIOUS
  <1>2. /\ serving' = [serving EXCEPT ![s] = Nobody]
        /\ Queues(s, Answer(s, p))
        /\ UNCHANGED <<pc, command, last_session_id, openSessions, waiting, wire, buffer, lost>>
    BY <1>1 DEF Served, calling, network
  <1>3. p \in Job(s)
    BY <1>1, ServedTypes
  <1>4. p \in Flit /\ p.dst \in Slaves /\ p.src \in Masters /\ p.session[1] = p.src
    BY <1>3, FlitFields DEF Job
  <1>5. PICK r : r = Answer(s, p)
    OBVIOUS
  <1>6. /\ r \in Flit /\ r.dst = p.src /\ r.dst \in Masters /\ r.session = p.session
        /\ r.size = AnswerSize(p.src) /\ r.flit_left = r.size
    BY <1>3, <1>5, AnswerType DEF Types
  <1>7. QueuesGrow({r})
    <2>1. s \in Elements /\ FlitTypes
      BY DEF Elements, Types
    <2> QED BY <1>2, <1>5, <1>6, <2>1, QueuesHas
  <1> SUFFICES ASSUME NEW m \in Masters, pc'[m] = "waiting"
               PROVE  Sized(m)' /\ (Session(m)' \in lost' \/ Underway(m)')
    BY DEF WaitsForSomething
  <1>8. PICK S : S = Session(m)
    OBVIOUS
  <1>9. pc[m] = "waiting" /\ Session(m)' = S /\ command'[m] = command[m]
    BY <1>2, <1>8 DEF Session
  <1>10. r.session = S => r.dst = m /\ r.size = SizeTo(m, m)
    <2>1. S[1] = m
      BY <1>8 DEF Session
    <2> QED BY <1>4, <1>6, <2>1 DEF SizeTo
  <1>11. ASSUME AtSlave(S) PROVE AtSlave(S)' \/ Travels(m, m)'
    <2>1. PICK x \in Slaves : \/ \E j \in DOMAIN waiting[x] : waiting[x][j].session = S
                              \/ serving[x] # Nobody /\ serving[x].packet.session = S
      BY <1>11 DEF AtSlave
    <2>2. CASE \E j \in DOMAIN waiting[x] : waiting[x][j].session = S
      BY <1>2, <2>2 DEF AtSlave
    <2>3. CASE serving[x] # Nobody /\ serving[x].packet.session = S /\ x # s
      <3>1. serving'[x] = serving[x]
        BY <1>2, <2>3 DEF Types, EndTypes
      <3> QED BY <2>3, <3>1 DEF AtSlave
    <2>4. CASE serving[x] # Nobody /\ serving[x].packet.session = S /\ x = s
      <3>1. r.session = S /\ r.dst = m /\ r.size = SizeTo(m, m)
        BY <1>1, <1>6, <1>10, <2>4
      <3>2. PICK e \in Elements : \E j \in DOMAIN packet_queue'[e] : packet_queue'[e][j] = r
        BY <1>7 DEF QueuesGrow
      <3>3. PICK j \in DOMAIN packet_queue'[e] : packet_queue'[e][j] = r
        BY <3>2
      <3>4. SizeTo(m, m)' = SizeTo(m, m)
        BY <1>9 DEF SizeTo, AnswerSize, RequestSize
      <3>5. \A i \in 1 .. SizeTo(m, m) : Coming(m, S, i)'
        BY <1>6, <3>1, <3>3 DEF Coming, Counts
      <3>6. \A i \in 1 .. SizeTo(m, m)' : Coming(m, Session(m), i)'
        BY <1>9, <3>4, <3>5
      <3> QED BY <3>6 DEF Travels
    <2> QED BY <2>1, <2>2, <2>3, <2>4
  <1>12. \A q \in {r} : Counts(q) /\ q.session = S => q.size = SizeTo(q.dst, m)
    BY <1>10
  <1> QED BY <1>2, <1>7, <1>8, <1>9, <1>11, <1>12, StillWaits

\* Who waits, waits for something, after every step.
LEMMA WaitsStep ==
    ASSUME Types, WaitsForSomething, [Next]_vars
    PROVE  WaitsForSomething'
  <1>1. CASE UNCHANGED vars
    BY <1>1, WaitsAlone DEF vars, calling, network, slaves
  <1>2. ASSUME NEW w \in Switches, Govern(w) PROVE WaitsForSomething'
    BY <1>2, WaitsAlone DEF Govern, calling, slaves
  <1>3. ASSUME NEW m \in Masters, Timeout(m) PROVE WaitsForSomething'
    <2>1. /\ pc' = [pc EXCEPT ![m] = "awake"]
          /\ UNCHANGED <<wire, buffer, openSessions, lost, packet_queue, waiting, serving,
                         command, last_session_id>>
      BY <1>3 DEF Timeout, network, slaves
    <2>2. \A x \in Masters : pc'[x] = "waiting" => pc[x] = "waiting"
      BY <2>1 DEF Types, CallTypes
    <2> QED BY <2>1, <2>2, WaitsAlone
  <1>4. ASSUME NEW m \in Masters, Return(m) PROVE WaitsForSomething'
    <2>1. /\ pc' = [pc EXCEPT ![m] = "idle"]
          /\ UNCHANGED <<wire, buffer, openSessions, lost, packet_queue, waiting, serving,
                         command, last_session_id>>
      BY <1>4 DEF Return, network, slaves
    <2>2. \A x \in Masters : pc'[x] = "waiting" => pc[x] = "waiting"
      BY <2>1 DEF Types, CallTypes
    <2> QED BY <2>1, <2>2, WaitsAlone
  <1> QED
    BY <1>1, <1>2, <1>3, <1>4, BeginWaits, RetryWaits, StartWaits, ServedWaits, WaitsTick DEF Next

\* At rest nothing is under way, so that who waits has lost something.
LEMMA RestLost ==
    ASSUME Types, WaitsForSomething
    PROVE  CallsEnd
  <1> SUFFICES ASSUME AtRest, NEW m \in Masters, pc[m] # "idle"
               PROVE  <<m, MaxSessions[m]>> \in lost
    BY DEF CallsEnd
  <1>1. /\ \A s \in Slaves : serving[s] = Nobody /\ waiting[s] = <<>>
        /\ Flits = {} /\ pc[m] # "awake"
        /\ last_session_id[m] \in timedOut[m] \/ last_session_id[m] = MaxSessions[m]
    BY DEF AtRest, Settled, Current
  <1>2. pc[m] = "waiting"
    BY <1>1 DEF Types, CallTypes
  <1>3. last_session_id[m] = MaxSessions[m]
    BY <1>1, <1>2 DEF Types, CallTypes
  <1>4. Sized(m) /\ (Session(m) \in lost \/ Underway(m))
    BY <1>2 DEF WaitsForSomething
  <1>5. ~AtSlave(Session(m))
    <2>1. DOMAIN (<<>>) = {}
      OBVIOUS
    <2> QED BY <1>1, <2>1 DEF AtSlave
  <1>6. ASSUME NEW d, NEW i PROVE ~Coming(d, Session(m), i)
    <2>0. /\ UNION { ToSet(packet_queue[e]) : e \in Elements } = {}
          /\ UNION { ToSet(buffer[l]) : l \in Buffered } = {}
          /\ { wire[l] : l \in Links } \subseteq {Silence}
      <3> DEFINE A == UNION { ToSet(packet_queue[e]) : e \in Elements }
                 B == UNION { ToSet(buffer[l]) : l \in Buffered }
                 C == { wire[l] : l \in Links }
      <3>1. A \cup B \cup (C \ {Silence}) = {}
        <4>1. Flits = A \cup B \cup (C \ {Silence})
          BY DEF Flits
        <4> QED BY ONLY <1>1, <4>1
      <3> HIDE DEF A, B, C
      <3>2. A = {} /\ B = {} /\ C \subseteq {Silence}
        BY ONLY <3>1
      <3> QED BY <3>2 DEF A, B, C
    <2>1. ASSUME NEW e \in Elements, NEW j \in DOMAIN packet_queue[e] PROVE FALSE
      <3>1. packet_queue[e][j] \in ToSet(packet_queue[e])
        BY <2>1 DEF ToSet
      <3> QED BY ONLY <2>0, <3>1, e \in Elements
    <2>2. \A l \in Links : DOMAIN Line(l) = {}
      <3>1. ASSUME NEW l \in Links PROVE wire[l] = Silence
        BY ONLY <2>0, <3>1
      <3>2. ASSUME NEW l \in Buffered, NEW j \in DOMAIN buffer[l] PROVE FALSE
        <4>1. buffer[l][j] \in ToSet(buffer[l])
          BY <3>2 DEF ToSet
        <4> QED BY ONLY <2>0, <4>1, l \in Buffered
      <3>3. DOMAIN (<<>>) = {}
        OBVIOUS
      <3>4. ASSUME NEW l \in Links PROVE Line(l) = <<>> \/ (l \in Buffered /\ Line(l) = buffer[l])
        BY <3>1, <3>4 DEF Line
      <3> QED BY ONLY <3>2, <3>3, <3>4
    <2> QED BY <2>1, <2>2 DEF Coming
  <1>7. ASSUME NEW d \in Slaves \cup {m}, Travels(m, d) PROVE FALSE
    <2>1. \A i \in 1 .. SizeTo(d, m) : Has(d, Session(m), i)
      BY <1>6, <1>7 DEF Travels
    <2>2. SizeTo(d, m) \in Nat \ {0}
      <3>1. command[m] \in Commands[m]
        BY DEF Types, CallTypes
      <3>2. SizeFor(command[m].flits) \in Nat \ {0}
        BY <3>1, NocAssumption, SizeType
      <3> QED BY <3>2 DEF SizeTo, AnswerSize, RequestSize
    <2>3. d \in Elements /\ 1 \in 1 .. SizeTo(d, m)
      BY <2>2 DEF Elements
    <2>4. Session(m) \in DOMAIN openSessions[d]
      BY <2>1, <2>3 DEF Has
    <2>5. ~ (1 .. SizeTo(d, m) \subseteq openSessions[d][Session(m)])
      BY <1>4, <2>3, <2>4 DEF Sized
    <2> QED BY <2>1, <2>5 DEF Has
  <1>8. Session(m) \in lost
    BY <1>4, <1>5, <1>7 DEF Underway
  <1> QED BY <1>3, <1>8 DEF Session

\* A call that never ends has lost a flit of the last session it may have.
THEOREM UnfinishedCallsLost == Spec => []CallsEnd
  <1>1. Init => Types /\ WaitsForSomething
    <2>1. Init => \A m \in Masters : pc[m] # "waiting"
      BY DEF Init
    <2> QED BY <2>1, TypesInit DEF WaitsForSomething
  <1>2. Types /\ WaitsForSomething /\ [Next]_vars => (Types /\ WaitsForSomething)'
    BY TypesStep, WaitsStep
  <1>3. Types /\ WaitsForSomething => CallsEnd
    BY RestLost
  <1> QED BY <1>1, <1>2, <1>3, PTL DEF Spec

-----------------------------------------------------------------------------
(* The order in which things are on their way, and what they belong to *)

\* Where what is for d goes from the link l.
Onward(d, l) == Route[SwitchOf[l]][d]

\* The links where what is for d comes to, from the link l.
After(d, l) ==
    { k \in Links : \A S \in SUBSET Links :
        /\ \A x \in S \cap Buffered : Onward(d, x) \in S
        /\ l \in Buffered => Onward(d, l) \in S
        => k \in S }

\* The place j on the link l is behind the place i on the link k, on the way to d.
Behind(d, l, j, k, i) == (l = k /\ j > i) \/ k \in After(d, l)

\* Two flits on one way, and that f is what should come after g.
Together(f, g) == Counts(f) /\ Counts(g) /\ f.src = g.src /\ f.dst = g.dst
Later(f, g) ==
    \/ f.session[2] > g.session[2]
    \/ f.session[2] = g.session[2] /\ f.size = g.size /\ f.flit_left < g.flit_left

OnWay ==
    \A l \in Links : \A j \in DOMAIN Line(l) :
        LET from == Edge[Line(l)[j].src].from IN l = from \/ l \in After(Line(l)[j].dst, from)

LinesOrdered ==
    \A l, k \in Links : \A j \in DOMAIN Line(l), i \in DOMAIN Line(k) :
        Together(Line(l)[j], Line(k)[i]) =>
            \/ l = k /\ j = i
            \/ Behind(Line(l)[j].dst, l, j, k, i) /\ Later(Line(l)[j], Line(k)[i])
            \/ Behind(Line(l)[j].dst, k, i, l, j) /\ Later(Line(k)[i], Line(l)[j])

QueuesBehind ==
    \A e \in Elements, l \in Links : \A j \in DOMAIN packet_queue[e], i \in DOMAIN Line(l) :
        Together(packet_queue[e][j], Line(l)[i]) => Later(packet_queue[e][j], Line(l)[i])

QueuesOrdered ==
    \A e \in Elements : \A i, j \in DOMAIN packet_queue[e] :
        i < j /\ Together(packet_queue[e][i], packet_queue[e][j])
            => packet_queue[e][i].session[2] < packet_queue[e][j].session[2]

Ordered == OnWay /\ LinesOrdered /\ QueuesBehind /\ QueuesOrdered

\* What is under way, and what is at a slave.
OnLine(f)   == \E l \in Links : \E j \in DOMAIN Line(l) : f = Line(l)[j]
InQueue(f)  == \E e \in Elements : \E j \in DOMAIN packet_queue[e] : f = packet_queue[e][j]
OnItsWay(f) == Counts(f) /\ (OnLine(f) \/ InQueue(f))
Arrived(p)  ==
    \E s \in Slaves : \/ \E j \in DOMAIN waiting[s] : p = waiting[s][j]
                      \/ serving[s] # Nobody /\ p = serving[s].packet

\* The slave of a call.
Target(m) == CHOOSE s \in SlaveAt(command[m].address) : TRUE

\* It belongs to the call its master is in, and to the slave of it.
Belongs(f) ==
    LET m == f.session[1] IN
    /\ pc[m] # "idle" /\ f.session[2] \in endTransm[m]
    /\ f.dst \in Slaves => f.payload = calls[m] /\ f.dst = Target(m)
    /\ f.dst \in Masters => f.src = Target(m) /\ performed[m]

\* Nothing of an answer is there as long as its request is, nor of a later one's.
Unanswered(f) ==
    /\ f.session \notin DOMAIN openSessions[f.src]
    /\ \A g : OnItsWay(g) /\ g.dst = f.src => g.session[2] < f.session[2]

AllBelong == \A f : OnItsWay(f) \/ Arrived(f) => Belongs(f)
AnswersAfter == \A f : (OnItsWay(f) \/ Arrived(f)) /\ f.dst \in Slaves => Unanswered(f)
ArrivedBefore ==
    \A p, f : Arrived(p) /\ OnItsWay(f) /\ f.dst \in Slaves /\ p.src = f.src => p.session[2] < f.session[2]
SlavesOrdered ==
    \A s \in Slaves :
        /\ \A i, j \in DOMAIN waiting[s] : i < j /\ waiting[s][i].src = waiting[s][j].src
              => waiting[s][i].session[2] < waiting[s][j].session[2]
        /\ serving[s] # Nobody => \A j \in DOMAIN waiting[s] : serving[s].packet.src = waiting[s][j].src
              => serving[s].packet.session[2] < waiting[s][j].session[2]

\* What has been got of a packet came before what is under way.
GotBefore ==
    \A f : OnItsWay(f) /\ f.session \in DOMAIN openSessions[f.dst] =>
        \A i \in openSessions[f.dst][f.session] : f.flit_left < i /\ i <= f.size

\* A call that is about to return has nothing left.
Done(m) == pc[m] = "awake" /\ last_session_id[m] \notin timedOut[m]
NothingLeft ==
    \A m \in Masters : Done(m) =>
        performed[m] /\ \A f : OnItsWay(f) \/ Arrived(f) => f.session[1] # m

\* A slave works on the address of the call, made relative to its own.
Addressed ==
    /\ \A m \in Masters : address[m] = command[m].address
                          \/ \E s \in Slaves : serving[s] # Nobody /\ serving[s].packet.src = m
    /\ \A s \in Slaves : serving[s] # Nobody =>
        LET m == serving[s].packet.src IN
        address[m] = command[m].address - Base[s] /\ serving[s].addr_old = command[m].address

NInv == /\ Ordered /\ AllBelong /\ AnswersAfter /\ ArrivedBefore /\ SlavesOrdered
        /\ GotBefore /\ NothingLeft /\ Addressed

-----------------------------------------------------------------------------
(* The way of what is for an element *)

\* A link on the way leads to the next one.
LEMMA OnwardLink ==
    ASSUME NEW d \in Elements, NEW l \in Buffered
    PROVE  Onward(d, l) \in Links
  BY Enters, LinkAssumption DEF Onward

\* The next link comes after it,
LEMMA AfterNext ==
    ASSUME NEW d \in Elements, NEW l \in Buffered
    PROVE  Onward(d, l) \in After(d, l)
  BY OnwardLink DEF After

\* and what comes next after what comes after it.
LEMMA AfterOn ==
    ASSUME NEW d \in Elements, NEW l, NEW k \in Buffered, k \in After(d, l)
    PROVE  Onward(d, k) \in After(d, l)
  BY OnwardLink DEF After

\* Nothing comes after it but the next one and what comes after that.
LEMMA AfterStep ==
    ASSUME NEW d \in Elements, NEW l \in Buffered, NEW k \in After(d, l)
    PROVE  k = Onward(d, l) \/ k \in After(d, Onward(d, l))
  <1> DEFINE n == Onward(d, l)   S == {n} \cup After(d, n)
  <1>1. S \in SUBSET Links
    BY OnwardLink DEF After
  <1>2. \A x \in S \cap Buffered : Onward(d, x) \in S
    BY AfterNext, AfterOn
  <1>3. Onward(d, l) \in S
    OBVIOUS
  <1> HIDE DEF S
  <1>4. k \in S
    BY <1>1, <1>2, <1>3 DEF After
  <1> QED BY <1>4 DEF S

\* Nothing comes after a link that enters an element.
LEMMA AfterEnd ==
    ASSUME NEW d, NEW l, l \notin Buffered
    PROVE  After(d, l) = {}
  <1>1. {} \in SUBSET Links
    OBVIOUS
  <1> QED BY <1>1 DEF After

\* The place j on l is the last one after a clock edge, and nobody was there before it.
Newest(l, j) ==
    /\ j = Len(Line(l)') /\ j \in Nat
    /\ l \in Buffered => \A x \in 1 .. Len(buffer'[l]) : x < j

\* What is at j on l after a clock edge was at i on k before it, when the lines of left
\* have sent their first flits.
CameFrom(left, l, j, k, i) ==
    \/ /\ l = k /\ l \in Buffered /\ Len(buffer'[l]) \in Nat /\ j \in 1 .. Len(buffer'[l])
       /\ i = IF l \in left THEN j + 1 ELSE j
    \/ k \in left /\ i = 1 /\ l = OutOf(k) /\ Newest(l, j)

\* What comes to a link is behind what was on it or after it.
LEMMA NewBehind ==
    ASSUME NEW d \in Elements, NEW left \in SUBSET Buffered, NEW l, NEW j, Newest(l, j),
           NEW k, NEW i, NEW k0, NEW i0, CameFrom(left, k, i, k0, i0),
           k0 \in left /\ i0 = 1 => OutOf(k0) = Onward(d, k0),
           k0 = l \/ k0 \in After(d, l)
    PROVE  Behind(d, l, j, k, i)
  <1>1. CASE /\ k = k0 /\ k \in Buffered /\ Len(buffer'[k]) \in Nat /\ i \in 1 .. Len(buffer'[k])
    BY <1>1 DEF Newest, Behind
  <1>2. CASE k0 \in left /\ i0 = 1 /\ k = OutOf(k0)
    <2>1. k = Onward(d, k0) /\ k0 \in Buffered
      BY <1>2
    <2> QED BY <2>1, AfterNext, AfterOn DEF Behind
  <1> QED BY <1>1, <1>2 DEF CameFrom

\* What is behind another stays behind it.
LEMMA StaysBehind ==
    ASSUME NEW d \in Elements, NEW left \in SUBSET Buffered,
           NEW l, NEW j, NEW l0, NEW j0, CameFrom(left, l, j, l0, j0),
           NEW k, NEW i, NEW k0, NEW i0 \in Nat \ {0}, CameFrom(left, k, i, k0, i0),
           l0 \in left /\ j0 = 1 => OutOf(l0) = Onward(d, l0),
           k0 \in left /\ i0 = 1 => OutOf(k0) = Onward(d, k0),
           Behind(d, l0, j0, k0, i0)
    PROVE  Behind(d, l, j, k, i)
  <1>1. CASE /\ l = l0 /\ l \in Buffered /\ Len(buffer'[l]) \in Nat /\ j \in 1 .. Len(buffer'[l])
             /\ j0 = IF l \in left THEN j + 1 ELSE j
    <2>1. CASE /\ k = k0 /\ k \in Buffered /\ Len(buffer'[k]) \in Nat /\ i \in 1 .. Len(buffer'[k])
               /\ i0 = IF k \in left THEN i + 1 ELSE i
      <3>1. l = k /\ j0 > i0 => j > i
        BY <1>1, <2>1
      <3> QED BY <1>1, <2>1, <3>1 DEF Behind
    <2>2. CASE k0 \in left /\ i0 = 1 /\ k = OutOf(k0)
      <3>1. k = Onward(d, k0) /\ k0 \in Buffered
        BY <2>2
      <3> QED BY <1>1, <3>1, AfterNext, AfterOn DEF Behind
    <2> QED BY <2>1, <2>2 DEF CameFrom
  <1>2. CASE l0 \in left /\ j0 = 1 /\ l = OutOf(l0) /\ Newest(l, j)
    <2>1. l = Onward(d, l0) /\ l0 \in Buffered
      BY <1>2
    <2>2. k0 \in After(d, l0)
      BY <1>2 DEF Behind
    <2>3. k0 = l \/ k0 \in After(d, l)
      BY <2>1, <2>2, AfterStep
    <2> QED BY <1>2, <2>3, NewBehind
  <1> QED BY <1>1, <1>2 DEF CameFrom

\* What was at one place is at one place.
LEMMA OnePlace ==
    ASSUME NEW left \in SUBSET Buffered, NEW l, NEW j, NEW k, NEW i, NEW l0, NEW j0,
           CameFrom(left, l, j, l0, j0), CameFrom(left, k, i, l0, j0)
    PROVE  l = k /\ j = i
  <1>1. CASE /\ l = l0 /\ l \in Buffered /\ Len(buffer'[l]) \in Nat /\ j \in 1 .. Len(buffer'[l])
             /\ j0 = IF l \in left THEN j + 1 ELSE j
    <2>1. ~(l0 \in left /\ j0 = 1)
      BY <1>1
    <2>2. /\ k = l0 /\ i \in 1 .. Len(buffer'[l]) /\ j0 = IF k \in left THEN i + 1 ELSE i
      BY <1>1, <2>1 DEF CameFrom
    <2> QED BY <1>1, <2>2
  <1>2. CASE l0 \in left /\ j0 = 1 /\ l = OutOf(l0) /\ Newest(l, j)
    <2>1. k = OutOf(l0) /\ Newest(k, i)
      <3>1. CASE /\ k = l0 /\ k \in Buffered /\ Len(buffer'[k]) \in Nat /\ i \in 1 .. Len(buffer'[k])
                 /\ j0 = IF k \in left THEN i + 1 ELSE i
        BY <1>2, <3>1
      <3> QED BY <3>1 DEF CameFrom
    <2> QED BY <1>2, <2>1 DEF Newest
  <1> QED BY <1>1, <1>2 DEF CameFrom

-----------------------------------------------------------------------------
(* The order at a clock edge *)

\* Where what is at j on l after a clock edge comes from: another place, the queue of
\* the element that writes to l, or the hands of a master.
LEMMA Origin ==
    ASSUME Types, Tick, NEW left, LineMoves(left),
           NEW l \in Links, NEW j \in DOMAIN Line(l)', NEW g, g = Line(l)'[j]
    PROVE  \/ \E k \in Links : \E i \in DOMAIN Line(k) :
                 g = Line(k)[i] /\ CameFrom(left, l, j, k, i)
           \/ /\ Newest(l, j)
              /\ \E e \in Elements :
                    /\ l = Edge[e].from
                    /\ \/ packet_queue[e] # <<>> /\ g = packet_queue[e][1]
                       \/ NewAck(e, g)
  <1>1. Lines'
    BY TickTypes, LinesNext
  <1>2. /\ DOMAIN Line(l)' = 1 .. Len(Line(l)') /\ Len(Line(l)') \in Nat
        /\ wire'[l] # Silence => Line(l)'[Len(Line(l)')] = wire'[l]
        /\ l \in Buffered =>
             /\ Len(buffer'[l]) \in Nat
             /\ Len(Line(l)') = IF wire'[l] = Silence THEN Len(buffer'[l]) ELSE Len(buffer'[l]) + 1
             /\ \A i \in 1 .. Len(buffer'[l]) : Line(l)'[i] = buffer'[l][i]
        /\ l \notin Buffered => Len(Line(l)') = IF wire'[l] = Silence THEN 0 ELSE 1
    BY <1>1 DEF Lines
  <1> DEFINE n == Len(Line(l)')   b == Len(buffer'[l])
  <1>0. j \in 1 .. n /\ n \in Nat
    BY ONLY <1>2, j \in DOMAIN Line(l)'
  <1>3. CASE wire'[l] # Silence /\ j = n
    <2>1. g = wire'[l]
      BY <1>2, <1>3
    <2>2. Newest(l, j)
      <3>1. l \in Buffered => b \in Nat /\ n = b + 1
        BY <1>2, <1>3
      <3>2. j = n /\ j \in Nat
        BY <1>0, <1>3
      <3> HIDE DEF b
      <3>3. l \in Buffered => \A x \in 1 .. b : x < j
        BY <3>1, <3>2
      <3> QED BY <3>2, <3>3 DEF Newest, b
    <2>3. CASE l \in DOMAIN Writer
      <3>1. PICK e \in Elements : l = Edge[e].from
        BY <2>3 DEF Writer
      <3>2. PICK c \in {0, 1} : QueueMoves(e, c)
        BY TickQueue
      <3>3. /\ packet_queue[e] # <<>> => g = packet_queue[e][1]
            /\ packet_queue[e] = <<>> => g = Silence \/ NewAck(e, g)
        BY <2>1, <3>1, <3>2 DEF QueueMoves
      <3> QED BY <1>3, <2>1, <2>2, <3>1, <3>3
    <2>4. CASE l \notin DOMAIN Writer
      <3>1. PICK k \in left : l = OutOf(k) /\ g = Line(k)[1] /\ Len(Line(k)) >= 1 /\ k \in Buffered
        BY <1>3, <2>1, <2>4 DEF LineMoves
      <3>2. k \in Links
        BY <3>1, Enters
      <3>3. 1 \in DOMAIN Line(k)
        BY <3>1, <3>2, LineHas
      <3>4. CameFrom(left, l, j, k, 1)
        BY <2>2, <3>1 DEF CameFrom
      <3> QED BY <3>1, <3>2, <3>3, <3>4
    <2> QED BY <2>3, <2>4
  <1>4. CASE ~(wire'[l] # Silence /\ j = n)
    <2>1. l \in Buffered /\ j \in 1 .. b /\ b \in Nat
      <3>1. l \in Buffered => b \in Nat /\ n = IF wire'[l] = Silence THEN b ELSE b + 1
        BY <1>2
      <3>2. l \notin Buffered => n = IF wire'[l] = Silence THEN 0 ELSE 1
        BY <1>2
      <3>3. wire'[l] = Silence \/ j # n
        BY <1>4
      <3> HIDE DEF n, b
      <3> QED BY ONLY <1>0, <3>1, <3>2, <3>3
    <2>2. g = buffer'[l][j]
      BY <1>2, <2>1
    <2>3. LineKeeps(l, left)
      BY <2>1 DEF LineMoves
    <2>4. DOMAIN Line(l) = 1 .. Len(Line(l)) /\ Len(Line(l)) \in Nat
      BY LineHas
    <2>5. PICK c \in {0, 1}, o \in Nat :
            /\ c = 1 <=> l \in left
            /\ o = Len(Line(l)) \/ o = Len(Line(l)) - 1
            /\ Len(buffer'[l]) = o - c /\ \A i \in 1 .. o - c : buffer'[l][i] = Line(l)[i + c]
      BY ONLY <2>3 DEF LineKeeps
    <2>6. j \in 1 .. o - c /\ g = Line(l)[j + c]
      BY <2>1, <2>2, <2>5
    <2>7. j + c \in DOMAIN Line(l)
      <3> DEFINE k == Len(Line(l))
      <3>1. k \in Nat /\ (o = k \/ o = k - 1) /\ DOMAIN Line(l) = 1 .. k
        BY ONLY <2>4, <2>5
      <3> HIDE DEF k
      <3>2. j + c \in 1 .. k
        BY ONLY <2>6, <3>1, c \in {0, 1}, o \in Nat
      <3> QED BY ONLY <3>1, <3>2
    <2>8. j + c = IF l \in left THEN j + 1 ELSE j
      BY <2>1, <2>5
    <2>9. CameFrom(left, l, j, l, j + c)
      BY <2>1, <2>8 DEF CameFrom
    <2> QED BY <2>6, <2>7, <2>9
  <1> QED BY <1>3, <1>4

\* What leaves a line goes on.
LEMMA GoesOn ==
    ASSUME Types, NEW left, LineMoves(left), NEW k \in left
    PROVE  k \in Buffered /\ k \in Links /\ OutOf(k) = Onward(Line(k)[1].dst, k)
  <1>1. k \in Buffered
    BY DEF LineMoves
  <1> QED BY <1>1, Enters DEF OutOf, Onward

\* An acknowledgement of a master does not count.
LEMMA AckCounts ==
    ASSUME NEW e, NEW g, NewAck(e, g)
    PROVE  ~Counts(g) /\ g.src = e /\ g \in Flit
  BY NocAssumption DEF NewAck, Counts

\* The first packet of a queue.
LEMMA FirstOf ==
    ASSUME Types, NEW e \in Elements, packet_queue[e] # <<>>
    PROVE  /\ 1 \in DOMAIN packet_queue[e] /\ packet_queue[e][1] \in Flit
           /\ packet_queue[e][1].src = e
  <1>1. packet_queue[e] \in Seq(Flit)
    BY DEF Types, FlitTypes
  <1>2. 1 \in DOMAIN packet_queue[e]
    BY <1>1, TailHas
  <1> QED BY <1>1, <1>2, TailHas DEF Types, FlitTypes

\* Everything is still on its way after a clock edge.
LEMMA OnWayTick ==
    ASSUME Types, Tick, OnWay
    PROVE  OnWay'
  <1>1. PICK left : LineMoves(left)
    BY TickLines
  <1>2. ASSUME NEW l \in Links, NEW j \in DOMAIN Line(l)', NEW g, g = Line(l)'[j]
        PROVE  l = Edge[g.src].from \/ l \in After(g.dst, Edge[g.src].from)
    <2>1. CASE \E k \in Links : \E i \in DOMAIN Line(k) : g = Line(k)[i] /\ CameFrom(left, l, j, k, i)
      <3>1. PICK k \in Links : \E i \in DOMAIN Line(k) : g = Line(k)[i] /\ CameFrom(left, l, j, k, i)
        BY <2>1
      <3>2. PICK i \in DOMAIN Line(k) : g = Line(k)[i] /\ CameFrom(left, l, j, k, i)
        BY <3>1
      <3>3. k = Edge[g.src].from \/ k \in After(g.dst, Edge[g.src].from)
        BY <3>2 DEF OnWay
      <3>4. g \in Flit /\ g.dst \in Elements /\ g.src \in Elements
        BY <3>2, LineHas, FlitFields
      <3>5. CASE k = l
        BY <3>3, <3>5
      <3>6. CASE k \in left /\ i = 1 /\ l = OutOf(k)
        <4>1. k \in Buffered /\ l = Onward(g.dst, k)
          BY <1>1, <3>2, <3>6, GoesOn
        <4> QED BY <3>3, <3>4, <4>1, AfterNext, AfterOn
      <3> QED BY <3>2, <3>5, <3>6 DEF CameFrom
    <2>2. CASE \E e \in Elements : 
             l = Edge[e].from /\ ((packet_queue[e] # <<>> /\ g = packet_queue[e][1]) \/ NewAck(e, g))
      <3>1. PICK e \in Elements : 
             l = Edge[e].from /\ ((packet_queue[e] # <<>> /\ g = packet_queue[e][1]) \/ NewAck(e, g))
        BY <2>2
      <3>2. g.src = e
        BY <3>1, FirstOf, AckCounts
      <3> QED BY <3>1, <3>2
    <2> QED BY <1>1, <1>2, <2>1, <2>2, Origin
  <1> QED BY <1>2 DEF OnWay

\* Of two flits on one way, what was behind is behind, and later.
LEMMA PairTick ==
    ASSUME Types, Tick, Ordered, NEW left, LineMoves(left), NEW f, NEW g, Together(f, g),
           NEW l \in Links, NEW j, NEW l0 \in Links, NEW j0 \in DOMAIN Line(l0),
           f = Line(l0)[j0], CameFrom(left, l, j, l0, j0),
           NEW k \in Links, NEW i, NEW k0 \in Links, NEW i0 \in DOMAIN Line(k0),
           g = Line(k0)[i0], CameFrom(left, k, i, k0, i0)
    PROVE  \/ l = k /\ j = i
           \/ Behind(f.dst, l, j, k, i) /\ Later(f, g)
           \/ Behind(f.dst, k, i, l, j) /\ Later(g, f)
  <1>0. left \in SUBSET Buffered
    BY DEF LineMoves
  <1>1. f \in Flit /\ f.dst \in Elements /\ g.dst = f.dst
    BY LineHas, FlitFields DEF Together
  <1>2. j0 \in Nat \ {0} /\ i0 \in Nat \ {0}
    BY LineHas
  <1>3. /\ l0 \in left /\ j0 = 1 => OutOf(l0) = Onward(f.dst, l0)
        /\ k0 \in left /\ i0 = 1 => OutOf(k0) = Onward(f.dst, k0)
    BY <1>1, GoesOn
  <1>4. \/ l0 = k0 /\ j0 = i0
        \/ Behind(f.dst, l0, j0, k0, i0) /\ Later(f, g)
        \/ Behind(f.dst, k0, i0, l0, j0) /\ Later(g, f)
    BY DEF Ordered, LinesOrdered
  <1>5. CASE l0 = k0 /\ j0 = i0
    BY <1>0, <1>5, OnePlace
  <1>6. CASE Behind(f.dst, l0, j0, k0, i0) /\ Later(f, g)
    BY <1>0, <1>1, <1>2, <1>3, <1>6, StaysBehind
  <1>7. CASE Behind(f.dst, k0, i0, l0, j0) /\ Later(g, f)
    BY <1>0, <1>1, <1>2, <1>3, <1>7, StaysBehind
  <1> QED BY <1>4, <1>5, <1>6, <1>7

\* What comes from a queue is behind, and later than, what was on the lines.
LEMMA SentBehind ==
    ASSUME Types, Tick, Ordered, NEW left, LineMoves(left), NEW f, NEW g, Together(f, g),
           NEW l \in Links, NEW j, Newest(l, j), NEW e \in Elements, l = Edge[e].from,
           packet_queue[e] # <<>>, f = packet_queue[e][1],
           NEW k \in Links, NEW i, NEW k0 \in Links, NEW i0 \in DOMAIN Line(k0),
           g = Line(k0)[i0], CameFrom(left, k, i, k0, i0)
    PROVE  Behind(f.dst, l, j, k, i) /\ Later(f, g)
  <1>0. left \in SUBSET Buffered
    BY DEF LineMoves
  <1>1. 1 \in DOMAIN packet_queue[e] /\ f \in Flit /\ f.src = e
    BY FirstOf
  <1>2. Later(f, g)
    BY <1>1 DEF Ordered, QueuesBehind
  <1>3. g.src = e /\ g.dst = f.dst /\ f.dst \in Elements
    BY <1>1, FlitFields DEF Together
  <1>4. k0 = l \/ k0 \in After(f.dst, l)
    BY <1>3 DEF Ordered, OnWay
  <1>5. k0 \in left /\ i0 = 1 => OutOf(k0) = Onward(f.dst, k0)
    BY <1>3, GoesOn
  <1> QED BY <1>0, <1>2, <1>3, <1>4, <1>5, NewBehind

\* The lines are in order after a clock edge.
LEMMA LinesTick ==
    ASSUME Types, Tick, Ordered
    PROVE  LinesOrdered'
  <1>1. PICK left : LineMoves(left)
    BY TickLines
  <1>2. ASSUME NEW l \in Links, NEW j \in DOMAIN Line(l)', NEW f, f = Line(l)'[j],
               NEW k \in Links, NEW i \in DOMAIN Line(k)', NEW g, g = Line(k)'[i], Together(f, g)
        PROVE  \/ l = k /\ j = i
               \/ Behind(f.dst, l, j, k, i) /\ Later(f, g)
               \/ Behind(f.dst, k, i, l, j) /\ Later(g, f)
    <2>0. Counts(f) /\ Counts(g) /\ f.src = g.src /\ g.dst = f.dst /\ Together(g, f)
      BY <1>2 DEF Together
    <2>1. \/ \E l0 \in Links : \E j0 \in DOMAIN Line(l0) : f = Line(l0)[j0] /\ CameFrom(left, l, j, l0, j0)
          \/ /\ Newest(l, j)
             /\ \E e \in Elements : l = Edge[e].from /\ packet_queue[e] # <<>> /\ f = packet_queue[e][1]
      BY <1>1, <1>2, <2>0, Origin, AckCounts
    <2>2. \/ \E k0 \in Links : \E i0 \in DOMAIN Line(k0) : g = Line(k0)[i0] /\ CameFrom(left, k, i, k0, i0)
          \/ /\ Newest(k, i)
             /\ \E e \in Elements : k = Edge[e].from /\ packet_queue[e] # <<>> /\ g = packet_queue[e][1]
      BY <1>1, <1>2, <2>0, Origin, AckCounts
    <2>3. ASSUME NEW l0 \in Links, NEW j0 \in DOMAIN Line(l0), f = Line(l0)[j0], CameFrom(left, l, j, l0, j0),
                 NEW k0 \in Links, NEW i0 \in DOMAIN Line(k0), g = Line(k0)[i0], CameFrom(left, k, i, k0, i0)
          PROVE  \/ l = k /\ j = i
                 \/ Behind(f.dst, l, j, k, i) /\ Later(f, g)
                 \/ Behind(f.dst, k, i, l, j) /\ Later(g, f)
      BY <1>1, <1>2, <2>3, PairTick
    <2>4. ASSUME Newest(l, j), NEW e \in Elements, l = Edge[e].from, packet_queue[e] # <<>>, f = packet_queue[e][1],
                 NEW k0 \in Links, NEW i0 \in DOMAIN Line(k0), g = Line(k0)[i0], CameFrom(left, k, i, k0, i0)
          PROVE  Behind(f.dst, l, j, k, i) /\ Later(f, g)
      BY <1>1, <1>2, <2>4, SentBehind
    <2>5. ASSUME Newest(k, i), NEW e \in Elements, k = Edge[e].from, packet_queue[e] # <<>>, g = packet_queue[e][1],
                 NEW l0 \in Links, NEW j0 \in DOMAIN Line(l0), f = Line(l0)[j0], CameFrom(left, l, j, l0, j0)
          PROVE  Behind(f.dst, k, i, l, j) /\ Later(g, f)
      BY <1>1, <1>2, <2>0, <2>5, SentBehind
    <2>6. ASSUME Newest(l, j), NEW e \in Elements, l = Edge[e].from, packet_queue[e] # <<>>, f = packet_queue[e][1],
                 Newest(k, i), NEW x \in Elements, k = Edge[x].from, packet_queue[x] # <<>>, g = packet_queue[x][1]
          PROVE  l = k /\ j = i
      <3>1. f.src = e /\ g.src = x
        BY <2>6, FirstOf
      <3>2. l = k
        BY <2>0, <2>6, <3>1
      <3> QED BY <2>6, <3>2 DEF Newest
    <2> QED BY <2>1, <2>2, <2>3, <2>4, <2>5, <2>6
  <1>3. \A f, g : Together(f, g)' <=> Together(f, g)
    BY DEF Together, Counts
  <1>4. ASSUME NEW l \in Links, NEW k \in Links, NEW j \in DOMAIN Line(l)', NEW i \in DOMAIN Line(k)',
               Together(Line(l)'[j], Line(k)'[i])
        PROVE  \/ l = k /\ j = i
               \/ Behind(Line(l)'[j].dst, l, j, k, i) /\ Later(Line(l)'[j], Line(k)'[i])
               \/ Behind(Line(l)'[j].dst, k, i, l, j) /\ Later(Line(k)'[i], Line(l)'[j])
    BY ONLY <1>2, <1>4
  <1> QED BY ONLY <1>4 DEF LinesOrdered, Together, Later, Behind, Counts, After, Onward

\* What is in a queue after a clock edge was in it before, with the flit that was sent.
LEMMA QueueOrigin ==
    ASSUME Types, Tick, NEW e \in Elements
    PROVE  \E c \in {0, 1} : \A j \in DOMAIN packet_queue'[e] :
             LET g == packet_queue'[e][j] IN
             \/ NewAck(e, g)
             \/ /\ j \in Nat /\ j + c \in DOMAIN packet_queue[e] /\ Same(g, packet_queue[e][j + c])
                /\ g.flit_left = IF j + c = 1 THEN packet_queue[e][1].flit_left - 1
                                 ELSE packet_queue[e][j + c].flit_left
  <1>1. PICK c \in {0, 1} : QueueMoves(e, c)
    BY TickQueue
  <1> DEFINE q == packet_queue[e]   r == packet_queue'[e]
  <1>2. /\ r \in Seq(Flit)
        /\ \A i \in 1 .. Len(q) - c :
              /\ Same(r[i], q[i + c])
              /\ r[i].flit_left = IF i + c = 1 THEN q[1].flit_left - 1 ELSE q[i + c].flit_left
        /\ \A i \in DOMAIN r : i > Len(q) - c => NewAck(e, r[i])
    BY <1>1 DEF QueueMoves
  <1>3. q \in Seq(Flit)
    BY DEF Types, FlitTypes
  <1>4. Len(q) \in Nat /\ DOMAIN q = 1 .. Len(q) /\ DOMAIN r = 1 .. Len(r) /\ Len(r) \in Nat
    BY <1>2, <1>3, LenProperties
  <1> SUFFICES ASSUME NEW j \in DOMAIN r
               PROVE  \/ NewAck(e, r[j])
                      \/ /\ j \in Nat /\ j + c \in DOMAIN q /\ Same(r[j], q[j + c])
                         /\ r[j].flit_left = IF j + c = 1 THEN q[1].flit_left - 1 ELSE q[j + c].flit_left
    OBVIOUS
  <1> HIDE DEF q, r
  <1>5. CASE j > Len(q) - c
    BY <1>2, <1>5
  <1>6. CASE ~(j > Len(q) - c)
    <2>1. j \in Nat /\ j \in 1 .. Len(q) - c /\ j + c \in DOMAIN q
      BY <1>4, <1>6
    <2> QED BY <1>2, <2>1
  <1> QED BY <1>5, <1>6

\* The queues are in order after a clock edge.
LEMMA QueuesTick ==
    ASSUME Types, Tick, QueuesOrdered
    PROVE  QueuesOrdered'
  <1>1. ASSUME NEW e \in Elements, NEW i \in DOMAIN packet_queue'[e], NEW j \in DOMAIN packet_queue'[e],
               i < j, NEW f, f = packet_queue'[e][i], NEW g, g = packet_queue'[e][j], Together(f, g)
        PROVE  f.session[2] < g.session[2]
    <2>0. ~NewAck(e, f) /\ ~NewAck(e, g)
      BY <1>1, AckCounts DEF Together
    <2>1. PICK c \in {0, 1} : \A x \in DOMAIN packet_queue'[e] :
             LET h == packet_queue'[e][x] IN
             \/ NewAck(e, h)
             \/ /\ x \in Nat /\ x + c \in DOMAIN packet_queue[e] /\ Same(h, packet_queue[e][x + c])
      BY QueueOrigin
    <2>2. /\ i \in Nat /\ i + c \in DOMAIN packet_queue[e] /\ Same(f, packet_queue[e][i + c])
          /\ j \in Nat /\ j + c \in DOMAIN packet_queue[e] /\ Same(g, packet_queue[e][j + c])
      BY <1>1, <2>0, <2>1
    <2>3. i + c < j + c
      BY <1>1, <2>2
    <2>4. Together(packet_queue[e][i + c], packet_queue[e][j + c])
      BY <1>1, <2>2 DEF Together, Same, Counts
    <2>5. packet_queue[e][i + c].session[2] < packet_queue[e][j + c].session[2]
      BY <2>2, <2>3, <2>4 DEF QueuesOrdered
    <2> QED BY <2>2, <2>5 DEF Same
  <1>2. \A f, g : Together(f, g)' <=> Together(f, g)
    BY DEF Together, Counts
  <1>3. ASSUME NEW e \in Elements, NEW i \in DOMAIN packet_queue'[e], NEW j \in DOMAIN packet_queue'[e],
               i < j, Together(packet_queue'[e][i], packet_queue'[e][j])
        PROVE  packet_queue'[e][i].session[2] < packet_queue'[e][j].session[2]
    BY ONLY <1>1, <1>3
  <1> QED BY ONLY <1>3 DEF QueuesOrdered, Together, Counts

\* What comes before, or what is later, but for what has been sent of it.
LEMMA LaterSame ==
    ASSUME NEW f \in Flit, NEW f0 \in Flit, Same(f, f0), f.flit_left <= f0.flit_left, NEW g \in Flit
    PROVE  /\ Together(f, g) <=> Together(f0, g)
           /\ Later(f0, g) => Later(f, g)
  <1>1. Together(f, g) <=> Together(f0, g)
    BY DEF Together, Same, Counts
  <1>2. /\ f.session = f0.session /\ f.size = f0.size
        /\ f.flit_left \in Nat /\ f0.flit_left \in Nat /\ g.flit_left \in Nat
    BY FlitFields DEF Same
  <1>3. Later(f0, g) => Later(f, g)
    BY <1>2 DEF Later
  <1> QED BY <1>1, <1>3

\* What is in a queue after a clock edge, and what of it was in it before.
LEMMA QueueWas ==
    ASSUME Types, Tick, NEW e \in Elements, NEW j \in DOMAIN packet_queue'[e],
           NEW f, f = packet_queue'[e][j], Counts(f)
    PROVE  f \in Flit /\ f.src = e /\ \E i \in DOMAIN packet_queue[e] :
              /\ packet_queue[e][i] \in Flit /\ Same(f, packet_queue[e][i]) /\ i \in Nat \ {0}
              /\ f.flit_left = IF i = 1 THEN packet_queue[e][1].flit_left - 1 ELSE packet_queue[e][i].flit_left
              /\ f.flit_left <= packet_queue[e][i].flit_left
  <1>1. PICK c \in {0, 1} : \A x \in DOMAIN packet_queue'[e] :
             LET h == packet_queue'[e][x] IN
             \/ NewAck(e, h)
             \/ /\ x \in Nat /\ x + c \in DOMAIN packet_queue[e] /\ Same(h, packet_queue[e][x + c])
                /\ h.flit_left = IF x + c = 1 THEN packet_queue[e][1].flit_left - 1
                                 ELSE packet_queue[e][x + c].flit_left
    BY QueueOrigin
  <1>2. ~NewAck(e, f)
    BY AckCounts
  <1>3. PICK i : i = j + c
    OBVIOUS
  <1>4. /\ i \in DOMAIN packet_queue[e] /\ Same(f, packet_queue[e][i])
        /\ f.flit_left = IF i = 1 THEN packet_queue[e][1].flit_left - 1 ELSE packet_queue[e][i].flit_left
    BY <1>1, <1>2, <1>3
  <1>5. packet_queue'[e] \in Seq(Flit) /\ packet_queue[e] \in Seq(Flit) /\ packet_queue[e][i].src = e
    BY <1>4, TickTypes DEF Types, FlitTypes
  <1>6. f \in Flit /\ packet_queue[e][i] \in Flit /\ i \in Nat \ {0}
    BY <1>4, <1>5, LenProperties, ElementOfSeq
  <1>7. packet_queue[e][i].flit_left \in Nat
    BY <1>6, FlitFields
  <1>8. f.flit_left <= packet_queue[e][i].flit_left
    BY <1>4, <1>7
  <1> QED BY <1>4, <1>5, <1>6, <1>8 DEF Same

\* The queues are behind the lines after a clock edge.
LEMMA QueuesBehindTick ==
    ASSUME Types, Tick, Ordered
    PROVE  QueuesBehind'
  <1>1. PICK left : LineMoves(left)
    BY TickLines
  <1>2. ASSUME NEW e \in Elements, NEW j \in DOMAIN packet_queue'[e], NEW f, f = packet_queue'[e][j],
               NEW l \in Links, NEW i \in DOMAIN Line(l)', NEW g, g = Line(l)'[i], Together(f, g)
        PROVE  Later(f, g)
    <2>0. Counts(f) /\ Counts(g) /\ f.src = g.src
      BY <1>2 DEF Together
    <2>1. f \in Flit /\ f.src = e
      BY <1>2, <2>0, QueueWas
    <2>2. PICK x \in DOMAIN packet_queue[e] :
              /\ packet_queue[e][x] \in Flit /\ Same(f, packet_queue[e][x]) /\ x \in Nat \ {0}
              /\ f.flit_left = IF x = 1 THEN packet_queue[e][1].flit_left - 1 ELSE packet_queue[e][x].flit_left
              /\ f.flit_left <= packet_queue[e][x].flit_left
      BY <1>2, <2>0, QueueWas
    <2>3. \/ \E k \in Links : \E y \in DOMAIN Line(k) : g = Line(k)[y]
          \/ \E d \in Elements : packet_queue[d] # <<>> /\ g = packet_queue[d][1]
      BY <1>1, <1>2, <2>0, Origin, AckCounts
    <2>4. CASE \E k \in Links : \E y \in DOMAIN Line(k) : g = Line(k)[y]
      <3>1. PICK k \in Links : \E y \in DOMAIN Line(k) : g = Line(k)[y]
        BY <2>4
      <3>2. PICK y \in DOMAIN Line(k) : g = Line(k)[y]
        BY <3>1
      <3>3. g \in Flit
        BY <3>2, LineHas
      <3>4. Together(packet_queue[e][x], g)
        BY <1>2, <2>1, <2>2, <3>3, LaterSame
      <3>5. Later(packet_queue[e][x], g)
        BY <3>2, <3>4 DEF Ordered, QueuesBehind
      <3> QED BY <2>1, <2>2, <3>3, <3>5, LaterSame
    <2>5. CASE \E d \in Elements : packet_queue[d] # <<>> /\ g = packet_queue[d][1]
      <3>1. PICK d \in Elements : packet_queue[d] # <<>> /\ g = packet_queue[d][1]
        BY <2>5
      <3>2. 1 \in DOMAIN packet_queue[d] /\ g \in Flit /\ g.src = d
        BY <3>1, FirstOf
      <3>3. d = e
        BY <2>0, <2>1, <3>2
      <3>4. CASE x = 1
        <4>1. f.session = g.session /\ f.size = g.size /\ f.flit_left = g.flit_left - 1
          BY <2>2, <3>1, <3>3, <3>4 DEF Same
        <4>2. g.flit_left \in Nat
          BY <3>2, FlitFields
        <4> QED BY <4>1, <4>2 DEF Later
      <3>5. CASE x # 1
        <4>1. Together(g, packet_queue[e][x])
          BY <1>2, <2>2 DEF Together, Same, Counts
        <4>2. 1 < x
          BY <2>2, <3>5
        <4>3. g.session[2] < packet_queue[e][x].session[2]
          BY <3>1, <3>2, <3>3, <4>1, <4>2 DEF Ordered, QueuesOrdered
        <4>4. f.session[2] = packet_queue[e][x].session[2] /\ f.session[2] \in Nat /\ g.session[2] \in Nat
          BY <2>1, <2>2, <3>2, FlitFields DEF Same
        <4> QED BY <4>3, <4>4 DEF Later
      <3> QED BY <3>4, <3>5
    <2> QED BY <2>3, <2>4, <2>5
  <1>3. ASSUME NEW e \in Elements, NEW l \in Links, NEW j \in DOMAIN packet_queue'[e],
               NEW i \in DOMAIN Line(l)', Together(packet_queue'[e][j], Line(l)'[i])
        PROVE  Later(packet_queue'[e][j], Line(l)'[i])
    BY ONLY <1>2, <1>3
  <1> QED BY ONLY <1>3 DEF QueuesBehind, Together, Later, Counts

\* The order is kept at a clock edge.
LEMMA OrderedTick ==
    ASSUME Types, Tick, Ordered
    PROVE  Ordered'
  BY OnWayTick, LinesTick, QueuesTick, QueuesBehindTick DEF Ordered

-----------------------------------------------------------------------------
(* What stays under way at a clock edge, and what arrives *)

\* A flit that does not enter an element at a clock edge.
Stays(f) ==
    /\ Counts(f)
    /\ \/ \E l \in Buffered : \E j \in DOMAIN Line(l) : f = Line(l)[j]
       \/ InQueue(f)

\* What is under way after a clock edge has stayed, but for the flits sent of it.
LEMMA UnderWayTick ==
    ASSUME Types, Tick, NEW f, OnItsWay(f)'
    PROVE  f \in Flit /\ \E g \in Flit : Stays(g) /\ OnItsWay(g) /\ Same(f, g) /\ f.flit_left <= g.flit_left
  <1>1. PICK left : LineMoves(left)
    BY TickLines
  <1>2. Counts(f) /\ (\/ \E l \in Links : \E j \in DOMAIN Line(l)' : f = Line(l)'[j]
                      \/ \E e \in Elements : \E j \in DOMAIN packet_queue'[e] : f = packet_queue'[e][j])
    BY DEF OnItsWay, OnLine, InQueue, Counts
  <1>3. ASSUME NEW l \in Links, NEW j \in DOMAIN Line(l)', f = Line(l)'[j] PROVE f \in Flit /\ Stays(f) /\ OnItsWay(f)
    <2>1. \/ \E k \in Links : \E i \in DOMAIN Line(k) : f = Line(k)[i] /\ CameFrom(left, l, j, k, i)
          \/ \E e \in Elements : packet_queue[e] # <<>> /\ f = packet_queue[e][1]
      BY <1>1, <1>2, <1>3, Origin, AckCounts
    <2>2. CASE \E k \in Links : \E i \in DOMAIN Line(k) : f = Line(k)[i] /\ CameFrom(left, l, j, k, i)
      <3>1. PICK k \in Links : \E i \in DOMAIN Line(k) : f = Line(k)[i] /\ CameFrom(left, l, j, k, i)
        BY <2>2
      <3>2. PICK i \in DOMAIN Line(k) : f = Line(k)[i] /\ CameFrom(left, l, j, k, i)
        BY <3>1
      <3>3. k \in Buffered
        BY <1>1, <3>2 DEF CameFrom, LineMoves
      <3>4. f \in Flit
        BY <3>2, LineHas
      <3> QED BY <1>2, <3>2, <3>3, <3>4 DEF Stays, OnItsWay, OnLine
    <2>3. CASE \E e \in Elements : packet_queue[e] # <<>> /\ f = packet_queue[e][1]
      <3>1. PICK e \in Elements : packet_queue[e] # <<>> /\ f = packet_queue[e][1]
        BY <2>3
      <3>2. 1 \in DOMAIN packet_queue[e] /\ f \in Flit
        BY <3>1, FirstOf
      <3> QED BY <1>2, <3>1, <3>2 DEF Stays, OnItsWay, InQueue
    <2> QED BY <2>1, <2>2, <2>3
  <1>4. ASSUME NEW e \in Elements, NEW j \in DOMAIN packet_queue'[e], f = packet_queue'[e][j]
        PROVE  f \in Flit /\ \E g \in Flit : Stays(g) /\ OnItsWay(g) /\ Same(f, g) /\ f.flit_left <= g.flit_left
    <2>0. f \in Flit
      BY <1>2, <1>4, QueueWas
    <2>1. PICK x \in DOMAIN packet_queue[e] :
              /\ packet_queue[e][x] \in Flit /\ Same(f, packet_queue[e][x])
              /\ f.flit_left <= packet_queue[e][x].flit_left
      BY <1>2, <1>4, QueueWas
    <2>2. Counts(packet_queue[e][x])
      BY <1>2, <2>1 DEF Same, Counts
    <2>3. InQueue(packet_queue[e][x])
      BY DEF InQueue
    <2> QED BY <2>0, <2>1, <2>2, <2>3 DEF Stays, OnItsWay
  <1>5. ASSUME f \in Flit, Stays(f), OnItsWay(f)
        PROVE  f \in Flit /\ \E g \in Flit : Stays(g) /\ OnItsWay(g) /\ Same(f, g) /\ f.flit_left <= g.flit_left
    <2>1. Same(f, f) /\ f.flit_left <= f.flit_left
      BY <1>5, FlitFields DEF Same
    <2> QED BY <1>5, <2>1
  <1> QED BY <1>2, <1>3, <1>4, <1>5

\* What enters an element is under way, and comes before what stays.
LEMMA Apart ==
    ASSUME Types, Ordered, NEW e \in Elements, NEW h, h = Into(e), h # Silence
    PROVE  /\ h \in Flit /\ h.dst = e /\ (Counts(h) => OnItsWay(h))
           /\ \A g : Stays(g) /\ Together(g, h) => Later(g, h)
  <1>1. h \in Flit /\ h.dst = e
    BY IntoOnLine
  <1>2. Edge[e].to \in Links /\ Edge[e].to \notin Buffered
    BY LinkAssumption DEF Links
  <1>3. PICK l \in Links : l = Edge[e].to
    BY <1>2
  <1>4. Len(Line(l)) \in DOMAIN Line(l) /\ Line(l)[Len(Line(l))] = h
    <2>1. /\ DOMAIN Line(l) = 1 .. Len(Line(l)) /\ Len(Line(l)) \in Nat
          /\ Len(Line(l)) >= 1 /\ Line(l)[Len(Line(l))] = h
      BY <1>3, LineHas DEF Into
    <2> QED BY <2>1
  <1>5. PICK i \in DOMAIN Line(l) : Line(l)[i] = h
    BY <1>4
  <1>6. ASSUME NEW g, Stays(g), Together(g, h) PROVE Later(g, h)
    <2>1. CASE InQueue(g)
      BY <1>5, <1>6, <2>1 DEF InQueue, Ordered, QueuesBehind
    <2>2. CASE \E k \in Buffered : \E j \in DOMAIN Line(k) : g = Line(k)[j]
      <3>1. PICK k \in Buffered : \E j \in DOMAIN Line(k) : g = Line(k)[j]
        BY <2>2
      <3>2. PICK j \in DOMAIN Line(k) : g = Line(k)[j]
        BY <3>1
      <3>3. k \in Links /\ k # l
        BY <1>2, <1>3, Enters
      <3>4. After(g.dst, l) = {}
        BY <1>2, <1>3, AfterEnd
      <3>5. ~Behind(g.dst, l, i, k, j)
        BY <3>3, <3>4 DEF Behind
      <3> QED BY <1>5, <1>6, <3>2, <3>3, <3>5 DEF Ordered, LinesOrdered
    <2> QED BY <1>6, <2>1, <2>2 DEF Stays
  <1> QED BY <1>1, <1>5, <1>6 DEF OnItsWay, OnLine

-----------------------------------------------------------------------------
(* What is under way belongs to its call, at a clock edge *)

\* What is of a later part of the packet, or of a later one, is there when the last flit
\* of a packet enters.
LEMMA NotLast ==
    ASSUME Types, GotBefore, NEW e \in Elements, NEW h \in Flit, h.dst = e,
           NEW g \in Flit, OnItsWay(g), g.dst = e, g.session = h.session, g.size = h.size,
           g.flit_left < h.flit_left
    PROVE  h.kind = "PART" /\ ~Complete(e, h)
  <1>1. /\ g.flit_left \in Nat \ {0} /\ h.flit_left \in Nat /\ h.size \in Nat /\ h.flit_left <= h.size
        /\ h.kind = "PART" <=> h.size # 1
    BY FlitFields
  <1>2. h.kind = "PART"
    BY <1>1
  <1>3. Cardinality(Got(e, h)) # h.size
    <2> DEFINE G == Got(e, h)   a == g.flit_left + 1   n == h.size
    <2>1. a \in Int /\ n \in Int /\ a <= n /\ a > 1 /\ n \in Nat
      BY <1>1
    <2>2. G \subseteq a .. n
      <3>1. h.flit_left \in a .. n
        BY <1>1
      <3>2. ASSUME h.session \in DOMAIN openSessions[e], NEW i \in openSessions[e][h.session]
            PROVE  i \in a .. n
        <4>1. openSessions[e] \in [DOMAIN openSessions[e] -> SUBSET Nat]
          BY DEF Types, EndTypes
        <4>2. i \in Nat
          BY <3>2, <4>1
        <4>3. g.flit_left < i /\ i <= n
          BY <3>2 DEF GotBefore
        <4> QED BY <1>1, <4>2, <4>3
      <3> QED BY <3>1, <3>2 DEF Got
    <2> HIDE DEF G, a, n
    <2>3. IsFiniteSet(a .. n) /\ Cardinality(a .. n) = n - a + 1
      <3>1. Cardinality(a .. n) = IF a > n THEN 0 ELSE n - a + 1
        BY <2>1, FS_Interval
      <3> QED BY <2>1, <3>1, FS_Interval
    <2>4. Cardinality(G) <= Cardinality(a .. n) /\ IsFiniteSet(G)
      BY <2>2, <2>3, FS_Subset
    <2>5. Cardinality(G) \in Nat
      BY <2>4, FS_CardinalityType
    <2>6. Cardinality(G) # n
      BY <2>1, <2>3, <2>4, <2>5
    <2> QED BY <2>6 DEF G, n
  <1> QED BY <1>2, <1>3 DEF Complete

\* What is at a slave after a clock edge was there before it, or has just arrived.
LEMMA ArrivedTick ==
    ASSUME Types, Tick, NEW p, Arrived(p)'
    PROVE  \/ Arrived(p)
           \/ \E s \in Slaves : p = Into(s) /\ Arrives(s, p)
  <1>1. UNCHANGED serving
    BY DEF Tick, slaves
  <1>2. PICK s \in Slaves : \/ \E j \in DOMAIN waiting'[s] : p = waiting'[s][j]
                            \/ serving[s] # Nobody /\ p = serving[s].packet
    BY <1>1 DEF Arrived
  <1>3. CASE serving[s] # Nobody /\ p = serving[s].packet
    BY <1>3 DEF Arrived
  <1>4. CASE \E j \in DOMAIN waiting'[s] : p = waiting'[s][j]
    <2>1. PICK j \in DOMAIN waiting'[s] : p = waiting'[s][j]
      BY <1>4
    <2>2. waiting'[s] = IF Arrives(s, Into(s)) THEN Append(waiting[s], Into(s)) ELSE waiting[s]
      BY DEF Tick
    <2>3. CASE ~Arrives(s, Into(s))
      BY <2>1, <2>2, <2>3 DEF Arrived
    <2>4. CASE Arrives(s, Into(s))
      <3> DEFINE q == waiting[s]   f == Into(s)
      <3>1. q \in Seq(Job(s) \cup {f}) /\ f \in Job(s) \cup {f}
        <4>1. waiting[s] \in Seq(Job(s))
          BY DEF Types, EndTypes
        <4> QED BY <4>1, SeqMono
      <3>2. j \in DOMAIN Append(q, f) /\ p = Append(q, f)[j]
        BY <2>1, <2>2, <2>4
      <3>3. (\E i \in DOMAIN q : p = q[i]) \/ p = f
        <4> HIDE DEF q, f
        <4>1. /\ Len(q) \in Nat /\ DOMAIN q = 1 .. Len(q) /\ DOMAIN Append(q, f) = 1 .. Len(q) + 1
              /\ \A i \in 1 .. Len(q) : Append(q, f)[i] = q[i]
              /\ Append(q, f)[Len(q) + 1] = f
          BY <3>1, AppendHas
        <4>2. j \in 1 .. Len(q) \/ j = Len(q) + 1
          BY <3>2, <4>1
        <4> QED BY <3>2, <4>1, <4>2
      <3> QED BY <2>4, <3>3 DEF Arrived
    <2> QED BY <2>3, <2>4
  <1> QED BY <1>2, <1>3, <1>4

\* What arrives at a slave is under way to it.
LEMMA JustArrived ==
    ASSUME Types, Ordered, NEW s \in Slaves, NEW p, p = Into(s), Arrives(s, p)
    PROVE  /\ p \in Flit /\ p.dst = s /\ Counts(p) /\ OnItsWay(p) /\ s \in Elements
           /\ p.src \in Masters /\ p.session[1] = p.src
  <1>1. p.kind # "ACK" /\ p # Silence
    BY DEF Arrives, Silence
  <1>2. s \in Elements
    BY DEF Elements
  <1>3. p \in Flit /\ p.dst = s /\ (Counts(p) => OnItsWay(p))
    BY <1>1, <1>2, Apart
  <1> QED BY <1>1, <1>2, <1>3, FlitFields DEF Counts

\* What is at a slave is a request to it.
LEMMA ArrivedType ==
    ASSUME Types, NEW p, Arrived(p)
    PROVE  /\ p \in Flit /\ p.dst \in Slaves /\ p.kind # "ACK" /\ p.session \in Opened
           /\ p.src \in Masters /\ p.session[1] = p.src
  <1>1. PICK s \in Slaves : \/ \E j \in DOMAIN waiting[s] : p = waiting[s][j]
                            \/ serving[s] # Nobody /\ p = serving[s].packet
    BY DEF Arrived
  <1>2. p \in Job(s)
    <2>1. CASE \E j \in DOMAIN waiting[s] : p = waiting[s][j]
      <3>1. waiting[s] \in Seq(Job(s))
        BY DEF Types, EndTypes
      <3> QED BY <2>1, <3>1, LenProperties, ElementOfSeq
    <2>2. CASE serving[s] # Nobody /\ p = serving[s].packet
      <3>1. serving[s] \in [payload : Nat, packet : Job(s), addr_old : Int]
        BY <2>2 DEF Types, EndTypes
      <3> QED BY <2>2, <3>1
    <2> QED BY <1>1, <2>1, <2>2
  <1> QED BY <1>2, FlitFields DEF Job

\* What is under way is a flit.
LEMMA UnderWayType ==
    ASSUME Types, NEW f, OnItsWay(f)
    PROVE  f \in Flit /\ f.session \in Opened
  <1>1. CASE OnLine(f)
    <2>1. PICK l \in Links : \E j \in DOMAIN Line(l) : f = Line(l)[j]
      BY <1>1 DEF OnLine
    <2> QED BY <2>1, LineHas
  <1>2. CASE InQueue(f)
    <2>1. PICK e \in Elements : \E j \in DOMAIN packet_queue[e] : f = packet_queue[e][j]
      BY <1>2 DEF InQueue
    <2>2. packet_queue[e] \in Seq(Flit)
      BY DEF Types, FlitTypes
    <2> QED BY <2>1, <2>2, LenProperties, ElementOfSeq DEF Types, FlitTypes
  <1> QED BY <1>1, <1>2 DEF OnItsWay

\* What is under way or at a slave after a clock edge was under way or at a slave before
\* it, or a part of such a packet was.
LEMMA ThereTick ==
    ASSUME Types, Tick, Ordered, NEW f, (OnItsWay(f) \/ Arrived(f))'
    PROVE  \E g \in Flit : (OnItsWay(g) \/ Arrived(g)) /\ f \in Flit /\ Same(f, g)
  <1>1. CASE OnItsWay(f)'
    BY <1>1, UnderWayTick
  <1>2. CASE Arrived(f)'
    <2>1. Arrived(f) \/ \E s \in Slaves : f = Into(s) /\ Arrives(s, f)
      BY <1>2, ArrivedTick
    <2>2. f \in Flit /\ (OnItsWay(f) \/ Arrived(f))
      BY <2>1, JustArrived, ArrivedType
    <2>3. Same(f, f)
      BY DEF Same
    <2> QED BY <2>2, <2>3
  <1> QED BY <1>1, <1>2

\* What belongs to a call belongs to it after a clock edge.
LEMMA BelongTick ==
    ASSUME Types, Tick, Ordered, AllBelong
    PROVE  AllBelong'
  <1>0. /\ UNCHANGED <<calls, command, endTransm, performed>>
        /\ pc' = [m \in Masters |-> IF Woken(m, Into(m)) THEN "awake" ELSE pc[m]]
    BY DEF Tick, sessions, slaves
  <1> SUFFICES ASSUME NEW f, (OnItsWay(f) \/ Arrived(f))' PROVE Belongs(f)'
    BY DEF AllBelong
  <1>1. PICK g \in Flit : (OnItsWay(g) \/ Arrived(g)) /\ f \in Flit /\ Same(f, g)
    BY ThereTick
  <1>2. Belongs(g)
    BY <1>1 DEF AllBelong
  <1>3. PICK m \in Masters : m = g.session[1]
    BY <1>1, FlitFields
  <1>4. pc'[m] # "idle"
    BY <1>0, <1>2, <1>3 DEF Belongs
  <1>5. \A x : Target(x)' = Target(x)
    BY <1>0 DEF Target
  <1> QED BY <1>0, <1>1, <1>2, <1>3, <1>4, <1>5 DEF Belongs, Same

\* Nothing of an answer comes as long as its request is there.
LEMMA AnswersTick ==
    ASSUME Types, Tick, Ordered, AnswersAfter
    PROVE  AnswersAfter'
  <1> SUFFICES ASSUME NEW f, (OnItsWay(f) \/ Arrived(f))', f.dst \in Slaves PROVE Unanswered(f)'
    BY DEF AnswersAfter
  <1>1. PICK g \in Flit : (OnItsWay(g) \/ Arrived(g)) /\ f \in Flit /\ Same(f, g)
    BY ThereTick
  <1>2. Unanswered(g) /\ g.session = f.session /\ g.src = f.src
    BY <1>1 DEF AnswersAfter, Same
  <1>3. f.src \in Masters /\ f.src \in Elements
    BY <1>1, FlitFields
  <1>4. f.session \notin DOMAIN openSessions'[f.src]
    <2> DEFINE e == f.src   h == Into(e)
    <2>1. openSessions'[e] = OpenAfter(e, h)
      BY <1>3 DEF Tick
    <2>2. CASE h.kind # "PART"
      BY <1>2, <2>1, <2>2 DEF OpenAfter, Unanswered
    <2>3. CASE h.kind = "PART"
      <3>1. h # Silence /\ Counts(h)
        BY <2>3 DEF Silence, Counts
      <3>2. h \in Flit /\ h.dst = e /\ OnItsWay(h)
        BY <1>3, <3>1, Apart
      <3>3. h.session[2] < f.session[2]
        BY <1>2, <3>2 DEF Unanswered
      <3>4. h.session # f.session
        BY <1>1, <3>2, <3>3, FlitFields
      <3>5. f.session \notin DOMAIN openSessions[e]
        BY <1>2 DEF Unanswered
      <3>6. openSessions'[e] = Kept(e, h) \/ openSessions'[e] = Closed(e, h)
        BY <2>1, <2>3 DEF OpenAfter
      <3>7. DOMAIN Kept(e, h) = DOMAIN openSessions[e] \cup {h.session}
        BY DEF Kept
      <3>8. DOMAIN Closed(e, h) = DOMAIN openSessions[e] \ {h.session}
        BY DEF Closed
      <3> QED BY <3>4, <3>5, <3>6, <3>7, <3>8
    <2> QED BY <2>2, <2>3
  <1>5. ASSUME NEW x, OnItsWay(x)', x.dst = f.src PROVE x.session[2] < f.session[2]
    <2>1. PICK y \in Flit : OnItsWay(y) /\ Same(x, y)
      BY <1>5, UnderWayTick
    <2>2. y.session[2] < f.session[2]
      BY <1>2, <1>5, <2>1 DEF Unanswered, Same
    <2> QED BY <2>1, <2>2 DEF Same
  <1> QED BY <1>4, <1>5 DEF Unanswered

\* What is for the same element and of the same master is on the same way.
LEMMA SameWay ==
    ASSUME NEW f \in Flit, NEW g \in Flit, Belongs(f), Belongs(g), Counts(f), Counts(g),
           f.dst = g.dst, f.session[1] = g.session[1]
    PROVE  Together(f, g)
  <1>1. f.dst \in Masters \/ f.dst \in Slaves
    BY FlitFields DEF Elements
  <1>2. CASE f.dst \in Masters
    BY <1>2 DEF Belongs, Together
  <1>3. CASE f.dst \in Slaves
    BY <1>3, FlitFields DEF Together
  <1> QED BY <1>1, <1>2, <1>3

\* What has been got came before what is under way, also after a clock edge.
LEMMA GotTick ==
    ASSUME Types, Tick, Ordered, AllBelong, GotBefore
    PROVE  GotBefore'
  <1> SUFFICES ASSUME NEW f, OnItsWay(f)', f.session \in DOMAIN openSessions'[f.dst],
                      NEW i \in openSessions'[f.dst][f.session]
               PROVE  f.flit_left < i /\ i <= f.size
    BY DEF GotBefore
  <1>1. PICK g \in Flit : f \in Flit /\ Stays(g) /\ OnItsWay(g) /\ Same(f, g) /\ f.flit_left <= g.flit_left
    BY UnderWayTick
  <1>2. f.dst = g.dst /\ f.session = g.session /\ f.size = g.size /\ f.dst \in Elements
    BY <1>1, FlitFields DEF Same
  <1>3. f.flit_left \in Nat /\ g.flit_left \in Nat /\ f.size \in Nat
    BY <1>1, FlitFields
  <1>4. PICK e \in Elements : e = f.dst
    BY <1>2
  <1>5. PICK h : h = Into(e)
    OBVIOUS
  <1>6. openSessions'[e] = OpenAfter(e, h)
    BY <1>5 DEF Tick
  <1>7. ASSUME g.session \in DOMAIN openSessions[e], i \in openSessions[e][g.session]
        PROVE  f.flit_left < i /\ i <= f.size
    <2>1. g.flit_left < i /\ i <= g.size
      BY <1>1, <1>2, <1>4, <1>7 DEF GotBefore
    <2>2. i \in Nat
      <3>1. openSessions[e] \in [DOMAIN openSessions[e] -> SUBSET Nat]
        BY DEF Types, EndTypes
      <3> QED BY <1>7, <3>1
    <2> QED BY <1>1, <1>2, <1>3, <2>1, <2>2
  <1>8. CASE h.kind # "PART"
    BY <1>2, <1>4, <1>6, <1>7, <1>8 DEF OpenAfter
  <1>9. CASE h.kind = "PART"
    <2>1. h # Silence /\ Counts(h)
      BY <1>9 DEF Silence, Counts
    <2>2. h \in Flit /\ h.dst = e /\ OnItsWay(h) /\ \A x : Stays(x) /\ Together(x, h) => Later(x, h)
      BY <1>5, <2>1, Apart
    <2>3. openSessions'[e] = Kept(e, h) \/ openSessions'[e] = Closed(e, h)
      BY <1>6, <1>9 DEF OpenAfter
    <2>4. CASE g.session # h.session
      <3>1. CASE openSessions'[e] = Kept(e, h)
        BY <1>2, <1>4, <1>7, <2>4, <3>1 DEF Kept
      <3>2. CASE openSessions'[e] = Closed(e, h)
        BY <1>2, <1>4, <1>7, <2>4, <3>2 DEF Closed
      <3> QED BY <2>3, <3>1, <3>2
    <2>5. CASE g.session = h.session
      <3>1. openSessions'[e] = Kept(e, h)
        BY <1>2, <1>4, <2>3, <2>5 DEF Closed
      <3>2. i \in Got(e, h)
        BY <1>2, <1>4, <2>5, <3>1 DEF Kept
      <3>3. Together(g, h)
        <4>1. Counts(g) /\ Belongs(g) /\ Belongs(h)
          BY <1>1, <2>2 DEF Stays, AllBelong
        <4> QED BY <1>1, <1>2, <1>4, <2>1, <2>2, <2>5, <4>1, SameWay
      <3>4. Later(g, h)
        BY <1>1, <2>2, <3>3
      <3>5. g.size = h.size /\ g.flit_left < h.flit_left
        <4>1. g.session[2] \in Nat /\ g.session[2] = h.session[2]
          BY <1>1, <2>5, FlitFields
        <4> QED BY <3>4, <4>1 DEF Later
      <3>6. h.flit_left \in Nat /\ h.flit_left <= h.size
        BY <2>2, FlitFields
      <3>7. i = h.flit_left \/ (g.session \in DOMAIN openSessions[e] /\ i \in openSessions[e][g.session])
        BY <2>5, <3>2 DEF Got
      <3>8. CASE i = h.flit_left
        BY <1>1, <1>2, <1>3, <3>5, <3>6, <3>8
      <3> QED BY <1>7, <3>7, <3>8
    <2> QED BY <2>4, <2>5
  <1> QED BY <1>8, <1>9

\* What stays, when the last flit of a packet enters, is of a later packet.
LEMMA LaterSession ==
    ASSUME Types, Ordered, AllBelong, GotBefore, NEW e \in Elements, NEW h, h = Into(e), h # Silence,
           Counts(h), h.kind = "PART" => Complete(e, h),
           NEW g \in Flit, Stays(g), OnItsWay(g), g.dst = e, g.session[1] = h.session[1]
    PROVE  h.session[2] < g.session[2]
  <1>1. h \in Flit /\ h.dst = e /\ OnItsWay(h) /\ \A x : Stays(x) /\ Together(x, h) => Later(x, h)
    BY Apart
  <1>2. Counts(g) /\ Belongs(g) /\ Belongs(h)
    BY <1>1 DEF Stays, AllBelong
  <1>3. Later(g, h)
    BY <1>1, <1>2, SameWay
  <1>4. CASE g.session[2] = h.session[2] /\ g.size = h.size /\ g.flit_left < h.flit_left
    <2>1. g.session = h.session
      BY <1>1, <1>4, FlitFields
    <2>2. h.kind = "PART" /\ ~Complete(e, h)
      BY <1>1, <1>4, <2>1, NotLast
    <2> QED BY <2>2
  <1>5. g.session[2] \in Nat /\ h.session[2] \in Nat
    BY <1>1, FlitFields
  <1> QED BY <1>3, <1>4, <1>5 DEF Later

\* What is at a slave is before what is under way, also after a clock edge.
LEMMA ArrivedBeforeTick ==
    ASSUME Types, Tick, Ordered, AllBelong, GotBefore, ArrivedBefore
    PROVE  ArrivedBefore'
  <1> SUFFICES ASSUME NEW p, NEW f, Arrived(p)', OnItsWay(f)', f.dst \in Slaves, p.src = f.src
               PROVE  p.session[2] < f.session[2]
    BY DEF ArrivedBefore
  <1>1. PICK g \in Flit : f \in Flit /\ Stays(g) /\ OnItsWay(g) /\ Same(f, g)
    BY UnderWayTick
  <1>2. g.dst \in Slaves /\ p.src = g.src /\ g.session = f.session
    BY <1>1 DEF Same
  <1>3. CASE Arrived(p)
    BY <1>1, <1>2, <1>3 DEF ArrivedBefore
  <1>4. CASE \E s \in Slaves : p = Into(s) /\ Arrives(s, p)
    <2>1. PICK s \in Slaves : p = Into(s) /\ Arrives(s, p)
      BY <1>4
    <2>2. p \in Flit /\ p.dst = s /\ Counts(p) /\ OnItsWay(p) /\ s \in Elements /\ p.session[1] = p.src
      BY <2>1, JustArrived
    <2>3. p # Silence /\ (p.kind = "PART" => Complete(s, p))
      BY <2>1 DEF Arrives, Silence
    <2>4. g.session[1] = g.src
      BY <1>2, FlitFields
    <2>5. g.dst = s
      <3>1. Belongs(g) /\ Belongs(p)
        BY <1>1, <2>2 DEF AllBelong
      <3> QED BY <1>2, <2>2, <2>4, <3>1 DEF Belongs
    <2>6. g.session[1] = p.session[1]
      BY <1>2, <2>2, <2>4
    <2>7. p.session[2] < g.session[2]
      BY <1>1, <2>1, <2>2, <2>3, <2>5, <2>6, LaterSession
    <2> QED BY <1>2, <2>7
  <1> QED BY <1>3, <1>4, ArrivedTick

\* A slave gets the packets of a master in their order.
LEMMA SlavesTick ==
    ASSUME Types, Tick, Ordered, ArrivedBefore, SlavesOrdered
    PROVE  SlavesOrdered'
  <1>1. UNCHANGED serving
    BY DEF Tick, slaves
  <1> SUFFICES ASSUME NEW s \in Slaves
               PROVE  /\ \A i, j \in DOMAIN waiting'[s] : i < j /\ waiting'[s][i].src = waiting'[s][j].src
                            => waiting'[s][i].session[2] < waiting'[s][j].session[2]
                      /\ serving[s] # Nobody => \A j \in DOMAIN waiting'[s] :
                            serving[s].packet.src = waiting'[s][j].src
                               => serving[s].packet.session[2] < waiting'[s][j].session[2]
    BY <1>1 DEF SlavesOrdered
  <1>2. waiting'[s] = IF Arrives(s, Into(s)) THEN Append(waiting[s], Into(s)) ELSE waiting[s]
    BY DEF Tick
  <1>3. CASE ~Arrives(s, Into(s))
    BY <1>2, <1>3 DEF SlavesOrdered
  <1>4. CASE Arrives(s, Into(s))
    <2>1. PICK f : f = Into(s)
      OBVIOUS
    <2>2. PICK q : q = waiting[s]
      OBVIOUS
    <2>3. q \in Seq(Job(s) \cup {f}) /\ f \in Job(s) \cup {f}
      <3>1. q \in Seq(Job(s))
        BY <2>2 DEF Types, EndTypes
      <3> QED BY <3>1, SeqMono
    <2>4. /\ Len(q) \in Nat /\ DOMAIN q = 1 .. Len(q) /\ DOMAIN Append(q, f) = 1 .. Len(q) + 1
          /\ \A i \in 1 .. Len(q) : Append(q, f)[i] = q[i]
          /\ Append(q, f)[Len(q) + 1] = f
      BY <2>3, AppendHas
    <2>5. waiting'[s] = Append(q, f)
      BY <1>2, <1>4, <2>1, <2>2
    <2>6. f.dst \in Slaves /\ OnItsWay(f)
      BY <1>4, <2>1, JustArrived
    <2>7. ASSUME NEW j \in DOMAIN q, q[j].src = f.src PROVE q[j].session[2] < f.session[2]
      <3>1. Arrived(q[j])
        BY <2>2 DEF Arrived
      <3> QED BY <2>6, <2>7, <3>1 DEF ArrivedBefore
    <2>8. serving[s] # Nobody /\ serving[s].packet.src = f.src => serving[s].packet.session[2] < f.session[2]
      <3>1. serving[s] # Nobody => Arrived(serving[s].packet)
        BY DEF Arrived
      <3> QED BY <2>6, <3>1 DEF ArrivedBefore
    <2>9. /\ \A i, j \in DOMAIN q : i < j /\ q[i].src = q[j].src => q[i].session[2] < q[j].session[2]
          /\ serving[s] # Nobody => \A j \in DOMAIN q : serving[s].packet.src = q[j].src
              => serving[s].packet.session[2] < q[j].session[2]
      BY <2>2 DEF SlavesOrdered
    <2>10. ASSUME NEW i \in 1 .. Len(q) + 1, NEW j \in 1 .. Len(q) + 1, i < j,
                  Append(q, f)[i].src = Append(q, f)[j].src
           PROVE  Append(q, f)[i].session[2] < Append(q, f)[j].session[2]
      <3>1. i \in 1 .. Len(q) /\ (j \in 1 .. Len(q) \/ j = Len(q) + 1)
        BY <2>4, <2>10
      <3> QED BY ONLY <2>4, <2>7, <2>9, <2>10, <3>1
    <2>11. ASSUME serving[s] # Nobody, NEW j \in 1 .. Len(q) + 1, serving[s].packet.src = Append(q, f)[j].src
           PROVE  serving[s].packet.session[2] < Append(q, f)[j].session[2]
      <3>1. j \in 1 .. Len(q) \/ j = Len(q) + 1
        BY <2>4
      <3> QED BY ONLY <2>4, <2>8, <2>9, <2>11, <3>1
    <2> QED BY ONLY <2>4, <2>5, <2>10, <2>11
  <1> QED BY <1>3, <1>4

\* When a call is woken by its answer, all its requests and other answers are gone.
LEMMA LeftTick ==
    ASSUME Types, Tick, Ordered, AllBelong, AnswersAfter, GotBefore, NothingLeft
    PROVE  NothingLeft'
  <1>0. /\ UNCHANGED <<last_session_id, timedOut, performed>>
        /\ pc' = [m \in Masters |-> IF Woken(m, Into(m)) THEN "awake" ELSE pc[m]]
        /\ \A m \in Masters : pc[m] # "awake"
    BY DEF Tick, sessions, slaves, Settled
  <1> SUFFICES ASSUME NEW m \in Masters, Done(m)'
               PROVE  performed[m] /\ \A f : (OnItsWay(f) \/ Arrived(f))' => f.session[1] # m
    BY <1>0 DEF NothingLeft
  <1>1. Woken(m, Into(m)) /\ last_session_id[m] \notin timedOut[m]
    BY <1>0 DEF Done
  <1>2. PICK h : h = Into(m)
    OBVIOUS
  <1>3. /\ h.kind = "ACK" \/ Accepted(m, h)
        /\ h.session[2] = last_session_id[m]
    BY <1>1, <1>2 DEF Woken, Notified, Current
  <1>4. h # Silence /\ (h.kind = "PART" => Complete(m, h))
    BY <1>3 DEF Accepted, Arrives, Silence
  <1>5. m \in Elements
    BY DEF Elements
  <1>6. h \in Flit /\ h.dst = m /\ Counts(h) /\ OnItsWay(h)
    BY <1>2, <1>4, <1>5, Apart DEF Counts
  <1>7. h.session[1] = m /\ h.session[2] \in Nat /\ Belongs(h)
    BY <1>6, FlitFields DEF AllBelong
  <1>8. performed[m]
    BY <1>6, <1>7 DEF Belongs
  <1>9. ASSUME NEW f, (OnItsWay(f) \/ Arrived(f))', f.session[1] = m PROVE FALSE
    <2>1. PICK g \in Flit : (OnItsWay(g) \/ Arrived(g)) /\ f \in Flit /\ Same(f, g)
      BY <1>9, ThereTick
    <2>2. g.session[1] = m /\ g.session[2] \in Nat /\ g.session[2] <= last_session_id[m]
      <3>1. g.session \in Opened
        BY <2>1, UnderWayType, ArrivedType
      <3> QED BY <1>9, <2>1, <3>1, FlitFields DEF Same, Opened
    <2>3. CASE g.dst \in Slaves
      <3>1. g.src = m
        BY <2>2, <2>3, FlitFields
      <3>2. h.session[2] < g.session[2]
        BY <1>6, <2>1, <2>3, <3>1 DEF AnswersAfter, Unanswered
      <3> QED BY <1>3, <1>7, <2>2, <3>2
    <2>4. CASE g.dst \in Masters
      <3>1. f.dst = m /\ f.dst \notin Slaves /\ f.session[1] = m
        BY <1>9, <2>1, <2>2, <2>4, FlitFields, NocAssumption DEF Same
      <3>2. OnItsWay(f)'
        <4>1. ASSUME Arrived(f)' PROVE FALSE
          <5>1. Types'
            BY TickTypes
          <5>2. Arrived(f) \/ \E s \in Slaves : f = Into(s) /\ Arrives(s, f)
            BY <4>1, ArrivedTick
          <5> QED BY <3>1, <5>2, JustArrived, ArrivedType
        <4> QED BY <1>9, <4>1
      <3>3. PICK x \in Flit : Stays(x) /\ OnItsWay(x) /\ Same(f, x)
        BY <3>2, UnderWayTick
      <3>4. x.dst = m /\ x.session[1] = m
        BY <3>1, <3>3 DEF Same
      <3>5. h.session[2] < x.session[2]
        BY <1>2, <1>4, <1>5, <1>6, <1>7, <3>3, <3>4, LaterSession
      <3>6. x.session[2] = g.session[2]
        BY <2>1, <3>3 DEF Same
      <3> QED BY <1>3, <1>7, <2>2, <3>5, <3>6
    <2> QED BY <2>1, <2>3, <2>4, FlitFields DEF Elements
  <1> QED BY <1>8, <1>9

\* The invariant, at a clock edge.
LEMMA NTick ==
    ASSUME Types, NInv, Tick
    PROVE  NInv'
  <1>1. Addressed'
    BY DEF Tick, slaves, NInv, Addressed
  <1> QED
    BY <1>1, OrderedTick, BelongTick, AnswersTick, ArrivedBeforeTick, SlavesTick, GotTick, LeftTick DEF NInv

-----------------------------------------------------------------------------
(* The other actions *)

\* The order does not depend on anything but the queues and the lines.
LEMMA OrderedAlone ==
    ASSUME UNCHANGED <<wire, buffer, packet_queue>>
    PROVE  /\ Ordered' <=> Ordered
           /\ \A f : OnItsWay(f)' <=> OnItsWay(f)
  <1>1. \A l : Line(l)' = Line(l)
    BY DEF Line
  <1>2. \A f : Counts(f)' <=> Counts(f)
    BY DEF Counts
  <1>3. \A f : OnItsWay(f)' <=> OnItsWay(f)
    BY <1>1, <1>2 DEF OnItsWay, OnLine, InQueue
  <1>4. \A f, g : Together(f, g)' <=> Together(f, g)
    BY <1>2 DEF Together
  <1>5. OnWay' <=> OnWay
    BY <1>1 DEF OnWay
  <1>6. LinesOrdered' <=> LinesOrdered
    BY <1>1, <1>4 DEF LinesOrdered
  <1>7. QueuesBehind' <=> QueuesBehind
    BY <1>1, <1>4 DEF QueuesBehind
  <1>8. QueuesOrdered' <=> QueuesOrdered
    BY <1>4 DEF QueuesOrdered
  <1> QED BY <1>3, <1>5, <1>6, <1>7, <1>8 DEF Ordered

\* A packet that is later than all that is under way on its way may be added.
LEMMA OrderedGrows ==
    ASSUME Types, Ordered, UNCHANGED <<wire, buffer>>, NEW e \in Elements, NEW p \in Flit,
           p.src = e, Queues(e, p),
           \A f : OnItsWay(f) /\ Together(p, f) => f.session[2] < p.session[2]
    PROVE  /\ Ordered'
           /\ \A f : OnItsWay(f)' => OnItsWay(f) \/ f = p
  <1>1. \A l : Line(l)' = Line(l)
    BY DEF Line
  <1>2. \A f : Counts(f)' <=> Counts(f)
    BY DEF Counts
  <1>3. \A f, g : Together(f, g)' <=> Together(f, g)
    BY <1>2 DEF Together
  <1>4. OnWay'
    BY <1>1 DEF Ordered, OnWay
  <1>5. LinesOrdered'
    BY <1>1, <1>3 DEF Ordered, LinesOrdered
  <1>6. ASSUME NEW x \in Elements
        PROVE  \/ packet_queue'[x] = packet_queue[x]
               \/ /\ x = e /\ packet_queue[x] \in Seq(Flit) /\ packet_queue'[x] = Append(packet_queue[x], p)
    BY DEF Queues, Types, FlitTypes
  <1>7. ASSUME NEW x \in Elements, NEW j \in DOMAIN packet_queue'[x]
        PROVE  \/ j \in DOMAIN packet_queue[x] /\ packet_queue'[x][j] = packet_queue[x][j]
               \/ x = e /\ packet_queue'[x][j] = p /\ \A i \in DOMAIN packet_queue'[x] : ~(j < i)
    <2>1. CASE packet_queue'[x] = packet_queue[x]
      BY <1>7, <2>1
    <2>2. CASE x = e /\ packet_queue[x] \in Seq(Flit) /\ packet_queue'[x] = Append(packet_queue[x], p)
      <3>1. PICK q : q = packet_queue[x]
        OBVIOUS
      <3>2. /\ Len(q) \in Nat /\ DOMAIN q = 1 .. Len(q) /\ DOMAIN Append(q, p) = 1 .. Len(q) + 1
            /\ \A i \in 1 .. Len(q) : Append(q, p)[i] = q[i]
            /\ Append(q, p)[Len(q) + 1] = p
        BY <2>2, <3>1, AppendHas
      <3>3. packet_queue'[x] = Append(q, p) /\ j \in DOMAIN Append(q, p)
        BY <1>7, <2>2, <3>1
      <3>4. j \in 1 .. Len(q) \/ j = Len(q) + 1
        BY <3>2, <3>3
      <3>5. j = Len(q) + 1 => \A i \in 1 .. Len(q) + 1 : ~(j < i)
        BY <3>2
      <3> QED BY ONLY <2>2, <3>1, <3>2, <3>3, <3>4, <3>5
    <2> QED BY <1>6, <2>1, <2>2
  <1>8. QueuesBehind'
    <2>1. ASSUME NEW x \in Elements, NEW l \in Links, NEW j \in DOMAIN packet_queue'[x],
                 NEW i \in DOMAIN Line(l), Together(packet_queue'[x][j], Line(l)[i])
          PROVE  Later(packet_queue'[x][j], Line(l)[i])
      <3>1. CASE j \in DOMAIN packet_queue[x] /\ packet_queue'[x][j] = packet_queue[x][j]
        BY <2>1, <3>1 DEF Ordered, QueuesBehind
      <3>2. CASE packet_queue'[x][j] = p
        <4>1. OnItsWay(Line(l)[i])
          BY <2>1 DEF OnItsWay, OnLine, Together
        <4>2. Line(l)[i].session[2] < p.session[2]
          BY <2>1, <3>2, <4>1
        <4>3. Line(l)[i].session[2] \in Nat /\ p.session[2] \in Nat
          <5>1. Line(l)[i] \in Flit
            BY LineHas
          <5> QED BY <5>1, FlitFields
        <4>4. p.session[2] > Line(l)[i].session[2]
          BY ONLY <4>2, <4>3
        <4> QED BY <3>2, <4>4 DEF Later
      <3> QED BY <1>7, <2>1, <3>1, <3>2
    <2> QED BY <1>1, <1>3, <2>1 DEF QueuesBehind, Later
  <1>9. QueuesOrdered'
    <2>1. ASSUME NEW x \in Elements, NEW i \in DOMAIN packet_queue'[x], NEW j \in DOMAIN packet_queue'[x],
                 i < j, Together(packet_queue'[x][i], packet_queue'[x][j])
          PROVE  packet_queue'[x][i].session[2] < packet_queue'[x][j].session[2]
      <3>1. i \in DOMAIN packet_queue[x] /\ packet_queue'[x][i] = packet_queue[x][i]
        BY <1>7, <2>1
      <3>2. CASE j \in DOMAIN packet_queue[x] /\ packet_queue'[x][j] = packet_queue[x][j]
        BY <2>1, <3>1, <3>2 DEF Ordered, QueuesOrdered
      <3>3. CASE packet_queue'[x][j] = p
        <4>1. OnItsWay(packet_queue[x][i])
          BY <2>1, <3>1 DEF OnItsWay, InQueue, Together
        <4>2. Together(p, packet_queue[x][i])
          BY <2>1, <3>1, <3>3 DEF Together
        <4> QED BY <3>1, <3>3, <4>1, <4>2
      <3> QED BY <1>7, <2>1, <3>2, <3>3
    <2> QED BY <1>3, <2>1 DEF QueuesOrdered
  <1>10. ASSUME NEW f, OnItsWay(f)' PROVE OnItsWay(f) \/ f = p
    <2>1. CASE OnLine(f)'
      BY <1>1, <1>2, <1>10, <2>1 DEF OnItsWay, OnLine
    <2>2. CASE InQueue(f)'
      <3>1. PICK x \in Elements : \E j \in DOMAIN packet_queue'[x] : f = packet_queue'[x][j]
        BY <2>2 DEF InQueue
      <3>2. PICK j \in DOMAIN packet_queue'[x] : f = packet_queue'[x][j]
        BY <3>1
      <3> QED BY <1>2, <1>7, <1>10, <3>2 DEF OnItsWay, InQueue
    <2> QED BY <1>10, <2>1, <2>2 DEF OnItsWay
  <1> QED BY <1>4, <1>5, <1>8, <1>9, <1>10 DEF Ordered

\* The parts of the invariant that are about what is under way or at a slave.
Parted == AllBelong /\ AnswersAfter /\ ArrivedBefore /\ SlavesOrdered /\ GotBefore /\ NothingLeft

\* A session of m has been opened, with its request p.
Asks(m, n, p) ==
    /\ n = last_session_id[m] + 1
    /\ last_session_id' = [last_session_id EXCEPT ![m] = n]
    /\ endTransm' = [endTransm EXCEPT ![m] = @ \cup {n}]
    /\ pc' = [pc EXCEPT ![m] = "waiting"]
    /\ UNCHANGED <<timedOut, openSessions, serving, waiting, wire, buffer>>
    /\ \A x \in Masters \ {m} : /\ command'[x] = command[x] /\ calls'[x] = calls[x]
                                /\ performed'[x] = performed[x]
    /\ p \in Flit /\ p.src = m /\ p.dst \in Slaves /\ p.kind # "ACK" /\ p.session = <<m, n>>
    /\ Queues(m, p) /\ p.payload = calls'[m] /\ p.dst = Target(m)'

\* A request is sent: it is later than all there is of its master.
LEMMA AskedN ==
    ASSUME Types, Ordered, Parted, NEW m \in Masters, NEW n, NEW p, Asks(m, n, p),
           \/ \A f : OnItsWay(f) \/ Arrived(f) => f.session[1] # m
           \/ command'[m] = command[m] /\ calls'[m] = calls[m] /\ performed'[m] = performed[m]
    PROVE  Ordered' /\ Parted'
  <1>1. /\ n \in Nat /\ n \notin endTransm[m] /\ m \in Elements /\ p \in Flit
        /\ p.session = <<m, n>> /\ p.session[1] = m /\ p.session[2] = n /\ p.src = m
        /\ p.dst \in Slaves /\ p.dst \notin Masters /\ Counts(p)
    <2>1. n \in Nat /\ n \notin endTransm[m]
      BY DEF Asks, Types, CallTypes
    <2> QED BY <2>1, NocAssumption DEF Asks, Counts, Elements
  <1>2. ASSUME NEW S \in Opened, S[1] = m PROVE S[2] < n /\ S # p.session
    <2>1. S[2] \in Nat /\ S[2] <= last_session_id[m] /\ last_session_id[m] \in Nat
      BY <1>2 DEF Opened, Types, CallTypes
    <2> QED BY <1>1, <2>1 DEF Asks
  <1>3. ASSUME NEW f, OnItsWay(f) \/ Arrived(f) PROVE f \in Flit /\ f.session \in Opened
    BY <1>3, UnderWayType, ArrivedType
  <1>4. Ordered' /\ \A f : OnItsWay(f)' => OnItsWay(f) \/ f = p
    <2>1. ASSUME NEW f, OnItsWay(f), Together(p, f) PROVE f.session[2] < p.session[2]
      <3>1. f \in Flit /\ f.session \in Opened
        BY <1>3, <2>1
      <3>2. f.session[1] = m
        BY <1>1, <2>1, <3>1, FlitFields DEF Together
      <3> QED BY <1>1, <1>2, <3>1, <3>2
    <2> QED BY <1>1, <2>1, OrderedGrows DEF Asks
  <1>5. \A f : Arrived(f)' <=> Arrived(f)
    BY DEF Arrived, Asks
  <1>6. /\ \A x \in Masters \ {m} : /\ pc'[x] = pc[x] /\ endTransm'[x] = endTransm[x]
                                    /\ last_session_id'[x] = last_session_id[x]
        /\ pc'[m] = "waiting" /\ endTransm'[m] = endTransm[m] \cup {n}
    BY DEF Asks, Types, CallTypes
  <1>7. ASSUME NEW f, Belongs(f), f \in Flit,
               f.session[1] # m \/ (command'[m] = command[m] /\ calls'[m] = calls[m] /\ performed'[m] = performed[m])
        PROVE  Belongs(f)'
    <2>1. PICK x \in Masters : x = f.session[1]
      BY <1>7, FlitFields
    <2>2. /\ command'[x] = command[x] /\ calls'[x] = calls[x] /\ performed'[x] = performed[x]
          /\ (pc[x] # "idle" => pc'[x] # "idle") /\ endTransm[x] \subseteq endTransm'[x]
      BY <1>6, <1>7, <2>1 DEF Asks
    <2>3. Target(x)' = Target(x)
      BY <2>2 DEF Target
    <2> QED BY <1>7, <2>1, <2>2, <2>3 DEF Belongs
  <1>8. AllBelong'
    <2>1. Belongs(p)'
      BY <1>1, <1>6 DEF Belongs, Asks
    <2>2. ASSUME NEW f, OnItsWay(f) \/ Arrived(f) PROVE Belongs(f)'
      BY <1>3, <1>7, <2>2 DEF Parted, AllBelong
    <2> QED BY <1>4, <1>5, <2>1, <2>2 DEF AllBelong
  <1>9. AnswersAfter'
    <2>1. ASSUME NEW f \in Flit, f.dst \in Slaves, Unanswered(f) PROVE Unanswered(f)'
      <3>1. f.src # p.dst
        BY <1>1, <2>1, FlitFields, NocAssumption
      <3> QED BY <1>4, <2>1, <3>1 DEF Unanswered, Asks
    <2>2. Unanswered(p)'
      <3>1. p.session \notin DOMAIN openSessions[m]
        BY <1>1, <1>2 DEF Types, EndTypes
      <3>2. ASSUME NEW g, OnItsWay(g), g.dst = m PROVE g.session[2] < n
        <4>1. g \in Flit /\ g.session \in Opened /\ g.session[1] = m
          BY <1>3, <3>2, FlitFields
        <4> QED BY <1>2, <4>1
      <3>3. p.dst # m
        BY <1>1
      <3> QED BY <1>1, <1>4, <3>1, <3>2, <3>3 DEF Unanswered, Asks
    <2> QED BY <1>3, <1>4, <1>5, <2>1, <2>2 DEF Parted, AnswersAfter
  <1>10. ArrivedBefore'
    <2>1. ASSUME NEW q, Arrived(q), q.src = p.src PROVE q.session[2] < p.session[2]
      <3>1. q.session \in Opened /\ q.session[1] = m
        BY <1>1, <2>1, ArrivedType
      <3> QED BY <1>1, <1>2, <3>1
    <2> QED BY <1>4, <1>5, <2>1 DEF Parted, ArrivedBefore
  <1>11. SlavesOrdered'
    BY DEF Parted, SlavesOrdered, Asks
  <1>12. GotBefore'
    <2>1. p.session \notin DOMAIN openSessions[p.dst]
      BY <1>1, <1>2 DEF Types, EndTypes, Elements
    <2> QED BY <1>4, <2>1 DEF Parted, GotBefore, Asks
  <1>13. NothingLeft'
    <2>1. ASSUME NEW x \in Masters, Done(x)'
          PROVE  performed'[x] /\ \A f : (OnItsWay(f) \/ Arrived(f))' => f.session[1] # x
      <3>1. x # m
        BY <1>6, <2>1 DEF Done
      <3>2. Done(x) /\ performed'[x] = performed[x]
        BY <1>6, <2>1, <3>1 DEF Done, Asks
      <3> QED BY <1>1, <1>4, <1>5, <3>1, <3>2 DEF Parted, NothingLeft
    <2> QED BY <2>1 DEF NothingLeft
  <1> QED BY <1>4, <1>8, <1>9, <1>10, <1>11, <1>12, <1>13 DEF Parted

\* No address is that of two slaves, nor made relative to its slave that of another.
Separate ==
    \A s \in Slaves : \A a \in Base[s] .. Top[s] :
        SlaveAt(a) = {s} /\ SlaveAt(a - Base[s]) \subseteq {s}

\* The slave of a call.
LEMMA TargetOf ==
    ASSUME Types, NEW m \in Masters
    PROVE  /\ Target(m) \in Slaves /\ command[m].address \in Base[Target(m)] .. Top[Target(m)]
           /\ command[m].address \in Addresses /\ command[m] \in Commands[m]
           /\ command[m].address \in Int /\ Base[Target(m)] \in Int
  <1>1. command[m] \in Commands[m] /\ command[m].address \in Addresses
    BY NocAssumption DEF Types, CallTypes
  <1>2. SlaveAt(command[m].address) # {}
    BY <1>1 DEF Addresses, SlaveAt
  <1>3. Target(m) \in SlaveAt(command[m].address)
    BY <1>2 DEF Target
  <1> QED BY <1>1, <1>3, NocAssumption DEF SlaveAt

\* What a slave works on.
LEMMA ServingHas ==
    ASSUME Types, AllBelong, NEW s \in Slaves, serving[s] # Nobody, NEW p, p = serving[s].packet
    PROVE  /\ p \in Job(s) /\ p \in Flit /\ p.dst = s /\ p.src \in Masters /\ p.session[1] = p.src
           /\ Arrived(p) /\ Belongs(p) /\ s = Target(p.src)
  <1>1. p \in Job(s)
    <2>1. serving[s] \in [payload : Nat, packet : Job(s), addr_old : Int]
      BY DEF Types, EndTypes
    <2> QED BY <2>1
  <1>2. Arrived(p)
    BY DEF Arrived
  <1>3. Belongs(p)
    BY <1>2 DEF AllBelong
  <1>4. p \in Flit /\ p.dst = s /\ p.src \in Masters /\ p.session[1] = p.src
    BY <1>1, FlitFields DEF Job
  <1> QED BY <1>1, <1>2, <1>3, <1>4 DEF Belongs

\* What waits at a slave.
LEMMA WaitingHas ==
    ASSUME Types, AllBelong, NEW s \in Slaves, NEW j \in DOMAIN waiting[s], NEW p, p = waiting[s][j]
    PROVE  /\ p \in Flit /\ p.dst = s /\ p.src \in Masters /\ p.session[1] = p.src
           /\ Arrived(p) /\ Belongs(p) /\ s = Target(p.src)
  <1>1. p \in Job(s)
    <2>1. waiting[s] \in Seq(Job(s))
      BY DEF Types, EndTypes
    <2> QED BY <2>1, LenProperties, ElementOfSeq
  <1>2. Arrived(p)
    BY DEF Arrived
  <1>3. Belongs(p)
    BY <1>2 DEF AllBelong
  <1>4. p \in Flit /\ p.dst = s /\ p.src \in Masters /\ p.session[1] = p.src
    BY <1>1, FlitFields DEF Job
  <1> QED BY <1>2, <1>3, <1>4 DEF Belongs

\* A call begins.
LEMMA BeginN ==
    ASSUME Types, Ordered, Parted, Addressed, NEW m \in Masters, Begin(m)
    PROVE  Ordered' /\ Parted' /\ Addressed'
  <1>1. PICK n : n = last_session_id[m] + 1
    OBVIOUS
  <1>2. PICK c \in Commands[m] :
          /\ command' = [command EXCEPT ![m] = c]
          /\ address' = [address EXCEPT ![m] = c.address]
          /\ Queues(m, Request(m, calls[m] + 1, c, c.address, n))
    BY <1>1 DEF Begin, Current
  <1>3. /\ pc[m] = "idle"
        /\ calls' = [calls EXCEPT ![m] = @ + 1]
        /\ last_session_id' = [last_session_id EXCEPT ![m] = n]
        /\ endTransm' = [endTransm EXCEPT ![m] = @ \cup {n}]
        /\ pc' = [pc EXCEPT ![m] = "waiting"]
        /\ performed' = [performed EXCEPT ![m] = FALSE]
        /\ UNCHANGED <<timedOut, openSessions, serving, waiting, wire, buffer>>
    BY <1>1 DEF Begin, Opens, Current, network
  <1>4. n \in Nat \ {0} /\ calls[m] + 1 \in Nat \ {0}
    BY <1>1 DEF Types, CallTypes
  <1>5. SlaveAt(c.address) # {}
    <2>1. c.address \in Addresses
      BY NocAssumption
    <2> QED BY <2>1 DEF SlaveAt, Addresses
  <1>6. PICK p : p = Request(m, calls[m] + 1, c, c.address, n)
    OBVIOUS
  <1>7. /\ p \in Flit /\ p.src = m /\ p.dst \in Slaves /\ p.session = <<m, n>> /\ p.kind # "ACK"
        /\ p.dst = CHOOSE s \in SlaveAt(c.address) : TRUE
        /\ p.payload = calls[m] + 1
    BY <1>4, <1>5, <1>6, RequestType
  <1>8. command'[m] = c /\ address'[m] = c.address /\ calls'[m] = calls[m] + 1
        /\ \A x \in Masters \ {m} : /\ command'[x] = command[x] /\ calls'[x] = calls[x]
                                    /\ address'[x] = address[x]
    BY <1>2, <1>3 DEF Types, CallTypes
  <1>9. Target(m)' = p.dst
    BY <1>7, <1>8 DEF Target
  <1>10. Asks(m, n, p)
    BY <1>1, <1>2, <1>3, <1>6, <1>7, <1>8, <1>9 DEF Asks
  <1>11. ASSUME NEW f, OnItsWay(f) \/ Arrived(f), f.session[1] = m PROVE FALSE
    BY <1>3, <1>11 DEF Parted, AllBelong, Belongs
  <1>12. Addressed'
    <2>1. ASSUME NEW s \in Slaves, serving[s] # Nobody
          PROVE  serving[s].packet.src \in Masters \ {m}
      BY <1>11, <2>1, ServingHas DEF Parted
    <2> QED BY <1>3, <1>8, <2>1 DEF Addressed
  <1> QED BY <1>10, <1>11, <1>12, AskedN

\* A call begins again: its request goes to the same slave, whether the slave works on the
\* address or not.
LEMMA RetryN ==
    ASSUME Separate, Types, Ordered, Parted, Addressed, NEW m \in Masters, Retry(m)
    PROVE  Ordered' /\ Parted' /\ Addressed'
  <1>0. /\ pc[m] = "awake" /\ last_session_id[m] \in timedOut[m]
        /\ UNCHANGED <<timedOut, openSessions, serving, waiting, wire, buffer, address, performed, command>>
    BY DEF Retry, slaves, network, Current, calling
  <1>1. CASE SlaveAt(address[m]) # {}
    <2>1. PICK n : n = last_session_id[m] + 1
      OBVIOUS
    <2>2. /\ UNCHANGED <<calls, command>>
          /\ Queues(m, Request(m, calls[m], command[m], address[m], n))
          /\ last_session_id' = [last_session_id EXCEPT ![m] = n]
          /\ endTransm' = [endTransm EXCEPT ![m] = @ \cup {n}]
          /\ pc' = [pc EXCEPT ![m] = "waiting"]
      BY <1>1, <2>1 DEF Retry, Opens, Current
    <2>3. n \in Nat \ {0} /\ calls[m] \in Nat \ {0} /\ command[m] \in Commands[m]
      BY <1>0, <2>1 DEF Types, CallTypes
    <2>4. PICK p : p = Request(m, calls[m], command[m], address[m], n)
      OBVIOUS
    <2>5. /\ p \in Flit /\ p.src = m /\ p.dst \in Slaves /\ p.session = <<m, n>> /\ p.kind # "ACK"
          /\ p.dst \in SlaveAt(address[m])
          /\ p.payload = calls[m]
      BY <1>1, <2>3, <2>4, RequestType
    <2>6. p.dst = Target(m)
      <3>1. /\ Target(m) \in Slaves /\ command[m].address \in Base[Target(m)] .. Top[Target(m)]
        BY TargetOf
      <3>2. CASE address[m] = command[m].address
        <4>1. SlaveAt(command[m].address) = {Target(m)}
          BY <3>1 DEF Separate
        <4> QED BY <2>5, <3>2, <4>1
      <3>3. CASE \E s \in Slaves : serving[s] # Nobody /\ serving[s].packet.src = m
        <4>1. PICK s \in Slaves : serving[s] # Nobody /\ serving[s].packet.src = m
          BY <3>3
        <4>2. s = Target(m)
          BY <4>1, ServingHas DEF Parted
        <4>3. address[m] = command[m].address - Base[s]
          BY <4>1 DEF Addressed
        <4>4. SlaveAt(command[m].address - Base[s]) \subseteq {s}
          BY <3>1, <4>2 DEF Separate
        <4> QED BY <2>5, <4>2, <4>3, <4>4
      <3> QED BY <3>2, <3>3 DEF Addressed
    <2>7. Target(m)' = Target(m)
      BY <2>2 DEF Target
    <2>8. Asks(m, n, p)
      BY <1>0, <2>1, <2>2, <2>4, <2>5, <2>6, <2>7 DEF Asks
    <2>9. Addressed'
      BY <1>0 DEF Addressed
    <2> QED BY <1>0, <2>2, <2>8, <2>9, AskedN
  <1>2. CASE SlaveAt(address[m]) = {}
    <2>1. UNCHANGED <<pc, calls, command, last_session_id, packet_queue, endTransm>>
      BY <1>2 DEF Retry, calling
    <2>2. Ordered' /\ \A f : OnItsWay(f)' <=> OnItsWay(f)
      BY <1>0, <2>1, OrderedAlone
    <2>3. \A f : Arrived(f)' <=> Arrived(f)
      BY <1>0 DEF Arrived
    <2>4. Addressed'
      BY <1>0 DEF Addressed
    <2>5. \A f : Belongs(f)' <=> Belongs(f)
      BY <1>0, <2>1 DEF Belongs, Target
    <2>6. \A f : Unanswered(f)' <=> Unanswered(f)
      BY <1>0, <2>2 DEF Unanswered
    <2>7. Parted'
      BY <1>0, <2>1, <2>2, <2>3, <2>5, <2>6 DEF Parted, AllBelong, AnswersAfter, ArrivedBefore, SlavesOrdered, GotBefore, NothingLeft, Done
    <2> QED BY <2>2, <2>4, <2>7
  <1> QED BY <1>1, <1>2

\* A step of the timer, of a call that returns or of the governor: nothing that is there
\* changes, and of what a call has left only the call that returns knows less.
LEMMA AloneN ==
    ASSUME Types, Ordered, Parted, Addressed,
           UNCHANGED <<wire, buffer, packet_queue, openSessions, waiting, serving, command, calls,
                       last_session_id, address, performed>>,
           \A m \in Masters :
              \/ pc'[m] = pc[m] /\ endTransm'[m] = endTransm[m] /\ timedOut'[m] = timedOut[m]
              \/ ~Done(m)' /\ pc'[m] # "idle" /\ endTransm'[m] = endTransm[m]
              \/ ~Done(m)' /\ Done(m)
    PROVE  Ordered' /\ Parted' /\ Addressed'
  <1>1. Ordered' /\ \A f : OnItsWay(f)' <=> OnItsWay(f)
    BY OrderedAlone
  <1>2. \A f : Arrived(f)' <=> Arrived(f)
    BY DEF Arrived
  <1>3. Addressed'
    BY DEF Addressed
  <1>4. ASSUME NEW f, OnItsWay(f) \/ Arrived(f) PROVE Belongs(f)'
    <2>1. f \in Flit
      BY <1>4, UnderWayType, ArrivedType
    <2>2. PICK m \in Masters : m = f.session[1]
      BY <2>1, FlitFields
    <2>3. Belongs(f)
      BY <1>4 DEF Parted, AllBelong
    <2>4. ~Done(m)
      BY <1>4, <2>2 DEF Parted, NothingLeft
    <2>5. endTransm'[m] = endTransm[m] /\ (pc[m] # "idle" => pc'[m] # "idle")
      BY <2>4
    <2> QED BY <2>2, <2>3, <2>5 DEF Belongs, Target
  <1>5. \A f : Unanswered(f)' <=> Unanswered(f)
    BY <1>1 DEF Unanswered
  <1>6. \A m \in Masters : Done(m)' => Done(m)
    BY DEF Done
  <1>7. Parted'
    BY <1>1, <1>2, <1>4, <1>5, <1>6 DEF Parted, AllBelong, AnswersAfter, ArrivedBefore, SlavesOrdered, GotBefore, NothingLeft
  <1> QED BY <1>1, <1>3, <1>7

\* A session times out.
LEMMA TimeoutN ==
    ASSUME Types, Ordered, Parted, Addressed, NEW m \in Masters, Timeout(m)
    PROVE  Ordered' /\ Parted' /\ Addressed'
  <1>1. /\ pc[m] # "idle" /\ last_session_id[m] \in endTransm[m]
        /\ timedOut' = [timedOut EXCEPT ![m] = @ \cup {last_session_id[m]}]
        /\ pc' = [pc EXCEPT ![m] = "awake"]
        /\ UNCHANGED <<calls, command, address, last_session_id, endTransm, packet_queue, openSessions,
                       serving, waiting, wire, buffer, performed>>
    BY DEF Timeout, Current, slaves, network
  <1>2. /\ pc'[m] = "awake" /\ last_session_id[m] \in timedOut'[m]
        /\ \A x \in Masters \ {m} : pc'[x] = pc[x] /\ timedOut'[x] = timedOut[x]
    BY <1>1 DEF Types, CallTypes
  <1>3. ~Done(m)'
    BY <1>1, <1>2 DEF Done
  <1> QED BY <1>1, <1>2, <1>3, AloneN

\* A call returns, of which nothing is left.
LEMMA ReturnN ==
    ASSUME Types, Ordered, Parted, Addressed, NEW m \in Masters, Return(m)
    PROVE  Ordered' /\ Parted' /\ Addressed'
  <1>1. /\ pc[m] = "awake" /\ last_session_id[m] \notin timedOut[m]
        /\ endTransm' = [endTransm EXCEPT ![m] = @ \ {last_session_id[m]}]
        /\ pc' = [pc EXCEPT ![m] = "idle"]
        /\ UNCHANGED <<calls, command, address, last_session_id, timedOut, packet_queue, openSessions,
                       serving, waiting, wire, buffer, performed>>
    BY DEF Return, Current, slaves, network
  <1>2. pc'[m] = "idle" /\ \A x \in Masters \ {m} : pc'[x] = pc[x] /\ endTransm'[x] = endTransm[x]
    BY <1>1 DEF Types, CallTypes
  <1>3. ~Done(m)' /\ Done(m)
    BY <1>1, <1>2 DEF Done
  <1> QED BY <1>1, <1>2, <1>3, AloneN

\* A slave starts on the first packet that waits: its master's address is the one that was
\* asked for, as nobody else works for the master.
LEMMA StartN ==
    ASSUME Separate, Types, Ordered, Parted, Addressed, NEW s \in Slaves, Start(s)
    PROVE  Ordered' /\ Parted' /\ Addressed'
  <1>1. PICK p : p = Head(waiting[s])
    OBVIOUS
  <1>2. /\ serving[s] = Nobody /\ waiting[s] # <<>>
        /\ serving' = [serving EXCEPT ![s] = [payload |-> p.payload, packet |-> p, addr_old |-> address[p.src]]]
        /\ address' = [address EXCEPT ![p.src] =
               IF SlaveAt(address[p.src]) = {} THEN @ ELSE @ - Base[CHOOSE x \in SlaveAt(address[p.src]) : TRUE]]
        /\ waiting' = [waiting EXCEPT ![s] = Tail(@)]
        /\ UNCHANGED <<pc, calls, command, last_session_id, endTransm, timedOut, packet_queue,
                       openSessions, wire, buffer, performed>>
    BY <1>1 DEF Start, calling, sessions, network
  <1>3. PICK q : q = waiting[s]
    OBVIOUS
  <1>4. q \in Seq(Job(s)) /\ q # <<>> /\ DOMAIN waiting = Slaves /\ DOMAIN serving = Slaves
    BY <1>2, <1>3 DEF Types, EndTypes
  <1>5. /\ Len(q) \in Nat \ {0} /\ DOMAIN q = 1 .. Len(q) /\ DOMAIN Tail(q) = 1 .. Len(q) - 1
        /\ Head(q) = q[1] /\ \A i \in 1 .. Len(q) - 1 : Tail(q)[i] = q[i + 1]
    BY <1>4, TailHas
  <1>6. 1 \in DOMAIN q /\ p = q[1] /\ \A i \in DOMAIN Tail(q) : i \in Nat /\ i + 1 \in DOMAIN q /\ 1 < i + 1
    BY <1>1, <1>3, <1>5
  <1>7. /\ p \in Flit /\ p.dst = s /\ p.src \in Masters /\ p.session[1] = p.src
        /\ Arrived(p) /\ s = Target(p.src)
    BY <1>3, <1>6, WaitingHas DEF Parted
  <1>8. serving'[s] = [payload |-> p.payload, packet |-> p, addr_old |-> address[p.src]]
        /\ waiting'[s] = Tail(q)
        /\ \A x \in Slaves \ {s} : serving'[x] = serving[x] /\ waiting'[x] = waiting[x]
    BY <1>2, <1>3, <1>4
  <1>9. serving'[s] # Nobody /\ serving'[s].packet = p /\ serving'[s].addr_old = address[p.src]
    <2>1. serving'[s] # Nobody
      BY StartTypes
    <2> QED BY <1>8, <2>1
  <1>10. ASSUME NEW f, Arrived(f)' PROVE Arrived(f)
    <2>1. PICK x \in Slaves : \/ \E j \in DOMAIN waiting'[x] : f = waiting'[x][j]
                              \/ serving'[x] # Nobody /\ f = serving'[x].packet
      BY <1>10 DEF Arrived
    <2>2. CASE x # s
      BY <1>8, <2>1, <2>2 DEF Arrived
    <2>3. CASE x = s
      <3>1. CASE f = p
        BY <1>7, <3>1
      <3>2. CASE \E j \in DOMAIN Tail(q) : f = Tail(q)[j]
        <4>1. PICK j \in DOMAIN Tail(q) : f = Tail(q)[j]
          BY <3>2
        <4>2. j + 1 \in DOMAIN q /\ f = q[j + 1]
          BY <1>5, <1>6, <4>1
        <4> QED BY <1>3, <4>2 DEF Arrived
      <3> QED BY <1>8, <1>9, <2>1, <2>3, <3>1, <3>2
    <2> QED BY <2>2, <2>3
  <1>11. Ordered' /\ \A f : OnItsWay(f)' <=> OnItsWay(f)
    BY <1>2, OrderedAlone
  <1>12. \A f : (Belongs(f)' <=> Belongs(f)) /\ (Unanswered(f)' <=> Unanswered(f))
    BY <1>2, <1>11 DEF Belongs, Target, Unanswered
  <1>13. SlavesOrdered'
    <2>1. ASSUME NEW x \in Slaves
          PROVE  /\ \A i, j \in DOMAIN waiting'[x] : i < j /\ waiting'[x][i].src = waiting'[x][j].src
                       => waiting'[x][i].session[2] < waiting'[x][j].session[2]
                 /\ serving'[x] # Nobody => \A j \in DOMAIN waiting'[x] :
                       serving'[x].packet.src = waiting'[x][j].src
                          => serving'[x].packet.session[2] < waiting'[x][j].session[2]
      <3>1. CASE x # s
        BY <1>8, <3>1 DEF Parted, SlavesOrdered
      <3>2. CASE x = s
        <4>1. \A i, j \in DOMAIN q : i < j /\ q[i].src = q[j].src => q[i].session[2] < q[j].session[2]
          BY <1>3 DEF Parted, SlavesOrdered
        <4>2. ASSUME NEW i \in DOMAIN Tail(q), NEW j \in DOMAIN Tail(q), i < j, Tail(q)[i].src = Tail(q)[j].src
              PROVE  Tail(q)[i].session[2] < Tail(q)[j].session[2]
          <5>1. i + 1 < j + 1 /\ Tail(q)[i] = q[i + 1] /\ Tail(q)[j] = q[j + 1]
            BY <1>5, <1>6, <4>2
          <5> QED BY <1>6, <4>1, <4>2, <5>1
        <4>3. ASSUME NEW j \in DOMAIN Tail(q), p.src = Tail(q)[j].src
              PROVE  p.session[2] < Tail(q)[j].session[2]
          <5>1. Tail(q)[j] = q[j + 1]
            BY <1>5
          <5> QED BY <1>6, <4>1, <4>3, <5>1
        <4>4. PICK t : t = Tail(q)
          OBVIOUS
        <4>5. waiting'[x] = t /\ serving'[x].packet = p
          BY <1>8, <1>9, <3>2, <4>4
        <4>6. /\ \A i, j \in DOMAIN t : i < j /\ t[i].src = t[j].src => t[i].session[2] < t[j].session[2]
              /\ \A j \in DOMAIN t : p.src = t[j].src => p.session[2] < t[j].session[2]
          BY ONLY <4>2, <4>3, <4>4
        <4> QED BY ONLY <4>5, <4>6
      <3> QED BY <3>1, <3>2
    <2> QED BY <2>1 DEF SlavesOrdered
  <1>14. Parted'
    <2>1. AllBelong'
      BY <1>10, <1>11, <1>12 DEF Parted, AllBelong
    <2>2. AnswersAfter'
      BY <1>10, <1>11, <1>12 DEF Parted, AnswersAfter
    <2>3. ArrivedBefore'
      BY <1>10, <1>11 DEF Parted, ArrivedBefore
    <2>4. GotBefore'
      BY <1>2, <1>11 DEF Parted, GotBefore
    <2>5. \A m \in Masters : Done(m)' <=> Done(m)
      BY <1>2 DEF Done
    <2>6. NothingLeft'
      BY <1>2, <1>10, <1>11, <2>5 DEF Parted, NothingLeft
    <2> QED BY <1>13, <2>1, <2>2, <2>3, <2>4, <2>6 DEF Parted
  <1>15. PICK m \in Masters : m = p.src
    BY <1>7
  <1>16. ASSUME NEW x \in Slaves, serving[x] # Nobody PROVE serving[x].packet.src # m
    BY <1>2, <1>7, <1>15, <1>16, ServingHas DEF Parted
  <1>17. address[m] = command[m].address
    BY <1>16 DEF Addressed
  <1>18. address'[m] = command[m].address - Base[s] /\ \A x \in Masters \ {m} : address'[x] = address[x]
    <2>1. command[m].address \in Base[s] .. Top[s]
      BY <1>7, <1>15, TargetOf
    <2>2. SlaveAt(command[m].address) = {s}
      BY <2>1 DEF Separate
    <2>3. (CHOOSE x \in {s} : TRUE) = s
      OBVIOUS
    <2>4. address \in [Masters -> Int]
      BY DEF Types, CallTypes
    <2> QED BY <1>2, <1>15, <1>17, <2>2, <2>3, <2>4
  <1>19. Addressed'
    <2>1. ASSUME NEW x \in Masters
          PROVE  \/ address'[x] = command[x].address
                 \/ \E y \in Slaves : serving'[y] # Nobody /\ serving'[y].packet.src = x
      <3>1. CASE x = m
        BY <1>9, <1>15, <3>1
      <3>2. CASE x # m
        <4>1. CASE address[x] = command[x].address
          BY <1>18, <3>2, <4>1
        <4>2. CASE \E y \in Slaves : serving[y] # Nobody /\ serving[y].packet.src = x
          <5>1. PICK y \in Slaves : serving[y] # Nobody /\ serving[y].packet.src = x
            BY <4>2
          <5>2. y # s
            BY <1>2, <5>1
          <5> QED BY <1>8, <5>1, <5>2
        <4> QED BY <4>1, <4>2 DEF Addressed
      <3> QED BY <3>1, <3>2
    <2>2. ASSUME NEW y \in Slaves, serving'[y] # Nobody
          PROVE  /\ address'[serving'[y].packet.src] = command[serving'[y].packet.src].address - Base[y]
                 /\ serving'[y].addr_old = command[serving'[y].packet.src].address
      <3>1. CASE y = s
        BY <1>9, <1>15, <1>17, <1>18, <3>1
      <3>2. CASE y # s
        <4>1. serving'[y] = serving[y] /\ serving[y] # Nobody
          BY <1>8, <2>2, <3>2
        <4>2. serving[y].packet.src \in Masters \ {m}
          BY <1>16, <4>1, ServingHas DEF Parted
        <4> QED BY <1>18, <4>1, <4>2 DEF Addressed
      <3> QED BY <3>1, <3>2
    <2>3. UNCHANGED command
      BY <1>2
    <2> QED BY ONLY <2>1, <2>2, <2>3 DEF Addressed
  <1> QED BY <1>11, <1>14, <1>19

\* The memories, what the masters read, and which calls have been performed.
Stores ==
    /\ mem \in [Addresses -> Masters] /\ data \in [Masters -> Masters]
    /\ performed \in [Masters -> BOOLEAN]

\* A slave is done with a packet: the address is as it was, and the answer is before all
\* the requests that are still to be answered.
LEMMA ServedN ==
    ASSUME Types, Stores, Ordered, Parted, Addressed, NEW s \in Slaves, Served(s)
    PROVE  Ordered' /\ Parted' /\ Addressed'
  <1>1. PICK p : p = serving[s].packet
    OBVIOUS
  <1>2. /\ p \in Job(s) /\ p \in Flit /\ p.dst = s /\ p.src \in Masters /\ p.session[1] = p.src
        /\ Arrived(p) /\ Belongs(p) /\ s = Target(p.src) /\ serving[s] # Nobody
    BY <1>1, ServingHas DEF Served, Parted
  <1>3. PICK m \in Masters : m = p.src
    BY <1>2
  <1>4. PICK r : r = Answer(s, p)
    OBVIOUS
  <1>5. /\ performed' = [performed EXCEPT ![m] = TRUE]
        /\ address' = [address EXCEPT ![m] = serving[s].addr_old]
        /\ Queues(s, r)
        /\ serving' = [serving EXCEPT ![s] = Nobody]
        /\ UNCHANGED <<pc, calls, command, last_session_id, endTransm, timedOut,
                       openSessions, waiting, wire, buffer>>
    BY <1>1, <1>3, <1>4 DEF Served, calling, sessions, network
  <1>6. /\ r \in Flit /\ r.src = s /\ r.dst = m /\ r.session = p.session /\ r.payload = 0
        /\ r.dst \notin Slaves /\ Counts(r) /\ r.session[1] = m
    BY <1>2, <1>3, <1>4, AnswerType, NocAssumption DEF Types, Counts
  <1>7. /\ performed'[m] = TRUE /\ \A x \in Masters \ {m} : performed'[x] = performed[x]
        /\ address'[m] = serving[s].addr_old /\ \A x \in Masters \ {m} : address'[x] = address[x]
        /\ serving'[s] = Nobody /\ \A x \in Slaves \ {s} : serving'[x] = serving[x]
    BY <1>5 DEF Stores, Types, CallTypes, EndTypes
  <1>8. Unanswered(p)
    BY <1>2 DEF Parted, AnswersAfter
  <1>9. Ordered' /\ \A f : OnItsWay(f)' => OnItsWay(f) \/ f = r
    <2>1. ASSUME NEW f, OnItsWay(f), Together(r, f) PROVE f.session[2] < r.session[2]
      BY <1>3, <1>6, <1>8, <2>1 DEF Unanswered, Together
    <2>2. s \in Elements
      BY DEF Elements
    <2> QED BY <1>5, <1>6, <2>1, <2>2, OrderedGrows
  <1>10. ASSUME NEW f, Arrived(f)'
         PROVE  Arrived(f) /\ (f.src = m => p.session[2] < f.session[2])
    <2>1. PICK x \in Slaves : \/ \E j \in DOMAIN waiting[x] : f = waiting[x][j]
                              \/ serving'[x] # Nobody /\ f = serving'[x].packet
      BY <1>5, <1>10 DEF Arrived
    <2>2. CASE \E j \in DOMAIN waiting[x] : f = waiting[x][j]
      <3>1. PICK j \in DOMAIN waiting[x] : f = waiting[x][j]
        BY <2>2
      <3>2. Arrived(f) /\ x = Target(f.src)
        BY <3>1, WaitingHas DEF Parted
      <3>3. f.src = m => p.session[2] < f.session[2]
        BY <1>1, <1>2, <1>3, <3>1, <3>2 DEF Parted, SlavesOrdered
      <3> QED BY <3>2, <3>3
    <2>3. CASE serving'[x] # Nobody /\ f = serving'[x].packet
      <3>1. x # s
        BY <1>7, <2>3
      <3>2. serving[x] # Nobody /\ f = serving[x].packet
        BY <1>7, <2>3, <3>1
      <3>3. Arrived(f) /\ x = Target(f.src)
        BY <3>2, ServingHas DEF Parted
      <3> QED BY <1>2, <1>3, <3>1, <3>3
    <2> QED BY <2>1, <2>2, <2>3
  <1>11. ASSUME NEW f \in Flit, Belongs(f) PROVE Belongs(f)'
    <2>1. f.session[1] \in Masters /\ performed[f.session[1]] => performed'[f.session[1]]
      BY <1>7
    <2>2. f.session[1] \in Masters
      BY FlitFields
    <2> QED BY <1>5, <1>11, <2>1, <2>2 DEF Belongs, Target
  <1>12. AllBelong'
    <2>1. Belongs(r)'
      <3>1. pc[m] # "idle" /\ p.session[2] \in endTransm[m] /\ s = Target(m)
        BY <1>2, <1>3 DEF Belongs
      <3>2. pc'[m] # "idle" /\ r.session[2] \in endTransm'[m] /\ s = Target(m)'
        BY <1>5, <1>6, <3>1 DEF Target
      <3> QED BY <1>6, <1>7, <3>2 DEF Belongs
    <2>2. ASSUME NEW f, OnItsWay(f) \/ Arrived(f) PROVE Belongs(f)'
      BY <1>11, <2>2, UnderWayType, ArrivedType DEF Parted, AllBelong
    <2> QED BY <1>9, <1>10, <2>1, <2>2 DEF AllBelong
  <1>13. AnswersAfter'
    <2>1. ASSUME NEW f, (OnItsWay(f) \/ Arrived(f))', f.dst \in Slaves
          PROVE  Unanswered(f) /\ (f.src = m => p.session[2] < f.session[2])
      <3>1. CASE OnItsWay(f)'
        <4>1. OnItsWay(f)
          BY <1>6, <1>9, <2>1, <3>1
        <4> QED BY <1>2, <1>3, <2>1, <4>1 DEF Parted, AnswersAfter, ArrivedBefore
      <3>2. CASE Arrived(f)'
        BY <1>10, <2>1, <3>2 DEF Parted, AnswersAfter
      <3> QED BY <2>1, <3>1, <3>2
    <2>2. ASSUME NEW f, (OnItsWay(f) \/ Arrived(f))', f.dst \in Slaves
          PROVE  Unanswered(f)'
      <3>1. f.session \notin DOMAIN openSessions'[f.src]
        BY <1>5, <2>1, <2>2 DEF Unanswered
      <3>2. ASSUME NEW g, OnItsWay(g)', g.dst = f.src PROVE g.session[2] < f.session[2]
        BY <1>6, <1>9, <2>1, <2>2, <3>2 DEF Unanswered
      <3> QED BY <3>1, <3>2 DEF Unanswered
    <2> QED BY <2>2 DEF AnswersAfter
  <1>14. ArrivedBefore'
    BY <1>6, <1>9, <1>10 DEF Parted, ArrivedBefore
  <1>15. SlavesOrdered'
    <2>1. ASSUME NEW x \in Slaves, serving'[x] # Nobody PROVE serving'[x] = serving[x]
      BY <1>7, <2>1
    <2> QED BY <1>5, <2>1 DEF Parted, SlavesOrdered
  <1>16. GotBefore'
    <2>1. r.session \notin DOMAIN openSessions[r.dst]
      BY <1>3, <1>6, <1>8 DEF Unanswered
    <2> QED BY <1>5, <1>9, <2>1 DEF Parted, GotBefore
  <1>17. NothingLeft'
    <2>1. ASSUME NEW x \in Masters, Done(x)'
          PROVE  performed'[x] /\ \A f : (OnItsWay(f) \/ Arrived(f))' => f.session[1] # x
      <3>1. Done(x)
        BY <1>5, <2>1 DEF Done
      <3>2. x # m
        BY <1>2, <1>3, <3>1 DEF Parted, NothingLeft
      <3> QED BY <1>6, <1>7, <1>9, <1>10, <3>1, <3>2 DEF Parted, NothingLeft
    <2> QED BY <2>1 DEF NothingLeft
  <1>18. Addressed'
    <2>1. serving[s].addr_old = command[m].address
      BY <1>1, <1>2, <1>3 DEF Addressed
    <2>2. ASSUME NEW x \in Masters
          PROVE  \/ address'[x] = command[x].address
                 \/ \E y \in Slaves : serving'[y] # Nobody /\ serving'[y].packet.src = x
      <3>1. CASE x = m
        BY <1>7, <2>1, <3>1
      <3>2. CASE x # m
        <4>1. CASE address[x] = command[x].address
          BY <1>7, <3>2, <4>1
        <4>2. CASE \E y \in Slaves : serving[y] # Nobody /\ serving[y].packet.src = x
          <5>1. PICK y \in Slaves : serving[y] # Nobody /\ serving[y].packet.src = x
            BY <4>2
          <5>2. y # s
            BY <1>1, <1>3, <3>2, <5>1
          <5> QED BY <1>7, <5>1, <5>2
        <4> QED BY <4>1, <4>2 DEF Addressed
      <3> QED BY <3>1, <3>2
    <2>3. ASSUME NEW y \in Slaves, serving'[y] # Nobody
          PROVE  /\ address'[serving'[y].packet.src] = command[serving'[y].packet.src].address - Base[y]
                 /\ serving'[y].addr_old = command[serving'[y].packet.src].address
      <3>1. y # s /\ serving'[y] = serving[y] /\ serving[y] # Nobody
        BY <1>7, <2>3
      <3>2. PICK x : x = serving[y].packet.src
        OBVIOUS
      <3>3. x \in Masters \ {m}
        BY <1>2, <1>3, <3>1, <3>2, ServingHas DEF Parted
      <3>4. address'[x] = address[x]
        BY <1>7, <3>3
      <3>5. address[x] = command[x].address - Base[y] /\ serving[y].addr_old = command[x].address
        BY <3>1, <3>2 DEF Addressed
      <3> QED BY <3>1, <3>2, <3>4, <3>5
    <2> QED BY <1>5, <2>2, <2>3 DEF Addressed
  <1>19. Parted'
    BY <1>12, <1>13, <1>14, <1>15, <1>16, <1>17 DEF Parted
  <1> QED BY <1>9, <1>18, <1>19

-----------------------------------------------------------------------------
(* Every step *)

\* The cell a slave works on is the one the call asks for.
LEMMA CellAsked ==
    ASSUME Types, Parted, Addressed, NEW s \in Slaves, serving[s] # Nobody,
           NEW m, m = serving[s].packet.src
    PROVE  /\ m \in Masters /\ command[m].address \in Addresses
           /\ Base[s] + address[m] = command[m].address
           /\ pc[m] # "idle" /\ s = Target(m)
  <1>1. m \in Masters /\ s = Target(m) /\ pc[m] # "idle"
    BY ServingHas DEF Parted, Belongs
  <1>2. /\ command[m].address \in Addresses /\ command[m].address \in Int /\ Base[s] \in Int
    BY <1>1, TargetOf
  <1>3. address[m] = command[m].address - Base[s]
    BY DEF Addressed
  <1>4. Base[s] + address[m] = command[m].address
    BY ONLY <1>2, <1>3
  <1> QED BY <1>1, <1>2, <1>4

\* The memories are kept by every step.
LEMMA StoresStep ==
    ASSUME Types, Stores, Parted, Addressed, [Next]_vars
    PROVE  Stores'
  <1>1. CASE UNCHANGED <<mem, data, performed>>
    BY <1>1 DEF Stores
  <1>2. ASSUME NEW m \in Masters, Begin(m) PROVE Stores'
    BY <1>2 DEF Begin, Stores
  <1>3. ASSUME NEW s \in Slaves, Served(s) PROVE Stores'
    <2>1. PICK m : m = serving[s].packet.src
      OBVIOUS
    <2>2. PICK cell : cell = Base[s] + address[m]
      OBVIOUS
    <2>3. m \in Masters /\ cell \in Addresses
      BY <1>3, <2>1, <2>2, CellAsked DEF Served
    <2>4. /\ \/ data' = [data EXCEPT ![m] = mem[cell]] /\ mem' = mem
             \/ mem' = [mem EXCEPT ![cell] = m] /\ data' = data
          /\ performed' = [performed EXCEPT ![m] = TRUE]
      BY <1>3, <2>1, <2>2 DEF Served
    <2> QED BY <2>3, <2>4 DEF Stores
  <1>4. ASSUME NEW m \in Masters, Timeout(m) \/ Retry(m) \/ Return(m)
        PROVE  UNCHANGED <<mem, data, performed>>
    BY <1>4 DEF Timeout, Retry, Return, slaves
  <1>5. ASSUME NEW s \in Slaves, Start(s) PROVE UNCHANGED <<mem, data, performed>>
    BY <1>5 DEF Start
  <1>6. CASE Tick
    BY <1>1, <1>6 DEF Tick, slaves
  <1>7. ASSUME NEW w \in Switches, Govern(w) PROVE UNCHANGED <<mem, data, performed>>
    BY <1>7 DEF Govern, slaves
  <1>8. CASE UNCHANGED vars
    BY <1>1, <1>8 DEF vars, slaves
  <1> QED BY <1>1, <1>2, <1>3, <1>4, <1>5, <1>6, <1>7, <1>8 DEF Next

\* The order and what belongs together are kept by every step.
LEMMA NStep ==
    ASSUME Separate, Types, Stores, NInv, [Next]_vars
    PROVE  NInv'
  <1>0. Ordered /\ Parted /\ Addressed
    BY DEF NInv, Parted
  <1>1. ASSUME Ordered' /\ Parted' /\ Addressed' PROVE NInv'
    BY <1>1 DEF NInv, Parted
  <1>2. ASSUME NEW m \in Masters, Begin(m) \/ Timeout(m) \/ Retry(m) \/ Return(m) PROVE NInv'
    BY <1>0, <1>1, <1>2, BeginN, TimeoutN, RetryN, ReturnN
  <1>3. ASSUME NEW s \in Slaves, Start(s) \/ Served(s) PROVE NInv'
    BY <1>0, <1>1, <1>3, StartN, ServedN
  <1>4. CASE Tick
    BY <1>4, NTick
  <1>5. ASSUME NEW w \in Switches, Govern(w) PROVE NInv'
    <2>1. UNCHANGED <<wire, buffer, packet_queue, openSessions, waiting, serving, command, calls,
                      last_session_id, address, performed, pc, endTransm, timedOut>>
      BY <1>5 DEF Govern, calling, sessions, slaves
    <2> QED BY <1>0, <1>1, <2>1, AloneN
  <1>6. CASE UNCHANGED vars
    <2>1. UNCHANGED <<wire, buffer, packet_queue, openSessions, waiting, serving, command, calls,
                      last_session_id, address, performed, pc, endTransm, timedOut>>
      BY <1>6 DEF vars, calling, sessions, slaves, network
    <2> QED BY <1>0, <1>1, <2>1, AloneN
  <1> QED BY <1>2, <1>3, <1>4, <1>5, <1>6 DEF Next

\* At first nothing is under way.
LEMMA NInit ==
    ASSUME Init
    PROVE  Stores /\ NInv
  <1>1. /\ \A m \in Masters : pc[m] = "idle" /\ address[m] = command[m].address
        /\ \A l \in Links : wire[l] = Silence
        /\ \A l \in Buffered : buffer[l] = <<>>
        /\ \A e \in Elements : packet_queue[e] = <<>>
        /\ \A s \in Slaves : waiting[s] = <<>> /\ serving[s] = Nobody
    BY DEF Init
  <1>2. DOMAIN (<<>>) = {}
    OBVIOUS
  <1>3. \A l \in Links : DOMAIN Line(l) = {}
    BY <1>1, <1>2 DEF Line
  <1>4. \A e \in Elements : DOMAIN packet_queue[e] = {}
    BY <1>1, <1>2
  <1>5. \A f : ~OnItsWay(f)
    BY <1>3, <1>4 DEF OnItsWay, OnLine, InQueue
  <1>6. \A f : ~Arrived(f)
    BY <1>1, <1>2 DEF Arrived
  <1>7. Ordered
    BY <1>3, <1>4 DEF Ordered, OnWay, LinesOrdered, QueuesBehind, QueuesOrdered
  <1>8. SlavesOrdered
    BY <1>1, <1>2 DEF SlavesOrdered
  <1>9. NothingLeft
    BY <1>1 DEF NothingLeft, Done
  <1>10. Addressed
    BY <1>1 DEF Addressed
  <1>11. Stores
    <2>1. PICK m \in Masters : TRUE
      BY NocAssumption
    <2>2. (CHOOSE x \in Masters : TRUE) \in Masters
      BY <2>1
    <2> QED BY <2>2 DEF Init, Stores
  <1> QED
    BY <1>5, <1>6, <1>7, <1>8, <1>9, <1>10, <1>11
    DEF NInv, AllBelong, AnswersAfter, ArrivedBefore, GotBefore

-----------------------------------------------------------------------------
(* Nothing outlives what it points to *)

\* A flit of Flits is on a line or in a queue,
LEMMA FlitsUnderWay ==
    ASSUME Types, NEW f \in Flits
    PROVE  f \in Flit /\ (OnLine(f) \/ InQueue(f))
  <1>1. CASE f \in UNION { ToSet(packet_queue[e]) : e \in Elements }
    <2>1. PICK e \in Elements : \E j \in DOMAIN packet_queue[e] : f = packet_queue[e][j]
      BY <1>1 DEF ToSet
    <2>2. packet_queue[e] \in Seq(Flit)
      BY DEF Types, FlitTypes
    <2> QED BY <2>1, <2>2, LenProperties, ElementOfSeq DEF InQueue
  <1>2. CASE f \in UNION { ToSet(buffer[l]) : l \in Buffered }
    <2>1. PICK l \in Buffered : \E j \in DOMAIN buffer[l] : f = buffer[l][j]
      BY <1>2 DEF ToSet
    <2>2. PICK j \in DOMAIN buffer[l] : f = buffer[l][j]
      BY <2>1
    <2>3. l \in Links
      BY DEF Links
    <2>4. j \in 1 .. Len(buffer[l]) /\ Len(buffer[l]) \in Nat
      BY <2>2, <2>3, LineHas, LenProperties
    <2>5. j \in DOMAIN Line(l) /\ Line(l)[j] = f /\ f \in Flit
      BY <2>2, <2>3, <2>4, LineHas
    <2> QED BY <2>3, <2>5 DEF OnLine
  <1>3. CASE f \in { wire[l] : l \in Links } \ {Silence}
    <2>1. PICK l \in Links : f = wire[l] /\ wire[l] # Silence
      BY <1>3
    <2>2. Len(Line(l)) \in DOMAIN Line(l) /\ Line(l)[Len(Line(l))] = f /\ f \in Flit
      BY <2>1, LineHas
    <2> QED BY <2>1, <2>2 DEF OnLine
  <1> QED BY <1>1, <1>2, <1>3 DEF Flits

\* and a packet of AtSlaves has arrived.
LEMMA AtSlavesArrived ==
    ASSUME NEW p \in AtSlaves
    PROVE  Arrived(p)
  <1>1. CASE p \in UNION { ToSet(waiting[s]) : s \in Slaves }
    BY <1>1 DEF ToSet, Arrived
  <1>2. CASE p \in { serving[s].packet : s \in { x \in Slaves : serving[x] # Nobody } }
    BY <1>2 DEF Arrived
  <1> QED BY <1>1, <1>2 DEF AtSlaves

\* What comes to a master at a clock edge is of a session that has an event.
LEMMA NoUnknown ==
    ASSUME Types, AllBelong, NEW m \in Masters
    PROVE  ~Unknown(m, Into(m))
  <1> SUFFICES ASSUME Unknown(m, Into(m)) PROVE FALSE
    OBVIOUS
  <1>1. PICK f : f = Into(m)
    OBVIOUS
  <1>2. m \in Elements /\ Edge[m].to \in Links
    BY DEF Elements, Links
  <1>3. f # Silence
    <2>1. f.kind # "none"
      BY <1>1 DEF Unknown, Notified, Accepted, Arrives
    <2> QED BY <2>1 DEF Silence
  <1>4. f \in Flits
    BY <1>1, <1>2, <1>3 DEF Into, Flits
  <1>5. f \in Flit /\ (OnLine(f) \/ InQueue(f))
    BY <1>4, FlitsUnderWay
  <1>6. f.dst = m
    BY <1>1, <1>2, <1>3 DEF Into, Types, FlitTypes
  <1>7. f.session[1] = m
    BY <1>5, <1>6, FlitFields
  <1>8. Belongs(f)
    BY <1>5, <1>6 DEF AllBelong, OnItsWay, Counts
  <1> QED BY <1>1, <1>7, <1>8 DEF Belongs, Unknown

\* No step throws because of an answer to a session without an event.
LEMMA KnownStep ==
    ASSUME Types, AllBelong, error # "unknown session", [Next]_vars
    PROVE  error' # "unknown session"
  <1>1. CASE UNCHANGED error
    BY <1>1
  <1>2. ASSUME NEW m \in Masters, Begin(m) \/ Timeout(m) \/ Return(m) PROVE UNCHANGED error
    BY <1>2 DEF Begin, Timeout, Return
  <1>3. ASSUME NEW m \in Masters, Retry(m) PROVE error' # "unknown session"
    BY <1>3 DEF Retry
  <1>4. ASSUME NEW s \in Slaves, Start(s) \/ Served(s) PROVE UNCHANGED error
    BY <1>4 DEF Start, Served
  <1>5. CASE Tick
    <2>1. error' = IF \E m \in Masters : Unknown(m, Into(m)) THEN "unknown session" ELSE "none"
      BY <1>5 DEF Tick
    <2> QED BY <2>1, NoUnknown
  <1>6. ASSUME NEW w \in Switches, Govern(w) PROVE UNCHANGED error
    BY <1>6 DEF Govern
  <1>7. CASE UNCHANGED vars
    BY <1>7 DEF vars
  <1> QED BY <1>1, <1>2, <1>3, <1>4, <1>5, <1>6, <1>7 DEF Next

\* What is under way belongs to a call, so that it outlives none.
LEMMA NothingOutlivesHolds ==
    ASSUME Types, NInv, error # "unknown session"
    PROVE  NothingOutlives
  <1>0. AllBelong
    BY DEF NInv
  <1>1. ASSUME NEW p \in Flits \cup AtSlaves, p.payload # 0
        PROVE  p.payload = calls[p.src] /\ pc[p.src] # "idle"
    <2>1. p \in Flit /\ (OnItsWay(p) \/ Arrived(p)) /\ p.dst \in Slaves
      <3>1. CASE p \in AtSlaves
        BY <3>1, AtSlavesArrived, ArrivedType
      <3>2. CASE p \in Flits
        <4>1. p \in Flit /\ (OnLine(p) \/ InQueue(p))
          BY <3>2, FlitsUnderWay
        <4>2. p.dst \in Slaves /\ p.kind # "ACK"
          BY <1>1, <4>1, FlitFields DEF Elements
        <4> QED BY <4>1, <4>2 DEF OnItsWay, Counts
      <3> QED BY <3>1, <3>2
    <2>2. p.session[1] = p.src
      BY <2>1, FlitFields
    <2> QED BY <1>0, <2>1, <2>2 DEF AllBelong, Belongs
  <1>2. ASSUME NEW p \in Flits, p.dst \in Masters PROVE p.session[2] \in endTransm[p.dst]
    <2>1. p \in Flit /\ OnItsWay(p)
      BY <1>2, FlitsUnderWay DEF OnItsWay, Counts
    <2>2. p.session[1] = p.dst
      BY <1>2, <2>1, FlitFields
    <2> QED BY <1>0, <2>1, <2>2 DEF AllBelong, Belongs
  <1> QED BY <1>1, <1>2 DEF NothingOutlives

\* What all three theorems rest on.
NocInv == Types /\ Stores /\ NInv /\ error # "unknown session"

\* It holds at first,
LEMMA NocInit == Init => NocInv
  <1>1. Init => error # "unknown session"
    BY DEF Init
  <1> QED BY <1>1, TypesInit, NInit DEF NocInv

\* and after every step.
LEMMA NocStep ==
    ASSUME Separate, NocInv, [Next]_vars
    PROVE  NocInv'
  <1>1. Types'
    BY TypesStep DEF NocInv
  <1>2. Stores' /\ NInv'
    BY NStep, StoresStep DEF NocInv, NInv, Parted
  <1>3. error' # "unknown session"
    BY KnownStep DEF NocInv, NInv
  <1> QED BY <1>1, <1>2, <1>3 DEF NocInv

\* A request in the network or in a slave carries a pointer to the argument of a call of
\* masterPE::b_transport that has not returned, and no answer reaches rxProcess for a
\* session that has no event: retries, drops and answers that come late included.
THEOREM PayloadsAlive ==
    ASSUME Separate
    PROVE  Spec => []NothingOutlives
  <1>1. Separate /\ NocInv /\ [Next]_vars => NocInv'
    BY NocStep
  <1>2. NocInv => NothingOutlives
    BY NothingOutlivesHolds DEF NocInv
  <1> QED BY <1>1, <1>2, NocInit, PTL DEF Spec

\* b_t2 restores the address, so that the memory behind a slave is given the address the
\* master was asked for, in a retry as in the first session.
THEOREM AddressesRestored ==
    ASSUME Separate
    PROVE  Spec => []RightAddress
  <1>1. Separate /\ NocInv /\ [Next]_vars => NocInv'
    BY NocStep
  <1>2. NocInv => RightAddress
    BY CellAsked DEF NocInv, NInv, Parted, RightAddress
  <1> QED BY <1>1, <1>2, NocInit, PTL DEF Spec

-----------------------------------------------------------------------------
(* The calls of b_transport implement those of a memory *)

\* How far each call is, and what it asks for, as RemoteMemory has it.
Phase == [m \in Masters |-> IF pc[m] = "idle" THEN "idle"
                            ELSE IF performed[m] THEN "performed" ELSE "called"]
Asked == [m \in Masters |-> [op |-> command[m].op, address |-> command[m].address]]

\* A step that changes neither the memories nor how far a call is.
Stutters == UNCHANGED <<mem, data, Phase, Asked>>

\* Such a step is none of the memory.
LEMMA StutterMaps ==
    ASSUME Stutters
    PROVE  [Remote!Next]_(Remote!vars)
  BY DEF Stutters, Phase, Asked, Remote!vars

\* A call that begins is invoked.
LEMMA InvokeMaps ==
    ASSUME NocInv, NEW m \in Masters, Begin(m)
    PROVE  [Remote!Next]_(Remote!vars)
  <1>1. PICK c \in Commands[m] : command' = [command EXCEPT ![m] = c]
    BY DEF Begin
  <1>2. PICK a : a = [op |-> c.op, address |-> c.address]
    OBVIOUS
  <1>3. a \in Remote!Accesses
    BY <1>2, NocAssumption DEF Remote!Accesses
  <1>4. /\ pc[m] = "idle" /\ pc' = [pc EXCEPT ![m] = "waiting"]
        /\ performed' = [performed EXCEPT ![m] = FALSE]
        /\ UNCHANGED <<mem, data>>
    BY DEF Begin
  <1>5. DOMAIN pc = Masters /\ DOMAIN performed = Masters /\ DOMAIN command = Masters
    BY DEF NocInv, Types, CallTypes, Stores
  <1>6. Asked' = [Asked EXCEPT ![m] = a]
    BY <1>1, <1>2, <1>5 DEF Asked
  <1>7. Phase[m] = "idle" /\ Phase' = [Phase EXCEPT ![m] = "called"]
    BY <1>4, <1>5 DEF Phase
  <1>8. Remote!Invoke(m)
    BY <1>3, <1>4, <1>6, <1>7 DEF Remote!Invoke, Phase, Asked
  <1> QED BY <1>8 DEF Remote!Next

\* The memory is accessed when a slave is done with a packet.
LEMMA PerformMaps ==
    ASSUME NocInv, NEW s \in Slaves, Served(s)
    PROVE  [Remote!Next]_(Remote!vars)
  <1>1. PICK m : m = serving[s].packet.src
    OBVIOUS
  <1>2. /\ m \in Masters /\ Base[s] + address[m] = command[m].address /\ pc[m] # "idle"
    BY <1>1, CellAsked DEF NocInv, NInv, Parted, Served
  <1>3. /\ IF command[m].op = "read"
           THEN data' = [data EXCEPT ![m] = mem[command[m].address]] /\ UNCHANGED mem
           ELSE mem' = [mem EXCEPT ![command[m].address] = m] /\ UNCHANGED data
        /\ performed' = [performed EXCEPT ![m] = TRUE]
        /\ UNCHANGED <<pc, command>>
    BY <1>1, <1>2 DEF Served, calling
  <1>4. DOMAIN performed = Masters
    BY DEF NocInv, Stores
  <1>5. Phase[m] # "idle" /\ Phase' = [Phase EXCEPT ![m] = "performed"]
    BY <1>2, <1>3, <1>4 DEF Phase
  <1>6. UNCHANGED Asked /\ Asked[m].op = command[m].op /\ Asked[m].address = command[m].address
    BY <1>2, <1>3 DEF Asked
  <1>7. Remote!Perform(m)
    BY <1>2, <1>3, <1>5, <1>6 DEF Remote!Perform, Phase, Asked
  <1> QED BY <1>2, <1>7 DEF Remote!Next

\* A call returns after it has been performed.
LEMMA ReturnMaps ==
    ASSUME NocInv, NEW m \in Masters, Return(m)
    PROVE  [Remote!Next]_(Remote!vars)
  <1>1. /\ pc[m] = "awake" /\ last_session_id[m] \notin timedOut[m]
        /\ pc' = [pc EXCEPT ![m] = "idle"]
        /\ UNCHANGED <<command, performed, mem, data>>
    BY DEF Return, slaves, Current
  <1>2. performed[m]
    BY <1>1 DEF NocInv, NInv, NothingLeft, Done
  <1>3. DOMAIN pc = Masters
    BY DEF NocInv, Types, CallTypes
  <1>4. Phase[m] = "performed" /\ Phase' = [Phase EXCEPT ![m] = "idle"]
    BY <1>1, <1>2, <1>3 DEF Phase
  <1>5. UNCHANGED Asked
    BY <1>1 DEF Asked
  <1>6. Remote!Return(m)
    BY <1>1, <1>4, <1>5 DEF Remote!Return, Phase, Asked
  <1> QED BY <1>6 DEF Remote!Next

\* Every step is one of the memory, or none.
LEMMA CallsMap ==
    ASSUME NocInv, [Next]_vars
    PROVE  [Remote!Next]_(Remote!vars)
  <1>1. ASSUME UNCHANGED <<mem, data, command, performed>>,
               \A m \in Masters : pc'[m] = "idle" <=> pc[m] = "idle"
        PROVE  [Remote!Next]_(Remote!vars)
    BY <1>1, StutterMaps DEF Stutters, Phase, Asked
  <1>2. DOMAIN pc = Masters
    BY DEF NocInv, Types, CallTypes
  <1>3. ASSUME NEW m \in Masters, Timeout(m) PROVE [Remote!Next]_(Remote!vars)
    <2>1. /\ UNCHANGED <<mem, data, command, performed>>
          /\ pc[m] # "idle" /\ pc' = [pc EXCEPT ![m] = "awake"]
      BY <1>3 DEF Timeout, slaves
    <2> QED BY <1>1, <1>2, <2>1
  <1>4. ASSUME NEW m \in Masters, Retry(m) PROVE [Remote!Next]_(Remote!vars)
    <2>1. /\ UNCHANGED <<mem, data, command, performed>>
          /\ pc[m] = "awake" /\ (pc' = [pc EXCEPT ![m] = "waiting"] \/ pc' = pc)
      BY <1>4 DEF Retry, slaves, calling
    <2> QED BY <1>1, <1>2, <2>1
  <1>5. ASSUME NEW s \in Slaves, Start(s) PROVE [Remote!Next]_(Remote!vars)
    BY <1>1, <1>5 DEF Start, calling
  <1>6. CASE Tick
    <2>1. /\ UNCHANGED <<mem, data, command, performed>>
          /\ pc' = [m \in Masters |-> IF Woken(m, Into(m)) THEN "awake" ELSE pc[m]]
      BY <1>6 DEF Tick, slaves
    <2>2. \A m \in Masters : Woken(m, Into(m)) => pc[m] # "idle"
      BY DEF Woken
    <2> QED BY <1>1, <2>1, <2>2
  <1>7. ASSUME NEW w \in Switches, Govern(w) PROVE [Remote!Next]_(Remote!vars)
    BY <1>1, <1>7 DEF Govern, slaves, calling
  <1>8. CASE UNCHANGED vars
    BY <1>1, <1>8 DEF vars, slaves, calling
  <1> QED
    BY <1>3, <1>4, <1>5, <1>6, <1>7, <1>8, InvokeMaps, PerformMaps, ReturnMaps DEF Next

\* At first nothing has been called.
LEMMA CallsInit ==
    ASSUME Init
    PROVE  Remote!Init
  <1>1. Stores
    BY NInit
  <1>2. \A m \in Masters : command[m] \in Commands[m]
    BY TypesInit DEF Types, CallTypes
  <1>3. \A m \in Masters : [op |-> command[m].op, address |-> command[m].address] \in Remote!Accesses
    BY <1>2, NocAssumption DEF Remote!Accesses
  <1>4. Asked \in [Masters -> Remote!Accesses]
    BY <1>3 DEF Asked
  <1>5. Phase = [m \in Masters |-> "idle"]
    BY DEF Init, Phase
  <1> QED BY <1>1, <1>4, <1>5 DEF Remote!Init, Stores, Asked, Phase

\* masterPE::b_transport over a network that drops flits is a call of a memory: the access is
\* performed at the slave and the address the call names, while the call is under way and at
\* least once before it returns, and never after.
THEOREM CallsImplementMemory ==
    ASSUME Separate
    PROVE  Spec => ImplementsCalls
  <1>1. Init => NocInv /\ Remote!Init
    BY NocInit, CallsInit
  <1>2. Separate /\ NocInv /\ [Next]_vars => NocInv'
    BY NocStep
  <1>3. NocInv /\ [Next]_vars => [Remote!Next]_(Remote!vars)
    BY CallsMap
  <1> QED BY <1>1, <1>2, <1>3, PTL DEF Spec, ImplementsCalls, Remote!Spec

=============================================================================
