------------------------- MODULE Interconnect_proofs -------------------------
(***************************************************************************)
(* Proof that the bus and every switch of the simple network take one       *)
(* transfer at a time, for any number of masters, any slaves and any        *)
(* topology, if every slave asks for the bus to be locked and a switch has  *)
(* an event for every master but the one inside (EnoughEvents).  Section 9  *)
(* of the README shows that it takes both.                                  *)
(*                                                                         *)
(* Events are handed out round and round.  What makes them unique is that   *)
(* those who wait have the last ones handed out, without a gap: whoever     *)
(* gets an event without waiting finds the switch free, when nobody waits.  *)
(***************************************************************************)
EXTENDS Interconnect, FiniteSetTheorems, SequenceTheorems, TLAPS

EnoughEvents == NumMasters - 1 <= MaxQueue

Events == 0 .. MaxQueue - 1
Record == [busy : BOOLEAN, locking : {TRUE}, requests : Seq(Nat), ticket : Events]

\* The event handed out d times ago, when t is the next one.
Back(t, d) == IF t >= d THEN t - d ELSE t - d + MaxQueue

\* The medium w with the members l, for whose events ev the masters in W wait while
\* those in G have got it: at most one has, and it is busy then; the requests are the
\* events of those who wait, each of its own.
MediumOK(w, l, W, G, ev) ==
    /\ l \in Record
    /\ l.busy <=> G # {}
    /\ \A m, u \in G : m = u
    /\ W # {} => l.busy
    /\ \A m \in W : \E i \in 1 .. Len(l.requests) : ev[m] = l.requests[i]
    /\ \A i \in 1 .. Len(l.requests) : \E m \in W : ev[m] = l.requests[i]
    /\ \A m, u \in W : ev[m] = ev[u] => m = u
    /\ \A i, j \in 1 .. Len(l.requests) : l.requests[i] = l.requests[j] => i = j
    /\ w = Bus => \A m \in W : ev[m] = m
    /\ w # Bus => \A i \in 1 .. Len(l.requests) :
                     l.requests[i] = Back(l.ticket, Len(l.requests) + 1 - i)

\* Who waits for w and who has got it, if the threads are where pcs says.
WaitersIn(pcs, w) == { m \in Masters : At(m, w) /\ pcs[m] = "waits" }
HoldersIn(pcs, w) ==
    { m \in Masters : /\ At(m, w)
                      /\ \/ pcs[m] \in {"woken", "crosses"}
                         \/ w = Bus /\ pcs[m] \in {"works", "answered"} }

\* All media are as they should be, m apart.
Others(m, pcs, media) ==
    /\ DOMAIN pcs = Masters /\ DOMAIN media = Media
    /\ \A w \in Media :
          MediumOK(w, media[w], WaitersIn(pcs, w) \ {m}, HoldersIn(pcs, w) \ {m}, event)

IsPath(p) == \E S : p \in Seq(S)

PathsOK ==
    /\ DOMAIN path = Masters /\ DOMAIN event = Masters
    /\ \A m \in Masters : IsPath(path[m]) /\ (pc[m] # "idle" => path[m] # <<>>)

LInv ==
    /\ PathsOK
    /\ DOMAIN pc = Masters /\ DOMAIN medium = Media
    /\ \A w \in Media : MediumOK(w, medium[w], WaitersIn(pc, w), HoldersIn(pc, w), event)

-----------------------------------------------------------------------------
(* lock() and unlock() of one medium *)

\* Each request in r is the event of another master in W.
Claimed(W, r, ev) ==
    /\ \A i \in 1 .. Len(r) : \E u \in W : ev[u] = r[i]
    /\ \A i, j \in 1 .. Len(r) : r[i] = r[j] => i = j

LEMMA FewRequests ==
    ASSUME NEW W, NEW r \in Seq(Nat), NEW ev, NEW m \in Masters, NEW h \in Masters, m # h,
           W \subseteq Masters \ {m, h}, Claimed(W, r, ev)
    PROVE  Len(r) + 1 < NumMasters
  <1>1. IsFiniteSet(Masters) /\ Cardinality(Masters) = NumMasters
    BY FS_Interval, InterconnectAssumption DEF Masters
  <1>2. /\ IsFiniteSet(Masters \ {m}) /\ Cardinality(Masters \ {m}) = NumMasters - 1
    BY <1>1, FS_RemoveElement
  <1>3. /\ IsFiniteSet((Masters \ {m}) \ {h})
        /\ Cardinality((Masters \ {m}) \ {h}) = NumMasters - 1 - 1
    BY <1>2, FS_RemoveElement
  <1>4. W \in SUBSET ((Masters \ {m}) \ {h})
    OBVIOUS
  <1>5. IsFiniteSet(W) /\ Cardinality(W) <= NumMasters - 2 /\ Cardinality(W) \in Nat
    BY <1>3, <1>4, FS_Subset, FS_CardinalityType, InterconnectAssumption
  <1>6. PICK n \in Nat : n = Len(r)
    BY LenProperties
  <1>7. IsFiniteSet(1 .. n) /\ Cardinality(1 .. n) = n
    BY FS_Interval
  <1> DEFINE f == [i \in 1 .. n |-> CHOOSE u \in W : ev[u] = r[i]]
  <1>8. \A i \in 1 .. n : f[i] \in W /\ ev[f[i]] = r[i]
    BY <1>6 DEF Claimed
  <1>9. f \in [1 .. n -> W]
    BY <1>8
  <1>10. ~ \E i, j \in 1 .. n : i # j /\ f[i] = f[j]
    BY <1>6, <1>8 DEF Claimed
  <1> HIDE DEF f
  <1>11. ~(Cardinality(W) < n)
    <2> SUFFICES ASSUME Cardinality(W) < n PROVE FALSE
      OBVIOUS
    <2>1. Cardinality(W) < Cardinality(1 .. n)
      BY <1>7
    <2> QED BY <1>5, <1>7, <1>9, <1>10, <2>1, FS_PigeonHole
  <1> QED
    BY <1>5, <1>6, <1>11, InterconnectAssumption

LEMMA NextTicket ==
    ASSUME NEW t \in Events
    PROVE  /\ (t + 1) % MaxQueue = IF t = MaxQueue - 1 THEN 0 ELSE t + 1
           /\ (t + 1) % MaxQueue \in Events
  BY InterconnectAssumption DEF Events

\* lock() of a free medium.
LEMMA AskFree ==
    ASSUME NEW w, NEW l, NEW W, NEW G, NEW ev, NEW e2, MediumOK(w, l, W, G, ev), ~l.busy,
           NEW m, \A u \in W : e2[u] = ev[u]
    PROVE  MediumOK(w, Ask(m, w, l), W, G \cup {m}, e2)
  <1>1. l \in Record /\ W = {} /\ G = {} /\ l.requests \in Seq(Nat)
    BY DEF MediumOK, Record
  <1>2. 1 .. Len(l.requests) = {}
    BY <1>1 DEF MediumOK
  <1>3. Ask(m, w, l) = [l EXCEPT !.ticket = IF w = Bus THEN @ ELSE (@ + 1) % MaxQueue, !.busy = TRUE]
    BY <1>1 DEF Ask, Record
  <1>4. /\ Ask(m, w, l) \in Record /\ Ask(m, w, l).requests = l.requests
        /\ Ask(m, w, l).busy
    BY <1>1, <1>3, NextTicket DEF Record
  <1> QED
    BY <1>1, <1>2, <1>4 DEF MediumOK

\* lock() of a busy one.
LEMMA AskBusy ==
    ASSUME EnoughEvents,
           NEW w, NEW l, NEW W \in SUBSET Masters, NEW G \in SUBSET Masters, NEW ev, NEW e2,
           MediumOK(w, l, W, G, ev), l.busy, W \cap G = {},
           NEW m \in Masters \ (W \cup G),
           \A u \in W : e2[u] = ev[u], e2[m] = Ticket(m, w, l)
    PROVE  MediumOK(w, Ask(m, w, l), W \cup {m}, G, e2)
  <1>0. PICK r \in Seq(Nat), n \in Nat : r = l.requests /\ n = Len(r)
    BY LenProperties DEF MediumOK, Record
  <1> DEFINE t == Ticket(m, w, l)
  <1>1. l \in Record /\ l.ticket \in Events
    BY DEF MediumOK, Record
  <1>2. PICK h \in G : TRUE
    BY DEF MediumOK
  <1>3. n + 1 < NumMasters
    <2>1. W \subseteq Masters \ {m, h} /\ m # h /\ Claimed(W, r, ev)
      BY <1>0, <1>2 DEF MediumOK, Claimed
    <2>2. m \in Masters /\ h \in Masters
      BY <1>2
    <2> QED BY <1>0, <2>1, <2>2, FewRequests
  <1>4. t \in Nat
    BY <1>1 DEF Ticket, Masters, Events
  <1>5. /\ Append(r, t) \in Seq(Nat) /\ Len(Append(r, t)) = n + 1
        /\ \A i \in 1 .. n : Append(r, t)[i] = r[i]
        /\ Append(r, t)[n + 1] = t
    BY <1>0, <1>4, AppendProperties
  <1> DEFINE k == Ask(m, w, l)
  <1>6. /\ k \in Record /\ k.requests = Append(r, t) /\ k.busy
        /\ k.ticket = IF w = Bus THEN l.ticket ELSE (l.ticket + 1) % MaxQueue
    BY <1>0, <1>1, <1>5, NextTicket DEF Ask, Record
  <1>7. \A i \in 1 .. n : r[i] # t
    <2>1. CASE w = Bus
      BY <1>0, <2>1 DEF MediumOK, Ticket
    <2>2. CASE w # Bus
      <3>1. t = l.ticket
        BY <2>2 DEF Ticket
      <3>2. ASSUME NEW i \in 1 .. n PROVE r[i] # l.ticket
        <4>1. r[i] = Back(l.ticket, n + 1 - i)
          BY <1>0, <2>2 DEF MediumOK
        <4>2. n + 1 - i \in 1 .. n /\ n < MaxQueue
          BY <1>0, <1>3, InterconnectAssumption DEF EnoughEvents
        <4> QED BY <1>1, <4>1, <4>2, InterconnectAssumption DEF Back, Events
      <3> QED BY <3>1, <3>2
    <2> QED BY <2>1, <2>2
  <1>8. ASSUME w # Bus, NEW i \in 1 .. n + 1
        PROVE  Append(r, t)[i] = Back(k.ticket, n + 2 - i)
    <2>1. t = l.ticket /\ n < MaxQueue /\ n + 1 <= MaxQueue
      BY <1>0, <1>3, <1>8, InterconnectAssumption DEF Ticket, EnoughEvents
    <2>2. k.ticket = IF l.ticket = MaxQueue - 1 THEN 0 ELSE l.ticket + 1
      BY <1>1, <1>6, <1>8, NextTicket
    <2>3. CASE i = n + 1
      <3>1. n + 2 - i = 1
        BY <1>0, <2>3
      <3>2. Append(r, t)[i] = l.ticket
        BY <1>5, <2>1, <2>3
      <3>3. l.ticket = Back(k.ticket, 1)
        BY <1>1, <2>2, InterconnectAssumption DEF Back, Events
      <3> QED BY <3>1, <3>2, <3>3
    <2>4. CASE i \in 1 .. n
      <3>1. Append(r, t)[i] = Back(l.ticket, n + 1 - i)
        BY <1>0, <1>5, <1>8, <2>4 DEF MediumOK
      <3>2. n + 1 - i \in 1 .. n /\ n + 2 - i = (n + 1 - i) + 1
        BY <1>0, <2>4
      <3>3. n + 1 - i + 1 <= MaxQueue
        BY <1>0, <2>1, <3>2, InterconnectAssumption
      <3>4. PICK d \in Nat : d = n + 1 - i /\ d + 1 <= MaxQueue /\ n + 2 - i = d + 1
        BY <3>2, <3>3
      <3>5. Back(l.ticket, d) = Back(k.ticket, d + 1)
        BY <1>1, <2>2, <3>4, InterconnectAssumption DEF Back, Events
      <3> QED BY <3>1, <3>4, <3>5
    <2> QED BY <1>0, <2>3, <2>4
  <1> HIDE DEF k, t
  <1>9. /\ \A u \in W \cup {m} : \E i \in 1 .. n + 1 : e2[u] = Append(r, t)[i]
        /\ \A i \in 1 .. n + 1 : \E u \in W \cup {m} : e2[u] = Append(r, t)[i]
    <2>1. e2[m] = Append(r, t)[n + 1] /\ n + 1 \in 1 .. n + 1
      BY <1>0, <1>5 DEF t
    <2>2. ASSUME NEW u \in W PROVE \E i \in 1 .. n : e2[u] = Append(r, t)[i]
      BY <1>0, <1>5 DEF MediumOK
    <2>3. ASSUME NEW i \in 1 .. n PROVE \E u \in W : e2[u] = Append(r, t)[i]
      BY <1>0, <1>5 DEF MediumOK
    <2>4. 1 .. n + 1 = (1 .. n) \cup {n + 1}
      BY <1>0
    <2> QED BY <2>1, <2>2, <2>3, <2>4
  <1>10. \A u, v \in W \cup {m} : e2[u] = e2[v] => u = v
    <2>1. ASSUME NEW u \in W PROVE e2[u] # e2[m]
      <3>1. PICK i \in 1 .. n : ev[u] = r[i]
        BY <1>0 DEF MediumOK
      <3> QED BY <1>7, <3>1 DEF t
    <2>2. ASSUME NEW u \in W, NEW v \in W, e2[u] = e2[v] PROVE u = v
      BY <2>2 DEF MediumOK
    <2> QED BY <2>1, <2>2
  <1>11. \A i, j \in 1 .. n + 1 : Append(r, t)[i] = Append(r, t)[j] => i = j
    <2>1. \A i, j \in 1 .. n : r[i] = r[j] => i = j
      BY <1>0 DEF MediumOK
    <2> QED BY <1>0, <1>5, <1>7, <2>1
  <1>12. w = Bus => \A u \in W \cup {m} : e2[u] = u
    BY DEF MediumOK, Ticket
  <1>13. Len(k.requests) = n + 1
    BY <1>5, <1>6 DEF k
  <1>14. /\ k.busy <=> G # {}
         /\ \A u, v \in G : u = v
    BY <1>2, <1>6 DEF MediumOK, k
  <1>15. \A i \in 1 .. n + 1 : n + 2 - i = n + 1 + 1 - i
    BY <1>0
  <1>16. w # Bus => \A i \in 1 .. Len(k.requests) :
                       k.requests[i] = Back(k.ticket, Len(k.requests) + 1 - i)
    BY <1>6, <1>8, <1>13, <1>15 DEF k
  <1> QED
    <2> SUFFICES MediumOK(w, k, W \cup {m}, G, e2)
      BY DEF k
    <2>1. k \in Record /\ k.requests = Append(r, t) /\ k.busy
      BY <1>6 DEF k
    <2> HIDE DEF k
    <2>2. /\ \A u \in W \cup {m} : \E i \in 1 .. Len(k.requests) : e2[u] = k.requests[i]
          /\ \A i \in 1 .. Len(k.requests) : \E u \in W \cup {m} : e2[u] = k.requests[i]
      <3> DEFINE q == k.requests
      <3>1. q = Append(r, t) /\ 1 .. Len(q) = 1 .. n + 1
        BY <1>13, <2>1
      <3> HIDE DEF q
      <3>2. \A u \in W \cup {m} : \E i \in 1 .. Len(q) : e2[u] = q[i]
        BY <1>9, <3>1
      <3>3. \A i \in 1 .. Len(q) : \E u \in W \cup {m} : e2[u] = q[i]
        BY <1>9, <3>1
      <3> QED BY <3>2, <3>3 DEF q
    <2>3. \A i, j \in 1 .. Len(k.requests) : k.requests[i] = k.requests[j] => i = j
      BY <1>11, <1>13, <2>1
    <2> QED
      BY <1>10, <1>12, <1>14, <1>16, <2>1, <2>2, <2>3 DEF MediumOK

\* The first request goes, and the others move up.
LEMMA TailIndex ==
    ASSUME NEW n \in Nat, NEW i \in 1 .. n - 1
    PROVE  n + 1 - (i + 1) = n - 1 + 1 - i
  OBVIOUS

\* unlock() by m: everyone who waits for the event in front is notified, which is one,
\* unless nobody waits.
LEMMA UnlockHandsOver ==
    ASSUME NEW w, NEW l, NEW W, NEW G, NEW ev, MediumOK(w, l, W, G, ev), NEW m \in G,
           NEW N, N = { u \in W : l.requests # <<>> /\ ev[u] = Head(l.requests) }
    PROVE  MediumOK(w, Unlock(l), W \ N, N, ev)
  <1>1. PICK r \in Seq(Nat), n \in Nat :
            /\ r = l.requests /\ n = Len(r)
            /\ l \in Record /\ l.busy /\ l.locking
    BY LenProperties DEF MediumOK, Record
  <1> DEFINE k == Unlock(l)
  <1>2. CASE r = <<>>
    <2>1. n = 0 /\ N = {} /\ W = {}
      BY <1>1, <1>2 DEF MediumOK
    <2>2. k = [l EXCEPT !.busy = FALSE]
      BY <1>1, <1>2 DEF Unlock
    <2>3. k \in Record /\ ~k.busy /\ k.requests = r
      BY <1>1, <2>2 DEF Record
    <2> QED BY <1>1, <1>2, <2>1, <2>3 DEF MediumOK
  <1>3. CASE r # <<>>
    <2>1. n > 0 /\ Head(r) = r[1] /\ Tail(r) \in Seq(Nat) /\ Len(Tail(r)) = n - 1
      BY <1>1, <1>3, HeadTailProperties, EmptySeq
    <2>2. \A i \in 1 .. n - 1 : Tail(r)[i] = r[i + 1] /\ i + 1 \in 1 .. n
      BY <1>1, <1>3, HeadTailProperties
    <2>3. k = [l EXCEPT !.busy = l.locking, !.requests = Tail(@)]
      BY <1>1, <1>3 DEF Unlock
    <2>4. k \in Record /\ k.busy /\ k.requests = Tail(r) /\ k.ticket = l.ticket
      BY <1>1, <2>1, <2>3 DEF Record
    <2>5. PICK u \in W : ev[u] = r[1]
      BY <1>1, <2>1 DEF MediumOK
    <2>6. N = {u}
      BY <1>1, <1>3, <2>1, <2>5 DEF MediumOK
    <2>7. \A v \in W \ {u} : \E i \in 1 .. n - 1 : ev[v] = Tail(r)[i]
      <3> SUFFICES ASSUME NEW v \in W \ {u} PROVE \E i \in 1 .. n - 1 : ev[v] = Tail(r)[i]
        OBVIOUS
      <3>1. PICK j \in 1 .. n : ev[v] = r[j]
        BY <1>1 DEF MediumOK
      <3>2. j # 1
        BY <1>1, <2>5, <3>1 DEF MediumOK
      <3>3. j - 1 \in 1 .. n - 1 /\ (j - 1) + 1 = j
        BY <1>1, <3>2
      <3> QED BY <2>2, <3>1, <3>3
    <2>8. \A i \in 1 .. n - 1 : \E v \in W \ {u} : ev[v] = Tail(r)[i]
      <3> SUFFICES ASSUME NEW i \in 1 .. n - 1 PROVE \E v \in W \ {u} : ev[v] = Tail(r)[i]
        OBVIOUS
      <3>1. i + 1 \in 1 .. n /\ i + 1 # 1 /\ 1 \in 1 .. n
        BY <1>1, <2>1
      <3>2. PICK v \in W : ev[v] = r[i + 1]
        BY <1>1, <3>1 DEF MediumOK
      <3>3. v # u
        BY <1>1, <2>5, <3>1, <3>2 DEF MediumOK
      <3> QED BY <2>2, <3>2, <3>3
    <2>9. \A i, j \in 1 .. n - 1 : Tail(r)[i] = Tail(r)[j] => i = j
      BY <1>1, <2>2 DEF MediumOK
    <2>10. w # Bus => \A i \in 1 .. n - 1 : Tail(r)[i] = Back(l.ticket, n - 1 + 1 - i)
      <3> SUFFICES ASSUME w # Bus, NEW i \in 1 .. n - 1
                   PROVE  Tail(r)[i] = Back(l.ticket, n - 1 + 1 - i)
        OBVIOUS
      <3>1. r[i + 1] = Back(l.ticket, n + 1 - (i + 1))
        BY <1>1, <2>2 DEF MediumOK
      <3>2. n + 1 - (i + 1) = n - 1 + 1 - i
        BY TailIndex
      <3> QED BY <2>2, <3>1, <3>2
    <2>11. /\ \A v, x \in W \ {u} : ev[v] = ev[x] => v = x
           /\ w = Bus => \A v \in W \ {u} : ev[v] = v
      BY <1>1 DEF MediumOK
    <2> HIDE DEF k
    <2> QED
      BY <1>1, <2>1, <2>4, <2>6, <2>7, <2>8, <2>9, <2>10, <2>11 DEF MediumOK, k
  <1> QED BY <1>2, <1>3


-----------------------------------------------------------------------------
(* All media *)

\* The events of others do not matter.
LEMMA SameEvents ==
    ASSUME NEW w, NEW l, NEW W, NEW G, NEW ev, NEW e2, MediumOK(w, l, W, G, ev),
           \A u \in W : e2[u] = ev[u]
    PROVE  MediumOK(w, l, W, G, e2)
  BY DEF MediumOK

\* m goes where it neither waits for a medium nor has one.
LEMMA GoesAside ==
    ASSUME PathsOK, NEW m \in Masters, NEW pcs, NEW media, Others(m, pcs, media), NEW x,
           pc' = [pcs EXCEPT ![m] = x], medium' = media, PathsOK', UNCHANGED system,
           \A u \in Masters \ {m} : path'[u] = path[u] /\ event'[u] = event[u],
           x = "idle" \/ (x = "works" /\ Last(path'[m]) # Bus)
    PROVE  LInv'
  <1>1. DOMAIN pc' = Masters /\ DOMAIN medium' = Media /\ Media' = Media
    BY DEF Others, Media
  <1>2. pc'[m] = x /\ \A u \in Masters \ {m} : pc'[u] = pcs[u]
    BY DEF Others
  <1>3. ASSUME NEW w \in Media
        PROVE  MediumOK(w, medium'[w], WaitersIn(pc, w)', HoldersIn(pc, w)', event')
    <2>1. WaitersIn(pc, w)' = WaitersIn(pcs, w) \ {m}
      BY <1>2 DEF WaitersIn, At, Top
    <2>2. HoldersIn(pc, w)' = HoldersIn(pcs, w) \ {m}
      BY <1>2 DEF HoldersIn, At, Top
    <2>3. \A u \in WaitersIn(pcs, w) \ {m} : event'[u] = event[u]
      BY DEF WaitersIn
    <2> QED BY <2>1, <2>2, <2>3, SameEvents DEF Others
  <1> QED
    BY <1>1, <1>3 DEF LInv

\* m calls lock() of w.
LEMMA GoesTo ==
    ASSUME EnoughEvents, PathsOK, NEW m \in Masters, NEW w, NEW p, IsPath(p), p # <<>>,
           Last(p) = w, NEW pcs, NEW media, Others(m, pcs, media), UNCHANGED system,
           \A u \in Masters : pcs[u] # "idle" => path[u] # <<>> \/ u = m,
           Enters(m, w, p, pcs, media)
    PROVE  LInv'
  <1> DEFINE busy == media[w].busy
  <1>1. /\ DOMAIN pc' = Masters /\ DOMAIN medium' = Media /\ Media' = Media
        /\ DOMAIN path' = Masters /\ DOMAIN event' = Masters
    BY DEF Others, Media, Enters, PathsOK
  <1>2. /\ pc'[m] = IF busy THEN "waits" ELSE Has(w)
        /\ busy => event'[m] = Ticket(m, w, media[w])
        /\ path'[m] = p
        /\ \A u \in Masters \ {m} : pc'[u] = pcs[u] /\ path'[u] = path[u] /\ event'[u] = event[u]
    BY DEF Others, Enters, PathsOK
  <1>3. PathsOK'
    BY <1>1, <1>2 DEF PathsOK
  <1>4. ASSUME NEW v \in Media
        PROVE  MediumOK(v, medium'[v], WaitersIn(pc, v)', HoldersIn(pc, v)', event')
    <2> DEFINE W == WaitersIn(pcs, v) \ {m}
               G == HoldersIn(pcs, v) \ {m}
    <2>1. MediumOK(v, media[v], W, G, event)
      BY DEF Others
    <2>2. \A u \in W : event'[u] = event[u]
      BY <1>2 DEF WaitersIn
    <2>3. CASE v # w
      <3>1. WaitersIn(pc, v)' = W /\ HoldersIn(pc, v)' = G /\ medium'[v] = media[v]
        BY <1>1, <1>2, <2>3 DEF WaitersIn, HoldersIn, At, Top, Enters, Others
      <3> QED BY <2>1, <2>2, <3>1, SameEvents
    <2>4. CASE v = w /\ busy
      <3>1. WaitersIn(pc, v)' = W \cup {m}
        BY <1>2, <2>4 DEF WaitersIn, At, Top
      <3>2. HoldersIn(pc, v)' = G
        BY <1>2, <2>4 DEF HoldersIn, At, Top
      <3>3. medium'[v] = Ask(m, v, media[v])
        BY <2>4 DEF Enters, Others
      <3>4. W \in SUBSET Masters /\ G \in SUBSET Masters /\ m \in Masters \ (W \cup G)
        BY DEF WaitersIn, HoldersIn
      <3>5. W \cap G = {}
        BY DEF WaitersIn, HoldersIn
      <3> HIDE DEF W, G
      <3> QED BY <1>2, <2>1, <2>2, <2>4, <3>1, <3>2, <3>3, <3>4, <3>5, AskBusy
    <2>5. CASE v = w /\ ~busy
      <3>1. WaitersIn(pc, v)' = W
        BY <1>2, <2>5 DEF WaitersIn, At, Top, Has
      <3>2. HoldersIn(pc, v)' = G \cup {m}
        BY <1>2, <2>5 DEF HoldersIn, At, Top, Has
      <3>3. medium'[v] = Ask(m, v, media[v])
        BY <2>5 DEF Enters, Others
      <3> HIDE DEF W, G
      <3> QED BY <2>1, <2>2, <2>5, <3>1, <3>2, <3>3, AskFree
    <2> QED BY <2>3, <2>4, <2>5
  <1> QED
    BY <1>1, <1>3, <1>4 DEF LInv

\* Who calls, or has been answered in a network, waits for no medium and has none.
LEMMA NotInside ==
    ASSUME LInv, NEW m \in Masters, pc[m] = "idle" \/ (pc[m] = "answered" /\ Top(m) # Bus)
    PROVE  Others(m, pc, medium)
  <1>1. ASSUME NEW w \in Media
        PROVE  WaitersIn(pc, w) \ {m} = WaitersIn(pc, w) /\ HoldersIn(pc, w) \ {m} = HoldersIn(pc, w)
    BY DEF WaitersIn, HoldersIn, At
  <1> QED
    BY <1>1 DEF LInv, Others

\* m, whose latency is over, unlocks its medium.
LEMMA Unlocks ==
    ASSUME LInv, NEW m \in Masters, pc[m] = "crosses", NEW w, w = Top(m), NEW pcs, NEW media,
           media = [medium EXCEPT ![w] = Unlock(@)],
           pcs = [u \in Masters |-> IF u \in Notified(w) THEN "woken" ELSE pc[u]]
    PROVE  Others(m, pcs, media)
  <1>1. DOMAIN pcs = Masters /\ DOMAIN media = Media
    BY DEF LInv
  <1>2. path[m] # <<>>
    BY DEF LInv, PathsOK
  <1>3. ASSUME NEW v \in Media
        PROVE  MediumOK(v, media[v], WaitersIn(pcs, v) \ {m}, HoldersIn(pcs, v) \ {m}, event)
    <2>1. MediumOK(v, medium[v], WaitersIn(pc, v), HoldersIn(pc, v), event)
      BY DEF LInv
    <2>2. CASE v # w
      <3>1. WaitersIn(pcs, v) \ {m} = WaitersIn(pc, v)
        BY <2>2 DEF WaitersIn, At, Notified
      <3>2. HoldersIn(pcs, v) \ {m} = HoldersIn(pc, v)
        BY <2>2 DEF HoldersIn, At, Notified
      <3>3. media[v] = medium[v]
        BY <2>2 DEF LInv
      <3> QED BY <2>1, <3>1, <3>2, <3>3
    <2>3. CASE v = w
      <3>1. m \in HoldersIn(pc, w)
        BY <1>2 DEF HoldersIn, At
      <3>2. HoldersIn(pc, w) = {m}
        BY <2>1, <2>3, <3>1 DEF MediumOK
      <3>3. Notified(w) = { u \in WaitersIn(pc, w) : /\ medium[w].requests # <<>>
                                                    /\ event[u] = Head(medium[w].requests) }
        BY DEF Notified, WaitersIn
      <3>4. WaitersIn(pcs, w) \ {m} = WaitersIn(pc, w) \ Notified(w)
        BY DEF WaitersIn, Notified
      <3>5. HoldersIn(pcs, w) \ {m} = Notified(w)
        BY <3>2 DEF HoldersIn, Notified
      <3>6. media[w] = Unlock(medium[w])
        BY <2>3 DEF LInv
      <3>7. MediumOK(w, medium[w], WaitersIn(pc, w), HoldersIn(pc, w), event)
        BY <2>1, <2>3
      <3>8. MediumOK(w, Unlock(medium[w]), WaitersIn(pc, w) \ Notified(w), Notified(w), event)
        <4> DEFINE W == WaitersIn(pc, w)
                   G == HoldersIn(pc, w)
                   N == Notified(w)
                   l == medium[w]
        <4>1. N = { u \in W : l.requests # <<>> /\ event[u] = Head(l.requests) }
          BY <3>3
        <4>2. MediumOK(w, l, W, G, event) /\ m \in G
          BY <3>1, <3>7
        <4> HIDE DEF W, G, N, l
        <4>3. MediumOK(w, Unlock(l), W \ N, N, event)
          BY <4>1, <4>2, UnlockHandsOver
        <4> QED BY <4>3 DEF W, N, l
      <3> QED BY <2>3, <3>4, <3>5, <3>6, <3>8
    <2> QED BY <2>2, <2>3
  <1> QED
    BY <1>1, <1>3 DEF Others

-----------------------------------------------------------------------------
(* The steps *)

LEMMA PathsGrow ==
    ASSUME NEW q, IsPath(q), NEW v
    PROVE  /\ IsPath(Append(q, v)) /\ Append(q, v) # <<>> /\ Last(Append(q, v)) = v
           /\ IsPath(<<v>>) /\ <<v>> # <<>> /\ Last(<<v>>) = v
           /\ Len(q) > 1 => /\ IsPath(Front(q)) /\ Front(q) # <<>>
                            /\ Last(Front(q)) = q[Len(q) - 1]
  <1>1. PICK S : q \in Seq(S)
    BY DEF IsPath
  <1>2. q \in Seq(S \cup {v})
    <2>1. q \in [1 .. Len(q) -> S] /\ Len(q) \in Nat
      BY <1>1, LenProperties
    <2>2. q \in [1 .. Len(q) -> S \cup {v}]
      BY <2>1
    <2> QED BY <2>1, <2>2, SeqDef
  <1>3. IsPath(Append(q, v)) /\ Append(q, v) # <<>> /\ Last(Append(q, v)) = v
    BY <1>2, AppendProperties, LenProperties DEF IsPath, Last
  <1>4. IsPath(<<v>>) /\ <<v>> # <<>> /\ Last(<<v>>) = v
    <2>1. <<v>> \in Seq({v})
      OBVIOUS
    <2> QED BY <2>1 DEF IsPath, Last
  <1>5. ASSUME Len(q) > 1
        PROVE  IsPath(Front(q)) /\ Front(q) # <<>> /\ Last(Front(q)) = q[Len(q) - 1]
    <2>1. Len(q) \in Nat /\ Len(q) - 1 \in 1 .. Len(q)
      BY <1>1, <1>5, LenProperties
    <2>2. /\ Front(q) \in Seq(S) /\ Len(Front(q)) = Len(q) - 1
          /\ Front(q)[Len(q) - 1] = q[Len(q) - 1]
      BY <1>1, <1>5, <2>1 DEF Front
    <2> QED BY <1>5, <2>1, <2>2 DEF IsPath, Last
  <1> QED BY <1>3, <1>4, <1>5

LEMMA CallStep ==
    ASSUME EnoughEvents, Locks = Slaves, LInv, NEW m \in Masters, Call(m)
    PROVE  LInv'
  <1>1. PICK c \in Commands[m] :
            IF system = "bus"
            THEN Enters(m, Bus, <<Bus>>, pc, [medium EXCEPT ![Bus].locking = SlaveAt(c.address) \in Locks])
            ELSE Enters(m, m, <<m>>, pc, medium)
    BY DEF Call
  <1>2. pc[m] = "idle" /\ UNCHANGED system
    BY DEF Call
  <1>3. Others(m, pc, medium)
    <2>1. pc[m] = "idle" \/ (pc[m] = "answered" /\ Top(m) # Bus)
      BY <1>2
    <2> QED BY <2>1, NotInside
  <1>4. SlaveAt(c.address) \in Locks
    <2>1. c.address \in Addresses
      BY InterconnectAssumption
    <2> QED BY <2>1 DEF Addresses, SlaveAt
  <1>5. Others(m, pc, [medium EXCEPT ![Bus].locking = SlaveAt(c.address) \in Locks])
    <2> DEFINE media == [medium EXCEPT ![Bus].locking = SlaveAt(c.address) \in Locks]
    <2>1. \A w \in Media : medium[w] \in Record
      BY DEF LInv, MediumOK
    <2>2. \A w \in Media : media[w] = medium[w]
      BY <1>4, <2>1 DEF LInv, Record
    <2>3. DOMAIN media = Media
      BY DEF LInv
    <2> HIDE DEF media
    <2>4. Others(m, pc, media)
      BY <1>3, <2>2, <2>3 DEF Others
    <2> QED BY <2>4 DEF media
  <1>6. PathsOK /\ IsPath(path[m]) /\ \A u \in Masters : pc[u] # "idle" => path[u] # <<>>
    BY DEF LInv, PathsOK
  <1> DEFINE Locked == [medium EXCEPT ![Bus].locking = SlaveAt(c.address) \in Locks]
  <1>7. ASSUME NEW w, NEW media, Others(m, pc, media), Enters(m, w, <<w>>, pc, media)
        PROVE  LInv'
    <2>1. IsPath(<<w>>) /\ <<w>> # <<>> /\ Last(<<w>>) = w
      BY <1>6, PathsGrow
    <2>2. \A u \in Masters : pc[u] # "idle" => path[u] # <<>> \/ u = m
      BY <1>6
    <2> QED BY <1>2, <1>6, <1>7, <2>1, <2>2, GoesTo
  <1>8. CASE system = "bus"
    <2>1. Enters(m, Bus, <<Bus>>, pc, Locked) /\ Others(m, pc, Locked)
      BY <1>1, <1>5, <1>8
    <2> HIDE DEF Locked
    <2> QED BY <1>7, <2>1
  <1>9. CASE system # "bus"
    BY <1>1, <1>3, <1>7, <1>9
  <1> QED BY <1>8, <1>9

LEMMA CrossStep ==
    ASSUME EnoughEvents, LInv, NEW m \in Masters, Cross(m)
    PROVE  LInv'
  <1> DEFINE w     == Top(m)
             media == [medium EXCEPT ![w] = Unlock(@)]
             pcs   == [u \in Masters |-> IF u \in Notified(w) THEN "woken" ELSE pc[u]]
             hops  == Hops(w, command[m].address)
  <1>1. pc[m] = "crosses" /\ UNCHANGED system
    BY DEF Cross
  <1>2. \/ w # Bus /\ \E v \in hops : Enters(m, v, Append(path[m], v), pcs, media)
        \/ /\ w # Bus /\ pc' = [pcs EXCEPT ![m] = "works"] /\ medium' = media
           /\ UNCHANGED <<path, event>>
        \/ Len(path[m]) > 1 /\ Enters(m, path[m][Len(path[m]) - 1], Front(path[m]), pcs, media)
        \/ Returns(m, pcs) /\ medium' = media
    BY DEF Cross
  <1>3. Others(m, pcs, media)
    BY <1>1, Unlocks
  <1>4. PathsOK /\ IsPath(path[m]) /\ path[m] # <<>>
    BY <1>1 DEF LInv, PathsOK
  <1>5. \A u \in Masters : pcs[u] # "idle" => path[u] # <<>> \/ u = m
    BY DEF LInv, PathsOK, Notified, At
  <1>6. DOMAIN pcs = Masters /\ \A u \in Masters : pcs[u] # "idle" => path[u] # <<>>
    BY <1>4, <1>5
  <1> HIDE DEF pcs, media, hops
  <1>7. CASE \E v \in hops : Enters(m, v, Append(path[m], v), pcs, media)
    BY <1>1, <1>3, <1>4, <1>5, <1>7, PathsGrow, GoesTo
  <1>8. CASE Len(path[m]) > 1 /\ Enters(m, path[m][Len(path[m]) - 1], Front(path[m]), pcs, media)
    BY <1>1, <1>3, <1>4, <1>5, <1>8, PathsGrow, GoesTo
  <1>9. CASE /\ w # Bus /\ pc' = [pcs EXCEPT ![m] = "works"] /\ medium' = media
             /\ UNCHANGED <<path, event>>
    <2>1. PathsOK'
      BY <1>4, <1>6, <1>9 DEF PathsOK
    <2>2. Last(path'[m]) # Bus
      BY <1>9 DEF Top
    <2> QED BY <1>1, <1>3, <1>4, <1>9, <2>1, <2>2, GoesAside
  <1>10. CASE Returns(m, pcs) /\ medium' = media
    <2>1. PathsOK'
      <3>1. IsPath(<<>>)
        BY DEF IsPath
      <3> QED BY <1>4, <1>6, <1>10, <3>1 DEF PathsOK, Returns
    <2>2. /\ pc' = [pcs EXCEPT ![m] = "idle"] /\ medium' = media
          /\ \A u \in Masters \ {m} : path'[u] = path[u] /\ event'[u] = event[u]
      BY <1>4, <1>10 DEF Returns, PathsOK
    <2> QED BY <1>1, <1>3, <1>4, <2>1, <2>2, GoesAside
  <1> QED BY <1>2, <1>7, <1>8, <1>9, <1>10

\* A thread moves on inside the medium it has got, or outside of any.
LEMMA StaysStep ==
    ASSUME LInv, NEW m \in Masters, pc[m] # "idle", pc[m] # "waits", NEW x, x # "idle", x # "waits",
           pc' = [pc EXCEPT ![m] = x], UNCHANGED <<system, path, event>>,
           \A w \in Media : m \in HoldersIn(pc, w) <=> m \in HoldersIn(pc, w)',
           DOMAIN medium' = Media, \A w \in Media : medium'[w] = medium[w]
    PROVE  LInv'
  <1>1. Media' = Media /\ DOMAIN pc' = Masters /\ PathsOK'
    BY DEF LInv, PathsOK, Media
  <1>2. pc'[m] = x /\ \A u \in Masters \ {m} : pc'[u] = pc[u]
    BY DEF LInv
  <1>3. ASSUME NEW w \in Media
        PROVE  WaitersIn(pc, w)' = WaitersIn(pc, w) /\ HoldersIn(pc, w)' = HoldersIn(pc, w)
    <2>1. WaitersIn(pc, w)' = WaitersIn(pc, w)
      BY <1>2 DEF WaitersIn, At, Top
    <2>2. \A u \in Masters \ {m} : u \in HoldersIn(pc, w) <=> u \in HoldersIn(pc, w)'
      BY <1>2 DEF HoldersIn, At, Top
    <2>3. HoldersIn(pc, w) \subseteq Masters /\ HoldersIn(pc, w)' \subseteq Masters
      BY DEF HoldersIn
    <2>4. \A u \in Masters : u \in HoldersIn(pc, w) <=> u \in HoldersIn(pc, w)'
      BY <2>2
    <2>5. HoldersIn(pc, w)' = HoldersIn(pc, w)
      BY <2>3, <2>4
    <2> QED BY <2>1, <2>5
  <1> QED
    BY <1>1, <1>3 DEF LInv

LEMMA LInvStep ==
    ASSUME EnoughEvents, Locks = Slaves, LInv, [Next]_vars
    PROVE  LInv'
  <1>1. ASSUME NEW m \in Masters, Resume(m) PROVE LInv'
    <2>1. /\ pc[m] = "woken" /\ pc' = [pc EXCEPT ![m] = Has(Top(m))]
          /\ UNCHANGED <<system, path, event>>
      BY <1>1 DEF Resume
    <2>2. \A w \in Media : m \in HoldersIn(pc, w) <=> m \in HoldersIn(pc, w)'
      BY <2>1 DEF HoldersIn, At, Top, Has, LInv
    <2>3. path[m] # <<>>
      BY <2>1 DEF LInv, PathsOK
    <2>4. ASSUME NEW w \in Media PROVE medium'[w] = medium[w]
      <3>1. CASE w # Top(m)
        BY <1>1, <3>1 DEF Resume, LInv
      <3>2. CASE w = Top(m)
        <4>1. m \in HoldersIn(pc, w)
          BY <2>1, <2>3, <3>2 DEF HoldersIn, At
        <4>2. medium[w] \in Record /\ medium[w].busy
          BY <4>1 DEF LInv, MediumOK
        <4>3. medium'[w] = [medium[w] EXCEPT !.busy = @ \/ medium[w].locking]
          BY <1>1, <3>2 DEF Resume, LInv
        <4> QED BY <4>2, <4>3 DEF Record
      <3> QED BY <3>1, <3>2
    <2>5. DOMAIN medium' = Media
      BY <1>1 DEF Resume, LInv
    <2> QED BY <2>1, <2>2, <2>4, <2>5, StaysStep DEF Has
  <1>2. ASSUME NEW m \in Masters, Perform(m) PROVE LInv'
    <2>1. /\ pc[m] = "works" /\ pc' = [pc EXCEPT ![m] = "answered"]
          /\ UNCHANGED <<system, path, event, medium>>
      BY <1>2 DEF Perform
    <2>2. \A w \in Media : m \in HoldersIn(pc, w) <=> m \in HoldersIn(pc, w)'
      BY <2>1 DEF HoldersIn, At, Top, LInv
    <2> QED BY <2>1, <2>2, StaysStep DEF LInv
  <1>3. ASSUME NEW m \in Masters, Answer(m) PROVE LInv'
    <2>1. pc[m] = "answered" /\ UNCHANGED system
      BY <1>3 DEF Answer
    <2>2. PathsOK /\ IsPath(path[m]) /\ path[m] # <<>> /\ Last(path[m]) = Top(m)
      BY <2>1 DEF LInv, PathsOK, Top
    <2>3. CASE /\ Top(m) = Bus /\ pc' = [pc EXCEPT ![m] = "crosses"]
               /\ UNCHANGED <<path, event, medium>>
      <3>1. \A w \in Media : m \in HoldersIn(pc, w) <=> m \in HoldersIn(pc, w)'
        BY <2>1, <2>3 DEF HoldersIn, At, Top, LInv
      <3> QED BY <2>1, <2>3, <3>1, StaysStep DEF LInv
    <2>4. CASE Top(m) # Bus /\ Enters(m, Top(m), path[m], pc, medium)
      <3>1. Others(m, pc, medium)
        BY <2>1, <2>4, NotInside
      <3>2. \A u \in Masters : pc[u] # "idle" => path[u] # <<>> \/ u = m
        BY <2>2 DEF PathsOK
      <3> QED BY <2>1, <2>2, <2>4, <3>1, <3>2, GoesTo
    <2>5. CASE Top(m) # Bus /\ Returns(m, pc) /\ UNCHANGED medium
      <3>1. Others(m, pc, medium)
        BY <2>1, <2>5, NotInside
      <3>2. PathsOK'
        <4>1. IsPath(<<>>)
          BY DEF IsPath
        <4> QED BY <2>5, <4>1 DEF PathsOK, Returns, LInv
      <3>3. /\ pc' = [pc EXCEPT ![m] = "idle"] /\ medium' = medium
            /\ \A u \in Masters \ {m} : path'[u] = path[u] /\ event'[u] = event[u]
        BY <2>2, <2>5 DEF Returns, PathsOK
      <3> QED BY <2>1, <2>2, <3>1, <3>2, <3>3, GoesAside
    <2> QED BY <1>3, <2>3, <2>4, <2>5 DEF Answer
  <1>4. CASE UNCHANGED vars
    BY <1>4 DEF vars, LInv, PathsOK, Media, WaitersIn, HoldersIn, At, Top
  <1> QED
    BY <1>1, <1>2, <1>3, <1>4, CallStep, CrossStep DEF Next, Proceed

\* lock() and unlock() of the bus and of a switch let one transfer in at a time, the
\* notified one counted, and nobody gets in while another waits, however masters call.
THEOREM OneTransferAtATime ==
    ASSUME EnoughEvents, Locks = Slaves
    PROVE  Spec => []OneAtATime
  <1>1. Init => LInv
    <2> SUFFICES ASSUME Init PROVE LInv
      OBVIOUS
    <2>1. PathsOK
      <3>1. IsPath(<<>>)
        BY DEF IsPath
      <3> QED BY <3>1 DEF Init, PathsOK
    <2>2. ASSUME NEW w \in Media
          PROVE  /\ WaitersIn(pc, w) = {} /\ HoldersIn(pc, w) = {}
                 /\ MediumOK(w, Free, {}, {}, event)
      <3>1. WaitersIn(pc, w) = {} /\ HoldersIn(pc, w) = {}
        BY DEF Init, WaitersIn, HoldersIn, At
      <3>2. Free \in Record
        BY InterconnectAssumption DEF Free, Record, Events
      <3> QED BY <3>1, <3>2 DEF MediumOK, Free
    <2> QED BY <2>1, <2>2 DEF Init, LInv
  <1>2. EnoughEvents /\ Locks = Slaves /\ LInv /\ [Next]_vars => LInv'
    BY LInvStep
  <1>3. LInv => OneAtATime
    <2> SUFFICES ASSUME LInv, NEW w \in Media
                 PROVE  /\ \A m, u \in Masters : HasGot(m, w) /\ HasGot(u, w) => m = u
                        /\ \A m \in Masters :
                              At(m, w) /\ pc[m] \in {"waits", "woken"} => medium[w].busy
      BY DEF OneAtATime
    <2>1. MediumOK(w, medium[w], WaitersIn(pc, w), HoldersIn(pc, w), event)
      BY DEF LInv
    <2>2. \A m \in Masters : HasGot(m, w) <=> m \in HoldersIn(pc, w)
      BY DEF HasGot, HoldersIn
    <2>3. \A m \in Masters : At(m, w) /\ pc[m] = "waits" => m \in WaitersIn(pc, w)
      BY DEF WaitersIn
    <2>4. \A m \in Masters : At(m, w) /\ pc[m] = "woken" => m \in HoldersIn(pc, w)
      BY DEF HoldersIn
    <2> QED BY <2>1, <2>2, <2>3, <2>4 DEF MediumOK
  <1> QED
    BY <1>1, <1>2, <1>3, PTL DEF Spec

-----------------------------------------------------------------------------
(***************************************************************************)
(* The bus and the simple network implement RemoteMemory: every call        *)
(* performs its access once, at the slave and the cell that its address     *)
(* names, and returns after that.  The network needs one fact of its        *)
(* topology, Connected: from every switch a link leads closer to each       *)
(* slave.  It holds for the graphs makeNocMap draws, and TLC evaluates it   *)
(* for the instances it checks.                                            *)
(***************************************************************************)

Commanded == [op : {"read", "write"}, address : Addresses]

\* Where the threads can be, and what the members of the system look like.
RouteInv ==
    /\ system \in Systems
    /\ DOMAIN pc = Masters /\ DOMAIN performed = Masters /\ DOMAIN data = Masters
    /\ DOMAIN path = Masters
    /\ command \in [Masters -> Commanded]
    /\ DOMAIN cells = Slaves /\ \A s \in Slaves : DOMAIN cells[s] = 0 .. End[s] - Start[s]
    /\ \A m \in Masters : path[m] \in Seq(Media) /\ (pc[m] # "idle" => path[m] # <<>>)
    /\ \A m \in Masters : performed[m] \in BOOLEAN /\ (pc[m] = "answered" => performed[m])
    /\ \A m \in Masters : pc[m] = "works" /\ Top(m) # Bus => Top(m) = SlaveAt(command[m].address)

-----------------------------------------------------------------------------

\* An address belongs to one cell of one slave.
LEMMA Located ==
    ASSUME NEW a \in Addresses
    PROVE  /\ SlaveAt(a) \in Slaves /\ a \in Start[SlaveAt(a)] .. End[SlaveAt(a)]
           /\ a - Start[SlaveAt(a)] \in 0 .. End[SlaveAt(a)] - Start[SlaveAt(a)]
           /\ a \in Nat /\ Start[SlaveAt(a)] \in Nat
  <1>1. \E s \in Slaves : a \in Start[s] .. End[s]
    BY DEF Addresses
  <1>2. SlaveAt(a) \in Slaves /\ a \in Start[SlaveAt(a)] .. End[SlaveAt(a)]
    BY <1>1 DEF SlaveAt
  <1> QED
    BY <1>2, InterconnectAssumption

\* The top of a stack, and the stack without it.
LEMMA Stacks ==
    ASSUME NEW S, NEW p \in Seq(S), p # <<>>
    PROVE  /\ Last(p) \in S /\ Len(p) \in Nat /\ Len(p) > 0
           /\ Front(p) \in Seq(S)
           /\ Len(p) > 1 => /\ Front(p) # <<>> /\ p[Len(p) - 1] \in S
                            /\ Last(Front(p)) = p[Len(p) - 1]
  <1>1. /\ Len(p) \in Nat /\ Len(p) > 0 /\ \A i \in 1 .. Len(p) : p[i] \in S
    BY LenProperties, EmptySeq, ElementOfSeq
  <1>2. Last(p) = p[Len(p)] /\ Front(p) = SubSeq(p, 1, Len(p) - 1)
    BY DEF Last, Front
  <1>3. /\ SubSeq(p, 1, Len(p) - 1) \in Seq(S)
        /\ Len(SubSeq(p, 1, Len(p) - 1)) = Len(p) - 1
        /\ \A i \in 1 .. Len(p) - 1 : SubSeq(p, 1, Len(p) - 1)[i] = p[i]
    <2> DEFINE n == Len(p) - 1
    <2>1. n \in Int /\ n \in Nat /\ 1 \in Int /\ \A i \in 1 .. n : p[i] \in S
      BY <1>1
    <2> HIDE DEF n
    <2>2. /\ SubSeq(p, 1, n) \in Seq(S)
          /\ Len(SubSeq(p, 1, n)) = IF 1 <= n THEN n - 1 + 1 ELSE 0
          /\ \A i \in 1 .. n - 1 + 1 : SubSeq(p, 1, n)[i] = p[1 + i - 1]
      BY <2>1, SubSeqProperties
    <2>3. n - 1 + 1 = n /\ (n >= 1 \/ n = 0) /\ \A i \in 1 .. n : 1 + i - 1 = i
      BY <2>1
    <2>4. /\ SubSeq(p, 1, n) \in Seq(S)
          /\ Len(SubSeq(p, 1, n)) = n
          /\ \A i \in 1 .. n : SubSeq(p, 1, n)[i] = p[i]
      BY <2>1, <2>2, <2>3
    <2> QED BY <2>4 DEF n
  <1>4. ASSUME Len(p) > 1
        PROVE  /\ Front(p) # <<>> /\ p[Len(p) - 1] \in S
               /\ Last(Front(p)) = p[Len(p) - 1]
    <2>1. Len(p) - 1 \in 1 .. Len(p)
      BY <1>1, <1>4
    <2>2. Last(Front(p)) = Front(p)[Len(Front(p))]
      BY DEF Last
    <2>3. Front(p) # <<>>
      <3>1. Len(Front(p)) # 0
        BY <1>1, <1>2, <1>3, <1>4
      <3> QED BY <3>1
    <2> QED BY <1>1, <1>2, <1>3, <1>4, <2>1, <2>2, <2>3
  <1> QED
    BY <1>1, <1>2, <1>3, <1>4

LEMMA Push ==
    ASSUME NEW S, NEW p \in Seq(S), NEW v \in S
    PROVE  Append(p, v) \in Seq(S) /\ Append(p, v) # <<>> /\ Last(Append(p, v)) = v
  <1>1. /\ Append(p, v) \in Seq(S) /\ Len(Append(p, v)) = Len(p) + 1 /\ Len(p) \in Nat
        /\ Append(p, v)[Len(p) + 1] = v
    BY AppendProperties, LenProperties
  <1> QED BY <1>1 DEF Last

LEMMA Single ==
    ASSUME NEW S, NEW v \in S
    PROVE  <<v>> \in Seq(S) /\ <<v>> # <<>> /\ Last(<<v>>) = v
  BY DEF Last

LEMMA HopsLead ==
    ASSUME Connected, system \in Systems, NEW w \in Media, w # Bus, NEW a \in Addresses
    PROVE  /\ Hops(w, a) \subseteq Media
           /\ Hops(w, a) = {} => w = SlaveAt(a)
  <1>1. system # "bus" /\ Media = Switches(system) /\ SlaveAt(a) \in Slaves
    BY Located DEF Media
  <1>2. w # SlaveAt(a) => Hops(w, a) = Predecessors[system][SlaveAt(a)][w]
    BY DEF Hops
  <1>3. Predecessors[system][SlaveAt(a)][w] \subseteq Switches(system)
    BY <1>1 DEF Predecessors
  <1> QED
    BY <1>1, <1>2, <1>3 DEF Hops, Connected

LEMMA Starts ==
    ASSUME Init PROVE RouteInv
  <1>1. PICK m \in Masters : Commands[m] # {}
    BY InterconnectAssumption
  <1>2. (CHOOSE c \in UNION { Commands[u] : u \in Masters } : TRUE) \in Commanded
    BY <1>1, InterconnectAssumption DEF Commanded
  <1>3. \A S : <<>> \in Seq(S)
    BY EmptySeq
  <1> QED
    BY <1>2, <1>3 DEF Init, RouteInv

\* lock() of the medium v by m, with the stack p that ends in v.
LEMMA EntersKeeps ==
    ASSUME RouteInv, NEW m \in Masters, NEW v \in Media, NEW p \in Seq(Media), p # <<>>, Last(p) = v,
           NEW pcs, DOMAIN pcs = Masters, NEW media, Enters(m, v, p, pcs, media)
    PROVE  /\ DOMAIN pc' = Masters /\ DOMAIN path' = Masters
           /\ path'[m] = p /\ Top(m)' = v
           /\ pc'[m] \in {"waits", "works", "crosses"} /\ (pc'[m] = "works" => v = Bus)
           /\ \A u \in Masters \ {m} : pc'[u] = pcs[u] /\ path'[u] = path[u]
  BY DEF Enters, RouteInv, Has, Top

-----------------------------------------------------------------------------
(* Every step keeps RouteInv *)

LEMMA CallKeeps ==
    ASSUME Connected, RouteInv, NEW m \in Masters, Call(m)
    PROVE  RouteInv'
  <1>1. PICK c \in Commands[m] : command' = [command EXCEPT ![m] = c]
    BY DEF Call
  <1>2. c \in Commanded /\ performed' = [performed EXCEPT ![m] = FALSE]
        /\ UNCHANGED <<system, cells, data>> /\ Media' = Media
    BY InterconnectAssumption DEF Call, Commanded, Media
  <1>3. PICK v \in Media : \E media : Enters(m, v, <<v>>, pc, media)
    <2>1. CASE system = "bus"
      BY <2>1 DEF Call, Media
    <2>2. CASE system # "bus"
      <3>1. m \in Media /\ Enters(m, m, <<m>>, pc, medium)
        BY <2>2 DEF Call, RouteInv, Connected, Media
      <3> QED BY <3>1
    <2> QED BY <2>1, <2>2
  <1>4. <<v>> \in Seq(Media) /\ <<v>> # <<>> /\ Last(<<v>>) = v /\ DOMAIN pc = Masters
    BY Single DEF RouteInv
  <1>5. /\ DOMAIN pc' = Masters /\ DOMAIN path' = Masters
        /\ path'[m] = <<v>> /\ Top(m)' = v
        /\ pc'[m] \in {"waits", "works", "crosses"} /\ (pc'[m] = "works" => v = Bus)
        /\ \A u \in Masters \ {m} : pc'[u] = pc[u] /\ path'[u] = path[u]
    BY <1>3, <1>4, EntersKeeps
  <1> QED
    BY <1>1, <1>2, <1>4, <1>5 DEF RouteInv, Top

LEMMA ResumeKeeps ==
    ASSUME RouteInv, NEW m \in Masters, Resume(m)
    PROVE  RouteInv'
  BY DEF Resume, RouteInv, Has, Top, Media

LEMMA PerformKeeps ==
    ASSUME RouteInv, NEW m \in Masters, Perform(m)
    PROVE  RouteInv'
  <1>1. DOMAIN cells' = Slaves /\ \A s \in Slaves : DOMAIN cells'[s] = DOMAIN cells[s]
    BY DEF Perform, RouteInv
  <1>2. DOMAIN data' = Masters
    BY DEF Perform, RouteInv
  <1> QED
    BY <1>1, <1>2 DEF Perform, RouteInv, Top, Media

LEMMA AnswerKeeps ==
    ASSUME RouteInv, NEW m \in Masters, Answer(m)
    PROVE  RouteInv'
  <1>1. UNCHANGED <<system, command, performed, cells, data>> /\ Media' = Media
        /\ pc[m] = "answered" /\ performed[m] /\ path[m] \in Seq(Media) /\ path[m] # <<>>
    BY DEF Answer, RouteInv, Media
  <1>2. CASE Top(m) = Bus /\ pc' = [pc EXCEPT ![m] = "crosses"] /\ UNCHANGED path
    BY <1>1, <1>2 DEF RouteInv, Top
  <1>3. CASE Top(m) # Bus /\ Enters(m, Top(m), path[m], pc, medium)
    <2>1. Last(path[m]) = Top(m) /\ Top(m) \in Media /\ DOMAIN pc = Masters
      BY <1>1, Stacks DEF Top, RouteInv
    <2>2. /\ DOMAIN pc' = Masters /\ DOMAIN path' = Masters
          /\ path'[m] = path[m] /\ Top(m)' = Top(m)
          /\ pc'[m] \in {"waits", "works", "crosses"} /\ (pc'[m] = "works" => Top(m) = Bus)
          /\ \A u \in Masters \ {m} : pc'[u] = pc[u] /\ path'[u] = path[u]
      BY <1>1, <1>3, <2>1, EntersKeeps
    <2> QED BY <1>1, <1>3, <2>2 DEF RouteInv, Top
  <1>4. CASE Returns(m, pc)
    <2>1. <<>> \in Seq(Media)
      BY EmptySeq
    <2> QED BY <1>1, <1>4, <2>1 DEF Returns, RouteInv, Top
  <1> QED
    BY <1>2, <1>3, <1>4 DEF Answer

LEMMA CrossKeeps ==
    ASSUME Connected, RouteInv, NEW m \in Masters, Cross(m)
    PROVE  RouteInv'
  <1> DEFINE w     == Top(m)
             pcs   == [u \in Masters |-> IF u \in Notified(w) THEN "woken" ELSE pc[u]]
             media == [medium EXCEPT ![w] = Unlock(@)]
             a     == command[m].address
  <1>1. UNCHANGED <<system, command, performed, cells, data>> /\ Media' = Media
        /\ pc[m] = "crosses" /\ path[m] \in Seq(Media) /\ path[m] # <<>> /\ a \in Addresses
    BY DEF Cross, RouteInv, Media, Commanded
  <1>2. w \in Media /\ Front(path[m]) \in Seq(Media)
    BY <1>1, Stacks DEF Top
  <1>3. /\ DOMAIN pcs = Masters
        /\ \A u \in Masters : pcs[u] = pc[u] \/ (pc[u] = "waits" /\ pcs[u] = "woken")
    BY DEF Notified
  <1> HIDE DEF pcs, media
  <1>4. ASSUME NEW v \in Media, NEW p \in Seq(Media), p # <<>>, Last(p) = v, Enters(m, v, p, pcs, media)
        PROVE  RouteInv'
    <2>1. /\ DOMAIN pc' = Masters /\ DOMAIN path' = Masters
          /\ path'[m] = p /\ Top(m)' = v
          /\ pc'[m] \in {"waits", "works", "crosses"} /\ (pc'[m] = "works" => v = Bus)
          /\ \A u \in Masters \ {m} : pc'[u] = pcs[u] /\ path'[u] = path[u]
      BY <1>3, <1>4, EntersKeeps
    <2> QED BY <1>1, <1>3, <1>4, <2>1 DEF RouteInv, Top
  <1>5. ASSUME w # Bus, NEW v \in Hops(w, a), Enters(m, v, Append(path[m], v), pcs, media)
        PROVE  RouteInv'
    <2>1. v \in Media
      BY <1>1, <1>2, <1>5, HopsLead DEF RouteInv
    <2>2. Append(path[m], v) \in Seq(Media) /\ Append(path[m], v) # <<>> /\ Last(Append(path[m], v)) = v
      BY <1>1, <2>1, Push
    <2> QED BY <1>4, <1>5, <2>1, <2>2
  <1>6. ASSUME w # Bus, Hops(w, a) = {}, pc' = [pcs EXCEPT ![m] = "works"], UNCHANGED path
        PROVE  RouteInv'
    <2>1. w = SlaveAt(a)
      BY <1>1, <1>2, <1>6, HopsLead DEF RouteInv
    <2> QED BY <1>1, <1>3, <1>6, <2>1 DEF RouteInv, Top
  <1>7. ASSUME Len(path[m]) > 1, Enters(m, path[m][Len(path[m]) - 1], Front(path[m]), pcs, media)
        PROVE  RouteInv'
    <2>1. /\ Front(path[m]) # <<>> /\ path[m][Len(path[m]) - 1] \in Media
          /\ Last(Front(path[m])) = path[m][Len(path[m]) - 1]
      BY <1>1, <1>7, Stacks
    <2> QED BY <1>2, <1>4, <1>7, <2>1
  <1>8. ASSUME Returns(m, pcs)
        PROVE  RouteInv'
    <2>1. <<>> \in Seq(Media)
      BY EmptySeq
    <2> QED BY <1>1, <1>3, <1>8, <2>1 DEF Returns, RouteInv, Top
  <1> QED
    BY <1>5, <1>6, <1>7, <1>8 DEF Cross, pcs, media

LEMMA RouteInvStep ==
    ASSUME Connected, RouteInv, [Next]_vars
    PROVE  RouteInv'
  <1>1. CASE UNCHANGED vars
    BY <1>1 DEF vars, RouteInv, Top, Media
  <1> QED
    BY <1>1, CallKeeps, ResumeKeeps, PerformKeeps, AnswerKeeps, CrossKeeps DEF Next, Proceed

-----------------------------------------------------------------------------
(* Every step is one of RemoteMemory, or none *)

\* A step that reads and writes no cell, and takes nobody but perhaps m from one phase to
\* the next, leaves the rest of the abstract memory alone.
LEMMA InvokeStep ==
    ASSUME RouteInv, NEW m \in Masters, Call(m)
    PROVE  Remote!Invoke(m)
  <1>1. PICK c \in Commands[m] : command' = [command EXCEPT ![m] = c]
    BY DEF Call
  <1>2. c \in Remote!Accesses
    BY InterconnectAssumption DEF Remote!Accesses
  <1>3. PICK v, p, media : Enters(m, v, p, pc, media)
    BY DEF Call
  <1>4. /\ DOMAIN pc = Masters /\ DOMAIN performed = Masters
        /\ pc[m] = "idle" /\ pc'[m] \in {"waits", "works", "crosses"}
        /\ \A u \in Masters \ {m} : pc'[u] = pc[u]
        /\ performed' = [performed EXCEPT ![m] = FALSE]
        /\ UNCHANGED <<cells, data>>
    BY <1>3 DEF Call, Enters, Has, RouteInv
  <1> QED
    BY <1>1, <1>2, <1>4 DEF Remote!Invoke

LEMMA PerformStep ==
    ASSUME RouteInv, NEW m \in Masters, Perform(m)
    PROVE  Remote!Perform(m)
  <1> DEFINE a == command[m].address
             s == SlaveAt(a)
             i == a - Start[s]
  <1>1. a \in Addresses /\ command[m].op \in {"read", "write"}
    BY DEF RouteInv, Commanded
  <1>2. /\ s \in Slaves /\ i \in DOMAIN cells[s]
        /\ \A b \in Addresses : SlaveAt(b) = s /\ b - Start[s] = i => b = a
    <2>1. s \in Slaves /\ i \in 0 .. End[s] - Start[s] /\ a \in Nat /\ Start[s] \in Nat
      BY <1>1, Located
    <2>2. \A b \in Addresses : b \in Nat
      BY Located
    <2>3. i \in DOMAIN cells[s]
      BY <2>1 DEF RouteInv
    <2>4. PICK first \in Nat : first = Start[s] /\ a \in Nat
      BY <2>1
    <2>5. ASSUME NEW b \in Addresses, b - first = a - first PROVE b = a
      <3> HIDE DEF a
      <3> QED BY <2>2, <2>4, <2>5
    <2> QED BY <2>1, <2>3, <2>4, <2>5
  <1>3. (IF Top(m) = Bus THEN SlaveAt(a) ELSE Top(m)) = s
    BY DEF Perform, RouteInv
  <1> DEFINE mem == [b \in Addresses |-> cells[SlaveAt(b)][b - Start[SlaveAt(b)]]]
  <1>4. /\ pc[m] = "works" /\ DOMAIN pc = Masters /\ DOMAIN performed = Masters
        /\ pc' = [pc EXCEPT ![m] = "answered"]
        /\ performed' = [performed EXCEPT ![m] = TRUE] /\ UNCHANGED command
    BY DEF Perform, RouteInv
  <1>5. CASE command[m].op = "read"
    <2>1. data' = [data EXCEPT ![m] = cells[s][i]] /\ UNCHANGED cells
      BY <1>3, <1>5 DEF Perform
    <2>2. mem[a] = cells[s][i]
      BY <1>1
    <2> QED BY <1>4, <1>5, <2>1, <2>2 DEF Remote!Perform
  <1>6. CASE command[m].op = "write"
    <2>1. cells' = [cells EXCEPT ![s][i] = m] /\ UNCHANGED data
      BY <1>3, <1>6 DEF Perform
    <2>2. \A b \in Addresses :
             cells'[SlaveAt(b)][b - Start[SlaveAt(b)]] = IF b = a THEN m ELSE mem[b]
      BY <1>2, <2>1, Located DEF RouteInv
    <2>3. mem' = [mem EXCEPT ![a] = m]
      BY <1>1, <2>2
    <2> QED BY <1>4, <1>6, <2>1, <2>3 DEF Remote!Perform
  <1> QED
    BY <1>1, <1>5, <1>6

\* The threads go on, and nobody calls or returns.
LEMMA Between ==
    ASSUME RouteInv, UNCHANGED <<command, performed, cells, data>>,
           \A u \in Masters : pc'[u] = "idle" <=> pc[u] = "idle"
    PROVE  UNCHANGED Remote!vars
  BY DEF Remote!vars

LEMMA ReturnStep ==
    ASSUME RouteInv, NEW m \in Masters, UNCHANGED <<command, performed, cells, data>>,
           performed[m], pc[m] # "idle", pc'[m] = "idle",
           \A u \in Masters \ {m} : pc'[u] = "idle" <=> pc[u] = "idle"
    PROVE  Remote!Return(m)
  BY DEF Remote!Return

LEMMA AnswerStep ==
    ASSUME RouteInv, NEW m \in Masters, Answer(m)
    PROVE  Remote!Return(m) \/ UNCHANGED Remote!vars
  <1>1. UNCHANGED <<command, performed, cells, data>> /\ pc[m] = "answered" /\ performed[m]
        /\ DOMAIN pc = Masters
    BY DEF Answer, RouteInv
  <1>2. CASE pc' = [pc EXCEPT ![m] = "crosses"]
    BY <1>1, <1>2, Between
  <1>3. CASE Enters(m, Top(m), path[m], pc, medium)
    BY <1>1, <1>3, Between DEF Enters, Has
  <1>4. CASE Returns(m, pc)
    BY <1>1, <1>4, ReturnStep DEF Returns
  <1> QED
    BY <1>2, <1>3, <1>4 DEF Answer

LEMMA CrossRoute ==
    ASSUME RouteInv, NEW m \in Masters, Cross(m)
    PROVE  Remote!Return(m) \/ UNCHANGED Remote!vars
  <1> DEFINE pcs == [u \in Masters |-> IF u \in Notified(Top(m)) THEN "woken" ELSE pc[u]]
  <1>1. UNCHANGED <<command, performed, cells, data>> /\ pc[m] = "crosses"
    BY DEF Cross
  <1>2. DOMAIN pcs = Masters /\ \A u \in Masters : pcs[u] = "idle" <=> pc[u] = "idle"
    BY DEF Notified
  <1> HIDE DEF pcs
  <1>3. CASE \E v, p, media : Enters(m, v, p, pcs, media)
    <2>1. /\ pc'[m] \in {"waits", "works", "crosses"}
          /\ \A u \in Masters \ {m} : pc'[u] = pcs[u]
      BY <1>2, <1>3 DEF Enters, Has
    <2> QED BY <1>1, <1>2, <2>1, Between
  <1>4. CASE pc' = [pcs EXCEPT ![m] = "works"]
    BY <1>1, <1>2, <1>4, Between
  <1>5. CASE performed[m] /\ Returns(m, pcs)
    BY <1>1, <1>2, <1>5, ReturnStep DEF Returns
  <1> QED
    BY <1>3, <1>4, <1>5 DEF Cross, pcs

LEMMA RemoteStep ==
    ASSUME RouteInv, [Next]_vars
    PROVE  [Remote!Next]_(Remote!vars)
  <1>1. CASE UNCHANGED vars
    BY <1>1 DEF vars, Remote!vars
  <1>2. ASSUME NEW m \in Masters, Resume(m) PROVE UNCHANGED Remote!vars
    <2>1. \A u \in Masters : pc'[u] = "idle" <=> pc[u] = "idle"
      BY <1>2 DEF Resume, Has, RouteInv
    <2> QED BY <1>2, <2>1, Between DEF Resume
  <1> QED
    BY <1>1, <1>2, InvokeStep, PerformStep, AnswerStep, CrossRoute DEF Next, Proceed, Remote!Next

LEMMA RemoteInit ==
    ASSUME Init PROVE Remote!Init
  <1>1. PICK u \in Masters : Commands[u] # {}
    BY InterconnectAssumption
  <1>2. (CHOOSE c \in UNION { Commands[m] : m \in Masters } : TRUE) \in Remote!Accesses
    BY <1>1, InterconnectAssumption DEF Remote!Accesses
  <1>3. 1 \in Masters
    BY InterconnectAssumption DEF Masters
  <1>4. \A a \in Addresses : cells[SlaveAt(a)][a - Start[SlaveAt(a)]] = 1
    BY Located DEF Init
  <1> QED
    BY <1>2, <1>3, <1>4 DEF Init, Remote!Init

\* b_transport of the bus and of the network is a call of a memory: the access is
\* performed at the slave and the cell that the address names, by the time it returns,
\* whatever the topology, the routes and the other masters do.
THEOREM CallsAreCarriedOut ==
    ASSUME Connected
    PROVE  Spec => ImplementsCalls
  <1>1. Init => RouteInv /\ Remote!Init
    BY Starts, RemoteInit
  <1>2. RouteInv /\ [Next]_vars => RouteInv'
    BY RouteInvStep
  <1>3. RouteInv /\ [Next]_vars => [Remote!Next]_(Remote!vars)
    BY RemoteStep
  <1> QED
    BY <1>1, <1>2, <1>3, PTL DEF Spec, ImplementsCalls, Remote!Spec

=============================================================================
