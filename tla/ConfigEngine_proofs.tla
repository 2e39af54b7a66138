-------------------------- MODULE ConfigEngine_proofs --------------------------
(***************************************************************************)
(* Theorems of ConfigEngine, for any number of threads, functions, devices, *)
(* calls and addresses.                                                    *)
(***************************************************************************)
EXTENDS ConfigEngine, FiniteSetTheorems, TLAPS

-----------------------------------------------------------------------------
(* The locks of the addresses *)

\* Where a thread has nothing to do with them, and where it waits for one or has
\* just been given it.
Outside == {"idle", "calling", "queued", "request", "evicting", "removing"}
Waiting == {"turn", "victim", "removal"}
Places  == Outside \cup Waiting \cup Working

\* HoldsLock, for any locks L, places P and addresses A of the threads.
Holds(L, P, A, t) ==
    \/ P[t] \in Working
    \/ P[t] \in Waiting /\ t \notin ToSet(L.wake[A[t]])

LockTypes(L, P, A) ==
    /\ L \in [executing : SUBSET Addresses, wake : [Addresses -> Seq(Threads)]]
    /\ P \in [Threads -> Places]
    /\ A \in [Threads -> Addresses \cup {0}]

\* Who is not outside is at a locked address.
AtLocked(L, P, A) == \A t \in Threads : P[t] \notin Outside => A[t] \in L.executing

\* Who is in a queue waits for that address, and is there once.
InLine(L, P, A) ==
    \A a \in Addresses : \A i \in DOMAIN L.wake[a] :
        /\ P[L.wake[a][i]] \in Waiting /\ A[L.wake[a][i]] = a
        /\ \A j \in DOMAIN L.wake[a] : L.wake[a][i] = L.wake[a][j] => i = j

Owned(L, P, A) == \A a \in L.executing : \E t \in Threads : Holds(L, P, A, t) /\ A[t] = a

OneOwner(L, P, A) ==
    \A t, u \in Threads : Holds(L, P, A, t) /\ Holds(L, P, A, u) /\ A[t] = A[u] => t = u

LocksOK(L, P, A) ==
    /\ LockTypes(L, P, A) /\ AtLocked(L, P, A) /\ InLine(L, P, A)
    /\ Owned(L, P, A) /\ OneOwner(L, P, A)

\* A thread that is outside takes a free address.
LEMMA Acquire ==
    ASSUME NEW L, NEW P, NEW A, LocksOK(L, P, A),
           NEW t \in Threads, P[t] \in Outside,
           NEW a \in Addresses, a \notin L.executing, NEW w \in Working
    PROVE  LocksOK([L EXCEPT !.executing = @ \cup {a}], [P EXCEPT ![t] = w], [A EXCEPT ![t] = a])
<1> DEFINE M == [L EXCEPT !.executing = @ \cup {a}]
           Q == [P EXCEPT ![t] = w]
           B == [A EXCEPT ![t] = a]
<1> USE DEF LocksOK
<1>0. LockTypes(L, P, A) /\ w \in Places /\ w \notin Outside /\ M.wake = L.wake
      /\ M.executing = L.executing \cup {a}
  BY DEF Places, Working, Outside, LockTypes
<1>1. LockTypes(M, Q, B)
  BY <1>0 DEF LockTypes
<1>2. AtLocked(M, Q, B)
  BY <1>0 DEF LockTypes, AtLocked
<1>3. ASSUME NEW b \in Addresses, NEW i \in DOMAIN L.wake[b] PROVE L.wake[b][i] \in Threads \ {t}
  <2>1. L.wake[b] \in Seq(Threads)
    BY <1>0 DEF LockTypes
  <2>2. L.wake[b][i] \in Threads
    BY <2>1
  <2>3. P[L.wake[b][i]] \in Waiting
    BY DEF InLine
  <2> QED BY <2>2, <2>3 DEF Outside, Waiting
<1>4. InLine(M, Q, B)
  BY <1>0, <1>3 DEF LockTypes, InLine
<1>5. \A u \in Threads \ {t} : Q[u] = P[u] /\ B[u] = A[u]
  BY <1>0 DEF LockTypes
<1>6. Q[t] = w /\ B[t] = a
  BY <1>0 DEF LockTypes
<1>7. \A u \in Threads \ {t} : Holds(M, Q, B, u) <=> Holds(L, P, A, u)
  BY <1>0, <1>5 DEF Holds
<1>8. Holds(M, Q, B, t) /\ ~Holds(L, P, A, t)
  BY <1>6 DEF Holds, Outside, Waiting, Working
<1>9. Owned(M, Q, B)
  BY <1>0, <1>5, <1>6, <1>7, <1>8 DEF Owned
<1>10. OneOwner(M, Q, B)
  <2>1. \A u \in Threads \ {t} : Holds(L, P, A, u) => A[u] # a
    BY DEF AtLocked, Holds, Working, Waiting, Outside
  <2> QED BY <2>1, <1>5, <1>6, <1>7, <1>8 DEF OneOwner
<1> QED BY <1>1, <1>2, <1>4, <1>9, <1>10

\* A thread that is outside queues for an address that is locked.
LEMMA QueueUp ==
    ASSUME NEW L, NEW P, NEW A, LocksOK(L, P, A),
           NEW t \in Threads, P[t] \in Outside,
           NEW a \in Addresses, a \in L.executing, NEW w \in Waiting
    PROVE  LocksOK([L EXCEPT !.wake[a] = Append(@, t)], [P EXCEPT ![t] = w], [A EXCEPT ![t] = a])
<1> DEFINE M == [L EXCEPT !.wake[a] = Append(@, t)]
           Q == [P EXCEPT ![t] = w]
           B == [A EXCEPT ![t] = a]
<1> USE DEF LocksOK
<1>0. /\ LockTypes(L, P, A) /\ w \in Places /\ w \notin Outside /\ w \notin Working
      /\ M.executing = L.executing
      /\ M.wake = [L.wake EXCEPT ![a] = Append(@, t)]
  BY DEF Places, Working, Waiting, Outside, LockTypes
<1>1. LockTypes(M, Q, B)
  <2>1. L.wake[a] \in Seq(Threads)
    BY <1>0 DEF LockTypes
  <2>2. Append(L.wake[a], t) \in Seq(Threads)
    BY <2>1
  <2>3. M \in [executing : SUBSET Addresses, wake : [Addresses -> Seq(Threads)]]
    BY <2>2, <1>0 DEF LockTypes
  <2> QED BY <2>3, <1>0 DEF LockTypes
<1>2. AtLocked(M, Q, B)
  BY <1>0 DEF LockTypes, AtLocked
<1>3. \A b \in Addresses : \A i \in DOMAIN L.wake[b] : L.wake[b][i] \in Threads \ {t}
  BY <1>0 DEF LockTypes, InLine, Outside, Waiting
<1>4. /\ \A u \in Threads \ {t} : Q[u] = P[u] /\ B[u] = A[u]
      /\ Q[t] = w /\ B[t] = a
  BY <1>0 DEF LockTypes
<1>5. /\ \A b \in Addresses \ {a} : M.wake[b] = L.wake[b]
      /\ L.wake[a] \in Seq(Threads) /\ M.wake[a] = Append(L.wake[a], t)
  BY <1>0 DEF LockTypes
<1>6. /\ DOMAIN M.wake[a] = 1 .. Len(L.wake[a]) + 1
      /\ DOMAIN L.wake[a] = 1 .. Len(L.wake[a])
      /\ \A i \in DOMAIN L.wake[a] : M.wake[a][i] = L.wake[a][i]
      /\ M.wake[a][Len(L.wake[a]) + 1] = t
      /\ Len(L.wake[a]) \in Nat
  BY <1>5
<1>7. InLine(M, Q, B)
  <2> SUFFICES ASSUME NEW b \in Addresses, NEW i \in DOMAIN M.wake[b]
               PROVE  /\ Q[M.wake[b][i]] \in Waiting /\ B[M.wake[b][i]] = b
                      /\ \A j \in DOMAIN M.wake[b] : M.wake[b][i] = M.wake[b][j] => i = j
    BY DEF InLine
  <2>1. CASE b # a
    BY <2>1, <1>3, <1>4, <1>5 DEF InLine
  <2>2. CASE b = a
    <3>1. CASE i \in DOMAIN L.wake[a]
      BY <3>1, <2>2, <1>3, <1>4, <1>6 DEF InLine
    <3>2. CASE i = Len(L.wake[a]) + 1
      BY <3>2, <2>2, <1>3, <1>4, <1>6
    <3> QED BY <3>1, <3>2, <2>2, <1>6
  <2> QED BY <2>1, <2>2
<1>8. \A u \in Threads \ {t} : Holds(M, Q, B, u) <=> Holds(L, P, A, u)
  <2> SUFFICES ASSUME NEW u \in Threads \ {t}, P[u] \in Waiting
               PROVE  u \in ToSet(M.wake[A[u]]) <=> u \in ToSet(L.wake[A[u]])
    BY <1>4 DEF Holds
  <2>1. A[u] \in Addresses
    BY <1>0 DEF AtLocked, LockTypes, Waiting, Outside
  <2> QED BY <2>1, <1>5, <1>6 DEF ToSet
<1>9. ~Holds(M, Q, B, t) /\ ~Holds(L, P, A, t)
  BY <1>0, <1>4, <1>6 DEF Holds, ToSet, Outside, Waiting, Working
<1>10. Owned(M, Q, B)
  BY <1>0, <1>4, <1>8, <1>9 DEF Owned
<1>11. OneOwner(M, Q, B)
  BY <1>4, <1>8, <1>9 DEF OneOwner
<1> QED BY <1>1, <1>2, <1>7, <1>10, <1>11

\* Who holds a lock gives it up: to the first in line, or to nobody.
LEMMA Release ==
    ASSUME NEW L, NEW P, NEW A, LocksOK(L, P, A),
           NEW t \in Threads, Holds(L, P, A, t), NEW w \in Outside, NEW x \in Addresses \cup {0}
    PROVE  /\ LocksOK(ExecUnlock(L, A[t]), [P EXCEPT ![t] = w], [A EXCEPT ![t] = x])
           /\ A[t] \in L.executing /\ A[t] \in Addresses
           /\ ExecUnlock(L, A[t]).executing \subseteq L.executing
<1> DEFINE a == A[t]
           M == ExecUnlock(L, a)
           Q == [P EXCEPT ![t] = w]
           B == [A EXCEPT ![t] = x]
<1> USE DEF LocksOK
<1>0. /\ LockTypes(L, P, A) /\ w \in Places /\ w \notin Waiting /\ w \notin Working
      /\ a \in L.executing /\ a \in Addresses /\ L.wake[a] \in Seq(Threads)
  BY DEF Places, Working, Waiting, Outside, LockTypes, AtLocked, Holds
<1>1. /\ \A u \in Threads \ {t} : Q[u] = P[u] /\ B[u] = A[u]
      /\ Q[t] = w /\ B[t] = x
  BY <1>0 DEF LockTypes
<1>2. \A b \in Addresses : \A i \in DOMAIN L.wake[b] : L.wake[b][i] \in Threads \ {t}
  BY <1>0 DEF LockTypes, InLine, Holds, Waiting, Working, ToSet
<1>3. ~Holds(M, Q, B, t)
  BY <1>0, <1>1 DEF Holds
<1>4. CASE L.wake[a] = <<>>
  <2>1. M.executing = L.executing \ {a} /\ M.wake = L.wake
    BY <1>4, <1>0 DEF ExecUnlock, LockTypes
  <2>2. LockTypes(M, Q, B)
    BY <1>4, <1>0 DEF ExecUnlock, LockTypes
  <2>3. \A u \in Threads \ {t} : Holds(M, Q, B, u) <=> Holds(L, P, A, u)
    BY <2>1, <1>1 DEF Holds
  <2>4. \A u \in Threads \ {t} : P[u] \notin Outside => A[u] # a
    <3> SUFFICES ASSUME NEW u \in Threads \ {t}, P[u] \notin Outside, A[u] = a PROVE FALSE
      OBVIOUS
    <3>1. u \notin ToSet(L.wake[a])
      BY <1>4 DEF ToSet
    <3>2. Holds(L, P, A, u)
      BY <3>1, <1>0 DEF Holds, LockTypes, Places
    <3> QED BY <3>2 DEF OneOwner
  <2>5. AtLocked(M, Q, B)
    BY <2>1, <2>4, <1>0, <1>1 DEF AtLocked
  <2>6. InLine(M, Q, B)
    BY <2>1, <1>1, <1>2 DEF InLine
  <2>7. Owned(M, Q, B)
    BY <2>1, <2>3, <1>1, <1>0 DEF Owned
  <2>8. OneOwner(M, Q, B)
    BY <2>3, <1>1, <1>3 DEF OneOwner
  <2> QED BY <2>1, <2>2, <2>5, <2>6, <2>7, <2>8, <1>0
<1>5. CASE L.wake[a] # <<>>
  <2> DEFINE h == Head(L.wake[a])
  <2>1. /\ M.executing = L.executing
        /\ M.wake = [L.wake EXCEPT ![a] = Tail(@)]
        /\ M \in [executing : SUBSET Addresses, wake : [Addresses -> Seq(Threads)]]
    <3>1. Tail(L.wake[a]) \in Seq(Threads)
      BY <1>5, <1>0
    <3>2. M = [L EXCEPT !.wake[a] = Tail(@)]
      BY <1>5 DEF ExecUnlock
    <3>3. L.wake \in [Addresses -> Seq(Threads)] /\ L.executing \in SUBSET Addresses
      BY <1>0 DEF LockTypes
    <3>4. M.executing = L.executing /\ M.wake = [L.wake EXCEPT ![a] = Tail(@)]
      BY <3>2, <1>0 DEF LockTypes
    <3>5. M.wake \in [Addresses -> Seq(Threads)]
      BY <3>1, <3>3, <3>4
    <3> QED BY <3>2, <3>3, <3>4, <3>5, <1>0 DEF LockTypes
  <2>2. LockTypes(M, Q, B)
    BY <2>1, <1>0 DEF LockTypes
  <2>3. /\ \A b \in Addresses \ {a} : M.wake[b] = L.wake[b]
        /\ M.wake[a] = Tail(L.wake[a])
    BY <2>1, <1>0 DEF LockTypes
  <2>4. /\ Len(L.wake[a]) \in Nat \ {0} /\ DOMAIN L.wake[a] = 1 .. Len(L.wake[a])
        /\ DOMAIN M.wake[a] = 1 .. Len(L.wake[a]) - 1
        /\ \A i \in DOMAIN M.wake[a] : M.wake[a][i] = L.wake[a][i + 1]
        /\ h = L.wake[a][1] /\ h \in Threads \ {t}
    <3>1. /\ Len(L.wake[a]) \in Nat \ {0} /\ DOMAIN L.wake[a] = 1 .. Len(L.wake[a])
          /\ DOMAIN Tail(L.wake[a]) = 1 .. Len(L.wake[a]) - 1
          /\ \A i \in DOMAIN Tail(L.wake[a]) : Tail(L.wake[a])[i] = L.wake[a][i + 1]
          /\ h = L.wake[a][1]
      BY <1>0, <1>5
    <3> QED BY <3>1, <2>3, <1>2, <1>0
  <2>5. P[h] \in Waiting /\ A[h] = a
    BY <2>4, <1>0 DEF InLine
  <2>6. h \notin ToSet(M.wake[a])
    <3> SUFFICES ASSUME NEW i \in DOMAIN M.wake[a], M.wake[a][i] = h PROVE FALSE
      BY DEF ToSet
    <3>1. i + 1 \in DOMAIN L.wake[a] /\ 1 \in DOMAIN L.wake[a] /\ i + 1 # 1
      BY <2>4
    <3>2. L.wake[a][i + 1] = L.wake[a][1]
      BY <2>4
    <3> QED BY <3>1, <3>2, <1>0 DEF InLine
  <2>7. Holds(M, Q, B, h)
    BY <2>4, <2>5, <2>6, <1>1 DEF Holds
  <2>8. \A u \in Threads \ {t, h} : Holds(M, Q, B, u) <=> Holds(L, P, A, u)
    <3> SUFFICES ASSUME NEW u \in Threads \ {t, h}, P[u] \in Waiting
                 PROVE  u \in ToSet(M.wake[A[u]]) <=> u \in ToSet(L.wake[A[u]])
      BY <1>1 DEF Holds
    <3>1. A[u] \in Addresses
      BY <1>0 DEF AtLocked, LockTypes, Waiting, Outside
    <3>2. CASE A[u] # a
      BY <3>1, <3>2, <2>3
    <3>3. CASE A[u] = a
      <4>1. ASSUME u \in ToSet(L.wake[a]) PROVE u \in ToSet(M.wake[a])
        <5>1. PICK i \in DOMAIN L.wake[a] : u = L.wake[a][i]
          BY <4>1 DEF ToSet
        <5>2. i # 1
          BY <5>1, <2>4
        <5>3. i - 1 \in DOMAIN M.wake[a] /\ (i - 1) + 1 = i
          BY <5>1, <5>2, <2>4
        <5> QED BY <5>1, <5>3, <2>4 DEF ToSet
      <4>2. ASSUME u \in ToSet(M.wake[a]) PROVE u \in ToSet(L.wake[a])
        <5>1. PICK i \in DOMAIN M.wake[a] : u = M.wake[a][i]
          BY <4>2 DEF ToSet
        <5>2. i + 1 \in DOMAIN L.wake[a] /\ u = L.wake[a][i + 1]
          BY <5>1, <2>4
        <5> QED BY <5>2 DEF ToSet
      <4> QED BY <3>3, <4>1, <4>2
    <3> QED BY <3>2, <3>3
  <2>9. AtLocked(M, Q, B)
    BY <2>1, <1>0, <1>1 DEF AtLocked
  <2>10. InLine(M, Q, B)
    <3> SUFFICES ASSUME NEW b \in Addresses, NEW i \in DOMAIN M.wake[b]
                 PROVE  /\ Q[M.wake[b][i]] \in Waiting /\ B[M.wake[b][i]] = b
                        /\ \A j \in DOMAIN M.wake[b] : M.wake[b][i] = M.wake[b][j] => i = j
      BY DEF InLine
    <3>1. CASE b # a
      BY <3>1, <2>3, <1>1, <1>2 DEF InLine
    <3>2. CASE b = a
      <4>1. i + 1 \in DOMAIN L.wake[a] /\ M.wake[a][i] = L.wake[a][i + 1] /\ i \in Int
        BY <3>2, <2>4
      <4>2. \A j \in DOMAIN M.wake[a] : j + 1 \in DOMAIN L.wake[a] /\ j \in Int
        BY <2>4
      <4>3. ASSUME NEW j \in DOMAIN M.wake[a], M.wake[a][i] = M.wake[a][j] PROVE i = j
        <5>1. L.wake[a][i + 1] = L.wake[a][j + 1]
          BY <4>1, <4>3, <2>4
        <5>2. i + 1 \in DOMAIN L.wake[a] /\ j + 1 \in DOMAIN L.wake[a]
          BY <4>1, <4>2
        <5>3. i + 1 = j + 1
          BY <5>1, <5>2, <1>0 DEF InLine
        <5> QED BY <5>3, <4>1, <4>2
      <4>4. Q[M.wake[a][i]] \in Waiting /\ B[M.wake[a][i]] = a
        BY <4>1, <1>0, <1>1, <1>2 DEF InLine
      <4> QED BY <3>2, <4>3, <4>4
    <3> QED BY <3>1, <3>2
  <2>11. ~Holds(L, P, A, h)
    <3>1. h \in ToSet(L.wake[a])
      BY <2>4 DEF ToSet
    <3> QED BY <3>1, <2>5 DEF Holds, Waiting, Working
  <2>12. Owned(M, Q, B)
    <3> SUFFICES ASSUME NEW b \in L.executing
                 PROVE  \E u \in Threads : Holds(M, Q, B, u) /\ B[u] = b
      BY <2>1 DEF Owned
    <3>1. CASE b = a
      BY <3>1, <2>4, <2>5, <2>7, <1>1
    <3>2. CASE b # a
      <4>1. PICK u \in Threads : Holds(L, P, A, u) /\ A[u] = b
        BY DEF Owned
      <4>2. u # t /\ u # h
        BY <4>1, <3>2, <2>11
      <4> QED BY <4>1, <4>2, <2>8, <1>1
    <3> QED BY <3>1, <3>2
  <2>13. OneOwner(M, Q, B)
    <3> SUFFICES ASSUME NEW u \in Threads, NEW v \in Threads,
                        Holds(M, Q, B, u), Holds(M, Q, B, v), B[u] = B[v]
                 PROVE  u = v
      BY DEF OneOwner
    <3>1. u # t /\ v # t /\ A[u] = A[v]
      BY <1>1, <1>3
    <3>2. \A y \in Threads \ {t, h} : Holds(M, Q, B, y) => A[y] # a
      BY <2>8 DEF OneOwner
    <3>3. CASE u = h \/ v = h
      <4>1. A[u] = a /\ A[v] = a
        BY <3>1, <3>3, <2>5
      <4>2. ~(u \in Threads \ {t, h}) /\ ~(v \in Threads \ {t, h})
        BY <4>1, <3>2
      <4> QED BY <4>2, <3>1
    <3>4. CASE u # h /\ v # h
      BY <3>1, <3>4, <2>8 DEF OneOwner
    <3> QED BY <3>3, <3>4
  <2> QED BY <2>1, <2>2, <2>9, <2>10, <2>12, <2>13, <1>0
<1> QED BY <1>4, <1>5

\* Who holds a lock begins to use it, or goes on.
LEMMA Stays ==
    ASSUME NEW L, NEW P, NEW A, LocksOK(L, P, A),
           NEW t \in Threads, Holds(L, P, A, t), NEW w \in Working
    PROVE  LocksOK(L, [P EXCEPT ![t] = w], [A EXCEPT ![t] = A[t]])
<1> DEFINE Q == [P EXCEPT ![t] = w]
           B == [A EXCEPT ![t] = A[t]]
<1> USE DEF LocksOK
<1>0. /\ LockTypes(L, P, A) /\ w \in Places /\ w \notin Outside /\ w \notin Waiting
      /\ P[t] \notin Outside
  BY DEF Places, Working, Waiting, Outside, Holds
<1>1. /\ \A u \in Threads \ {t} : Q[u] = P[u]
      /\ B = A /\ Q[t] = w
  BY <1>0 DEF LockTypes
<1>2. LockTypes(L, Q, B)
  BY <1>0, <1>1 DEF LockTypes
<1>3. \A u \in Threads : Holds(L, Q, B, u) <=> Holds(L, P, A, u)
  BY <1>0, <1>1 DEF Holds
<1>4. AtLocked(L, Q, B)
  BY <1>0, <1>1 DEF AtLocked
<1>5. \A b \in Addresses : \A i \in DOMAIN L.wake[b] : L.wake[b][i] \in Threads \ {t}
  BY <1>0 DEF LockTypes, InLine, Holds, Waiting, Working, ToSet
<1>6. InLine(L, Q, B)
  BY <1>1, <1>5 DEF InLine
<1>7. Owned(L, Q, B)
  BY <1>1, <1>3 DEF Owned
<1>8. OneOwner(L, Q, B)
  BY <1>1, <1>3 DEF OneOwner
<1> QED BY <1>2, <1>4, <1>6, <1>7, <1>8

\* Who has no lock goes where none is needed.
LEMMA StaysOut ==
    ASSUME NEW L, NEW P, NEW A, LocksOK(L, P, A),
           NEW t \in Threads, P[t] \in Outside, NEW w \in Outside, NEW x \in Addresses \cup {0}
    PROVE  LocksOK(L, [P EXCEPT ![t] = w], [A EXCEPT ![t] = x])
<1> DEFINE Q == [P EXCEPT ![t] = w]
           B == [A EXCEPT ![t] = x]
<1> USE DEF LocksOK
<1>0. /\ LockTypes(L, P, A) /\ w \in Places /\ w \notin Working /\ w \notin Waiting
      /\ P[t] \notin Working /\ P[t] \notin Waiting
  BY DEF Places, Working, Waiting, Outside
<1>1. /\ \A u \in Threads \ {t} : Q[u] = P[u] /\ B[u] = A[u]
      /\ Q[t] = w /\ B[t] = x
  BY <1>0 DEF LockTypes
<1>2. LockTypes(L, Q, B)
  BY <1>0 DEF LockTypes
<1>3. /\ \A u \in Threads \ {t} : Holds(L, Q, B, u) <=> Holds(L, P, A, u)
      /\ ~Holds(L, Q, B, t) /\ ~Holds(L, P, A, t)
  BY <1>0, <1>1 DEF Holds
<1>4. AtLocked(L, Q, B)
  BY <1>0, <1>1 DEF AtLocked
<1>5. \A b \in Addresses : \A i \in DOMAIN L.wake[b] : L.wake[b][i] \in Threads \ {t}
  BY <1>0 DEF LockTypes, InLine
<1>6. InLine(L, Q, B)
  BY <1>1, <1>5 DEF InLine
<1>7. Owned(L, Q, B)
  BY <1>1, <1>3 DEF Owned
<1>8. OneOwner(L, Q, B)
  BY <1>1, <1>3 DEF OneOwner
<1> QED BY <1>2, <1>4, <1>6, <1>7, <1>8

\* A thread that is outside goes for a lock to execute, and queues for it.
LEMMA ToTurn ==
    ASSUME NEW L, NEW P, NEW A, LocksOK(L, P, A),
           NEW t \in Threads, P[t] \in Outside, NEW a \in Addresses, a \in L.executing
    PROVE  /\ LocksOK(ExecLock(L, t, a), [P EXCEPT ![t] = "turn"], [A EXCEPT ![t] = a])
           /\ ExecLock(L, t, a).executing = L.executing
<1>1. ExecLock(L, t, a) = [L EXCEPT !.wake[a] = Append(@, t)]
  BY DEF ExecLock
<1>2. "turn" \in Waiting
  BY DEF Waiting
<1>3. ExecLock(L, t, a).executing = L.executing
  BY <1>1 DEF LocksOK, LockTypes
<1> QED BY <1>1, <1>2, <1>3, QueueUp

\* A thread that is outside goes for a lock to execute, and has it, or gives it
\* back at once.
LEMMA ToExec ==
    ASSUME NEW L, NEW P, NEW A, LocksOK(L, P, A),
           NEW t \in Threads, P[t] \in Outside, NEW a \in Addresses, a \notin L.executing
    PROVE  /\ LocksOK(ExecLock(L, t, a), [P EXCEPT ![t] = "launching"], [A EXCEPT ![t] = a])
           /\ ExecLock(L, t, a).executing = L.executing \cup {a}
           /\ ExecUnlock(ExecLock(L, t, a), a) = L
<1>1. ExecLock(L, t, a) = [L EXCEPT !.executing = @ \cup {a}]
  BY DEF ExecLock
<1>2. "launching" \in Working
  BY DEF Working
<1>3. ExecLock(L, t, a).executing = L.executing \cup {a} /\ ExecLock(L, t, a).wake = L.wake
  BY <1>1 DEF LocksOK, LockTypes
<1>4. L.wake[a] = <<>>
  <2>1. L.wake[a] \in Seq(Threads) /\ P \in [Threads -> Places]
    BY DEF LocksOK, LockTypes
  <2> SUFFICES ASSUME L.wake[a] # <<>> PROVE FALSE
    OBVIOUS
  <2>2. 1 \in DOMAIN L.wake[a] /\ L.wake[a][1] \in Threads
    BY <2>1
  <2>3. P[L.wake[a][1]] \in Waiting /\ A[L.wake[a][1]] = a
    BY <2>2 DEF LocksOK, InLine
  <2>4. a \in L.executing
    BY <2>2, <2>3 DEF LocksOK, AtLocked, Waiting, Outside
  <2> QED BY <2>4
<1>5. ExecUnlock(ExecLock(L, t, a), a) = [ExecLock(L, t, a) EXCEPT !.executing = @ \ {a}]
  BY <1>3, <1>4 DEF ExecUnlock
<1>6. (L.executing \cup {a}) \ {a} = L.executing
  OBVIOUS
<1>7. ExecUnlock(ExecLock(L, t, a), a) = L
  BY <1>1, <1>5, <1>6 DEF LocksOK, LockTypes
<1> QED BY <1>1, <1>2, <1>3, <1>7, Acquire

-----------------------------------------------------------------------------
(* The configuration lock *)

\* queue are those who wait for the lock, S the threads that configLock has queued and I those
\* that hold it and know; whom it was handed to has left the queue and is still in S.
Owners(queue, S, I) == I \cup (S \ ToSet(queue))

ConfigOK(queue, S, I) ==
    /\ S \cap I = {}
    /\ queue \in Seq(S)
    /\ \A i, j \in DOMAIN queue : queue[i] = queue[j] => i = j
    /\ \A t, u \in Owners(queue, S, I) : t = u
    /\ queue # <<>> => Owners(queue, S, I) # {}

LEMMA ConfigLockKeeps ==
    ASSUME NEW q, NEW S, NEW I, ConfigOK(q, S, I),
           NEW t, t \notin S, t \notin I
    PROVE  /\ Owners(q, S, I) # {} =>
                ConfigOK(Append(q, t), S \cup {t}, I) /\ Owners(Append(q, t), S \cup {t}, I) # {}
           /\ Owners(q, S, I) = {} =>
                ConfigOK(q, S, I \cup {t}) /\ Owners(q, S, I \cup {t}) # {}
<1>0. q \in Seq(S) /\ q \in Seq(S \cup {t}) /\ t \notin ToSet(q)
  BY DEF ConfigOK, ToSet
<1>1. ASSUME Owners(q, S, I) # {}
      PROVE  ConfigOK(Append(q, t), S \cup {t}, I) /\ Owners(Append(q, t), S \cup {t}, I) # {}
  <2> DEFINE r == Append(q, t)
  <2>1. /\ r \in Seq(S \cup {t}) /\ r # <<>> /\ Len(q) \in Nat
        /\ DOMAIN q = 1 .. Len(q) /\ DOMAIN r = 1 .. Len(q) + 1
        /\ \A i \in DOMAIN q : r[i] = q[i] /\ q[i] # t
        /\ r[Len(q) + 1] = t
    <3>1. r \in Seq(S \cup {t}) /\ Len(q) \in Nat /\ Len(r) = Len(q) + 1
      BY <1>0
    <3>2. DOMAIN q = 1 .. Len(q) /\ DOMAIN r = 1 .. Len(q) + 1
      BY <3>1, <1>0
    <3>3. r # <<>>
      BY <3>1
    <3>4. \A i \in DOMAIN q : r[i] = q[i]
      BY <1>0
    <3>5. \A i \in DOMAIN q : q[i] # t
      BY <1>0 DEF ToSet
    <3>6. r[Len(q) + 1] = t
      BY <1>0
    <3> QED BY <3>1, <3>2, <3>3, <3>4, <3>5, <3>6
  <2>2. ToSet(r) = ToSet(q) \cup {t}
    <3>1. \A i \in DOMAIN r : i \in DOMAIN q \/ i = Len(q) + 1
      BY <2>1
    <3>2. \A i \in DOMAIN q : i \in DOMAIN r
      BY <2>1
    <3>3. Len(q) + 1 \in DOMAIN r
      BY <2>1
    <3> QED BY <2>1, <3>1, <3>2, <3>3 DEF ToSet
  <2>3. Owners(r, S \cup {t}, I) = Owners(q, S, I)
    BY <2>2 DEF Owners
  <2>4. \A i, j \in DOMAIN r : r[i] = r[j] => i = j
    <3>1. \A i \in DOMAIN r : i \in DOMAIN q \/ i = Len(q) + 1
      BY <2>1
    <3> QED BY <2>1, <3>1 DEF ConfigOK
  <2>5. (S \cup {t}) \cap I = {}
    BY DEF ConfigOK
  <2> HIDE DEF r
  <2>6. ConfigOK(r, S \cup {t}, I)
    BY <1>1, <2>1, <2>3, <2>4, <2>5 DEF ConfigOK
  <2> QED BY <1>1, <2>3, <2>6 DEF r
<1>2. ASSUME Owners(q, S, I) = {}
      PROVE  ConfigOK(q, S, I \cup {t}) /\ Owners(q, S, I \cup {t}) # {}
  <2>1. Owners(q, S, I) = {} /\ q = <<>>
    BY <1>2 DEF ConfigOK
  <2>2. Owners(q, S, I \cup {t}) = {t}
    BY <2>1 DEF Owners
  <2>3. S \cap (I \cup {t}) = {} /\ DOMAIN q = {}
    BY <2>1 DEF ConfigOK
  <2>4. q \in Seq(S)
    BY <1>0
  <2> QED BY <2>1, <2>2, <2>3, <2>4 DEF ConfigOK
<1> QED BY <1>1, <1>2

LEMMA ConfigTurnKeeps ==
    ASSUME NEW q, NEW S, NEW I, ConfigOK(q, S, I),
           NEW t \in S, t \notin ToSet(q)
    PROVE  /\ ConfigOK(q, S \ {t}, I \cup {t})
           /\ Owners(q, S \ {t}, I \cup {t}) = Owners(q, S, I)
<1>1. q \in Seq(S) /\ q \in Seq(S \ {t})
  BY DEF ConfigOK, ToSet
<1>2. Owners(q, S \ {t}, I \cup {t}) = Owners(q, S, I)
  BY DEF Owners
<1> QED BY <1>1, <1>2 DEF ConfigOK

\* Nobody waits for the configuration lock: it is free.
LEMMA ConfigFreed ==
    ASSUME NEW q, NEW S, NEW I, ConfigOK(q, S, I), NEW t \in I, q = <<>>
    PROVE  ConfigOK(q, S, I \ {t}) /\ Owners(q, S, I \ {t}) = {}
<1>1. q \in Seq(S) /\ Owners(q, S, I) = {t} /\ I = {t} /\ S \ ToSet(q) = {}
  BY DEF ConfigOK, Owners
<1>2. Owners(q, S, I \ {t}) = {}
  BY <1>1 DEF Owners
<1> QED BY <1>1, <1>2 DEF ConfigOK

\* It is handed to the first who waits.
LEMMA ConfigHandedOver ==
    ASSUME NEW q, NEW S, NEW I, ConfigOK(q, S, I), NEW t \in I, q # <<>>
    PROVE  ConfigOK(Tail(q), S, I \ {t}) /\ Owners(Tail(q), S, I \ {t}) # {}
<1>0. q \in Seq(S) /\ Owners(q, S, I) = {t} /\ I = {t} /\ S \ ToSet(q) = {} /\ t \notin S
  BY DEF ConfigOK, Owners
<1> DEFINE r == Tail(q)
           h == Head(q)
<1>1. /\ r \in Seq(S) /\ Len(q) \in Nat \ {0} /\ DOMAIN q = 1 .. Len(q)
      /\ DOMAIN r = 1 .. Len(q) - 1
      /\ \A i \in DOMAIN r : r[i] = q[i + 1]
      /\ h = q[1] /\ h \in S
  BY <1>0
<1>2. \A i \in DOMAIN r : i \in Int /\ i + 1 \in DOMAIN q /\ i + 1 # 1
  BY <1>1
<1>3. 1 \in DOMAIN q
  BY <1>1
<1>4. \A i \in DOMAIN r : r[i] # h
  BY <1>1, <1>2, <1>3 DEF ConfigOK
<1>5. \A i, j \in DOMAIN r : r[i] = r[j] => i = j
  <2> SUFFICES ASSUME NEW i \in DOMAIN r, NEW j \in DOMAIN r, r[i] = r[j] PROVE i = j
    OBVIOUS
  <2>1. q[i + 1] = q[j + 1]
    BY <1>1
  <2>2. i + 1 = j + 1
    BY <2>1, <1>2 DEF ConfigOK
  <2> QED BY <2>2, <1>2
<1>6. \A i \in DOMAIN q : i = 1 \/ (i - 1 \in DOMAIN r /\ (i - 1) + 1 = i)
  BY <1>1
<1>7. ToSet(r) = ToSet(q) \ {h}
  <2>1. \A i \in DOMAIN q : q[i] = h \/ (q[i] = r[i - 1] /\ i - 1 \in DOMAIN r)
    BY <1>1, <1>6
  <2>2. \A i \in DOMAIN r : r[i] \in ToSet(q)
    BY <1>1, <1>2 DEF ToSet
  <2>3. ToSet(q) \ {h} \subseteq ToSet(r)
    BY <2>1 DEF ToSet
  <2>4. ToSet(r) \subseteq ToSet(q) \ {h}
    BY <2>2, <1>4 DEF ToSet
  <2> QED BY <2>3, <2>4
<1>8. Owners(r, S, I \ {t}) = {h}
  BY <1>1, <1>7, <1>0 DEF Owners
<1> HIDE DEF r, h
<1>9. ConfigOK(r, S, I \ {t})
  BY <1>0, <1>1, <1>5, <1>8 DEF ConfigOK
<1> QED BY <1>8, <1>9 DEF r

-----------------------------------------------------------------------------
(* The inductive invariant *)

CallTypes ==
    /\ call = [t \in Threads |-> call[t]]
    /\ \A t \in Threads : pc[t] # "idle" => call[t] \in Calls[t]
    /\ \A t \in Threads :
        pc[t] \in {"queued", "request", "evicting", "victim", "configuring"} =>
            call[t].op \in ConfigOps

\* Addresses are given out once, and nobody locks one before it is given out.
TableTypes ==
    /\ ctr \in Nat \ {0} /\ delUtil \in Nat
    /\ tab \in [Mapped -> [name : Names, device : 1 .. Devices, used : Nat]]
    /\ Mapped \subseteq Addresses
    /\ \A a \in Mapped \cup locks.executing : a < ctr
    /\ DOMAIN devices = 1 .. Devices
    /\ TablesAgree

Locked == LocksOK(locks, pc, at)

\* Who waits for the configuration lock, and who holds it and knows.
Queued == { t \in Threads : pc[t] = "queued" }
Inside == { t \in Threads :
    \/ pc[t] \in {"request", "evicting", "victim", "configuring"}
    \/ pc[t] \in {"turn", "launching", "running"} /\ call[t].op = "executeForce" }

Configuring ==
    /\ ConfigOK(nextConfigWake, Queued, Inside)
    /\ configBusy \in BOOLEAN
    /\ configBusy <=> Owners(nextConfigWake, Queued, Inside) # {}

\* What is worked on is mapped, and still what was asked for.
Named ==
    /\ \A t \in Threads : pc[t] \in Working => at[t] \in Mapped
    /\ \A t \in Threads :
        /\ pc[t] \in {"configuring", "turn", "launching", "running"}
        /\ call[t].op # "execute"
        /\ at[t] \in Mapped
        => tab[at[t]].name = call[t].name

OnlyReused(n) == \A t \in Threads : \A c \in Calls[t] : c.op \in ConfigOps /\ c.name = n => c.reUse

\* One copy of what is only reused, and none while the owner makes space for it.
Single ==
    \A n \in Names : OnlyReused(n) =>
        /\ \A a, b \in Copies(n) : a = b
        /\ \A t \in Threads :
            pc[t] \in {"evicting", "victim"} /\ call[t].name = n => Copies(n) = {}

-----------------------------------------------------------------------------
(* The locks of the addresses are kept *)

\* P and Q differ at most at t.
SameBut(P, Q, t) == \A w : [P EXCEPT ![t] = w] = [Q EXCEPT ![t] = w]

\* LockToExec, by a thread that has no lock in L, P and A.
LEMMA LockToExecLocks ==
    ASSUME NEW L, NEW P, NEW A, LocksOK(L, P, A),
           NEW t \in Threads, P[t] \in Outside, NEW a \in Addresses,
           SameBut(P, pc, t), SameBut(A, at, t),
           LockToExec(t, a, L)
    PROVE  LocksOK(locks', pc', at') /\ locks'.executing \subseteq L.executing \cup ({a} \cap Mapped)
<1>1. CASE a \in L.executing
  <2>1. pc' = [P EXCEPT ![t] = "turn"] /\ at' = [A EXCEPT ![t] = a] /\ locks' = ExecLock(L, t, a)
    BY <1>1 DEF LockToExec, Goes, SameBut
  <2>2. LocksOK(ExecLock(L, t, a), [P EXCEPT ![t] = "turn"], [A EXCEPT ![t] = a])
    BY <1>1, ToTurn
  <2>3. ExecLock(L, t, a).executing = L.executing
    BY <1>1, ToTurn
  <2>4. LocksOK(locks', pc', at')
    BY <2>1, <2>2
  <2> QED BY <2>1, <2>3, <2>4
<1>2. CASE a \notin L.executing
  <2>0. /\ LocksOK(ExecLock(L, t, a), [P EXCEPT ![t] = "launching"], [A EXCEPT ![t] = a])
        /\ ExecLock(L, t, a).executing = L.executing \cup {a}
        /\ ExecUnlock(ExecLock(L, t, a), a) = L
    BY <1>2, ToExec
  <2>1. CASE ExecBegins(t, a, ExecLock(L, t, a))
    <3>1. /\ pc' = [P EXCEPT ![t] = "launching"] /\ at' = [A EXCEPT ![t] = a]
          /\ locks' = ExecLock(L, t, a) /\ a \in Mapped
      BY <2>1 DEF ExecBegins, Goes, SameBut
    <3>2. LocksOK(locks', pc', at')
      BY <3>1, <2>0
    <3> QED BY <3>1, <3>2, <2>0
  <2>2. CASE ExecFails(t, a, ExecLock(L, t, a))
    <3>1. locks' = L
      BY <2>2, <2>0 DEF ExecFails
    <3>2. PICK w \in {"request", "idle"} : pc' = [P EXCEPT ![t] = w] /\ at' = [A EXCEPT ![t] = 0]
      BY <2>2 DEF ExecFails, Goes, Returns, SameBut
    <3>3. w \in Outside /\ 0 \in Addresses \cup {0}
      BY DEF Outside
    <3>4. LocksOK(L, [P EXCEPT ![t] = w], [A EXCEPT ![t] = 0])
      BY <3>3, StaysOut
    <3> QED BY <3>1, <3>2, <3>4
  <2> QED BY <1>2, <2>1, <2>2 DEF LockToExec
<1> QED BY <1>1, <1>2

\* The step of a thread that has no lock and goes where none is needed.
LEMMA OutsideLocks ==
    ASSUME Locked, NEW t \in Threads, pc[t] \in Outside, NEW w \in Outside,
           NEW x \in Addresses \cup {0},
           pc' = [pc EXCEPT ![t] = w], at' = [at EXCEPT ![t] = x], locks' = locks
    PROVE  LocksOK(locks', pc', at') /\ locks'.executing \subseteq locks.executing
BY StaysOut DEF Locked

\* The step of a thread that gives up its lock.
LEMMA ReleaseLocks ==
    ASSUME Locked, NEW t \in Threads, Holds(locks, pc, at, t), NEW w \in Outside,
           pc' = [pc EXCEPT ![t] = w], at' = [at EXCEPT ![t] = 0], locks' = ExecUnlock(locks, at[t])
    PROVE  LocksOK(locks', pc', at') /\ locks'.executing \subseteq locks.executing
<1>1. 0 \in Addresses \cup {0}
  OBVIOUS
<1> QED BY <1>1, Release DEF Locked

\* The step of a thread that goes on with its lock.
LEMMA StaysLocks ==
    ASSUME Locked, NEW t \in Threads, Holds(locks, pc, at, t), NEW w \in Working,
           pc' = [pc EXCEPT ![t] = w], at' = [at EXCEPT ![t] = at[t]], locks' = locks
    PROVE  LocksOK(locks', pc', at') /\ locks'.executing \subseteq locks.executing
BY Stays DEF Locked

\* The step of a thread that waits for the lock of a, which is taken.
LEMMA QueueLocks ==
    ASSUME Locked, NEW t \in Threads, pc[t] \in Outside, NEW a \in Addresses, a \in locks.executing,
           NEW w \in Waiting,
           pc' = [pc EXCEPT ![t] = w], at' = [at EXCEPT ![t] = a], locks' = ExecLock(locks, t, a)
    PROVE  LocksOK(locks', pc', at') /\ locks'.executing \subseteq locks.executing
<1>1. locks' = [locks EXCEPT !.wake[a] = Append(@, t)]
  BY DEF ExecLock
<1>2. locks'.executing = locks.executing
  BY <1>1 DEF Locked, LocksOK, LockTypes
<1>3. LocksOK([locks EXCEPT !.wake[a] = Append(@, t)], [pc EXCEPT ![t] = w], [at EXCEPT ![t] = a])
  BY QueueUp DEF Locked
<1>4. LocksOK(locks', pc', at')
  BY <1>1, <1>3
<1> QED BY <1>2, <1>4

LEMMA Chosen ==
    /\ \A S : Firsts(S) \subseteq S
    /\ \A S : FirstFree(S) \subseteq S
    /\ \A n : Copies(n) \subseteq Mapped
BY DEF Firsts, FirstFree, Copies

\* A thread enters a call or makes a step of it.
LEMMA LocksStep ==
    ASSUME Locked, CallTypes, TableTypes, NEW t \in Threads, Call(t) \/ Step(t)
    PROVE  LocksOK(locks', pc', at') /\ \A a \in locks'.executing : a < ctr'
<1> DEFINE Good == LocksOK(locks', pc', at') /\ locks'.executing \subseteq locks.executing
<1>0. /\ {"idle", "calling", "queued", "request", "evicting", "removing"} \subseteq Outside
      /\ {"turn", "victim", "removal"} \subseteq Waiting
      /\ {"configuring", "launching", "running"} \subseteq Working
      /\ 0 \in Addresses \cup {0} /\ Mapped \subseteq Addresses
      /\ at[t] \in Addresses \cup {0}
      /\ \A a \in Mapped \cup locks.executing : a < ctr
  BY DEF Outside, Waiting, Working, TableTypes, Locked, LocksOK, LockTypes
<1>1. ASSUME Good, ctr' = ctr PROVE LocksOK(locks', pc', at') /\ \A a \in locks'.executing : a < ctr'
  BY <1>0, <1>1
\* The exceptions.
<1>2. ASSUME NEW what, Throws(what) PROVE Good /\ ctr' = ctr
  <2>1. locks' = locks /\ pc' = pc /\ at' = at /\ ctr' = ctr
    BY <1>2 DEF Throws, threads, table
  <2> QED BY <2>1 DEF Locked
<1>3. CASE Call(t)
  <2>1. /\ pc[t] = "idle" /\ locks' = locks /\ ctr' = ctr
        /\ pc' = [pc EXCEPT ![t] = "calling"]
        /\ at' = [at EXCEPT ![t] = at[t]]
    BY <1>3 DEF Call, table, Locked, LocksOK, LockTypes
  <2>2. pc[t] \in Outside /\ "calling" \in Outside
    BY <2>1, <1>0
  <2>3. Good
    BY <2>1, <2>2, <1>0, OutsideLocks
  <2> QED BY <2>1, <2>3, <1>1
<1>4. CASE ConfigLock(t) \/ ConfigTurn(t) \/ Removed(t)
  <2>1. /\ pc[t] \in {"calling", "queued", "removing"} /\ locks' = locks /\ ctr' = ctr
        /\ at' = [at EXCEPT ![t] = 0]
    BY <1>4 DEF ConfigLock, ConfigTurn, Removed, Enters, Refused, Returns, Goes, table
  <2>2. PICK w \in {"queued", "request", "idle"} : pc' = [pc EXCEPT ![t] = w]
    BY <1>4 DEF ConfigLock, ConfigTurn, Removed, Refused, Returns, Goes
  <2>3. pc[t] \in Outside /\ w \in Outside
    BY <2>1, <1>0
  <2>4. Good
    BY <2>1, <2>2, <2>3, <1>0, OutsideLocks
  <2> QED BY <2>1, <2>4, <1>1
\* A thread that is outside returns or goes to execute a mapped function.
<1>5. ASSUME pc[t] \in Outside, NEW a \in Addresses, LockToExec(t, a, locks)
      PROVE  LocksOK(locks', pc', at') /\ locks'.executing \subseteq locks.executing \cup ({a} \cap Mapped)
  <2>1. SameBut(pc, pc, t) /\ SameBut(at, at, t)
    BY DEF SameBut
  <2> QED BY <2>1, <1>5, LockToExecLocks DEF Locked
<1>6. ASSUME pc[t] \in Outside, Returns(t), locks' = locks PROVE Good
  <2>1. pc' = [pc EXCEPT ![t] = "idle"] /\ at' = [at EXCEPT ![t] = 0] /\ "idle" \in Outside
    BY <1>6, <1>0 DEF Returns
  <2> QED BY <2>1, <1>6, <1>0, OutsideLocks
<1>7. CASE Reuse(t)
  <2>1. PICK a \in Firsts(Copies(call[t].name)) : ConfigReturns(t, a, locks)
    BY <1>7 DEF Reuse
  <2>2. pc[t] \in Outside /\ a \in Mapped /\ a \in Addresses /\ ctr' = ctr
    BY <1>7, <1>0, <2>1, Chosen DEF Reuse, table
  <2>3. CASE LockToExec(t, a, locks)
    BY <2>2, <2>3, <1>0, <1>5
  <2>4. CASE Returns(t) /\ locks' = locks
    BY <2>2, <2>4, <1>1, <1>6
  <2> QED BY <2>1, <2>3, <2>4 DEF ConfigReturns
<1>8. CASE Execute(t)
  <2>1. pc[t] \in Outside /\ ctr' = ctr
    BY <1>8, <1>0 DEF Execute, Enters, table
  <2>2. CASE Returns(t) /\ locks' = locks
    BY <2>1, <2>2, <1>1, <1>6
  <2>3. CASE Enters(t, {"execute"}) /\ LockToExec(t, call[t].address, locks)
    <3>1. call[t].address \in Addresses
      BY <2>3, ConfigEngineAssumption DEF Enters, CallTypes, ConfigOps
    <3> QED BY <2>1, <2>3, <3>1, <1>0, <1>5
  <2>4. ASSUME NEW a \in FirstFree(Copies(call[t].name)), LockToExec(t, a, locks)
        PROVE  LocksOK(locks', pc', at') /\ \A b \in locks'.executing : b < ctr'
    <3>1. a \in Mapped /\ a \in Addresses
      BY Chosen, <1>0
    <3> QED BY <2>1, <2>4, <3>1, <1>0, <1>5
  <2> QED BY <1>8, <2>2, <2>3, <2>4 DEF Execute
\* The thread has the lock it waited for, or works.
<1>9. ASSUME pc[t] \in Working \/ (pc[t] \in Waiting /\ ~Awaits(t, locks.wake[at[t]]))
      PROVE  Holds(locks, pc, at, t)
  BY <1>9 DEF Holds, Awaits
<1>10. ASSUME Holds(locks, pc, at, t), locks' = ExecUnlock(locks, at[t]),
              Returns(t) \/ Goes(t, "request", 0) \/ Goes(t, "evicting", 0) \/ Goes(t, "removing", 0)
       PROVE  Good
  <2>1. PICK w \in {"idle", "request", "evicting", "removing"} :
            pc' = [pc EXCEPT ![t] = w] /\ at' = [at EXCEPT ![t] = 0]
    BY <1>10 DEF Returns, Goes
  <2>2. w \in Outside
    BY <1>0
  <2> QED BY <2>1, <2>2, <1>10, ReleaseLocks
<1>11. ASSUME Holds(locks, pc, at, t), locks' = locks, NEW w \in Working, Goes(t, w, at[t])
       PROVE  Good
  BY <1>11, StaysLocks DEF Goes
<1>12. CASE ExecTurn(t)
  <2>1. Holds(locks, pc, at, t) /\ ctr' = ctr
    BY <1>12, <1>9, <1>0 DEF ExecTurn, table
  <2>2. CASE ExecBegins(t, at[t], locks)
    <3>1. locks' = locks /\ Goes(t, "launching", at[t]) /\ "launching" \in Working
      BY <2>2, <1>0 DEF ExecBegins
    <3> QED BY <2>1, <3>1, <1>1, <1>11
  <2>3. CASE ExecFails(t, at[t], locks)
    <3>1. locks' = ExecUnlock(locks, at[t]) /\ (Goes(t, "request", 0) \/ Returns(t))
      BY <2>3 DEF ExecFails
    <3> QED BY <2>1, <3>1, <1>1, <1>10
  <2> QED BY <1>12, <2>2, <2>3 DEF ExecTurn
<1>13. CASE Launch(t)
  <2>1. Holds(locks, pc, at, t)
    BY <1>13, <1>9, <1>0 DEF Launch
  <2>2. CASE Goes(t, "running", at[t]) /\ UNCHANGED <<config, locks, table, devices, error>>
    <3>1. locks' = locks /\ "running" \in Working /\ ctr' = ctr
      BY <2>2, <1>0 DEF table
    <3> QED BY <2>1, <2>2, <3>1, <1>1, <1>11
  <2>3. CASE Throws("not on the device")
    BY <2>3, <1>1, <1>2
  <2> QED BY <1>13, <2>2, <2>3 DEF Launch
<1>14. CASE Finish(t)
  <2>1. Holds(locks, pc, at, t)
    BY <1>14, <1>9, <1>0 DEF Finish
  <2>2. CASE TableExec(at[t]) /\ locks' = ExecUnlock(locks, at[t]) /\ Returns(t)
    <3>1. ctr' = ctr
      BY <2>2 DEF TableExec, table
    <3> QED BY <2>1, <2>2, <3>1, <1>1, <1>10
  <2>3. CASE Throws("not in the table")
    BY <2>3, <1>1, <1>2
  <2> QED BY <1>14, <2>2, <2>3 DEF Finish
\* A victim or a removal: now, if nobody executes the function, or later.
<1>15. ASSUME pc[t] \in Outside, NEW a \in Mapped, a \in locks.executing, locks' = ExecLock(locks, t, a),
              NEW w \in Waiting, Goes(t, w, a)
       PROVE  Good
  <2>1. pc' = [pc EXCEPT ![t] = w] /\ at' = [at EXCEPT ![t] = a] /\ a \in Addresses
    BY <1>15, <1>0 DEF Goes
  <2> QED BY <2>1, <1>15, QueueLocks
<1>16. ASSUME pc[t] \in Outside, locks' = locks, Goes(t, "evicting", 0) \/ Goes(t, "removing", 0)
       PROVE  Good
  <2>1. PICK w \in {"evicting", "removing"} :
            pc' = [pc EXCEPT ![t] = w] /\ at' = [at EXCEPT ![t] = 0]
    BY <1>16 DEF Goes
  <2>2. w \in Outside
    BY <1>0
  <2> QED BY <2>1, <2>2, <1>16, <1>0, OutsideLocks
<1>17. CASE Evict(t)
  <2>1. pc[t] \in Outside
    BY <1>17, <1>0 DEF Evict, Searches
  <2>2. CASE Throws("too big")
    BY <2>2, <1>1, <1>2
  <2>3. ASSUME NEW a \in FirstFree(Mapped),
               a \in locks.executing, Goes(t, "victim", a), locks' = ExecLock(locks, t, a),
               UNCHANGED <<table, devices>>
        PROVE  LocksOK(locks', pc', at') /\ \A b \in locks'.executing : b < ctr'
    <3>1. a \in Mapped /\ ctr' = ctr /\ "victim" \in Waiting
      BY <2>3, Chosen, <1>0 DEF table
    <3> QED BY <2>1, <2>3, <3>1, <1>1, <1>15
  <2>4. ASSUME NEW a \in FirstFree(Mapped), Goes(t, "evicting", 0), Unmaps(a), UNCHANGED locks
        PROVE  LocksOK(locks', pc', at') /\ \A b \in locks'.executing : b < ctr'
    <3>1. ctr' = ctr
      BY <2>4 DEF Unmaps
    <3> QED BY <2>1, <2>4, <3>1, <1>1, <1>16
  <2> QED BY <1>17, <2>2, <2>3, <2>4 DEF Evict
<1>18. CASE VictimFree(t)
  <2>1. Holds(locks, pc, at, t)
    BY <1>18, <1>9, <1>0 DEF VictimFree
  <2>2. CASE Unmaps(at[t]) /\ locks' = ExecUnlock(locks, at[t]) /\ Goes(t, "evicting", 0)
    <3>1. ctr' = ctr
      BY <2>2 DEF Unmaps
    <3> QED BY <2>1, <2>2, <3>1, <1>1, <1>10
  <2>3. CASE Throws("victim gone")
    BY <2>3, <1>1, <1>2
  <2> QED BY <1>18, <2>2, <2>3 DEF VictimFree
<1>19. ASSUME pc[t] \in Outside, NEW a \in Mapped, Removes(t, a)
       PROVE  LocksOK(locks', pc', at') /\ \A b \in locks'.executing : b < ctr'
  <2>1. CASE a \in locks.executing /\ RemovesLater(t, a)
    <3>1. /\ locks' = ExecLock(locks, t, a) /\ Goes(t, "removal", a)
          /\ ctr' = ctr /\ "removal" \in Waiting
      BY <2>1, <1>0 DEF RemovesLater, table
    <3> QED BY <2>1, <3>1, <1>1, <1>15, <1>19
  <2>2. CASE RemovesNow(t, a)
    <3>1. locks' = locks /\ Goes(t, "removing", 0) /\ ctr' = ctr
      BY <2>2 DEF RemovesNow, Unmaps
    <3> QED BY <3>1, <1>1, <1>16, <1>19
  <2> QED BY <2>1, <2>2, <1>19 DEF Removes
<1>20. CASE RemoveAddress(t)
  <2>1. pc[t] \in Outside
    BY <1>20, <1>0 DEF RemoveAddress, Enters
  <2>2. CASE Throws("nothing mapped")
    BY <2>2, <1>1, <1>2
  <2>3. CASE Refused(t)
    <3>1. Returns(t) /\ locks' = locks /\ ctr' = ctr
      BY <2>3 DEF Refused, table
    <3> QED BY <2>1, <3>1, <1>1, <1>6
  <2>4. CASE call[t].address \in Mapped /\ Removes(t, call[t].address)
    BY <2>1, <2>4, <1>19
  <2> QED BY <1>20, <2>2, <2>3, <2>4 DEF RemoveAddress
<1>21. CASE RemoveName(t)
  <2>1. pc[t] \in Outside
    BY <1>21, <1>0 DEF RemoveName, Enters
  <2>2. CASE Refused(t)
    <3>1. Returns(t) /\ locks' = locks /\ ctr' = ctr
      BY <2>2 DEF Refused, table
    <3> QED BY <2>1, <3>1, <1>1, <1>6
  <2>3. ASSUME NEW a \in FirstFree(Copies(call[t].name)), Removes(t, a)
        PROVE  LocksOK(locks', pc', at') /\ \A b \in locks'.executing : b < ctr'
    <3>1. a \in Mapped
      BY Chosen
    <3> QED BY <2>1, <2>3, <3>1, <1>19
  <2> QED BY <1>21, <2>2, <2>3 DEF RemoveName
<1>22. CASE RemovalTurn(t)
  <2>1. Holds(locks, pc, at, t)
    BY <1>22, <1>9, <1>0 DEF RemovalTurn
  <2>2. CASE Throws("removal lost")
    BY <2>2, <1>1, <1>2
  <2>3. CASE locks' = ExecUnlock(locks, at[t]) /\ (Goes(t, "removing", 0) \/ Returns(t))
    <3>1. ctr' = ctr
      BY <1>22 DEF RemovalTurn, Unmaps, Throws, table
    <3> QED BY <2>1, <2>3, <3>1, <1>1, <1>10
  <2> QED BY <1>22, <2>2, <2>3 DEF RemovalTurn
\* The new address is nobody's yet.
<1>23. CASE Place(t)
  <2>1. /\ pc[t] \in Outside /\ ctr \in Addresses /\ ctr \notin locks.executing /\ ctr' = ctr + 1
        /\ pc' = [pc EXCEPT ![t] = "configuring"] /\ at' = [at EXCEPT ![t] = ctr]
        /\ locks' = ExecLock(locks, t, ctr)
    BY <1>23, <1>0 DEF Place, Searches, Goes, TableAdd, TableTypes
  <2>2. locks' = [locks EXCEPT !.executing = @ \cup {ctr}] /\ "configuring" \in Working
    BY <2>1, <1>0 DEF ExecLock
  <2>3. LocksOK([locks EXCEPT !.executing = @ \cup {ctr}], [pc EXCEPT ![t] = "configuring"],
                [at EXCEPT ![t] = ctr])
    BY <2>1, <2>2, Acquire DEF Locked
  <2>4. LocksOK(locks', pc', at')
    BY <2>1, <2>2, <2>3
  <2>5. locks'.executing = locks.executing \cup {ctr}
    BY <2>2 DEF Locked, LocksOK, LockTypes
  <2>6. \A a \in locks.executing : a \in Nat /\ a < ctr
    BY <1>0 DEF Locked, LocksOK, LockTypes, Addresses
  <2>7. \A a \in locks'.executing : a < ctr'
    BY <2>1, <2>5, <2>6 DEF TableTypes
  <2> QED BY <2>4, <2>7
\* The lock of the new function is given up, and perhaps sought again to execute it.
<1>24. CASE Configured(t)
  <2> DEFINE L == ExecUnlock(locks, at[t])
  <2>1. Holds(locks, pc, at, t) /\ ctr' = ctr
    BY <1>24, <1>9, <1>0 DEF Configured, table
  <2>2. CASE Returns(t) /\ locks' = L
    BY <2>1, <2>2, <1>1, <1>10
  <2>3. CASE LockToExec(t, at[t], L)
    <3> DEFINE P == [pc EXCEPT ![t] = "request"]
               A == [at EXCEPT ![t] = 0]
    <3>1. /\ LocksOK(L, P, A) /\ at[t] \in locks.executing /\ at[t] \in Addresses
          /\ L.executing \subseteq locks.executing
      BY <2>1, <1>0, Release DEF Locked
    <3>2. P[t] = "request" /\ SameBut(P, pc, t) /\ SameBut(A, at, t)
      BY DEF SameBut, Locked, LocksOK, LockTypes
    <3>3. P[t] \in Outside
      BY <3>2, <1>0
    <3> HIDE DEF P, A, L
    <3>4. LocksOK(locks', pc', at') /\ locks'.executing \subseteq L.executing \cup ({at[t]} \cap Mapped)
      BY <3>1, <3>2, <3>3, <2>3, LockToExecLocks
    <3> QED BY <3>1, <3>4, <2>1, <1>0
  <2> QED BY <1>24, <2>2, <2>3 DEF Configured, ConfigReturns
<1> QED
  BY <1>3, <1>4, <1>7, <1>8, <1>12, <1>13, <1>14, <1>17, <1>18, <1>20, <1>21, <1>22, <1>23, <1>24
  DEF Step

-----------------------------------------------------------------------------
(* The calls *)

\* call and the place of t change, nobody else's.
LEMMA OnlyItself ==
    ASSUME Locked, CallTypes, NEW t \in Threads, Call(t) \/ Step(t)
    PROVE  \A u \in Threads \ {t} : pc'[u] = pc[u] /\ at'[u] = at[u] /\ call'[u] = call[u]
<1>0. /\ pc = [u \in Threads |-> pc[u]] /\ at = [u \in Threads |-> at[u]]
      /\ call = [u \in Threads |-> call[u]]
  BY DEF Locked, LocksOK, LockTypes, CallTypes
<1> DEFINE Same == \A u \in Threads \ {t} : pc'[u] = pc[u] /\ at'[u] = at[u] /\ call'[u] = call[u]
<1>1. ASSUME NEW w, NEW a, Goes(t, w, a) PROVE Same
  BY <1>0, <1>1 DEF Goes
<1>2. ASSUME Returns(t) PROVE Same
  BY <1>0, <1>2 DEF Returns
<1>3. ASSUME NEW what, Throws(what) PROVE Same
  BY <1>3 DEF Throws, threads
<1>4. ASSUME NEW a, NEW l, LockToExec(t, a, l) PROVE Same
  BY <1>1, <1>2, <1>4 DEF LockToExec, ExecBegins, ExecFails
<1>5. CASE Call(t)
  BY <1>0, <1>5 DEF Call
<1>6. CASE ConfigLock(t) \/ ConfigTurn(t) \/ Removed(t)
  BY <1>1, <1>2, <1>6 DEF ConfigLock, ConfigTurn, Removed, Refused
<1>7. CASE Reuse(t) \/ Configured(t)
  BY <1>2, <1>4, <1>7 DEF Reuse, Configured, ConfigReturns
<1>8. CASE Place(t) \/ Evict(t) \/ VictimFree(t)
  BY <1>1, <1>3, <1>8 DEF Place, Evict, VictimFree
<1>9. CASE Execute(t)
  BY <1>2, <1>4, <1>9 DEF Execute
<1>10. CASE ExecTurn(t)
  BY <1>1, <1>2, <1>10 DEF ExecTurn, ExecBegins, ExecFails
<1>11. CASE Launch(t) \/ Finish(t)
  BY <1>1, <1>2, <1>3, <1>11 DEF Launch, Finish
<1>12. CASE RemoveAddress(t) \/ RemoveName(t) \/ RemovalTurn(t)
  BY <1>1, <1>2, <1>3, <1>12
  DEF RemoveAddress, RemoveName, RemovalTurn, Removes, RemovesNow, RemovesLater, Refused
<1> QED BY <1>5, <1>6, <1>7, <1>8, <1>9, <1>10, <1>11, <1>12 DEF Step

\* t keeps a call it may make, in places of that call.
ProperCall(t) ==
    /\ call' = [u \in Threads |-> call'[u]]
    /\ pc'[t] # "idle" => call'[t] \in Calls[t]
    /\ pc'[t] \in {"queued", "request", "evicting", "victim", "configuring"} =>
        call'[t].op \in ConfigOps

\* t has the configuration lock and keeps it, or has nothing to do with it.
SameRole(t) ==
    /\ UNCHANGED config
    /\ pc[t] # "queued" /\ pc'[t] # "queued"
    /\ t \in Inside <=> t \in Inside'

\* t has returned and released the configuration lock.
Unlocked(t) == t \in Inside /\ pc'[t] = "idle" /\ ConfigUnlock

LEMMA RoleStep ==
    ASSUME Locked, CallTypes, NEW t \in Threads, Call(t) \/ Step(t)
    PROVE  ProperCall(t) /\ (ConfigLock(t) \/ ConfigTurn(t) \/ SameRole(t) \/ Unlocked(t))
<1>0. /\ pc = [u \in Threads |-> pc[u]] /\ at = [u \in Threads |-> at[u]]
      /\ call = [u \in Threads |-> call[u]]
      /\ "idle" # "queued" /\ pc[t] # "idle" => call[t] \in Calls[t]
  BY DEF Locked, LocksOK, LockTypes, CallTypes
<1>1. /\ t \in Inside <=> (\/ pc[t] \in {"request", "evicting", "victim", "configuring"}
                           \/ pc[t] \in {"turn", "launching", "running"} /\ call[t].op = "executeForce")
      /\ t \in Inside' <=> (\/ pc'[t] \in {"request", "evicting", "victim", "configuring"}
                            \/ pc'[t] \in {"turn", "launching", "running"} /\ call'[t].op = "executeForce")
  BY DEF Inside
<1>2. ASSUME NEW w, NEW a, Goes(t, w, a) PROVE pc'[t] = w /\ call' = call
  BY <1>0, <1>2 DEF Goes
<1>3. ASSUME Returns(t) PROVE pc'[t] = "idle" /\ ProperCall(t)
  <2>1. pc'[t] = "idle" /\ call' = [call EXCEPT ![t] = NoCall]
    BY <1>0, <1>3 DEF Returns
  <2> QED BY <2>1, <1>0 DEF ProperCall
\* From a place of a call to another of the same call.
<1>4. ASSUME pc[t] # "idle", NEW w, NEW a, Goes(t, w, a),
             w \in {"queued", "request", "evicting", "victim", "configuring"} => call[t].op \in ConfigOps
      PROVE  ProperCall(t)
  BY <1>0, <1>2, <1>4 DEF ProperCall
<1>5. ASSUME NEW what, Throws(what), pc[t] # "idle", pc[t] # "queued" PROVE ProperCall(t) /\ SameRole(t)
  <2>1. pc' = pc /\ call' = call /\ UNCHANGED config
    BY <1>5 DEF Throws, threads
  <2>2. ProperCall(t)
    BY <2>1, <1>0, <1>5 DEF ProperCall, CallTypes
  <2>3. SameRole(t)
    BY <2>1, <1>1, <1>5 DEF SameRole
  <2> QED BY <2>2, <2>3
<1>6. CASE Call(t)
  <2>1. pc[t] = "idle" /\ pc'[t] = "calling" /\ call'[t] \in Calls[t] /\ UNCHANGED config
        /\ call' = [u \in Threads |-> call'[u]]
    BY <1>0, <1>6 DEF Call
  <2>2. SameRole(t)
    BY <2>1, <1>1 DEF SameRole
  <2> QED BY <2>1, <2>2 DEF ProperCall
<1>7. CASE ConfigLock(t)
  <2>1. pc[t] # "idle" /\ call[t].op \in ConfigOps
    BY <1>7 DEF ConfigLock, Enters
  <2>2. Goes(t, "queued", 0) \/ Goes(t, "request", 0)
    BY <1>7 DEF ConfigLock
  <2> QED BY <1>7, <2>1, <2>2, <1>4
<1>8. CASE ConfigTurn(t)
  <2>1. pc[t] = "queued" /\ call[t].op \in ConfigOps /\ Goes(t, "request", 0)
    BY <1>8 DEF ConfigTurn, CallTypes
  <2> QED BY <1>8, <2>1, <1>4
\* To execute: executeForce keeps the configuration lock, execute has none.
<1>9. ASSUME NEW a, NEW l, LockToExec(t, a, l), UNCHANGED config, pc[t] # "idle", pc[t] # "queued",
             t \in Inside <=> call[t].op = "executeForce"
      PROVE  ProperCall(t) /\ SameRole(t)
  <2>1. CASE Goes(t, "turn", a) \/ Goes(t, "launching", a)
    <3>1. pc'[t] \in {"turn", "launching"} /\ call' = call
      BY <2>1, <1>2
    <3>2. ProperCall(t)
      BY <2>1, <1>4, <1>9
    <3> QED BY <3>1, <3>2, <1>1, <1>9 DEF SameRole
  <2>2. CASE Goes(t, "request", 0) /\ call[t].op = "executeForce"
    <3>1. pc'[t] = "request"
      BY <2>2, <1>2
    <3>2. ProperCall(t)
      BY <2>2, <1>4, <1>9 DEF ConfigOps
    <3> QED BY <3>1, <3>2, <2>2, <1>1, <1>9 DEF SameRole
  <2>3. CASE Returns(t) /\ call[t].op # "executeForce"
    BY <2>3, <1>1, <1>3, <1>9 DEF SameRole
  <2> QED BY <1>9, <2>1, <2>2, <2>3 DEF LockToExec, ExecBegins, ExecFails
<1>10. ASSUME NEW a, NEW l, ConfigReturns(t, a, l), pc[t] \in {"request", "configuring"}
       PROVE  ProperCall(t) /\ (SameRole(t) \/ Unlocked(t))
  <2>1. t \in Inside /\ call[t].op \in ConfigOps
    BY <1>1, <1>10 DEF CallTypes
  <2>2. CASE ConfigUnlock /\ Returns(t)
    BY <2>1, <2>2, <1>3 DEF Unlocked
  <2>3. CASE call[t].op = "executeForce" /\ LockToExec(t, a, l)
    <3>1. UNCHANGED config
      BY <2>3 DEF LockToExec, ExecBegins, ExecFails
    <3> QED BY <3>1, <2>1, <2>3, <1>9, <1>10
  <2> QED BY <1>10, <2>1, <2>2, <2>3 DEF ConfigReturns, ConfigOps
<1>11. CASE Reuse(t) \/ Configured(t)
  BY <1>10, <1>11 DEF Reuse, Configured
<1>12. CASE Execute(t)
  <2>1. pc[t] = "calling" /\ call[t].op # "executeForce" /\ t \notin Inside
    BY <1>1, <1>12 DEF Execute, Enters
  <2>2. CASE Returns(t) /\ UNCHANGED config
    BY <2>1, <2>2, <1>1, <1>3 DEF SameRole
  <2>3. ASSUME NEW a, LockToExec(t, a, locks) PROVE ProperCall(t) /\ SameRole(t)
    <3>1. UNCHANGED config
      BY <2>3 DEF LockToExec, ExecBegins, ExecFails
    <3> QED BY <3>1, <2>1, <2>3, <1>9
  <2> QED BY <1>12, <2>2, <2>3 DEF Execute
<1>13. CASE ExecTurn(t)
  <2>1. pc[t] = "turn" /\ (t \in Inside <=> call[t].op = "executeForce")
    BY <1>1, <1>13 DEF ExecTurn
  <2>2. CASE ExecBegins(t, at[t], locks)
    <3>1. Goes(t, "launching", at[t]) /\ UNCHANGED config
      BY <2>2 DEF ExecBegins
    <3>2. ProperCall(t) /\ pc'[t] = "launching" /\ call' = call
      BY <3>1, <2>1, <1>2, <1>4
    <3> QED BY <3>1, <3>2, <2>1, <1>1 DEF SameRole
  <2>3. CASE Goes(t, "request", 0) /\ call[t].op = "executeForce" /\ UNCHANGED config
    <3>1. ProperCall(t) /\ pc'[t] = "request"
      BY <2>1, <2>3, <1>2, <1>4 DEF ConfigOps
    <3> QED BY <3>1, <2>1, <2>3, <1>1 DEF SameRole
  <2>4. CASE Returns(t) /\ call[t].op # "executeForce" /\ UNCHANGED config
    BY <2>1, <2>4, <1>1, <1>3 DEF SameRole
  <2> QED BY <1>13, <2>2, <2>3, <2>4 DEF ExecTurn, ExecFails
<1>14. CASE Launch(t)
  <2>1. pc[t] = "launching"
    BY <1>14 DEF Launch
  <2>2. CASE Goes(t, "running", at[t]) /\ UNCHANGED config
    <3>1. ProperCall(t) /\ pc'[t] = "running" /\ call' = call
      BY <2>1, <2>2, <1>2, <1>4
    <3> QED BY <3>1, <2>1, <2>2, <1>1 DEF SameRole
  <2>3. CASE Throws("not on the device")
    BY <2>1, <2>3, <1>5
  <2> QED BY <1>14, <2>2, <2>3 DEF Launch
<1>15. CASE Finish(t)
  <2>1. pc[t] = "running" /\ (t \in Inside <=> call[t].op = "executeForce")
    BY <1>1, <1>15 DEF Finish
  <2>2. CASE Returns(t) /\ call[t].op = "executeForce" /\ ConfigUnlock
    BY <2>1, <2>2, <1>3 DEF Unlocked
  <2>3. CASE Returns(t) /\ call[t].op # "executeForce" /\ UNCHANGED config
    BY <2>1, <2>3, <1>1, <1>3 DEF SameRole
  <2>4. CASE Throws("not in the table")
    BY <2>1, <2>4, <1>5
  <2> QED BY <1>15, <2>2, <2>3, <2>4 DEF Finish
\* Places before the new function is placed: the configuration lock is kept.
<1>16. ASSUME pc[t] \in {"request", "evicting", "victim"},
              NEW w \in {"evicting", "victim", "configuring"}, NEW a, Goes(t, w, a), UNCHANGED config
       PROVE  ProperCall(t) /\ SameRole(t)
  <2>1. call[t].op \in ConfigOps
    BY <1>16 DEF CallTypes
  <2>2. ProperCall(t) /\ pc'[t] = w
    BY <2>1, <1>2, <1>4, <1>16
  <2> QED BY <2>2, <1>1, <1>16 DEF SameRole
<1>17. CASE Place(t)
  BY <1>16, <1>17 DEF Place, Searches
<1>18. CASE Evict(t)
  BY <1>5, <1>16, <1>18 DEF Evict, Searches
<1>19. CASE VictimFree(t)
  BY <1>5, <1>16, <1>19 DEF VictimFree
\* A manual removal has nothing to do with the configuration lock.
<1>20. ASSUME pc[t] \in {"calling", "removal", "removing"}, UNCHANGED config,
              \/ Returns(t)
              \/ \E w \in {"removal", "removing"} : \E a : Goes(t, w, a)
       PROVE  ProperCall(t) /\ SameRole(t)
  <2>1. CASE Returns(t)
    BY <2>1, <1>1, <1>3, <1>20 DEF SameRole
  <2>2. ASSUME NEW w \in {"removal", "removing"}, NEW a, Goes(t, w, a) PROVE ProperCall(t) /\ SameRole(t)
    <3>1. ProperCall(t) /\ pc'[t] = w
      BY <2>2, <1>2, <1>4, <1>20
    <3> QED BY <3>1, <1>1, <1>20 DEF SameRole
  <2> QED BY <2>1, <2>2, <1>20
<1>21. ASSUME pc[t] = "calling", NEW a, Removes(t, a)
       PROVE  ProperCall(t) /\ SameRole(t)
  <2>1. UNCHANGED config /\ (Goes(t, "removal", a) \/ Goes(t, "removing", 0))
    BY <1>21 DEF Removes, RemovesNow, RemovesLater
  <2> QED BY <2>1, <1>20, <1>21
<1>22. CASE RemoveAddress(t)
  <2>1. pc[t] = "calling"
    BY <1>22 DEF RemoveAddress, Enters
  <2>2. CASE Throws("nothing mapped")
    BY <2>1, <2>2, <1>5
  <2>3. CASE Refused(t)
    BY <2>1, <2>3, <1>20 DEF Refused
  <2>4. CASE Removes(t, call[t].address)
    BY <2>1, <2>4, <1>21
  <2> QED BY <1>22, <2>2, <2>3, <2>4 DEF RemoveAddress
<1>23. CASE RemoveName(t)
  <2>1. pc[t] = "calling"
    BY <1>23 DEF RemoveName, Enters
  <2>2. CASE Refused(t)
    BY <2>1, <2>2, <1>20 DEF Refused
  <2>3. CASE \E a : Removes(t, a)
    BY <2>1, <2>3, <1>21
  <2> QED BY <1>23, <2>2, <2>3 DEF RemoveName
<1>24. CASE RemovalTurn(t)
  <2>1. pc[t] = "removal"
    BY <1>24 DEF RemovalTurn
  <2>2. CASE Throws("removal lost")
    BY <2>1, <2>2, <1>5
  <2>3. CASE UNCHANGED config /\ (Returns(t) \/ Goes(t, "removing", 0))
    BY <2>1, <2>3, <1>20
  <2> QED BY <1>24, <2>2, <2>3 DEF RemovalTurn
<1>25. CASE Removed(t)
  BY <1>20, <1>25 DEF Removed, Refused
<1> QED
  BY <1>6, <1>7, <1>8, <1>11, <1>12, <1>13, <1>14, <1>15, <1>17, <1>18, <1>19, <1>22, <1>23, <1>24, <1>25
  DEF Step

\* The calls stay proper, and the configuration lock has one owner.
LEMMA ConfiguringStep ==
    ASSUME Locked, CallTypes, Configuring, NEW t \in Threads, Call(t) \/ Step(t)
    PROVE  CallTypes' /\ Configuring'
<1>1. \A u \in Threads \ {t} : pc'[u] = pc[u] /\ at'[u] = at[u] /\ call'[u] = call[u]
  BY OnlyItself
<1>2. ProperCall(t) /\ (ConfigLock(t) \/ ConfigTurn(t) \/ SameRole(t) \/ Unlocked(t))
  BY RoleStep
<1>3. CallTypes'
  BY <1>1, <1>2 DEF ProperCall, CallTypes
<1>4. /\ Queued' \ {t} = Queued \ {t} /\ Inside' \ {t} = Inside \ {t}
      /\ t \in Queued <=> pc[t] = "queued"
      /\ t \in Queued' <=> pc'[t] = "queued"
  BY <1>1 DEF Queued, Inside
<1>5. /\ ConfigOK(nextConfigWake, Queued, Inside) /\ configBusy \in BOOLEAN
      /\ configBusy <=> Owners(nextConfigWake, Queued, Inside) # {}
  BY DEF Configuring
<1>6. CASE SameRole(t)
  <2>1. Queued' = Queued /\ Inside' = Inside /\ nextConfigWake' = nextConfigWake /\ configBusy' = configBusy
    BY <1>4, <1>6 DEF SameRole, config
  <2> QED BY <2>1, <1>3, <1>5 DEF Configuring
<1>7. CASE Unlocked(t)
  <2>1. t \in Inside /\ t \notin Inside' /\ Queued' = Queued /\ Inside' = Inside \ {t}
    <3>1. t \in Inside /\ t \notin Inside' /\ t \notin Queued /\ t \notin Queued'
      BY <1>7 DEF Unlocked, Inside, Queued
    <3> QED BY <3>1, <1>4
  <2>2. CASE nextConfigWake = <<>>
    <3>1. nextConfigWake' = nextConfigWake /\ configBusy' = FALSE
      BY <2>2, <1>7 DEF Unlocked, ConfigUnlock
    <3>2. /\ ConfigOK(nextConfigWake, Queued, Inside \ {t})
          /\ Owners(nextConfigWake, Queued, Inside \ {t}) = {}
      BY <2>1, <2>2, <1>5, ConfigFreed
    <3> QED BY <2>1, <3>1, <3>2, <1>3 DEF Configuring
  <2>3. CASE nextConfigWake # <<>>
    <3>1. nextConfigWake' = Tail(nextConfigWake) /\ configBusy' = configBusy
      BY <2>3, <1>7 DEF Unlocked, ConfigUnlock
    <3>2. /\ ConfigOK(Tail(nextConfigWake), Queued, Inside \ {t})
          /\ Owners(Tail(nextConfigWake), Queued, Inside \ {t}) # {}
      BY <2>1, <2>3, <1>5, ConfigHandedOver
    <3>3. configBusy
      BY <2>1, <1>5 DEF Owners
    <3> QED BY <2>1, <3>1, <3>2, <3>3, <1>3, <1>5 DEF Configuring
  <2> QED BY <2>2, <2>3
<1>8. CASE ConfigLock(t)
  <2>1. pc[t] = "calling" /\ t \notin Queued /\ t \notin Inside
    BY <1>8 DEF ConfigLock, Enters, Queued, Inside
  <2>2. CASE configBusy
    <3>1. /\ nextConfigWake' = Append(nextConfigWake, t) /\ configBusy' = configBusy
          /\ pc' = [pc EXCEPT ![t] = "queued"]
      BY <2>2, <1>8 DEF ConfigLock, Goes
    <3>2. pc'[t] = "queued"
      BY <3>1 DEF Locked, LocksOK, LockTypes
    <3>3. Queued' = Queued \cup {t} /\ Inside' = Inside
      <4>1. t \notin Inside'
        BY <3>2 DEF Inside
      <4> QED BY <4>1, <3>2, <2>1, <1>4
    <3>4. /\ ConfigOK(Append(nextConfigWake, t), Queued \cup {t}, Inside)
          /\ Owners(Append(nextConfigWake, t), Queued \cup {t}, Inside) # {}
      BY <2>1, <2>2, <1>5, ConfigLockKeeps
    <3> QED BY <3>1, <3>3, <3>4, <2>2, <1>3, <1>5 DEF Configuring
  <2>3. CASE ~configBusy
    <3>1. /\ nextConfigWake' = nextConfigWake /\ configBusy' = TRUE
          /\ pc' = [pc EXCEPT ![t] = "request"]
      BY <2>3, <1>8 DEF ConfigLock, Goes
    <3>2. pc'[t] = "request"
      BY <3>1 DEF Locked, LocksOK, LockTypes
    <3>3. Queued' = Queued /\ Inside' = Inside \cup {t}
      <4>1. t \in Inside'
        BY <3>2 DEF Inside
      <4> QED BY <4>1, <3>2, <2>1, <1>4
    <3>4. /\ ConfigOK(nextConfigWake, Queued, Inside \cup {t})
          /\ Owners(nextConfigWake, Queued, Inside \cup {t}) # {}
      BY <2>1, <2>3, <1>5, ConfigLockKeeps
    <3> QED BY <3>1, <3>3, <3>4, <1>3 DEF Configuring
  <2> QED BY <2>2, <2>3
<1>9. CASE ConfigTurn(t)
  <2>1. /\ t \in Queued /\ t \notin ToSet(nextConfigWake)
        /\ nextConfigWake' = nextConfigWake /\ configBusy' = configBusy
        /\ pc' = [pc EXCEPT ![t] = "request"]
    BY <1>9 DEF ConfigTurn, Queued, Awaits, Goes, config
  <2>2. pc'[t] = "request"
    BY <2>1 DEF Locked, LocksOK, LockTypes
  <2>3. Queued' = Queued \ {t} /\ Inside' = Inside \cup {t}
    <3>1. t \in Inside'
      BY <2>2 DEF Inside
    <3> QED BY <3>1, <2>2, <1>4
  <2>4. /\ ConfigOK(nextConfigWake, Queued \ {t}, Inside \cup {t})
        /\ Owners(nextConfigWake, Queued \ {t}, Inside \cup {t}) = Owners(nextConfigWake, Queued, Inside)
    BY <2>1, <1>5, ConfigTurnKeeps
  <2> QED BY <2>1, <2>3, <2>4, <1>3, <1>5 DEF Configuring
<1> QED BY <1>2, <1>6, <1>7, <1>8, <1>9

-----------------------------------------------------------------------------
(* The tables *)

Untouched == UNCHANGED <<table, devices>>

\* t removes what nobody executes, or what it has waited for.
Unmapping(t) ==
    \E a \in Mapped :
        /\ Unmaps(a)
        /\ a \notin locks.executing \/ (a = at[t] /\ Holds(locks, pc, at, t))
        /\ pc'[t] \in {"evicting", "removing"}
        /\ call' = call

Executed(t) == at[t] \in Mapped /\ TableExec(at[t]) /\ UNCHANGED devices /\ pc'[t] = "idle"

LEMMA TableKinds ==
    ASSUME Locked, NEW t \in Threads, Call(t) \/ Step(t)
    PROVE  Untouched \/ Unmapping(t) \/ Executed(t) \/ Place(t)
<1>0. pc = [u \in Threads |-> pc[u]]
  BY DEF Locked, LocksOK, LockTypes
<1>1. ASSUME NEW what, Throws(what) PROVE Untouched
  BY <1>1 DEF Throws, Untouched
<1>2. ASSUME NEW a \in Mapped, a \notin locks.executing, Unmaps(a),
             Goes(t, "evicting", 0) \/ Goes(t, "removing", 0)
      PROVE  Unmapping(t)
  <2>1. pc'[t] \in {"evicting", "removing"} /\ call' = call
    BY <1>0, <1>2 DEF Goes
  <2> QED BY <2>1, <1>2 DEF Unmapping
<1>3. ASSUME at[t] \in Mapped, pc[t] \in {"victim", "removal"}, ~Awaits(t, locks.wake[at[t]]), Unmaps(at[t]),
             Goes(t, "evicting", 0) \/ Goes(t, "removing", 0)
      PROVE  Unmapping(t)
  <2>1. pc'[t] \in {"evicting", "removing"} /\ call' = call
    BY <1>0, <1>3 DEF Goes
  <2>2. Holds(locks, pc, at, t)
    BY <1>3 DEF Holds, Waiting, Awaits
  <2> QED BY <2>1, <2>2, <1>3 DEF Unmapping
<1>4. CASE Call(t) \/ ConfigLock(t) \/ ConfigTurn(t) \/ Removed(t)
  BY <1>4 DEF Call, ConfigLock, ConfigTurn, Removed, Refused, Untouched
<1>5. CASE Reuse(t) \/ Configured(t) \/ Execute(t) \/ ExecTurn(t)
  BY <1>5 DEF Reuse, Configured, Execute, ExecTurn, Untouched
<1>6. CASE Launch(t)
  BY <1>1, <1>6 DEF Launch, Untouched
<1>7. CASE Finish(t)
  <2>1. ASSUME Returns(t) PROVE pc'[t] = "idle"
    BY <1>0, <2>1 DEF Returns
  <2> QED BY <2>1, <1>1, <1>7 DEF Finish, Executed
<1>8. CASE Evict(t)
  BY <1>1, <1>2, <1>8, Chosen DEF Evict, Untouched
<1>9. CASE VictimFree(t)
  BY <1>1, <1>3, <1>9 DEF VictimFree
<1>10. ASSUME NEW a \in Mapped, Removes(t, a) PROVE Untouched \/ Unmapping(t)
  BY <1>2, <1>10 DEF Removes, RemovesNow, RemovesLater, Untouched
<1>11. CASE RemoveAddress(t)
  BY <1>1, <1>10, <1>11 DEF RemoveAddress, Refused, Untouched
<1>12. CASE RemoveName(t)
  <2>1. FirstFree(Copies(call[t].name)) \subseteq Mapped
    BY Chosen
  <2> QED BY <2>1, <1>10, <1>12 DEF RemoveName, Refused, Untouched
<1>13. CASE RemovalTurn(t)
  BY <1>1, <1>3, <1>13 DEF RemovalTurn, Untouched
<1> QED
  BY <1>4, <1>5, <1>6, <1>7, <1>8, <1>9, <1>11, <1>12, <1>13 DEF Step

\* What Place does to the tables.
LEMMA Placing ==
    ASSUME TableTypes, CallTypes, NEW t \in Threads, Place(t)
    PROVE  /\ pc[t] \in {"request", "evicting"}
           /\ call[t].name \in Names /\ ctr \in Addresses /\ ctr \notin Mapped
           /\ ctr' = ctr + 1 /\ delUtil' \in Nat
           /\ DOMAIN tab' = Mapped \cup {ctr}
           /\ \A a \in Mapped : tab'[a] = tab[a]
           /\ \E d \in 1 .. Devices :
                /\ tab'[ctr] \in [name : {call[t].name}, device : {d}, used : Nat]
                /\ \E o, f : devices' = [devices EXCEPT ![d] =
                     [occupied |-> [b \in DOMAIN @.occupied \cup {ctr} |-> IF b = ctr THEN o ELSE @.occupied[b]],
                      free     |-> f]]
<1>1. pc[t] \in {"request", "evicting"} /\ ctr \in Addresses
  BY DEF Place, Searches
<1>2. call[t].name \in Names
  BY <1>1, ConfigEngineAssumption DEF CallTypes, ConfigOps
<1>3. ctr \notin Mapped
  BY DEF TableTypes
<1>4. PICK d \in Best(Search(call[t].name)) :
        /\ TableAdd(call[t].name, d)
        /\ \E o : DeviceAdd(d, ctr, o)
  BY DEF Place
<1>5. d \in 1 .. Devices
  BY DEF Best, Fitting
<1>6. /\ ctr' = ctr + 1 /\ delUtil' \in Nat
      /\ DOMAIN tab' = Mapped \cup {ctr}
      /\ \A a \in Mapped : tab'[a] = tab[a]
      /\ tab'[ctr] \in [name : {call[t].name}, device : {d}, used : Nat]
  BY <1>3, <1>4 DEF TableAdd, TableTypes, Mapped
<1>7. \E o, f : devices' = [devices EXCEPT ![d] =
         [occupied |-> [b \in DOMAIN @.occupied \cup {ctr} |-> IF b = ctr THEN o ELSE @.occupied[b]],
          free     |-> f]]
  BY <1>4 DEF DeviceAdd
<1> QED BY <1>1, <1>2, <1>3, <1>5, <1>6, <1>7

LEMMA TableStep ==
    ASSUME Locked, CallTypes, TableTypes, NEW t \in Threads, Call(t) \/ Step(t)
    PROVE  TableTypes'
<1>1. \A a \in locks'.executing : a < ctr'
  BY LocksStep
<1>2. CASE Untouched
  <2>1. tab' = tab /\ ctr' = ctr /\ delUtil' = delUtil /\ devices' = devices
    BY <1>2 DEF Untouched, table
  <2> QED BY <2>1, <1>1 DEF TableTypes, TablesAgree, Mapped
<1>3. CASE Unmapping(t)
  <2>1. PICK a \in Mapped : Unmaps(a)
    BY <1>3 DEF Unmapping
  <2> DEFINE d == tab[a].device
  <2>2. /\ tab' = [b \in Mapped \ {a} |-> tab[b]] /\ DOMAIN tab' = Mapped \ {a}
        /\ ctr' = ctr /\ delUtil' = delUtil /\ d \in 1 .. Devices
        /\ \E f : devices' = [devices EXCEPT ![d] =
             [occupied |-> [b \in DOMAIN @.occupied \ {a} |-> @.occupied[b]], free |-> f]]
    BY <2>1 DEF Unmaps, TableTypes, Mapped
  <2>3. /\ DOMAIN devices' = 1 .. Devices
        /\ DOMAIN devices'[d].occupied = DOMAIN devices[d].occupied \ {a}
        /\ \A e \in (1 .. Devices) \ {d} : devices'[e] = devices[e]
    BY <2>2 DEF TableTypes
  <2>4. TablesAgree'
    BY <2>2, <2>3 DEF TableTypes, TablesAgree, Mapped
  <2>5. tab' \in [Mapped' -> [name : Names, device : 1 .. Devices, used : Nat]]
    BY <2>2 DEF TableTypes, Mapped
  <2>6. Mapped' = Mapped \ {a}
    BY <2>2 DEF Mapped
  <2> QED BY <2>2, <2>3, <2>4, <2>5, <2>6, <1>1 DEF TableTypes
<1>4. CASE Executed(t)
  <2>1. /\ ctr' = ctr /\ delUtil' \in Nat /\ devices' = devices /\ Mapped' = Mapped
        /\ tab' \in [Mapped -> [name : Names, device : 1 .. Devices, used : Nat]]
        /\ \A a \in Mapped : tab'[a].device = tab[a].device
    <3>1. CASE policy = "LRU"
      <4>1. /\ at[t] \in Mapped /\ tab' = [tab EXCEPT ![at[t]].used = delUtil] /\ delUtil' = delUtil + 1
            /\ ctr' = ctr /\ devices' = devices
        BY <1>4, <3>1 DEF Executed, TableExec
      <4>2. /\ DOMAIN tab' = Mapped
            /\ tab'[at[t]] = [tab[at[t]] EXCEPT !.used = delUtil]
            /\ \A a \in Mapped \ {at[t]} : tab'[a] = tab[a]
        BY <4>1 DEF TableTypes, Mapped
      <4>3. /\ tab'[at[t]] \in [name : Names, device : 1 .. Devices, used : Nat]
            /\ tab'[at[t]].device = tab[at[t]].device
        BY <4>1, <4>2 DEF TableTypes
      <4>4. tab' \in [Mapped -> [name : Names, device : 1 .. Devices, used : Nat]]
        BY <4>1, <4>2, <4>3 DEF TableTypes
      <4> QED BY <4>1, <4>2, <4>3, <4>4 DEF TableTypes, Mapped
    <3>2. CASE policy # "LRU"
      BY <1>4, <3>2 DEF Executed, TableExec, table, TableTypes, Mapped
    <3> QED BY <3>1, <3>2
  <2>2. TablesAgree'
    BY <2>1 DEF TableTypes, TablesAgree
  <2> QED BY <2>1, <2>2, <1>1 DEF TableTypes
<1>5. CASE Place(t)
  <2>1. /\ call[t].name \in Names /\ ctr \in Addresses /\ ctr \notin Mapped
        /\ ctr' = ctr + 1 /\ delUtil' \in Nat
        /\ Mapped' = Mapped \cup {ctr}
        /\ \A a \in Mapped : tab'[a] = tab[a]
    BY <1>5, Placing DEF Mapped
  <2>2. PICK d \in 1 .. Devices :
            /\ tab'[ctr] \in [name : {call[t].name}, device : {d}, used : Nat]
            /\ \E o, f : devices' = [devices EXCEPT ![d] =
                 [occupied |-> [b \in DOMAIN @.occupied \cup {ctr} |-> IF b = ctr THEN o ELSE @.occupied[b]],
                  free     |-> f]]
    BY <1>5, Placing
  <2>3. /\ DOMAIN devices' = 1 .. Devices
        /\ DOMAIN devices'[d].occupied = DOMAIN devices[d].occupied \cup {ctr}
        /\ \A e \in (1 .. Devices) \ {d} : devices'[e] = devices[e]
    BY <2>2 DEF TableTypes
  <2>4. tab'[ctr].device = d
    BY <2>2
  <2>5. TablesAgree'
    <3> SUFFICES ASSUME NEW e \in 1 .. Devices
                 PROVE  DOMAIN devices'[e].occupied = { a \in Mapped' : tab'[a].device = e }
      BY DEF TablesAgree
    <3>1. DOMAIN devices[e].occupied = { a \in Mapped : tab[a].device = e }
      BY DEF TableTypes, TablesAgree
    <3>2. \A a \in Mapped : tab'[a].device = tab[a].device /\ a # ctr
      BY <2>1
    <3>3. CASE e = d
      BY <3>1, <3>2, <3>3, <2>1, <2>3, <2>4
    <3>4. CASE e # d
      BY <3>1, <3>2, <3>4, <2>1, <2>3, <2>4
    <3> QED BY <3>3, <3>4
  <2>6. tab' \in [Mapped' -> [name : Names, device : 1 .. Devices, used : Nat]]
    <3>1. tab' = [a \in Mapped' |-> tab'[a]]
      BY <1>5 DEF Place, TableAdd, Mapped
    <3>2. \A a \in Mapped' : tab'[a] \in [name : Names, device : 1 .. Devices, used : Nat]
      BY <2>1, <2>2 DEF TableTypes
    <3> QED BY <3>1, <3>2
  <2>7. \A a \in Mapped' : a < ctr'
    BY <2>1 DEF TableTypes, Addresses
  <2>8. ctr' \in Nat \ {0} /\ Mapped' \subseteq Addresses
    BY <2>1 DEF TableTypes
  <2>9. \A a \in Mapped' \cup locks'.executing : a < ctr'
    BY <2>7, <1>1
  <2> QED BY <2>1, <2>3, <2>5, <2>6, <2>8, <2>9 DEF TableTypes
<1> QED BY <1>2, <1>3, <1>4, <1>5, TableKinds

-----------------------------------------------------------------------------
(* What a thread works on *)

OnFunction == {"configuring", "turn", "launching", "running"}

\* t stays with the address it has, or turns to a mapped function it asked for.
KeepsFunction(t) ==
    /\ Untouched /\ pc[t] \in OnFunction /\ at'[t] = at[t]
    /\ pc'[t] \in Working => at[t] \in Mapped
TurnsToFunction(t) ==
    /\ Untouched
    /\ pc'[t] \in Working => at'[t] \in Mapped
    /\ call[t].op # "execute" /\ at'[t] \in Mapped => tab[at'[t]].name = call[t].name

LEMMA FunctionStep ==
    ASSUME Locked, CallTypes, TableTypes, Named, NEW t \in Threads, Call(t) \/ Step(t), pc'[t] \in OnFunction
    PROVE  call' = call /\ (KeepsFunction(t) \/ TurnsToFunction(t) \/ Place(t))
<1>0. /\ pc = [u \in Threads |-> pc[u]] /\ at = [u \in Threads |-> at[u]]
      /\ pc[t] \in Working => at[t] \in Mapped
  BY DEF Locked, LocksOK, LockTypes, Named
<1>1. ASSUME NEW w, NEW a, Goes(t, w, a) PROVE pc'[t] = w /\ at'[t] = a /\ call' = call
  BY <1>0, <1>1 DEF Goes
<1>2. ASSUME Returns(t) PROVE FALSE
  BY <1>0, <1>2 DEF Returns, OnFunction
<1>3. ASSUME NEW what, Throws(what) PROVE call' = call /\ KeepsFunction(t)
  <2>1. pc' = pc /\ at' = at /\ call' = call /\ UNCHANGED <<table, devices>>
    BY <1>3 DEF Throws, threads
  <2> QED BY <2>1, <1>0 DEF KeepsFunction, Untouched
<1>4. ASSUME NEW w, w \notin OnFunction, NEW a, Goes(t, w, a) PROVE FALSE
  BY <1>1, <1>4
<1>5. "queued" \notin OnFunction /\ "request" \notin OnFunction /\ "evicting" \notin OnFunction
      /\ "victim" \notin OnFunction /\ "removal" \notin OnFunction /\ "removing" \notin OnFunction
      /\ "calling" \notin OnFunction
  BY DEF OnFunction
<1>6. ASSUME NEW a, NEW l, LockToExec(t, a, l), Untouched,
             call[t].op # "execute" /\ a \in Mapped => tab[a].name = call[t].name
      PROVE  call' = call /\ TurnsToFunction(t)
  <2>1. CASE Goes(t, "turn", a)
    <3>1. pc'[t] = "turn" /\ at'[t] = a /\ call' = call
      BY <2>1, <1>1
    <3> QED BY <3>1, <1>6 DEF TurnsToFunction, Working
  <2>2. CASE ExecBegins(t, a, ExecLock(l, t, a))
    <3>1. at'[t] = a /\ call' = call /\ a \in Mapped
      BY <2>2, <1>1 DEF ExecBegins
    <3> QED BY <3>1, <1>6 DEF TurnsToFunction
  <2>3. CASE ExecFails(t, a, ExecLock(l, t, a))
    BY <2>3, <1>2, <1>4, <1>5 DEF ExecFails
  <2> QED BY <1>6, <2>1, <2>2, <2>3 DEF LockToExec
<1>7. CASE Call(t) \/ ConfigLock(t) \/ ConfigTurn(t) \/ Removed(t)
  BY <1>0, <1>2, <1>4, <1>5, <1>7 DEF Call, ConfigLock, ConfigTurn, Removed, Refused
<1>8. CASE Reuse(t)
  <2>1. PICK a \in Firsts(Copies(call[t].name)) : ConfigReturns(t, a, locks)
    BY <1>8 DEF Reuse
  <2>2. a \in Copies(call[t].name)
    BY <2>1, Chosen
  <2>3. tab[a].name = call[t].name /\ Untouched
    BY <1>8, <2>2 DEF Copies, Reuse, Untouched
  <2>4. LockToExec(t, a, locks)
    BY <2>1, <1>2 DEF ConfigReturns
  <2> QED BY <2>3, <2>4, <1>6
<1>9. CASE Configured(t)
  <2>1. Untouched /\ pc[t] = "configuring"
    BY <1>9 DEF Configured, Untouched
  <2>2. LockToExec(t, at[t], ExecUnlock(locks, at[t]))
    BY <1>2, <1>9 DEF Configured, ConfigReturns
  <2>3. at[t] \in Mapped => tab[at[t]].name = call[t].name
    <3>1. call[t].op # "execute"
      BY <2>1 DEF CallTypes, ConfigOps
    <3> QED BY <3>1, <2>1 DEF Named
  <2> QED BY <2>1, <2>2, <2>3, <1>6
<1>10. CASE Execute(t)
  <2>1. Untouched
    BY <1>10 DEF Execute, Untouched
  <2>2. CASE Enters(t, {"execute"}) /\ LockToExec(t, call[t].address, locks)
    BY <2>1, <2>2, <1>6 DEF Enters
  <2>3. ASSUME NEW a \in FirstFree(Copies(call[t].name)), LockToExec(t, a, locks)
        PROVE  call' = call /\ TurnsToFunction(t)
    <3>1. a \in Copies(call[t].name)
      BY Chosen
    <3>2. tab[a].name = call[t].name
      BY <3>1 DEF Copies
    <3> QED BY <2>1, <2>3, <3>2, <1>6
  <2> QED BY <1>2, <1>10, <2>2, <2>3 DEF Execute
<1>11. CASE ExecTurn(t)
  <2>1. Untouched /\ pc[t] \in OnFunction
    BY <1>11 DEF ExecTurn, Untouched, OnFunction
  <2>2. CASE ExecBegins(t, at[t], locks)
    <3>1. at'[t] = at[t] /\ call' = call /\ at[t] \in Mapped
      BY <2>2, <1>1 DEF ExecBegins
    <3> QED BY <2>1, <3>1 DEF KeepsFunction
  <2>3. CASE ExecFails(t, at[t], locks)
    BY <2>3, <1>2, <1>4, <1>5 DEF ExecFails
  <2> QED BY <1>11, <2>2, <2>3 DEF ExecTurn
<1>12. CASE Launch(t)
  <2>1. CASE at[t] \in Mapped /\ Goes(t, "running", at[t]) /\ UNCHANGED <<table, devices>>
    <3>1. at'[t] = at[t] /\ call' = call /\ pc[t] \in OnFunction
      BY <2>1, <1>1, <1>12 DEF Launch, OnFunction
    <3> QED BY <2>1, <3>1 DEF KeepsFunction, Untouched
  <2> QED BY <2>1, <1>3, <1>12 DEF Launch
<1>13. CASE Finish(t)
  BY <1>2, <1>3, <1>13 DEF Finish
<1>14. CASE Place(t)
  BY <1>1, <1>14 DEF Place
<1>15. CASE Evict(t)
  BY <1>3, <1>4, <1>5, <1>15 DEF Evict
<1>16. CASE VictimFree(t)
  BY <1>3, <1>4, <1>5, <1>16 DEF VictimFree
<1>17. ASSUME NEW a, Removes(t, a) PROVE FALSE
  BY <1>4, <1>5, <1>17 DEF Removes, RemovesNow, RemovesLater
<1>18. CASE RemoveAddress(t)
  BY <1>2, <1>3, <1>17, <1>18 DEF RemoveAddress, Refused
<1>19. CASE RemoveName(t)
  BY <1>2, <1>17, <1>19 DEF RemoveName, Refused
<1>20. CASE RemovalTurn(t)
  BY <1>2, <1>3, <1>4, <1>5, <1>20 DEF RemovalTurn
<1> QED
  BY <1>7, <1>8, <1>9, <1>10, <1>11, <1>12, <1>13, <1>14, <1>15, <1>16, <1>18, <1>19, <1>20 DEF Step

LEMMA NamedStep ==
    ASSUME Locked, CallTypes, TableTypes, Named, NEW t \in Threads, Call(t) \/ Step(t)
    PROVE  Named'
<1>0. /\ \A u \in Threads \ {t} : pc'[u] = pc[u] /\ at'[u] = at[u] /\ call'[u] = call[u]
      /\ \A u \in Threads : pc[u] \in OnFunction => at[u] \in locks.executing
      /\ \A a \in locks.executing : a < ctr /\ a # ctr
      /\ Working \subseteq OnFunction
  BY OnlyItself DEF Locked, LocksOK, AtLocked, OnFunction, Outside, Working, TableTypes
\* What the others work on stays mapped, and nothing mapped changes its name.
<1>1. \A u \in Threads \ {t} : pc[u] \in Working => at[u] \in Mapped'
  <2> SUFFICES ASSUME NEW u \in Threads \ {t}, pc[u] \in Working PROVE at[u] \in Mapped'
    OBVIOUS
  <2>1. at[u] \in Mapped /\ at[u] \in locks.executing /\ Holds(locks, pc, at, u)
    BY <1>0 DEF Named, Holds
  <2>2. CASE Untouched
    BY <2>1, <2>2 DEF Untouched, table, Mapped
  <2>3. CASE Unmapping(t)
    <3>1. PICK a \in Mapped :
            Unmaps(a) /\ (a \notin locks.executing \/ (a = at[t] /\ Holds(locks, pc, at, t)))
      BY <2>3 DEF Unmapping
    <3>2. at[u] # a
      BY <2>1, <3>1 DEF Locked, LocksOK, OneOwner
    <3> QED BY <2>1, <3>1, <3>2 DEF Unmaps, Mapped
  <2>4. CASE Executed(t)
    BY <2>1, <2>4 DEF Executed, TableExec, table, Mapped
  <2>5. CASE Place(t)
    BY <2>1, <2>5, Placing DEF Mapped
  <2> QED BY <2>2, <2>3, <2>4, <2>5, TableKinds
<1>2. \A a \in Mapped' : a # ctr => a \in Mapped /\ tab'[a].name = tab[a].name
  <2>1. CASE Untouched
    BY <2>1 DEF Untouched, table, Mapped
  <2>2. CASE Unmapping(t)
    BY <2>2 DEF Unmapping, Unmaps, Mapped
  <2>3. CASE Executed(t)
    <3>1. CASE policy = "LRU"
      <4>1. at[t] \in Mapped /\ tab' = [tab EXCEPT ![at[t]].used = delUtil]
        BY <2>3, <3>1 DEF Executed, TableExec
      <4>2. /\ Mapped' = Mapped
            /\ tab'[at[t]] = [tab[at[t]] EXCEPT !.used = delUtil]
            /\ \A a \in Mapped \ {at[t]} : tab'[a] = tab[a]
        BY <4>1 DEF TableTypes, Mapped
      <4>3. tab'[at[t]].name = tab[at[t]].name
        BY <4>1, <4>2 DEF TableTypes
      <4> QED BY <4>2, <4>3
    <3>2. CASE policy # "LRU"
      BY <2>3, <3>2 DEF Executed, TableExec, table, Mapped
    <3> QED BY <3>1, <3>2
  <2>4. CASE Place(t)
    BY <2>4, Placing DEF Mapped
  <2> QED BY <2>1, <2>2, <2>3, <2>4, TableKinds
<1>3. ASSUME pc'[t] \in OnFunction
      PROVE  /\ pc'[t] \in Working => at'[t] \in Mapped'
             /\ call'[t].op # "execute" /\ at'[t] \in Mapped' => tab'[at'[t]].name = call'[t].name
  <2>1. call' = call /\ (KeepsFunction(t) \/ TurnsToFunction(t) \/ Place(t))
    BY <1>3, FunctionStep
  <2>2. CASE KeepsFunction(t)
    <3>1. tab' = tab /\ Mapped' = Mapped /\ pc[t] \in OnFunction /\ at'[t] = at[t]
      BY <2>2 DEF KeepsFunction, Untouched, table, Mapped
    <3>2. pc'[t] \in Working => at[t] \in Mapped
      BY <2>2 DEF KeepsFunction
    <3>3. call[t].op # "execute" /\ at[t] \in Mapped => tab[at[t]].name = call[t].name
      BY <3>1 DEF Named, OnFunction
    <3> QED BY <2>1, <3>1, <3>2, <3>3
  <2>3. CASE TurnsToFunction(t)
    BY <2>1, <2>3 DEF TurnsToFunction, Untouched, table, Mapped
  <2>4. CASE Place(t)
    <3>1. at'[t] = ctr
      BY <2>4 DEF Place, Goes, Locked, LocksOK, LockTypes
    <3>2. ctr \in Mapped' /\ tab'[ctr].name = call[t].name
      BY <2>4, Placing DEF Mapped
    <3> QED BY <2>1, <3>1, <3>2
  <2> QED BY <2>1, <2>2, <2>3, <2>4
<1>4. \A u \in Threads : pc'[u] \in Working => at'[u] \in Mapped'
  BY <1>0, <1>1, <1>3
<1>5. ASSUME NEW u \in Threads, pc'[u] \in OnFunction, call'[u].op # "execute", at'[u] \in Mapped'
      PROVE  tab'[at'[u]].name = call'[u].name
  <2>1. CASE u = t
    BY <1>3, <1>5, <2>1
  <2>2. CASE u # t
    <3>1. pc[u] \in OnFunction /\ call'[u] = call[u] /\ at'[u] = at[u] /\ at[u] # ctr
      BY <1>0, <1>5, <2>2
    <3>2. at[u] \in Mapped /\ tab'[at[u]].name = tab[at[u]].name
      BY <1>2, <1>5, <3>1
    <3>3. tab[at[u]].name = call[u].name
      BY <1>5, <3>1, <3>2 DEF Named, OnFunction
    <3> QED BY <3>1, <3>2, <3>3
  <2> QED BY <2>1, <2>2
<1> QED BY <1>4, <1>5 DEF Named, OnFunction

-----------------------------------------------------------------------------
(* The copies of a function *)

\* How a thread comes to make space.
LEMMA RoomStep ==
    ASSUME Locked, CallTypes, NEW t \in Threads, Call(t) \/ Step(t), pc'[t] \in {"evicting", "victim"}
    PROVE  /\ call' = call /\ ~Place(t)
           /\ \/ pc[t] \in {"evicting", "victim"}
              \/ pc[t] = "request" /\ (call[t].reUse => Copies(call[t].name) = {})
<1>0. pc = [u \in Threads |-> pc[u]]
  BY DEF Locked, LocksOK, LockTypes
<1>1. ASSUME NEW w, NEW a, Goes(t, w, a) PROVE pc'[t] = w /\ call' = call
  BY <1>0, <1>1 DEF Goes
<1>2. ASSUME Returns(t) PROVE FALSE
  BY <1>0, <1>2 DEF Returns
<1>3. ASSUME NEW w, w \notin {"evicting", "victim"}, NEW a, Goes(t, w, a) PROVE FALSE
  BY <1>1, <1>3
<1>4. ASSUME NEW what, Throws(what) PROVE pc' = pc /\ call' = call
  BY <1>4 DEF Throws, threads
<1>5. ASSUME NEW a, NEW l, LockToExec(t, a, l) PROVE FALSE
  BY <1>2, <1>3, <1>5 DEF LockToExec, ExecBegins, ExecFails
<1>6. ~Place(t)
  BY <1>3 DEF Place
<1>7. ~(Call(t) \/ ConfigLock(t) \/ ConfigTurn(t) \/ Removed(t))
  BY <1>0, <1>2, <1>3 DEF Call, ConfigLock, ConfigTurn, Removed, Refused
<1>8. ~(Reuse(t) \/ Configured(t) \/ Execute(t) \/ ExecTurn(t))
  BY <1>2, <1>3, <1>5
  DEF Reuse, Configured, ConfigReturns, Execute, ExecTurn, ExecBegins, ExecFails
<1>9. ~(Launch(t) \/ Finish(t) \/ RemoveAddress(t) \/ RemoveName(t) \/ RemovalTurn(t))
  <2>1. ASSUME NEW a, Removes(t, a) PROVE FALSE
    BY <1>3, <2>1 DEF Removes, RemovesNow, RemovesLater
  <2> QED BY <2>1, <1>2, <1>3, <1>4
       DEF Launch, Finish, RemoveAddress, RemoveName, RemovalTurn, Refused, Enters
<1>10. CASE Evict(t)
  <2>1. call' = call
    BY <1>1, <1>4, <1>10 DEF Evict
  <2> QED BY <1>6, <1>10, <2>1 DEF Evict, Searches
<1>11. CASE VictimFree(t)
  <2>1. call' = call
    BY <1>1, <1>4, <1>11 DEF VictimFree
  <2> QED BY <1>6, <1>11, <2>1 DEF VictimFree
<1> QED BY <1>6, <1>7, <1>8, <1>9, <1>10, <1>11 DEF Step

LEMMA SingleStep ==
    ASSUME Locked, CallTypes, TableTypes, Configuring, Single, NEW t \in Threads, Call(t) \/ Step(t)
    PROVE  Single'
<1> SUFFICES ASSUME NEW n \in Names, OnlyReused(n)
             PROVE  /\ \A a, b \in Copies(n)' : a = b
                    /\ \A u \in Threads :
                        pc'[u] \in {"evicting", "victim"} /\ call'[u].name = n => Copies(n)' = {}
  BY DEF Single, OnlyReused
<1>0. \A u \in Threads \ {t} : pc'[u] = pc[u] /\ call'[u] = call[u]
  BY OnlyItself
<1>1. /\ \A a, b \in Copies(n) : a = b
      /\ \A u \in Threads : pc[u] \in {"evicting", "victim"} /\ call[u].name = n => Copies(n) = {}
  BY DEF Single
\* Only Place adds one, and only if there is none.
<1>2. \A a \in Copies(n)' : a \in Copies(n) \/ (Place(t) /\ a = ctr /\ call[t].name = n)
  <2>1. CASE Untouched
    BY <2>1 DEF Untouched, table, Copies, Mapped
  <2>2. CASE Unmapping(t)
    BY <2>2 DEF Unmapping, Unmaps, Copies, Mapped
  <2>3. CASE Executed(t)
    <3>1. CASE policy = "LRU"
      <4>1. at[t] \in Mapped /\ tab' = [tab EXCEPT ![at[t]].used = delUtil]
        BY <2>3, <3>1 DEF Executed, TableExec
      <4>2. /\ Mapped' = Mapped
            /\ tab'[at[t]] = [tab[at[t]] EXCEPT !.used = delUtil]
            /\ \A a \in Mapped \ {at[t]} : tab'[a] = tab[a]
        BY <4>1 DEF TableTypes, Mapped
      <4>3. tab'[at[t]].name = tab[at[t]].name
        BY <4>1, <4>2 DEF TableTypes
      <4> QED BY <4>2, <4>3 DEF Copies
    <3>2. CASE policy # "LRU"
      BY <2>3, <3>2 DEF Executed, TableExec, table, Copies, Mapped
    <3> QED BY <3>1, <3>2
  <2>4. CASE Place(t)
    <3>1. /\ Mapped' = Mapped \cup {ctr} /\ \A a \in Mapped : tab'[a] = tab[a]
          /\ tab'[ctr].name = call[t].name
      BY <2>4, Placing DEF Mapped
    <3> QED BY <2>4, <3>1 DEF Copies
  <2> QED BY <2>1, <2>2, <2>3, <2>4, TableKinds
\* The guard of the search, for a function that is only reused.
<1>3. ASSUME pc[t] = "request", call[t].name = n PROVE call[t].reUse
  <2>1. call[t] \in Calls[t] /\ call[t].op \in ConfigOps
    BY <1>3 DEF CallTypes
  <2> QED BY <2>1, <1>3 DEF OnlyReused
<1>4. ASSUME Place(t), call[t].name = n PROVE Copies(n) = {}
  <2>1. \/ pc[t] = "request" /\ (call[t].reUse => Copies(call[t].name) = {})
        \/ pc[t] = "evicting"
    BY <1>4 DEF Place, Searches
  <2> QED BY <2>1, <1>1, <1>3, <1>4
<1>5. \A a, b \in Copies(n)' : a = b
  BY <1>1, <1>2, <1>4
<1>6. ASSUME NEW u \in Threads, pc'[u] \in {"evicting", "victim"}, call'[u].name = n
      PROVE  Copies(n)' = {}
  <2>1. CASE u = t
    <3>1. /\ call' = call /\ ~Place(t)
          /\ \/ pc[t] \in {"evicting", "victim"}
             \/ pc[t] = "request" /\ (call[t].reUse => Copies(call[t].name) = {})
      BY <1>6, <2>1, RoomStep
    <3>2. Copies(n) = {}
      BY <1>1, <1>3, <1>6, <2>1, <3>1
    <3> QED BY <1>2, <3>1, <3>2
  <2>2. CASE u # t
    <3>1. pc[u] \in {"evicting", "victim"} /\ call[u].name = n
      BY <1>0, <1>6, <2>2
    <3>2. ~Place(t)
      <4>1. u \in Inside
        BY <3>1 DEF Inside
      <4>2. Place(t) => t \in Inside
        BY DEF Place, Searches, Inside
      <4> QED BY <2>2, <4>1, <4>2 DEF Configuring, ConfigOK, Owners
    <3> QED BY <1>1, <1>2, <3>1, <3>2
  <2> QED BY <2>1, <2>2
<1> QED BY <1>5, <1>6

-----------------------------------------------------------------------------
(* The invariant of the specification, and what follows from it *)

IInv == Locked /\ CallTypes /\ TableTypes /\ Configuring /\ Named /\ Single

LEMMA InitIInv == Init => IInv
<1> SUFFICES ASSUME Init PROVE IInv
  OBVIOUS
<1> USE DEF Init
<1>1. Locked
  <2>1. \A t \in Threads : pc[t] = "idle" /\ pc[t] \in Outside /\ pc[t] \notin Working /\ pc[t] \notin Waiting
    BY DEF Outside, Working, Waiting
  <2>2. LockTypes(locks, pc, at)
    <3>1. <<>> \in Seq(Threads) /\ "idle" \in Places
      BY DEF Places, Outside
    <3>2. locks \in [executing : SUBSET Addresses, wake : [Addresses -> Seq(Threads)]]
      BY <3>1
    <3> QED BY <3>1, <3>2 DEF LockTypes
  <2>3. AtLocked(locks, pc, at)
    BY <2>1 DEF AtLocked
  <2>4. InLine(locks, pc, at)
    BY DEF InLine
  <2>5. Owned(locks, pc, at)
    BY DEF Owned
  <2>6. OneOwner(locks, pc, at)
    BY <2>1 DEF OneOwner, Holds
  <2> QED BY <2>2, <2>3, <2>4, <2>5, <2>6 DEF Locked, LocksOK
<1>2. CallTypes
  BY DEF CallTypes
<1>3. Mapped = {}
  BY DEF Mapped
<1>4. TableTypes
  <2>1. tab \in [Mapped -> [name : Names, device : 1 .. Devices, used : Nat]]
    BY <1>3
  <2>2. DOMAIN devices = 1 .. Devices /\ \A d \in 1 .. Devices : DOMAIN devices[d].occupied = {}
    OBVIOUS
  <2>3. TablesAgree
    BY <1>3, <2>2 DEF TablesAgree
  <2> QED BY <1>3, <2>1, <2>2, <2>3 DEF TableTypes
<1>5. Configuring
  <2>1. Queued = {} /\ Inside = {}
    BY DEF Queued, Inside
  <2>2. Owners(nextConfigWake, Queued, Inside) = {}
    BY <2>1 DEF Owners
  <2>3. <<>> \in Seq({}) /\ DOMAIN <<>> = {}
    OBVIOUS
  <2> QED BY <2>1, <2>2, <2>3 DEF Configuring, ConfigOK
<1>6. Named
  BY DEF Named, Working
<1>7. Single
  BY <1>3 DEF Single, Copies
<1> QED BY <1>1, <1>2, <1>4, <1>5, <1>6, <1>7 DEF IInv

LEMMA NextIInv == IInv /\ [Next]_vars => IInv'
<1> SUFFICES ASSUME IInv, [Next]_vars PROVE IInv'
  OBVIOUS
<1>1. ASSUME NEW t \in Threads, Call(t) \/ Step(t) PROVE IInv'
  <2>1. Locked'
    BY <1>1, LocksStep DEF IInv, Locked
  <2>2. CallTypes' /\ Configuring'
    BY <1>1, ConfiguringStep DEF IInv
  <2>3. TableTypes'
    BY <1>1, TableStep DEF IInv
  <2>4. Named'
    BY <1>1, NamedStep DEF IInv
  <2>5. Single'
    BY <1>1, SingleStep DEF IInv
  <2> QED BY <2>1, <2>2, <2>3, <2>4, <2>5 DEF IInv
<1>2. CASE UNCHANGED vars
  <2>1. /\ pc' = pc /\ call' = call /\ at' = at /\ locks' = locks
        /\ configBusy' = configBusy /\ nextConfigWake' = nextConfigWake
        /\ tab' = tab /\ ctr' = ctr /\ delUtil' = delUtil /\ devices' = devices
    BY <1>2 DEF vars, threads, config, table
  <2>2. Locked' /\ CallTypes'
    BY <2>1 DEF IInv, Locked, CallTypes
  <2>3. TableTypes'
    BY <2>1 DEF IInv, TableTypes, TablesAgree, Mapped
  <2>4. Configuring'
    <3>1. Queued' = Queued /\ Inside' = Inside
      BY <2>1 DEF Queued, Inside
    <3> QED BY <2>1, <3>1 DEF IInv, Configuring
  <2>5. Named' /\ Single'
    BY <2>1 DEF IInv, Named, Single, Copies, Mapped
  <2> QED BY <2>2, <2>3, <2>4, <2>5 DEF IInv
<1> QED BY <1>1, <1>2 DEF Next

LEMMA SpecIInv == Spec => []IInv
BY InitIInv, NextIInv, PTL DEF Spec

\* An address is locked exactly while one thread holds it: the hand-overs of
\* execUnlock (configEngine.cpp:132) neither lose a lock nor give it twice.
THEOREM LockDisciplineHolds == Spec => []LockDiscipline
<1>1. IInv => LockDiscipline
  <2> SUFFICES ASSUME IInv PROVE LockDiscipline
    OBVIOUS
  <2>1. \A t \in Threads : HoldsLock(t) <=> Holds(locks, pc, at, t)
    BY DEF HoldsLock, Holds, Waiting, Awaits
  <2>2. Owned(locks, pc, at) /\ OneOwner(locks, pc, at) /\ AtLocked(locks, pc, at)
    BY DEF IInv, Locked, LocksOK
  <2>3. \A t \in Threads : HoldsLock(t) => at[t] \in locks.executing
    BY <2>1, <2>2 DEF AtLocked, Holds, Working, Waiting, Outside
  <2>4. \A a \in locks.executing : \E t \in Threads : HoldsLock(t) /\ at[t] = a
    BY <2>1, <2>2 DEF Owned
  <2>5. locks.executing = { at[t] : t \in { u \in Threads : HoldsLock(u) } }
    BY <2>3, <2>4
  <2>6. \A t, u \in Threads : HoldsLock(t) /\ HoldsLock(u) /\ at[t] = at[u] => t = u
    BY <2>1, <2>2 DEF OneOwner
  <2> QED BY <2>5, <2>6 DEF LockDiscipline
<1> QED BY <1>1, SpecIInv, PTL

\* Whoever executes a function has it to itself, mapped in both tables, and it is
\* the function it asked for.
THEOREM ExecutesMappedHolds == Spec => []ExecutesMapped
<1>1. IInv => ExecutesMapped
  <2> SUFFICES ASSUME IInv, NEW t \in Threads, pc[t] \in {"launching", "running"}
               PROVE  /\ at[t] \in Mapped /\ OnDevice(at[t])
                      /\ call[t].op \notin {"execute"} => tab[at[t]].name = call[t].name
                      /\ \A u \in Threads \ {t} : pc[u] \in Working => at[u] # at[t]
    BY DEF ExecutesMapped
  <2>1. at[t] \in Mapped /\ (call[t].op \notin {"execute"} => tab[at[t]].name = call[t].name)
    BY DEF IInv, Named, Working
  <2>2. OnDevice(at[t])
    BY <2>1 DEF IInv, TableTypes, TablesAgree, OnDevice
  <2>3. \A u \in Threads \ {t} : pc[u] \in Working => at[u] # at[t]
    BY DEF IInv, Locked, LocksOK, OneOwner, Holds, Working
  <2> QED BY <2>1, <2>2, <2>3
<1> QED BY <1>1, SpecIInv, PTL

\* Between two waits the central table and the tables of the devices map the same.
THEOREM TablesAgreeHolds == Spec => []TablesAgree
<1>1. IInv => TablesAgree
  BY DEF IInv, TableTypes
<1> QED BY <1>1, SpecIInv, PTL

\* A function that is only configured with reUse is mapped once.
THEOREM OneCopyHolds == Spec => []OneCopyWhenReused
<1>1. IInv => OneCopyWhenReused
  <2> SUFFICES ASSUME IInv, NEW n \in Names, OnlyReused(n)
               PROVE  Cardinality(Copies(n)) <= 1
    BY DEF OneCopyWhenReused, OnlyReused
  <2>1. \A a, b \in Copies(n) : a = b
    BY DEF IInv, Single
  <2>2. CASE Copies(n) = {}
    BY <2>2, FS_EmptySet
  <2>3. CASE Copies(n) # {}
    <3>1. PICK a : Copies(n) = {a}
      BY <2>1, <2>3
    <3> QED BY <3>1, FS_Singleton
  <2> QED BY <2>2, <2>3
<1> QED BY <1>1, SpecIInv, PTL

\* The threads never all wait for each other.
THEOREM SomeoneGoesOnHolds == Spec => []SomeoneGoesOn
<1>1. IInv => SomeoneGoesOn
  <2> SUFFICES ASSUME IInv, NEW t \in Threads, pc[t] # "idle",
                      \A u \in Threads : pc[u] # "idle" => Waits(u)
               PROVE  FALSE
    BY DEF SomeoneGoesOn
  \* Who holds the lock of an address does not wait.
  <2>1. \A u \in Threads : pc[u] \in Waiting => FALSE
    <3> SUFFICES ASSUME NEW u \in Threads, pc[u] \in Waiting PROVE FALSE
      OBVIOUS
    <3>1. at[u] \in locks.executing
      BY DEF IInv, Locked, LocksOK, AtLocked, Waiting, Outside
    <3>2. PICK v \in Threads : Holds(locks, pc, at, v)
      BY <3>1 DEF IInv, Locked, LocksOK, Owned
    <3>3. pc[v] # "idle" /\ ~Waits(v)
      BY <3>2 DEF Holds, Waits, Awaits, Waiting, Working
    <3> QED BY <3>3
  \* So t waits for the configuration lock, and its owner does not wait either.
  <2>2. t \in Queued /\ t \in ToSet(nextConfigWake)
    BY <2>1 DEF Waits, Awaits, Waiting, Queued
  <2>3. nextConfigWake # <<>>
    BY <2>2 DEF ToSet
  <2>4. PICK v : v \in Owners(nextConfigWake, Queued, Inside)
    BY <2>3 DEF IInv, Configuring, ConfigOK
  <2>5. v \in Threads /\ pc[v] # "idle" /\ ~(pc[v] = "queued" /\ Awaits(v, nextConfigWake))
    BY <2>4 DEF Owners, Queued, Inside, Awaits
  <2> QED BY <2>1, <2>5 DEF Waits, Waiting
<1> QED BY <1>1, SpecIInv, PTL

-----------------------------------------------------------------------------
(* The exceptions *)

\* Nobody removes a function by hand.
NoRemovals == \A t \in Threads : \A c \in Calls[t] : c.op \notin RemoveOps

\* Who removes by hand has been asked to.
Removing == \A t \in Threads : pc[t] \in {"removal", "removing"} => call[t].op \in RemoveOps

\* Only a manual removal takes the victim from the thread that waits for it.
VictimsStay == NoRemovals => \A t \in Threads : pc[t] = "victim" => at[t] \in Mapped

\* Every function that may be configured has space when no function is mapped.
EmptyTakes == Mapped = {} => \A n \in Names : ~NoSpace(n)

\* How a thread comes to remove by hand.
LEMMA RemovalPlaces ==
    ASSUME Locked, Removing, NEW t \in Threads, Call(t) \/ Step(t), pc'[t] \in {"removal", "removing"}
    PROVE  call' = call /\ call[t].op \in RemoveOps
<1>0. pc = [u \in Threads |-> pc[u]]
  BY DEF Locked, LocksOK, LockTypes
<1>1. ASSUME NEW w, NEW a, Goes(t, w, a) PROVE pc'[t] = w /\ call' = call
  BY <1>0, <1>1 DEF Goes
<1>2. ASSUME Returns(t) PROVE FALSE
  BY <1>0, <1>2 DEF Returns
<1>3. ASSUME NEW w, w \notin {"removal", "removing"}, NEW a, Goes(t, w, a) PROVE FALSE
  BY <1>1, <1>3
<1>4. ASSUME NEW what, Throws(what) PROVE pc' = pc /\ call' = call
  BY <1>4 DEF Throws, threads
<1>5. ASSUME NEW a, NEW l, LockToExec(t, a, l) PROVE FALSE
  BY <1>2, <1>3, <1>5 DEF LockToExec, ExecBegins, ExecFails
<1>6. ~(Call(t) \/ ConfigLock(t) \/ ConfigTurn(t) \/ Removed(t))
  BY <1>0, <1>2, <1>3 DEF Call, ConfigLock, ConfigTurn, Removed, Refused
<1>7. ~(Reuse(t) \/ Configured(t) \/ Execute(t) \/ ExecTurn(t))
  BY <1>2, <1>3, <1>5
  DEF Reuse, Configured, ConfigReturns, Execute, ExecTurn, ExecBegins, ExecFails
<1>8. ~(Launch(t) \/ Finish(t) \/ Place(t) \/ Evict(t) \/ VictimFree(t))
  BY <1>2, <1>3, <1>4 DEF Launch, Finish, Place, Evict, VictimFree, Searches
<1>9. CASE RemoveAddress(t) \/ RemoveName(t)
  <2>1. call[t].op \in RemoveOps
    BY <1>9 DEF RemoveAddress, RemoveName, Enters, RemoveOps
  <2>2. ASSUME NEW a, Removes(t, a) PROVE call' = call
    BY <1>1, <2>2 DEF Removes, RemovesNow, RemovesLater
  <2> QED BY <2>1, <2>2, <1>2, <1>4, <1>9 DEF RemoveAddress, RemoveName, Refused
<1>10. CASE RemovalTurn(t)
  <2>1. call[t].op \in RemoveOps
    BY <1>10 DEF RemovalTurn, Removing
  <2> QED BY <2>1, <1>1, <1>2, <1>4, <1>10 DEF RemovalTurn
<1> QED BY <1>6, <1>7, <1>8, <1>9, <1>10 DEF Step

\* How a thread comes to wait for its victim.
LEMMA VictimChosen ==
    ASSUME Locked, NEW t \in Threads, Call(t) \/ Step(t), pc'[t] = "victim"
    PROVE  Untouched /\ (at'[t] \in Mapped \/ (pc[t] = "victim" /\ at'[t] = at[t]))
<1>0. pc = [u \in Threads |-> pc[u]] /\ at = [u \in Threads |-> at[u]]
  BY DEF Locked, LocksOK, LockTypes
<1>1. ASSUME NEW w, NEW a, Goes(t, w, a) PROVE pc'[t] = w /\ at'[t] = a
  BY <1>0, <1>1 DEF Goes
<1>2. ASSUME Returns(t) PROVE FALSE
  BY <1>0, <1>2 DEF Returns
<1>3. ASSUME NEW w, w # "victim", NEW a, Goes(t, w, a) PROVE FALSE
  BY <1>1, <1>3
<1>4. ASSUME NEW what, Throws(what) PROVE Untouched /\ pc' = pc /\ at' = at
  BY <1>4 DEF Throws, threads, Untouched
<1>5. ASSUME NEW a, NEW l, LockToExec(t, a, l) PROVE FALSE
  BY <1>2, <1>3, <1>5 DEF LockToExec, ExecBegins, ExecFails
<1>6. ~(Call(t) \/ ConfigLock(t) \/ ConfigTurn(t) \/ Removed(t))
  BY <1>0, <1>2, <1>3 DEF Call, ConfigLock, ConfigTurn, Removed, Refused
<1>7. ~(Reuse(t) \/ Configured(t) \/ Execute(t) \/ ExecTurn(t) \/ Place(t))
  BY <1>2, <1>3, <1>5
  DEF Reuse, Configured, ConfigReturns, Execute, ExecTurn, ExecBegins, ExecFails, Place
<1>8. ~(Launch(t) \/ Finish(t) \/ RemoveAddress(t) \/ RemoveName(t) \/ RemovalTurn(t))
  <2>1. ASSUME NEW a, Removes(t, a) PROVE FALSE
    BY <1>3, <2>1 DEF Removes, RemovesNow, RemovesLater
  <2> QED BY <2>1, <1>2, <1>3, <1>4
       DEF Launch, Finish, RemoveAddress, RemoveName, RemovalTurn, Refused, Enters
<1>9. CASE Evict(t)
  <2>1. ASSUME NEW victim \in FirstFree(Mapped), Goes(t, "victim", victim), UNCHANGED <<table, devices>>
        PROVE  Untouched /\ at'[t] \in Mapped
    BY <2>1, <1>1, Chosen DEF Untouched
  <2>2. CASE Throws("too big")
    BY <2>2, <1>4, <1>9 DEF Evict, Searches
  <2> QED BY <2>1, <2>2, <1>3, <1>9 DEF Evict
<1>10. CASE VictimFree(t)
  BY <1>3, <1>4, <1>10 DEF VictimFree
<1> QED BY <1>6, <1>7, <1>8, <1>9, <1>10 DEF Step

\* Who removes by hand goes on being one who was asked to.
LEMMA RemovingStep ==
    ASSUME Locked, CallTypes, Removing, NEW t \in Threads, Call(t) \/ Step(t)
    PROVE  Removing'
<1>1. \A u \in Threads \ {t} : pc'[u] = pc[u] /\ call'[u] = call[u]
  BY OnlyItself
<1>2. pc'[t] \in {"removal", "removing"} => call'[t].op \in RemoveOps
  BY RemovalPlaces
<1> QED BY <1>1, <1>2 DEF Removing

\* Where nobody removes by hand, who waits for its victim has the configuration lock, and
\* nobody else unmaps.
LEMMA VictimsStep ==
    ASSUME Locked, CallTypes, TableTypes, Configuring, Removing, VictimsStay,
           NEW t \in Threads, Call(t) \/ Step(t)
    PROVE  VictimsStay'
<1> SUFFICES ASSUME NoRemovals, NEW u \in Threads, pc'[u] = "victim" PROVE at'[u] \in Mapped'
  BY DEF VictimsStay, NoRemovals
<1>1. CASE u = t
  <2>1. Untouched /\ at'[t] \in Mapped
    BY <1>1, VictimChosen DEF VictimsStay
  <2> QED BY <1>1, <2>1 DEF Untouched, table, Mapped
<1>2. CASE u # t
  <2>1. pc[u] = "victim" /\ at'[u] = at[u] /\ at[u] \in Mapped
    BY <1>2, OnlyItself DEF VictimsStay
  <2>2. at[u] \in locks.executing
    BY <2>1 DEF Locked, LocksOK, AtLocked, Outside
  <2>3. CASE Untouched
    BY <2>1, <2>3 DEF Untouched, table, Mapped
  <2>4. CASE Unmapping(t)
    <3>1. PICK a \in Mapped :
            /\ Unmaps(a)
            /\ a \notin locks.executing \/ (a = at[t] /\ Holds(locks, pc, at, t))
            /\ pc'[t] \in {"evicting", "removing"}
            /\ call' = call
      BY <2>4 DEF Unmapping
    <3>2. CASE pc'[t] = "evicting"
      <4>1. t \in Inside
        BY <3>2, RoomStep DEF Inside
      <4>2. u \in Inside
        BY <2>1 DEF Inside
      <4> QED BY <1>2, <4>1, <4>2 DEF Configuring, ConfigOK, Owners
    <3>3. CASE pc'[t] = "removing"
      <4>1. call[t].op \in RemoveOps
        BY <3>3, RemovalPlaces
      <4>2. pc[t] # "idle"
        <5>1. ASSUME pc[t] = "idle" PROVE FALSE
          <6>1. ~Step(t)
            BY <5>1 DEF Step, ConfigLock, ConfigTurn, Reuse, Place, Configured, Evict, VictimFree,
                   Execute, ExecTurn, Launch, Finish, RemoveAddress, RemoveName, RemovalTurn, Removed,
                   Enters, Searches
          <6>2. ~Call(t)
            BY <3>3 DEF Call, Locked, LocksOK, LockTypes
          <6> QED BY <6>1, <6>2
        <5> QED BY <5>1
      <4>3. call[t] \in Calls[t]
        BY <4>2 DEF CallTypes
      <4> QED BY <4>1, <4>3 DEF NoRemovals
    <3> QED BY <3>1, <3>2, <3>3
  <2>5. CASE Executed(t)
    BY <2>1, <2>5 DEF Executed, TableExec, table, Mapped
  <2>6. CASE Place(t)
    BY <2>1, <2>6, Placing DEF Mapped
  <2> QED BY <2>3, <2>4, <2>5, <2>6, TableKinds
<1> QED BY <1>1, <1>2

\* What a step may throw.
LEMMA ThrowStep ==
    ASSUME IInv, Removing, VictimsStay, EmptyTakes, error = "none", NEW t \in Threads, Call(t) \/ Step(t)
    PROVE  OnlyRemovalsThrow'
<1> DEFINE Race == error' \in {"nothing mapped", "victim gone", "removal lost"} /\ ~NoRemovals
<1>1. ASSUME error' = "none" \/ Race PROVE OnlyRemovalsThrow'
  BY <1>1 DEF OnlyRemovalsThrow, NoRemovals
<1>2. ASSUME pc[t] # "idle", call[t].op \in RemoveOps PROVE ~NoRemovals
  <2>1. call[t] \in Calls[t]
    BY <1>2 DEF IInv, CallTypes
  <2> QED BY <2>1, <1>2 DEF NoRemovals
<1>3. CASE Call(t) \/ ConfigLock(t) \/ ConfigTurn(t) \/ Removed(t) \/ Reuse(t) \/ Place(t) \/ Configured(t)
           \/ Execute(t) \/ ExecTurn(t) \/ RemoveName(t)
  <2>1. error' = error
    BY <1>3 DEF Call, ConfigLock, ConfigTurn, Removed, Reuse, Place, Configured, Execute, ExecTurn,
           RemoveName, Refused, Removes, RemovesNow, RemovesLater
  <2> QED BY <2>1, <1>1
<1>4. CASE Launch(t)
  <2>1. at[t] \in Mapped
    BY <1>4 DEF Launch, IInv, Named, Working
  <2>2. OnDevice(at[t])
    BY <2>1 DEF IInv, TableTypes, TablesAgree, OnDevice
  <2>3. error' = error
    BY <2>1, <2>2, <1>4 DEF Launch
  <2> QED BY <2>3, <1>1
<1>5. CASE Finish(t)
  <2>1. at[t] \in Mapped
    BY <1>5 DEF Finish, IInv, Named, Working
  <2>2. error' = error
    BY <2>1, <1>5 DEF Finish
  <2> QED BY <2>2, <1>1
<1>6. CASE Evict(t)
  <2>1. call[t] \in Calls[t] /\ call[t].op \in ConfigOps
    BY <1>6 DEF Evict, Searches, IInv, CallTypes
  <2>2. call[t].name \in Names
    BY <2>1, ConfigEngineAssumption DEF ConfigOps
  <2>3. Mapped # {}
    BY <2>2, <1>6 DEF Evict, EmptyTakes
  <2>4. error' = error
    BY <2>3, <1>6 DEF Evict
  <2> QED BY <2>4, <1>1
<1>7. CASE VictimFree(t)
  <2>1. CASE at[t] \in Mapped
    BY <2>1, <1>1, <1>7 DEF VictimFree
  <2>2. CASE at[t] \notin Mapped
    <3>1. ~NoRemovals
      BY <2>2, <1>7 DEF VictimFree, VictimsStay
    <3>2. error' = "victim gone"
      BY <2>2, <1>7 DEF VictimFree, Throws
    <3> QED BY <3>1, <3>2, <1>1
  <2> QED BY <2>1, <2>2
<1>8. CASE RemoveAddress(t)
  <2>1. ~NoRemovals
    BY <1>2, <1>8 DEF RemoveAddress, Enters, RemoveOps
  <2>2. error' = "nothing mapped" \/ error' = error
    BY <1>8 DEF RemoveAddress, Throws, Refused, Removes, RemovesNow, RemovesLater
  <2> QED BY <2>1, <2>2, <1>1
<1>9. CASE RemovalTurn(t)
  <2>1. ~NoRemovals
    BY <1>2, <1>9 DEF RemovalTurn, Removing
  <2>2. error' = "removal lost" \/ error' = error
    BY <1>9 DEF RemovalTurn, Throws
  <2> QED BY <2>1, <2>2, <1>1
<1> QED BY <1>3, <1>4, <1>5, <1>6, <1>7, <1>8, <1>9 DEF Step

\* On devices that take every function when they are empty only programs with manual removals
\* meet an exception: what is executed has not gone (configEngine.cpp:401), no device
\* refuses a command, and while nobody removes by hand no victim goes before its turn.
THEOREM NothingElseThrows == Spec /\ []EmptyTakes => []OnlyRemovalsThrow
<1> DEFINE Inv == Removing /\ VictimsStay /\ OnlyRemovalsThrow
<1>1. Init => Inv
  BY DEF Init, Removing, VictimsStay, OnlyRemovalsThrow
<1>2. IInv /\ EmptyTakes /\ Inv /\ [Next]_vars => Inv'
  <2> SUFFICES ASSUME IInv, EmptyTakes, Inv, [Next]_vars PROVE Inv'
    OBVIOUS
  <2>1. ASSUME error = "none", NEW t \in Threads, Call(t) \/ Step(t) PROVE Inv'
    <3>1. Removing'
      BY <2>1, RemovingStep DEF IInv
    <3>2. VictimsStay'
      BY <2>1, VictimsStep DEF IInv
    <3>3. OnlyRemovalsThrow'
      BY <2>1, ThrowStep
    <3> QED BY <3>1, <3>2, <3>3
  <2>2. CASE UNCHANGED vars
    BY <2>2 DEF vars, threads, table, Removing, VictimsStay, NoRemovals, OnlyRemovalsThrow, Mapped
  <2> QED BY <2>1, <2>2 DEF Next
<1> QED BY <1>1, <1>2, SpecIInv, PTL DEF Spec

=============================================================================
