----------------------------- MODULE AtomicMemory -----------------------------
(***************************************************************************)
(* What a coherent memory promises to the processors that share it: every  *)
(* access takes effect at one instant between its call and its return.     *)
(***************************************************************************)
CONSTANTS Clients, Blocks, Words, Values, NULL, Zero, Accesses

VARIABLES
    store,     \* the contents
    call,      \* the access each client is waiting for
    done,      \* whether it has taken effect
    result     \* what it has read

Init ==
    /\ store = [b \in Blocks |-> [w \in Words |-> Zero]]
    /\ call = [c \in Clients |-> NULL]
    /\ done = [c \in Clients |-> FALSE]
    /\ result = [c \in Clients |-> NULL]

Call(c, a) ==
    /\ call[c] = NULL
    /\ call' = [call EXCEPT ![c] = a]
    /\ UNCHANGED <<store, done, result>>

\* A read may look several times: it returns what it saw last.
Look(S) ==
    /\ \A c \in S : call[c] # NULL /\ call[c].cmd = "read"
    /\ result' = [c \in Clients |-> IF c \in S THEN store'[call[c].b][call[c].w] ELSE result[c]]

Write(c) ==
    /\ call[c] # NULL /\ call[c].cmd = "write" /\ ~done[c]
    /\ store' = [store EXCEPT ![call[c].b][call[c].w] = call[c].v]

\* A write, if there is one, and those who look after it.
Perform(W, S) ==
    /\ IF W = {} THEN UNCHANGED store ELSE \E c \in Clients : W = {c} /\ Write(c)
    /\ Look(S)
    /\ done' = [c \in Clients |-> c \in W \cup S \/ done[c]]
    /\ UNCHANGED call

Return(c) ==
    /\ done[c]
    /\ call' = [call EXCEPT ![c] = NULL]
    /\ done' = [done EXCEPT ![c] = FALSE]
    /\ result' = [result EXCEPT ![c] = NULL]
    /\ UNCHANGED store

Next ==
    \/ \E c \in Clients : (\E a \in Accesses : Call(c, a)) \/ Return(c)
    \/ \E W, S \in SUBSET Clients : Perform(W, S)

Spec == Init /\ [][Next]_<<store, call, done, result>>
=============================================================================
