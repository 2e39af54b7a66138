----------------------------- MODULE RemoteMemory -----------------------------
(***************************************************************************)
(* What a network of packets promises to those who call b_transport at its *)
(* edge: a call returns after the memory has performed the access, and the  *)
(* access is performed while the call is under way.  It may be performed    *)
(* more than once, because a request that timed out is sent again.         *)
(***************************************************************************)
EXTENDS Integers

CONSTANTS Masters, Addresses

Accesses == [op : {"read", "write"}, address : Addresses]

VARIABLES
    mem,       \* who wrote each address last
    command,   \* the access each master asks for
    phase,     \* how far it is: "idle", "called", "performed"
    data       \* what the last read of each master has found

vars == <<mem, command, phase, data>>

Invoke(m) ==
    /\ phase[m] = "idle"
    /\ \E c \in Accesses : command' = [command EXCEPT ![m] = c]
    /\ phase' = [phase EXCEPT ![m] = "called"]
    /\ UNCHANGED <<mem, data>>

Perform(m) ==
    /\ phase[m] # "idle"
    /\ phase' = [phase EXCEPT ![m] = "performed"]
    /\ IF command[m].op = "read"
       THEN data' = [data EXCEPT ![m] = mem[command[m].address]] /\ UNCHANGED mem
       ELSE mem' = [mem EXCEPT ![command[m].address] = m] /\ UNCHANGED data
    /\ UNCHANGED command

Return(m) ==
    /\ phase[m] = "performed"
    /\ phase' = [phase EXCEPT ![m] = "idle"]
    /\ UNCHANGED <<mem, command, data>>

Init ==
    /\ mem \in [Addresses -> Masters]
    /\ command \in [Masters -> Accesses]
    /\ phase = [m \in Masters |-> "idle"]
    /\ data \in [Masters -> Masters]

Next == \E m \in Masters : Invoke(m) \/ Perform(m) \/ Return(m)

Spec == Init /\ [][Next]_vars

=============================================================================
