---------------------------- MODULE MCInterconnect ----------------------------
(* Small instances of Interconnect for TLC: three masters, and slaves 4 and 5. *)
EXTENDS Interconnect, TLC

Rd(a) == [op |-> "read", address |-> a]
Wr(a) == [op |-> "write", address |-> a]

FirstCell == 4 :> 0 @@ 5 :> 2
LastCell  == 4 :> 1 @@ 5 :> 3
Few       == 1 :> {Rd(3)} @@ 2 :> {Rd(1)} @@ 3 :> {Wr(3)}

EverySystem == {"bus", "ring", "star", "full", "tree"}
AllLocked   == {4, 5}
LastLocked  == {5}

\* What the proof that every call is carried out asks of the graphs makeNocMap draws.
ASSUME NetworkConnected == Connected

=============================================================================
