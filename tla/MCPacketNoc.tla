----------------------------- MODULE MCPacketNoc -----------------------------
(* Small instances of PacketNoc for TLC. *)
EXTENDS PacketNoc, TLC

\* One switch, whose ports are those of the masters and the slave.
OneSwitch == {"w"}
OnePorts  == "w" :> << <<"m1", "w">>, <<"m2", "w">>, <<"s", "w">> >>
OneRoute  == "w" :> [e \in Elements |-> <<"w", e>>]
OneEdge   == [e \in Elements |-> [from |-> <<e, "w">>, to |-> <<"w", e>>]]
Zero      == "s" :> 0

Rd(a, n) == [op |-> "read", address |-> a, flits |-> n]
Wr(a, n) == [op |-> "write", address |-> a, flits |-> n]
\* Both masters read and write the same address, with answers and requests of two lengths.
Short == "m1" :> {Wr(0, 2), Rd(0, 2)} @@ "m2" :> {Wr(0, 1), Rd(0, 1)}
Tries == [m \in Masters |-> 2]

\* One master and two slaves, whose addresses follow each other.
TwoPorts  == "w" :> << <<"m1", "w">>, <<"a", "w">>, <<"b", "w">> >>
TwoBases  == "a" :> 0 @@ "b" :> 1
Far       == "m1" :> {Wr(1, 1)}

=============================================================================
