--------------------------- MODULE MCConfigEngine ---------------------------
(* Small instances of ConfigEngine for TLC. *)
EXTENDS ConfigEngine, TLC

Three == 1 .. 3

\* f takes one cell of a device, g both.
Cells_ == "f" :> <<1, 1>> @@ "g" :> <<1, 2>>

Configure(n, r)  == [op |-> "configure", name |-> n, reUse |-> r]
Force(n, r)      == [op |-> "executeForce", name |-> n, reUse |-> r]
ExecuteAt(a)     == [op |-> "execute", address |-> a]
ExecuteNamed(n)  == [op |-> "executeName", name |-> n]
RemoveAt_(a)     == [op |-> "remove", address |-> a]
RemoveNamed(n)   == [op |-> "removeName", name |-> n]

\* g is always reused, f is not.
Roles ==
    1 :> { Force("f", FALSE), Force("g", TRUE) } @@
    2 :> { Configure("f", TRUE), Configure("g", TRUE), ExecuteNamed("f"), ExecuteNamed("g") } @@
    3 :> { Configure("f", FALSE), ExecuteAt(1), RemoveAt_(1), RemoveAt_(2), RemoveNamed("f"), RemoveNamed("g") }

AllPolicies == {"FIFO", "LRU", "RANDOM"}

=============================================================================
