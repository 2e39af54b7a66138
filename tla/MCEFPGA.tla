------------------------------- MODULE MCEFPGA -------------------------------
(* Small instances of EFPGA for TLC. *)
EXTENDS EFPGA, TLC

\* The functions of a device of three by three cells: single cells, lines in
\* both directions and a square.
FewShapes == {<<1, 1>>, <<2, 1>>, <<1, 3>>, <<2, 2>>}

\* Small functions, and one as large as the device.
Dominoes == {<<1, 1>>, <<2, 1>>, <<1, 2>>, <<3, 3>>}

AnyKey == Permutations(Keys)

=============================================================================
