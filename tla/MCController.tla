---------------------------- MODULE MCController ----------------------------
(* The controller as it is: its two threads are model values. *)
EXTENDS Controller
=============================================================================
