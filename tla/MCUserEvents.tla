---------------------------- MODULE MCUserEvents ----------------------------
(* Instances of UserEvents for TLC: the constants come from the .cfg files *)
(* and the threads are model values.                                       *)
EXTENDS UserEvents, TLC
=============================================================================
