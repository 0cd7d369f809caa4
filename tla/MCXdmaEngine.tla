---------------------------- MODULE MCXdmaEngine ----------------------------
(* Instances of XdmaEngine for TLC: the constants come from the .cfg files *)
(* and the requests are model values.                                      *)
EXTENDS XdmaEngine, TLC
=============================================================================
