---------------------------- MODULE MCXvcDevice -----------------------------
(* Instances of XvcDevice for TLC.                                         *)
EXTENDS XvcDevice
=============================================================================
