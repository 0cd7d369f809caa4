---------------------------- MODULE MCXdmaSgdma -----------------------------
(* Instances of XdmaSgdma for TLC.                                         *)
EXTENDS XdmaSgdma, TLC

Symmetry == Permutations(Users)
=============================================================================
