----------------------------- MODULE MCXdmaPoll -----------------------------
(* Instances of XdmaPoll for TLC.                                          *)
EXTENDS XdmaPoll
=============================================================================
