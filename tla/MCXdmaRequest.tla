--------------------------- MODULE MCXdmaRequest ----------------------------
(* Instances of XdmaRequest for TLC.                                       *)
EXTENDS XdmaRequest
=============================================================================
