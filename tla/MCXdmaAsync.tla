---------------------------- MODULE MCXdmaAsync -----------------------------
(* Instances of XdmaAsync for TLC.                                         *)
EXTENDS XdmaAsync, TLC

CONSTANTS a1, a2

\* Two short segments, and one that is split where the ring wraps.
IovShort == a1 :> <<1, 1>> @@ a2 :> <<2>>
=============================================================================
