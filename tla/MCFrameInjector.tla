--------------------------- MODULE MCFrameInjector ---------------------------
(* Instances of FrameInjector for TLC.                                     *)
EXTENDS FrameInjector, TLC

\* The first channel goes once round its slots and beyond, the second one
\* sends as much as it takes to be in the way.
FourAndOne == (0 :> 4) @@ (1 :> 1)
=============================================================================
