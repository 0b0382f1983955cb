--------------------------- MODULE MCEznecLadder ---------------------------
(* Instances of EznecLadder for TLC: the cfgs give the two constants. *)
EXTENDS EznecLadder
=============================================================================
