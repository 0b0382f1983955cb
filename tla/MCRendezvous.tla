---------------------------- MODULE MCRendezvous ----------------------------
(* Instances of Rendezvous for TLC: the cfgs give the constants.  The runs     *)
(* check liveness or a step, so no symmetry.                                   *)
EXTENDS Rendezvous
=============================================================================
