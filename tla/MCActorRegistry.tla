-------------------------- MODULE MCActorRegistry --------------------------
(* Instances of ActorRegistry for TLC.                                     *)
EXTENDS ActorRegistry

CONSTANTS i1, i2, o1, o2, n1, c1, c2, r1, r2
=============================================================================
