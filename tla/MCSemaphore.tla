---------------------------- MODULE MCSemaphore ----------------------------
(* Instances of Semaphore for TLC.                                         *)
EXTENDS Semaphore

CONSTANTS a1, a2, r1, x1, x2
=============================================================================
