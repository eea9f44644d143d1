---------------------------- MODULE MCSemaphore ----------------------------
(* Model-checking instance of Semaphore.                                   *)
EXTENDS Semaphore, TLC
=============================================================================
