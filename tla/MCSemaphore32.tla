--------------------------- MODULE MCSemaphore32 ---------------------------
(* Model-checking instance of Semaphore32.                                 *)
EXTENDS Semaphore32, TLC
=============================================================================
