----------------------------- MODULE MCFutexSync -----------------------------
(* Model-checking instance of FutexSync.                                   *)
EXTENDS FutexSync, TLC
=============================================================================
