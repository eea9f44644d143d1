----------------------------- MODULE MCThreads -----------------------------
(* Model-checking instance of Threads.                                     *)
EXTENDS Threads, TLC
=============================================================================
