------------------------------ MODULE MCMutex ------------------------------
(* Model-checking instance of Mutex.                                       *)
EXTENDS Mutex, TLC
=============================================================================
