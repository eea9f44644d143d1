------------------------------ MODULE MCRWLock ------------------------------
(* Model-checking instance of RWLock: three threads, two of which read and  *)
(* all of which write; one of them, which does both, uses the timed         *)
(* functions.                                                               *)
EXTENDS RWLock
=============================================================================
