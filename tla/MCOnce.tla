------------------------------- MODULE MCOnce -------------------------------
(* Model-checking instance of Once.                                        *)
EXTENDS Once, TLC
=============================================================================
