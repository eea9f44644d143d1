--------------------------- MODULE AbstractBarrier ---------------------------
(***************************************************************************)
(* What a barrier promises: threads arrive, the Count-th arrival releases  *)
(* its round and is the round's only serial thread, nobody leaves before   *)
(* its round is released, and everybody who is released leaves.            *)
(***************************************************************************)
EXTENDS Naturals, FiniteSets

CONSTANTS Threads, Count

VARIABLES arrived, released, serial

avars == <<arrived, released, serial>>

AInit == arrived = {} /\ released = {} /\ serial = {}

Arrive(t) ==
  /\ t \notin arrived \cup released
  /\ Cardinality(arrived) + 1 < Count
  /\ arrived' = arrived \cup {t}
  /\ UNCHANGED <<released, serial>>

Complete(t) ==
  /\ t \notin arrived \cup released
  /\ Cardinality(arrived) + 1 = Count
  /\ arrived' = {}
  /\ released' = released \cup arrived \cup {t}
  /\ serial' = serial \cup {t}

Leave(t) ==
  /\ t \in released
  /\ released' = released \ {t}
  /\ serial' = serial \ {t}
  /\ UNCHANGED arrived

ANext == \E t \in Threads : Arrive(t) \/ Complete(t) \/ Leave(t)

ASpec == AInit /\ [][ANext]_avars

ALiveSpec == ASpec /\ \A t \in Threads : WF_avars(Leave(t))
=============================================================================
