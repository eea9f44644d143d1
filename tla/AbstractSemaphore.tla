-------------------------- MODULE AbstractSemaphore --------------------------
(***************************************************************************)
(* What a POSIX semaphore promises: tokens are neither made nor lost, a    *)
(* wait takes exactly one, and no thread waits for ever beside an unused   *)
(* token.                                                                  *)
(***************************************************************************)
EXTENDS Naturals

CONSTANTS Threads, MaxValue

VARIABLES tokens, waiting

avars == <<tokens, waiting>>

AInit == tokens \in 0..MaxValue /\ waiting = {}

Post ==
  /\ tokens < MaxValue
  /\ tokens' = tokens + 1
  /\ UNCHANGED waiting

(* A waiting thread, or one that did not have to wait, takes a token.       *)
Take(t) ==
  /\ tokens > 0
  /\ tokens' = tokens - 1
  /\ waiting' = waiting \ {t}

Wait(t) ==
  /\ t \notin waiting
  /\ waiting' = waiting \cup {t}
  /\ UNCHANGED tokens

(* Timeout, interruption or cancellation.                                   *)
GiveUp(t) ==
  /\ t \in waiting
  /\ waiting' = waiting \ {t}
  /\ UNCHANGED tokens

ANext == Post \/ \E t \in Threads : Take(t) \/ Wait(t) \/ GiveUp(t)

ASpec == AInit /\ [][ANext]_avars

AProgress == WF_avars(\E t \in waiting : Take(t))
=============================================================================
