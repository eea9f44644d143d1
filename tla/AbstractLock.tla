---------------------------- MODULE AbstractLock ----------------------------
(***************************************************************************)
(* What a lock promises its clients: at most one owner, handed over only   *)
(* through a release; a thread that asks may give up; and the lock is not  *)
(* left free for ever while somebody is asking for it.                     *)
(***************************************************************************)
CONSTANTS Threads, NoOwner

VARIABLES owner, asking

avars == <<owner, asking>>

AInit == owner = NoOwner /\ asking = {}

Ask(t) ==
  /\ t \notin asking /\ owner # t
  /\ asking' = asking \cup {t}
  /\ UNCHANGED owner

(* A thread acquires the free lock, having asked before or at once.         *)
Acquire(t) ==
  /\ owner = NoOwner
  /\ owner' = t
  /\ asking' = asking \ {t}

GiveUp(t) ==
  /\ t \in asking
  /\ asking' = asking \ {t}
  /\ UNCHANGED owner

Release(t) ==
  /\ owner = t
  /\ owner' = NoOwner
  /\ UNCHANGED asking

ANext == \E t \in Threads : Ask(t) \/ Acquire(t) \/ GiveUp(t) \/ Release(t)

ASpec == AInit /\ [][ANext]_avars

(* A free lock that is wanted is taken, if not by one who waits then by     *)
(* another thread.                                                         *)
ALiveSpec == ASpec /\ WF_avars(\E t \in asking : Acquire(t))
=============================================================================
