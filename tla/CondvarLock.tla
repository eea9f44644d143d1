---------------------------- MODULE CondvarLock ----------------------------
(***************************************************************************)
(* The internal lock of a condition variable: __condvar_acquire_lock,      *)
(* __condvar_release_lock and __condvar_set_orig_size of                   *)
(* nptl/pthread_cond_common.c.                                             *)
(*                                                                         *)
(* It is the three-state lock of LowLevelLock in the two lowest bits of    *)
(* __g1_orig_size; the other bits hold a size that the owner may change    *)
(* while waiters change the lock bits and block on the whole word.         *)
(***************************************************************************)
EXTENDS Naturals, Futex

CONSTANTS
  Users,     \* the threads
  Unowned,   \* the owner of a free lock
  Sizes      \* the sizes the owner sets

ASSUME UsersAssumption == Unowned \notin Users /\ 0 \in Sizes

VARIABLES
  size, bits,  \* the two parts of __g1_orig_size
  written,     \* the size set last, for SizeKept
  sleepers,    \* threads blocked by the kernel on the word
  s,           \* the local s of each thread: a size and lock bits
  at           \* where each thread is

lockvars == <<size, bits, written, sleepers, s, at>>

LockPC == { "out",    \* outside
            "cas",    \* before the compare-exchange to "with wake request"
            "fwait",  \* before futex_wait_simple
            "sleep",  \* in futex_wait_simple
            "load",   \* before the reload after blocking
            "in",     \* holds the lock
            "set",    \* in __condvar_set_orig_size, before the exchange
            "fix",    \* before the store that restores the wake request
            "wake" }  \* released, before futex_wake

Word == <<size, bits>>

LockTypeOK ==
  /\ size \in Sizes /\ bits \in 0..2 /\ written \in Sizes
  /\ sleepers \subseteq Users
  /\ s \in [Users -> Sizes \X (0..2)]
  /\ at \in [Users -> LockPC]

LockInit ==
  /\ size = 0 /\ bits = 0 /\ written = 0
  /\ sleepers = {}
  /\ s = [t \in Users |-> <<0, 0>>]
  /\ at = [t \in Users |-> "out"]

LockGoto(t, l) == at' = [at EXCEPT ![t] = l]

(* What follows a load of the word into s in the loop of                    *)
(* __condvar_acquire_lock.                                                  *)
Reloaded(t) ==
  /\ s' = [s EXCEPT ![t] = Word]
  /\ LockGoto(t, IF bits = 2 THEN "fwait" ELSE "cas")

(* The first loop: take a free lock, or go on with the word that was read.  *)
acquire_fast(t) ==
  /\ at[t] = "out"
  /\ IF bits = 0
       THEN bits' = 1 /\ LockGoto(t, "in") /\ UNCHANGED s
       ELSE Reloaded(t) /\ UNCHANGED bits
  /\ UNCHANGED <<size, written, sleepers>>

(* Mutant: stores the word computed from s instead of exchanging it.        *)
acquire_slow_store(t) ==
  /\ at[t] = "cas"
  /\ size' = s[t][1] /\ bits' = 2
  /\ LockGoto(t, IF bits = 0 THEN "in" ELSE "fwait")
  /\ UNCHANGED <<written, sleepers, s>>

(* The second loop: record the wake request; that acquires the lock if it   *)
(* was free.                                                                *)
acquire_slow(t) ==
  /\ at[t] = "cas"
  /\ IF Word = s[t]
       THEN /\ bits' = 2
            /\ LockGoto(t, IF bits = 0 THEN "in" ELSE "fwait")
            /\ UNCHANGED s
       ELSE Reloaded(t) /\ UNCHANGED bits
  /\ UNCHANGED <<size, written, sleepers>>

acquire_wait(t) ==
  LET expected == <<s[t][1], 2>>
  IN  /\ at[t] = "fwait"
      /\ sleepers' = FutexWaitQueue(sleepers, t, Word, expected)
      /\ LockGoto(t, IF Word = expected THEN "sleep" ELSE "load")
      /\ UNCHANGED <<size, bits, written, s>>

acquire_reload(t) ==
  /\ \/ at[t] = "load"
     \/ at[t] = "sleep" /\ t \notin sleepers
  /\ Reloaded(t)
  /\ UNCHANGED <<size, bits, written, sleepers>>

acquire_spurious(t) ==
  /\ t \in sleepers
  /\ sleepers' = sleepers \ {t}
  /\ UNCHANGED <<size, bits, written, s, at>>

(* __condvar_set_orig_size: load the lock bits, ...                         *)
set_orig_size(t) ==
  /\ at[t] = "in"
  /\ \E n \in Sizes : s' = [s EXCEPT ![t] = <<n, bits>>]
  /\ LockGoto(t, "set")
  /\ UNCHANGED <<size, bits, written, sleepers>>

(* Mutant: does not look at what the exchange returned.                     *)
set_exchange_blind(t) ==
  /\ at[t] = "set"
  /\ size' = s[t][1] /\ bits' = s[t][2]
  /\ written' = s[t][1]
  /\ LockGoto(t, "in")
  /\ UNCHANGED <<sleepers, s>>

(* ... exchange the word with the new size and these bits, ...              *)
set_exchange(t) ==
  /\ at[t] = "set"
  /\ size' = s[t][1] /\ bits' = s[t][2]
  /\ written' = s[t][1]
  /\ LockGoto(t, IF bits # s[t][2] THEN "fix" ELSE "in")
  /\ UNCHANGED <<sleepers, s>>

(* ... and if a wake request came in between, put it back.                  *)
set_fix(t) ==
  /\ at[t] = "fix"
  /\ size' = s[t][1] /\ bits' = 2
  /\ LockGoto(t, "in")
  /\ UNCHANGED <<written, sleepers, s>>

release_lock(t) ==
  /\ at[t] = "in"
  /\ bits' = 0
  /\ LockGoto(t, IF bits = 2 THEN "wake" ELSE "out")
  /\ s' = [s EXCEPT ![t] = <<0, 0>>]
  /\ UNCHANGED <<size, written, sleepers>>

release_wake(t) ==
  /\ at[t] = "wake"
  /\ sleepers' \in FutexWakeOne(sleepers)
  /\ LockGoto(t, "out")
  /\ UNCHANGED <<size, bits, written, s>>
-----------------------------------------------------------------------------
LockStep(t) ==
  \/ acquire_slow(t) \/ acquire_wait(t) \/ acquire_reload(t)
  \/ set_exchange(t) \/ set_fix(t)
  \/ release_lock(t) \/ release_wake(t)

LockNext ==
  \E t \in Users :
    acquire_fast(t) \/ set_orig_size(t) \/ acquire_spurious(t) \/ LockStep(t)

LockSpec == LockInit /\ [][LockNext]_lockvars

LockFairness == \A t \in Users : WF_lockvars(LockStep(t))

LockFairSpec == LockSpec /\ LockFairness
-----------------------------------------------------------------------------
LockHeld(t) == at[t] \in {"in", "set", "fix"}

(* One owner, also while the size is being changed, and the lock bits say   *)
(* whether there is one.                                                    *)
LockExclusion ==
  /\ \A t, u \in Users : LockHeld(t) /\ LockHeld(u) => t = u
  /\ bits # 0 <=> \E t \in Users : LockHeld(t)

(* Acquiring and releasing never disturb the size, whatever sizes the       *)
(* waiters still have in their copies of the word.                          *)
SizeKept == size = written

LockOwner ==
  IF \E t \in Users : LockHeld(t)
    THEN CHOOSE t \in Users : LockHeld(t) ELSE Unowned

LockAsking == { t \in Users : at[t] \in {"cas", "fwait", "sleep", "load"} }

LockAbstract == INSTANCE AbstractLock
  WITH Threads <- Users, NoOwner <- Unowned, owner <- LockOwner, asking <- LockAsking

(* It is a lock like any other: changing the size does not lose the wake    *)
(* request of a waiter, nor a waiter blocked on the old size.               *)
CondvarLockIsLock == LockAbstract!ALiveSpec
=============================================================================
