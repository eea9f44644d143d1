-------------------------- MODULE SemaphoreCommon --------------------------
(***************************************************************************)
(* What the two variants of POSIX semaphores, Semaphore and Semaphore32,   *)
(* have in common: their users, the number of waiters, the kernel's queue  *)
(* and the place of each thread.                                           *)
(***************************************************************************)
EXTENDS Naturals, FiniteSets, Futex

CONSTANTS
  Threads,        \* the threads that use the semaphore
  SEM_VALUE_MAX,  \* the largest value
  Cancellable     \* the threads another thread may cancel

ASSUME ThreadsAssumption ==
  /\ IsFiniteSet(Threads)
  /\ SEM_VALUE_MAX \in Nat
  /\ Cancellable \subseteq Threads

VARIABLES
  nwaiters,  \* the number of registered waiters
  sleepers,  \* threads blocked by the kernel on the value
  pc

Goto(t, l) == pc' = [pc EXCEPT ![t] = l]
=============================================================================
