---------------------------- MODULE LowLevelLock ----------------------------
(***************************************************************************)
(* The low-level lock: the three-state futex lock under pthread mutexes,   *)
(* stdio, malloc arenas and most of libc's internal locking.               *)
(*                                                                         *)
(*   sysdeps/nptl/lowlevellock.h  __lll_lock, __lll_trylock,               *)
(*                                __lll_cond_lock, __lll_unlock            *)
(*   nptl/lowlevellock.c          __lll_lock_wait, __lll_lock_wake         *)
(*   sysdeps/nptl/futex-internal.h  __futex_clocklock64                    *)
(*                                                                         *)
(* The lock word is 0 (free), 1 (acquired, uncontended) or 2 (acquired,    *)
(* possibly with waiters).  Each atomic access to the word and each futex  *)
(* system call is one action.  A thread at "out" does not have the lock    *)
(* and is not in any of the functions; a thread at "in" has the lock.      *)
(***************************************************************************)
EXTENDS Naturals, Futex

CONSTANTS
  Threads,   \* the threads that share the lock
  NoOwner    \* the owner of a free lock

ASSUME NoOwnerAssumption == NoOwner \notin Threads

VARIABLES
  futex,     \* the lock word
  sleepers,  \* threads blocked by the kernel on the word
  pc,        \* where each thread is
  timed      \* the threads in the loop of __futex_clocklock64

vars == <<futex, sleepers, pc, timed>>

PC == { "out",    \* outside; does not hold the lock
        "load",   \* __lll_lock_wait, before the initial load
        "xchg",   \* before atomic_exchange_acquire (futex, 2)
        "fwait",  \* before the futex_wait system call
        "sleep",  \* in the futex_wait system call
        "in",     \* holds the lock
        "wake" }  \* in __lll_unlock, released, before lll_futex_wake

TypeOK ==
  /\ futex \in 0..2
  /\ sleepers \subseteq Threads
  /\ pc \in [Threads -> PC]
  /\ timed \subseteq Threads

Init ==
  /\ futex = 0
  /\ sleepers = {}
  /\ pc = [t \in Threads |-> "out"]
  /\ timed = {}

Goto(t, l) == pc' = [pc EXCEPT ![t] = l]

(* __lll_trylock: CAS 0 -> 1; on failure the caller returns non-zero, which *)
(* changes nothing.                                                        *)
lll_trylock(t) ==
  /\ pc[t] = "out"
  /\ futex = 0
  /\ futex' = 1
  /\ Goto(t, "in")
  /\ UNCHANGED <<sleepers, timed>>

(* __lll_lock: the same CAS, but on failure the thread enters               *)
(* __lll_lock_wait.                                                        *)
lll_lock(t) ==
  \/ lll_trylock(t)
  \/ /\ pc[t] = "out"
     /\ futex # 0
     /\ Goto(t, "load")
     /\ UNCHANGED <<futex, sleepers, timed>>

(* __lll_cond_lock: exchange with 2, which leaves waiters recorded.         *)
lll_cond_lock(t) ==
  /\ pc[t] = "out"
  /\ futex' = 2
  /\ Goto(t, IF futex = 0 THEN "in" ELSE "load")
  /\ UNCHANGED <<sleepers, timed>>

(* lll_cond_trylock: CAS 0 -> 2.                                           *)
lll_cond_trylock(t) ==
  /\ pc[t] = "out"
  /\ futex = 0
  /\ futex' = 2
  /\ Goto(t, "in")
  /\ UNCHANGED <<sleepers, timed>>

(* __futex_clocklock64: CAS 0 -> 1, else straight to the exchange loop.     *)
futex_clocklock(t) ==
  /\ pc[t] = "out"
  /\ IF futex = 0
       THEN futex' = 1 /\ Goto(t, "in") /\ UNCHANGED timed
       ELSE /\ Goto(t, "xchg")
            /\ timed' = timed \cup {t}
            /\ UNCHANGED futex
  /\ UNCHANGED sleepers

(* __lll_lock_wait: if the word is already 2, skip the first exchange.      *)
lock_wait_load(t) ==
  /\ pc[t] = "load"
  /\ Goto(t, IF futex = 2 THEN "fwait" ELSE "xchg")
  /\ UNCHANGED <<futex, sleepers, timed>>

(* Mutant: takes the lock from an owner that had no waiters.                *)
lock_wait_xchg_two(t) ==
  /\ pc[t] = "xchg"
  /\ futex' = 2
  /\ Goto(t, IF futex # 2 THEN "in" ELSE "fwait")
  /\ timed' = IF futex # 2 THEN timed \ {t} ELSE timed
  /\ UNCHANGED sleepers

(* Mutant: a woken waiter acquires with 1, as a first-time locker does.     *)
lock_wait_xchg_one(t) ==
  /\ pc[t] = "xchg"
  /\ futex' = IF futex = 0 THEN 1 ELSE 2
  /\ Goto(t, IF futex = 0 THEN "in" ELSE "fwait")
  /\ timed' = IF futex = 0 THEN timed \ {t} ELSE timed
  /\ UNCHANGED sleepers

(* while (atomic_exchange_acquire (futex, 2) != 0), common to               *)
(* __lll_lock_wait and __futex_clocklock64.                                 *)
lock_wait_xchg(t) ==
  /\ pc[t] = "xchg"
  /\ futex' = 2
  /\ Goto(t, IF futex = 0 THEN "in" ELSE "fwait")
  /\ timed' = IF futex = 0 THEN timed \ {t} ELSE timed
  /\ UNCHANGED sleepers

(* futex_wait (futex, 2): block if the word is still 2, else EAGAIN.        *)
lock_wait_futex(t) ==
  /\ pc[t] = "fwait"
  /\ sleepers' = FutexWaitQueue(sleepers, t, futex, 2)
  /\ Goto(t, IF futex = 2 THEN "sleep" ELSE "xchg")
  /\ UNCHANGED <<futex, timed>>

(* futex_wait returns 0 after a wake-up.                                    *)
futex_wait_woken(t) ==
  /\ pc[t] = "sleep"
  /\ t \notin sleepers
  /\ Goto(t, "xchg")
  /\ UNCHANGED <<futex, sleepers, timed>>

(* futex_wait returns with no wake-up: EINTR, or a spurious wake-up caused  *)
(* by a futex_wake that targets memory reused for this lock.                *)
futex_wait_spurious(t) ==
  /\ t \in sleepers
  /\ sleepers' = sleepers \ {t}
  /\ Goto(t, "xchg")
  /\ UNCHANGED <<futex, timed>>

(* __futex_abstimed_wait64 returns ETIMEDOUT, EINVAL or EOVERFLOW, before   *)
(* or while blocking, and __futex_clocklock64 gives up.                     *)
futex_clocklock_timeout(t) ==
  /\ t \in timed
  /\ pc[t] = "fwait" \/ t \in sleepers
  /\ sleepers' = sleepers \ {t}
  /\ Goto(t, "out")
  /\ timed' = timed \ {t}
  /\ UNCHANGED futex

(* Mutant: the release is a plain store that forgets the waiters.           *)
lll_unlock_no_wake(t) ==
  /\ pc[t] = "in"
  /\ futex' = 0
  /\ Goto(t, "out")
  /\ UNCHANGED <<sleepers, timed>>

(* __lll_unlock: exchange with 0; a wake-up is owed if the word was 2.      *)
lll_unlock(t) ==
  /\ pc[t] = "in"
  /\ futex' = 0
  /\ Goto(t, IF futex > 1 THEN "wake" ELSE "out")
  /\ UNCHANGED <<sleepers, timed>>

(* __lll_lock_wake: lll_futex_wake (futex, 1).                              *)
lll_lock_wake(t) ==
  /\ pc[t] = "wake"
  /\ sleepers' \in FutexWakeOne(sleepers)
  /\ Goto(t, "out")
  /\ UNCHANGED <<futex, timed>>
-----------------------------------------------------------------------------
(* What a client starts at will.                                           *)
Call(t) ==
  lll_lock(t) \/ lll_cond_lock(t) \/ lll_cond_trylock(t) \/ futex_clocklock(t)

(* What a thread inside a function does, and the client's promise to        *)
(* release a lock it holds.                                                 *)
Step(t) ==
  \/ lock_wait_load(t)
  \/ lock_wait_xchg(t)
  \/ lock_wait_futex(t)
  \/ futex_wait_woken(t)
  \/ lll_unlock(t)
  \/ lll_lock_wake(t)

Environment(t) == futex_wait_spurious(t) \/ futex_clocklock_timeout(t)

Next == \E t \in Threads : Call(t) \/ Step(t) \/ Environment(t)

Spec == Init /\ [][Next]_vars

Fairness == \A t \in Threads : WF_vars(Step(t))

FairSpec == Spec /\ Fairness
-----------------------------------------------------------------------------
(* Threads on their way to an atomic_exchange that leaves the word at 2, or *)
(* to a futex_wake: each of them will see to the blocked threads.           *)
Rescuers ==
  { t \in Threads : \/ pc[t] \in {"xchg", "wake"}
                    \/ pc[t] = "sleep" /\ t \notin sleepers }

(* Mutual exclusion, as the lock word promises it: the word is non-zero     *)
(* exactly while one thread is between acquisition and release.             *)
MutualExclusion ==
  /\ \A t, u \in Threads : pc[t] = "in" /\ pc[u] = "in" => t = u
  /\ futex # 0 <=> \E t \in Threads : pc[t] = "in"

(* No lost wake-up: while a thread is blocked on the word, either the word  *)
(* says 2, so the coming unlock will wake one thread, or some thread is     *)
(* already on its way to a wake-up or to an exchange that restores the 2.   *)
(* This is what makes it safe for __lll_lock to acquire with 1 while others *)
(* sleep.                                                                   *)
NoLostWakeup == sleepers # {} => futex = 2 \/ Rescuers # {}

(* Only a thread inside futex_wait is blocked, and a deadline is only       *)
(* pending in the waiting loop of __futex_clocklock64.                      *)
QueueOK ==
  /\ \A t \in sleepers : pc[t] = "sleep"
  /\ \A t \in timed : pc[t] \in {"xchg", "fwait", "sleep"}

-----------------------------------------------------------------------------
(* The lock as its clients see it: the thread that holds it, and those in   *)
(* the waiting functions.                                                   *)
Owner ==
  IF \E t \in Threads : pc[t] = "in"
    THEN CHOOSE t \in Threads : pc[t] = "in" ELSE NoOwner

Asking == { t \in Threads : pc[t] \in {"load", "xchg", "fwait", "sleep"} }

Abstract == INSTANCE AbstractLock WITH owner <- Owner, asking <- Asking

(* The low-level lock implements the abstract lock, wake-ups included: it   *)
(* never has two owners, and it is never left free for ever while a thread  *)
(* waits for it.                                                            *)
ImplementsLock == Abstract!ALiveSpec
=============================================================================
