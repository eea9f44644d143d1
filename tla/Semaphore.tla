----------------------------- MODULE Semaphore -----------------------------
(***************************************************************************)
(* POSIX semaphores, the variant for machines with 64-bit atomics.         *)
(*                                                                         *)
(*   nptl/sem_waitcommon.c  __new_sem_wait_fast, __new_sem_wait_slow64,    *)
(*                          __sem_wait_cleanup, do_futex_wait              *)
(*   nptl/sem_wait.c, sem_timedwait.c, sem_clockwait.c, sem_post.c,        *)
(*   nptl/sem_init.c                                                       *)
(*                                                                         *)
(* The word sem->data holds the value in its low 32 bits and the number of *)
(* registered waiters in the others; both are read and written in one      *)
(* atomic access, so an action may change both.  The futex is the value.   *)
(*                                                                         *)
(* A compare-exchange loop is one action: it either exits on a load (value *)
(* at the limit, value zero) or performs its one successful exchange, and  *)
(* its failed iterations change nothing.  A weak exchange that fails where *)
(* the code does not retry is a choice of its own.                         *)
(***************************************************************************)
EXTENDS SemaphoreCommon

(* nwaiters is sem->data >> SEM_NWAITERS_SHIFT.                             *)
VARIABLE value   \* sem->data & SEM_VALUE_MASK

vars == <<value, nwaiters, sleepers, pc>>

PC == { "idle",    \* not in a semaphore function
        "slow",    \* before __new_sem_wait_slow64 registers the waiter
        "fwait",   \* saw no token, before the futex_wait system call
        "sleep",   \* in the system call, cancellation asynchronous
        "reload",  \* back from do_futex_wait with 0 or EAGAIN
        "grab",    \* saw a token, before the compare-exchange
        "unreg",   \* ETIMEDOUT, EINTR or EOVERFLOW, still registered
        "cancel",  \* cancelled, before __sem_wait_cleanup
        "wake",    \* in sem_post, before futex_wake
        "dead" }   \* terminated by cancellation

(* The threads counted by nwaiters.                                         *)
Registered ==
  { t \in Threads : pc[t] \in
      {"fwait", "sleep", "reload", "grab", "unreg", "cancel"} }

TypeOK ==
  /\ value \in 0..SEM_VALUE_MAX
  /\ nwaiters \in Nat
  /\ sleepers \subseteq Threads
  /\ pc \in [Threads -> PC]

(* __new_sem_init with any admissible value.                                *)
sem_init ==
  /\ value \in 0..SEM_VALUE_MAX
  /\ nwaiters = 0

Init ==
  /\ sem_init
  /\ sleepers = {}
  /\ pc = [t \in Threads |-> "idle"]
-----------------------------------------------------------------------------
(* Mutant: wakes a waiter only for the first token.                         *)
sem_post_wake_first(t) ==
  /\ pc[t] = "idle"
  /\ value < SEM_VALUE_MAX
  /\ value' = value + 1
  /\ Goto(t, IF nwaiters > 0 /\ value = 0 THEN "wake" ELSE "idle")
  /\ UNCHANGED <<nwaiters, sleepers>>

(* __new_sem_post adds a token unless the value is at its limit (EOVERFLOW, *)
(* no change), and must wake a waiter if any was registered at that moment. *)
sem_post(t) ==
  /\ pc[t] = "idle"
  /\ value < SEM_VALUE_MAX
  /\ value' = value + 1
  /\ Goto(t, IF nwaiters > 0 THEN "wake" ELSE "idle")
  /\ UNCHANGED <<nwaiters, sleepers>>

sem_post_wake(t) ==
  /\ pc[t] = "wake"
  /\ sleepers' \in FutexWakeOne(sleepers)
  /\ Goto(t, "idle")
  /\ UNCHANGED <<value, nwaiters>>

(* __new_sem_wait_fast takes a token.  For sem_trywait that is all: without *)
(* a token it returns EAGAIN and changes nothing.                           *)
sem_wait_fast(t) ==
  /\ pc[t] = "idle"
  /\ value > 0
  /\ value' = value - 1
  /\ UNCHANGED <<nwaiters, sleepers, pc>>

(* sem_wait and the timed waits go to the slow path when the value is zero  *)
(* or when the single weak compare-exchange of the fast path fails.         *)
sem_wait_slow(t) ==
  /\ pc[t] = "idle"
  /\ Goto(t, "slow")
  /\ UNCHANGED <<value, nwaiters, sleepers>>

(* The waiter registers and learns the value in the same fetch_add.         *)
sem_wait_register(t) ==
  /\ pc[t] = "slow"
  /\ nwaiters' = nwaiters + 1
  /\ Goto(t, IF value = 0 THEN "fwait" ELSE "grab")
  /\ UNCHANGED <<value, sleepers>>

(* Mutant: blocks without comparing the value again.                        *)
do_futex_wait_unchecked(t) ==
  /\ pc[t] = "fwait"
  /\ sleepers' = sleepers \cup {t}
  /\ Goto(t, "sleep")
  /\ UNCHANGED <<value, nwaiters>>

(* do_futex_wait on a value of 0; EAGAIN if it no longer is.                *)
do_futex_wait(t) ==
  /\ pc[t] = "fwait"
  /\ sleepers' = FutexWaitQueue(sleepers, t, value, 0)
  /\ Goto(t, IF value = 0 THEN "sleep" ELSE "reload")
  /\ UNCHANGED <<value, nwaiters>>

do_futex_wait_return(t) ==
  /\ pc[t] = "sleep"
  /\ t \notin sleepers
  /\ Goto(t, "reload")
  /\ UNCHANGED <<value, nwaiters, sleepers>>

(* A spurious wake-up: a futex_wake aimed at memory reused for this word.   *)
do_futex_wait_spurious(t) ==
  /\ t \in sleepers
  /\ sleepers' = sleepers \ {t}
  /\ Goto(t, "reload")
  /\ UNCHANGED <<value, nwaiters>>

(* Mutant: returns the error without deregistering.                         *)
do_futex_wait_error_leak(t) ==
  /\ pc[t] = "fwait" \/ t \in sleepers
  /\ sleepers' = sleepers \ {t}
  /\ Goto(t, "idle")
  /\ UNCHANGED <<value, nwaiters>>

(* EINTR, ETIMEDOUT or EOVERFLOW, before or while blocking.                 *)
do_futex_wait_error(t) ==
  /\ pc[t] = "fwait" \/ t \in sleepers
  /\ sleepers' = sleepers \ {t}
  /\ Goto(t, "unreg")
  /\ UNCHANGED <<value, nwaiters>>

(* Cancellation acts while it is asynchronous, from before the system call  *)
(* until LIBC_CANCEL_RESET after it: also in a thread already woken.        *)
do_futex_wait_cancelled(t) ==
  /\ t \in Cancellable
  /\ pc[t] \in {"fwait", "sleep"}
  /\ sleepers' = sleepers \ {t}
  /\ Goto(t, "cancel")
  /\ UNCHANGED <<value, nwaiters>>

sem_wait_reload(t) ==
  /\ pc[t] = "reload"
  /\ Goto(t, IF value = 0 THEN "fwait" ELSE "grab")
  /\ UNCHANGED <<value, nwaiters, sleepers>>

(* The compare-exchange takes a token and deregisters in one access; if it  *)
(* fails and the value read back is zero, the thread waits again.           *)
sem_wait_grab(t) ==
  /\ pc[t] = "grab"
  /\ IF value > 0
       THEN value' = value - 1 /\ nwaiters' = nwaiters - 1 /\ Goto(t, "idle")
       ELSE Goto(t, "fwait") /\ UNCHANGED <<value, nwaiters>>
  /\ UNCHANGED sleepers

(* Stop being registered, after an error.                                   *)
sem_wait_unregister(t) ==
  /\ pc[t] = "unreg"
  /\ nwaiters' = nwaiters - 1
  /\ Goto(t, "idle")
  /\ UNCHANGED <<value, sleepers>>

(* The cleanup handler of a cancelled waiter, after which the thread ends.  *)
sem_wait_cleanup(t) ==
  /\ pc[t] = "cancel"
  /\ nwaiters' = nwaiters - 1
  /\ Goto(t, "dead")
  /\ UNCHANGED <<value, sleepers>>
-----------------------------------------------------------------------------
Call(t) == sem_post(t) \/ sem_wait_fast(t) \/ sem_wait_slow(t)

Step(t) ==
  \/ sem_post_wake(t)
  \/ sem_wait_register(t)
  \/ do_futex_wait(t)
  \/ do_futex_wait_return(t)
  \/ sem_wait_reload(t)
  \/ sem_wait_grab(t)
  \/ sem_wait_unregister(t)
  \/ sem_wait_cleanup(t)

Environment(t) ==
  \/ do_futex_wait_spurious(t)
  \/ do_futex_wait_error(t)
  \/ do_futex_wait_cancelled(t)

Next == \E t \in Threads : Call(t) \/ Step(t) \/ Environment(t)

Spec == Init /\ [][Next]_vars

Fairness == \A t \in Threads : WF_vars(Step(t))

FairSpec == Spec /\ Fairness
-----------------------------------------------------------------------------
(* Threads that owe a futex_wake, and waiters that have left the kernel and *)
(* will look for a token.                                                   *)
Wakers == { t \in Threads : pc[t] = "wake" }

Awake ==
  { t \in Threads : \/ pc[t] \in {"reload", "grab"}
                    \/ pc[t] = "sleep" /\ t \notin sleepers }

(* Cancelled waiters; each may have taken a wake-up with it.                *)
Cancelled == { t \in Threads : pc[t] \in {"cancel", "dead"} }

(* nwaiters is exactly the number of waiters that registered and have not   *)
(* yet taken a token, given up or been cleaned up after; sem_post relies on *)
(* it to decide whether anybody can be blocked.                             *)
WaitersCounted == nwaiters = Cardinality(Registered)

(* Only a registered waiter inside the system call is blocked.              *)
SleepersInKernel == \A t \in sleepers : pc[t] = "sleep"

(* While a thread is blocked, every token is spoken for: by a post that has *)
(* yet to wake somebody or by a waiter already awake.  sem_post issues one  *)
(* wake per token, and a waiter that times out or is interrupted must not   *)
(* have consumed a wake; a cancelled one can have consumed one, not more.   *)
TokensCovered ==
  sleepers # {} =>
    value <= Cardinality(Wakers) + Cardinality(Awake) + Cardinality(Cancelled)

(* "If there is no token available, sleep until there is": no thread is     *)
(* blocked beside an available token while every other thread is outside    *)
(* the semaphore functions or terminated.                                   *)
SleepUntilToken ==
  sleepers # {} /\ value > 0 =>
    \E t \in Threads \ sleepers : pc[t] \notin {"idle", "dead"}

Abstract ==
  INSTANCE AbstractSemaphore
    WITH MaxValue <- SEM_VALUE_MAX, tokens <- value, waiting <- Registered

(* The semaphore implements the abstract one: one token per wait and, if    *)
(* nobody is cancelled, an available token is eventually taken if somebody  *)
(* waits for it.                                                            *)
ImplementsSemaphore ==
  Abstract!ASpec /\ ([](Cancelled = {}) => Abstract!AProgress)
=============================================================================
