---------------------------- MODULE Semaphore32 ----------------------------
(***************************************************************************)
(* POSIX semaphores, the variant for machines without 64-bit atomics       *)
(* (nptl/sem_waitcommon.c and sem_post.c under !__HAVE_64B_ATOMICS).       *)
(*                                                                         *)
(* Value and nwaiters are two words.  The lowest bit of the value word     *)
(* tells sem_post whether nwaiters may be non-zero.  A leaving waiter that *)
(* guesses it is the last one clears the bit before it decrements          *)
(* nwaiters, and if the guess was wrong sets the bit again and issues the  *)
(* wake-ups posts may have left out meanwhile.                             *)
(*                                                                         *)
(* Compare-exchange loops are one action, as in Semaphore.  Definitions    *)
(* that Semaphore has too have names that end in 32.                       *)
(***************************************************************************)
EXTENDS SemaphoreCommon

(* nwaiters is sem->nwaiters; threads block on sem->value.                  *)
VARIABLES
  tokens,    \* sem->value >> SEM_VALUE_SHIFT
  bit,       \* sem->value & SEM_NWAITERS_MASK
  dying,     \* threads whose cleanup handler runs
  wakes      \* the count a misguided waiter passes to futex_wake

vars32 == <<tokens, bit, nwaiters, sleepers, dying, wakes, pc>>

PC32 == { "idle",    \* not in a semaphore function
          "slow",    \* before the increment of nwaiters
          "setbit",  \* before the loop that sets the nwaiters bit
          "fwait",   \* saw no token, before the futex_wait system call
          "sleep",   \* in the system call, cancellation asynchronous
          "reload",  \* back from do_futex_wait
          "grab",    \* saw a token, before the compare-exchange
          "finish",  \* __sem_wait_32_finish, before loading nwaiters
          "unset",   \* read 1, before clearing the bit
          "decr",    \* did not read 1, before decrementing nwaiters
          "decr1",   \* cleared the bit, before decrementing nwaiters
          "rebit",   \* guessed wrong, before setting the bit again
          "wakeall", \* before waking as many waiters as there are tokens
          "wake",    \* in sem_post, before futex_wake
          "dead" }   \* terminated by cancellation

TypeOK32 ==
  /\ tokens \in 0..SEM_VALUE_MAX
  /\ bit \in 0..1
  /\ nwaiters \in Nat
  /\ sleepers \subseteq Threads
  /\ dying \subseteq Threads
  /\ wakes \in [Threads -> 0..SEM_VALUE_MAX]
  /\ pc \in [Threads -> PC32]

Init32 ==
  /\ tokens \in 0..SEM_VALUE_MAX
  /\ bit = 0
  /\ nwaiters = 0
  /\ sleepers = {}
  /\ dying = {}
  /\ wakes = [t \in Threads |-> 0]
  /\ pc = [t \in Threads |-> "idle"]
-----------------------------------------------------------------------------
(* __new_sem_post: one more token, or EOVERFLOW with no change.             *)
sem_post32(t) ==
  /\ pc[t] = "idle"
  /\ tokens < SEM_VALUE_MAX
  /\ tokens' = tokens + 1
  /\ Goto(t, IF bit = 1 THEN "wake" ELSE "idle")
  /\ UNCHANGED <<bit, nwaiters, sleepers, dying, wakes>>

sem_post_wake32(t) ==
  /\ pc[t] = "wake"
  /\ sleepers' \in FutexWakeOne(sleepers)
  /\ Goto(t, "idle")
  /\ UNCHANGED <<tokens, bit, nwaiters, dying, wakes>>

sem_wait_fast32(t) ==
  /\ pc[t] = "idle"
  /\ tokens > 0
  /\ tokens' = tokens - 1
  /\ UNCHANGED <<bit, nwaiters, sleepers, dying, wakes, pc>>

sem_wait_slow32(t) ==
  /\ pc[t] = "idle"
  /\ Goto(t, "slow")
  /\ UNCHANGED <<tokens, bit, nwaiters, sleepers, dying, wakes>>

sem_wait_register32(t) ==
  /\ pc[t] = "slow"
  /\ nwaiters' = nwaiters + 1
  /\ Goto(t, "setbit")
  /\ UNCHANGED <<tokens, bit, sleepers, dying, wakes>>

(* The innermost loop ends with the bit seen set or set by this thread; the *)
(* same access tells whether there is a token.                              *)
sem_wait_setbit(t) ==
  /\ pc[t] = "setbit"
  /\ bit' = 1
  /\ Goto(t, IF tokens = 0 THEN "fwait" ELSE "grab")
  /\ UNCHANGED <<tokens, nwaiters, sleepers, dying, wakes>>

(* do_futex_wait: blocks if the word is SEM_NWAITERS_MASK, that is no       *)
(* token and the bit set.                                                   *)
do_futex_wait32(t) ==
  /\ pc[t] = "fwait"
  /\ sleepers' = FutexWaitQueue(sleepers, t, <<tokens, bit>>, <<0, 1>>)
  /\ Goto(t, IF <<tokens, bit>> = <<0, 1>> THEN "sleep" ELSE "reload")
  /\ UNCHANGED <<tokens, bit, nwaiters, dying, wakes>>

do_futex_wait_return32(t) ==
  /\ pc[t] = "sleep"
  /\ t \notin sleepers
  /\ Goto(t, "reload")
  /\ UNCHANGED <<tokens, bit, nwaiters, sleepers, dying, wakes>>

do_futex_wait_spurious32(t) ==
  /\ t \in sleepers
  /\ sleepers' = sleepers \ {t}
  /\ Goto(t, "reload")
  /\ UNCHANGED <<tokens, bit, nwaiters, dying, wakes>>

(* Mutant: returns the error without deregistering.                         *)
do_futex_wait_error_leak32(t) ==
  /\ pc[t] = "fwait" \/ t \in sleepers
  /\ sleepers' = sleepers \ {t}
  /\ Goto(t, "idle")
  /\ UNCHANGED <<tokens, bit, nwaiters, dying, wakes>>

(* EINTR or ETIMEDOUT: to the common exit.                                  *)
do_futex_wait_error32(t) ==
  /\ pc[t] = "fwait" \/ t \in sleepers
  /\ sleepers' = sleepers \ {t}
  /\ Goto(t, "finish")
  /\ UNCHANGED <<tokens, bit, nwaiters, dying, wakes>>

(* Cancellation: __sem_wait_cleanup runs the common exit, then the thread   *)
(* ends.                                                                    *)
do_futex_wait_cancelled32(t) ==
  /\ t \in Cancellable
  /\ pc[t] \in {"fwait", "sleep"}
  /\ sleepers' = sleepers \ {t}
  /\ dying' = dying \cup {t}
  /\ Goto(t, "finish")
  /\ UNCHANGED <<tokens, bit, nwaiters, wakes>>

(* After blocking, the word is read again; with no token the loop goes back *)
(* to the bit, which it need not set if the word read has it.               *)
sem_wait_reload32(t) ==
  /\ pc[t] = "reload"
  /\ Goto(t, IF tokens > 0 THEN "grab" ELSE
             IF bit = 1 THEN "fwait" ELSE "setbit")
  /\ UNCHANGED <<tokens, bit, nwaiters, sleepers, dying, wakes>>

(* The compare-exchange takes a token, or it fails because the word changed *)
(* and the outer loop starts over with the word it read.                    *)
sem_wait_grab32(t) ==
  /\ pc[t] = "grab"
  /\ \/ tokens > 0 /\ tokens' = tokens - 1 /\ Goto(t, "finish")
     \/ /\ tokens = 0 \/ bit = 0
        /\ Goto(t, IF bit = 1 THEN "fwait" ELSE "setbit")
        /\ UNCHANGED tokens
  /\ UNCHANGED <<bit, nwaiters, sleepers, dying, wakes>>

(* __sem_wait_32_finish                                                     *)
finish_guess(t) ==
  /\ pc[t] = "finish"
  /\ Goto(t, IF nwaiters = 1 THEN "unset" ELSE "decr")
  /\ UNCHANGED <<tokens, bit, nwaiters, sleepers, dying, wakes>>

finish_unset(t) ==
  /\ pc[t] = "unset"
  /\ bit' = 0
  /\ Goto(t, "decr1")
  /\ UNCHANGED <<tokens, nwaiters, sleepers, dying, wakes>>

Exit(t) == IF t \in dying THEN "dead" ELSE "idle"

(* Mutant: does not look whether the guess was right.                       *)
finish_decrement_trusting(t) ==
  /\ pc[t] \in {"decr", "decr1"}
  /\ nwaiters' = nwaiters - 1
  /\ Goto(t, Exit(t))
  /\ UNCHANGED <<tokens, bit, sleepers, dying, wakes>>

finish_decrement(t) ==
  /\ pc[t] \in {"decr", "decr1"}
  /\ nwaiters' = nwaiters - 1
  /\ Goto(t, IF nwaiters > 1 /\ pc[t] = "decr1" THEN "rebit" ELSE Exit(t))
  /\ UNCHANGED <<tokens, bit, sleepers, dying, wakes>>

finish_rebit(t) ==
  /\ pc[t] = "rebit"
  /\ bit' = 1
  /\ wakes' = [wakes EXCEPT ![t] = tokens]
  /\ Goto(t, IF tokens > 0 THEN "wakeall" ELSE Exit(t))
  /\ UNCHANGED <<tokens, nwaiters, sleepers, dying>>

(* Mutant: one wake-up whatever the number of tokens.                       *)
finish_wake_one(t) ==
  /\ pc[t] = "wakeall"
  /\ sleepers' \in FutexWakeOne(sleepers)
  /\ wakes' = [wakes EXCEPT ![t] = 0]
  /\ Goto(t, Exit(t))
  /\ UNCHANGED <<tokens, bit, nwaiters, dying>>

finish_wake(t) ==
  /\ pc[t] = "wakeall"
  /\ sleepers' \in FutexWake(sleepers, wakes[t])
  /\ wakes' = [wakes EXCEPT ![t] = 0]
  /\ Goto(t, Exit(t))
  /\ UNCHANGED <<tokens, bit, nwaiters, dying>>
-----------------------------------------------------------------------------
Call32(t) == sem_post32(t) \/ sem_wait_fast32(t) \/ sem_wait_slow32(t)

Step32(t) ==
  \/ sem_post_wake32(t)
  \/ sem_wait_register32(t)
  \/ sem_wait_setbit(t)
  \/ do_futex_wait32(t)
  \/ do_futex_wait_return32(t)
  \/ sem_wait_reload32(t)
  \/ sem_wait_grab32(t)
  \/ finish_guess(t)
  \/ finish_unset(t)
  \/ finish_decrement(t)
  \/ finish_rebit(t)
  \/ finish_wake(t)

Environment32(t) ==
  \/ do_futex_wait_spurious32(t)
  \/ do_futex_wait_error32(t)
  \/ do_futex_wait_cancelled32(t)

Next32 == \E t \in Threads : Call32(t) \/ Step32(t) \/ Environment32(t)

Spec32 == Init32 /\ [][Next32]_vars32

Fairness32 == \A t \in Threads : WF_vars32(Step32(t))

FairSpec32 == Spec32 /\ Fairness32
-----------------------------------------------------------------------------
Waiting ==
  { t \in Threads : pc[t] \in {"setbit", "fwait", "sleep", "reload", "grab"} }

Leaving ==
  { t \in Threads : pc[t] \in {"finish", "unset", "decr", "decr1"} }

(* nwaiters counts the threads between the two atomic accesses to it.       *)
WaitersCounted32 == nwaiters = Cardinality(Waiting \cup Leaving)

(* The bit is missing while a thread is blocked only if a waiter that is    *)
(* leaving cleared it wrongly and will find out: property (1) of the        *)
(* comment in __new_sem_wait_slow64, "we will notice if we make a mistake". *)
MistakeNoticed ==
  sleepers # {} /\ bit = 0 =>
    \E t \in Threads : pc[t] \in {"decr1", "rebit"}

Abstract32 ==
  INSTANCE AbstractSemaphore
    WITH MaxValue <- SEM_VALUE_MAX, waiting <- Waiting

(* The two-word semaphore implements the same abstract semaphore as the     *)
(* one-word variant, with progress if nobody is cancelled.                  *)
ImplementsSemaphore32 ==
  Abstract32!ASpec /\ ([](dying = {}) => Abstract32!AProgress)
=============================================================================
