---------------------------- MODULE RobustMutex ----------------------------
(***************************************************************************)
(* Robust mutexes, whose owner may die.                                    *)
(*                                                                         *)
(*   nptl/pthread_mutex_lock.c     __pthread_mutex_lock_full, also as      *)
(*                                 __pthread_mutex_cond_lock_full          *)
(*   nptl/pthread_mutex_trylock.c, pthread_mutex_timedlock.c,              *)
(*   nptl/pthread_mutex_unlock.c, pthread_mutex_consistent.c, descr.h      *)
(*                                                                         *)
(* The lock word holds the owner's thread ID and two flags.  A thread puts *)
(* the mutexes it has on its robust list, and names the one it is about to *)
(* lock or unlock in list_op_pending, so that the kernel can mark the word *)
(* when the thread dies, which it may do between any two steps.  Accesses  *)
(* to __owner and __count are part of the neighbouring step, because the   *)
(* thread that makes them has the word.  pthread_mutex_destroy ignores     *)
(* __nusers of a robust mutex, and so does the model.                      *)
(***************************************************************************)
EXTENDS Naturals, FiniteSets, Futex

CONSTANTS
  Threads,   \* the threads that share the mutex
  NoOwner,   \* thread ID 0
  MaxCount   \* the largest value of __count, which is unsigned

VARIABLES
  kind,   \* __kind
  owner,  \* __owner: a thread, 0, "inconsistent" or "notrecoverable"
  count,  \* __count
  word,   \* __lock: its thread ID, FUTEX_WAITERS, FUTEX_OWNER_DIED
  queue,  \* threads blocked by the kernel on the word
  at,     \* where each thread is
  me,     \* what is private to each thread
  torn    \* a thread died in the middle of its critical section, and
          \* pthread_mutex_consistent has not been called since

rvars == <<kind, owner, count, word, queue, at, me, torn>>

Free == [tid |-> NoOwner, waiters |-> FALSE, died |-> FALSE]

(* share: assume_other_futex_waiters; seen: oldval; pending: list_op_pending *)
(* is the mutex; listed: it is on the robust list.                          *)
NoLocals ==
  [share |-> FALSE, seen |-> Free, pending |-> FALSE, listed |-> FALSE]

RInit ==
  /\ owner = NoOwner /\ count = 0
  /\ word = Free /\ queue = {}
  /\ at = [t \in Threads |-> "out"]
  /\ me = [t \in Threads |-> NoLocals]
  /\ torn = FALSE

Goto(t, l) == at' = [at EXCEPT ![t] = l]

Recursive == kind = "robust_recursive"

(* Return to the caller, which has the mutex or not.                        *)
Return(t) ==
  /\ me' = [me EXCEPT ![t] = [NoLocals EXCEPT !.listed = me[t].listed]]
  /\ Goto(t, IF me[t].listed THEN "in" ELSE "out")
-----------------------------------------------------------------------------
(* lock, timedlock and cond_lock set list_op_pending.  In cond_lock,        *)
(* LLL_ROBUST_MUTEX_LOCK_MODIFIER is FUTEX_WAITERS.  A client locks a       *)
(* mutex that it has only if the kind has an answer.                        *)
robust_lock(t) ==
  /\ at[t] = "out" \/ (at[t] = "in" /\ kind # "robust_normal")
  /\ \E cond \in BOOLEAN : me' = [me EXCEPT ![t].pending = TRUE, ![t].share = cond]
  /\ Goto(t, "try")
  /\ UNCHANGED <<kind, owner, count, word, queue, torn>>

(* The word is free, or its owner died: CAS it to the caller's thread ID.   *)
Available == word = Free \/ word.died

(* Mutant: a thread that may share FUTEX_WAITERS does not set it again.     *)
robust_acquire_unshared(t) ==
  /\ at[t] = "try" /\ Available
  /\ word' = [word EXCEPT !.tid = t, !.died = FALSE]
  /\ Goto(t, IF word.died THEN "inherit" ELSE "got")
  /\ UNCHANGED <<kind, owner, count, queue, me, torn>>

robust_acquire(t) ==
  /\ at[t] = "try" /\ Available
  /\ word' = [tid |-> t, waiters |-> word.waiters \/ me[t].share, died |-> FALSE]
  /\ Goto(t, IF word.died THEN "inherit" ELSE "got")
  /\ UNCHANGED <<kind, owner, count, queue, me, torn>>

(* The caller has the word: EDEADLK; or just bump the counter; or EAGAIN.   *)
Relock(t) ==
  LET bump == Recursive /\ count < MaxCount IN
  /\ count' = IF bump THEN count + 1 ELSE count
  /\ me' = [me EXCEPT ![t] = [NoLocals EXCEPT !.listed = me[t].listed]]
  /\ Goto(t, IF bump \/ me[t].listed THEN "in" ELSE "out")
  /\ UNCHANGED <<kind, owner, word, queue, torn>>

robust_relock(t) ==
  /\ at[t] = "try" /\ word.tid = t /\ kind # "robust_normal"
  /\ Relock(t)

(* timedlock returns before it blocks if the timeout is invalid or          *)
(* negative, and leaves list_op_pending set.                                *)
robust_expired(t) ==
  /\ at[t] = "try" /\ ~Available /\ ~me[t].share
  /\ word.tid = t => kind = "robust_normal"
  /\ Goto(t, "out")
  /\ UNCHANGED <<kind, owner, count, word, queue, me, torn>>

(* Set FUTEX_WAITERS before blocking.                                       *)
robust_contend(t) ==
  /\ at[t] = "try" /\ ~Available
  /\ word.tid = t => kind = "robust_normal"
  /\ word' = [word EXCEPT !.waiters = TRUE]
  /\ me' = [me EXCEPT ![t].share = TRUE, ![t].seen = word']
  /\ Goto(t, "fwait")
  /\ UNCHANGED <<kind, owner, count, queue, torn>>

robust_wait(t) ==
  /\ at[t] = "fwait"
  /\ queue' = FutexWaitQueue(queue, t, word, me[t].seen)
  /\ me' = [me EXCEPT ![t].seen = Free]
  /\ Goto(t, IF word = me[t].seen THEN "sleep" ELSE "try")
  /\ UNCHANGED <<kind, owner, count, word, torn>>

robust_woken(t) ==
  /\ at[t] = "sleep" /\ t \notin queue
  /\ Goto(t, "try")
  /\ UNCHANGED <<kind, owner, count, word, queue, me, torn>>

(* A spurious wake-up; or ETIMEDOUT in timedlock, which is like lock up to  *)
(* here and leaves list_op_pending set.                                     *)
robust_wait_ends(t) ==
  /\ t \in queue
  /\ queue' = queue \ {t}
  /\ \/ Goto(t, "try") /\ UNCHANGED me
     \/ Goto(t, "out") /\ me' = [me EXCEPT ![t].share = FALSE]
  /\ UNCHANGED <<kind, owner, count, word, torn>>

robust_trylock(t) ==
  /\ at[t] \in {"in", "out"}
  /\ me' = [me EXCEPT ![t].pending = TRUE, ![t].seen = word]
  /\ Goto(t, "trylock")
  /\ UNCHANGED <<kind, owner, count, word, queue, torn>>

(* The owner died: CAS the word, and look again if that fails.              *)
robust_trylock_died(t) ==
  /\ at[t] = "trylock" /\ me[t].seen.died
  /\ IF word = me[t].seen
       THEN /\ word' = [word EXCEPT !.tid = t, !.died = FALSE]
            /\ Goto(t, "inherit")
       ELSE UNCHANGED <<word, at>>
  /\ me' = [me EXCEPT ![t].seen = IF word = @ THEN Free ELSE word]
  /\ UNCHANGED <<kind, owner, count, queue, torn>>

robust_trylock_relock(t) ==
  /\ at[t] = "trylock" /\ ~me[t].seen.died
  /\ me[t].seen.tid = t /\ kind # "robust_normal"
  /\ Relock(t)

(* CAS the word from 0; EBUSY if it has an owner, who is not dead.          *)
robust_trylock_free(t) ==
  /\ at[t] = "trylock" /\ ~me[t].seen.died
  /\ me[t].seen.tid = t => kind = "robust_normal"
  /\ IF Available
       THEN /\ word' = IF word = Free THEN [Free EXCEPT !.tid = t] ELSE word
            /\ me' = [me EXCEPT ![t].seen = word]
            /\ Goto(t, IF word = Free THEN "trygot" ELSE "trydied")
       ELSE /\ Return(t)
            /\ UNCHANGED word
  /\ UNCHANGED <<kind, owner, count, queue, torn>>

(* It did not get the word, whose owner died: try again, unless the mutex   *)
(* is unrecoverable.                                                        *)
robust_trylock_again(t) ==
  /\ at[t] = "trydied"
  /\ IF owner = "notrecoverable"
       THEN count' = 0 /\ Return(t)
       ELSE Goto(t, "trylock") /\ UNCHANGED <<count, me>>
  /\ UNCHANGED <<kind, owner, word, queue, torn>>

(* The word was free: enqueue the mutex, unless it is unrecoverable.  In    *)
(* that case lock goes on to release the word; trylock does so only if the  *)
(* old value of the word was the caller's thread ID, which it was not.      *)
robust_check(t) ==
  /\ at[t] \in {"got", "trygot"}
  /\ IF owner = "notrecoverable"
       THEN /\ count' = 0
            /\ Goto(t, IF at[t] = "got" THEN "refuse" ELSE "clear")
            /\ UNCHANGED me
       ELSE /\ count' = 1
            /\ me' = [me EXCEPT ![t].listed = TRUE]
            /\ Goto(t, "listed")
  /\ UNCHANGED <<kind, owner, word, queue, torn>>

(* lll_unlock of an unrecoverable mutex: the old value is compared with 1   *)
(* as a signed number, which it exceeds if FUTEX_WAITERS is not set.        *)
robust_refuse(t) ==
  /\ at[t] = "refuse"
  /\ word' = Free
  /\ Goto(t, IF word.waiters THEN "clear" ELSE "wake")
  /\ UNCHANGED <<kind, owner, count, queue, me, torn>>

(* Mutant: list_op_pending is cleared before the mutex is enqueued.         *)
robust_inherit_unlisted(t) ==
  /\ at[t] = "inherit"
  /\ count' = 1 /\ owner' = "inconsistent"
  /\ me' = [me EXCEPT ![t].pending = FALSE, ![t].listed = ~me[t].pending]
  /\ Goto(t, IF me[t].pending THEN "inherit" ELSE "in")
  /\ UNCHANGED <<kind, word, queue, torn>>

(* The previous owner died: the mutex is inconsistent unless marked         *)
(* otherwise.                                                               *)
robust_inherit(t) ==
  /\ at[t] = "inherit"
  /\ count' = 1 /\ owner' = "inconsistent"
  /\ me' = [me EXCEPT ![t].listed = TRUE]
  /\ Goto(t, "clear")
  /\ UNCHANGED <<kind, word, queue, torn>>

(* Clear list_op_pending after enqueueing, and then record the ownership.   *)
robust_listed(t) ==
  /\ at[t] = "listed"
  /\ me' = [me EXCEPT ![t].pending = FALSE]
  /\ Goto(t, "record")
  /\ UNCHANGED <<kind, owner, count, word, queue, torn>>

robust_record(t) ==
  /\ at[t] = "record"
  /\ owner' = t
  /\ Goto(t, "in")
  /\ UNCHANGED <<kind, count, word, queue, me, torn>>

(* Clear list_op_pending and return.                                        *)
robust_clear(t) ==
  /\ at[t] = "clear"
  /\ Return(t)
  /\ UNCHANGED <<kind, owner, count, word, queue, torn>>

(* pthread_mutex_consistent.                                                *)
mutex_consistent(t) ==
  /\ at[t] = "in" /\ owner = "inconsistent"
  /\ owner' = t
  /\ torn' = FALSE
  /\ UNCHANGED <<kind, count, word, queue, at, me>>

(* Otherwise unlock returns EPERM.                                          *)
MayUnlock(t) ==
  IF Recursive THEN owner = t \/ (owner = "inconsistent" /\ word.tid = t)
               ELSE word.tid = t

(* Mutant: an inconsistent mutex is released like a consistent one.         *)
robust_unlock_forgiving(t) ==
  /\ at[t] = "in" /\ MayUnlock(t)
  /\ count' = IF Recursive THEN (count - 1) % (MaxCount + 1) ELSE count
  /\ IF Recursive /\ count # 1
       THEN UNCHANGED <<owner, at, me>>
       ELSE /\ owner' = NoOwner
            /\ me' = [me EXCEPT ![t].pending = TRUE, ![t].listed = FALSE]
            /\ Goto(t, "release")
  /\ UNCHANGED <<kind, word, queue, torn>>

(* __pthread_mutex_unlock_full: name the mutex in list_op_pending, dequeue  *)
(* it and erase the owner; it is unrecoverable if still inconsistent.       *)
robust_unlock(t) ==
  /\ at[t] = "in" /\ MayUnlock(t)
  /\ count' = IF Recursive THEN (count - 1) % (MaxCount + 1) ELSE count
  /\ IF Recursive /\ count # 1
       THEN UNCHANGED <<owner, at, me>>
       ELSE /\ owner' = IF owner = "inconsistent" THEN "notrecoverable" ELSE NoOwner
            /\ me' = [me EXCEPT ![t].pending = TRUE, ![t].listed = FALSE]
            /\ Goto(t, "release")
  /\ UNCHANGED <<kind, word, queue, torn>>

robust_release(t) ==
  /\ at[t] = "release"
  /\ word' = Free
  /\ Goto(t, IF word.waiters THEN "wake" ELSE "clear")
  /\ UNCHANGED <<kind, owner, count, queue, me, torn>>

robust_wake(t) ==
  /\ at[t] = "wake"
  /\ queue' \in FutexWakeOne(queue)
  /\ Goto(t, "clear")
  /\ UNCHANGED <<kind, owner, count, word, me, torn>>

(* Threads that died; "owing" are those that died after they released the   *)
(* word or were woken, and before they woke a waiter or looked at the word. *)
Dead == {t \in Threads : at[t] \in {"dead", "owing"}}

(* The thread has the mutex, and may have modified the client's data.       *)
Critical(t) == at[t] = "in" \/ me[t].listed

(* A thread dies.  The kernel walks its robust list and list_op_pending: if *)
(* the word has the thread's ID, it replaces that by FUTEX_OWNER_DIED and   *)
(* wakes a waiter; if the word is 0 and the operation was pending, it wakes *)
(* a waiter, because the thread may have been about to.                     *)
thread_dies(t) ==
  /\ Goto(t, IF at[t] \in {"wake", "try", "fwait", "sleep"} THEN "owing" ELSE "dead")
  /\ me' = [me EXCEPT ![t] = NoLocals]
  /\ torn' = (torn \/ Critical(t))
  /\ LET rest == queue \ {t}
         owns == word.tid = t /\ (me[t].pending \/ me[t].listed)
         wake == \/ owns /\ word.waiters
                 \/ me[t].pending /\ word = Free IN
       /\ word' = IF owns THEN [word EXCEPT !.tid = NoOwner, !.died = TRUE] ELSE word
       /\ IF wake THEN queue' \in FutexWakeOne(rest) ELSE queue' = rest
  /\ UNCHANGED <<kind, owner, count>>
-----------------------------------------------------------------------------
RobustCall(t) == robust_lock(t) \/ robust_trylock(t) \/ mutex_consistent(t)

RobustStep(t) ==
  \/ robust_acquire(t) \/ robust_relock(t) \/ robust_contend(t)
  \/ robust_wait(t) \/ robust_woken(t)
  \/ robust_trylock_died(t) \/ robust_trylock_relock(t)
  \/ robust_trylock_free(t) \/ robust_trylock_again(t)
  \/ robust_check(t) \/ robust_refuse(t) \/ robust_inherit(t)
  \/ robust_listed(t) \/ robust_record(t) \/ robust_clear(t)
  \/ robust_unlock(t) \/ robust_release(t) \/ robust_wake(t)

RobustEnvironment(t) == robust_expired(t) \/ robust_wait_ends(t) \/ thread_dies(t)

RobustNext ==
  \E t \in Threads \ Dead : RobustCall(t) \/ RobustStep(t) \/ RobustEnvironment(t)
-----------------------------------------------------------------------------
(* No death goes unnoticed: whatever step a thread dies at, the word does   *)
(* not keep its thread ID, so nobody waits for a dead owner.  (An           *)
(* unrecoverable mutex is the exception: trylock leaves its word locked.)   *)
DeathNoticed ==
  \A t \in Dead : word.tid = t => owner = "notrecoverable"

(* Data that a dead thread left half-modified are never presented as        *)
(* consistent: until pthread_mutex_consistent is called, a thread in the    *)
(* critical section has been told EOWNERDEAD.                               *)
TornKnown ==
  \A t \in Threads \ Dead : torn /\ Critical(t) => owner # t

(* At most one thread is in the critical section, and it has the word.      *)
OneOwner ==
  \A t \in Threads \ Dead : Critical(t) => word.tid = t

(* A mutex that can be had does not leave all its waiters blocked: as long  *)
(* as it is not unrecoverable, and no thread dies between releasing the     *)
(* word and waking a waiter or between its own wake-up and the next look at *)
(* the word, an available word does not stay so while a thread is blocked.  *)
RobustAnswered ==
  [](/\ owner # "notrecoverable"
     /\ \A t \in Threads : at[t] # "owing")
    => []<>~(Available /\ queue # {})
=============================================================================
