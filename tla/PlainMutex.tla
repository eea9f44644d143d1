----------------------------- MODULE PlainMutex -----------------------------
(***************************************************************************)
(* pthread mutexes of the kinds that are built on the low-level lock:      *)
(* normal, adaptive, recursive and error-checking.                         *)
(*                                                                         *)
(*   nptl/pthread_mutex_lock.c       PTHREAD_MUTEX_LOCK                    *)
(*   nptl/pthread_mutex_cond_lock.c  the same, as pthread_cond_wait uses it *)
(*   nptl/pthread_mutex_trylock.c, pthread_mutex_timedlock.c               *)
(*   nptl/pthread_mutex_unlock.c     __pthread_mutex_unlock_usercnt        *)
(*                                                                         *)
(* A mutex adds to the lock word an owner, a recursion count and the       *)
(* number of its users, which are plain fields: they are written after the *)
(* word is acquired and before it is released.  An attempt to lock that    *)
(* spins first ends in the same compare-and-swap.  Calls that return an    *)
(* error change nothing and are not actions.                               *)
(***************************************************************************)
EXTENDS LowLevelLock, FiniteSets

CONSTANTS
  Kinds,     \* the values of __kind under test
  MaxCount   \* the largest __count, at which the mutex answers EAGAIN

ASSUME MutexAssumption ==
  /\ Kinds \subseteq {"normal", "adaptive", "recursive", "errorcheck"}
  /\ MaxCount \in Nat \ {0}

VARIABLES
  kind,    \* __kind
  owner,   \* __owner: a thread, or NoOwner for 0
  count,   \* __count
  nusers,  \* __nusers
  stage,   \* what a thread that has the lock word does with the fields
  inwait   \* the threads in pthread_cond_wait with this mutex

fields == <<kind, owner, count, nusers, stage, inwait>>
mvars == <<vars, fields>>

Stage == { "enter",    \* has not recorded its ownership yet
           "own",      \* has
           "leave" }   \* has erased it, and will release the word

MutexTypeOK ==
  /\ TypeOK
  /\ kind \in Kinds
  /\ owner \in Threads \cup {NoOwner}
  /\ count \in 0..MaxCount
  /\ nusers \in Nat
  /\ stage \in [Threads -> Stage]
  /\ inwait \subseteq Threads

(* pthread_mutex_init: all zero but the kind.                               *)
FieldsInit ==
  /\ owner = NoOwner /\ count = 0 /\ nusers = 0
  /\ stage = [t \in Threads |-> "enter"]
  /\ inwait = {}

MutexInit == Init /\ kind \in Kinds /\ FieldsInit

ChecksOwner == kind \in {"recursive", "errorcheck"}

(* The ways to the lock word.  A thread that recursive and error-checking   *)
(* mutexes know as the owner does not come here.                            *)
MayLock(t) == t \notin inwait /\ (ChecksOwner => owner # t)

mutex_lock(t) == MayLock(t) /\ lll_lock(t) /\ UNCHANGED fields

mutex_trylock(t) == MayLock(t) /\ lll_trylock(t) /\ UNCHANGED fields

mutex_timedlock(t) == MayLock(t) /\ futex_clocklock(t) /\ UNCHANGED fields

(* __pthread_mutex_cond_lock, at the end of pthread_cond_wait.              *)
mutex_cond_lock(t) ==
  /\ t \in inwait
  /\ ChecksOwner => owner # t
  /\ lll_cond_lock(t) \/ (kind = "adaptive" /\ lll_cond_trylock(t))
  /\ UNCHANGED fields

(* A recursive mutex that the caller has: just bump the counter.            *)
mutex_relock(t) ==
  /\ kind = "recursive" /\ owner = t /\ count < MaxCount
  /\ count' = count + 1
  /\ inwait' = inwait \ {t}
  /\ UNCHANGED <<vars, kind, owner, nusers, stage>>

(* Mutant: a thread that returns from a wait is counted as a new user.      *)
mutex_record_incr(t) ==
  /\ pc[t] = "in" /\ stage[t] = "enter"
  /\ owner' = t
  /\ count' = IF kind = "recursive" THEN 1 ELSE count
  /\ nusers' = nusers + 1
  /\ inwait' = inwait \ {t}
  /\ stage' = [stage EXCEPT ![t] = "own"]
  /\ UNCHANGED <<vars, kind>>

(* Record the ownership.  NO_INCR: not as a new user after a wait.          *)
mutex_record(t) ==
  /\ pc[t] = "in" /\ stage[t] = "enter"
  /\ owner' = t
  /\ count' = IF kind = "recursive" THEN 1 ELSE count
  /\ nusers' = IF t \in inwait THEN nusers ELSE nusers + 1
  /\ inwait' = inwait \ {t}
  /\ stage' = [stage EXCEPT ![t] = "own"]
  /\ UNCHANGED <<vars, kind>>

(* Mutant: the owner is erased by the next owner, not on release.           *)
usercnt_no_reset(t, decr) ==
  /\ pc[t] = "in" /\ stage[t] = "own" /\ t \notin inwait
  /\ ChecksOwner => owner = t
  /\ IF kind = "recursive" /\ count > 1
       THEN count' = count - 1 /\ UNCHANGED <<owner, nusers, stage>>
       ELSE /\ count' = IF kind = "recursive" THEN count - 1 ELSE count
            /\ nusers' = IF decr THEN nusers - 1 ELSE nusers
            /\ stage' = [stage EXCEPT ![t] = "leave"]
            /\ UNCHANGED owner
  /\ UNCHANGED <<vars, kind>>

(* __pthread_mutex_unlock_usercnt: recursive and error-checking mutexes     *)
(* answer EPERM to others than the owner.                                   *)
mutex_unlock_usercnt(t, decr) ==
  /\ pc[t] = "in" /\ stage[t] = "own" /\ t \notin inwait
  /\ ChecksOwner => owner = t
  /\ IF kind = "recursive" /\ count > 1
       THEN count' = count - 1 /\ UNCHANGED <<owner, nusers, stage>>
       ELSE /\ count' = IF kind = "recursive" THEN count - 1 ELSE count
            /\ owner' = NoOwner
            /\ nusers' = IF decr THEN nusers - 1 ELSE nusers
            /\ stage' = [stage EXCEPT ![t] = "leave"]
  /\ UNCHANGED <<vars, kind>>

mutex_unlock(t) == mutex_unlock_usercnt(t, TRUE) /\ UNCHANGED inwait

(* The unlock at the beginning of pthread_cond_wait: still a user.          *)
mutex_cond_unlock(t) ==
  mutex_unlock_usercnt(t, FALSE) /\ inwait' = inwait \cup {t}

(* lll_mutex_unlock_optimized.                                              *)
mutex_release(t) ==
  /\ stage[t] = "leave"
  /\ lll_unlock(t)
  /\ stage' = [stage EXCEPT ![t] = "enter"]
  /\ UNCHANGED <<kind, owner, count, nusers, inwait>>

(* The functions of the low-level lock, once called.                        *)
mutex_in_lll(t) ==
  /\ \/ lock_wait_load(t) \/ lock_wait_xchg(t) \/ lock_wait_futex(t)
     \/ futex_wait_woken(t) \/ lll_lock_wake(t)
  /\ UNCHANGED fields
-----------------------------------------------------------------------------
MutexCall(t) ==
  \/ mutex_lock(t) \/ mutex_trylock(t) \/ mutex_timedlock(t)
  \/ mutex_relock(t) \/ mutex_cond_unlock(t) \/ mutex_cond_lock(t)

MutexStep(t) ==
  \/ mutex_in_lll(t) \/ mutex_record(t) \/ mutex_unlock(t) \/ mutex_release(t)

MutexEnvironment(t) == Environment(t) /\ UNCHANGED fields

MutexNext ==
  \E t \in Threads : MutexCall(t) \/ MutexStep(t) \/ MutexEnvironment(t)

MutexSpec == MutexInit /\ [][MutexNext]_mvars

MutexFairSpec == MutexSpec /\ \A t \in Threads : WF_mvars(MutexStep(t))
-----------------------------------------------------------------------------
(* __owner is truthful: it names a thread exactly while that thread has the *)
(* mutex, and it is 0 when the next one has got the lock word, as the       *)
(* assertions after LLL_MUTEX_LOCK say.  So the checks of the recursive and *)
(* error-checking kinds, which read it without the lock, are right.         *)
OwnerTruthful ==
  kind \in Kinds =>
    \A t \in Threads :
       /\ owner = t <=> pc[t] = "in" /\ stage[t] = "own"
       /\ pc[t] = "in" /\ stage[t] = "enter" => owner = NoOwner

(* __nusers counts the owner and the threads in pthread_cond_wait, so that  *)
(* pthread_mutex_destroy answers EBUSY while the mutex is in use.           *)
UsersCounted ==
  kind \in Kinds =>
    nusers = Cardinality({ t \in Threads : owner = t \/ t \in inwait })
=============================================================================
