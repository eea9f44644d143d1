----------------------------- MODULE MutexProofs -----------------------------
(***************************************************************************)
(* Proofs about mutexes, for every set of threads and every kind.  First   *)
(* the low-level lock: mutual exclusion, no lost wake-up, and that it      *)
(* implements AbstractLock.  Then the plain kinds, which use the lock as   *)
(* its specification allows, and whose other fields tell the truth.  Then  *)
(* the robust kinds, any of whose users may die between any two steps.     *)
(* Last, what this says of a mutex of any kind.                            *)
(***************************************************************************)
EXTENDS Mutex, FiniteSetTheorems, TLAPS

(* The inductive invariant: each part needs the others.  Mutual exclusion   *)
(* rests on the word, the wake-up argument on who is in the kernel queue.   *)
IInv == TypeOK /\ QueueOK /\ MutualExclusion /\ NoLostWakeup

(* The invariant holds before any thread has touched the lock.              *)
LEMMA InitIInv == Init => IInv
BY DEF Init, IInv, TypeOK, QueueOK, MutualExclusion, NoLostWakeup, PC

(* Every atomic access and every futex call keeps the types.                *)
LEMMA StepTypeOK == TypeOK /\ [Next]_vars => TypeOK'
<1> SUFFICES ASSUME TypeOK, [Next]_vars PROVE TypeOK'
  OBVIOUS
<1> USE DEF TypeOK, PC, Goto
<1>1. CASE UNCHANGED vars
  BY <1>1 DEF vars
<1>2. ASSUME NEW t \in Threads, Call(t) PROVE TypeOK'
  BY <1>2 DEF Call, lll_lock, lll_trylock, lll_cond_lock, lll_cond_trylock,
              futex_clocklock
<1>3. ASSUME NEW t \in Threads, Step(t) PROVE TypeOK'
  BY <1>3 DEF Step, lock_wait_load, lock_wait_xchg, lock_wait_futex,
              futex_wait_woken, lll_unlock, lll_lock_wake,
              FutexWaitQueue, FutexWakeOne
<1>4. ASSUME NEW t \in Threads, Environment(t) PROVE TypeOK'
  BY <1>4 DEF Environment, futex_wait_spurious, futex_clocklock_timeout
<1> QED
  BY <1>1, <1>2, <1>3, <1>4 DEF Next

(* Every step keeps the kernel queue and the deadlines where they belong.   *)
LEMMA StepQueueOK == IInv /\ [Next]_vars => QueueOK'
<1> SUFFICES ASSUME IInv, [Next]_vars PROVE QueueOK'
  OBVIOUS
<1> USE DEF IInv, TypeOK, QueueOK, PC, Goto
<1>1. CASE UNCHANGED vars
  BY <1>1 DEF vars
<1>2. ASSUME NEW t \in Threads, Call(t) PROVE QueueOK'
  BY <1>2 DEF Call, lll_lock, lll_trylock, lll_cond_lock, lll_cond_trylock,
              futex_clocklock
<1>3. ASSUME NEW t \in Threads, Step(t) PROVE QueueOK'
  BY <1>3 DEF Step, lock_wait_load, lock_wait_xchg, lock_wait_futex,
              futex_wait_woken, lll_unlock, lll_lock_wake,
              FutexWaitQueue, FutexWakeOne
<1>4. ASSUME NEW t \in Threads, Environment(t) PROVE QueueOK'
  BY <1>4 DEF Environment, futex_wait_spurious, futex_clocklock_timeout
<1> QED
  BY <1>1, <1>2, <1>3, <1>4 DEF Next

(* The word is non-zero exactly while one thread holds the lock: only the   *)
(* CAS and the exchange that find 0 acquire, only the holder stores 0.      *)
LEMMA StepMutualExclusion == IInv /\ [Next]_vars => MutualExclusion'
<1> SUFFICES ASSUME IInv, [Next]_vars PROVE MutualExclusion'
  OBVIOUS
<1> USE DEF IInv, TypeOK, QueueOK, MutualExclusion, PC, Goto
<1>1. CASE UNCHANGED vars
  BY <1>1 DEF vars
<1>2. ASSUME NEW t \in Threads, Call(t) PROVE MutualExclusion'
  BY <1>2 DEF Call, lll_lock, lll_trylock, lll_cond_lock, lll_cond_trylock,
              futex_clocklock
<1>3. ASSUME NEW t \in Threads, Step(t) PROVE MutualExclusion'
  <2>1. CASE lock_wait_load(t)
    BY <2>1 DEF lock_wait_load
  <2>2. CASE lock_wait_xchg(t)
    BY <2>2 DEF lock_wait_xchg
  <2>3. CASE lock_wait_futex(t)
    BY <2>3 DEF lock_wait_futex
  <2>4. CASE futex_wait_woken(t)
    BY <2>4 DEF futex_wait_woken
  <2>5. CASE lll_unlock(t)
    BY <2>5 DEF lll_unlock
  <2>6. CASE lll_lock_wake(t)
    BY <2>6 DEF lll_lock_wake
  <2> QED
    BY <1>3, <2>1, <2>2, <2>3, <2>4, <2>5, <2>6 DEF Step
<1>4. ASSUME NEW t \in Threads, Environment(t) PROVE MutualExclusion'
  BY <1>4 DEF Environment, futex_wait_spurious, futex_clocklock_timeout
<1> QED
  BY <1>1, <1>2, <1>3, <1>4 DEF Next

(* A sleeping thread always has a 2 in the word or a rescuer: whoever takes *)
(* the 2 away becomes a rescuer, and a rescuer leaves its post only by      *)
(* restoring the 2 or by making another thread a rescuer.                   *)
LEMMA StepNoLostWakeup == IInv /\ [Next]_vars => NoLostWakeup'
<1> SUFFICES ASSUME IInv, [Next]_vars PROVE NoLostWakeup'
  OBVIOUS
<1> USE DEF IInv, TypeOK, QueueOK, NoLostWakeup, Rescuers, PC, Goto
<1>1. CASE UNCHANGED vars
  BY <1>1 DEF vars
<1>2. ASSUME NEW t \in Threads, Call(t) PROVE NoLostWakeup'
  BY <1>2 DEF Call, lll_lock, lll_trylock, lll_cond_lock, lll_cond_trylock,
              futex_clocklock
<1>3. ASSUME NEW t \in Threads, Step(t) PROVE NoLostWakeup'
  <2>1. CASE lock_wait_load(t)
    BY <2>1 DEF lock_wait_load
  <2>2. CASE lock_wait_xchg(t)
    BY <2>2 DEF lock_wait_xchg
  <2>3. CASE lock_wait_futex(t)
    BY <2>3 DEF lock_wait_futex, FutexWaitQueue
  <2>4. CASE futex_wait_woken(t)
    BY <2>4 DEF futex_wait_woken
  <2>5. CASE lll_unlock(t)
    BY <2>5 DEF lll_unlock
  <2>6. CASE lll_lock_wake(t)
    BY <2>6 DEF lll_lock_wake, FutexWakeOne
  <2> QED
    BY <1>3, <2>1, <2>2, <2>3, <2>4, <2>5, <2>6 DEF Step
<1>4. ASSUME NEW t \in Threads, Environment(t) PROVE NoLostWakeup'
  BY <1>4 DEF Environment, futex_wait_spurious, futex_clocklock_timeout
<1> QED
  BY <1>1, <1>2, <1>3, <1>4 DEF Next

(* In every execution of any number of threads at most one holds the lock,  *)
(* the word records it, and no blocked thread is forgotten.                 *)
THEOREM LockSafety == Spec => [](TypeOK /\ QueueOK /\ MutualExclusion /\ NoLostWakeup)
<1>1. IInv /\ [Next]_vars => IInv'
  BY StepTypeOK, StepQueueOK, StepMutualExclusion, StepNoLostWakeup DEF IInv
<1> QED
  BY InitIInv, <1>1, PTL DEF Spec, IInv
-----------------------------------------------------------------------------
(* Owner names the thread that holds the lock, and a free lock has none.    *)
LEMMA OwnerIs ==
  MutualExclusion =>
    /\ Owner \in Threads \cup {NoOwner}
    /\ \A t \in Threads : Owner = t <=> pc[t] = "in"
    /\ Owner = NoOwner <=> futex = 0
BY NoOwnerAssumption DEF Owner, MutualExclusion

(* Each step of the lock is one step of the abstract lock or changes        *)
(* neither the owner nor who is asking.                                     *)
LEMMA StepRefines ==
  ASSUME IInv, IInv', [Next]_vars
  PROVE  [Abstract!ANext]_(Abstract!avars)
<1>1. /\ Owner \in Threads \cup {NoOwner}
      /\ \A t \in Threads : Owner = t <=> pc[t] = "in"
      /\ Owner = NoOwner <=> futex = 0
  BY OwnerIs DEF IInv
<1>2. /\ Owner' \in Threads \cup {NoOwner}
      /\ \A t \in Threads : Owner' = t <=> pc'[t] = "in"
      /\ Owner' = NoOwner <=> futex' = 0
  <2>1. MutualExclusion'
    BY DEF IInv
  <2> QED
    BY <2>1, NoOwnerAssumption DEF Owner, MutualExclusion
<1>3. CASE UNCHANGED vars
  BY <1>3 DEF vars, Owner, Asking, Abstract!avars
<1> DEFINE Stutter == Owner' = Owner /\ Asking' = Asking
<1> USE NoOwnerAssumption DEF Goto, IInv, TypeOK, QueueOK
<1>4. ASSUME NEW t \in Threads, Call(t)
      PROVE  Abstract!Ask(t) \/ Abstract!Acquire(t)
  <2>1. CASE pc[t] = "out" /\ pc'[t] = "in"
    <3>1. futex = 0 /\ pc' = [pc EXCEPT ![t] = "in"]
      BY <1>4, <2>1 DEF Call, lll_lock, lll_trylock, lll_cond_lock,
           lll_cond_trylock, futex_clocklock
    <3>2. Owner = NoOwner /\ Owner' = t
      BY <1>1, <1>2, <2>1, <3>1
    <3>3. Asking' = Asking \ {t}
      BY <2>1, <3>1 DEF Asking
    <3> QED
      BY <3>2, <3>3 DEF Abstract!Acquire
  <2>2. CASE pc[t] = "out" /\ pc'[t] \in {"load", "xchg"}
    <3>1. \E l \in {"load", "xchg"} : pc' = [pc EXCEPT ![t] = l]
      BY <1>4, <2>2 DEF Call, lll_lock, lll_trylock, lll_cond_lock,
           lll_cond_trylock, futex_clocklock
    <3>2. t \notin Asking /\ Asking' = Asking \cup {t}
      BY <2>2, <3>1 DEF Asking
    <3>3. \A u \in Threads : pc'[u] = "in" <=> pc[u] = "in"
      BY <2>2, <3>1
    <3>4. Owner # t /\ Owner' = Owner
      BY <1>1, <1>2, <2>2, <3>3
    <3> QED
      BY <3>2, <3>4 DEF Abstract!Ask
  <2> QED
    BY <1>4, <2>1, <2>2 DEF Call, lll_lock, lll_trylock, lll_cond_lock,
         lll_cond_trylock, futex_clocklock
<1>5. ASSUME NEW t \in Threads, Step(t)
      PROVE  Abstract!Acquire(t) \/ Abstract!Release(t) \/ Stutter
  <2>1. CASE lock_wait_xchg(t) /\ futex = 0
    <3>1. Owner = NoOwner /\ Owner' = t
      BY <1>1, <1>2, <2>1 DEF lock_wait_xchg
    <3>2. Asking' = Asking \ {t}
      BY <2>1 DEF lock_wait_xchg, Asking
    <3> QED
      BY <3>1, <3>2 DEF Abstract!Acquire
  <2>2. CASE lll_unlock(t)
    <3>1. Owner = t /\ Owner' = NoOwner
      BY <1>1, <1>2, <2>2 DEF lll_unlock
    <3>2. Asking' = Asking
      BY <2>2 DEF lll_unlock, Asking
    <3> QED
      BY <3>1, <3>2 DEF Abstract!Release
  <2>3. CASE \/ lock_wait_load(t)
             \/ lock_wait_xchg(t) /\ futex # 0
             \/ lock_wait_futex(t)
             \/ futex_wait_woken(t)
             \/ lll_lock_wake(t)
    <3>1. \A u \in Threads : pc'[u] = "in" <=> pc[u] = "in"
      BY <2>3 DEF lock_wait_load, lock_wait_xchg, lock_wait_futex,
           futex_wait_woken, lll_lock_wake
    <3>2. Asking' = Asking
      BY <2>3 DEF lock_wait_load, lock_wait_xchg, lock_wait_futex,
           futex_wait_woken, lll_lock_wake, Asking
    <3> QED
      BY <1>1, <1>2, <3>1, <3>2
  <2> QED
    BY <1>5, <2>1, <2>2, <2>3 DEF Step
<1>6. ASSUME NEW t \in Threads, Environment(t)
      PROVE  Abstract!GiveUp(t) \/ Stutter
  <2>1. \A u \in Threads : pc'[u] = "in" <=> pc[u] = "in"
    BY <1>6 DEF Environment, futex_wait_spurious, futex_clocklock_timeout
  <2>2. Owner' = Owner
    BY <1>1, <1>2, <2>1
  <2>3. CASE futex_wait_spurious(t)
    <3>1. Asking' = Asking
      BY <2>3 DEF futex_wait_spurious, Asking
    <3> QED
      BY <2>2, <3>1
  <2>4. CASE futex_clocklock_timeout(t)
    <3>1. t \in Asking /\ Asking' = Asking \ {t}
      BY <2>4 DEF futex_clocklock_timeout, Asking
    <3> QED
      BY <2>2, <3>1 DEF Abstract!GiveUp
  <2> QED
    BY <1>6, <2>3, <2>4 DEF Environment
<1> QED
  BY <1>3, <1>4, <1>5, <1>6 DEF Next, Abstract!ANext, Abstract!avars

(* The low-level lock implements the safety part of the abstract lock: a    *)
(* thread gets the lock only when it is free, and only the owner frees it.  *)
THEOREM LockRefinement == Spec => Abstract!ASpec
<1>1. Init => Abstract!AInit
  BY DEF Init, Owner, Asking, Abstract!AInit
<1>2. Spec => []IInv
  BY LockSafety, PTL DEF IInv
<1>3. IInv /\ IInv' /\ [Next]_vars => [Abstract!ANext]_(Abstract!avars)
  BY StepRefines
<1> QED
  BY <1>1, <1>2, <1>3, PTL DEF Spec, Abstract!ASpec
-----------------------------------------------------------------------------
(* The functions that a mutex calls are those of the low-level lock; the    *)
(* rest of its code leaves the lock alone.                                  *)
LEMMA StepIsLockStep == [MutexNext]_mvars => [Next]_vars
<1> SUFFICES ASSUME [MutexNext]_mvars PROVE [Next]_vars
  OBVIOUS
<1>1. CASE UNCHANGED mvars
  BY <1>1 DEF mvars
<1>2. ASSUME NEW t \in Threads, MutexCall(t) PROVE Call(t) \/ UNCHANGED vars
  BY <1>2 DEF MutexCall, mutex_lock, mutex_trylock, mutex_timedlock, mutex_relock,
              mutex_cond_unlock, mutex_cond_lock, mutex_unlock_usercnt, Call, lll_lock
<1>3. ASSUME NEW t \in Threads, MutexStep(t) PROVE Step(t) \/ UNCHANGED vars
  BY <1>3 DEF MutexStep, mutex_in_lll, mutex_record, mutex_unlock, mutex_release,
              mutex_unlock_usercnt, Step
<1>4. ASSUME NEW t \in Threads, MutexEnvironment(t) PROVE Environment(t)
  BY <1>4 DEF MutexEnvironment
<1> QED
  BY <1>1, <1>2, <1>3, <1>4 DEF MutexNext, Next

-----------------------------------------------------------------------------
(* The fields are written only by the thread that has the lock word, and    *)
(* between an unlock of the fields and the release of the word nobody is    *)
(* recorded.                                                                *)
FieldsOK ==
  /\ kind \in Kinds
  /\ owner \in Threads \cup {NoOwner}
  /\ stage \in [Threads -> Stage]
  /\ inwait \subseteq Threads
  /\ \A t \in Threads : stage[t] # "enter" => pc[t] = "in"
  /\ \A t \in Threads : owner = t <=> pc[t] = "in" /\ stage[t] = "own"

(* The fields of an initialised mutex are truthful.                         *)
LEMMA InitFieldsOK == Init /\ kind \in Kinds /\ FieldsInit => FieldsOK
BY NoOwnerAssumption DEF FieldsInit, Init, FieldsOK, Stage

(* A step that leaves the fields alone does not move a thread that has the  *)
(* lock word.                                                               *)
LEMMA StepKeepsHolder ==
  ASSUME TypeOK, NEW t \in Threads,
         Call(t) \/ lll_trylock(t) \/ Environment(t)
           \/ lock_wait_load(t) \/ lock_wait_xchg(t) \/ lock_wait_futex(t)
           \/ futex_wait_woken(t) \/ lll_lock_wake(t),
         QueueOK
  PROVE  \A u \in Threads : /\ pc[u] = "in" => pc'[u] = "in"
                            /\ pc[u] # "in" /\ pc'[u] = "in" => u = t
BY DEF TypeOK, QueueOK, Goto, Call, lll_lock, lll_trylock, lll_cond_lock,
       lll_cond_trylock, futex_clocklock, Environment, futex_wait_spurious,
       futex_clocklock_timeout, lock_wait_load, lock_wait_xchg, lock_wait_futex,
       futex_wait_woken, lll_lock_wake

(* Every step keeps the fields truthful.                                    *)
LEMMA StepFieldsOK ==
  ASSUME IInv, IInv', FieldsOK, [MutexNext]_mvars
  PROVE  FieldsOK'
<1> USE NoOwnerAssumption DEF FieldsOK, Stage
<1>1. CASE UNCHANGED mvars
  BY <1>1 DEF mvars, vars, fields
<1>2. ASSUME NEW t \in Threads, UNCHANGED fields,
             \A u \in Threads : pc[u] = "in" => pc'[u] = "in"
      PROVE  FieldsOK'
  BY <1>2 DEF fields
<1>3. ASSUME NEW t \in Threads, mutex_unlock_usercnt(t, TRUE) \/ mutex_unlock_usercnt(t, FALSE),
             inwait' \subseteq Threads
      PROVE  FieldsOK'
  <2>1. /\ pc[t] = "in" /\ stage[t] = "own" /\ owner = t /\ pc' = pc /\ kind' = kind
        /\ \/ owner' = owner /\ stage' = stage
           \/ owner' = NoOwner /\ stage' = [stage EXCEPT ![t] = "leave"]
    BY <1>3 DEF mutex_unlock_usercnt, vars
  <2> QED
    BY <1>3, <2>1
<1>4. ASSUME NEW t \in Threads, MutexCall(t) PROVE FieldsOK'
  <2>1. CASE mutex_relock(t)
    BY <2>1 DEF mutex_relock, vars
  <2>2. CASE mutex_cond_unlock(t)
    <3>1. inwait' \subseteq Threads
      BY <2>2 DEF mutex_cond_unlock
    <3> QED
      BY <1>3, <2>2, <3>1, ZenonT(60) DEF mutex_cond_unlock
  <2>3. CASE mutex_lock(t) \/ mutex_trylock(t) \/ mutex_timedlock(t) \/ mutex_cond_lock(t)
    <3>1. Call(t) /\ UNCHANGED fields
      BY <2>3 DEF mutex_lock, mutex_trylock, mutex_timedlock, mutex_cond_lock, Call,
         lll_lock
    <3> QED
      BY <1>2, <3>1, StepKeepsHolder DEF IInv
  <2> QED
    BY <1>4, <2>1, <2>2, <2>3 DEF MutexCall
<1>5. ASSUME NEW t \in Threads, MutexStep(t) PROVE FieldsOK'
  <2>1. CASE mutex_in_lll(t)
    BY <1>2, <2>1, StepKeepsHolder DEF mutex_in_lll, IInv
  <2>2. CASE mutex_record(t)
    <3>1. \A u \in Threads : pc[u] = "in" => u = t
      BY <2>2 DEF mutex_record, IInv, MutualExclusion
    <3> QED
      BY <2>2, <3>1 DEF mutex_record, vars
  <2>3. CASE mutex_unlock(t)
    BY <1>3, <2>3, ZenonT(60) DEF mutex_unlock
  <2>4. CASE mutex_release(t)
    <3>1. /\ pc[t] = "in" /\ stage[t] = "leave"
          /\ \E l \in {"wake", "out"} : pc' = [pc EXCEPT ![t] = l]
          /\ stage' = [stage EXCEPT ![t] = "enter"]
          /\ UNCHANGED <<kind, owner, inwait>>
      BY <2>4, ZenonT(60) DEF mutex_release, lll_unlock, Goto
    <3> QED
      BY <3>1 DEF IInv, TypeOK
  <2> QED
    BY <1>5, <2>1, <2>2, <2>3, <2>4 DEF MutexStep
<1>6. ASSUME NEW t \in Threads, MutexEnvironment(t) PROVE FieldsOK'
  BY <1>2, <1>6, StepKeepsHolder DEF MutexEnvironment, IInv
<1> QED
  BY <1>1, <1>4, <1>5, <1>6 DEF MutexNext

-----------------------------------------------------------------------------
(* The threads that __nusers stands for.                                    *)
Users == { t \in Threads : owner = t \/ t \in inwait }

(* A thread is counted once, when it becomes a user by locking or stops     *)
(* being one by unlocking; entering and leaving pthread_cond_wait changes   *)
(* neither the count nor the users.                                         *)
LEMMA StepUsersCounted ==
  ASSUME IsFiniteSet(Threads), IInv, FieldsOK, FieldsOK',
         nusers = Cardinality(Users), [MutexNext]_mvars
  PROVE  nusers' = Cardinality(Users')
<1>1. IsFiniteSet(Users) /\ Cardinality(Users) \in Nat
  BY FS_Subset, FS_CardinalityType DEF Users
<1>2. ASSUME nusers' = nusers, Users' = Users PROVE nusers' = Cardinality(Users')
  BY <1>2
<1>3. ASSUME UNCHANGED <<nusers, owner, inwait>> PROVE nusers' = Cardinality(Users')
  BY <1>2, <1>3 DEF Users
<1>4. ASSUME NEW t \in Threads, NEW decr \in BOOLEAN, mutex_unlock_usercnt(t, decr)
      PROVE  /\ owner = t /\ t \notin inwait
             /\ \/ owner' = NoOwner /\ nusers' = IF decr THEN nusers - 1 ELSE nusers
                \/ UNCHANGED <<owner, nusers>>
  BY <1>4 DEF mutex_unlock_usercnt, FieldsOK
<1>5. ASSUME NEW t \in Threads, mutex_record(t) PROVE nusers' = Cardinality(Users')
  <2>1. owner \notin Threads
    BY <1>5 DEF mutex_record, FieldsOK, IInv, MutualExclusion
  <2>2. Users' = Users \cup {t}
    BY <1>5, <2>1 DEF mutex_record, Users
  <2>3. nusers' = IF t \in Users THEN nusers ELSE nusers + 1
    BY <1>5, <2>1 DEF mutex_record, Users
  <2> QED
    BY <1>1, <2>2, <2>3, FS_AddElement
<1>6. ASSUME NEW t \in Threads, mutex_unlock(t) PROVE nusers' = Cardinality(Users')
  <2>1. CASE owner' = NoOwner /\ nusers' = nusers - 1
    <3>1. t \in Users /\ Users' = Users \ {t}
      BY <1>4, <1>6, <2>1, NoOwnerAssumption, ZenonT(60) DEF mutex_unlock, Users
    <3> QED
      BY <1>1, <2>1, <3>1, FS_RemoveElement, ZenonT(60)
  <2>2. CASE UNCHANGED <<owner, nusers>>
    BY <1>3, <1>6, <2>2 DEF mutex_unlock
  <2> QED
    BY <1>4, <1>6, <2>1, <2>2, ZenonT(60) DEF mutex_unlock
<1>7. ASSUME NEW t \in Threads, mutex_cond_unlock(t) PROVE nusers' = Cardinality(Users')
  <2>1. Users' = Users /\ nusers' = nusers
    BY <1>4, <1>7, NoOwnerAssumption, ZenonT(60) DEF mutex_cond_unlock, Users
  <2> QED
    BY <1>2, <2>1
<1>8. ASSUME NEW t \in Threads, mutex_relock(t) PROVE nusers' = Cardinality(Users')
  <2>1. Users' = Users /\ nusers' = nusers
    BY <1>8 DEF mutex_relock, Users
  <2> QED
    BY <1>2, <2>1
<1>9. ASSUME NEW t \in Threads, MutexCall(t) PROVE nusers' = Cardinality(Users')
  BY <1>3, <1>7, <1>8, <1>9 DEF MutexCall, mutex_lock, mutex_trylock, mutex_timedlock,
                                mutex_cond_lock, fields
<1>10. ASSUME NEW t \in Threads, MutexStep(t) PROVE nusers' = Cardinality(Users')
  BY <1>3, <1>5, <1>6, <1>10 DEF MutexStep, mutex_in_lll, mutex_release, fields
<1> QED
  BY <1>3, <1>9, <1>10 DEF MutexNext, MutexEnvironment, mvars, fields
-----------------------------------------------------------------------------
Word == [tid : Threads \cup {NoOwner}, waiters : BOOLEAN, died : BOOLEAN]

Locals == [share : BOOLEAN, seen : Word, pending : BOOLEAN, listed : BOOLEAN]

(* Between acquiring the word and releasing it.                             *)
Acquired == {"got", "trygot", "inherit", "refuse", "release"}

Holding == Acquired \cup {"listed", "record", "in"}

(* In an operation that names the mutex in list_op_pending.                 *)
Operating == Acquired \cup {"try", "fwait", "sleep", "trylock", "trydied"}

Label == Holding \cup Operating \cup {"out", "clear", "wake", "dead", "owing"}

RTypeOK ==
  /\ word \in Word
  /\ me \in [Threads -> Locals]
  /\ at \in [Threads -> Label]
  /\ torn \in BOOLEAN

(* The word and the robust list: a thread that holds the mutex has the      *)
(* word, which the kernel will find when that thread dies.                  *)
WordOK ==
  /\ word.died => word.tid = NoOwner
  /\ \A t \in Threads :
       /\ at[t] \in Holding \/ me[t].listed => word.tid = t
       /\ at[t] \in {"trylock", "trydied"} /\ me[t].seen.tid = t => word.tid = t
       /\ at[t] \in Operating => me[t].pending
       /\ at[t] \in {"listed", "record"} => me[t].listed
       /\ at[t] \in Acquired \cup {"dead", "owing"} => ~me[t].listed
       /\ t \in queue => at[t] = "sleep"
       /\ at[t] = "in" => me[t].listed \/ R!Recursive
       /\ word.tid = t =>
            me[t].listed \/ owner = "notrecoverable" \/ at[t] \in Acquired

(* The state recorded in __owner: torn data are behind a word marked by the *)
(* kernel, in the hands of a thread that will mark them, or marked.         *)
OwnerOK ==
  /\ torn => \/ word.died
             \/ owner \in {"inconsistent", "notrecoverable"}
             \/ \E t \in Threads : at[t] = "inherit"
  /\ word.tid = NoOwner /\ ~word.died => owner # "inconsistent"
  /\ \A t \in Threads :
       /\ at[t] \in {"got", "trygot", "refuse", "release", "listed", "record"} =>
            owner # "inconsistent"
       /\ me[t].listed => owner # "notrecoverable"

RInv == RTypeOK /\ WordOK /\ OwnerOK

(* Setting one of the fields private to a thread leaves them well typed.    *)
LEMMA LocalTypes ==
  ASSUME NEW l \in Locals, NEW b \in BOOLEAN, NEW w \in Word
  PROVE  /\ [l EXCEPT !.pending = b] \in Locals
         /\ [l EXCEPT !.listed = b] \in Locals
         /\ [l EXCEPT !.share = b] \in Locals
         /\ [l EXCEPT !.seen = w] \in Locals
BY DEF Locals

(* The initial values are well typed, and so is the lock word after its     *)
(* thread ID or its flags were set.                                         *)
LEMMA WordTypes ==
  /\ R!Free \in Word /\ R!NoLocals \in Locals
  /\ \A w \in Word, t \in Threads \cup {NoOwner}, b \in BOOLEAN :
        /\ [w EXCEPT !.tid = t, !.died = b] \in Word
        /\ [w EXCEPT !.tid = t] \in Word
        /\ [w EXCEPT !.waiters = b] \in Word
BY ZenonT(60) DEF R!Free, Word, R!NoLocals, Locals

(* Moving a thread to another label keeps the labels well typed.            *)
LEMMA LabelTypes ==
  ASSUME RTypeOK, NEW t \in Threads, NEW l \in Label, R!Goto(t, l)
  PROVE  at' \in [Threads -> Label]
BY DEF RTypeOK, R!Goto

(* What a thread keeps when an operation returns is well typed.             *)
LEMMA ReturnTypes ==
  ASSUME NEW l \in Locals
  PROVE  [R!NoLocals EXCEPT !.listed = l.listed] \in Locals
<1>1. l.listed \in BOOLEAN
  BY Zenon DEF Locals
<1> QED
  BY <1>1, WordTypes, LocalTypes, ZenonT(60)

(* Replacing what is private to one thread keeps all of it well typed.      *)
LEMMA SetLocals ==
  ASSUME RTypeOK, NEW t \in Threads, NEW l \in Locals, me' = [me EXCEPT ![t] = l]
  PROVE  me' \in [Threads -> Locals]
BY SMTT(60) DEF RTypeOK

(* Every step of a thread, its death included, keeps the types.             *)
LEMMA StepRTypeOK ==
  ASSUME RTypeOK, NEW t \in Threads,
         R!RobustCall(t) \/ R!RobustStep(t) \/ R!RobustEnvironment(t)
  PROVE  RTypeOK'
<1> USE DEF RTypeOK, R!Goto, R!Return, R!Relock, R!Available, Label, Holding, Acquired,
            Operating
<1>1. CASE R!robust_lock(t)
  <2>1. PICK cond \in BOOLEAN :
          me' = [me EXCEPT ![t].pending = TRUE, ![t].share = cond]
    BY <1>1, ZenonT(60) DEF R!robust_lock
  <2>2. [[me[t] EXCEPT !.pending = TRUE] EXCEPT !.share = cond] \in Locals
    BY LocalTypes, ZenonT(60)
  <2>3. me' \in [Threads -> Locals]
    BY <2>1, <2>2
  <2> QED
    BY <1>1, <2>3 DEF R!robust_lock
<1>2. CASE R!robust_trylock(t)
  BY <1>2, LocalTypes, WordTypes, ZenonT(60) DEF R!robust_trylock
<1>3. CASE R!mutex_consistent(t)
  BY <1>3, ZenonT(60) DEF R!mutex_consistent
<1>4. CASE R!robust_acquire(t)
  <2>1. word' \in Word
    BY <1>4 DEF R!robust_acquire, Word
  <2> QED
    BY <1>4, <2>1 DEF R!robust_acquire
<1>5. CASE R!robust_relock(t)
  <2>1. me' \in [Threads -> Locals]
    BY <1>5, ReturnTypes, SetLocals DEF R!robust_relock
  <2>2. at' \in [Threads -> Label]
    BY <1>5 DEF R!robust_relock
  <2> QED
    BY <1>5, <2>1, <2>2 DEF R!robust_relock
<1>6. CASE R!robust_contend(t)
  BY <1>6, LocalTypes, WordTypes, ZenonT(60) DEF R!robust_contend
<1>7. CASE R!robust_wait(t)
  BY <1>7, LocalTypes, WordTypes, ZenonT(60) DEF R!robust_wait
<1>8. CASE R!robust_woken(t)
  BY <1>8 DEF R!robust_woken
<1>9. CASE R!robust_trylock_died(t)
  <2>1. me' \in [Threads -> Locals]
    BY <1>9, LocalTypes, WordTypes, ZenonT(60) DEF R!robust_trylock_died
  <2>2. word' \in Word
    <3>1. [word EXCEPT !.tid = t, !.died = FALSE] \in Word
      BY WordTypes, ZenonT(60)
    <3> QED
      BY <1>9, <3>1 DEF R!robust_trylock_died
  <2>3. at' \in [Threads -> Label]
    BY <1>9 DEF R!robust_trylock_died
  <2> QED
    BY <1>9, <2>1, <2>2, <2>3 DEF R!robust_trylock_died
<1>10. CASE R!robust_trylock_relock(t)
  <2>1. me' \in [Threads -> Locals]
    BY <1>10, ReturnTypes, SetLocals DEF R!robust_trylock_relock
  <2>2. at' \in [Threads -> Label]
    BY <1>10 DEF R!robust_trylock_relock
  <2> QED
    BY <1>10, <2>1, <2>2 DEF R!robust_trylock_relock
<1>11. CASE R!robust_trylock_free(t)
  <2>1. me' \in [Threads -> Locals]
    BY <1>11, ReturnTypes, SetLocals, LocalTypes, WordTypes, ZenonT(60) DEF
       R!robust_trylock_free
  <2>2. word' \in Word
    <3>1. [R!Free EXCEPT !.tid = t] \in Word
      BY WordTypes, ZenonT(60)
    <3> QED
      BY <1>11, <3>1 DEF R!robust_trylock_free
  <2>3. at' \in [Threads -> Label]
    BY <1>11 DEF R!robust_trylock_free
  <2> QED
    BY <1>11, <2>1, <2>2, <2>3 DEF R!robust_trylock_free
<1>12. CASE R!robust_trylock_again(t)
  <2>1. me' \in [Threads -> Locals]
    BY <1>12, ReturnTypes, SetLocals, LocalTypes, WordTypes, ZenonT(60) DEF
       R!robust_trylock_again
  <2>2. at' \in [Threads -> Label]
    BY <1>12 DEF R!robust_trylock_again
  <2> QED
    BY <1>12, <2>1, <2>2 DEF R!robust_trylock_again
<1>13. CASE R!robust_check(t)
  <2>1. me' \in [Threads -> Locals]
    <3>1. [me[t] EXCEPT !.listed = TRUE] \in Locals
      BY LocalTypes, ZenonT(60)
    <3> QED
      BY <1>13, <3>1, ZenonT(60) DEF R!robust_check
  <2>2. at' \in [Threads -> Label]
    BY <1>13 DEF R!robust_check
  <2> QED
    BY <1>13, <2>1, <2>2 DEF R!robust_check
<1>14. CASE R!robust_refuse(t)
  BY <1>14, WordTypes, ZenonT(60) DEF R!robust_refuse
<1>15. CASE R!robust_inherit(t)
  BY <1>15, LocalTypes, WordTypes, ZenonT(60) DEF R!robust_inherit
<1>16. CASE R!robust_listed(t)
  BY <1>16, LocalTypes, WordTypes, ZenonT(60) DEF R!robust_listed
<1>17. CASE R!robust_record(t)
  BY <1>17 DEF R!robust_record
<1>18. CASE R!robust_clear(t)
  <2>1. me' \in [Threads -> Locals]
    BY <1>18, ReturnTypes, SetLocals DEF R!robust_clear
  <2>2. at' \in [Threads -> Label]
    BY <1>18 DEF R!robust_clear
  <2> QED
    BY <1>18, <2>1, <2>2 DEF R!robust_clear
<1>19. CASE R!robust_unlock(t)
  <2>1. me' \in [Threads -> Locals]
    <3>1. [[me[t] EXCEPT !.pending = TRUE] EXCEPT !.listed = FALSE] \in Locals
      BY LocalTypes, ZenonT(60)
    <3> QED
      BY <1>19, <3>1, ZenonT(60) DEF R!robust_unlock
  <2>2. at' \in [Threads -> Label]
    BY <1>19 DEF R!robust_unlock
  <2> QED
    BY <1>19, <2>1, <2>2 DEF R!robust_unlock
<1>20. CASE R!robust_release(t)
  BY <1>20, WordTypes, ZenonT(60) DEF R!robust_release
<1>21. CASE R!robust_wake(t)
  BY <1>21 DEF R!robust_wake
<1>22. CASE R!robust_expired(t)
  BY <1>22 DEF R!robust_expired
<1>23. CASE R!robust_wait_ends(t)
  <2>1. me' \in [Threads -> Locals]
    <3>1. [me[t] EXCEPT !.share = FALSE] \in Locals
      BY LocalTypes, ZenonT(60)
    <3> QED
      BY <1>23, <3>1, ZenonT(60) DEF R!robust_wait_ends
  <2>2. at' \in [Threads -> Label]
    BY <1>23 DEF R!robust_wait_ends
  <2> QED
    BY <1>23, <2>1, <2>2 DEF R!robust_wait_ends
<1>24. CASE R!thread_dies(t)
  BY <1>24, LocalTypes, WordTypes, ZenonT(60) DEF R!thread_dies
<1> QED
  BY <1>1, <1>2, <1>3, <1>4, <1>5, <1>6, <1>7, <1>8, <1>9, <1>10, <1>11,
     <1>12, <1>13, <1>14, <1>15, <1>16, <1>17, <1>18, <1>19, <1>20, <1>21,
     <1>22, <1>23, <1>24 DEF R!RobustCall, R!RobustStep, R!RobustEnvironment

(* A mutex that pthread_mutex_init made robust satisfies the invariant.     *)
LEMMA InitRInv == R!RInit => RInv
<1> SUFFICES ASSUME R!RInit PROVE RInv
  OBVIOUS
<1>1. RTypeOK
  BY WordTypes, ZenonT(60) DEF R!RInit, RTypeOK, Label
<1>2. WordOK
  BY NoOwnerAssumption, ThreadIDAssumption
     DEF R!RInit, WordOK, R!Free, R!NoLocals, Holding, Acquired, Operating
<1>3. OwnerOK
  BY NoOwnerAssumption, ThreadIDAssumption DEF R!RInit, OwnerOK, R!Free, R!NoLocals
<1> QED
  BY <1>1, <1>2, <1>3 DEF RInv

(* Every step keeps the lock word in agreement with the robust lists and    *)
(* with list_op_pending.                                                    *)
LEMMA StepWordOK ==
  ASSUME RInv, RTypeOK', NEW t \in Threads \ R!Dead,
         R!RobustCall(t) \/ R!RobustStep(t) \/ R!RobustEnvironment(t)
  PROVE  WordOK'
<1> USE NoOwnerAssumption, ThreadIDAssumption
<1> USE DEF RInv, RTypeOK, WordOK, OwnerOK, Word, Locals, R!NoLocals, R!Free,
            Holding, Acquired, Operating, R!Goto, R!Return, R!Relock, R!Recursive,
            R!Available, R!Dead,
            R!FutexWaitQueue, R!FutexWakeOne
<1>1. CASE R!robust_lock(t)
  BY <1>1 DEF R!robust_lock
<1>2. CASE R!robust_trylock(t)
  BY <1>2, SMTT(60) DEF R!robust_trylock
<1>3. CASE R!mutex_consistent(t)
  BY <1>3, SMTT(60) DEF R!mutex_consistent
<1>4. CASE R!robust_acquire(t)
  BY <1>4 DEF R!robust_acquire
<1>5. CASE R!robust_relock(t)
  BY <1>5 DEF R!robust_relock
<1>6. CASE R!robust_contend(t)
  BY <1>6 DEF R!robust_contend
<1>7. CASE R!robust_wait(t)
  BY <1>7, SMTT(60) DEF R!robust_wait
<1>8. CASE R!robust_woken(t)
  BY <1>8, SMTT(60) DEF R!robust_woken
<1>9. CASE R!robust_trylock_died(t)
  <2>1. CASE word = me[t].seen
    <3>1. /\ me' = [me EXCEPT ![t].seen = R!Free]
          /\ at' = [at EXCEPT ![t] = "inherit"]
          /\ word' = [word EXCEPT !.tid = t, !.died = FALSE]
          /\ word.died /\ at[t] = "trylock"
          /\ UNCHANGED <<kind, owner, count, queue, torn>>
      BY <1>9, <2>1 DEF R!robust_trylock_died
    <3> QED
      BY <3>1
  <2>2. CASE word # me[t].seen
    BY <1>9, <2>2 DEF R!robust_trylock_died
  <2> QED
    BY <2>1, <2>2
<1>10. CASE R!robust_trylock_relock(t)
  BY <1>10 DEF R!robust_trylock_relock
<1>11. CASE R!robust_trylock_free(t)
  BY <1>11, SMTT(60) DEF R!robust_trylock_free
<1>12. CASE R!robust_trylock_again(t)
  <2>1. CASE owner = "notrecoverable"
    BY <1>12, <2>1 DEF R!robust_trylock_again
  <2>2. CASE owner # "notrecoverable"
    BY <1>12, <2>2 DEF R!robust_trylock_again
  <2> QED
    BY <2>1, <2>2
<1>13. CASE R!robust_check(t)
  BY <1>13, SMTT(60) DEF R!robust_check
<1>14. CASE R!robust_refuse(t)
  BY <1>14 DEF R!robust_refuse
<1>15. CASE R!robust_inherit(t)
  BY <1>15 DEF R!robust_inherit
<1>16. CASE R!robust_listed(t)
  BY <1>16, SMTT(60) DEF R!robust_listed
<1>17. CASE R!robust_record(t)
  BY <1>17 DEF R!robust_record
<1>18. CASE R!robust_clear(t)
  BY <1>18 DEF R!robust_clear
<1>19. CASE R!robust_unlock(t)
  BY <1>19, SMTT(60) DEF R!robust_unlock
<1>20. CASE R!robust_release(t)
  BY <1>20, SMTT(60) DEF R!robust_release
<1>21. CASE R!robust_wake(t)
  BY <1>21, SMTT(60) DEF R!robust_wake
<1>22. CASE R!robust_expired(t)
  BY <1>22 DEF R!robust_expired
<1>23. CASE R!robust_wait_ends(t)
  BY <1>23 DEF R!robust_wait_ends
<1>24. CASE R!thread_dies(t)
  BY <1>24 DEF R!thread_dies
<1> QED
  BY <1>1, <1>2, <1>3, <1>4, <1>5, <1>6, <1>7, <1>8, <1>9, <1>10, <1>11, ZenonT(60),
     <1>12, <1>13, <1>14, <1>15, <1>16, <1>17, <1>18, <1>19, <1>20, <1>21,
     <1>22, <1>23, <1>24 DEF R!RobustCall, R!RobustStep, R!RobustEnvironment

(* Every step keeps __owner truthful about torn data.                       *)
LEMMA StepOwnerOK ==
  ASSUME RInv, RTypeOK', NEW t \in Threads \ R!Dead,
         R!RobustCall(t) \/ R!RobustStep(t) \/ R!RobustEnvironment(t)
  PROVE  OwnerOK'
<1> USE NoOwnerAssumption, ThreadIDAssumption
<1> USE DEF RInv, RTypeOK, WordOK, OwnerOK, Word, Locals, R!NoLocals, R!Free,
            Holding, Acquired, Operating, R!Goto, R!Return, R!Relock, R!Recursive,
            R!Available, R!Dead,
            R!Critical
<1>1. CASE R!robust_lock(t)
  BY <1>1 DEF R!robust_lock
<1>2. CASE R!robust_trylock(t)
  BY <1>2, SMTT(60) DEF R!robust_trylock
<1>3. CASE R!mutex_consistent(t)
  BY <1>3, SMTT(60) DEF R!mutex_consistent
<1>4. CASE R!robust_acquire(t)
  BY <1>4 DEF R!robust_acquire
<1>5. CASE R!robust_relock(t)
  BY <1>5 DEF R!robust_relock
<1>6. CASE R!robust_contend(t)
  BY <1>6 DEF R!robust_contend
<1>7. CASE R!robust_wait(t)
  BY <1>7, SMTT(60) DEF R!robust_wait
<1>8. CASE R!robust_woken(t)
  BY <1>8, SMTT(60) DEF R!robust_woken
<1>9. CASE R!robust_trylock_died(t)
  <2>1. CASE word = me[t].seen
    <3>1. /\ me' = [me EXCEPT ![t].seen = R!Free]
          /\ at' = [at EXCEPT ![t] = "inherit"]
          /\ word' = [word EXCEPT !.tid = t, !.died = FALSE]
          /\ word.died /\ at[t] = "trylock"
          /\ UNCHANGED <<kind, owner, count, queue, torn>>
      BY <1>9, <2>1 DEF R!robust_trylock_died
    <3> QED
      BY <3>1
  <2>2. CASE word # me[t].seen
    BY <1>9, <2>2 DEF R!robust_trylock_died
  <2> QED
    BY <2>1, <2>2
<1>10. CASE R!robust_trylock_relock(t)
  BY <1>10 DEF R!robust_trylock_relock
<1>11. CASE R!robust_trylock_free(t)
  BY <1>11 DEF R!robust_trylock_free
<1>12. CASE R!robust_trylock_again(t)
  BY <1>12 DEF R!robust_trylock_again
<1>13. CASE R!robust_check(t)
  BY <1>13, SMTT(60) DEF R!robust_check
<1>14. CASE R!robust_refuse(t)
  BY <1>14 DEF R!robust_refuse
<1>15. CASE R!robust_inherit(t)
  BY <1>15 DEF R!robust_inherit
<1>16. CASE R!robust_listed(t)
  BY <1>16, SMTT(60) DEF R!robust_listed
<1>17. CASE R!robust_record(t)
  BY <1>17 DEF R!robust_record
<1>18. CASE R!robust_clear(t)
  BY <1>18, SMTT(60) DEF R!robust_clear
<1>19. CASE R!robust_unlock(t)
  <2>1. CASE R!Recursive /\ count # 1
    BY <1>19, <2>1 DEF R!robust_unlock
  <2>2. CASE ~(R!Recursive /\ count # 1)
    <3>1. /\ word.tid = t /\ ~word.died
          /\ \A u \in Threads : at[u] = "inherit" \/ me[u].listed => u = t
      BY <1>19 DEF R!robust_unlock
    <3>2. /\ at[t] = "in"
          /\ owner' = IF owner = "inconsistent" THEN "notrecoverable" ELSE NoOwner
          /\ me' = [me EXCEPT ![t].pending = TRUE, ![t].listed = FALSE]
          /\ at' = [at EXCEPT ![t] = "release"]
          /\ word' = word /\ torn' = torn
      BY <1>19, <2>2, ZenonT(60) DEF R!robust_unlock
    <3>3. owner' # "inconsistent"
      BY <3>2
    <3>4. torn => owner \in {"inconsistent", "notrecoverable"}
      BY <3>1, <3>2
    <3>5. owner # "notrecoverable"
      BY <1>19 DEF R!robust_unlock, R!MayUnlock
    <3>6. torn' => owner' = "notrecoverable"
      BY <3>2, <3>4, <3>5
    <3>7. ASSUME NEW u \in Threads PROVE ~me'[u].listed
      BY <3>1, <3>2
    <3> QED
      BY <3>1, <3>2, <3>3, <3>6, <3>7
  <2> QED
    BY <2>1, <2>2
<1>20. CASE R!robust_release(t)
  BY <1>20 DEF R!robust_release
<1>21. CASE R!robust_wake(t)
  BY <1>21, SMTT(60) DEF R!robust_wake
<1>22. CASE R!robust_expired(t)
  BY <1>22 DEF R!robust_expired
<1>23. CASE R!robust_wait_ends(t)
  BY <1>23 DEF R!robust_wait_ends
<1>24. CASE R!thread_dies(t)
  BY <1>24 DEF R!thread_dies
<1> QED
  BY <1>1, <1>2, <1>3, <1>4, <1>5, <1>6, <1>7, <1>8, <1>9, <1>10, <1>11, ZenonT(60),
     <1>12, <1>13, <1>14, <1>15, <1>16, <1>17, <1>18, <1>19, <1>20, <1>21,
     <1>22, <1>23, <1>24 DEF R!RobustCall, R!RobustStep, R!RobustEnvironment

(* No step changes the kind of a robust mutex.                              *)
LEMMA StepKeepsKind ==
  ASSUME NEW t \in Threads, R!RobustCall(t) \/ R!RobustStep(t) \/ R!RobustEnvironment(t)
  PROVE  kind' = kind
<1>1. CASE R!RobustCall(t)
  BY <1>1, SMTT(60) DEF R!RobustCall, R!robust_lock, R!robust_trylock, R!mutex_consistent
<1>2. CASE R!RobustStep(t)
  BY <1>2 DEF R!RobustStep, R!robust_acquire, R!robust_relock, R!robust_contend,
     R!robust_wait, R!robust_woken, R!robust_trylock_died, R!robust_trylock_relock,
     R!robust_trylock_free, R!robust_trylock_again, R!robust_check, R!robust_refuse,
     R!robust_inherit, R!robust_listed, R!robust_record, R!robust_clear, R!robust_unlock,
     R!robust_release, R!robust_wake, R!Relock
<1>3. CASE R!RobustEnvironment(t)
  BY <1>3 DEF R!RobustEnvironment, R!robust_expired, R!robust_wait_ends, R!thread_dies
<1> QED
  BY <1>1, <1>2, <1>3

(* Every step of a robust mutex keeps the invariant.                        *)
LEMMA StepRInv == ASSUME RInv, R!RobustNext PROVE RInv' /\ kind' = kind
<1>1. PICK t \in Threads \ R!Dead :
        R!RobustCall(t) \/ R!RobustStep(t) \/ R!RobustEnvironment(t)
  BY DEF R!RobustNext
<1>2. RTypeOK'
  BY <1>1, StepRTypeOK DEF RInv
<1>3. kind' = kind
  BY <1>1, StepKeepsKind
<1> QED
  BY <1>1, <1>2, <1>3, StepWordOK, StepOwnerOK DEF RInv
-----------------------------------------------------------------------------
(* The code for one sort of mutex leaves the state of the other alone: the  *)
(* robust part of a plain mutex stays as it was, where nobody has died.     *)
AnyInv ==
  /\ IInv
  /\ IF IsPlain THEN FieldsOK /\ at = [t \in Threads |-> "out"] /\ torn = FALSE
                ELSE RInv

(* A mutex is a low-level lock with more fields: every execution of it is   *)
(* one of the lock, which a robust mutex does not touch.                    *)
THEOREM MutexIsLock == AnySpec => Spec
<1>1. AnyInit => Init
  BY DEF AnyInit
<1>2. [AnyNext]_allvars => [Next]_vars
  BY StepIsLockStep DEF AnyNext, allvars, mvars, plain
<1> QED
  BY <1>1, <1>2, PTL DEF AnySpec, Spec

(* At most one thread has the lock word of a mutex of a plain kind, and no  *)
(* blocked thread is forgotten.                                             *)
THEOREM MutexSafety == AnySpec => [](MutualExclusion /\ NoLostWakeup)
BY MutexIsLock, LockSafety, PTL

(* A mutex of a plain kind is a lock, as AbstractLock says.                 *)
THEOREM MutexRefinement == AnySpec => Abstract!ASpec
BY MutexIsLock, LockRefinement, PTL

(* Every step keeps the invariant and the sort of mutex.                    *)
LEMMA StepAnyInv ==
  ASSUME AnyInv, IInv', [AnyNext]_allvars
  PROVE  AnyInv' /\ (IsPlain' <=> IsPlain)
<1>1. CASE UNCHANGED allvars
  BY <1>1, SMTT(60) DEF allvars, mvars, fields, vars, robust, AnyInv, IsPlain, FieldsOK,
     RInv, RTypeOK, WordOK, OwnerOK, R!Recursive
<1>2. CASE IsPlain /\ MutexNext /\ UNCHANGED robust
  <2>1. FieldsOK'
    BY <1>2, StepFieldsOK DEF AnyInv
  <2> QED
    BY <1>2, <2>1 DEF AnyInv, IsPlain, FieldsOK, robust
<1>3. CASE ~IsPlain /\ R!RobustNext
  BY <1>3, StepRInv DEF AnyInv, IsPlain
<1> QED
  BY <1>1, <1>2, <1>3, SMTT(60) DEF AnyNext

(* The invariant holds in every state, of a mutex of any kind.              *)
LEMMA AnyAlwaysOK == AnySpec => []AnyInv
<1>1. AnyInit => AnyInv
  BY InitIInv, InitFieldsOK, InitRInv DEF AnyInit, AnyInv, IsPlain, R!RInit
<1>2. AnySpec => []IInv
  BY MutexIsLock, LockSafety, PTL DEF IInv
<1>3. AnyInv /\ IInv' /\ [AnyNext]_allvars => AnyInv'
  BY StepAnyInv
<1> QED
  BY <1>1, <1>2, <1>3, PTL DEF AnySpec

(* __owner names exactly the thread that has the mutex, and is 0 when a     *)
(* thread has just got the lock word: the assertions in                     *)
(* pthread_mutex_lock.c hold, and the kinds that read __owner without the   *)
(* lock decide rightly.                                                     *)
THEOREM OwnerAlwaysTruthful == AnySpec => []OwnerTruthful
<1>1. AnyInv => OwnerTruthful
  BY NoOwnerAssumption
     DEF AnyInv, IsPlain, IInv, MutualExclusion, FieldsOK, OwnerTruthful
<1> QED
  BY <1>1, AnyAlwaysOK, PTL

(* __nusers is the number of threads that have the mutex or wait on a       *)
(* condition variable with it, so that pthread_mutex_destroy answers EBUSY  *)
(* exactly while there are some.                                            *)
THEOREM UsersAlwaysCounted ==
  ASSUME IsFiniteSet(Threads)
  PROVE  AnySpec => []UsersCounted
<1>1. AnyInit => UsersCounted
  <2> SUFFICES ASSUME AnyInit PROVE UsersCounted
    OBVIOUS
  <2>1. { t \in Threads : owner = t \/ t \in inwait } = {} /\ nusers = 0
    BY NoOwnerAssumption DEF AnyInit, FieldsInit
  <2> QED
    BY <2>1, FS_EmptySet DEF UsersCounted
<1>2. AnyInv /\ AnyInv' /\ UsersCounted /\ [AnyNext]_allvars => UsersCounted'
  <2> SUFFICES ASSUME AnyInv, AnyInv', UsersCounted, [AnyNext]_allvars
               PROVE  UsersCounted'
    OBVIOUS
  <2>1. IsPlain' <=> IsPlain
    BY StepAnyInv, ZenonT(60) DEF AnyInv
  <2>2. CASE ~IsPlain
    BY <2>1, <2>2 DEF IsPlain, UsersCounted
  <2>3. CASE IsPlain
    <3>1. FieldsOK /\ FieldsOK' /\ IInv
      BY <2>1, <2>3 DEF AnyInv
    <3>2. [MutexNext]_mvars
      BY <2>3 DEF AnyNext, allvars
    <3>3. nusers = Cardinality(Users)
      BY <2>3 DEF UsersCounted, Users, IsPlain
    <3>4. nusers' = Cardinality(Users')
      BY <3>1, <3>2, <3>3, StepUsersCounted
    <3> QED
      BY <3>4 DEF UsersCounted, Users
  <2> QED
    BY <2>2, <2>3
<1> QED
  BY <1>1, <1>2, AnyAlwaysOK, PTL DEF AnySpec

(* Mutual exclusion of robust mutexes: a thread in its critical section has *)
(* the lock word, so that there is at most one, even when earlier owners    *)
(* died in any step of pthread_mutex_lock, trylock or unlock.               *)
THEOREM RobustExclusion == AnySpec => [](~IsPlain => R!OneOwner)
<1>1. AnyInv => (~IsPlain => R!OneOwner)
  BY DEF AnyInv, RInv, WordOK, R!OneOwner, R!Critical, Holding
<1> QED
  BY <1>1, AnyAlwaysOK, PTL

(* Data that a dead owner left half-modified are never presented as         *)
(* consistent: EOWNERDEAD is reported until pthread_mutex_consistent is     *)
(* called.                                                                  *)
THEOREM TornAlwaysKnown == AnySpec => []TornKnown
<1>1. AnyInv => TornKnown
  BY NoOwnerAssumption, ThreadIDAssumption
     DEF AnyInv, RInv, RTypeOK, WordOK, OwnerOK, TornKnown, R!TornKnown, R!Critical,
         Holding, Acquired
<1> QED
  BY <1>1, AnyAlwaysOK, PTL

(* Whatever step of pthread_mutex_lock, trylock or unlock a thread dies at, *)
(* the kernel finds the mutex through the robust list or list_op_pending,   *)
(* and the lock word does not keep the dead thread's ID, unless the mutex   *)
(* is unrecoverable.                                                        *)
THEOREM DeathAlwaysNoticed == AnySpec => []DeathNoticed
<1>1. AnyInv => DeathNoticed
  BY DEF AnyInv, RInv, RTypeOK, WordOK, DeathNoticed, R!DeathNoticed, R!Dead, Acquired
<1> QED
  BY <1>1, AnyAlwaysOK, PTL
=============================================================================
