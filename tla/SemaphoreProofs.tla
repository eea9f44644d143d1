-------------------------- MODULE SemaphoreProofs --------------------------
(***************************************************************************)
(* Proofs about both semaphores, for any finite set of threads and any     *)
(* limit.  Of the one-word variant: the waiter count is exact, and every   *)
(* token beside a blocked thread is spoken for but for one per cancelled   *)
(* waiter.  Of the two-word variant: the count of waiters is exact, and a  *)
(* waiters bit that was cleared too early is noticed.  Both implement      *)
(* AbstractSemaphore.                                                      *)
(***************************************************************************)
EXTENDS Semaphore, Semaphore32, FiniteSetTheorems, TLAPS

(* The size of a set of threads when one thread enters or leaves it, and    *)
(* when there is no thread or one thread in it.                             *)
LEMMA SizeFacts ==
  ASSUME NEW S \in SUBSET Threads
  PROVE  /\ Cardinality(S) \in Nat
         /\ Cardinality(S) = 0 <=> S = {}
         /\ \A t \in Threads \ S : Cardinality(S \cup {t}) = Cardinality(S) + 1
         /\ \A t \in S : /\ Cardinality(S \ {t}) = Cardinality(S) - 1
                         /\ Cardinality(S) >= 1
                         /\ Cardinality(S) = 1 => S = {t}
<1>1. IsFiniteSet(S)
  BY FS_Subset, ThreadsAssumption
<1>2. ASSUME NEW t \in Threads \ S
      PROVE  Cardinality(S \cup {t}) = Cardinality(S) + 1
  BY <1>1, FS_AddElement
<1>3. ASSUME NEW t \in S
      PROVE  /\ Cardinality(S \ {t}) = Cardinality(S) - 1
             /\ Cardinality(S) >= 1
             /\ Cardinality(S) = 1 => S = {t}
  <2>1. Cardinality(S \ {t}) = Cardinality(S) - 1
    BY <1>1, FS_RemoveElement
  <2>2. IsFiniteSet(S \ {t}) /\ Cardinality(S \ {t}) \in Nat
    BY <1>1, FS_Subset, FS_CardinalityType
  <2>3. Cardinality(S \ {t}) = 0 => S = {t}
    BY <2>2, FS_EmptySet
  <2> QED
    BY <1>1, <2>1, <2>2, <2>3, FS_CardinalityType
<1> QED
  BY <1>1, <1>2, <1>3, FS_CardinalityType, FS_EmptySet

(* The part of the invariant that holds whether or not threads are          *)
(* cancelled.                                                               *)
CountInv == TypeOK /\ SleepersInKernel /\ WaitersCounted

LEMMA InitCountInv == Init => CountInv
<1> SUFFICES ASSUME Init PROVE CountInv
  OBVIOUS
<1>1. Registered = {}
  BY DEF Init, Registered
<1>2. TypeOK /\ SleepersInKernel
  BY ThreadsAssumption DEF Init, sem_init, TypeOK, SleepersInKernel, PC
<1> QED
  BY <1>1, <1>2, FS_EmptySet DEF Init, sem_init, CountInv, WaitersCounted

(* A thread is registered from its fetch_add until the access that takes it *)
(* out again; only three places change the count.                           *)
LEMMA StepCountInv == CountInv /\ [Next]_vars => CountInv'
<1> SUFFICES ASSUME CountInv, [Next]_vars PROVE CountInv'
  OBVIOUS
<1> USE DEF CountInv, TypeOK, SleepersInKernel, WaitersCounted, PC, Goto
<1> USE ThreadsAssumption
<1>s. Registered \in SUBSET Threads
  BY DEF Registered
<1>1. CASE UNCHANGED vars
  BY <1>1 DEF vars, Registered
<1>2. ASSUME NEW t \in Threads, Call(t) PROVE CountInv'
  <2>1. Registered' = Registered
    BY <1>2 DEF Call, sem_post, sem_wait_fast, sem_wait_slow, Registered
  <2> QED
    BY <1>2, <2>1 DEF Call, sem_post, sem_wait_fast, sem_wait_slow
<1>3. ASSUME NEW t \in Threads, Environment(t) PROVE CountInv'
  <2>1. Registered' = Registered
    BY <1>3 DEF Environment, do_futex_wait_spurious, do_futex_wait_error,
         do_futex_wait_cancelled, Registered
  <2> QED
    BY <1>3, <2>1 DEF Environment, do_futex_wait_spurious,
         do_futex_wait_error, do_futex_wait_cancelled
<1>4. ASSUME NEW t \in Threads, Step(t) PROVE CountInv'
  <2>1. CASE sem_wait_register(t)
    <3>1. t \notin Registered /\ Registered' = Registered \cup {t}
      BY <2>1 DEF sem_wait_register, Registered
    <3>2. Cardinality(Registered') = Cardinality(Registered) + 1
      BY <1>s, <3>1, SizeFacts
    <3> QED
      BY <2>1, <3>2 DEF sem_wait_register
  <2>2. CASE sem_wait_grab(t) /\ value > 0
    <3>1. t \in Registered /\ Registered' = Registered \ {t}
      BY <2>2 DEF sem_wait_grab, Registered
    <3>2. /\ Cardinality(Registered') = Cardinality(Registered) - 1
          /\ Cardinality(Registered') \in Nat
      BY <1>s, <3>1, SizeFacts
    <3> QED
      BY <2>2, <3>2 DEF sem_wait_grab
  <2>3. CASE sem_wait_unregister(t) \/ sem_wait_cleanup(t)
    <3>1. t \in Registered /\ Registered' = Registered \ {t}
      BY <2>3 DEF sem_wait_unregister, sem_wait_cleanup, Registered
    <3>2. /\ Cardinality(Registered') = Cardinality(Registered) - 1
          /\ Cardinality(Registered') \in Nat
      BY <1>s, <3>1, SizeFacts
    <3> QED
      BY <2>3, <3>2 DEF sem_wait_unregister, sem_wait_cleanup
  <2>4. CASE \/ sem_post_wake(t) \/ do_futex_wait(t)
             \/ do_futex_wait_return(t) \/ sem_wait_reload(t)
             \/ sem_wait_grab(t) /\ value = 0
    <3>1. Registered' = Registered
      BY <2>4 DEF sem_post_wake, do_futex_wait, do_futex_wait_return,
           sem_wait_reload, sem_wait_grab, Registered
    <3> QED
      BY <2>4, <3>1 DEF sem_post_wake, do_futex_wait, do_futex_wait_return,
           sem_wait_reload, sem_wait_grab, FutexWakeOne, FutexWaitQueue
  <2> QED
    BY <1>4, <2>1, <2>2, <2>3, <2>4 DEF Step
<1> QED
  BY <1>1, <1>2, <1>3, <1>4 DEF Next

(* Whatever the threads do, are interrupted by or are cancelled in, nwaiters *)
(* is the number of registered waiters, so sem_post never skips a wake-up   *)
(* somebody needs.                                                          *)
THEOREM WaitersAlwaysCounted == Spec => [](TypeOK /\ SleepersInKernel /\ WaitersCounted)
BY InitCountInv, StepCountInv, PTL DEF Spec, CountInv
-----------------------------------------------------------------------------
(* Without a sleeping thread there is nothing to show.                      *)
LEMMA StepTokensCovered ==
  ASSUME CountInv, TokensCovered, [Next]_vars
  PROVE  TokensCovered'
<1> USE DEF CountInv, TypeOK, SleepersInKernel, TokensCovered, PC, Goto
<1> USE ThreadsAssumption
<1>s. /\ Wakers \in SUBSET Threads /\ Awake \in SUBSET Threads
      /\ Cancelled \in SUBSET Threads
  BY DEF Wakers, Awake, Cancelled
<1>n. /\ Cardinality(Wakers) \in Nat /\ Cardinality(Awake) \in Nat
      /\ Cardinality(Cancelled) \in Nat
  BY <1>s, SizeFacts
<1>n1. /\ Cardinality(Wakers') \in Nat /\ Cardinality(Awake') \in Nat
       /\ Cardinality(Cancelled') \in Nat
  <2>1. /\ Wakers' \in SUBSET Threads /\ Awake' \in SUBSET Threads
        /\ Cancelled' \in SUBSET Threads
    BY DEF Wakers, Awake, Cancelled
  <2> QED
    BY <2>1, SizeFacts
<1>1. CASE UNCHANGED vars
  BY <1>1 DEF vars, Wakers, Awake, Cancelled
<1>2. ASSUME NEW t \in Threads, Call(t) PROVE TokensCovered'
  <2>1. Awake' = Awake /\ Cancelled' = Cancelled
    BY <1>2 DEF Call, sem_post, sem_wait_fast, sem_wait_slow, Awake, Cancelled
  <2>2. CASE sem_post(t) /\ nwaiters > 0
    <3>1. t \notin Wakers /\ Wakers' = Wakers \cup {t}
      BY <2>2 DEF sem_post, Wakers
    <3>2. Cardinality(Wakers') = Cardinality(Wakers) + 1
      BY <1>s, <3>1, SizeFacts
    <3> QED
      BY <1>n, <2>1, <2>2, <3>2 DEF sem_post
  <2>3. CASE sem_post(t) /\ nwaiters = 0
    <3>1. Registered \in SUBSET Threads /\ sleepers \subseteq Registered
      BY DEF Registered
    <3>2. Registered = {}
      BY <2>3, <3>1, SizeFacts DEF WaitersCounted
    <3> QED
      BY <2>3, <3>1, <3>2 DEF sem_post
  <2>4. CASE sem_wait_fast(t) \/ sem_wait_slow(t)
    <3>1. Wakers' = Wakers
      BY <2>4 DEF sem_wait_fast, sem_wait_slow, Wakers
    <3> QED
      BY <1>n, <2>1, <2>4, <3>1 DEF sem_wait_fast, sem_wait_slow
  <2> QED
    BY <1>2, <2>2, <2>3, <2>4 DEF Call
<1>3. ASSUME NEW t \in Threads, Environment(t) PROVE TokensCovered'
  <2>1. Wakers' = Wakers
    BY <1>3 DEF Environment, do_futex_wait_spurious, do_futex_wait_error,
         do_futex_wait_cancelled, Wakers
  <2>2. CASE do_futex_wait_spurious(t)
    <3>1. /\ t \notin Awake /\ Awake' = Awake \cup {t}
          /\ Cancelled' = Cancelled
      BY <2>2 DEF do_futex_wait_spurious, Awake, Cancelled
    <3>2. Cardinality(Awake') = Cardinality(Awake) + 1
      BY <1>s, <3>1, SizeFacts
    <3> QED
      BY <1>n, <2>1, <2>2, <3>1, <3>2 DEF do_futex_wait_spurious
  <2>3. CASE do_futex_wait_error(t)
    <3>1. Awake' = Awake /\ Cancelled' = Cancelled
      BY <2>3 DEF do_futex_wait_error, Awake, Cancelled
    <3> QED
      BY <1>n, <2>1, <2>3, <3>1 DEF do_futex_wait_error
  <2>4. CASE do_futex_wait_cancelled(t)
    <3>1. t \notin Cancelled /\ Cancelled' = Cancelled \cup {t}
      BY <2>4 DEF do_futex_wait_cancelled, Cancelled
    <3>2. Cardinality(Cancelled') = Cardinality(Cancelled) + 1
      BY <1>s, <3>1, SizeFacts
    <3>3. CASE t \in Awake
      <4>1. Awake' = Awake \ {t}
        BY <2>4, <3>3 DEF do_futex_wait_cancelled, Awake
      <4>2. Cardinality(Awake') = Cardinality(Awake) - 1
        BY <1>s, <3>3, <4>1, SizeFacts
      <4> QED
        BY <1>n, <2>1, <2>4, <3>2, <4>2 DEF do_futex_wait_cancelled
    <3>4. CASE t \notin Awake
      <4>1. Awake' = Awake
        BY <2>4, <3>4 DEF do_futex_wait_cancelled, Awake
      <4> QED
        BY <1>n, <2>1, <2>4, <3>2, <4>1 DEF do_futex_wait_cancelled
    <3> QED
      BY <3>3, <3>4
  <2> QED
    BY <1>3, <2>2, <2>3, <2>4 DEF Environment
<1>4. ASSUME NEW t \in Threads, Step(t) PROVE TokensCovered'
  <2>c. Cancelled' = Cancelled
    BY <1>4 DEF Step, sem_post_wake, sem_wait_register, do_futex_wait,
         do_futex_wait_return, sem_wait_reload, sem_wait_grab,
         sem_wait_unregister, sem_wait_cleanup, Cancelled
  <2>1. CASE sem_post_wake(t)
    <3>1. t \in Wakers /\ Wakers' = Wakers \ {t}
      BY <2>1 DEF sem_post_wake, Wakers
    <3>2. Cardinality(Wakers') = Cardinality(Wakers) - 1
      BY <1>s, <3>1, SizeFacts
    <3>3. CASE sleepers = {}
      BY <2>1, <3>3 DEF sem_post_wake, FutexWakeOne
    <3>4. CASE sleepers # {}
      <4>1. PICK u \in sleepers : sleepers' = sleepers \ {u}
        BY <2>1, <3>4 DEF sem_post_wake, FutexWakeOne
      <4>2. u \notin Awake /\ Awake' = Awake \cup {u}
        BY <2>1, <4>1 DEF sem_post_wake, Awake
      <4>3. Cardinality(Awake') = Cardinality(Awake) + 1
        BY <1>s, <4>1, <4>2, SizeFacts
      <4> QED
        BY <1>n, <2>c, <2>1, <3>2, <3>4, <4>3 DEF sem_post_wake
    <3> QED
      BY <3>3, <3>4
  <2>2. CASE value' = 0
    BY <1>n1, <2>2
  <2>3. CASE value > 0 /\ (sem_wait_register(t) \/ do_futex_wait(t))
    <3>1. /\ Wakers' = Wakers
          /\ t \notin Awake /\ Awake' = Awake \cup {t}
      BY <2>3 DEF sem_wait_register, do_futex_wait, Wakers, Awake,
           FutexWaitQueue
    <3>2. Cardinality(Awake') = Cardinality(Awake) + 1
      BY <1>s, <3>1, SizeFacts
    <3> QED
      BY <1>n, <2>c, <2>3, <3>1, <3>2 DEF sem_wait_register, do_futex_wait,
           FutexWaitQueue
  <2>4. CASE value > 0 /\ (do_futex_wait_return(t) \/ sem_wait_reload(t))
    <3>1. Wakers' = Wakers /\ Awake' = Awake
      BY <2>4 DEF do_futex_wait_return, sem_wait_reload, Wakers, Awake
    <3> QED
      BY <1>n, <2>c, <2>4, <3>1 DEF do_futex_wait_return, sem_wait_reload
  <2>5. CASE value > 0 /\ sem_wait_grab(t)
    <3>1. /\ Wakers' = Wakers
          /\ t \in Awake /\ Awake' = Awake \ {t}
      BY <2>5 DEF sem_wait_grab, Wakers, Awake
    <3>2. Cardinality(Awake') = Cardinality(Awake) - 1
      BY <1>s, <3>1, SizeFacts
    <3> QED
      BY <1>n, <2>c, <2>5, <3>1, <3>2 DEF sem_wait_grab
  <2>6. CASE sem_wait_unregister(t) \/ sem_wait_cleanup(t)
    <3>1. Wakers' = Wakers /\ Awake' = Awake
      BY <2>6 DEF sem_wait_unregister, sem_wait_cleanup, Wakers, Awake
    <3> QED
      BY <1>n, <2>c, <2>6, <3>1 DEF sem_wait_unregister, sem_wait_cleanup
  <2>7. value > 0 \/ value = 0
    OBVIOUS
  <2>8. CASE /\ value = 0
             /\ \/ sem_wait_register(t) \/ do_futex_wait(t)
                \/ do_futex_wait_return(t) \/ sem_wait_reload(t)
                \/ sem_wait_grab(t)
    <3>1. value' = 0
      BY <2>8 DEF sem_wait_register, do_futex_wait, do_futex_wait_return,
           sem_wait_reload, sem_wait_grab
    <3> QED
      BY <2>2, <3>1
  <2> QED
    BY <1>4, <2>1, <2>3, <2>4, <2>5, <2>6, <2>7, <2>8 DEF Step
<1> QED
  BY <1>1, <1>2, <1>3, <1>4 DEF Next

(* While any thread is blocked, every token has a wake-up on its way or an  *)
(* awake waiter, but for one per cancelled waiter: the wake-ups sem_post    *)
(* issues are enough, however waits time out, are interrupted or barge in.  *)
THEOREM TokensAlwaysCovered == Spec => []TokensCovered
<1>1. Init => TokensCovered
  BY DEF Init, TokensCovered
<1>2. CountInv /\ TokensCovered /\ [Next]_vars => TokensCovered'
  BY StepTokensCovered
<1> QED
  BY <1>1, <1>2, InitCountInv, StepCountInv, PTL DEF Spec
-----------------------------------------------------------------------------
(* Each step of the semaphore is a step of the abstract semaphore: a post   *)
(* adds one token, a wait takes one, and a waiter that gives up takes none. *)
LEMMA StepRefines ==
  ASSUME CountInv, [Next]_vars
  PROVE  [Abstract!ANext]_(Abstract!avars)
<1> USE DEF CountInv, TypeOK, SleepersInKernel, PC, Goto
<1> USE ThreadsAssumption
<1>1. CASE UNCHANGED vars
  BY <1>1 DEF vars, Registered, Abstract!avars
<1>2. ASSUME NEW t \in Threads, Call(t)
      PROVE  Abstract!Post \/ Abstract!Take(t) \/ UNCHANGED <<value, Registered>>
  <2>1. Registered' = Registered /\ t \notin Registered
    BY <1>2 DEF Call, sem_post, sem_wait_fast, sem_wait_slow, Registered
  <2> QED
    BY <1>2, <2>1 DEF Call, sem_post, sem_wait_fast, sem_wait_slow,
         Abstract!Post, Abstract!Take
<1>3. ASSUME NEW t \in Threads, Environment(t)
      PROVE  UNCHANGED <<value, Registered>>
  BY <1>3 DEF Environment, do_futex_wait_spurious, do_futex_wait_error,
       do_futex_wait_cancelled, Registered
<1>4. ASSUME NEW t \in Threads, Step(t)
      PROVE  \/ Abstract!Take(t) \/ Abstract!Wait(t) \/ Abstract!GiveUp(t)
             \/ UNCHANGED <<value, Registered>>
  <2>1. CASE sem_wait_register(t)
    <3>1. t \notin Registered /\ Registered' = Registered \cup {t}
      BY <2>1 DEF sem_wait_register, Registered
    <3> QED
      BY <2>1, <3>1 DEF sem_wait_register, Abstract!Wait
  <2>2. CASE sem_wait_grab(t) /\ value > 0
    <3>1. Registered' = Registered \ {t}
      BY <2>2 DEF sem_wait_grab, Registered
    <3> QED
      BY <2>2, <3>1 DEF sem_wait_grab, Abstract!Take
  <2>3. CASE sem_wait_unregister(t) \/ sem_wait_cleanup(t)
    <3>1. t \in Registered /\ Registered' = Registered \ {t}
      BY <2>3 DEF sem_wait_unregister, sem_wait_cleanup, Registered
    <3> QED
      BY <2>3, <3>1 DEF sem_wait_unregister, sem_wait_cleanup, Abstract!GiveUp
  <2>4. CASE \/ sem_post_wake(t) \/ do_futex_wait(t)
             \/ do_futex_wait_return(t) \/ sem_wait_reload(t)
             \/ sem_wait_grab(t) /\ value = 0
    BY <2>4 DEF sem_post_wake, do_futex_wait, do_futex_wait_return,
         sem_wait_reload, sem_wait_grab, Registered
  <2> QED
    BY <1>4, <2>1, <2>2, <2>3, <2>4 DEF Step
<1> QED
  BY <1>1, <1>2, <1>3, <1>4 DEF Next, Abstract!ANext, Abstract!avars

(* The semaphore implements the safety part of the abstract semaphore, with *)
(* cancellation.                                                            *)
THEOREM SemaphoreRefinement == Spec => Abstract!ASpec
<1>1. Init => Abstract!AInit
  BY DEF Init, sem_init, Registered, Abstract!AInit
<1>2. CountInv /\ [Next]_vars => [Abstract!ANext]_(Abstract!avars)
  BY StepRefines
<1> QED
  BY <1>1, <1>2, InitCountInv, StepCountInv, PTL DEF Spec, Abstract!ASpec
-----------------------------------------------------------------------------
(* The threads that nwaiters stands for.                                    *)
Counted == Waiting \cup Leaving

SleepersInKernel32 == \A t \in sleepers : pc[t] = "sleep"

(* The inductive invariant.  That a mistake is noticed rests on the count:  *)
(* the thread that finds 1 in nwaiters is the only one it stands for.       *)
IInv32 == TypeOK32 /\ SleepersInKernel32 /\ WaitersCounted32 /\ MistakeNoticed

(* A new semaphore satisfies the invariant.                                 *)
LEMMA InitIInv == Init32 => IInv32
<1> SUFFICES ASSUME Init32 PROVE IInv32
  OBVIOUS
<1>1. Waiting \cup Leaving = {}
  BY DEF Init32, Waiting, Leaving
<1>2. TypeOK32 /\ SleepersInKernel32 /\ MistakeNoticed
  BY ThreadsAssumption DEF Init32, TypeOK32, SleepersInKernel32, MistakeNoticed, PC32
<1> QED
  BY <1>1, <1>2, FS_EmptySet DEF Init32, IInv32, WaitersCounted32

(* The three ways in which a step changes what nwaiters stands for.         *)
Joins(t) == t \notin Counted /\ Counted' = Counted \cup {t} /\ nwaiters' = nwaiters + 1

Leaves(t) == t \in Counted /\ Counted' = Counted \ {t} /\ nwaiters' = nwaiters - 1

Keeps == Counted' = Counted /\ nwaiters' = nwaiters

(* Each of them keeps the count exact.                                      *)
LEMMA MovesWaitersCounted ==
  ASSUME WaitersCounted32, NEW t \in Threads, Joins(t) \/ Leaves(t) \/ Keeps
  PROVE  WaitersCounted32' /\ nwaiters' \in Nat
<1>1. Counted \in SUBSET Threads /\ nwaiters = Cardinality(Counted)
  BY DEF Counted, Waiting, Leaving, WaitersCounted32
<1>2. nwaiters' = Cardinality(Counted') /\ nwaiters' \in Nat
  BY <1>1, SizeFacts DEF Joins, Leaves, Keeps
<1> QED
  BY <1>2 DEF Counted, WaitersCounted32

(* A thread is counted between the two atomic accesses to nwaiters.         *)
LEMMA StepMoves ==
  ASSUME TypeOK32, SleepersInKernel32, NEW t \in Threads,
         Call32(t) \/ Step32(t) \/ Environment32(t)
  PROVE  Joins(t) \/ Leaves(t) \/ Keeps
<1> USE DEF TypeOK32, SleepersInKernel32, PC32, Goto, Counted, Waiting, Leaving
<1>1. CASE Call32(t)
  BY <1>1 DEF Call32, sem_post32, sem_wait_fast32, sem_wait_slow32, Keeps
<1>2. CASE Environment32(t)
  BY <1>2 DEF Environment32, do_futex_wait_spurious32, do_futex_wait_error32,
              do_futex_wait_cancelled32, Keeps
<1>3. CASE sem_wait_register32(t)
  BY <1>3 DEF sem_wait_register32, Joins
<1>4. CASE finish_decrement(t)
  BY <1>4 DEF finish_decrement, Exit, Leaves
<1>5. CASE \/ sem_post_wake32(t) \/ sem_wait_setbit(t) \/ do_futex_wait32(t)
           \/ do_futex_wait_return32(t) \/ sem_wait_reload32(t)
  BY <1>5 DEF sem_post_wake32, sem_wait_setbit, do_futex_wait32, do_futex_wait_return32,
              sem_wait_reload32, Keeps
<1>6. CASE \/ sem_wait_grab32(t) \/ finish_guess(t) \/ finish_unset(t)
           \/ finish_rebit(t) \/ finish_wake(t)
  BY <1>6 DEF sem_wait_grab32, finish_guess, finish_unset, finish_rebit, finish_wake,
              Exit, Keeps
<1> QED
  BY <1>1, <1>2, <1>3, <1>4, <1>5, <1>6 DEF Step32

(* Every step keeps the types and lets only threads in the system call be   *)
(* blocked.                                                                 *)
LEMMA StepTypes ==
  ASSUME TypeOK32, SleepersInKernel32, nwaiters' \in Nat, NEW t \in Threads,
         Call32(t) \/ Step32(t) \/ Environment32(t)
  PROVE  TypeOK32' /\ SleepersInKernel32'
<1> USE ThreadsAssumption DEF TypeOK32, SleepersInKernel32, PC32, Goto
<1>1. CASE Call32(t)
  BY <1>1 DEF Call32, sem_post32, sem_wait_fast32, sem_wait_slow32
<1>2. CASE Environment32(t)
  BY <1>2 DEF Environment32, do_futex_wait_spurious32, do_futex_wait_error32,
              do_futex_wait_cancelled32
<1>3. CASE \/ sem_post_wake32(t) \/ sem_wait_register32(t) \/ sem_wait_setbit(t)
           \/ do_futex_wait32(t) \/ do_futex_wait_return32(t) \/ sem_wait_reload32(t)
  BY <1>3 DEF sem_post_wake32, sem_wait_register32, sem_wait_setbit, do_futex_wait32,
              do_futex_wait_return32, sem_wait_reload32, FutexWakeOne, FutexWaitQueue
<1>4. CASE \/ sem_wait_grab32(t) \/ finish_guess(t) \/ finish_unset(t)
           \/ finish_decrement(t) \/ finish_rebit(t) \/ finish_wake(t)
  BY <1>4 DEF sem_wait_grab32, finish_guess, finish_unset, finish_decrement,
              finish_rebit, finish_wake, Exit, FutexWake
<1> QED
  BY <1>1, <1>2, <1>3, <1>4 DEF Step32

(* The thread that cleared the bit goes away without setting it again only  *)
(* if nwaiters stood for it alone, and then nobody is blocked.              *)
LEMMA StepMistakeNoticed ==
  ASSUME IInv32, NEW t \in Threads, Call32(t) \/ Step32(t) \/ Environment32(t)
  PROVE  MistakeNoticed'
<1> USE DEF IInv32, TypeOK32, SleepersInKernel32, MistakeNoticed, PC32, Goto
<1>1. CASE Call32(t)
  BY <1>1 DEF Call32, sem_post32, sem_wait_fast32, sem_wait_slow32
<1>2. CASE Environment32(t)
  BY <1>2 DEF Environment32, do_futex_wait_spurious32, do_futex_wait_error32,
              do_futex_wait_cancelled32
<1>3. CASE \/ sem_post_wake32(t) \/ sem_wait_register32(t) \/ sem_wait_setbit(t)
           \/ do_futex_wait32(t) \/ do_futex_wait_return32(t) \/ sem_wait_reload32(t)
  BY <1>3 DEF sem_post_wake32, sem_wait_register32, sem_wait_setbit, do_futex_wait32,
              do_futex_wait_return32, sem_wait_reload32, FutexWakeOne, FutexWaitQueue
<1>4. CASE \/ sem_wait_grab32(t) \/ finish_guess(t) \/ finish_unset(t)
           \/ finish_rebit(t) \/ finish_wake(t)
  BY <1>4 DEF sem_wait_grab32, finish_guess, finish_unset, finish_rebit, finish_wake,
              Exit, FutexWake
<1>5. CASE finish_decrement(t)
  <2>1. CASE pc[t] = "decr1" /\ ~(nwaiters > 1)
    <3>1. /\ Counted \in SUBSET Threads /\ t \in Counted
          /\ nwaiters = Cardinality(Counted) /\ sleepers \subseteq Counted
      BY <2>1 DEF Counted, Waiting, Leaving, WaitersCounted32
    <3>2. /\ Cardinality(Counted) \in Nat /\ Cardinality(Counted) >= 1
          /\ Cardinality(Counted) = 1 => Counted = {t}
      BY <3>1, SizeFacts, Zenon
    <3>3. Counted = {t}
      BY <2>1, <3>1, <3>2
    <3> QED
      BY <1>5, <2>1, <3>1, <3>3 DEF finish_decrement
  <2>2. CASE pc[t] = "decr" \/ nwaiters > 1
    BY <1>5, <2>2 DEF finish_decrement, Exit
  <2> QED
    BY <1>5, <2>1, <2>2 DEF finish_decrement
<1> QED
  BY <1>1, <1>2, <1>3, <1>4, <1>5 DEF Step32

(* Every step keeps the invariant.                                          *)
LEMMA StepIInv == IInv32 /\ [Next32]_vars32 => IInv32'
<1> SUFFICES ASSUME IInv32, [Next32]_vars32 PROVE IInv32'
  OBVIOUS
<1>1. CASE UNCHANGED vars32
  BY <1>1
     DEF vars32, IInv32, TypeOK32, SleepersInKernel32, WaitersCounted32, Waiting, Leaving,
         MistakeNoticed
<1>2. ASSUME NEW t \in Threads, Call32(t) \/ Step32(t) \/ Environment32(t)
      PROVE  IInv32'
  <2>1. WaitersCounted32' /\ nwaiters' \in Nat
    BY <1>2, StepMoves, MovesWaitersCounted DEF IInv32
  <2> QED
    BY <1>2, <2>1, StepTypes, StepMistakeNoticed DEF IInv32
<1> QED
  BY <1>1, <1>2 DEF Next32

(* The invariant holds in every reachable state.                            *)
LEMMA AlwaysIInv == Spec32 => []IInv32
BY InitIInv, StepIInv, PTL DEF Spec32

(* nwaiters is the number of threads between their two accesses to it, with *)
(* time-outs, interruptions and cancellation.                               *)
THEOREM WaitersAlwaysCounted32 == Spec32 => []WaitersCounted32
<1>1. IInv32 => WaitersCounted32
  BY DEF IInv32
<1> QED
  BY <1>1, AlwaysIInv, PTL

(* "We will notice if we make a mistake": when the bit is clear beside a    *)
(* blocked thread, the thread that cleared it has yet to look at the old    *)
(* value of nwaiters, or has done so and is about to set the bit again.     *)
THEOREM MistakeAlwaysNoticed == Spec32 => []MistakeNoticed
<1>1. IInv32 => MistakeNoticed
  BY DEF IInv32
<1> QED
  BY <1>1, AlwaysIInv, PTL
-----------------------------------------------------------------------------
(* Each step is one of the abstract semaphore or changes neither the tokens *)
(* nor who waits.                                                           *)
LEMMA StepRefines32 ==
  ASSUME TypeOK32, SleepersInKernel32, NEW t \in Threads,
         Call32(t) \/ Step32(t) \/ Environment32(t)
  PROVE  \/ Abstract32!Post \/ Abstract32!Take(t) \/ Abstract32!Wait(t)
         \/ Abstract32!GiveUp(t) \/ UNCHANGED <<tokens, Waiting>>
<1> USE DEF TypeOK32, SleepersInKernel32, PC32, Goto, Waiting
<1>1. CASE Call32(t)
  <2>1. Waiting' = Waiting /\ t \notin Waiting
    BY <1>1 DEF Call32, sem_post32, sem_wait_fast32, sem_wait_slow32
  <2> QED
    BY <1>1, <2>1 DEF Call32, sem_post32, sem_wait_fast32, sem_wait_slow32,
                      Abstract32!Post, Abstract32!Take
<1>2. CASE do_futex_wait_error32(t) \/ do_futex_wait_cancelled32(t)
  <2>1. /\ t \in Waiting /\ Waiting' = Waiting \ {t} /\ tokens' = tokens
    BY <1>2 DEF do_futex_wait_error32, do_futex_wait_cancelled32
  <2> QED
    BY <2>1 DEF Abstract32!GiveUp
<1>3. CASE sem_wait_register32(t)
  <2>1. t \notin Waiting /\ Waiting' = Waiting \cup {t} /\ tokens' = tokens
    BY <1>3 DEF sem_wait_register32
  <2> QED
    BY <2>1 DEF Abstract32!Wait
<1>4. CASE sem_wait_grab32(t)
  <2>1. \/ tokens > 0 /\ tokens' = tokens - 1 /\ Waiting' = Waiting \ {t}
        \/ UNCHANGED <<tokens, Waiting>>
    BY <1>4 DEF sem_wait_grab32
  <2> QED
    BY <2>1 DEF Abstract32!Take
<1>5. CASE \/ do_futex_wait_spurious32(t) \/ sem_post_wake32(t) \/ sem_wait_setbit(t)
           \/ do_futex_wait32(t) \/ do_futex_wait_return32(t) \/ sem_wait_reload32(t)
  BY <1>5 DEF do_futex_wait_spurious32, sem_post_wake32, sem_wait_setbit, do_futex_wait32,
              do_futex_wait_return32, sem_wait_reload32
<1>6. CASE \/ finish_guess(t) \/ finish_unset(t) \/ finish_decrement(t)
           \/ finish_rebit(t) \/ finish_wake(t)
  BY <1>6 DEF finish_guess, finish_unset, finish_decrement, finish_rebit, finish_wake,
              Exit
<1> QED
  BY <1>1, <1>2, <1>3, <1>4, <1>5, <1>6 DEF Step32, Environment32

(* The two-word semaphore implements the safety part of the same abstract   *)
(* semaphore as the one-word variant.                                       *)
THEOREM Semaphore32Refinement == Spec32 => Abstract32!ASpec
<1>1. Init32 => Abstract32!AInit
  BY DEF Init32, Waiting, Abstract32!AInit
<1>2. IInv32 /\ [Next32]_vars32 => [Abstract32!ANext]_(Abstract32!avars)
  <2> SUFFICES ASSUME IInv32, [Next32]_vars32
               PROVE  [Abstract32!ANext]_(Abstract32!avars)
    OBVIOUS
  <2>1. CASE UNCHANGED vars32
    BY <2>1 DEF vars32, Waiting, Abstract32!avars
  <2>2. ASSUME NEW t \in Threads, Call32(t) \/ Step32(t) \/ Environment32(t)
        PROVE  [Abstract32!ANext]_(Abstract32!avars)
    BY <2>2, StepRefines32 DEF IInv32, Abstract32!ANext, Abstract32!avars
  <2> QED
    BY <2>1, <2>2 DEF Next32
<1> QED
  BY <1>1, <1>2, AlwaysIInv, PTL DEF Spec32, Abstract32!ASpec
=============================================================================
