----------------------------- MODULE LockProofs -----------------------------
(***************************************************************************)
(* Proofs about two locks built on a futex besides the low-level lock, for *)
(* any threads.  First the internal lock of condition variables: one       *)
(* owner, and a size in the same word that nobody disturbs.  Then          *)
(* FutexMutex and FutexCondvar: one owner, and no notification is lost     *)
(* between the release of the mutex and the futex call.  Both implement    *)
(* AbstractLock.                                                           *)
(***************************************************************************)
EXTENDS CondvarLock, FutexSync, FiniteSetTheorems, TLAPS

(* The owner's locals while it changes the size: the lock bits it has read  *)
(* are those of an owned lock, and a store to come repeats the size.        *)
OwnerLocals ==
  \A t \in Users : /\ at[t] = "set" => s[t][2] # 0
                   /\ at[t] = "fix" => s[t][1] = written

LockInv == LockTypeOK /\ OwnerLocals /\ LockExclusion /\ SizeKept

(* The lock is free at first and the size is zero.                          *)
LEMMA InitLockInv == LockInit => LockInv
BY UsersAssumption
   DEF LockInit, LockInv, LockTypeOK, OwnerLocals, LockExclusion, SizeKept, LockHeld, LockPC

(* Every access to the word by owner or waiter keeps the invariant.         *)
LEMMA StepLockInv == LockInv /\ [LockNext]_lockvars => LockInv'
<1> SUFFICES ASSUME LockInv, [LockNext]_lockvars PROVE LockInv'
  OBVIOUS
<1> USE DEF LockInv, LockTypeOK, OwnerLocals, LockExclusion, SizeKept, LockHeld, LockPC,
            LockGoto, Word
<1>1. CASE UNCHANGED lockvars
  BY <1>1, SMTT(60) DEF lockvars
<1>2. ASSUME NEW t \in Users, acquire_fast(t) PROVE LockInv'
  BY <1>2, SMTT(60) DEF acquire_fast, Reloaded
<1>3. ASSUME NEW t \in Users, set_orig_size(t) PROVE LockInv'
  BY <1>3, SMTT(60) DEF set_orig_size
<1>4. ASSUME NEW t \in Users, acquire_spurious(t) PROVE LockInv'
  BY <1>4, SMTT(60) DEF acquire_spurious
<1>5. ASSUME NEW t \in Users, acquire_slow(t) PROVE LockInv'
  BY <1>5, SMTT(60) DEF acquire_slow, Reloaded
<1>6. ASSUME NEW t \in Users, acquire_wait(t) PROVE LockInv'
  BY <1>6, SMTT(60) DEF acquire_wait, FutexWaitQueue
<1>7. ASSUME NEW t \in Users, acquire_reload(t) PROVE LockInv'
  BY <1>7, SMTT(60) DEF acquire_reload, Reloaded
<1>8. ASSUME NEW t \in Users, set_exchange(t) PROVE LockInv'
  BY <1>8, SMTT(60) DEF set_exchange
<1>9. ASSUME NEW t \in Users, set_fix(t) PROVE LockInv'
  BY <1>9, SMTT(60) DEF set_fix
<1>10. ASSUME NEW t \in Users, release_lock(t) PROVE LockInv'
  BY <1>10, UsersAssumption, SMTT(60) DEF release_lock
<1>11. ASSUME NEW t \in Users, release_wake(t) PROVE LockInv'
  BY <1>11, SMTT(60) DEF release_wake, FutexWakeOne
<1> QED
  BY <1>1, <1>2, <1>3, <1>4, <1>5, <1>6, <1>7, <1>8, <1>9, <1>10, <1>11, ZenonT(60)
     DEF LockNext, LockStep

(* The invariant holds in every reachable state.                            *)
LEMMA AlwaysLockInv == LockSpec => []LockInv
BY InitLockInv, StepLockInv, PTL DEF LockSpec

(* The internal lock has one owner, its bits say so, and no acquisition,    *)
(* release or repair of the bits by any thread disturbs the size that       *)
(* __condvar_set_orig_size stored.                                          *)
THEOREM CondvarLockSafety == LockSpec => [](LockTypeOK /\ LockExclusion /\ SizeKept)
<1>1. LockInv => LockTypeOK /\ LockExclusion /\ SizeKept
  BY DEF LockInv
<1> QED
  BY <1>1, AlwaysLockInv, PTL

(* Each access to the word is a step of the abstract lock or concerns       *)
(* neither its owner nor those that ask for it.                             *)
LEMMA StepLockRefines ==
  ASSUME LockInv, LockInv', [LockNext]_lockvars
  PROVE  [LockAbstract!ANext]_(LockAbstract!avars)
<1>o. /\ \A t \in Users : LockOwner = t <=> LockHeld(t)
      /\ LockOwner = Unowned <=> \A t \in Users : ~LockHeld(t)
  BY UsersAssumption, ZenonT(60) DEF LockInv, LockExclusion, LockOwner
<1>p. /\ \A t \in Users : LockOwner' = t <=> LockHeld(t)'
      /\ LockOwner' = Unowned <=> \A t \in Users : ~LockHeld(t)'
      /\ LockOwner' \in Users \cup {Unowned}
  <2>1. LockExclusion'
    BY DEF LockInv
  <2> QED
    BY <2>1, UsersAssumption, ZenonT(60) DEF LockExclusion, LockOwner
<1>q. LockOwner \in Users \cup {Unowned}
  BY ZenonT(60) DEF LockOwner
<1>s. ASSUME \A t \in Users : LockHeld(t)' <=> LockHeld(t)
      PROVE  LockOwner' = LockOwner
  BY <1>s, <1>o, <1>p, <1>q, ZenonT(60)
<1> USE DEF LockInv, LockTypeOK, LockGoto, LockPC
<1>1. CASE UNCHANGED lockvars
  <2>1. LockAsking' = LockAsking /\ \A t \in Users : LockHeld(t)' <=> LockHeld(t)
    BY <1>1, ZenonT(60) DEF lockvars, LockAsking, LockHeld
  <2> QED
    BY <1>s, <2>1, ZenonT(60) DEF LockAbstract!avars
<1>2. ASSUME NEW t \in Users,
             acquire_fast(t) \/ set_orig_size(t) \/ acquire_spurious(t) \/ LockStep(t)
      PROVE  \/ LockAbstract!Ask(t) \/ LockAbstract!Acquire(t)
             \/ LockAbstract!Release(t) \/ UNCHANGED LockAbstract!avars
  <2> DEFINE Asks == {"cas", "fwait", "sleep", "load"}
             Holds == {"in", "set", "fix"}
             Goes(A, B) == at[t] \in A /\ \E l \in B : at' = [at EXCEPT ![t] = l]
  <2>1. CASE Goes({"out"} \cup Asks, {"in"}) /\ bits = 0
    <3>1. \A u \in Users : ~LockHeld(u)
      BY <2>1, ZenonT(60) DEF LockExclusion
    <3>2. LockHeld(t)' /\ LockAsking' = LockAsking \ {t}
      BY <2>1, SMTT(60) DEF LockHeld, LockAsking
    <3> QED
      BY <3>1, <3>2, <1>o, <1>p, ZenonT(60) DEF LockAbstract!Acquire
  <2>2. CASE Goes({"out"}, Asks)
    <3>1. /\ t \notin LockAsking /\ LockAsking' = LockAsking \cup {t} /\ ~LockHeld(t)
          /\ \A u \in Users : LockHeld(u)' <=> LockHeld(u)
      BY <2>2, SMTT(60) DEF LockHeld, LockAsking
    <3> QED
      BY <3>1, <1>o, <1>s, ZenonT(60) DEF LockAbstract!Ask
  <2>3. CASE Goes({"in"}, {"out", "wake"})
    <3>1. LockHeld(t) /\ ~LockHeld(t)' /\ LockAsking' = LockAsking
      BY <2>3, SMTT(60) DEF LockHeld, LockAsking
    <3>2. \A u \in Users : ~LockHeld(u)'
      <4>1. \A u \in Users : u # t => LockHeld(u)' = LockHeld(u)
        BY <2>3, SMTT(60) DEF LockHeld
      <4> QED
        BY <3>1, <4>1, ZenonT(60) DEF LockExclusion
    <3> QED
      BY <3>1, <3>2, <1>o, <1>p, ZenonT(60) DEF LockAbstract!Release
  <2>4. CASE \/ Goes(Asks, Asks) \/ Goes(Holds, Holds) \/ Goes({"wake"}, {"out"})
             \/ at' = at
    <3>1. LockAsking' = LockAsking /\ \A u \in Users : LockHeld(u)' <=> LockHeld(u)
      BY <2>4, SMTT(60) DEF LockHeld, LockAsking
    <3> QED
      BY <3>1, <1>s, ZenonT(60) DEF LockAbstract!avars
  <2>5. \/ Goes({"out"} \cup Asks, {"in"}) /\ bits = 0
        \/ Goes({"out"}, Asks) \/ Goes({"in"}, {"out", "wake"})
        \/ Goes(Asks, Asks) \/ Goes(Holds, Holds) \/ Goes({"wake"}, {"out"})
        \/ at' = at
    <3>1. CASE acquire_fast(t) \/ acquire_slow(t)
      BY <3>1, SMTT(60) DEF acquire_fast, acquire_slow, Reloaded
    <3>2. CASE acquire_wait(t) \/ acquire_reload(t) \/ acquire_spurious(t)
      BY <3>2, SMTT(60) DEF acquire_wait, acquire_reload, Reloaded, acquire_spurious
    <3>3. CASE \/ set_orig_size(t) \/ set_exchange(t) \/ set_fix(t)
               \/ release_lock(t) \/ release_wake(t)
      BY <3>3, SMTT(60) DEF set_orig_size, set_exchange, set_fix, release_lock, release_wake
    <3> QED
      BY <1>2, <3>1, <3>2, <3>3, ZenonT(60) DEF LockStep
  <2> HIDE DEF Goes
  <2> QED
    BY <2>1, <2>2, <2>3, <2>4, <2>5, ZenonT(60)
<1> QED
  BY <1>1, <1>2, ZenonT(60) DEF LockNext, LockAbstract!ANext, LockAbstract!avars

(* The internal lock implements the safety part of the abstract lock while  *)
(* its owner changes the size in the word it is in.                         *)
THEOREM CondvarLockRefinement == LockSpec => LockAbstract!ASpec
<1>1. LockInit => LockAbstract!AInit
  BY UsersAssumption, SMT
     DEF LockInit, LockOwner, LockHeld, LockAsking, LockAbstract!AInit
<1>2. LockInv /\ LockInv' /\ [LockNext]_lockvars
        => [LockAbstract!ANext]_(LockAbstract!avars)
  BY StepLockRefines
<1> QED
  BY <1>1, <1>2, AlwaysLockInv, PTL DEF LockSpec, LockAbstract!ASpec
-----------------------------------------------------------------------------
(* FutexMutex and FutexCondvar.                                             *)

Active == { t \in Threads : pc[t] # "out" }

(* The notifiers that have not yet changed the generation.                  *)
Registering == { t \in Notifying : pc[t] \notin {"one", "all"} }

(* The consumers that have read the generation and not yet blocked.         *)
Deciding == { t \in Threads : pc[t] \in {"vleave", "vwake", "vwait"} }

(* Who may be where, and that nobody has read a generation to come.         *)
PlacesOK ==
  /\ \A t \in mSleepers : pc[t] = "msleep"
  /\ \A t \in cSleepers : pc[t] = "vsleep"
  /\ \A t \in late : pc[t] \in {"leave", "wake", "add", "one", "all"}
  /\ \A t \in Threads :
       /\ pc[t] \in {"add", "one", "all"} => t \in Producers
       /\ pc[t] \in {"vleave", "vwake", "vwait", "vsleep"} => t \in Consumers
       /\ seen[t] <= generation

(* Only finitely many threads are counted, and the generation does not wrap *)
(* around.                                                                  *)
CountsOK ==
  /\ IsFiniteSet(Active)
  /\ generation + Cardinality(Registering) <= MaxNotify

(* What ItemsCovered rests on: while a consumer that read the generation    *)
(* that is still current has yet to call futex::wait, every item was added  *)
(* after the read, by a producer that has yet to change the generation.     *)
ReadCovered ==
  (\E t \in Deciding : seen[t] = generation) => items <= Cardinality(Registering)

PlainInv == TypeOK /\ PlacesOK /\ MutualExclusion

FutexInv == PlainInv /\ CountsOK /\ ReadCovered /\ ItemsCovered

(* The sets that are counted are finite.                                    *)
LEMMA CountedFinite ==
  ASSUME PlainInv, IsFiniteSet(Active)
  PROVE  /\ IsFiniteSet(Notifying) /\ IsFiniteSet(Registering) /\ IsFiniteSet(Awake)
         /\ Cardinality(Registering) <= Cardinality(Notifying)
         /\ Cardinality(Registering) \in Nat
         /\ Cardinality(Notifying) \in Nat /\ Cardinality(Awake) \in Nat
<1>1. Notifying \subseteq Active /\ Registering \subseteq Notifying /\ Awake \subseteq Active
  BY ZenonT(60) DEF PlainInv, TypeOK, PlacesOK, Active, Notifying, Registering, Awake, Threads
<1>2. IsFiniteSet(Notifying) /\ IsFiniteSet(Awake)
  BY <1>1, FS_Subset, ZenonT(60)
<1>3. IsFiniteSet(Registering) /\ Cardinality(Registering) <= Cardinality(Notifying)
  BY <1>1, <1>2, FS_Subset, ZenonT(60)
<1> QED
  BY <1>2, <1>3, FS_CardinalityType, ZenonT(60)

(* Both words are 0 at first and everybody is outside.                      *)
LEMMA InitFutexInv == Init => FutexInv
<1> SUFFICES ASSUME Init PROVE FutexInv
  OBVIOUS
<1>1. Active = {} /\ Registering = {}
  BY ZenonT(60) DEF Init, Active, Registering, Notifying
<1>2. PlainInv
  BY ClientAssumption, SMTT(60)
     DEF Init, PlainInv, TypeOK, PlacesOK, MutualExclusion, Holding, PC
<1>3. CountsOK
  BY <1>1, FS_EmptySet, ClientAssumption, SMTT(60) DEF Init, CountsOK
<1>4. ReadCovered /\ ItemsCovered
  BY ZenonT(60) DEF Init, ReadCovered, ItemsCovered, Deciding
<1> QED
  BY <1>2, <1>3, <1>4 DEF FutexInv

(* Every step keeps types, places and mutual exclusion.                     *)
LEMMA StepPlainInv ==
  ASSUME PlainInv, CountsOK, NEW t \in Threads, Enter(t) \/ Step(t) \/ spurious_wake(t)
  PROVE  PlainInv'
<1> USE ClientAssumption
    DEF PlainInv, TypeOK, PlacesOK, MutualExclusion, Holding, PC, Goto,
        mutex, condvar, client, Threads
<1>1. CASE Enter(t)
  BY <1>1, SMTT(60) DEF Enter
<1>2. CASE spurious_wake(t)
  BY <1>2, SMTT(60) DEF spurious_wake
<1>3. CASE lock_cas(t)
  BY <1>3, SMTT(60) DEF lock_cas
<1>4. CASE lock_wait(t) \/ lock_wait_return(t)
  BY <1>4, SMTT(60) DEF lock_wait, lock_wait_return, FutexWaitQueue
<1>5. CASE unlock_store(t)
  BY <1>5, SMTT(60) DEF unlock_store
<1>6. CASE unlock_wake(t)
  BY <1>6, SMTT(60) DEF unlock_wake, FutexWakeOne
<1>7. CASE condvar_wait(t)
  BY <1>7, SMTT(60) DEF condvar_wait
<1>8. CASE condvar_block(t) \/ condvar_return(t)
  BY <1>8, SMTT(60) DEF condvar_block, condvar_return, FutexWaitQueue
<1>9. CASE notify_add(t)
  <2>1. t \in Registering
    BY <1>9, SMTT(60) DEF notify_add, Registering, Notifying
  <2>2. Cardinality(Registering) \in Nat /\ Cardinality(Registering) # 0
    BY <2>1, CountedFinite, FS_EmptySet, ZenonT(60) DEF CountsOK
  <2>3. generation + 1 \in 0..MaxNotify
    BY <2>2, SMTT(60) DEF CountsOK
  <2> QED
    BY <1>9, <2>3, SMTT(60) DEF notify_add
<1>10. CASE notify_wake(t)
  BY <1>10, SMTT(60) DEF notify_wake, FutexWakeOne, FutexWakeAll
<1>11. CASE Produce(t)
  BY <1>11, SMTT(60) DEF Produce
<1>12. CASE Consume(t) \/ Pass(t)
  BY <1>12, SMTT(60) DEF Consume, Pass
<1> QED
  BY <1>1, <1>2, <1>3, <1>4, <1>5, <1>6, <1>7, <1>8, <1>9, <1>10, <1>11, <1>12,
     ZenonT(60) DEF Step

(* How a step by thread t changes what is counted.                          *)
Readers == Deciding' \subseteq Deciding /\ seen' = seen /\ generation' = generation

Quiet ==
  /\ Readers /\ items' = items /\ cSleepers' \subseteq cSleepers
  /\ Notifying' = Notifying /\ Registering' = Registering /\ Awake \subseteq Awake'

Blocks(t) ==
  /\ Readers /\ items' = items /\ t \in Deciding /\ seen[t] = generation
  /\ Notifying' = Notifying /\ Registering' = Registering

Waits == items = 0 /\ items' = 0 /\ Registering' = Registering /\ generation' = generation

Registers(t) ==
  /\ generation' = generation + 1 /\ seen' = seen /\ items' = items
  /\ cSleepers' = cSleepers /\ Notifying' = Notifying /\ Awake \subseteq Awake'
  /\ t \in Registering /\ Registering' = Registering \ {t}

Wakes(t) ==
  /\ Readers /\ items' = items /\ Registering' = Registering
  /\ t \in Notifying /\ Notifying' = Notifying \ {t}
  /\ \/ cSleepers' = {}
     \/ cSleepers # {} /\ \E c \in Threads : c \notin Awake /\ Awake' = Awake \cup {c}

Adds(t) ==
  /\ Readers /\ items' = items + 1 /\ cSleepers' = cSleepers /\ Awake' = Awake
  /\ t \notin Notifying /\ Notifying' = Notifying \cup {t}
  /\ Registering' = Registering \cup {t}
  /\ generation + Cardinality(Registering) < MaxNotify

Takes(t) ==
  /\ Readers /\ items > 0 /\ items' = items - 1 /\ cSleepers' = cSleepers
  /\ Notifying' = Notifying /\ Registering' = Registering
  /\ t \in Awake /\ Awake' = Awake \ {t}

(* Each step is one of these.                                               *)
LEMMA FutexMoves ==
  ASSUME PlainInv, NEW t \in Threads, Enter(t) \/ Step(t) \/ spurious_wake(t)
  PROVE  \/ Quiet \/ Blocks(t) \/ Waits \/ Registers(t) \/ Wakes(t) \/ Adds(t) \/ Takes(t)
<1> USE ClientAssumption
    DEF PlainInv, TypeOK, PlacesOK, PC, Goto, mutex, condvar, client, Threads,
        Readers, Deciding, Notifying, Registering, Awake
<1>1. CASE Enter(t) \/ spurious_wake(t) \/ Pass(t)
  BY <1>1, SMTT(60) DEF Enter, spurious_wake, Pass, Quiet
<1>2. CASE lock_cas(t) \/ lock_wait(t) \/ lock_wait_return(t)
  BY <1>2, SMTT(60) DEF lock_cas, lock_wait, lock_wait_return, Quiet
<1>3. CASE unlock_store(t) \/ unlock_wake(t)
  BY <1>3, SMTT(60) DEF unlock_store, unlock_wake, Quiet
<1>4. CASE condvar_wait(t)
  BY <1>4, SMTT(60) DEF condvar_wait, Waits
<1>5. CASE condvar_block(t)
  <2>1. CASE generation = seen[t]
    BY <1>5, <2>1, SMTT(60) DEF condvar_block, Blocks
  <2>2. CASE generation # seen[t]
    BY <1>5, <2>2, SMTT(60) DEF condvar_block, FutexWaitQueue, Quiet
  <2> QED
    BY <2>1, <2>2
<1>6. CASE condvar_return(t)
  BY <1>6, SMTT(60) DEF condvar_return, Quiet
<1>7. CASE notify_add(t)
  BY <1>7, SMTT(60) DEF notify_add, Registers
<1>8. CASE notify_wake(t)
  BY <1>8, SMTT(60) DEF notify_wake, FutexWakeOne, FutexWakeAll, Wakes
<1>9. CASE Produce(t)
  BY <1>9, SMTT(60) DEF Produce, Adds
<1>10. CASE Consume(t)
  BY <1>10, SMTT(60) DEF Consume, Takes
<1> QED
  BY <1>1, <1>2, <1>3, <1>4, <1>5, <1>6, <1>7, <1>8, <1>9, <1>10, ZenonT(60) DEF Step

(* A step adds at most one thread to those that are not outside.            *)
LEMMA ActiveFinite ==
  ASSUME PlainInv, PlainInv', IsFiniteSet(Active), NEW t \in Threads,
         \A u \in Threads \ {t} : pc'[u] = pc[u]
  PROVE  IsFiniteSet(Active')
<1>1. Active' \subseteq Active \cup {t}
  BY ZenonT(60) DEF Active
<1>2. IsFiniteSet(Active \cup {t})
  BY FS_AddElement, ZenonT(60)
<1> QED
  BY <1>1, <1>2, FS_Subset, ZenonT(60)

(* The sizes of sets that gain or lose a thread, or only gain.              *)
LEMMA SizeChange ==
  ASSUME NEW S, IsFiniteSet(S)
  PROVE  /\ \A x : x \notin S => Cardinality(S \cup {x}) = Cardinality(S) + 1
         /\ \A x \in S : Cardinality(S \ {x}) = Cardinality(S) - 1
         /\ Cardinality(S) \in Nat
         /\ \A R \in SUBSET S : Cardinality(R) <= Cardinality(S)
BY FS_AddElement, FS_RemoveElement, FS_CardinalityType, FS_Subset

(* Every one of the moves keeps the counts.                                 *)
LEMMA MovesKeepCounts ==
  ASSUME FutexInv, PlainInv', IsFiniteSet(Active'), NEW t \in Threads,
         \/ Quiet \/ Blocks(t) \/ Waits \/ Registers(t) \/ Wakes(t) \/ Adds(t) \/ Takes(t)
  PROVE  CountsOK' /\ ReadCovered' /\ ItemsCovered'
<1> DEFINE N == Cardinality(Notifying)
           R == Cardinality(Registering)
           A == Cardinality(Awake)
           Reads == \E u \in Deciding : seen[u] = generation
           Blocked == cSleepers # {}
           N1 == Cardinality(Notifying')
           R1 == Cardinality(Registering')
           A1 == Cardinality(Awake')
           Reads1 == \E u \in Deciding' : seen'[u] = generation'
           Blocked1 == cSleepers' # {}
<1> HIDE DEF N, R, A, Reads, Blocked, N1, R1, A1, Reads1, Blocked1
<1>n. /\ generation \in Nat /\ items \in Nat /\ MaxNotify \in Nat
      /\ generation' \in Nat /\ items' \in Nat
  BY ClientAssumption, SMTT(60) DEF FutexInv, PlainInv, TypeOK
<1>f. /\ IsFiniteSet(Notifying) /\ IsFiniteSet(Registering) /\ IsFiniteSet(Awake)
      /\ N \in Nat /\ R \in Nat /\ A \in Nat /\ R <= N
  BY CountedFinite, ZenonT(60) DEF FutexInv, CountsOK, N, R, A
<1>g. /\ IsFiniteSet(Notifying') /\ IsFiniteSet(Registering') /\ IsFiniteSet(Awake')
      /\ N1 \in Nat /\ R1 \in Nat /\ A1 \in Nat /\ R1 <= N1
  <2>1. /\ Notifying' \subseteq Active' /\ Registering' \subseteq Notifying'
        /\ Awake' \subseteq Active'
    BY ZenonT(60)
       DEF PlainInv, TypeOK, PlacesOK, Active, Notifying, Registering, Awake, Threads
  <2>2. IsFiniteSet(Notifying') /\ IsFiniteSet(Awake')
    BY <2>1, FS_Subset, ZenonT(60)
  <2>3. IsFiniteSet(Registering') /\ R1 <= N1
    BY <2>1, <2>2, FS_Subset, ZenonT(60) DEF N1, R1
  <2> QED
    BY <2>2, <2>3, FS_CardinalityType, ZenonT(60) DEF N1, R1, A1
<1>i. /\ generation + R <= MaxNotify
      /\ Reads => items <= R
      /\ Blocked => items <= N + A
  BY ZenonT(60)
     DEF FutexInv, CountsOK, ReadCovered, ItemsCovered, N, R, A, Reads, Blocked
<1> SUFFICES /\ generation' + R1 <= MaxNotify
             /\ Reads1 => items' <= R1
             /\ Blocked1 => items' <= N1 + A1
  BY ZenonT(60) DEF CountsOK, ReadCovered, ItemsCovered, N1, R1, A1, Reads1, Blocked1
<1>m. Awake \subseteq Awake' => A <= A1
  BY <1>g, SizeChange, ZenonT(60) DEF A, A1
<1>r. Readers => generation' = generation /\ (Reads1 => Reads)
  BY ZenonT(60) DEF Readers, Reads, Reads1
<1>1. CASE Quiet
  <2>1. N1 = N /\ R1 = R /\ A <= A1 /\ items' = items
    BY <1>1, <1>m, ZenonT(60) DEF Quiet, N, N1, R, R1, A, A1
  <2>2. generation' = generation /\ (Reads1 => Reads) /\ (Blocked1 => Blocked)
    BY <1>1, <1>r, ZenonT(60) DEF Quiet, Reads, Reads1, Blocked, Blocked1
  <2> QED
    BY <2>1, <2>2, <1>n, <1>f, <1>g, <1>i, SMTT(60)
<1>2. CASE Blocks(t)
  <2>1. N1 = N /\ R1 = R /\ items' = items
    BY <1>2, ZenonT(60) DEF Blocks, N, N1, R, R1
  <2>2. generation' = generation /\ Reads
    BY <1>2, <1>r, ZenonT(60) DEF Blocks, Reads
  <2> QED
    BY <2>1, <2>2, <1>n, <1>f, <1>g, <1>i, SMTT(60)
<1>3. CASE Waits
  <2>1. R1 = R /\ generation' = generation /\ items' = 0
    BY <1>3, ZenonT(60) DEF Waits, R, R1
  <2> QED
    BY <2>1, <1>n, <1>f, <1>g, <1>i, SMTT(60)
<1>4. CASE Registers(t)
  <2>1. N1 = N /\ R1 = R - 1 /\ A <= A1
    BY <1>4, <1>m, <1>f, SizeChange, ZenonT(60) DEF Registers, N, N1, R, R1, A, A1
  <2>2. /\ generation' = generation + 1 /\ items' = items
        /\ Blocked1 = Blocked
    BY <1>4, ZenonT(60) DEF Registers, Blocked, Blocked1
  <2>3. ~Reads1
    BY <1>4, SMTT(60)
       DEF Registers, FutexInv, PlainInv, TypeOK, PlacesOK, Deciding, Reads1
  <2> QED
    BY <2>1, <2>2, <2>3, <1>n, <1>f, <1>g, <1>i, SMTT(60)
<1>5. CASE Wakes(t)
  <2>1. N1 = N - 1 /\ R1 = R /\ items' = items
    BY <1>5, <1>f, SizeChange, ZenonT(60) DEF Wakes, N, N1, R, R1
  <2>2. ~Blocked1 \/ (Blocked /\ A1 = A + 1)
    BY <1>5, <1>f, SizeChange, ZenonT(60) DEF Wakes, A, A1, Blocked, Blocked1
  <2>3. generation' = generation /\ (Reads1 => Reads)
    BY <1>5, <1>r, ZenonT(60) DEF Wakes, Reads, Reads1
  <2> QED
    BY <2>1, <2>2, <2>3, <1>n, <1>f, <1>g, <1>i, SMTT(60)
<1>6. CASE Adds(t)
  <2>1. t \notin Registering
    BY <1>6, ZenonT(60) DEF Adds, Registering
  <2>2. N1 = N + 1 /\ R1 = R + 1 /\ A1 = A
    BY <1>6, <2>1, <1>f, SizeChange, ZenonT(60) DEF Adds, N, N1, R, R1, A, A1
  <2>3. generation + R < MaxNotify /\ items' = items + 1 /\ Blocked1 = Blocked
    BY <1>6, ZenonT(60) DEF Adds, R, Blocked, Blocked1
  <2>4. generation' = generation /\ (Reads1 => Reads)
    BY <1>6, <1>r, ZenonT(60) DEF Adds, Reads, Reads1
  <2> QED
    BY <2>2, <2>3, <2>4, <1>n, <1>f, <1>g, <1>i, SMTT(60)
<1>7. CASE Takes(t)
  <2>1. N1 = N /\ R1 = R /\ A1 = A - 1 /\ items' = items - 1 /\ Blocked1 = Blocked
    BY <1>7, <1>f, SizeChange, ZenonT(60)
       DEF Takes, N, N1, R, R1, A, A1, Blocked, Blocked1
  <2>2. generation' = generation /\ (Reads1 => Reads)
    BY <1>7, <1>r, ZenonT(60) DEF Takes, Reads, Reads1
  <2> QED
    BY <2>1, <2>2, <1>n, <1>f, <1>g, <1>i, SMTT(60)
<1> QED
  BY <1>1, <1>2, <1>3, <1>4, <1>5, <1>6, <1>7, ZenonT(60)

(* Every step keeps the invariant.                                          *)
LEMMA StepFutexInv == FutexInv /\ [Next]_vars => FutexInv'
<1> SUFFICES ASSUME FutexInv, [Next]_vars PROVE FutexInv'
  OBVIOUS
<1>1. CASE UNCHANGED vars
  BY <1>1, ZenonT(60)
     DEF vars, mutex, condvar, client, FutexInv, PlainInv, TypeOK, PlacesOK, MutualExclusion,
         Holding, CountsOK, ReadCovered, ItemsCovered, Active, Deciding, Notifying,
         Registering, Awake
<1>2. ASSUME NEW t \in Threads, Enter(t) \/ Step(t) \/ spurious_wake(t)
      PROVE  FutexInv'
  <2>1. PlainInv'
    BY <1>2, StepPlainInv DEF FutexInv
  <2>2. \A u \in Threads \ {t} : pc'[u] = pc[u]
    BY <1>2, SMTT(60)
       DEF FutexInv, PlainInv, TypeOK, Enter, Step, spurious_wake, lock_cas, lock_wait,
           lock_wait_return, unlock_store, unlock_wake, condvar_wait, condvar_block,
           condvar_return, notify_add, notify_wake, Produce, Consume, Pass, Goto
  <2>3. IsFiniteSet(Active')
    BY <2>1, <2>2, ActiveFinite DEF FutexInv, CountsOK
  <2> QED
    BY <1>2, <2>1, <2>3, FutexMoves, MovesKeepCounts DEF FutexInv
<1> QED
  BY <1>1, <1>2, ZenonT(60) DEF Next

(* The invariant holds in every reachable state.                            *)
LEMMA AlwaysFutexInv == Spec => []FutexInv
BY InitFutexInv, StepFutexInv, PTL DEF Spec

(* FutexMutex has one owner, whom its word reports, although FutexCondvar   *)
(* releases and takes it behind the client's back.                          *)
THEOREM FutexMutexSafety == Spec => [](TypeOK /\ MutualExclusion)
<1>1. FutexInv => TypeOK /\ MutualExclusion
  BY DEF FutexInv, PlainInv
<1> QED
  BY <1>1, AlwaysFutexInv, PTL

(* For any number of producers and consumers, notified one or all, with the *)
(* mutex held or after its release: while a consumer is blocked, every item *)
(* has a notification under way or a consumer that is awake.                *)
THEOREM ItemsAlwaysCovered == Spec => []ItemsCovered
<1>1. FutexInv => ItemsCovered
  BY DEF FutexInv
<1> QED
  BY <1>1, AlwaysFutexInv, PTL

(* A step by t leaves all others where they are with respect to the lock.   *)
LEMMA OthersKeep ==
  ASSUME FutexInv, NEW t \in Threads, Enter(t) \/ Step(t) \/ spurious_wake(t)
  PROVE  /\ \A u \in Threads : u # t => (Holding(u)' <=> Holding(u))
         /\ Asking' \ {t} = Asking \ {t}
<1>1. /\ \A u \in Threads : u # t => pc'[u] = pc[u]
      /\ \A u \in Threads : u # t => (u \in late' <=> u \in late)
  BY SMTT(60)
     DEF FutexInv, PlainInv, TypeOK, Enter, Step, spurious_wake, lock_cas, lock_wait,
         lock_wait_return, unlock_store, unlock_wake, condvar_wait, condvar_block,
         condvar_return, notify_add, notify_wake, Produce, Consume, Pass, Goto,
         mutex, condvar, client
<1> QED
  BY <1>1, ZenonT(60) DEF Holding, Asking

(* What a step by t does to its own standing: it takes the free lock, asks, *)
(* releases, or stays where it is.                                          *)
Standing(t) ==
  \/ state = 0 /\ Holding(t)' /\ t \notin Asking'
  \/ ~Holding(t) /\ ~Holding(t)' /\ t \notin Asking /\ t \in Asking'
  \/ Holding(t) /\ ~Holding(t)' /\ t \notin Asking /\ t \notin Asking'
  \/ (Holding(t)' <=> Holding(t)) /\ (t \in Asking' <=> t \in Asking)

(* Each step of a thread is one of the four.                                *)
LEMMA StepStanding ==
  ASSUME FutexInv, NEW t \in Threads, Enter(t) \/ Step(t) \/ spurious_wake(t)
  PROVE  Standing(t)
<1> USE DEF FutexInv, PlainInv, TypeOK, PlacesOK, Goto, mutex, condvar, client,
            Standing, Holding, Asking
<1>1. CASE Enter(t) \/ spurious_wake(t) \/ Pass(t)
  BY <1>1, SMTT(60) DEF Enter, spurious_wake, Pass
<1>2. CASE lock_cas(t) \/ lock_wait(t) \/ lock_wait_return(t)
  BY <1>2, SMTT(60) DEF lock_cas, lock_wait, lock_wait_return
<1>3. CASE unlock_store(t)
  BY <1>3, SMTT(60) DEF unlock_store
<1>4. CASE unlock_wake(t)
  BY <1>4, SMTT(60) DEF unlock_wake
<1>5. CASE condvar_wait(t) \/ condvar_block(t) \/ condvar_return(t)
  BY <1>5, SMTT(60) DEF condvar_wait, condvar_block, condvar_return
<1>6. CASE notify_add(t) \/ notify_wake(t)
  BY <1>6, SMTT(60) DEF notify_add, notify_wake
<1>7. CASE Produce(t) \/ Consume(t)
  BY <1>7, ClientAssumption, SMTT(60) DEF Produce, Consume
<1> QED
  BY <1>1, <1>2, <1>3, <1>4, <1>5, <1>6, <1>7, ZenonT(60) DEF Step

(* Each step is a step of the abstract lock or concerns neither its owner   *)
(* nor those that ask for it.                                               *)
LEMMA StepFutexRefines ==
  ASSUME FutexInv, FutexInv', [Next]_vars
  PROVE  [Abstract!ANext]_(Abstract!avars)
<1>o. /\ \A t \in Threads : Owner = t <=> Holding(t)
      /\ Owner = NoOwner <=> \A t \in Threads : ~Holding(t)
      /\ Owner \in Threads \cup {NoOwner}
  BY ClientAssumption, ZenonT(60) DEF FutexInv, PlainInv, MutualExclusion, Owner
<1>p. /\ \A t \in Threads : Owner' = t <=> Holding(t)'
      /\ Owner' = NoOwner <=> \A t \in Threads : ~Holding(t)'
      /\ Owner' \in Threads \cup {NoOwner}
  <2>1. MutualExclusion'
    BY DEF FutexInv, PlainInv
  <2> QED
    BY <2>1, ClientAssumption, ZenonT(60) DEF MutualExclusion, Owner
<1>s. ASSUME \A t \in Threads : Holding(t)' <=> Holding(t)
      PROVE  Owner' = Owner
  BY <1>s, <1>o, <1>p, ZenonT(60)
<1>1. CASE UNCHANGED vars
  <2>1. Asking' = Asking /\ \A t \in Threads : Holding(t)' <=> Holding(t)
    BY <1>1, ZenonT(60) DEF vars, client, Asking, Holding
  <2> QED
    BY <1>s, <2>1, ZenonT(60) DEF Abstract!avars
<1>2. ASSUME NEW t \in Threads, Enter(t) \/ Step(t) \/ spurious_wake(t)
      PROVE  \/ Abstract!Ask(t) \/ Abstract!Acquire(t)
             \/ Abstract!Release(t) \/ UNCHANGED Abstract!avars
  <2>1. /\ \A u \in Threads : u # t => (Holding(u)' <=> Holding(u))
        /\ Asking' \ {t} = Asking \ {t}
    BY <1>2, OthersKeep
  <2>a. (t \in Asking' <=> t \in Asking) => Asking' = Asking
    BY <2>1, SMTT(60)
  <2>2. CASE state = 0 /\ Holding(t)' /\ t \notin Asking'
    <3>1. \A u \in Threads : ~Holding(u)
      BY <2>2, SMTT(60) DEF FutexInv, PlainInv, MutualExclusion
    <3> QED
      BY <2>1, <2>2, <3>1, <1>o, <1>p, ZenonT(60) DEF Abstract!Acquire
  <2>3. CASE ~Holding(t) /\ ~Holding(t)' /\ t \notin Asking /\ t \in Asking'
    <3>1. \A u \in Threads : Holding(u)' <=> Holding(u)
      BY <2>1, <2>3, ZenonT(60)
    <3> QED
      BY <2>1, <2>3, <3>1, <1>o, <1>s, ZenonT(60) DEF Abstract!Ask
  <2>4. CASE Holding(t) /\ ~Holding(t)' /\ t \notin Asking /\ t \notin Asking'
    <3>1. \A u \in Threads : ~Holding(u)'
      BY <2>1, <2>4, ZenonT(60) DEF FutexInv, PlainInv, MutualExclusion
    <3> QED
      BY <2>4, <2>a, <3>1, <1>o, <1>p, ZenonT(60) DEF Abstract!Release
  <2>5. CASE (Holding(t)' <=> Holding(t)) /\ (t \in Asking' <=> t \in Asking)
    <3>1. (\A u \in Threads : Holding(u)' <=> Holding(u)) /\ Asking' = Asking
      BY <2>1, <2>a, <2>5, ZenonT(60)
    <3> QED
      BY <3>1, <1>s, ZenonT(60) DEF Abstract!avars
  <2> QED
    BY <1>2, <2>2, <2>3, <2>4, <2>5, StepStanding, ZenonT(60) DEF Standing
<1> QED
  BY <1>1, <1>2, ZenonT(60) DEF Next, Abstract!ANext

(* FutexMutex is a lock, for any number of threads: its owner changes only  *)
(* by a release and by a thread that takes it free, also where              *)
(* FutexCondvar::wait releases it and takes it again.                       *)
THEOREM FutexMutexRefinement == Spec => Abstract!ASpec
<1>1. Init => Abstract!AInit
  BY ClientAssumption, SMTT(60) DEF Init, Owner, Holding, Asking, Abstract!AInit
<1>2. FutexInv /\ FutexInv' /\ [Next]_vars => [Abstract!ANext]_(Abstract!avars)
  BY StepFutexRefines
<1> QED
  BY <1>1, <1>2, AlwaysFutexInv, PTL DEF Spec, Abstract!ASpec
=============================================================================
