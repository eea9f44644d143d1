------------------------------ MODULE FutexSync ------------------------------
(***************************************************************************)
(* FutexMutex and FutexCondvar of the Rust thread crate                    *)
(* (safe/crates/libpthread/src/sync.rs) over core_runtime::futex.          *)
(*                                                                         *)
(* FutexMutex is a two-state lock whose unlock always issues a wake-up.    *)
(* FutexCondvar is a generation counter that waiters read under the mutex. *)
(* They are exercised by the client they are made for: producers add items *)
(* under the mutex and notify, with the mutex held or after unlocking;     *)
(* consumers wait in a loop while there is no item.                        *)
(***************************************************************************)
EXTENDS Naturals, Futex

CONSTANTS
  Producers, Consumers,
  NoOwner,     \* the owner of a free mutex
  MaxItems,    \* bound on items waiting
  MaxNotify    \* bound on notifications, below the 2^32 generations

Threads == Producers \cup Consumers

ASSUME ClientAssumption ==
  /\ Producers \cap Consumers = {}
  /\ NoOwner \notin Threads
  /\ MaxItems \in Nat /\ MaxNotify \in Nat

VARIABLES
  state,       \* FutexMutex.state
  mSleepers,   \* threads blocked by the kernel on state
  generation,  \* FutexCondvar.generation
  cSleepers,   \* threads blocked by the kernel on generation
  seen,        \* the generation each waiter read
  items,       \* the client's predicate
  late,        \* producers that notify after unlocking
  pc

mutex == <<state, mSleepers>>
condvar == <<generation, cSleepers, seen>>
client == <<items, late>>
vars == <<mutex, condvar, client, pc>>

PC == { "out",     \* outside
        "cas",     \* FutexMutex::lock, before the compare-exchange
        "mwait",   \* before futex::wait on state
        "msleep",  \* in futex::wait on state
        "in",      \* holds the mutex
        "leave",   \* holds the mutex, before the store of unlock
        "wake",    \* in unlock, before futex::wake
        "vleave",  \* FutexCondvar::wait, before the store of unlock
        "vwake",   \* FutexCondvar::wait, in unlock, before futex::wake
        "vwait",   \* before futex::wait on generation
        "vsleep",  \* in futex::wait on generation
        "add",     \* in notify_one or notify_all, before fetch_add
        "one",     \* before futex::wake (generation, One)
        "all" }    \* before futex::wake (generation, All)

TypeOK ==
  /\ state \in 0..1
  /\ mSleepers \subseteq Threads /\ cSleepers \subseteq Threads
  /\ generation \in 0..MaxNotify
  /\ seen \in [Threads -> 0..MaxNotify]
  /\ items \in 0..MaxItems
  /\ late \subseteq Producers
  /\ pc \in [Threads -> PC]

Init ==
  /\ state = 0 /\ mSleepers = {}
  /\ generation = 0 /\ cSleepers = {}
  /\ seen = [t \in Threads |-> 0]
  /\ items = 0 /\ late = {}
  /\ pc = [t \in Threads |-> "out"]

Goto(t, l) == pc' = [pc EXCEPT ![t] = l]
-----------------------------------------------------------------------------
(* FutexMutex::lock                                                         *)
lock_cas(t) ==
  /\ pc[t] = "cas"
  /\ state' = 1
  /\ Goto(t, IF state = 0 THEN "in" ELSE "mwait")
  /\ UNCHANGED <<mSleepers, condvar, client>>

lock_wait(t) ==
  /\ pc[t] = "mwait"
  /\ mSleepers' = FutexWaitQueue(mSleepers, t, state, 1)
  /\ Goto(t, IF state = 1 THEN "msleep" ELSE "cas")
  /\ UNCHANGED <<state, condvar, client>>

lock_wait_return(t) ==
  /\ pc[t] = "msleep"
  /\ t \notin mSleepers
  /\ Goto(t, "cas")
  /\ UNCHANGED <<mutex, condvar, client>>

(* FutexMutex::unlock, called by the client or by FutexCondvar::wait.       *)
unlock_store(t) ==
  /\ pc[t] \in {"leave", "vleave"}
  /\ state' = 0
  /\ Goto(t, IF pc[t] = "leave" THEN "wake" ELSE "vwake")
  /\ UNCHANGED <<mSleepers, condvar, client>>

(* Mutant: the unlock of FutexCondvar::wait wakes nobody.                   *)
unlock_wake_not_in_wait(t) ==
  /\ pc[t] \in {"wake", "vwake"}
  /\ IF pc[t] = "wake" THEN mSleepers' \in FutexWakeOne(mSleepers)
                       ELSE UNCHANGED mSleepers
  /\ Goto(t, IF pc[t] = "vwake" THEN "vwait" ELSE
             IF t \in late THEN "add" ELSE "out")
  /\ UNCHANGED <<state, condvar, client>>

unlock_wake(t) ==
  /\ pc[t] \in {"wake", "vwake"}
  /\ mSleepers' \in FutexWakeOne(mSleepers)
  /\ Goto(t, IF pc[t] = "vwake" THEN "vwait" ELSE
             IF t \in late THEN "add" ELSE "out")
  /\ UNCHANGED <<state, condvar, client>>

(* FutexCondvar::wait, the load of the generation.                          *)
condvar_wait(t) ==
  /\ pc[t] = "in"
  /\ t \in Consumers
  /\ items = 0
  /\ seen' = [seen EXCEPT ![t] = generation]
  /\ Goto(t, "vleave")
  /\ UNCHANGED <<mutex, generation, cSleepers, client>>

(* Mutant: reads the generation after releasing the mutex.                  *)
condvar_block_late_read(t) ==
  /\ pc[t] = "vwait"
  /\ cSleepers' = cSleepers \cup {t}
  /\ seen' = [seen EXCEPT ![t] = generation]
  /\ Goto(t, "vsleep")
  /\ UNCHANGED <<mutex, generation, client>>

condvar_block(t) ==
  /\ pc[t] = "vwait"
  /\ cSleepers' = FutexWaitQueue(cSleepers, t, generation, seen[t])
  /\ Goto(t, IF generation = seen[t] THEN "vsleep" ELSE "cas")
  /\ UNCHANGED <<mutex, generation, seen, client>>

condvar_return(t) ==
  /\ pc[t] = "vsleep"
  /\ t \notin cSleepers
  /\ Goto(t, "cas")
  /\ UNCHANGED <<mutex, condvar, client>>

(* notify_one and notify_all, the fetch_add.                                *)
notify_add(t) ==
  /\ pc[t] = "add"
  /\ generation' = generation + 1
  /\ Goto(t, "one") \/ Goto(t, "all")
  /\ UNCHANGED <<mutex, cSleepers, seen, client>>

notify_wake(t) ==
  /\ \/ pc[t] = "one" /\ cSleepers' \in FutexWakeOne(cSleepers)
     \/ pc[t] = "all" /\ cSleepers' = FutexWakeAll(cSleepers)
  /\ Goto(t, IF t \in late THEN "out" ELSE "leave")
  /\ late' = late \ {t}
  /\ UNCHANGED <<mutex, generation, seen, items>>

(* futex::wait returns on its own; its result is ignored everywhere.        *)
spurious_wake(t) ==
  /\ t \in mSleepers \cup cSleepers
  /\ mSleepers' = mSleepers \ {t}
  /\ cSleepers' = cSleepers \ {t}
  /\ UNCHANGED <<state, generation, seen, client, pc>>
-----------------------------------------------------------------------------
(* The client.                                                              *)
Enter(t) ==
  /\ pc[t] = "out"
  /\ Goto(t, "cas")
  /\ UNCHANGED <<mutex, condvar, client>>

Notifying ==
  late \cup { t \in Threads : pc[t] \in {"add", "one", "all"} }

Produce(t) ==
  /\ pc[t] = "in"
  /\ t \in Producers
  /\ items < MaxItems
  /\ generation + Cardinality({ u \in Notifying : pc[u] \notin {"one", "all"} })
       < MaxNotify
  /\ items' = items + 1
  /\ \/ Goto(t, "add") /\ UNCHANGED late
     \/ Goto(t, "leave") /\ late' = late \cup {t}
  /\ UNCHANGED <<mutex, condvar>>

Consume(t) ==
  /\ pc[t] = "in"
  /\ t \in Consumers
  /\ items > 0
  /\ items' = items - 1
  /\ Goto(t, "leave")
  /\ UNCHANGED <<mutex, condvar, late>>

(* A producer with nothing to add.                                          *)
Pass(t) ==
  /\ pc[t] = "in"
  /\ t \in Producers
  /\ Goto(t, "leave")
  /\ UNCHANGED <<mutex, condvar, client>>

Step(t) ==
  \/ lock_cas(t) \/ lock_wait(t) \/ lock_wait_return(t)
  \/ unlock_store(t) \/ unlock_wake(t)
  \/ condvar_wait(t) \/ condvar_block(t) \/ condvar_return(t)
  \/ notify_add(t) \/ notify_wake(t)
  \/ Produce(t) \/ Consume(t) \/ Pass(t)

Next == \E t \in Threads : Enter(t) \/ Step(t) \/ spurious_wake(t)

Spec == Init /\ [][Next]_vars

Fairness == \A t \in Threads : WF_vars(Step(t))

FairSpec == Spec /\ Fairness
-----------------------------------------------------------------------------
(* Who holds the mutex, and who asks for it.                                *)
Holding(t) == pc[t] \in {"in", "leave", "vleave"}
                \/ (pc[t] \in {"add", "one", "all"} /\ t \notin late)

Owner ==
  IF \E t \in Threads : Holding(t)
    THEN CHOOSE t \in Threads : Holding(t) ELSE NoOwner

Asking == { t \in Threads : pc[t] \in {"cas", "mwait", "msleep"} }

Abstract == INSTANCE AbstractLock WITH owner <- Owner, asking <- Asking

(* FutexMutex, with FutexCondvar releasing and taking it behind the         *)
(* client's back, is a lock: one owner, and never left free for ever while  *)
(* a thread asks for it, although the two-state word does not record        *)
(* waiters.                                                                 *)
ImplementsLock == Abstract!ALiveSpec

(* At most one thread is between the return of lock and the store of        *)
(* unlock, and the word says so.                                            *)
MutualExclusion ==
  /\ \A t, u \in Threads : Holding(t) /\ Holding(u) => t = u
  /\ state = 1 <=> \E t \in Threads : Holding(t)

(* Consumers that are past the kernel and will test the predicate.          *)
Awake ==
  { t \in Consumers : \/ pc[t] \in {"cas", "mwait", "msleep", "in"}
                      \/ pc[t] = "vsleep" /\ t \notin cSleepers
                      \/ pc[t] \in {"vleave", "vwake", "vwait"}
                           /\ seen[t] # generation }

(* No notification is lost between the release of the mutex and the futex   *)
(* call in FutexCondvar::wait: while a consumer is blocked, every item is   *)
(* matched by a notification under way or by a consumer that is awake.      *)
ItemsCovered ==
  cSleepers # {} => items <= Cardinality(Notifying) + Cardinality(Awake)
=============================================================================
