# Verification of the synchronisation core of port-libc6

The repository holds the GNU C library as packaged (`src/original/`) and a port
in progress to Rust (`src/safe/`). What is hard to test in it is its blocking
synchronisation: a handful of atomic words and futex calls on which every
threaded program depends. This project models that part in TLA+, model-checks
the modules with TLC, and proves the central properties with TLAPS for any
number of threads.

## 1. The system

| Part | Where | State | What makes it hard | Module |
|---|---|---|---|---|
| futex operations | `sysdeps/nptl/futex-internal.{h,c}`, `core-runtime/src/futex.rs` | kernel wait queue per word | compare-and-block, spurious returns, timeouts | `Futex` |
| low-level lock | `sysdeps/nptl/lowlevellock.h`, `nptl/lowlevellock.c` | one word: 0, 1, 2 | acquiring with 1 while others sleep; timed lockers that give up | `LowLevelLock` |
| semaphores, 64-bit atomics | `nptl/sem_*.c` | value and waiter count in one word | waiters that leave early; cancellation | `Semaphore` |
| semaphores, 32-bit atomics | same, `!__HAVE_64B_ATOMICS` | value with a waiters bit, waiter count | speculative clearing of the bit | `Semaphore32` |
| `pthread_once` | `nptl/pthread_once.c`, `sysdeps/nptl/fork.h` | control word, fork generation | cancelled initialisers, fork | `Once` |
| barriers | `nptl/pthread_barrier_{wait,init,destroy}.c` | `in`, `current_round`, `out` | overlapping rounds, reset, destruction under late leavers | `Barrier` |
| Rust mutex and condition variable | `libpthread/src/sync.rs` | `state`; `generation` | notification between unlock and block | `FutexSync` |
| condition variables | `nptl/pthread_cond_*.c` | two groups, signals, references | signal stealing, group switch, cancellation, destroy | `Condvar` |
| their internal lock | `nptl/pthread_cond_common.c` | two bits of `__g1_orig_size` | a size that changes in the same word | `CondvarLock` |
| mutexes | `nptl/pthread_mutex_*.c` | owner, count, users beside the lock word | fields read without the lock; condition waits | `PlainMutex`, `Mutex` |
| robust mutexes | same, `__pthread_mutex_*_full` | word with thread ID and flags, robust list | an owner that dies at any step | `RobustMutex`, `Mutex` |
| reader-writer locks | `nptl/pthread_rwlock_common.c` | readers word, two futex words, registered writers | hand-over racing with timeouts | `RWLock` |
| thread life cycle | `nptl/pthread_create.c`, `allocatestack.c`, `nptl_free_tcb.c`, `pthread_join_common.c`, `pthread_detach.c` | `joinid`, `tid`, stack lists | exit, join and detach racing; reuse of control blocks | `Threads` |
| cancellation | `nptl/pthread_cancel.c`, `cancellation.c` | `cancelhandling` | asynchronous delivery | `Threads` |
| setxid broadcast | `nptl/nptl_setxid.c` | a flag and a futex per thread | threads that start or exit meanwhile | `Threads` |
| thread-specific data | `nptl/pthread_key_*.c`, `nptl_deallocate_tsd.c` | sequence numbers | stale values, destructor rounds | not modelled |

`PROJECT.json` lists the remaining parts (allocator, loader, stdio, resolver,
locale, tools, packaging, ...) with the reason why each is left out: they are
sequential, dominated by data formats, or pure I/O; where they lock, they use
low-level locks.

Interactions: everything blocks through the futex operations. Mutexes are
low-level locks with an owner and a count, and the model of the plain kinds extends that of the lock;
robust mutexes have a word of their own. A condition variable releases and
retakes the client's mutex, and its signalers hold an internal lock that waiters
need only when they give up. Cancellation reaches a semaphore or
condition-variable waiter through the cancellable futex call; fork reaches `pthread_once` through
the generation counter; in the Rust crate the condition variable releases and
retakes the mutex. Creation, exit, cancellation and set*id meet in the control block of a thread
and in the lock of the stack lists.

## 2. How the modules are written

* `pc[t]` is where thread `t` is. One action is one atomic access to shared
  memory or one system call, with the local computation that follows it.
  Compare-exchange loops whose failed iterations change nothing are one
  action; where a failed weak exchange leads elsewhere, that is modelled.
* A set such as `sleepers` holds the threads the kernel has blocked on a word.
  `Futex` gives the effect of `futex_wait` and `futex_wake` on it. A thread
  that a wake has removed is still at its `sleep` label until it returns, so
  timeouts, signals and cancellation can come in between.
* `Call(t)` is what a client may start, `Step(t)` what a thread inside a
  function does next, `Environment(t)` (or `spurious_wake`) what the kernel or
  another thread does to it.
* Memory is sequentially consistent. The code's acquire, release and relaxed
  orders are not distinguished; nothing here says that they are strong enough.
* Operators whose comment starts with "Mutant" are wrong variants of the
  definition that follows them. They document which mistake a property
  catches and take part in no specification.

Abstract specifications, with the refinement mapping in the detailed module:
`AbstractLock` (one owner; not left free while wanted) for `LowLevelLock`,
`CondvarLock` and `FutexSync`; `AbstractSemaphore` (tokens are conserved; not left unused beside
a waiter) for both semaphores; `AbstractRWLock` (a writer is alone; a lock that stays available
is taken by somebody who waits) for `RWLock`; `AbstractBarrier` (rounds of `Count`, one
serial thread each, the released leave) for `Barrier`.

## 3. Modules and runs

Bounds are those of the `.cfg` files. Deadlock is checked except in four
places where the system may really stop: in the `Once` and `Condvar` runs all threads end, and
`NoLostSignal` says which final states of the latter are right; in the `Mutex` run all threads may
die; in the `Threads` run the client
may run out of calls, or a set*id function wait for an unborn thread.

### Low-level lock and mutexes

`LowLevelLock`: `futex` is the word, `timed` the threads in the loop of `__futex_clocklock64`.
Lock, trylock, the `cond` variants, timed lock and unlock are actions; unlock
is the exchange followed by the separate `futex_wake`.

`PlainMutex` adds `__owner`, `__count` and `__nusers`. A thread that has the word is at stage
`enter`, `own` or `leave`, because it writes those fields after getting the word and before
releasing it. `inwait` are the threads in `pthread_cond_wait`, which keep their place in
`__nusers`.

`RobustMutex` has the word as a thread ID and the flags for waiters and a dead owner. `me[t]` has
the locals of the function, whether the mutex is on the thread's robust list and whether it is in
`list_op_pending`. A thread may die between any two steps; `thread_dies` is what the kernel does
then (external). `torn` says that a thread died in its critical section and nobody has repaired the
data since. `Mutex` dispatches on the kind, as the code does.

* `mutex` (3 threads, seven kinds, `MaxCount` 2): mutual exclusion and no lost wake-up; `__owner` is
  truthful whenever it is read without the lock; `__nusers` is exact across condition waits; the
  word of a robust mutex never keeps the ID of a dead thread; torn data are never presented as
  consistent; the plain kinds implement the abstract lock with progress; and waiters do not stay
  blocked on a robust mutex that can be had. Three threads give a newcomer that takes
  the lock with 1 (the last owner again), a woken waiter and one still asleep; for robust mutexes an
  heir, an heir of that heir and a waiter.

The header says of state 1 that nobody is blocked. Read literally that does not hold
after a newcomer has overtaken a woken waiter; what holds, and is checked and proved, is
`NoLostWakeup`: then a woken waiter is on its way to restore 2.

What the properties of robust mutexes concede, each met while modelling:

* `pthread_mutex_trylock.c`, line 180: trylock of an unrecoverable mutex releases the word only if
  the old value was the caller's ID, which it is not, so the word stays locked (`DeathNoticed`).
* `pthread_mutex_lock.c`, line 347: lock releases the word of an unrecoverable mutex with
  `lll_unlock`, which compares it with 1 as a signed number, so that it wakes a waiter only if
  `FUTEX_WAITERS` is not set. Blocked threads may stay blocked (`RobustAnswered`).
* A thread that dies after releasing the word and before waking a waiter, or after having been
  woken, takes that wake-up with it if `list_op_pending` does not lead the kernel to a free word
  (`RobustAnswered`).

### Reader-writer locks

`lk` has the fields of the lock, with `__readers`, the two futex words and `__writers` split into
count and bits. Every atomic access is an action, in all four functions and the two trylocks. The
client obeys POSIX: it unlocks what it has, and reads recursively only where the kind allows it.

* `rwlock` (3 threads, two of which read and all of which write, one with timeouts; three policies;
  recursion depth 2; overflow at 4 readers): the abstract lock is implemented; `WRLOCKED` has one
  owner or is on its way to a registered writer, although that one may be timing out; a recursive
  reader is never blocked behind a preferred writer; somebody gets a lock that stays
  available. Two readers of depth 2 reach the overflow. Three threads give the owner, a writer that
  hands over and one that takes over.
* `rwlock_handover` (violated): a wake-up is lost. The last reader has set `WRPHASE` (line 254) and is about to
  store 1 in `__wrphase_futex` (line 270) when the primary writer times out and passes `WRLOCKED` to a
  registered writer (lines 852 to 867). That one finds `WRPHASE`, has the lock at once, releases it
  and starts a read phase with 0 in the futex word. Only then does the reader store its 1, and a
  reader that waits for the read phase sleeps on it. Comments in the file (lines 104, 128, 186) say
  that the word tracks the phase, that nobody stops waiting once hand-over has started, and
  that no wake-up is lost. Progress in `rwlock` is therefore claimed for executions in which hand-overs
  complete in order (`HandoversInOrder`).

### Threads

A thread is its control block. `tid`, `detached` (`joinid`), `bits` (`cancelhandling`), `sxf`
(`setxid_futex`) and `startup` are its fields; `inuse` and `cache` the stack lists; `sig`, `cred` and
`sleepers` belong to the kernel. Critical sections of `pd->lock`, the exit lock and, outside
set*id, the lock of the stack lists are single steps. The client joins or detaches a thread at most
once and uses an ID only while it is valid.

* `threads` (main and two control blocks, three creations, one set*id call, one cancellable thread):
  after a set*id call every thread that is not exiting has the new ID, also one created meanwhile; a
  control block that can still be joined has not been freed; `__nptl_nthreads` is exact; every
  operation but a join ends; a cancellation in progress is delivered. Two blocks and
  three creations make a block be reused while others still work on threads.

What these properties concede, each met while modelling:

* `pthread_detach.c`, line 48: detach looks at a control block after marking it detached, when its
  thread may have freed it and another be using it (`stale`).
* `pthread_create.c`, line 861: the wait for a thread whose setup failed is a cancellation point;
  cancelled there, nobody frees the block or takes back the count (`Orphans`).
* `nptl_setxid.c`, line 105: the broadcast waits for a new thread to start; if its creation fails it
  waits for ever, with the lock of the stack lists (`WaitsForUnborn`).

The compare-exchange of `joinid` in `pthread_join_common.c`, line 74, expects the caller and would
store NULL, so a join registers nowhere; two joins of one thread are the client's error and not
in the model.

### Semaphores

`Semaphore` has `value` and `nwaiters`, always accessed together. `Semaphore32`
has the value word as `tokens` and `bit`, and `nwaiters` apart. The initial
value is any value up to `SEM_VALUE_MAX`. Cancellation may act from just before
the system call until after its return, also on a thread already woken.

* `sem`, `sem32` (4 threads, `SEM_VALUE_MAX` = 2, two and one of them cancellable): the
  waiter count is exact; each token beside a blocked thread is spoken for, but for one
  per cancelled waiter; a wrongly cleared bit is noticed and repaired; the abstract
  semaphore is implemented, with progress as long as nobody is cancelled. A limit of 2
  reaches both overflow and several wake-ups owed at once; four threads reach two wrong
  guesses beside a blocked waiter.

A known limit: a waiter cancelled after `sem_post` woke it takes the wake-up with it, and another
waiter stays blocked beside a token. The cleanup handler does not pass the wake-up on.
`SleepUntilToken`, which no run checks, states the stronger claim; as an invariant of `MCSemaphore` TLC
refutes it. For this reason no progress is claimed once a waiter has been cancelled.

After `EOVERFLOW` from the futex call the 64-bit path gives up (`sem_waitcommon.c`,
line 193) and the 32-bit path does not (line 285); it would retry, which in the
model is the same as a spurious wake-up.

### pthread_once

`control` is the word, as a tag and a generation. The model follows one process;
`fork` continues in the child with one thread left, and the others stand for
threads the child creates.

* `once` (3 threads, 2 forks, 2 cancelled initialisations): one initialiser per
  process, the word is truthful about it, nobody returns early,
  and every call returns. Two forks leave a
  generation that is stale by two; two cancellations make a successor fail too.

A known limit: if `init_routine` itself forks, the child reclaims an initialisation its own surviving
thread is still running. The run leaves this out; with `ForkInInit` = TRUE TLC refutes
`OneInitializer`.

### Barrier

`in`, `current_round`, `out` are the words, `i` and `cr` the locals. The client
obeys POSIX: it destroys a barrier only when nobody is blocked in an unfinished
round, and enters no more. `BARRIER_IN_THRESHOLD` is 5 with `Count` 2, so that
`max_in_before_reset` is 4: two rounds, then a reset, with a remainder as in the
code.

* `barrier` (3 threads): rounds, serial threads, exclusive reset, and a destroy that waits for everybody and
  returns. The client of this run does not destroy when exactly
  `max_in_before_reset` threads have entered since the last reset.

A known limit is that case: destroy finds `out` equal to
`in`, takes everybody to have left, and returns while the last thread still has
the three stores of the ordinary reset to do. With the real threshold of
`UINT_MAX/2` it needs about 2^31 entries. With `DestroyAtThreshold` = TRUE TLC refutes
`DestroyWaitsForAll`.

### Condition variables

`wseq` and `g2` are the two parts of `__wseq`, `g1_start` the pair in `__g1_start`;
`g_refs`, `g_signals` and `g_size` are per slot, with the signals counted in twos
beside the closed flag as in the code. Each access that is not protected by the
internal lock is an action. The lock is taken with the first access under it and
released with the last: what its owner does in between to `g_size` and `orig_size`
is seen by nobody else, while its stores to `g_signals`, `g_refs`, `g1_start` and
`wseq` stay separate. `CondvarLock` justifies taking it for a lock. The spin loops
have zero iterations (`maxspin` is 0). Locals that are not read again are reset.

Consumers wait in a loop for an item; producers add an item and signal or broadcast,
holding the mutex or not; a producer may close: broadcast, then destroy. A consumer
that times out or is cancelled leaves. The mutex is the client's owner variable,
and the client always owns it when it waits, so the early return after a failed
unlock (`pthread_cond_wait.c`, lines 420 to 425) does not occur.

`NoLostSignal` is about states in which no thread can go on by itself: then nobody
holds the internal lock or waits in quiesce or destroy, and waiters are blocked only
if there is no item. A lost signal, a deadlock between a signaler and a waiter that
gives up, and a destroy that is never woken all end in such a state, so it needs no
fairness. Consumers are interchangeable and no liveness is checked, so they are a
symmetry set.

* `condvar` (1 producer that signals holding the mutex, 3 consumers, 5 waits, 4 items):
  five waits and four signals are enough for a slow waiter to take a signal from a later
  group in its slot and hand it back to a group it was not taken from. Without the broadcast that the
  code adds there (line 599) the signal is lost; the mutant of `undo_wake` shows the
  behaviour. A slot changes its role only when nobody of the old group is blocked on it.
* `condvar_faults` (1 producer that signals or broadcasts after releasing it, 2 consumers,
  3 waits, 2 items, 3 faults of any kind, groups of at most 2, destroy at the end): timeouts, cancellation before and after the wake-up,
  spurious returns, and cancellations that reach the group limit, which takes three.
  Sizes stay exact, so that the unsigned arithmetic on negative sizes does not wrap, and
  destroy returns, but only after the last access of every waiter.
* `condvar_lock` (3 threads, 2 sizes): mutual exclusion, the size is not disturbed,
  and the abstract lock is implemented with progress although a change of size can
  overwrite a wake request and makes waiters' expected values stale.

### Rust mutex and condition variable

The types have no user in the repository besides a unit test, so they run under the
client they are made for: producers that notify with or without the mutex held
and consumers that wait in a loop.

* `futex_sync` (2 producers, 2 consumers, 2 items, 3 notifications): mutual
  exclusion, no lost notification, and the mutex is not left free while wanted.

### Fairness

`FairSpec` has weak fairness on `Step(t)` for each thread: a thread inside a
function keeps being scheduled, and an owner releases the lock (for `Once`: calls
`pthread_once`, and `init_routine` returns or is cancelled). Calls, timeouts,
signals, spurious wake-ups, cancellation, deaths and forks are never forced. `Threads` adds weak
fairness on the delivery of pending signals that are not blocked, of which there are finitely
many. For reader-writer locks `Step(t)` includes the release of a lock that the client has, for
mutexes the unlock of the plain kinds and of robust ones. No order among
blocked threads is assumed. The progress properties therefore promise that the
object gets on, not that a given locker or waiter is served: all locks allow barging.

## 4. Proofs

All for any set of threads (finite where something is counted).

* `MutexProofs`, on the low-level lock: `LockSafety` (type, mutual exclusion, no lost wake-up) and
  `LockRefinement` (every step is a step of the abstract lock or leaves it alone).
  The inductive invariant adds that blocked threads are at `sleep` and timed ones in
  the loop: without the first, a step of a thread elsewhere could leave a stale
  member in the queue.
* `MutexProofs`, on a mutex of any kind: `MutexIsLock` (every execution is one of the low-level lock), and
  with it `MutexSafety` and `MutexRefinement` from the theorems about the lock; `OwnerAlwaysTruthful`, from an
  invariant (`FieldsOK`) that ties the stage of each thread to its place in the lock; `UsersAlwaysCounted` for
  finitely many threads, with one step per change of the set that is counted; `RobustExclusion`, `TornAlwaysKnown`
  and `DeathAlwaysNoticed`, with deaths at any step. For the robust kinds
  the inductive invariant is `RTypeOK /\ WordOK /\ OwnerOK`. `WordOK` says who the word can name: a thread that is on
  its way to or from its list has `list_op_pending` set, which is what makes the kernel find the
  mutex. `OwnerOK` says where the knowledge of torn data is: in the word, in `__owner`, or with
  the thread that is about to record it. `AnyInv` puts the two sorts together: the code for one leaves the
  state of the other alone.
* `SemaphoreProofs`: `WaitersAlwaysCounted` with any cancellations;
  `TokensAlwaysCovered`, with one token conceded per cancelled waiter, which is needed (section 3); `SemaphoreRefinement`. The counting steps rest on one lemma
  about the size of a set with an element added or removed.
* `OnceProofs`: `OnceSafety` and `DoneForEver`, on the assumption that `init_routine`
  does not fork, with `ControlAlwaysTruthful` and `AlwaysInitializedBeforeReturn` as consequences. The inductive invariant adds that no generation in the word is in
  the future, that a thread still to wake the others after success has left DONE
  behind, and that blocked threads are at `sleep`.
* `CondvarLockProofs`: `CondvarLockSafety` (type, mutual exclusion, the size is the one
  set last). The inductive invariant adds what the owner's locals are while it changes
  the size: the lock bits it has read are nonzero, and a repairing store repeats the
  size just written.
* `CondvarProofs`: `NeverStaleSleeper`, `SizesAlwaysSound` and `DestroyAlwaysWaits`, for any producers and consumers, kinds of
  signal, bounds and faults (time-outs, cancellations, spurious wake-ups). The inductive invariant `IInv` has three layers.
  `ControlOK` and `WrefsOK`: where a thread of each sort can be at each stage of the client, and that `__wrefs` counts the
  threads in `pthread_cond_wait`, which gives destroy. `SleepOK` and `RefsOK`: blocked threads are at `sleep`, and the
  reference count of a slot is the number of threads that may use its futex word. `LockOK`, `PositionOK`, `ClosedOK` and
  `SizeOK`: the holder of the internal lock works on the current G1; where the positions of waiters lie relative to `End`,
  the first position after G1; a group being quiesced is closed, and once its references are gone nobody is past the
  test of the flag in its slot; the size of G2 is at least the number of waiters in it. In the middle of a switch
  `__g1_start` has moved and the size of G1 has not, so that `End` depends on where the holder is. Each step is
  classified by what it does to the groups (`Quiet`, `Shrink`, `Take`, `Hold`, `Drop`, a new waiter, the two moves of a switch), with
  one lemma per class. The counted sets are finite by the invariant itself: no set of threads is assumed to be.
* `RWLockProofs`: `PrimaryAlwaysOne` (`OnePrimary`) and `RWLockIsRWLock` (`ImplementsRWLock`, whose property has no
  progress part), for any set of threads, kinds and recursion depth. The inductive invariant is
  `TypeOK /\ PrimaryOK /\ PhaseOK /\ CountOK`. `PrimaryOK` is `OnePrimary` and that the owner is in
  no function. `PhaseOK` says that what a thread has learnt of the phase (the snapshot of `__readers`,
  `ready`, a read lock) is still true. `CountOK` says that `__readers` counts the read locks and the registered
  readers, through a set of tokens whose cardinality it is. They need each other: the last reader may
  start a write phase because the count is exact, a phase may end because there is no other primary
  writer. Each step is classified three times, by what it does to `WRLOCKED`, to the phase and to the count,
  and one lemma per classification shows that the rest of the invariant survives. `RecursionNeverWaits`
  (`RecursionNeverBlocks`) follows from `PhaseOK`: a thread that has a read lock is in a read phase, so that
  none of the branches that wait is open to it.
* `Semaphore32Proofs`: `WaitersAlwaysCounted`, `MistakeAlwaysNoticed` and `Semaphore32Refinement`. The inductive
  invariant adds that blocked threads are at `sleep`. The bit may be cleared by a waiter that is leaving while
  others sleep; that this waiter is then at `decr1` or `rebit` follows from the exact count, which tells it that it was not alone.
* `BarrierProofs`: `ResetAlwaysAlone`, `DestroyAlwaysWaits` and `BarrierRefinement`, for any count and any
  threshold, for clients that do not destroy a barrier with its reset under way (`~DestroyAtThreshold`; section 3 has
  what happens otherwise). `SafeInv` says that `out` and the threads inside make up the positions taken up to the
  threshold, or the threshold itself once destroy has added the missing ones: so the thread that brings `out` to the
  threshold is the last one. `RoundOK` says that nobody knows of a round that is not complete, and that the current round has as many threads
  as `in` modulo the count. The arithmetic of rounds is in lemmas about `%` (`NextRemainder`, `RoundEndFacts`, `RoundEndGrows`).

Assumptions on constants are `NoOwnerAssumption`, `ThreadsAssumption`, `MutexAssumption`, `ThreadIDAssumption` (no
thread has one of the two special values of `__owner` as its ID), `CountAssumption`,
`ClientAssumption`, `RWLockAssumption` and `BoundsAssumption`, in the modules that declare them.

Only model-checked: all liveness, the progress parts of the refinements, `RobustAnswered`,
`NoLostSignal` of the condition variable, `FutexSync` and `Threads`. `NoLostSignal` speaks of states in which nothing can go on, and
would need an invariant about signals taken by waiters of other groups and not yet returned. Liveness under fairness and
ENABLED are out of the prover's reach; the others are in the plan.

## 5. Plan

1. Proofs: the Rust mutex and condition variable; the life of threads; `NoLostSignal`.
2. Condition variables: the 32-bit emulation of the sequence counters, the failed
   unlock, two signalers that compete for the internal lock in a larger instance.
3. Thread-specific data; a main thread that exits before the others.

## 6. Not modelled

Weak memory; priority-inheritance and priority-protect mutexes, lock elision and
process-shared variants (of reader-writer locks, barriers and the rest) beyond what they share with the private ones; wrap-around
of the fork generation (2^30, which `pthread_once.c`, line 57, mentions) and of the Rust condition
variable's generation (2^32); the sequence counters of condition variables on machines without
64-bit atomics; a panic inside `with_lock`; the size limit of the stack cache, which makes a block be unmapped instead
of reused; set*id calls that fail in some threads; cleanup handlers and unwinding as such.

The rest of the library is by far the larger part of the repository: string, mathematics, locale,
stdio, resolver, loader and allocator code, headers for each architecture and the tests. Most
of it is sequential; where it locks (the arenas of the allocator, the loader, streams) it uses
low-level locks, but its own protocols on top of them are not modelled. The modules therefore cover a
small share of the repository's lines: the functions named in section 1.

`PROJECT.json` names the hazards and what the properties concede.
