------------------------------- MODULE RWLock -------------------------------
(***************************************************************************)
(* POSIX reader-writer locks.                                              *)
(*                                                                         *)
(*   nptl/pthread_rwlock_common.c  rdunlock, rdlock_full64, wrunlock,      *)
(*                                 wrlock_full64                           *)
(*   nptl/pthread_rwlock_tryrdlock.c, _trywrlock.c, _unlock.c, _init.c     *)
(*                                                                         *)
(* Each atomic access to a field of the lock and each futex call is one    *)
(* action; a compare-and-swap loop is the action of its successful round.  *)
(* A thread at "idle" is in none of the functions, with or without the     *)
(* lock.  __cur_writer is only ever compared with the caller's own thread  *)
(* ID, so its stores are part of the neighbouring action.                  *)
(***************************************************************************)
EXTENDS Naturals, Sequences, Futex

CONSTANTS
  Threads,        \* the threads that share the lock
  Readers,        \* the threads among them that take read locks
  Writers,        \* the threads among them that take the write lock
  Timed,          \* the threads among them that use the timed functions
  Nobody,         \* __cur_writer of a lock that no writer has
  Kinds,          \* the values of __flags under test
  MaxDepth,       \* bound: read locks a thread takes before releasing one
  ReaderOverflow  \* PTHREAD_RWLOCK_READER_OVERFLOW, in readers

ASSUME RWLockAssumption ==
  /\ Nobody \notin Threads
  /\ Readers \cup Writers \cup Timed \subseteq Threads
  /\ Kinds \subseteq {"prefer_reader", "prefer_writer", "nonrecursive"}
  /\ ReaderOverflow > Cardinality(Threads)

VARIABLES
  kind,   \* __flags, set by pthread_rwlock_init
  lk,     \* the fields of the lock that change
  queue,  \* threads blocked by the kernel on each of the three futex words
  pc,     \* where each thread is
  me,     \* the local variables of each thread
  held    \* read locks each thread has

vars == <<kind, lk, queue, pc, me, held>>

(* pthread_rwlock_init.  r, wp, wl and rw are the parts of __readers: the   *)
(* count and the WRPHASE, WRLOCKED and RWAITING bits.  wpf, wpfu and wf,    *)
(* wfu are __wrphase_futex and __writers_futex: the value and the           *)
(* FUTEX_USED bit.  w and h are the count and the WRHANDOVER bit of         *)
(* __writers.                                                              *)
Unlocked ==
  [ r |-> 0, wp |-> FALSE, wl |-> FALSE, rw |-> FALSE,
    wpf |-> 0, wpfu |-> FALSE, wf |-> 0, wfu |-> FALSE,
    w |-> 0, h |-> FALSE, cur |-> Nobody ]

(* seen: the WRPHASE bit of the snapshot r of __readers; ready: its name in *)
(* the code; share: may_share_futex_used_flag; wake: the FUTEX_USED bit of  *)
(* the __writers_futex this thread exchanged with 0; owed: the futex_wake   *)
(* calls it is about to make.                                              *)
NoLocals ==
  [ seen |-> FALSE, ready |-> FALSE, share |-> FALSE, wake |-> FALSE,
    owed |-> <<>> ]

Init ==
  /\ kind \in Kinds
  /\ lk = Unlocked
  /\ queue = [readers |-> {}, phase |-> {}, writers |-> {}]
  /\ pc = [t \in Threads |-> "idle"]
  /\ me = [t \in Threads |-> NoLocals]
  /\ held = [t \in Threads |-> 0]

PreferWriter == kind # "prefer_reader"

Goto(t, l) == pc' = [pc EXCEPT ![t] = l]

(* Return to the caller, after the futex_wake calls that are owed.          *)
Return(t, owed) ==
  /\ Goto(t, IF owed = <<>> THEN "idle" ELSE "wake")
  /\ me' = [me EXCEPT ![t] = [NoLocals EXCEPT !.owed = owed]]

(* futex_wake (futex, n) if the FUTEX_USED bit was set.                     *)
WakeIf(used, futex) == IF used THEN <<futex>> ELSE <<>>

(* Return 0 from rdlock or tryrdlock.                                       *)
ReadLocked(t, owed) ==
  /\ Return(t, owed)
  /\ held' = [held EXCEPT ![t] = @ + 1]

(* Return 0 from wrlock or trywrlock, having stored __cur_writer.           *)
WriteLocked(t, fields) ==
  /\ lk' = [fields EXCEPT !.cur = t]
  /\ Return(t, <<>>)
  /\ UNCHANGED held

(* futex_wake: of all threads, or of one in the case of __writers_futex.    *)
futex_wake(t) ==
  /\ pc[t] = "wake"
  /\ LET f == Head(me[t].owed) IN
       \E rest \in IF f = "writers" THEN FutexWakeOne(queue[f])
                                    ELSE {FutexWakeAll(queue[f])} :
         queue' = [queue EXCEPT ![f] = rest]
  /\ Return(t, Tail(me[t].owed))
  /\ UNCHANGED <<kind, lk, held>>
-----------------------------------------------------------------------------
(* __futex_abstimed_wait64: the word waited on, where the caller goes when  *)
(* it returns 0, EAGAIN or EINTR, and where when it returns ETIMEDOUT.      *)
Wait ==
  [ rw_sleep |-> [on |-> "readers", retry |-> "rw_wait", late |-> "idle"],
    rd_sleep |-> [on |-> "phase",   retry |-> "rd_wait", late |-> "rd_late"],
    wr_sleep |-> [on |-> "writers", retry |-> "wr_try",  late |-> "wr_late"],
    wp_sleep |-> [on |-> "phase",   retry |-> "wp_wait", late |-> "wp_late"] ]

(* The call: block at s if the word still has the expected value.           *)
FutexWait(t, s, asExpected) ==
  /\ IF asExpected
       THEN /\ queue' = [queue EXCEPT ![Wait[s].on] = @ \cup {t}]
            /\ Goto(t, s)
       ELSE Goto(t, Wait[s].retry) /\ UNCHANGED queue
  /\ UNCHANGED <<kind, lk, me, held>>

futex_wait_woken(t) ==
  /\ pc[t] \in DOMAIN Wait
  /\ t \notin queue[Wait[pc[t]].on]
  /\ Goto(t, Wait[pc[t]].retry)
  /\ UNCHANGED <<kind, lk, queue, me, held>>

(* The wait ends without a wake-up: EINTR or a spurious wake-up, or, in the *)
(* timed functions, ETIMEDOUT.                                              *)
futex_wait_ends(t) ==
  /\ pc[t] \in DOMAIN Wait
  /\ t \in queue[Wait[pc[t]].on]
  /\ queue' = [queue EXCEPT ![Wait[pc[t]].on] = @ \ {t}]
  /\ Goto(t, Wait[pc[t]].retry) \/ (t \in Timed /\ Goto(t, Wait[pc[t]].late))
  /\ UNCHANGED <<kind, lk, me, held>>

(* A time before the epoch: ETIMEDOUT before the kernel is called.          *)
futex_wait_expired(t) ==
  /\ t \in Timed
  /\ \/ pc[t] = "rd_futex" /\ Goto(t, "rd_late")
     \/ pc[t] = "wr_futex" /\ Goto(t, "wr_late")
     \/ pc[t] = "wp_futex" /\ Goto(t, "wp_late")
  /\ UNCHANGED <<kind, lk, queue, me, held>>
-----------------------------------------------------------------------------
(* __pthread_rwlock_rdlock_full64.  The client asks for a second read lock  *)
(* only if the kind allows recursion.                                       *)
MayRead(t) ==
  /\ t \in Readers
  /\ pc[t] = "idle" /\ lk.cur # t
  /\ held[t] < IF kind = "nonrecursive" THEN 1 ELSE MaxDepth

(* A writer is waiting and readers are active: a reader of the             *)
(* non-recursive kind lets the writer go first.                            *)
LetWriterPass == ~lk.wp /\ lk.wl /\ lk.r > 0

rdlock_prefer(t) ==
  /\ kind = "nonrecursive"
  /\ MayRead(t) \/ pc[t] = "rd_prefer"
  /\ IF LetWriterPass
       THEN lk' = [lk EXCEPT !.rw = TRUE] /\ Goto(t, "rw_wait")
       ELSE Goto(t, "rd_add") /\ UNCHANGED lk
  /\ UNCHANGED <<kind, queue, me, held>>

(* The load of __readers and the futex_wait that expects the loaded value:  *)
(* if it changed in between, the thread only loads again.                   *)
rdlock_rwaiting(t) ==
  /\ pc[t] = "rw_wait"
  /\ IF lk.rw
       THEN FutexWait(t, "rw_sleep", TRUE)
       ELSE /\ Goto(t, IF LetWriterPass THEN "rd_prefer" ELSE "rd_add")
            /\ UNCHANGED <<kind, lk, queue, me, held>>

(* Mutant: a preferred writer also blocks readers in a read phase.          *)
RegisteredBehindWriter(t, fields) ==
  IF fields.wp \/ (fields.wl /\ PreferWriter)
    THEN /\ Goto(t, IF fields.wl THEN "rd_wait" ELSE "rd_start")
         /\ UNCHANGED <<me, held>>
    ELSE ReadLocked(t, <<>>)

(* Where a registered reader goes that found these __readers: a read phase  *)
(* is the lock; a write phase with no writer it may end itself; else it     *)
(* waits.                                                                   *)
Registered(t, fields) ==
  IF fields.wp
    THEN /\ Goto(t, IF fields.wl THEN "rd_wait" ELSE "rd_start")
         /\ UNCHANGED <<me, held>>
    ELSE ReadLocked(t, <<>>)

(* atomic_fetch_add_acquire (&__readers, 1 << READER_SHIFT).                *)
rdlock_add(t) ==
  /\ IF kind = "nonrecursive" THEN pc[t] = "rd_add" ELSE MayRead(t)
  /\ lk' = [lk EXCEPT !.r = @ + 1]
  /\ IF lk.r + 1 >= ReaderOverflow
       THEN Goto(t, "rd_undo") /\ UNCHANGED <<me, held>>
       ELSE Registered(t, lk)
  /\ UNCHANGED <<kind, queue>>

(* Too many readers: deregister and return EAGAIN, unless meanwhile there   *)
(* is room.                                                                 *)
rdlock_overflow(t) ==
  /\ pc[t] = "rd_undo"
  /\ IF lk.r >= ReaderOverflow
       THEN lk' = [lk EXCEPT !.r = @ - 1] /\ Return(t, <<>>) /\ UNCHANGED held
       ELSE Registered(t, lk) /\ UNCHANGED lk
  /\ UNCHANGED <<kind, queue>>

(* Start a read phase, if it is still a write phase without a writer.       *)
rdlock_start(t) ==
  /\ pc[t] = "rd_start"
  /\ IF lk.wp /\ ~lk.wl
       THEN lk' = [lk EXCEPT !.wp = FALSE] /\ Goto(t, "rd_phase")
       ELSE Goto(t, "rd_wait") /\ UNCHANGED lk
  /\ UNCHANGED <<kind, queue, me, held>>

(* The one who started the read phase hands it to the waiting readers.      *)
rdlock_phase(t) ==
  /\ pc[t] = "rd_phase"
  /\ lk' = [lk EXCEPT !.wpf = 0, !.wpfu = FALSE]
  /\ ReadLocked(t, WakeIf(lk.wpfu, "phase"))
  /\ UNCHANGED <<kind, queue>>

(* The waiting loop: while __wrphase_futex is 1, set FUTEX_USED and block.  *)
rdlock_wait(t) ==
  /\ pc[t] = "rd_wait"
  /\ IF lk.wpf = 1
       THEN /\ lk' = [lk EXCEPT !.wpfu = TRUE]
            /\ Goto(t, "rd_futex") /\ UNCHANGED <<me, held>>
       ELSE /\ IF me[t].ready
                 THEN ReadLocked(t, <<>>)
                 ELSE Goto(t, "rd_check") /\ UNCHANGED <<me, held>>
            /\ UNCHANGED lk
  /\ UNCHANGED <<kind, queue>>

rdlock_futex(t) ==
  /\ pc[t] = "rd_futex"
  /\ FutexWait(t, "rd_sleep", lk.wpf = 1 /\ lk.wpfu)

rdlock_check(t) ==
  /\ pc[t] = "rd_check"
  /\ me' = [me EXCEPT ![t].ready = ~lk.wp]
  /\ Goto(t, "rd_wait")
  /\ UNCHANGED <<kind, lk, queue, held>>

(* ETIMEDOUT: deregister, unless a read phase has been installed.           *)
rdlock_late(t) ==
  /\ pc[t] = "rd_late"
  /\ IF lk.wp
       THEN lk' = [lk EXCEPT !.r = @ - 1] /\ Return(t, <<>>)
       ELSE Goto(t, "rd_spin") /\ UNCHANGED <<lk, me>>
  /\ UNCHANGED <<kind, queue, held>>

(* Spin until the explicit hand-over is complete.                           *)
rdlock_spin(t) ==
  /\ pc[t] = "rd_spin" /\ lk.wpf = 0
  /\ ReadLocked(t, <<>>)
  /\ UNCHANGED <<kind, lk, queue>>

(* __pthread_rwlock_tryrdlock, when it does not return EBUSY or EAGAIN.     *)
tryrdlock(t) ==
  /\ MayRead(t)
  /\ IF lk.wp THEN ~lk.wl ELSE ~(lk.wl /\ kind = "nonrecursive")
  /\ lk.r + 1 < ReaderOverflow
  /\ lk' = [lk EXCEPT !.r = @ + 1, !.wp = FALSE]
  /\ IF lk.wp THEN Goto(t, "rd_phase") /\ UNCHANGED <<me, held>>
              ELSE ReadLocked(t, <<>>)
  /\ UNCHANGED <<kind, queue>>

(* __pthread_rwlock_rdunlock: the last reader starts a write phase if a     *)
(* writer is waiting, and lets the RWAITING readers go.                     *)
rdunlock(t) ==
  /\ pc[t] = "idle" /\ lk.cur # t /\ held[t] > 0
  /\ LET last == lk.r = 1
         phase == lk.wp \/ (last /\ lk.wl)
         owed == WakeIf(lk.rw /\ last, "readers") IN
       /\ lk' = [lk EXCEPT !.r = @ - 1, !.wp = phase, !.rw = @ /\ ~last]
       /\ IF phase
            THEN /\ Goto(t, "ru_phase")
                 /\ me' = [me EXCEPT ![t].owed = owed]
            ELSE Return(t, owed)
  /\ held' = [held EXCEPT ![t] = @ - 1]
  /\ UNCHANGED <<kind, queue>>

rdunlock_phase(t) ==
  /\ pc[t] = "ru_phase"
  /\ lk' = [lk EXCEPT !.wpf = 1, !.wpfu = FALSE]
  /\ Return(t, WakeIf(lk.wpfu, "phase") \o me[t].owed)
  /\ UNCHANGED <<kind, queue, held>>
-----------------------------------------------------------------------------
(* __pthread_rwlock_wrlock_full64.  A client that has a read lock does not  *)
(* ask for the write lock: it would wait for itself.                        *)
MayWrite(t) == t \in Writers /\ pc[t] = "idle" /\ lk.cur # t /\ held[t] = 0

(* atomic_fetch_or_acquire (&__readers, WRLOCKED).                          *)
wrlock(t) ==
  /\ MayWrite(t)
  /\ lk' = [lk EXCEPT !.wl = TRUE]
  /\ Goto(t, IF ~lk.wl THEN "wr_enable"
             ELSE IF PreferWriter THEN "wr_register" ELSE "wr_block")
  /\ me' = [me EXCEPT ![t].seen = lk.wp]
  /\ UNCHANGED <<kind, queue, held>>

wrlock_register(t) ==
  /\ pc[t] = "wr_register"
  /\ lk' = [lk EXCEPT !.w = @ + 1]
  /\ Goto(t, "wr_hand")
  /\ UNCHANGED <<kind, queue, me, held>>

(* Become the primary writer if there is none.                              *)
wrlock_try(t) ==
  /\ pc[t] = "wr_try"
  /\ lk' = [lk EXCEPT !.wl = TRUE]
  /\ IF lk.wl
       THEN Goto(t, IF PreferWriter THEN "wr_hand" ELSE "wr_block") /\ UNCHANGED me
       ELSE /\ Goto(t, IF PreferWriter THEN "wr_leave" ELSE "wr_enable")
            /\ me' = [me EXCEPT ![t].seen = lk.wp]
  /\ UNCHANGED <<kind, queue, held>>

wrlock_unregister(t) ==
  /\ pc[t] = "wr_leave"
  /\ lk' = [lk EXCEPT !.w = @ - 1]
  /\ Goto(t, "wr_enable")
  /\ UNCHANGED <<kind, queue, me, held>>

(* Take WRLOCKED over from a writer that left WRHANDOVER.                   *)
wrlock_handover(t) ==
  /\ pc[t] = "wr_hand"
  /\ IF lk.h
       THEN lk' = [lk EXCEPT !.h = FALSE, !.w = @ - 1] /\ Goto(t, "wr_reload")
       ELSE Goto(t, "wr_block") /\ UNCHANGED lk
  /\ UNCHANGED <<kind, queue, me, held>>

wrlock_reload(t) ==
  /\ pc[t] = "wr_reload"
  /\ me' = [me EXCEPT ![t].seen = lk.wp]
  /\ Goto(t, "wr_enable")
  /\ UNCHANGED <<kind, lk, queue, held>>

(* Block on __writers_futex if the primary writer has enabled that.         *)
wrlock_block(t) ==
  /\ pc[t] = "wr_block"
  /\ IF lk.wf = 1
       THEN /\ lk' = [lk EXCEPT !.wfu = TRUE]
            /\ me' = [me EXCEPT ![t].share = TRUE]
            /\ Goto(t, "wr_futex")
       ELSE Goto(t, "wr_try") /\ UNCHANGED <<lk, me>>
  /\ UNCHANGED <<kind, queue, held>>

wrlock_futex(t) ==
  /\ pc[t] = "wr_futex"
  /\ FutexWait(t, "wr_sleep", lk.wf = 1 /\ lk.wfu)

(* Mutant: the last registered writer leaves a pending hand-over behind.    *)
wrlock_late_unclaimed(t) ==
  /\ pc[t] = "wr_late"
  /\ lk' = IF PreferWriter THEN [lk EXCEPT !.w = @ - 1] ELSE lk
  /\ Return(t, <<>>)
  /\ UNCHANGED <<kind, queue, held>>

(* ETIMEDOUT: deregister; the last registered writer must use a pending     *)
(* hand-over.                                                               *)
wrlock_late(t) ==
  /\ pc[t] = "wr_late"
  /\ LET primary == PreferWriter /\ lk.h /\ lk.w = 1 IN
       /\ lk' = IF PreferWriter
                  THEN [lk EXCEPT !.w = @ - 1, !.h = @ /\ ~primary] ELSE lk
       /\ IF primary THEN Goto(t, "wr_reload") /\ UNCHANGED me
                     ELSE Return(t, <<>>)
  /\ UNCHANGED <<kind, queue, held>>

(* Mutant: FUTEX_USED is not kept for those that share it.                  *)
wrlock_enable_unshared(t) ==
  /\ pc[t] = "wr_enable"
  /\ LET fields == [lk EXCEPT !.wf = 1, !.wfu = FALSE] IN
       IF me[t].seen
         THEN WriteLocked(t, fields)
         ELSE lk' = fields /\ Goto(t, "wr_start") /\ UNCHANGED <<me, held>>
  /\ UNCHANGED <<kind, queue>>

(* The primary writer lets others block on __writers_futex; in a write      *)
(* phase it has the lock.                                                   *)
wrlock_enable(t) ==
  /\ pc[t] = "wr_enable"
  /\ LET fields == [lk EXCEPT !.wf = 1, !.wfu = me[t].share] IN
       IF me[t].seen
         THEN WriteLocked(t, fields)
         ELSE lk' = fields /\ Goto(t, "wr_start") /\ UNCHANGED <<me, held>>
  /\ UNCHANGED <<kind, queue>>

wrlock_start(t) ==
  /\ pc[t] = "wr_start"
  /\ IF ~lk.wp /\ lk.r = 0
       THEN lk' = [lk EXCEPT !.wp = TRUE] /\ Goto(t, "wr_phase")
       ELSE Goto(t, "wp_wait") /\ UNCHANGED lk
  /\ UNCHANGED <<kind, queue, me, held>>

wrlock_phase(t) ==
  /\ pc[t] = "wr_phase"
  /\ WriteLocked(t, [lk EXCEPT !.wpf = 1, !.wpfu = FALSE])
  /\ UNCHANGED <<kind, queue>>

(* Mutant: the writer takes __wrphase_futex = 1 for a write phase.          *)
wrlock_wait_unconfirmed(t) ==
  /\ pc[t] = "wp_wait"
  /\ IF lk.wpf = 0
       THEN /\ lk' = [lk EXCEPT !.wpfu = TRUE]
            /\ Goto(t, "wp_futex") /\ UNCHANGED <<me, held>>
       ELSE WriteLocked(t, lk)
  /\ UNCHANGED <<kind, queue>>

(* Wait for a reader to hand over the write phase.                          *)
wrlock_wait(t) ==
  /\ pc[t] = "wp_wait"
  /\ IF lk.wpf = 0
       THEN /\ lk' = [lk EXCEPT !.wpfu = TRUE]
            /\ Goto(t, "wp_futex") /\ UNCHANGED <<me, held>>
       ELSE IF me[t].ready
              THEN WriteLocked(t, lk)
              ELSE Goto(t, "wp_check") /\ UNCHANGED <<lk, me, held>>
  /\ UNCHANGED <<kind, queue>>

wrlock_wait_futex(t) ==
  /\ pc[t] = "wp_futex"
  /\ FutexWait(t, "wp_sleep", lk.wpf = 0 /\ lk.wpfu)

wrlock_check(t) ==
  /\ pc[t] = "wp_check"
  /\ me' = [me EXCEPT ![t].ready = lk.wp]
  /\ Goto(t, "wp_wait")
  /\ UNCHANGED <<kind, lk, queue, held>>

(* ETIMEDOUT as primary writer: hand over to another writer if there is     *)
(* one, else stop being the primary writer unless the write phase has been  *)
(* started.                                                                 *)
wrlock_giveup(t) ==
  /\ pc[t] = "wp_late"
  /\ Goto(t, IF PreferWriter /\ (lk.w > 0 \/ lk.h) THEN "wl_hand" ELSE "wl_look")
  /\ UNCHANGED <<kind, lk, queue, me, held>>

wrlock_giveup_look(t) ==
  /\ pc[t] = "wl_look"
  /\ Goto(t, IF lk.wp THEN "wl_spin" ELSE "wl_take")
  /\ UNCHANGED <<kind, lk, queue, me, held>>

(* atomic_exchange_relaxed (&__writers_futex, 0), and what it found.        *)
TakeWritersFutex(t, l) ==
  /\ lk' = [lk EXCEPT !.wf = 0, !.wfu = FALSE]
  /\ me' = [me EXCEPT ![t].wake = lk.wfu]
  /\ Goto(t, l)

wrlock_giveup_exchange(t) ==
  /\ \/ pc[t] = "wl_hand" /\ TakeWritersFutex(t, "wl_set")
     \/ pc[t] = "wl_take" /\ TakeWritersFutex(t, "wl_drop")
  /\ UNCHANGED <<kind, queue, held>>

wrlock_giveup_handover(t) ==
  /\ pc[t] = "wl_set"
  /\ IF lk.w > 0 \/ lk.h
       THEN /\ lk' = [lk EXCEPT !.h = TRUE]
            /\ Return(t, WakeIf(me[t].wake, "writers"))
       ELSE Goto(t, "wl_restore") /\ UNCHANGED <<lk, me>>
  /\ UNCHANGED <<kind, queue, held>>

wrlock_giveup_release(t) ==
  /\ pc[t] = "wl_drop"
  /\ IF ~lk.wp
       THEN /\ lk' = [lk EXCEPT !.wl = FALSE, !.rw = FALSE]
            /\ Return(t, WakeIf(me[t].wake, "writers") \o WakeIf(lk.rw, "readers"))
       ELSE Goto(t, "wl_keep") /\ UNCHANGED <<lk, me>>
  /\ UNCHANGED <<kind, queue, held>>

(* Still the primary writer: let others block on __writers_futex again.     *)
wrlock_giveup_restore(t) ==
  /\ pc[t] \in {"wl_restore", "wl_keep"}
  /\ lk' = [lk EXCEPT !.wf = 1, !.wfu = me[t].wake]
  /\ Goto(t, IF pc[t] = "wl_restore" THEN "wl_look" ELSE "wl_spin")
  /\ UNCHANGED <<kind, queue, me, held>>

wrlock_spin(t) ==
  /\ pc[t] = "wl_spin" /\ lk.wpf = 1
  /\ WriteLocked(t, lk)
  /\ UNCHANGED <<kind, queue>>

(* __pthread_rwlock_trywrlock, when it does not return EBUSY.               *)
trywrlock(t) ==
  /\ MayWrite(t)
  /\ ~lk.wl
  /\ lk.r = 0 \/ (PreferWriter /\ lk.wp)
  /\ lk' = [lk EXCEPT !.wp = TRUE, !.wl = TRUE]
  /\ me' = [me EXCEPT ![t].seen = lk.wp]
  /\ Goto(t, "tw_enable")
  /\ UNCHANGED <<kind, queue, held>>

trywrlock_enable(t) ==
  /\ pc[t] = "tw_enable"
  /\ LET fields == [lk EXCEPT !.wf = 1, !.wfu = FALSE] IN
       IF me[t].seen
         THEN WriteLocked(t, fields)
         ELSE lk' = fields /\ Goto(t, "wr_phase") /\ UNCHANGED <<me, held>>
  /\ UNCHANGED <<kind, queue>>

(* __pthread_rwlock_wrunlock: stop others from blocking on                  *)
(* __writers_futex ...                                                      *)
wrunlock(t) ==
  /\ pc[t] = "idle" /\ lk.cur = t
  /\ lk' = [lk EXCEPT !.cur = Nobody, !.wf = 0, !.wfu = FALSE]
  /\ me' = [me EXCEPT ![t].wake = lk.wfu]
  /\ Goto(t, IF PreferWriter THEN "wu_hand" ELSE "wu_release")
  /\ UNCHANGED <<kind, queue, held>>

(* ... hand over to a registered writer, or else ...                        *)
wrunlock_handover(t) ==
  /\ pc[t] = "wu_hand"
  /\ IF lk.w > 0 \/ lk.h
       THEN /\ lk' = [lk EXCEPT !.h = TRUE]
            /\ Return(t, WakeIf(me[t].wake, "writers"))
       ELSE Goto(t, "wu_release") /\ UNCHANGED <<lk, me>>
  /\ UNCHANGED <<kind, queue, held>>

(* ... release WRLOCKED, and start a read phase if readers are waiting.     *)
wrunlock_release(t) ==
  /\ pc[t] = "wu_release"
  /\ lk' = [lk EXCEPT !.wl = ~@, !.wp = IF lk.r = 0 THEN @ ELSE ~@]
  /\ IF lk.r = 0 THEN Return(t, WakeIf(me[t].wake, "writers"))
                 ELSE Goto(t, "wu_phase") /\ UNCHANGED me
  /\ UNCHANGED <<kind, queue, held>>

wrunlock_phase(t) ==
  /\ pc[t] = "wu_phase"
  /\ lk' = [lk EXCEPT !.wpf = 0, !.wpfu = FALSE]
  /\ Return(t, WakeIf(lk.wpfu, "phase") \o WakeIf(me[t].wake, "writers"))
  /\ UNCHANGED <<kind, queue, held>>
-----------------------------------------------------------------------------
(* What a client starts at will.                                            *)
Call(t) ==
  \/ MayRead(t) /\ (rdlock_prefer(t) \/ rdlock_add(t))
  \/ tryrdlock(t) \/ wrlock(t) \/ trywrlock(t)

(* What a thread inside a function does, and the client's promise to        *)
(* release a lock it has.                                                   *)
Step(t) ==
  \/ ~MayRead(t) /\ (rdlock_prefer(t) \/ rdlock_add(t))
  \/ rdlock_rwaiting(t) \/ rdlock_overflow(t) \/ rdlock_start(t)
  \/ rdlock_phase(t) \/ rdlock_wait(t) \/ rdlock_futex(t) \/ rdlock_check(t)
  \/ rdlock_late(t) \/ rdlock_spin(t) \/ rdunlock(t) \/ rdunlock_phase(t)
  \/ wrlock_register(t) \/ wrlock_try(t) \/ wrlock_unregister(t)
  \/ wrlock_handover(t) \/ wrlock_reload(t) \/ wrlock_block(t)
  \/ wrlock_futex(t) \/ wrlock_late(t) \/ wrlock_enable(t) \/ wrlock_start(t)
  \/ wrlock_phase(t) \/ wrlock_wait(t) \/ wrlock_wait_futex(t)
  \/ wrlock_check(t) \/ wrlock_giveup(t) \/ wrlock_giveup_look(t) \/ wrlock_giveup_exchange(t)
  \/ wrlock_giveup_handover(t) \/ wrlock_giveup_release(t)
  \/ wrlock_giveup_restore(t) \/ wrlock_spin(t) \/ trywrlock_enable(t)
  \/ wrunlock(t) \/ wrunlock_handover(t) \/ wrunlock_release(t)
  \/ wrunlock_phase(t) \/ futex_wait_woken(t) \/ futex_wake(t)

Environment(t) == futex_wait_ends(t) \/ futex_wait_expired(t)

Next == \E t \in Threads : Call(t) \/ Step(t) \/ Environment(t)

Spec == Init /\ [][Next]_vars

FairSpec == Spec /\ \A t \in Threads : WF_vars(Step(t))
-----------------------------------------------------------------------------
(* The threads that wait, as the clients see them.                          *)
Reading ==
  { t \in Threads :
      pc[t] \in {"rd_prefer", "rw_wait", "rw_sleep", "rd_add", "rd_undo",
                 "rd_start", "rd_phase", "rd_wait", "rd_futex", "rd_sleep",
                 "rd_check", "rd_late", "rd_spin"} }

Writing ==
  { t \in Threads :
      pc[t] \in {"wr_register", "wr_try", "wr_leave", "wr_hand", "wr_reload",
                 "wr_block", "wr_futex", "wr_sleep", "wr_late", "wr_enable",
                 "wr_start", "wr_phase", "wp_wait", "wp_futex", "wp_sleep",
                 "wp_check", "wp_late", "wl_hand", "wl_look", "wl_take", "wl_set",
                 "wl_drop", "wl_restore", "wl_keep", "wl_spin", "tw_enable"} }

Abstract == INSTANCE AbstractRWLock
  WITH depth <- held, writer <- lk.cur, reading <- Reading, writing <- Writing

(* The lock implements the abstract reader-writer lock for each of the      *)
(* three kinds: through every combination of hand-overs between readers     *)
(* and writers, time-outs and trylocks, a writer has the lock alone.        *)
ImplementsRWLock == Abstract!ASpec

(* A thread that has WRLOCKED.                                              *)
Primary(t) ==
  \/ lk.cur = t
  \/ pc[t] \in {"wr_leave", "wr_reload", "wr_enable", "wr_start", "wr_phase",
                "wp_wait", "wp_futex", "wp_sleep", "wp_check", "wp_late",
                "wl_hand", "wl_look", "wl_take", "wl_set", "wl_drop",
                "wl_restore", "wl_keep", "wl_spin", "tw_enable", "wu_hand",
                "wu_release"}

(* WRLOCKED belongs to exactly one writer, or is on its way through         *)
(* WRHANDOVER to a writer that is still registered: a hand-over that races  *)
(* with the time-out of the last registered writer is not left unclaimed.   *)
OnePrimary ==
  /\ lk.wl = (lk.h \/ \E t \in Threads : Primary(t))
  /\ \A t, u \in Threads : Primary(t) /\ Primary(u) => t = u
  /\ lk.h => lk.w > 0 /\ \A t \in Threads : ~Primary(t)

(* A thread that has a read lock and asks for another is never made to      *)
(* wait, although a writer may be preferred: it would wait for itself.      *)
RecursionNeverBlocks ==
  \A t \in Threads : held[t] > 0 =>
    pc[t] \in {"idle", "wake", "rd_add", "rd_undo", "ru_phase"}

(* A writer has the lock only after the reader that started the write phase *)
(* has stored __wrphase_futex.                                              *)
HandoversInOrder ==
  \A t \in Threads : pc[t] = "ru_phase" => lk.cur = Nobody

(* As long as hand-overs are completed in order, a lock that stays          *)
(* available is taken by one of the threads that wait for it, provided that *)
(* the threads that have it release it: no combination of hand-overs,       *)
(* wake-ups, FUTEX_USED bits and time-outs leaves everybody asleep.         *)
WaitersAnswered == []HandoversInOrder => Abstract!ALive

(* "The futex synchronization ensures that there are no lost wake-ups": a   *)
(* reader that waits for the read phase does not sleep on through one,      *)
(* unless the thread that started it is about to wake it.                   *)
ReadersWoken ==
  \A t \in queue.phase :
    pc[t] = "rd_sleep" /\ ~lk.wp =>
      \E u \in Threads :
        \/ pc[u] \in {"rd_phase", "wu_phase"}
        \/ \E i \in DOMAIN me[u].owed : me[u].owed[i] = "phase"
=============================================================================
