---------------------------- MODULE RWLockProofs ----------------------------
(***************************************************************************)
(* Proofs about reader-writer locks, for every set of threads, every kind  *)
(* and every recursion depth.                                              *)
(***************************************************************************)
EXTENDS RWLock, Integers, FiniteSetTheorems, TLAPS

Futexes == {"readers", "phase", "writers"}

Fields ==
  [ r : Int, wp : BOOLEAN, wl : BOOLEAN, rw : BOOLEAN,
    wpf : {0, 1}, wpfu : BOOLEAN, wf : {0, 1}, wfu : BOOLEAN,
    w : Int, h : BOOLEAN, cur : Threads \cup {Nobody} ]

Locals ==
  [ seen : BOOLEAN, ready : BOOLEAN, share : BOOLEAN, wake : BOOLEAN,
    owed : Seq(Futexes) ]

(* Where a thread is counted in __readers besides the read locks it has.    *)
RdLoop == {"rd_wait", "rd_futex", "rd_sleep", "rd_check", "rd_late", "rd_spin"}

Counted == RdLoop \cup {"rd_undo", "rd_start", "rd_phase"}

(* Where the primary writer waits for the write phase or gives up.          *)
WpLoop ==
  {"wp_wait", "wp_futex", "wp_sleep", "wp_check", "wp_late", "wl_hand", "wl_look",
   "wl_take", "wl_set", "wl_drop", "wl_restore", "wl_keep", "wl_spin"}

Label ==
  Counted \cup WpLoop \cup
  {"idle", "wake", "rd_prefer", "rw_wait", "rw_sleep", "rd_add", "ru_phase",
   "wr_register", "wr_try", "wr_leave", "wr_hand", "wr_reload", "wr_block",
   "wr_futex", "wr_sleep", "wr_late", "wr_enable", "wr_start", "wr_phase",
   "tw_enable", "wu_hand", "wu_release", "wu_phase"}

TypeOK ==
  /\ lk \in Fields
  /\ pc \in [Threads -> Label]
  /\ me \in [Threads -> Locals]
  /\ held \in [Threads -> Nat]
  /\ \A t \in Threads : pc[t] = "wake" => me[t].owed # <<>>

(* Who has WRLOCKED (OnePrimary), and that the owner is in no function.     *)
PrimaryOK ==
  /\ OnePrimary
  /\ \A t \in Threads : lk.cur = t => pc[t] = "idle"

(* What a thread has learnt about the phase is still true.                  *)
PhaseAt(t) ==
  /\ lk.cur = t => lk.wp
  /\ pc[t] \in {"wr_phase", "wl_spin", "wl_keep", "tw_enable", "wu_hand",
                "wu_release"} => lk.wp
  /\ pc[t] \in {"wr_leave", "wr_enable"} /\ me[t].seen => lk.wp
  /\ held[t] > 0 \/ pc[t] \in {"rd_phase", "rd_spin"} => ~lk.wp
  /\ me[t].ready => \/ pc[t] \in RdLoop /\ ~lk.wp
                    \/ pc[t] \in WpLoop /\ lk.wp

PhaseOK == \A t \in Threads : PhaseAt(t)

(* __readers counts the read locks and the registered readers.              *)
Stake(t) == held[t] + (IF pc[t] \in Counted THEN 1 ELSE 0)

Tokens == {x \in Threads \X Nat : x[2] < Stake(x[1])}

CountOK == IsFiniteSet(Tokens) /\ lk.r = Cardinality(Tokens)

IInv == TypeOK /\ PrimaryOK /\ PhaseOK /\ CountOK

-----------------------------------------------------------------------------
(* Setting fields of the lock keeps them well typed.                        *)
LEMMA FieldTypes ==
  ASSUME NEW f \in Fields
  PROVE  /\ \A i \in Int : [f EXCEPT !.r = i] \in Fields
         /\ \A i \in Int : [f EXCEPT !.w = i] \in Fields
         /\ \A b \in BOOLEAN : [f EXCEPT !.wp = b] \in Fields
         /\ \A b \in BOOLEAN : [f EXCEPT !.wl = b] \in Fields
         /\ \A b \in BOOLEAN : [f EXCEPT !.rw = b] \in Fields
         /\ \A b \in BOOLEAN : [f EXCEPT !.h = b] \in Fields
         /\ \A b \in BOOLEAN : [f EXCEPT !.wfu = b] \in Fields
         /\ [f EXCEPT !.wf = 1] \in Fields
         /\ \A c \in Threads \cup {Nobody} : [f EXCEPT !.cur = c] \in Fields
BY DEF Fields

(* The same for the local variables of a thread.                            *)
LEMMA LocalTypes ==
  ASSUME NEW l \in Locals
  PROVE  /\ \A b \in BOOLEAN : [l EXCEPT !.seen = b] \in Locals
         /\ \A b \in BOOLEAN : [l EXCEPT !.ready = b] \in Locals
         /\ \A b \in BOOLEAN : [l EXCEPT !.share = b] \in Locals
         /\ \A b \in BOOLEAN : [l EXCEPT !.wake = b] \in Locals
         /\ \A q \in Seq(Futexes) : [l EXCEPT !.owed = q] \in Locals
BY DEF Locals

(* A function that returns leaves its thread well typed.                    *)
LEMMA ReturnTypes ==
  ASSUME TypeOK, NEW t \in Threads, NEW q \in Seq(Futexes), Return(t, q)
  PROVE  /\ pc' \in [Threads -> Label] /\ me' \in [Threads -> Locals]
         /\ \A u \in Threads : pc'[u] = "wake" => me'[u].owed # <<>>
<1> DEFINE l == [NoLocals EXCEPT !.owed = q]
<1>1. l \in Locals /\ l.owed = q
  BY ZenonT(60) DEF NoLocals, Locals
<1>2. me' = [me EXCEPT ![t] = l]
  BY DEF Return
<1> HIDE DEF l
<1>3. pc' = [pc EXCEPT ![t] = IF q = <<>> THEN "idle" ELSE "wake"]
  BY DEF Return, Goto
<1>4. pc' \in [Threads -> Label]
  BY <1>3 DEF TypeOK, Label
<1>5. me' \in [Threads -> Locals]
  BY <1>1, <1>2 DEF TypeOK
<1>6. \A u \in Threads : pc'[u] = "wake" => me'[u].owed # <<>>
  BY <1>1, <1>2, <1>3 DEF TypeOK
<1> QED
  BY <1>4, <1>5, <1>6

(* The futex_wake calls that are owed.                                      *)
LEMMA OwedTypes ==
  ASSUME NEW b, NEW f \in Futexes
  PROVE  WakeIf(b, f) \in Seq(Futexes)
BY DEF WakeIf

(* A function that returns and owes nothing, likewise.                      *)
LEMMA ReturnNone ==
  ASSUME TypeOK, NEW t \in Threads, Return(t, <<>>)
  PROVE  /\ pc' \in [Threads -> Label] /\ me' \in [Threads -> Locals]
         /\ \A u \in Threads : pc'[u] = "wake" => me'[u].owed # <<>>
<1>1. <<>> \in Seq(Futexes)
  OBVIOUS
<1> QED
  BY <1>1, ReturnTypes, ZenonT(60)

(* Every step keeps the fields of the lock well typed.                      *)
LEMMA StepFields ==
  ASSUME TypeOK, NEW t \in Threads, Call(t) \/ Step(t) \/ Environment(t)
  PROVE  lk' \in Fields
<1>1. CASE futex_wake(t) \/ futex_wait_woken(t) \/ futex_wait_ends(t) \/
           futex_wait_expired(t) \/ rdlock_rwaiting(t) \/ rdlock_futex(t) \/
           rdlock_check(t) \/ rdlock_spin(t) \/ wrlock_reload(t) \/ wrlock_futex(t) \/
           wrlock_wait_futex(t) \/ wrlock_check(t) \/ wrlock_giveup(t) \/
           wrlock_giveup_look(t)
  BY <1>1 DEF futex_wake, futex_wait_woken, Wait, futex_wait_ends, futex_wait_expired,
     rdlock_rwaiting, FutexWait, rdlock_futex, rdlock_check, rdlock_spin, ReadLocked,
     wrlock_reload, wrlock_futex, wrlock_wait_futex, wrlock_check, wrlock_giveup,
     wrlock_giveup_look, TypeOK, Fields
<1>2. CASE rdlock_prefer(t)
  BY <1>2, ZenonT(60) DEF rdlock_prefer, TypeOK, Fields
<1>3. CASE rdlock_add(t)
  <2>1. lk' = [lk EXCEPT !.r = lk.r + 1]
    BY <1>3 DEF rdlock_add
  <2>2. lk \in Fields /\ lk.r + 1 \in Int
    BY DEF TypeOK, Fields
  <2> QED
    BY <2>1, <2>2, FieldTypes, ZenonT(60)
<1>4. CASE rdlock_overflow(t)
  <2>1. lk' = lk \/ lk' = [lk EXCEPT !.r = lk.r - 1]
    BY <1>4 DEF rdlock_overflow
  <2>2. lk \in Fields /\ lk.r - 1 \in Int
    BY DEF TypeOK, Fields
  <2> QED
    BY <2>1, <2>2, FieldTypes, ZenonT(60)
<1>5. CASE rdlock_start(t)
  BY <1>5, ZenonT(60) DEF rdlock_start, TypeOK, Fields
<1>6. CASE rdlock_phase(t)
  BY <1>6, ZenonT(60) DEF rdlock_phase, ReadLocked, TypeOK, Fields
<1>7. CASE rdlock_wait(t)
  BY <1>7, ZenonT(60) DEF rdlock_wait, ReadLocked, TypeOK, Fields
<1>8. CASE rdlock_late(t)
  <2>1. lk' = lk \/ lk' = [lk EXCEPT !.r = lk.r - 1]
    BY <1>8 DEF rdlock_late
  <2>2. lk \in Fields /\ lk.r - 1 \in Int
    BY DEF TypeOK, Fields
  <2> QED
    BY <2>1, <2>2, FieldTypes, ZenonT(60)
<1>9. CASE tryrdlock(t)
  <2>1. lk' = [[lk EXCEPT !.r = lk.r + 1] EXCEPT !.wp = FALSE]
    BY <1>9 DEF tryrdlock
  <2>2. lk.r + 1 \in Int
    BY DEF TypeOK, Fields
  <2> QED
    BY <2>1, <2>2, FieldTypes, ZenonT(60) DEF TypeOK
<1>10. CASE rdunlock(t)
  <2> DEFINE last == lk.r = 1
  <2>1. lk' = [[[lk EXCEPT !.r = lk.r - 1] EXCEPT !.wp = lk.wp \/ (last /\ lk.wl)]
                EXCEPT !.rw = lk.rw /\ ~last]
    BY <1>10 DEF rdunlock
  <2>2. lk.r - 1 \in Int
    BY DEF TypeOK, Fields
  <2> HIDE DEF last
  <2>3. lk \in Fields
    BY DEF TypeOK
  <2>4. (lk.wp \/ (last /\ lk.wl)) \in BOOLEAN /\ (lk.rw /\ ~last) \in BOOLEAN
    OBVIOUS
  <2> QED
    BY <2>1, <2>2, <2>3, <2>4, FieldTypes, ZenonT(60)
<1>11. CASE rdunlock_phase(t)
  BY <1>11, ZenonT(60) DEF rdunlock_phase, TypeOK, Fields
<1>12. CASE wrlock(t)
  BY <1>12, ZenonT(60) DEF wrlock, TypeOK, Fields
<1>13. CASE wrlock_register(t)
  <2>1. lk' = [lk EXCEPT !.w = lk.w + 1]
    BY <1>13 DEF wrlock_register
  <2>2. lk \in Fields
    BY DEF TypeOK
  <2> QED
    BY <2>1, <2>2 DEF Fields
<1>14. CASE wrlock_try(t)
  BY <1>14, ZenonT(60) DEF wrlock_try, TypeOK, Fields
<1>15. CASE wrlock_unregister(t)
  <2>1. lk' = [lk EXCEPT !.w = lk.w - 1]
    BY <1>15 DEF wrlock_unregister
  <2>2. lk \in Fields
    BY DEF TypeOK
  <2> QED
    BY <2>1, <2>2 DEF Fields
<1>16. CASE wrlock_handover(t)
  <2>1. \/ lk' = lk
        \/ lk' = [[lk EXCEPT !.h = FALSE] EXCEPT !.w = lk.w - 1]
    BY <1>16 DEF wrlock_handover
  <2>2. lk \in Fields /\ lk.w - 1 \in Int
    BY DEF TypeOK, Fields
  <2>3. [lk EXCEPT !.w = lk.w - 1] \in Fields /\ [lk EXCEPT !.h = FALSE] \in Fields
    BY <2>2, FieldTypes, ZenonT(60)
  <2>4. /\ [[lk EXCEPT !.h = FALSE] EXCEPT !.w = lk.w - 1] \in Fields
        /\ \A b \in BOOLEAN : [[lk EXCEPT !.w = lk.w - 1] EXCEPT !.h = b] \in Fields
    BY <2>2, <2>3, FieldTypes, ZenonT(60)
  <2> QED
    BY <2>1, <2>2, <2>4, ZenonT(60)
<1>17. CASE wrlock_block(t)
  BY <1>17, ZenonT(60) DEF wrlock_block, TypeOK, Fields
<1>18. CASE wrlock_late(t)
  <2>1. \/ lk' = lk
        \/ \E b \in BOOLEAN : lk' = [[lk EXCEPT !.w = lk.w - 1] EXCEPT !.h = b]
    BY <1>18, ZenonT(60) DEF wrlock_late
  <2>2. lk \in Fields /\ lk.w - 1 \in Int
    BY DEF TypeOK, Fields
  <2>3. [lk EXCEPT !.w = lk.w - 1] \in Fields /\ [lk EXCEPT !.h = FALSE] \in Fields
    BY <2>2, FieldTypes, ZenonT(60)
  <2>4. /\ [[lk EXCEPT !.h = FALSE] EXCEPT !.w = lk.w - 1] \in Fields
        /\ \A b \in BOOLEAN : [[lk EXCEPT !.w = lk.w - 1] EXCEPT !.h = b] \in Fields
    BY <2>2, <2>3, FieldTypes, ZenonT(60)
  <2> QED
    BY <2>1, <2>2, <2>4, ZenonT(60)
<1>19. CASE wrlock_enable(t)
  <2> DEFINE f == [[lk EXCEPT !.wf = 1] EXCEPT !.wfu = me[t].share]
  <2>1. lk' = f \/ lk' = [f EXCEPT !.cur = t]
    BY <1>19 DEF wrlock_enable, WriteLocked
  <2>2. me[t].share \in BOOLEAN
    BY DEF TypeOK, Locals
  <2>3. f \in Fields
    BY <2>2, FieldTypes, ZenonT(60) DEF TypeOK
  <2> HIDE DEF f
  <2>4. t \in Threads \cup {Nobody}
    OBVIOUS
  <2> QED
    BY <2>1, <2>3, <2>4, FieldTypes, ZenonT(60)
<1>20. CASE wrlock_start(t)
  BY <1>20, ZenonT(60) DEF wrlock_start, TypeOK, Fields
<1>21. CASE wrlock_phase(t)
  BY <1>21, ZenonT(60) DEF wrlock_phase, WriteLocked, TypeOK, Fields
<1>22. CASE wrlock_wait(t)
  BY <1>22, ZenonT(60) DEF wrlock_wait, WriteLocked, TypeOK, Fields
<1>23. CASE wrlock_giveup_exchange(t)
  BY <1>23, ZenonT(60) DEF wrlock_giveup_exchange, TakeWritersFutex, TypeOK, Fields
<1>24. CASE wrlock_giveup_handover(t)
  BY <1>24, ZenonT(60) DEF wrlock_giveup_handover, TypeOK, Fields
<1>25. CASE wrlock_giveup_release(t)
  BY <1>25, ZenonT(60) DEF wrlock_giveup_release, TypeOK, Fields
<1>26. CASE wrlock_giveup_restore(t)
  <2>1. lk' = [[lk EXCEPT !.wf = 1] EXCEPT !.wfu = me[t].wake]
    BY <1>26 DEF wrlock_giveup_restore
  <2>2. me[t].wake \in BOOLEAN
    BY DEF TypeOK, Locals
  <2> QED
    BY <2>1, <2>2, FieldTypes, ZenonT(60) DEF TypeOK
<1>27. CASE wrlock_spin(t)
  BY <1>27, ZenonT(60) DEF wrlock_spin, WriteLocked, TypeOK, Fields
<1>28. CASE trywrlock(t)
  BY <1>28, ZenonT(60) DEF trywrlock, TypeOK, Fields
<1>29. CASE trywrlock_enable(t)
  BY <1>29, ZenonT(60) DEF trywrlock_enable, WriteLocked, TypeOK, Fields
<1>30. CASE wrunlock(t)
  BY <1>30, ZenonT(60) DEF wrunlock, TypeOK, Fields
<1>31. CASE wrunlock_handover(t)
  BY <1>31, ZenonT(60) DEF wrunlock_handover, TypeOK, Fields
<1>32. CASE wrunlock_release(t)
  BY <1>32, ZenonT(60) DEF wrunlock_release, TypeOK, Fields
<1>33. CASE wrunlock_phase(t)
  BY <1>33, ZenonT(60) DEF wrunlock_phase, TypeOK, Fields
<1> QED
  BY <1>1, <1>2, <1>3, <1>4, <1>5, <1>6, <1>7, <1>8, <1>9, <1>10, <1>11, <1>12,
     <1>13, <1>14, <1>15, <1>16, <1>17, <1>18, <1>19, <1>20, <1>21, <1>22, <1>23, <1>24,
     <1>25, <1>26, <1>27, <1>28, <1>29, <1>30, <1>31, <1>32, <1>33 DEF Call, Step,
     Environment

(* Every step leads to a place in the code.                                 *)
LEMMA StepLabels ==
  ASSUME TypeOK, NEW t \in Threads, Call(t) \/ Step(t) \/ Environment(t)
  PROVE  pc' \in [Threads -> Label]
<1> USE DEF TypeOK, Label, Counted, RdLoop, WpLoop, Goto, Return
<1>1. CASE futex_wake(t)
  BY <1>1, SMTT(60) DEF futex_wake
<1>2. CASE futex_wait_woken(t)
  BY <1>2 DEF futex_wait_woken, Wait
<1>3. CASE futex_wait_expired(t)
  BY <1>3 DEF futex_wait_expired
<1>4. CASE futex_wait_ends(t)
  <2>1. \E l \in Label : pc' = [pc EXCEPT ![t] = l]
    BY <1>4 DEF futex_wait_ends, Wait
  <2> QED
    BY <2>1, SMTT(60)
<1>5. CASE rdlock_prefer(t) \/ rdlock_add(t)
  BY <1>5, SMTT(60) DEF rdlock_prefer, rdlock_add, Registered, ReadLocked
<1>6. CASE rdlock_rwaiting(t) \/ rdlock_overflow(t)
  BY <1>6 DEF rdlock_rwaiting, FutexWait, Wait, rdlock_overflow, Registered, ReadLocked
<1>7. CASE rdlock_start(t) \/ rdlock_phase(t)
  BY <1>7 DEF rdlock_start, rdlock_phase, ReadLocked
<1>8. CASE rdlock_wait(t) \/ rdlock_futex(t)
  <2>1. CASE rdlock_wait(t)
    BY <2>1 DEF rdlock_wait, ReadLocked
  <2>2. CASE rdlock_futex(t)
    BY <2>2, SMTT(60) DEF rdlock_futex, FutexWait, Wait
  <2> QED
    BY <1>8, <2>1, <2>2
<1>9. CASE rdlock_check(t) \/ rdlock_late(t)
  BY <1>9, SMTT(60) DEF rdlock_check, rdlock_late
<1>10. CASE rdlock_spin(t) \/ tryrdlock(t)
  BY <1>10 DEF rdlock_spin, ReadLocked, tryrdlock
<1>11. CASE rdunlock(t) \/ rdunlock_phase(t)
  BY <1>11, ZenonT(60) DEF rdunlock, rdunlock_phase
<1>12. CASE wrlock(t) \/ wrlock_register(t)
  BY <1>12, SMTT(60) DEF wrlock, wrlock_register
<1>13. CASE wrlock_try(t) \/ wrlock_unregister(t)
  BY <1>13 DEF wrlock_try, wrlock_unregister
<1>14. CASE wrlock_handover(t) \/ wrlock_reload(t)
  BY <1>14, SMTT(60) DEF wrlock_handover, wrlock_reload
<1>15. CASE wrlock_block(t) \/ wrlock_futex(t)
  BY <1>15 DEF wrlock_block, wrlock_futex, FutexWait, Wait
<1>16. CASE wrlock_late(t) \/ wrlock_enable(t)
  BY <1>16, ZenonT(60) DEF wrlock_late, wrlock_enable, WriteLocked
<1>17. CASE wrlock_start(t) \/ wrlock_phase(t)
  BY <1>17, SMTT(60) DEF wrlock_start, wrlock_phase, WriteLocked
<1>18. CASE wrlock_wait(t) \/ wrlock_wait_futex(t)
  <2>1. CASE wrlock_wait(t)
    BY <2>1 DEF wrlock_wait, WriteLocked
  <2>2. CASE wrlock_wait_futex(t)
    BY <2>2, ZenonT(60) DEF wrlock_wait_futex, FutexWait, Wait
  <2> QED
    BY <1>18, <2>1, <2>2
<1>19. CASE wrlock_check(t) \/ wrlock_giveup(t)
  BY <1>19, SMTT(60) DEF wrlock_check, wrlock_giveup
<1>20. CASE wrlock_giveup_look(t) \/ wrlock_giveup_exchange(t)
  BY <1>20, SMTT(60) DEF wrlock_giveup_look, wrlock_giveup_exchange, TakeWritersFutex
<1>21. CASE wrlock_giveup_handover(t) \/ wrlock_giveup_release(t)
  BY <1>21 DEF wrlock_giveup_handover, wrlock_giveup_release
<1>22. CASE wrlock_giveup_restore(t) \/ wrlock_spin(t)
  BY <1>22 DEF wrlock_giveup_restore, wrlock_spin, WriteLocked
<1>23. CASE trywrlock(t) \/ trywrlock_enable(t)
  BY <1>23 DEF trywrlock, trywrlock_enable, WriteLocked
<1>24. CASE wrunlock(t) \/ wrunlock_handover(t)
  BY <1>24, ZenonT(60) DEF wrunlock, wrunlock_handover
<1>25. CASE wrunlock_release(t) \/ wrunlock_phase(t)
  BY <1>25, ZenonT(60) DEF wrunlock_release, wrunlock_phase
<1> QED
  BY <1>1, <1>2, <1>3, <1>4, <1>5, <1>6, <1>7, <1>8, <1>9, <1>10, <1>11, <1>12,
     <1>13, <1>14, <1>15, <1>16, <1>17, <1>18, <1>19, <1>20, <1>21, <1>22, <1>23, <1>24,
     <1>25 DEF Call, Step, Environment

(* The local variables of the threads.                                      *)
LocalsOK ==
  /\ me \in [Threads -> Locals]
  /\ \A t \in Threads : pc[t] = "wake" => me[t].owed # <<>>

(* Every step keeps them well typed.                                        *)
LEMMA StepLocals ==
  ASSUME TypeOK, NEW t \in Threads, Call(t) \/ Step(t) \/ Environment(t)
  PROVE  LocalsOK'
<1>1. CASE futex_wait_woken(t) \/ futex_wait_ends(t) \/ futex_wait_expired(t) \/
           rdlock_prefer(t)
  BY <1>1, ReturnNone DEF futex_wait_woken, Wait, futex_wait_ends, futex_wait_expired,
     rdlock_prefer, LocalsOK, TypeOK, Goto
<1>2. CASE rdlock_rwaiting(t) \/ rdlock_start(t) \/ rdlock_futex(t) \/
           wrlock_register(t)
  BY <1>2, ReturnNone DEF rdlock_rwaiting, FutexWait, Wait, rdlock_start, rdlock_futex,
     wrlock_register, LocalsOK, TypeOK, Goto
<1>3. CASE wrlock_unregister(t) \/ wrlock_handover(t) \/ wrlock_futex(t) \/
           wrlock_start(t)
  BY <1>3, ReturnNone DEF wrlock_unregister, wrlock_handover, wrlock_futex, FutexWait,
     Wait, wrlock_start, LocalsOK, TypeOK, Goto
<1>4. CASE wrlock_wait_futex(t) \/ wrlock_giveup(t) \/ wrlock_giveup_look(t) \/
           wrlock_giveup_restore(t)
  BY <1>4, ReturnNone DEF wrlock_wait_futex, FutexWait, Wait, wrlock_giveup,
     wrlock_giveup_look, wrlock_giveup_restore, LocalsOK, TypeOK, Goto
<1>5. CASE rdlock_add(t)
  BY <1>5, ReturnNone DEF rdlock_add, Registered, ReadLocked, LocalsOK, TypeOK, Goto
<1>6. CASE rdlock_overflow(t)
  BY <1>6, ReturnNone DEF rdlock_overflow, Registered, ReadLocked, LocalsOK, TypeOK,
     Goto
<1>7. CASE rdlock_wait(t)
  BY <1>7, ReturnNone DEF rdlock_wait, ReadLocked, LocalsOK, TypeOK, Goto
<1>8. CASE rdlock_late(t)
  BY <1>8, ReturnNone DEF rdlock_late, LocalsOK, TypeOK, Goto
<1>9. CASE rdlock_spin(t)
  BY <1>9, ReturnNone DEF rdlock_spin, ReadLocked, LocalsOK, TypeOK, Goto
<1>10. CASE tryrdlock(t)
  BY <1>10, ReturnNone DEF tryrdlock, ReadLocked, LocalsOK, TypeOK, Goto
<1>11. CASE wrlock_late(t)
  BY <1>11, ReturnNone DEF wrlock_late, LocalsOK, TypeOK, Goto
<1>12. CASE wrlock_enable(t)
  BY <1>12, ReturnNone DEF wrlock_enable, WriteLocked, LocalsOK, TypeOK, Goto
<1>13. CASE wrlock_phase(t)
  BY <1>13, ReturnNone DEF wrlock_phase, WriteLocked, LocalsOK, TypeOK, Goto
<1>14. CASE wrlock_wait(t)
  BY <1>14, ReturnNone DEF wrlock_wait, WriteLocked, LocalsOK, TypeOK, Goto
<1>15. CASE wrlock_spin(t)
  BY <1>15, ReturnNone DEF wrlock_spin, WriteLocked, LocalsOK, TypeOK, Goto
<1>16. CASE trywrlock_enable(t)
  BY <1>16, ReturnNone DEF trywrlock_enable, WriteLocked, LocalsOK, TypeOK, Goto
<1>17. CASE rdlock_check(t)
  <2> DEFINE b == ~lk.wp
  <2>1. me' = [me EXCEPT ![t] = [me[t] EXCEPT !.ready = b]] /\ Goto(t, "rd_wait")
    BY <1>17 DEF rdlock_check
  <2>2. b \in BOOLEAN
    OBVIOUS
  <2> HIDE DEF b
  <2>3. [me[t] EXCEPT !.ready = b] \in Locals
    BY <2>2, LocalTypes DEF TypeOK
  <2> QED
    BY <2>1, <2>3 DEF LocalsOK, TypeOK, Goto
<1>18. CASE wrlock(t)
  <2>1. CASE UNCHANGED me
    BY <1>18, <2>1 DEF wrlock, LocalsOK, TypeOK, Goto
  <2>2. CASE me' = [me EXCEPT ![t].seen = lk.wp]
    <3>1. (lk.wp) \in BOOLEAN
      BY DEF TypeOK, Fields
    <3> QED
      BY <1>18, <2>2, <3>1, LocalTypes
      DEF wrlock, LocalsOK, TypeOK, Goto
  <2> QED
    BY <1>18, <2>1, <2>2 DEF wrlock
<1>19. CASE wrlock_try(t)
  <2>1. CASE UNCHANGED me
    BY <1>19, <2>1 DEF wrlock_try, LocalsOK, TypeOK, Goto
  <2>2. CASE me' = [me EXCEPT ![t].seen = lk.wp]
    <3>1. (lk.wp) \in BOOLEAN
      BY DEF TypeOK, Fields
    <3> QED
      BY <1>19, <2>2, <3>1, LocalTypes
      DEF wrlock_try, LocalsOK, TypeOK, Goto
  <2> QED
    BY <1>19, <2>1, <2>2 DEF wrlock_try
<1>20. CASE wrlock_reload(t)
  <2>1. CASE UNCHANGED me
    BY <1>20, <2>1 DEF wrlock_reload, LocalsOK, TypeOK, Goto
  <2>2. CASE me' = [me EXCEPT ![t].seen = lk.wp]
    <3>1. (lk.wp) \in BOOLEAN
      BY DEF TypeOK, Fields
    <3> QED
      BY <1>20, <2>2, <3>1, LocalTypes
      DEF wrlock_reload, LocalsOK, TypeOK, Goto
  <2> QED
    BY <1>20, <2>1, <2>2 DEF wrlock_reload
<1>21. CASE wrlock_block(t)
  <2>1. CASE UNCHANGED me
    BY <1>21, <2>1 DEF wrlock_block, LocalsOK, TypeOK, Goto
  <2>2. CASE me' = [me EXCEPT ![t].share = TRUE]
    <3>1. (TRUE) \in BOOLEAN
      BY DEF TypeOK, Fields
    <3> QED
      BY <1>21, <2>2, <3>1, LocalTypes, ZenonT(60)
      DEF wrlock_block, LocalsOK, TypeOK, Goto
  <2> QED
    BY <1>21, <2>1, <2>2 DEF wrlock_block
<1>22. CASE wrlock_check(t)
  <2>1. CASE UNCHANGED me
    BY <1>22, <2>1 DEF wrlock_check, LocalsOK, TypeOK, Goto
  <2>2. CASE me' = [me EXCEPT ![t].ready = lk.wp]
    <3>1. (lk.wp) \in BOOLEAN
      BY DEF TypeOK, Fields
    <3> QED
      BY <1>22, <2>2, <3>1, LocalTypes
      DEF wrlock_check, LocalsOK, TypeOK, Goto
  <2> QED
    BY <1>22, <2>1, <2>2 DEF wrlock_check
<1>23. CASE wrlock_giveup_exchange(t)
  <2>1. CASE UNCHANGED me
    BY <1>23, <2>1 DEF wrlock_giveup_exchange, TakeWritersFutex, LocalsOK, TypeOK, Goto
  <2>2. CASE me' = [me EXCEPT ![t].wake = lk.wfu]
    <3>1. (lk.wfu) \in BOOLEAN
      BY DEF TypeOK, Fields
    <3> QED
      BY <1>23, <2>2, <3>1, LocalTypes
      DEF wrlock_giveup_exchange, TakeWritersFutex, LocalsOK, TypeOK, Goto
  <2> QED
    BY <1>23, <2>1, <2>2 DEF wrlock_giveup_exchange, TakeWritersFutex
<1>24. CASE trywrlock(t)
  <2>1. CASE UNCHANGED me
    BY <1>24, <2>1 DEF trywrlock, LocalsOK, TypeOK, Goto
  <2>2. CASE me' = [me EXCEPT ![t].seen = lk.wp]
    <3>1. (lk.wp) \in BOOLEAN
      BY DEF TypeOK, Fields
    <3> QED
      BY <1>24, <2>2, <3>1, LocalTypes
      DEF trywrlock, LocalsOK, TypeOK, Goto
  <2> QED
    BY <1>24, <2>1, <2>2 DEF trywrlock
<1>25. CASE wrunlock(t)
  <2>1. CASE UNCHANGED me
    BY <1>25, <2>1 DEF wrunlock, LocalsOK, TypeOK, Goto
  <2>2. CASE me' = [me EXCEPT ![t].wake = lk.wfu]
    <3>1. (lk.wfu) \in BOOLEAN
      BY DEF TypeOK, Fields
    <3> QED
      BY <1>25, <2>2, <3>1, LocalTypes
      DEF wrunlock, LocalsOK, TypeOK, Goto
  <2> QED
    BY <1>25, <2>1, <2>2 DEF wrunlock
<1>26. CASE futex_wake(t)
  <2>1. Tail(me[t].owed) \in Seq(Futexes)
    BY <1>26 DEF futex_wake, Locals, TypeOK
  <2>2. Return(t, Tail(me[t].owed))
    BY <1>26 DEF futex_wake
  <2> QED
    BY <2>1, <2>2, ReturnTypes, ZenonT(60) DEF LocalsOK
<1>27. CASE rdlock_phase(t)
  <2>1. WakeIf(lk.wpfu, "phase") \in Seq(Futexes)
    BY OwedTypes DEF Futexes, TypeOK, Locals
  <2>2. CASE Return(t, WakeIf(lk.wpfu, "phase"))
    BY <2>1, <2>2, ReturnTypes DEF LocalsOK
  <2> QED
    BY <1>27, <2>2, ZenonT(60) DEF rdlock_phase, ReadLocked, LocalsOK, TypeOK, Goto
<1>28. CASE rdunlock(t)
  <2> DEFINE owed == WakeIf(lk.rw /\ lk.r = 1, "readers")
  <2>1. owed \in Seq(Futexes)
    BY OwedTypes DEF Futexes
  <2>2. \/ Return(t, owed)
        \/ Goto(t, "ru_phase") /\ me' = [me EXCEPT ![t].owed = owed]
    BY <1>28 DEF rdunlock
  <2> HIDE DEF owed
  <2>3. CASE Return(t, owed)
    BY <2>1, <2>3, ReturnTypes DEF LocalsOK
  <2>4. CASE Goto(t, "ru_phase") /\ me' = [me EXCEPT ![t].owed = owed]
    BY <2>1, <2>4, LocalTypes DEF LocalsOK, TypeOK, Goto
  <2> QED
    BY <2>2, <2>3, <2>4
<1>29. CASE rdunlock_phase(t)
  <2>1. WakeIf(lk.wpfu, "phase") \o me[t].owed \in Seq(Futexes)
    BY OwedTypes DEF Futexes, TypeOK, Locals
  <2>2. CASE Return(t, WakeIf(lk.wpfu, "phase") \o me[t].owed)
    BY <2>1, <2>2, ReturnTypes, ZenonT(60) DEF LocalsOK
  <2> QED
    BY <1>29, <2>2 DEF rdunlock_phase, LocalsOK, TypeOK, Goto
<1>30. CASE wrlock_giveup_handover(t)
  <2>1. WakeIf(me[t].wake, "writers") \in Seq(Futexes)
    BY OwedTypes DEF Futexes, TypeOK, Locals
  <2>2. CASE Return(t, WakeIf(me[t].wake, "writers"))
    BY <2>1, <2>2, ReturnTypes DEF LocalsOK
  <2> QED
    BY <1>30, <2>2 DEF wrlock_giveup_handover, LocalsOK, TypeOK, Goto
<1>31. CASE wrlock_giveup_release(t)
  <2>1. WakeIf(me[t].wake, "writers") \o WakeIf(lk.rw, "readers") \in Seq(Futexes)
    BY OwedTypes DEF Futexes, TypeOK, Locals
  <2>2. CASE Return(t, WakeIf(me[t].wake, "writers") \o WakeIf(lk.rw, "readers"))
    BY <2>1, <2>2, ReturnTypes, ZenonT(60) DEF LocalsOK
  <2> QED
    BY <1>31, <2>2 DEF wrlock_giveup_release, LocalsOK, TypeOK, Goto
<1>32. CASE wrunlock_handover(t)
  <2>1. WakeIf(me[t].wake, "writers") \in Seq(Futexes)
    BY OwedTypes DEF Futexes, TypeOK, Locals
  <2>2. CASE Return(t, WakeIf(me[t].wake, "writers"))
    BY <2>1, <2>2, ReturnTypes DEF LocalsOK
  <2> QED
    BY <1>32, <2>2 DEF wrunlock_handover, LocalsOK, TypeOK, Goto
<1>33. CASE wrunlock_release(t)
  <2>1. WakeIf(me[t].wake, "writers") \in Seq(Futexes)
    BY OwedTypes DEF Futexes, TypeOK, Locals
  <2>2. CASE Return(t, WakeIf(me[t].wake, "writers"))
    BY <2>1, <2>2, ReturnTypes DEF LocalsOK
  <2> QED
    BY <1>33, <2>2 DEF wrunlock_release, LocalsOK, TypeOK, Goto
<1>34. CASE wrunlock_phase(t)
  <2>1. WakeIf(lk.wpfu, "phase") \o WakeIf(me[t].wake, "writers") \in Seq(Futexes)
    BY OwedTypes DEF Futexes, TypeOK, Locals
  <2>2. CASE Return(t, WakeIf(lk.wpfu, "phase") \o WakeIf(me[t].wake, "writers"))
    BY <2>1, <2>2, ReturnTypes, ZenonT(60) DEF LocalsOK
  <2> QED
    BY <1>34, <2>2 DEF wrunlock_phase, LocalsOK, TypeOK, Goto
<1> QED
  BY <1>1, <1>2, <1>3, <1>4, <1>5, <1>6, <1>7, <1>8, <1>9, <1>10, <1>11, <1>12, <1>13,
     <1>14, <1>15, <1>16, <1>17, <1>18, <1>19, <1>20, <1>21, <1>22, <1>23, <1>24, <1>25,
     <1>26, <1>27, <1>28, <1>29, <1>30, <1>31, <1>32, <1>33, <1>34, SMTT(60) DEF Call,
     Step, Environment

(* Read locks are counted in natural numbers.                               *)
LEMMA StepHeld ==
  ASSUME TypeOK, NEW t \in Threads, Call(t) \/ Step(t) \/ Environment(t)
  PROVE  held' \in [Threads -> Nat]
<1> USE DEF TypeOK
<1>1. CASE futex_wake(t) \/ futex_wait_woken(t) \/ futex_wait_ends(t) \/
           futex_wait_expired(t)
  BY <1>1 DEF futex_wake, futex_wait_woken, Wait, futex_wait_ends, futex_wait_expired
<1>2. CASE rdlock_prefer(t) \/ rdlock_add(t) \/ rdlock_rwaiting(t) \/ rdlock_overflow(t)
  BY <1>2 DEF rdlock_prefer, rdlock_add, Registered, ReadLocked, rdlock_rwaiting,
     FutexWait, Wait, rdlock_overflow
<1>3. CASE rdlock_start(t) \/ rdlock_phase(t) \/ rdlock_wait(t) \/ rdlock_futex(t)
  BY <1>3 DEF rdlock_start, rdlock_phase, ReadLocked, rdlock_wait, rdlock_futex,
     FutexWait, Wait
<1>4. CASE rdlock_check(t) \/ rdlock_late(t) \/ rdlock_spin(t) \/ tryrdlock(t)
  BY <1>4 DEF rdlock_check, rdlock_late, rdlock_spin, ReadLocked, tryrdlock
<1>5. CASE rdunlock(t) \/ rdunlock_phase(t) \/ wrlock(t) \/ wrlock_register(t)
  BY <1>5 DEF rdunlock, rdunlock_phase, wrlock, wrlock_register
<1>6. CASE wrlock_try(t) \/ wrlock_unregister(t) \/ wrlock_handover(t) \/
           wrlock_reload(t)
  BY <1>6 DEF wrlock_try, wrlock_unregister, wrlock_handover, wrlock_reload
<1>7. CASE wrlock_block(t) \/ wrlock_futex(t) \/ wrlock_late(t) \/ wrlock_enable(t)
  BY <1>7 DEF wrlock_block, wrlock_futex, FutexWait, Wait, wrlock_late, wrlock_enable,
     WriteLocked
<1>8. CASE wrlock_start(t) \/ wrlock_phase(t) \/ wrlock_wait(t) \/ wrlock_wait_futex(t)
  BY <1>8 DEF wrlock_start, wrlock_phase, WriteLocked, wrlock_wait, wrlock_wait_futex,
     FutexWait, Wait
<1>9. CASE wrlock_check(t) \/ wrlock_giveup(t) \/ wrlock_giveup_look(t) \/
           wrlock_giveup_exchange(t)
  BY <1>9 DEF wrlock_check, wrlock_giveup, wrlock_giveup_look, wrlock_giveup_exchange,
     TakeWritersFutex
<1>10. CASE wrlock_giveup_handover(t) \/ wrlock_giveup_release(t) \/
           wrlock_giveup_restore(t) \/ wrlock_spin(t)
  BY <1>10 DEF wrlock_giveup_handover, wrlock_giveup_release, wrlock_giveup_restore,
     wrlock_spin, WriteLocked
<1>11. CASE trywrlock(t) \/ trywrlock_enable(t) \/ wrunlock(t) \/ wrunlock_handover(t)
  BY <1>11 DEF trywrlock, trywrlock_enable, WriteLocked, wrunlock, wrunlock_handover
<1>12. CASE wrunlock_release(t) \/ wrunlock_phase(t)
  BY <1>12, SMTT(60) DEF wrunlock_release, wrunlock_phase
<1> QED
  BY <1>1, <1>2, <1>3, <1>4, <1>5, <1>6, <1>7, <1>8, <1>9, <1>10, <1>11, <1>12, ZenonT(60)
     DEF Call, Step, Environment

-----------------------------------------------------------------------------
(* Where a thread that waits in the kernel goes next.                       *)
LEMMA WaitPlaces ==
  ASSUME NEW l \in DOMAIN Wait
  PROVE  \/ l = "rw_sleep" /\ Wait[l].retry = "rw_wait" /\ Wait[l].late = "idle"
         \/ l = "rd_sleep" /\ Wait[l].retry = "rd_wait" /\ Wait[l].late = "rd_late"
         \/ l = "wr_sleep" /\ Wait[l].retry = "wr_try" /\ Wait[l].late = "wr_late"
         \/ l = "wp_sleep" /\ Wait[l].retry = "wp_wait" /\ Wait[l].late = "wp_late"
BY DEF Wait

(* What a step of t leaves alone.                                           *)
Others(t) ==
  \A u \in Threads \ {t} : pc'[u] = pc[u] /\ me'[u] = me[u] /\ held'[u] = held[u]

(* A step of t changes only its own state and the lock.                     *)
LEMMA StepOthers ==
  ASSUME TypeOK, NEW t \in Threads, Call(t) \/ Step(t) \/ Environment(t)
  PROVE  Others(t)
<1> USE DEF Others, TypeOK, Goto, Return
<1>1. CASE futex_wake(t) \/ futex_wait_woken(t)
  BY <1>1 DEF futex_wake, futex_wait_woken, Wait
<1>2. CASE futex_wait_ends(t) \/ futex_wait_expired(t)
  BY <1>2, ZenonT(60) DEF futex_wait_ends, Wait, futex_wait_expired
<1>3. CASE rdlock_prefer(t) \/ rdlock_add(t)
  BY <1>3 DEF rdlock_prefer, rdlock_add, Registered, ReadLocked
<1>4. CASE rdlock_rwaiting(t) \/ rdlock_overflow(t)
  BY <1>4 DEF rdlock_rwaiting, FutexWait, Wait, rdlock_overflow, Registered, ReadLocked
<1>5. CASE rdlock_start(t) \/ rdlock_phase(t)
  BY <1>5 DEF rdlock_start, rdlock_phase, ReadLocked
<1>6. CASE rdlock_wait(t) \/ rdlock_futex(t)
  BY <1>6 DEF rdlock_wait, ReadLocked, rdlock_futex, FutexWait, Wait
<1>7. CASE rdlock_check(t) \/ rdlock_late(t)
  BY <1>7 DEF rdlock_check, rdlock_late
<1>8. CASE rdlock_spin(t) \/ tryrdlock(t)
  BY <1>8 DEF rdlock_spin, ReadLocked, tryrdlock
<1>9. CASE rdunlock(t) \/ rdunlock_phase(t)
  BY <1>9, ZenonT(60) DEF rdunlock, rdunlock_phase
<1>10. CASE wrlock(t) \/ wrlock_register(t)
  BY <1>10 DEF wrlock, wrlock_register
<1>11. CASE wrlock_try(t) \/ wrlock_unregister(t)
  BY <1>11 DEF wrlock_try, wrlock_unregister
<1>12. CASE wrlock_handover(t) \/ wrlock_reload(t)
  BY <1>12 DEF wrlock_handover, wrlock_reload
<1>13. CASE wrlock_block(t) \/ wrlock_futex(t)
  BY <1>13 DEF wrlock_block, wrlock_futex, FutexWait, Wait
<1>14. CASE wrlock_late(t) \/ wrlock_enable(t)
  BY <1>14 DEF wrlock_late, wrlock_enable, WriteLocked
<1>15. CASE wrlock_start(t) \/ wrlock_phase(t)
  BY <1>15 DEF wrlock_start, wrlock_phase, WriteLocked
<1>16. CASE wrlock_wait(t) \/ wrlock_wait_futex(t)
  BY <1>16 DEF wrlock_wait, WriteLocked, wrlock_wait_futex, FutexWait, Wait
<1>17. CASE wrlock_check(t) \/ wrlock_giveup(t)
  BY <1>17 DEF wrlock_check, wrlock_giveup
<1>18. CASE wrlock_giveup_look(t) \/ wrlock_giveup_exchange(t)
  BY <1>18 DEF wrlock_giveup_look, wrlock_giveup_exchange, TakeWritersFutex
<1>19. CASE wrlock_giveup_handover(t) \/ wrlock_giveup_release(t)
  BY <1>19 DEF wrlock_giveup_handover, wrlock_giveup_release
<1>20. CASE wrlock_giveup_restore(t) \/ wrlock_spin(t)
  BY <1>20 DEF wrlock_giveup_restore, wrlock_spin, WriteLocked
<1>21. CASE trywrlock(t) \/ trywrlock_enable(t)
  BY <1>21 DEF trywrlock, trywrlock_enable, WriteLocked
<1>22. CASE wrunlock(t) \/ wrunlock_handover(t)
  BY <1>22 DEF wrunlock, wrunlock_handover
<1>23. CASE wrunlock_release(t) \/ wrunlock_phase(t)
  BY <1>23, SMTT(60) DEF wrunlock_release, wrunlock_phase
<1> QED
  BY <1>1, <1>2, <1>3, <1>4, <1>5, <1>6, <1>7, <1>8, <1>9, <1>10, <1>11, <1>12, <1>13,
     <1>14, <1>15, <1>16, <1>17, <1>18, <1>19, <1>20, <1>21, <1>22, <1>23, ZenonT(60)
     DEF Call, Step, Environment

-----------------------------------------------------------------------------
(* Where the primary writer is before it has the lock and after.            *)
PrimaryAt ==
  WpLoop \cup {"wr_leave", "wr_reload", "wr_enable", "wr_start", "wr_phase",
               "tw_enable", "wu_hand", "wu_release"}

(* The five ways in which a step of t can change who has WRLOCKED: not at   *)
(* all; t gets it, from nobody or through WRHANDOVER; t gets the lock; t    *)
(* begins to release the lock; t gives WRLOCKED up or hands it over.        *)
Keeps(t) ==
  /\ pc[t] \in PrimaryAt <=> pc'[t] \in PrimaryAt
  /\ lk'.wl = lk.wl /\ lk'.h = lk.h /\ lk'.cur = lk.cur
  /\ lk.h => lk'.w > 0
  /\ lk.cur # t

Gains(t) ==
  /\ pc[t] \notin PrimaryAt /\ pc'[t] \in PrimaryAt
  /\ lk'.wl /\ ~lk'.h /\ lk'.cur = lk.cur
  /\ ~lk.wl \/ lk.h

Locks(t) ==
  /\ pc[t] \in PrimaryAt /\ pc'[t] = "idle"
  /\ lk'.wl = lk.wl /\ lk'.h = lk.h /\ lk'.cur = t

Unlocks(t) ==
  /\ lk.cur = t /\ pc'[t] \in PrimaryAt
  /\ lk'.wl = lk.wl /\ lk'.h = lk.h /\ lk'.cur = Nobody

Loses(t) ==
  /\ pc[t] \in PrimaryAt /\ pc'[t] \notin PrimaryAt
  /\ lk'.wl = lk'.h /\ lk'.cur = lk.cur
  /\ lk'.h => lk'.w > 0

PrimaryMoves(t) == Keeps(t) \/ Gains(t) \/ Locks(t) \/ Unlocks(t) \/ Loses(t)

(* Each of them keeps WRLOCKED with one writer.                             *)
LEMMA MovesPrimaryOK ==
  ASSUME TypeOK, TypeOK', PrimaryOK, NEW t \in Threads, Others(t), PrimaryMoves(t)
  PROVE  PrimaryOK'
<1> DEFINE P(u) == lk.cur = u \/ pc[u] \in PrimaryAt
<1>1. \A u \in Threads : Primary(u) <=> P(u)
  BY DEF Primary, PrimaryAt, WpLoop
<1>2. \A u \in Threads : Primary(u)' <=> P(u)'
  BY DEF Primary, PrimaryAt, WpLoop
<1>3. /\ lk.wl = (lk.h \/ \E u \in Threads : P(u))
      /\ \A u, v \in Threads : P(u) /\ P(v) => u = v
      /\ lk.h => lk.w > 0 /\ \A u \in Threads : ~P(u)
      /\ \A u \in Threads : lk.cur = u => pc[u] = "idle"
  BY <1>1 DEF PrimaryOK, OnePrimary
<1>4. \A b \in {lk.wl, lk.h, lk'.wl, lk'.h} : b \in BOOLEAN
  BY DEF TypeOK, Fields
<1>5. Nobody \notin Threads /\ "idle" \notin PrimaryAt
  BY RWLockAssumption DEF PrimaryAt, WpLoop
<1>6. \A u \in Threads \ {t} : pc'[u] = pc[u]
  BY SMTT(60) DEF Others
<1> SUFFICES /\ lk'.wl = (lk'.h \/ \E u \in Threads : P(u)')
             /\ \A u, v \in Threads : P(u)' /\ P(v)' => u = v
             /\ lk'.h => lk'.w > 0 /\ \A u \in Threads : ~P(u)'
             /\ \A u \in Threads : lk'.cur = u => pc'[u] = "idle"
  BY <1>2, SMTT(60) DEF PrimaryOK, OnePrimary
<1>7. CASE Keeps(t)
  BY <1>3, <1>4, <1>5, <1>6, <1>7 DEF Keeps
<1>8. CASE Gains(t)
  BY <1>3, <1>4, <1>5, <1>6, <1>8, ZenonT(60) DEF Gains
<1>9. CASE Locks(t)
  BY <1>3, <1>4, <1>5, <1>6, <1>9, SMTT(60) DEF Locks
<1>10. CASE Unlocks(t)
  BY <1>3, <1>4, <1>5, <1>6, <1>10, SMTT(60) DEF Unlocks
<1>11. CASE Loses(t)
  BY <1>3, <1>4, <1>5, <1>6, <1>11 DEF Loses
<1> QED
  BY <1>7, <1>8, <1>9, <1>10, <1>11 DEF PrimaryMoves

(* What PrimaryOK says of one thread.                                       *)
LEMMA PrimaryFacts ==
  ASSUME PrimaryOK, NEW t \in Threads
  PROVE  /\ lk.cur = t => pc[t] = "idle"
         /\ lk.h => lk.w > 0 /\ lk.wl
         /\ pc[t] \in PrimaryAt \/ lk.cur = t => lk.wl /\ ~lk.h
BY ZenonT(60) DEF PrimaryOK, OnePrimary, Primary, PrimaryAt, WpLoop

(* Every step is one of them.                                               *)
LEMMA StepPrimaryMoves ==
  ASSUME TypeOK, PrimaryOK, NEW t \in Threads, Call(t) \/ Step(t) \/ Environment(t)
  PROVE  PrimaryMoves(t)
<1> USE PrimaryFacts DEF PrimaryMoves, PrimaryAt, WpLoop, TypeOK, Fields, Goto, Return
<1>1. CASE futex_wake(t)
  BY <1>1, SMTT(60) DEF futex_wake, Keeps
<1>2. CASE futex_wait_woken(t)
  BY <1>2, WaitPlaces, SMTT(60) DEF futex_wait_woken, Keeps
<1>3. CASE futex_wait_ends(t)
  BY <1>3, WaitPlaces, SMTT(60) DEF futex_wait_ends, Keeps
<1>4. CASE futex_wait_expired(t)
  BY <1>4, SMTT(60) DEF futex_wait_expired, Keeps
<1>5. CASE rdlock_prefer(t)
  <2>1. CASE LetWriterPass
    BY <1>5, <2>1, SMTT(60) DEF rdlock_prefer, Keeps, MayRead
  <2>2. CASE ~(LetWriterPass)
    BY <1>5, <2>2, SMTT(60) DEF rdlock_prefer, Keeps, MayRead
  <2> QED
    BY <2>1, <2>2
<1>6. CASE rdlock_add(t)
  <2>1. CASE lk.r + 1 >= ReaderOverflow
    BY <1>6, <2>1 DEF rdlock_add, Registered, ReadLocked, Keeps, MayRead
  <2>2. CASE ~(lk.r + 1 >= ReaderOverflow)
    BY <1>6, <2>2, SMTT(60) DEF rdlock_add, Registered, ReadLocked, Keeps, MayRead
  <2> QED
    BY <2>1, <2>2
<1>7. CASE rdlock_rwaiting(t)
  BY <1>7, SMTT(60) DEF rdlock_rwaiting, FutexWait, Wait, Keeps
<1>8. CASE rdlock_overflow(t)
  <2>1. CASE lk.r >= ReaderOverflow
    BY <1>8, <2>1, SMTT(60) DEF rdlock_overflow, Registered, ReadLocked, Keeps
  <2>2. CASE ~(lk.r >= ReaderOverflow)
    BY <1>8, <2>2, SMTT(60) DEF rdlock_overflow, Registered, ReadLocked, Keeps
  <2> QED
    BY <2>1, <2>2
<1>9. CASE rdlock_start(t)
  <2>1. CASE lk.wp /\ ~lk.wl
    BY <1>9, <2>1 DEF rdlock_start, Keeps
  <2>2. CASE ~(lk.wp /\ ~lk.wl)
    BY <1>9, <2>2 DEF rdlock_start, Keeps
  <2> QED
    BY <2>1, <2>2
<1>10. CASE rdlock_phase(t)
  BY <1>10 DEF rdlock_phase, ReadLocked, Keeps
<1>11. CASE rdlock_wait(t)
  BY <1>11, SMTT(60) DEF rdlock_wait, ReadLocked, Keeps
<1>12. CASE rdlock_futex(t)
  BY <1>12 DEF rdlock_futex, FutexWait, Wait, Keeps
<1>13. CASE rdlock_check(t)
  BY <1>13 DEF rdlock_check, Keeps
<1>14. CASE rdlock_late(t)
  <2>1. CASE lk.wp
    BY <1>14, <2>1 DEF rdlock_late, Keeps
  <2>2. CASE ~(lk.wp)
    BY <1>14, <2>2, SMTT(60) DEF rdlock_late, Keeps
  <2> QED
    BY <2>1, <2>2, SMTT(60)
<1>15. CASE rdlock_spin(t)
  BY <1>15 DEF rdlock_spin, ReadLocked, Keeps
<1>16. CASE tryrdlock(t)
  <2>1. CASE lk.wp
    BY <1>16, <2>1 DEF tryrdlock, ReadLocked, Keeps, MayRead
  <2>2. CASE ~(lk.wp)
    BY <1>16, <2>2 DEF tryrdlock, ReadLocked, Keeps, MayRead
  <2> QED
    BY <2>1, <2>2
<1>17. CASE rdunlock(t)
  BY <1>17 DEF rdunlock, Keeps
<1>18. CASE rdunlock_phase(t)
  BY <1>18, SMTT(60) DEF rdunlock_phase, Keeps
<1>19. CASE wrlock(t)
  <2>1. CASE lk.wl
    BY <1>19, <2>1 DEF wrlock, Keeps, Gains, MayWrite
  <2>2. CASE ~(lk.wl)
    BY <1>19, <2>2 DEF wrlock, Keeps, Gains, MayWrite
  <2> QED
    BY <2>1, <2>2
<1>20. CASE wrlock_register(t)
  BY <1>20 DEF wrlock_register, Keeps
<1>21. CASE wrlock_try(t)
  <2>1. CASE lk.wl
    BY <1>21, <2>1 DEF wrlock_try, Keeps, Gains
  <2>2. CASE ~(lk.wl)
    BY <1>21, <2>2, ZenonT(60) DEF wrlock_try, Keeps, Gains
  <2> QED
    BY <2>1, <2>2
<1>22. CASE wrlock_unregister(t)
  BY <1>22 DEF wrlock_unregister, Keeps
<1>23. CASE wrlock_handover(t)
  <2>1. CASE lk.h
    BY <1>23, <2>1, ZenonT(60) DEF wrlock_handover, Keeps, Gains
  <2>2. CASE ~(lk.h)
    BY <1>23, <2>2 DEF wrlock_handover, Keeps, Gains
  <2> QED
    BY <2>1, <2>2
<1>24. CASE wrlock_reload(t)
  BY <1>24 DEF wrlock_reload, Keeps
<1>25. CASE wrlock_block(t)
  BY <1>25, SMTT(60) DEF wrlock_block, Keeps
<1>26. CASE wrlock_futex(t)
  BY <1>26, SMTT(60) DEF wrlock_futex, FutexWait, Wait, Keeps
<1>27. CASE wrlock_late(t)
  <2>1. CASE PreferWriter /\ lk.h /\ lk.w = 1
    BY <1>27, <2>1, ZenonT(60) DEF wrlock_late, Keeps, Gains
  <2>2. CASE ~(PreferWriter /\ lk.h /\ lk.w = 1)
    BY <1>27, <2>2 DEF wrlock_late, Keeps, Gains
  <2> QED
    BY <2>1, <2>2
<1>28. CASE wrlock_enable(t)
  BY <1>28, ZenonT(60) DEF wrlock_enable, WriteLocked, Keeps, Locks
<1>29. CASE wrlock_start(t)
  BY <1>29 DEF wrlock_start, Keeps
<1>30. CASE wrlock_phase(t)
  BY <1>30 DEF wrlock_phase, WriteLocked, Locks
<1>31. CASE wrlock_wait(t)
  BY <1>31 DEF wrlock_wait, WriteLocked, Keeps, Locks
<1>32. CASE wrlock_wait_futex(t)
  BY <1>32 DEF wrlock_wait_futex, FutexWait, Wait, Keeps
<1>33. CASE wrlock_check(t)
  BY <1>33 DEF wrlock_check, Keeps
<1>34. CASE wrlock_giveup(t)
  BY <1>34, SMTT(60) DEF wrlock_giveup, Keeps
<1>35. CASE wrlock_giveup_look(t)
  BY <1>35 DEF wrlock_giveup_look, Keeps
<1>36. CASE wrlock_giveup_exchange(t)
  BY <1>36, ZenonT(60) DEF wrlock_giveup_exchange, TakeWritersFutex, Keeps
<1>37. CASE wrlock_giveup_handover(t)
  BY <1>37, ZenonT(60) DEF wrlock_giveup_handover, Keeps, Loses
<1>38. CASE wrlock_giveup_release(t)
  BY <1>38, ZenonT(60) DEF wrlock_giveup_release, Keeps, Loses
<1>39. CASE wrlock_giveup_restore(t)
  BY <1>39, SMTT(60) DEF wrlock_giveup_restore, Keeps
<1>40. CASE wrlock_spin(t)
  BY <1>40 DEF wrlock_spin, WriteLocked, Locks
<1>41. CASE trywrlock(t)
  BY <1>41 DEF trywrlock, Gains, MayWrite
<1>42. CASE trywrlock_enable(t)
  BY <1>42, ZenonT(60) DEF trywrlock_enable, WriteLocked, Keeps, Locks
<1>43. CASE wrunlock(t)
  BY <1>43 DEF wrunlock, Unlocks
<1>44. CASE wrunlock_handover(t)
  BY <1>44, ZenonT(60) DEF wrunlock_handover, Keeps, Loses
<1>45. CASE wrunlock_release(t)
  BY <1>45 DEF wrunlock_release, Loses
<1>46. CASE wrunlock_phase(t)
  BY <1>46 DEF wrunlock_phase, Keeps
<1> QED
  BY <1>1, <1>2, <1>3, <1>4, <1>5, <1>6, <1>7, <1>8, <1>9, <1>10, <1>11, <1>12, <1>13,
     <1>14, <1>15, <1>16, <1>17, <1>18, <1>19, <1>20, <1>21, <1>22, <1>23, <1>24, <1>25,
     <1>26, <1>27, <1>28, <1>29, <1>30, <1>31, <1>32, <1>33, <1>34, <1>35, <1>36, <1>37,
     <1>38, <1>39, <1>40, <1>41, <1>42, <1>43, <1>44, <1>45, <1>46, ZenonT(60) DEF Call,
     Step, Environment

-----------------------------------------------------------------------------
(* The three ways in which a step of t can change what it has in __readers. *)
CountMoves(t) ==
  \/ Stake(t)' = Stake(t) /\ lk'.r = lk.r
  \/ Stake(t)' = Stake(t) + 1 /\ lk'.r = lk.r + 1
  \/ Stake(t)' = Stake(t) - 1 /\ lk'.r = lk.r - 1

(* What a thread has in __readers is a natural number.                      *)
LEMMA StakeType ==
  ASSUME TypeOK
  PROVE  \A t \in Threads : Stake(t) \in Nat
BY DEF TypeOK, Stake

(* Each of them keeps the count right.                                      *)
LEMMA MovesCountOK ==
  ASSUME TypeOK, TypeOK', CountOK, NEW t \in Threads, Others(t), CountMoves(t)
  PROVE  CountOK'
<1> DEFINE S == [u \in Threads |-> Stake(u)]
           Z == [u \in Threads |-> Stake(u)']
           T == {x \in Threads \X Nat : x[2] < S[x[1]]}
           V == {x \in Threads \X Nat : x[2] < Z[x[1]]}
<1>1. Tokens = T /\ Tokens' = V
  BY DEF Tokens
<1>2. S \in [Threads -> Nat] /\ Z \in [Threads -> Nat]
  <2>1. \A u \in Threads : Stake(u) \in Nat
    BY StakeType
  <2>2. \A u \in Threads : Stake(u)' \in Nat
    BY DEF TypeOK, Stake
  <2> QED
    BY <2>1, <2>2
<1>3. \A u \in Threads \ {t} : Z[u] = S[u]
  BY DEF Others, Stake
<1>4. S[t] = Stake(t) /\ Z[t] = Stake(t)'
  OBVIOUS
<1>5. IsFiniteSet(T) /\ lk.r = Cardinality(T)
  BY <1>1 DEF CountOK
<1> HIDE DEF S, Z
<1>6. CASE Z[t] = S[t] /\ lk'.r = lk.r
  <2>1. V = T
    BY <1>2, <1>3, <1>6
  <2> QED
    BY <1>1, <1>5, <1>6, <2>1 DEF CountOK
<1>7. CASE Z[t] = S[t] + 1 /\ lk'.r = lk.r + 1
  <2>1. V = T \cup {<<t, S[t]>>} /\ <<t, S[t]>> \notin T
    BY <1>2, <1>3, <1>7
  <2> HIDE DEF T, V
  <2>2. IsFiniteSet(V) /\ Cardinality(V) = Cardinality(T) + 1
    BY <1>5, <2>1, FS_AddElement, ZenonT(60)
  <2> QED
    BY <1>1, <1>5, <1>7, <2>2, SMTT(60) DEF CountOK
<1>8. CASE Z[t] = S[t] - 1 /\ lk'.r = lk.r - 1
  <2>1. V = T \ {<<t, Z[t]>>} /\ <<t, Z[t]>> \in T
    BY <1>2, <1>3, <1>8
  <2> HIDE DEF T, V
  <2>2. IsFiniteSet(V) /\ Cardinality(V) = Cardinality(T) - 1
    BY <1>5, <2>1, FS_RemoveElement, ZenonT(60)
  <2> QED
    BY <1>1, <1>5, <1>8, <2>2 DEF CountOK
<1> QED
  BY <1>4, <1>6, <1>7, <1>8 DEF CountMoves

(* With __readers at 0 nobody has or awaits a read lock.                    *)
LEMMA NoReaders ==
  ASSUME TypeOK, CountOK, lk.r = 0, NEW u \in Threads
  PROVE  held[u] = 0 /\ pc[u] \notin Counted
<1>1. Tokens = {}
  BY FS_EmptySet, ZenonT(60) DEF CountOK
<1>2. Stake(u) \in Nat
  BY StakeType
<1>3. ~(0 < Stake(u))
  <2>1. <<u, 0>> \notin Tokens /\ <<u, 0>> \in Threads \X Nat
    BY <1>1
  <2> QED
    BY <2>1 DEF Tokens
<1> QED
  BY <1>2, <1>3 DEF Stake, TypeOK

(* With __readers at 1 a thread that has a read lock is the only reader.    *)
LEMMA OneReader ==
  ASSUME TypeOK, CountOK, lk.r = 1, NEW t \in Threads, held[t] > 0
  PROVE  /\ held[t] = 1 /\ pc[t] \notin Counted
         /\ \A u \in Threads \ {t} : held[u] = 0 /\ pc[u] \notin Counted
<1>1. PICK x : Tokens = {x}
  BY FS_Singleton, ZenonT(60) DEF CountOK
<1>2. \A u \in Threads : Stake(u) \in Nat
  BY StakeType
<1>3. \A u \in Threads, i \in Nat : i < Stake(u) => <<u, i>> = x
  <2>1. \A u \in Threads, i \in Nat : i < Stake(u) => <<u, i>> \in Tokens
    BY DEF Tokens
  <2> QED
    BY <1>1, <2>1
<1>4. Stake(t) > 0
  BY <1>2 DEF Stake, TypeOK
<1>5. <<t, 0>> = x
  BY <1>2, <1>3, <1>4
<1>6. Stake(t) = 1
  <2>1. ~(1 < Stake(t))
    BY <1>3, <1>5
  <2> QED
    BY <1>2, <1>4, <2>1
<1>7. \A u \in Threads \ {t} : Stake(u) = 0
  <2>1. \A u \in Threads \ {t} : ~(0 < Stake(u))
    BY <1>3, <1>5
  <2> QED
    BY <1>2, <2>1
<1> QED
  BY <1>6, <1>7 DEF Stake, TypeOK

(* Every step is one of them.                                               *)
LEMMA StepCountMoves ==
  ASSUME TypeOK, NEW t \in Threads, Call(t) \/ Step(t) \/ Environment(t)
  PROVE  CountMoves(t)
<1> USE DEF CountMoves, Stake, Counted, RdLoop, TypeOK, Fields, Goto, Return
<1>1. CASE futex_wake(t)
  BY <1>1, SMTT(60) DEF futex_wake
<1>2. CASE futex_wait_woken(t)
  BY <1>2, WaitPlaces, SMTT(60) DEF futex_wait_woken
<1>3. CASE futex_wait_ends(t)
  BY <1>3, WaitPlaces, SMTT(60) DEF futex_wait_ends
<1>4. CASE futex_wait_expired(t)
  BY <1>4 DEF futex_wait_expired
<1>5. CASE rdlock_prefer(t)
  BY <1>5, SMTT(60) DEF rdlock_prefer, MayRead
<1>6. CASE rdlock_add(t)
  BY <1>6, SMTT(60) DEF rdlock_add, Registered, ReadLocked, MayRead
<1>7. CASE rdlock_rwaiting(t)
  BY <1>7 DEF rdlock_rwaiting, FutexWait, Wait
<1>8. CASE rdlock_overflow(t)
  BY <1>8 DEF rdlock_overflow, Registered, ReadLocked
<1>9. CASE rdlock_start(t)
  BY <1>9 DEF rdlock_start
<1>10. CASE rdlock_phase(t)
  BY <1>10 DEF rdlock_phase, ReadLocked
<1>11. CASE rdlock_wait(t)
  BY <1>11, SMTT(60) DEF rdlock_wait, ReadLocked
<1>12. CASE rdlock_futex(t)
  BY <1>12 DEF rdlock_futex, FutexWait, Wait
<1>13. CASE rdlock_check(t)
  BY <1>13 DEF rdlock_check
<1>14. CASE rdlock_late(t)
  BY <1>14 DEF rdlock_late
<1>15. CASE rdlock_spin(t)
  BY <1>15 DEF rdlock_spin, ReadLocked
<1>16. CASE tryrdlock(t)
  BY <1>16 DEF tryrdlock, ReadLocked, MayRead
<1>17. CASE rdunlock(t)
  BY <1>17 DEF rdunlock
<1>18. CASE rdunlock_phase(t)
  BY <1>18 DEF rdunlock_phase
<1>19. CASE wrlock(t)
  BY <1>19 DEF wrlock, MayWrite
<1>20. CASE wrlock_register(t)
  BY <1>20 DEF wrlock_register
<1>21. CASE wrlock_try(t)
  BY <1>21 DEF wrlock_try
<1>22. CASE wrlock_unregister(t)
  BY <1>22 DEF wrlock_unregister
<1>23. CASE wrlock_handover(t)
  BY <1>23, ZenonT(60) DEF wrlock_handover
<1>24. CASE wrlock_reload(t)
  BY <1>24 DEF wrlock_reload
<1>25. CASE wrlock_block(t)
  BY <1>25, SMTT(60) DEF wrlock_block
<1>26. CASE wrlock_futex(t)
  BY <1>26 DEF wrlock_futex, FutexWait, Wait
<1>27. CASE wrlock_late(t)
  BY <1>27 DEF wrlock_late
<1>28. CASE wrlock_enable(t)
  BY <1>28, ZenonT(60) DEF wrlock_enable, WriteLocked
<1>29. CASE wrlock_start(t)
  BY <1>29, SMTT(60) DEF wrlock_start
<1>30. CASE wrlock_phase(t)
  BY <1>30 DEF wrlock_phase, WriteLocked
<1>31. CASE wrlock_wait(t)
  BY <1>31, SMTT(60) DEF wrlock_wait, WriteLocked
<1>32. CASE wrlock_wait_futex(t)
  BY <1>32 DEF wrlock_wait_futex, FutexWait, Wait
<1>33. CASE wrlock_check(t)
  BY <1>33, SMTT(60) DEF wrlock_check
<1>34. CASE wrlock_giveup(t)
  BY <1>34, SMTT(60) DEF wrlock_giveup
<1>35. CASE wrlock_giveup_look(t)
  BY <1>35 DEF wrlock_giveup_look
<1>36. CASE wrlock_giveup_exchange(t)
  BY <1>36, ZenonT(60) DEF wrlock_giveup_exchange, TakeWritersFutex
<1>37. CASE wrlock_giveup_handover(t)
  BY <1>37, SMTT(60) DEF wrlock_giveup_handover
<1>38. CASE wrlock_giveup_release(t)
  BY <1>38, ZenonT(60) DEF wrlock_giveup_release
<1>39. CASE wrlock_giveup_restore(t)
  BY <1>39, SMTT(60) DEF wrlock_giveup_restore
<1>40. CASE wrlock_spin(t)
  BY <1>40 DEF wrlock_spin, WriteLocked
<1>41. CASE trywrlock(t)
  BY <1>41 DEF trywrlock, MayWrite
<1>42. CASE trywrlock_enable(t)
  BY <1>42, ZenonT(60) DEF trywrlock_enable, WriteLocked
<1>43. CASE wrunlock(t)
  BY <1>43 DEF wrunlock
<1>44. CASE wrunlock_handover(t)
  BY <1>44, SMTT(60) DEF wrunlock_handover
<1>45. CASE wrunlock_release(t)
  BY <1>45 DEF wrunlock_release
<1>46. CASE wrunlock_phase(t)
  BY <1>46 DEF wrunlock_phase
<1> QED
  BY <1>1, <1>2, <1>3, <1>4, <1>5, <1>6, <1>7, <1>8, <1>9, <1>10, <1>11, <1>12, <1>13,
     <1>14, <1>15, <1>16, <1>17, <1>18, <1>19, <1>20, <1>21, <1>22, <1>23, <1>24, <1>25,
     <1>26, <1>27, <1>28, <1>29, <1>30, <1>31, <1>32, <1>33, <1>34, <1>35, <1>36, <1>37,
     <1>38, <1>39, <1>40, <1>41, <1>42, <1>43, <1>44, <1>45, <1>46, ZenonT(60) DEF Call,
     Step, Environment

-----------------------------------------------------------------------------
(* What a step of t does to the phase: it stays, or turns into a read phase *)
(* when no other thread is the primary writer, or into a write phase when   *)
(* no other thread is a reader.                                             *)
PhaseMoves(t) ==
  \/ lk'.wp = lk.wp
  \/ lk.wp /\ ~lk'.wp /\ \A u \in Threads \ {t} : ~Primary(u)
  \/ ~lk.wp /\ lk'.wp /\ \A u \in Threads \ {t} : held[u] = 0 /\ pc[u] \notin Counted

(* The others' knowledge of the phase survives such a step.                 *)
LEMMA MovesPhaseOK ==
  ASSUME TypeOK, TypeOK', PhaseOK, NEW t \in Threads, Others(t), PrimaryMoves(t),
         PhaseMoves(t), PhaseAt(t)'
  PROVE  PhaseOK'
<1> SUFFICES ASSUME NEW u \in Threads \ {t}
             PROVE  PhaseAt(u)'
  BY DEF PhaseOK
<1>1. pc'[u] = pc[u] /\ me'[u] = me[u] /\ held'[u] = held[u]
  BY SMTT(60) DEF Others
<1>2. lk'.cur = u => lk.cur = u
  BY RWLockAssumption DEF PrimaryMoves, Keeps, Gains, Locks, Unlocks, Loses
<1>3. PhaseAt(u)
  BY SMTT(60) DEF PhaseOK
<1>4. lk.wp \in BOOLEAN /\ lk'.wp \in BOOLEAN /\ held[u] \in Nat
  BY SMTT(60) DEF TypeOK, Fields
<1>5. CASE lk'.wp = lk.wp
  BY <1>1, <1>2, <1>3, <1>5, SMTT(60) DEF PhaseAt
<1>6. CASE lk.wp /\ ~lk'.wp /\ ~Primary(u)
  BY <1>1, <1>2, <1>3, <1>6, SMTT(60) DEF PhaseAt, Primary, WpLoop
<1>7. CASE ~lk.wp /\ lk'.wp /\ held[u] = 0 /\ pc[u] \notin Counted
  BY <1>1, <1>2, <1>3, <1>4, <1>7 DEF PhaseAt, Counted, RdLoop
<1> QED
  BY <1>4, <1>5, <1>6, <1>7 DEF PhaseMoves

(* A thread that returns knows nothing of the phase.                        *)
LEMMA ReturnForgets ==
  ASSUME TypeOK, NEW t \in Threads, NEW q, Return(t, q)
  PROVE  ~me'[t].ready /\ pc'[t] \in {"idle", "wake"}
BY DEF Return, Goto, NoLocals, TypeOK

(* Every step is one of them.                                               *)
LEMMA StepPhaseMoves ==
  ASSUME TypeOK, PrimaryOK, PhaseOK, CountOK, NEW t \in Threads,
         Call(t) \/ Step(t) \/ Environment(t)
  PROVE  PhaseMoves(t)
<1> USE DEF PhaseMoves, TypeOK, Fields
<1>1. CASE futex_wake(t) \/ futex_wait_woken(t) \/ futex_wait_ends(t)
  BY <1>1, ZenonT(60) DEF futex_wake, futex_wait_woken, Wait, futex_wait_ends
<1>2. CASE futex_wait_expired(t) \/ rdlock_prefer(t) \/ rdlock_add(t)
  BY <1>2 DEF futex_wait_expired, rdlock_prefer, rdlock_add, Registered, ReadLocked
<1>3. CASE rdlock_rwaiting(t) \/ rdlock_overflow(t) \/ rdlock_phase(t)
  BY <1>3, ZenonT(60) DEF rdlock_rwaiting, FutexWait, Wait, rdlock_overflow, Registered,
     ReadLocked, rdlock_phase
<1>4. CASE rdlock_wait(t) \/ rdlock_futex(t) \/ rdlock_check(t)
  BY <1>4 DEF rdlock_wait, ReadLocked, rdlock_futex, FutexWait, Wait, rdlock_check
<1>5. CASE rdlock_late(t) \/ rdlock_spin(t) \/ rdunlock_phase(t)
  BY <1>5, ZenonT(60) DEF rdlock_late, rdlock_spin, ReadLocked, rdunlock_phase
<1>6. CASE wrlock(t) \/ wrlock_register(t) \/ wrlock_try(t)
  BY <1>6 DEF wrlock, wrlock_register, wrlock_try
<1>7. CASE wrlock_unregister(t) \/ wrlock_handover(t) \/ wrlock_reload(t)
  BY <1>7, ZenonT(60) DEF wrlock_unregister, wrlock_handover, wrlock_reload
<1>8. CASE wrlock_block(t) \/ wrlock_futex(t) \/ wrlock_late(t)
  BY <1>8, ZenonT(60) DEF wrlock_block, wrlock_futex, FutexWait, Wait, wrlock_late
<1>9. CASE wrlock_enable(t) \/ wrlock_phase(t) \/ wrlock_wait(t)
  BY <1>9, ZenonT(60) DEF wrlock_enable, WriteLocked, wrlock_phase, wrlock_wait
<1>10. CASE wrlock_wait_futex(t) \/ wrlock_check(t) \/ wrlock_giveup(t)
  BY <1>10 DEF wrlock_wait_futex, FutexWait, Wait, wrlock_check, wrlock_giveup
<1>11. CASE wrlock_giveup_look(t) \/ wrlock_giveup_exchange(t) \/
           wrlock_giveup_handover(t)
  BY <1>11, ZenonT(60) DEF wrlock_giveup_look, wrlock_giveup_exchange, TakeWritersFutex,
     wrlock_giveup_handover
<1>12. CASE wrlock_giveup_release(t) \/ wrlock_giveup_restore(t) \/ wrlock_spin(t)
  BY <1>12, ZenonT(60) DEF wrlock_giveup_release, wrlock_giveup_restore, wrlock_spin,
     WriteLocked
<1>13. CASE trywrlock_enable(t) \/ wrunlock(t) \/ wrunlock_handover(t)
  BY <1>13, ZenonT(60) DEF trywrlock_enable, WriteLocked, wrunlock, wrunlock_handover
<1>14. CASE wrunlock_phase(t)
  BY <1>14 DEF wrunlock_phase
<1>15. CASE rdlock_start(t)
  BY <1>15 DEF rdlock_start, PrimaryOK, OnePrimary
<1>16. CASE tryrdlock(t)
  BY <1>16, ZenonT(60) DEF tryrdlock, PrimaryOK, OnePrimary
<1>17. CASE rdunlock(t)
  <2>1. CASE lk.r = 1
    BY <1>17, <2>1, OneReader DEF rdunlock
  <2>2. CASE lk.r # 1
    BY <1>17, <2>2 DEF rdunlock
  <2> QED
    BY <2>1, <2>2, ZenonT(60)
<1>18. CASE wrlock_start(t)
  BY <1>18, NoReaders DEF wrlock_start
<1>19. CASE trywrlock(t)
  BY <1>19, NoReaders, ZenonT(60) DEF trywrlock
<1>20. CASE wrunlock_release(t)
  <2>1. Primary(t)
    BY <1>20 DEF wrunlock_release, Primary
  <2>2. \A u \in Threads \ {t} : ~Primary(u)
    BY <2>1 DEF PrimaryOK, OnePrimary
  <2>3. lk.wp
    BY <1>20 DEF wrunlock_release, PhaseOK, PhaseAt
  <2> QED
    BY <1>20, <2>2, <2>3, ZenonT(60) DEF wrunlock_release
<1> QED
  BY <1>1, <1>2, <1>3, <1>4, <1>5, <1>6, <1>7, <1>8, <1>9, <1>10, <1>11, <1>12, <1>13,
     <1>14, <1>15, <1>16, <1>17, <1>18, <1>19, <1>20, ZenonT(60) DEF Call, Step,
     Environment

(* What t itself knows of the phase after a step.                           *)
LEMMA StepPhaseAt ==
  ASSUME TypeOK, PrimaryOK, PhaseOK, CountOK, NEW t \in Threads,
         Call(t) \/ Step(t) \/ Environment(t)
  PROVE  PhaseAt(t)'
<1>0. PhaseAt(t) /\ (lk.cur = t => pc[t] = "idle")
  BY DEF PhaseOK, PrimaryOK
<1> USE <1>0, RWLockAssumption DEF PhaseAt, RdLoop, WpLoop, TypeOK, Fields, Locals, Goto
<1>1. CASE futex_wake(t)
  BY <1>1, ReturnForgets, ZenonT(60) DEF futex_wake
<1>2. CASE futex_wait_woken(t)
  BY <1>2, SMTT(60) DEF futex_wait_woken, Wait
<1>3. CASE futex_wait_ends(t)
  BY <1>3, SMTT(60) DEF futex_wait_ends, Wait
<1>4. CASE futex_wait_expired(t)
  BY <1>4 DEF futex_wait_expired
<1>5. CASE rdlock_prefer(t)
  BY <1>5, ZenonT(60) DEF rdlock_prefer, MayRead
<1>6. CASE rdlock_add(t)
  BY <1>6, ReturnForgets, ZenonT(60) DEF rdlock_add, Registered, ReadLocked, MayRead
<1>7. CASE rdlock_rwaiting(t)
  BY <1>7, SMTT(60) DEF rdlock_rwaiting, FutexWait, Wait
<1>8. CASE rdlock_overflow(t)
  BY <1>8, ReturnForgets, ZenonT(60) DEF rdlock_overflow, Registered, ReadLocked
<1>9. CASE rdlock_start(t)
  BY <1>9, SMTT(60) DEF rdlock_start
<1>10. CASE rdlock_phase(t)
  BY <1>10, ReturnForgets, ZenonT(60) DEF rdlock_phase, ReadLocked
<1>11. CASE rdlock_wait(t)
  BY <1>11, ReturnForgets, ZenonT(60) DEF rdlock_wait, ReadLocked
<1>12. CASE rdlock_futex(t)
  BY <1>12, SMTT(60) DEF rdlock_futex, FutexWait, Wait
<1>13. CASE rdlock_check(t)
  BY <1>13 DEF rdlock_check
<1>14. CASE rdlock_late(t)
  BY <1>14, ReturnForgets, ZenonT(60) DEF rdlock_late
<1>15. CASE rdlock_spin(t)
  BY <1>15, ReturnForgets, ZenonT(60) DEF rdlock_spin, ReadLocked
<1>16. CASE tryrdlock(t)
  BY <1>16, ReturnForgets, ZenonT(60) DEF tryrdlock, ReadLocked, MayRead
<1>17. CASE rdunlock(t)
  <2>1. ~me'[t].ready /\ pc'[t] \in {"idle", "wake", "ru_phase"}
    <3> DEFINE owed == WakeIf(lk.rw /\ lk.r = 1, "readers")
    <3>1. pc[t] = "idle" /\ ~me[t].ready
      BY <1>17 DEF rdunlock
    <3>2. \/ Return(t, owed)
          \/ Goto(t, "ru_phase") /\ me' = [me EXCEPT ![t].owed = owed]
      BY <1>17, SMTT(60) DEF rdunlock
    <3> HIDE DEF owed
    <3>3. CASE Return(t, owed)
      BY <3>3, ReturnForgets
    <3>4. CASE Goto(t, "ru_phase") /\ me' = [me EXCEPT ![t].owed = owed]
      BY <3>1, <3>4
    <3> QED
      BY <3>2, <3>3, <3>4
  <2>2. lk'.cur # t
    BY <1>17, SMTT(60) DEF rdunlock
  <2>3. held'[t] > 0 => ~lk'.wp
    <3>1. CASE lk.r = 1
      BY <1>17, <3>1, OneReader DEF rdunlock
    <3>2. CASE lk.r # 1
      BY <1>17, <3>2 DEF rdunlock
    <3> QED
      BY <3>1, <3>2
  <2> QED
    BY <2>1, <2>2, <2>3
<1>18. CASE rdunlock_phase(t)
  BY <1>18, ReturnForgets DEF rdunlock_phase
<1>19. CASE wrlock(t)
  BY <1>19 DEF wrlock, MayWrite
<1>20. CASE wrlock_register(t)
  BY <1>20 DEF wrlock_register
<1>21. CASE wrlock_try(t)
  <2>1. lk'.wp = lk.wp /\ lk'.cur = lk.cur /\ held'[t] = held[t]
    BY <1>21 DEF wrlock_try
  <2>2. ~me[t].ready /\ me'[t].ready = me[t].ready
    BY <1>21 DEF wrlock_try
  <2>3. \/ pc'[t] \in {"wr_hand", "wr_block"}
        \/ pc'[t] \in {"wr_leave", "wr_enable"} /\ me'[t].seen = lk.wp
    BY <1>21 DEF wrlock_try
  <2> QED
    BY <1>21, <2>1, <2>2, <2>3 DEF wrlock_try
<1>22. CASE wrlock_unregister(t)
  BY <1>22 DEF wrlock_unregister
<1>23. CASE wrlock_handover(t)
  BY <1>23, ZenonT(60) DEF wrlock_handover
<1>24. CASE wrlock_reload(t)
  BY <1>24 DEF wrlock_reload
<1>25. CASE wrlock_block(t)
  <2>1. lk'.wp = lk.wp /\ lk'.cur = lk.cur /\ held'[t] = held[t]
    BY <1>25 DEF wrlock_block
  <2>2. ~me[t].ready /\ me'[t].ready = me[t].ready
    BY <1>25 DEF wrlock_block
  <2>3. pc'[t] \in {"wr_futex", "wr_try"}
    BY <1>25, SMTT(60) DEF wrlock_block
  <2> QED
    BY <1>25, <2>1, <2>2, <2>3, SMTT(60) DEF wrlock_block
<1>26. CASE wrlock_futex(t)
  BY <1>26 DEF wrlock_futex, FutexWait, Wait
<1>27. CASE wrlock_late(t)
  BY <1>27, ReturnForgets, ZenonT(60) DEF wrlock_late
<1>28. CASE wrlock_enable(t)
  <2>1. CASE me[t].seen
    BY <1>28, <2>1, ReturnForgets, ZenonT(60) DEF wrlock_enable, WriteLocked
  <2>2. CASE ~(me[t].seen)
    BY <1>28, <2>2, ReturnForgets, ZenonT(60) DEF wrlock_enable, WriteLocked
  <2> QED
    BY <2>1, <2>2
<1>29. CASE wrlock_start(t)
  <2>1. CASE lk.r = 0
    BY <1>29, <2>1, NoReaders DEF wrlock_start
  <2>2. CASE ~(lk.r = 0)
    BY <1>29, <2>2 DEF wrlock_start
  <2> QED
    BY <2>1, <2>2
<1>30. CASE wrlock_phase(t)
  BY <1>30, ReturnForgets, ZenonT(60) DEF wrlock_phase, WriteLocked
<1>31. CASE wrlock_wait(t)
  <2>1. CASE me[t].ready
    BY <1>31, <2>1, ReturnForgets, ZenonT(60) DEF wrlock_wait, WriteLocked
  <2>2. CASE ~(me[t].ready)
    BY <1>31, <2>2, ReturnForgets, ZenonT(60) DEF wrlock_wait, WriteLocked
  <2> QED
    BY <2>1, <2>2
<1>32. CASE wrlock_wait_futex(t)
  BY <1>32, SMTT(60) DEF wrlock_wait_futex, FutexWait, Wait
<1>33. CASE wrlock_check(t)
  BY <1>33, SMTT(60) DEF wrlock_check
<1>34. CASE wrlock_giveup(t)
  BY <1>34, SMTT(60) DEF wrlock_giveup
<1>35. CASE wrlock_giveup_look(t)
  BY <1>35, SMTT(60) DEF wrlock_giveup_look
<1>36. CASE wrlock_giveup_exchange(t)
  <2>1. lk'.wp = lk.wp /\ lk'.cur = lk.cur /\ held'[t] = held[t]
    BY <1>36, ZenonT(60) DEF wrlock_giveup_exchange, TakeWritersFutex
  <2>2. me'[t].ready = me[t].ready
    BY <1>36 DEF wrlock_giveup_exchange, TakeWritersFutex
  <2>3. pc[t] \in {"wl_hand", "wl_take"} /\ pc'[t] \in {"wl_set", "wl_drop"}
    BY <1>36 DEF wrlock_giveup_exchange, TakeWritersFutex
  <2> QED
    BY <2>1, <2>2, <2>3
<1>37. CASE wrlock_giveup_handover(t)
  BY <1>37, ReturnForgets, ZenonT(60) DEF wrlock_giveup_handover
<1>38. CASE wrlock_giveup_release(t)
  BY <1>38, ReturnForgets, ZenonT(60) DEF wrlock_giveup_release
<1>39. CASE wrlock_giveup_restore(t)
  BY <1>39 DEF wrlock_giveup_restore
<1>40. CASE wrlock_spin(t)
  BY <1>40, ReturnForgets, ZenonT(60) DEF wrlock_spin, WriteLocked
<1>41. CASE trywrlock(t)
  BY <1>41 DEF trywrlock, MayWrite
<1>42. CASE trywrlock_enable(t)
  <2>1. CASE me[t].seen
    BY <1>42, <2>1, ReturnForgets, ZenonT(60) DEF trywrlock_enable, WriteLocked
  <2>2. CASE ~(me[t].seen)
    BY <1>42, <2>2, ReturnForgets, ZenonT(60) DEF trywrlock_enable, WriteLocked
  <2> QED
    BY <2>1, <2>2
<1>43. CASE wrunlock(t)
  BY <1>43 DEF wrunlock
<1>44. CASE wrunlock_handover(t)
  BY <1>44, ReturnForgets, ZenonT(60) DEF wrunlock_handover
<1>45. CASE wrunlock_release(t)
  BY <1>45, ReturnForgets, ZenonT(60) DEF wrunlock_release
<1>46. CASE wrunlock_phase(t)
  BY <1>46, ReturnForgets, ZenonT(60) DEF wrunlock_phase
<1> QED
  BY <1>1, <1>2, <1>3, <1>4, <1>5, <1>6, <1>7, <1>8, <1>9, <1>10, <1>11, <1>12, <1>13,
     <1>14, <1>15, <1>16, <1>17, <1>18, <1>19, <1>20, <1>21, <1>22, <1>23, <1>24, <1>25,
     <1>26, <1>27, <1>28, <1>29, <1>30, <1>31, <1>32, <1>33, <1>34, <1>35, <1>36, <1>37,
     <1>38, <1>39, <1>40, <1>41, <1>42, <1>43, <1>44, <1>45, <1>46, ZenonT(60) DEF Call,
     Step, Environment

-----------------------------------------------------------------------------
(* Where a thread waits for a read lock and where for the write lock.       *)
ReadingAt == Counted \cup {"rd_prefer", "rw_wait", "rw_sleep", "rd_add"}

WritingAt ==
  WpLoop \cup
  {"wr_register", "wr_try", "wr_leave", "wr_hand", "wr_reload", "wr_block",
   "wr_futex", "wr_sleep", "wr_late", "wr_enable", "wr_start", "wr_phase",
   "tw_enable"}

(* What a client sees of a step of t: nothing; that t asks; that it has a   *)
(* read lock or the write lock; that it gives up; that it releases one.     *)
Silent(t) ==
  /\ pc[t] \in ReadingAt <=> pc'[t] \in ReadingAt
  /\ pc[t] \in WritingAt <=> pc'[t] \in WritingAt
  /\ held' = held /\ lk'.cur = lk.cur

Asks(t) ==
  /\ pc[t] \notin ReadingAt \cup WritingAt
  /\ pc'[t] \in ReadingAt \cup WritingAt
  /\ held' = held /\ lk'.cur = lk.cur

ReadLocks(t) ==
  /\ pc[t] \notin WritingAt /\ pc'[t] \notin ReadingAt \cup WritingAt
  /\ lk.cur = Nobody /\ lk'.cur = lk.cur
  /\ held' = [held EXCEPT ![t] = @ + 1]

WriteLocks(t) ==
  /\ pc[t] \notin ReadingAt /\ pc'[t] \notin ReadingAt \cup WritingAt
  /\ lk.cur = Nobody /\ \A u \in Threads : held[u] = 0
  /\ lk'.cur = t /\ held' = held

GivesUp(t) ==
  /\ pc[t] \in ReadingAt \cup WritingAt
  /\ pc'[t] \notin ReadingAt \cup WritingAt
  /\ held' = held /\ lk'.cur = lk.cur

Releases(t) ==
  /\ pc[t] \notin ReadingAt \cup WritingAt
  /\ pc'[t] \notin ReadingAt \cup WritingAt
  /\ \/ lk.cur = t /\ lk'.cur = Nobody /\ held' = held
     \/ held[t] > 0 /\ held' = [held EXCEPT ![t] = @ - 1] /\ lk'.cur = lk.cur

ClientMoves(t) ==
  Silent(t) \/ Asks(t) \/ ReadLocks(t) \/ WriteLocks(t) \/ GivesUp(t) \/ Releases(t)

(* Each of them is a step of the abstract reader-writer lock.               *)
LEMMA MovesImplement ==
  ASSUME NEW t \in Threads, Others(t), ClientMoves(t)
  PROVE  [Abstract!ANext]_(Abstract!avars)
<1> DEFINE A == pc[t] \in ReadingAt
           B == pc'[t] \in ReadingAt
           C == pc[t] \in WritingAt
           D == pc'[t] \in WritingAt
<1>1. Reading = {u \in Threads : pc[u] \in ReadingAt}
  BY DEF Reading, ReadingAt, Counted, RdLoop
<1>2. Reading' = {u \in Threads : pc'[u] \in ReadingAt}
  BY DEF Reading, ReadingAt, Counted, RdLoop
<1>3. Writing = {u \in Threads : pc[u] \in WritingAt}
  BY DEF Writing, WritingAt, WpLoop
<1>4. Writing' = {u \in Threads : pc'[u] \in WritingAt}
  BY DEF Writing, WritingAt, WpLoop
<1>5. ReadingAt \cap WritingAt = {}
  BY DEF ReadingAt, Counted, RdLoop, WritingAt, WpLoop
<1>6. \A u \in Threads \ {t} : pc'[u] = pc[u]
  BY SMTT(60) DEF Others
<1>7. /\ A <=> t \in Reading
      /\ C <=> t \in Writing
      /\ Reading' = IF B THEN Reading \cup {t} ELSE Reading \ {t}
      /\ Writing' = IF D THEN Writing \cup {t} ELSE Writing \ {t}
  BY <1>1, <1>2, <1>3, <1>4, <1>6
<1>8. CASE Silent(t)
  BY <1>7, <1>8, SMTT(60) DEF Silent, Abstract!avars
<1>9. CASE Asks(t)
  BY <1>5, <1>7, <1>9 DEF Asks, Abstract!ANext, Abstract!Ask
<1>10. CASE ReadLocks(t)
  BY <1>7, <1>10, ZenonT(60) DEF ReadLocks, Abstract!ANext, Abstract!AcquireRead
<1>11. CASE WriteLocks(t)
  BY <1>7, <1>11, SMTT(60) DEF WriteLocks, Abstract!ANext, Abstract!AcquireWrite
<1>12. CASE GivesUp(t)
  BY <1>7, <1>12, SMTT(60) DEF GivesUp, Abstract!ANext, Abstract!GiveUp
<1>13. CASE Releases(t)
  BY <1>7, <1>13 DEF Releases, Abstract!ANext, Abstract!Release
<1> QED
  BY <1>8, <1>9, <1>10, <1>11, <1>12, <1>13 DEF ClientMoves

(* In a read phase no writer has the lock.                                  *)
LEMMA ReadPhase ==
  ASSUME TypeOK, PhaseOK, ~lk.wp
  PROVE  lk.cur = Nobody
BY DEF TypeOK, Fields, PhaseOK, PhaseAt

(* In a write phase the primary writer is the only one with any lock.       *)
LEMMA WritePhase ==
  ASSUME TypeOK, PrimaryOK, PhaseOK, lk.wp, NEW t \in Threads, pc[t] \in PrimaryAt
  PROVE  lk.cur = Nobody /\ \A u \in Threads : held[u] = 0
<1>1. pc[t] # "idle" /\ Primary(t)
  BY SMTT(60) DEF PrimaryAt, WpLoop, Primary
<1>2. \A u \in Threads : lk.cur # u
  BY <1>1 DEF PrimaryOK, OnePrimary, Primary
<1>3. \A u \in Threads : held[u] = 0
  BY DEF PhaseOK, PhaseAt, TypeOK
<1> QED
  BY <1>2, <1>3, SMTT(60) DEF TypeOK, Fields

(* Every step is one of them.                                               *)
LEMMA StepClientMoves ==
  ASSUME TypeOK, PrimaryOK, PhaseOK, NEW t \in Threads,
         Call(t) \/ Step(t) \/ Environment(t)
  PROVE  ClientMoves(t)
<1>0. PhaseAt(t)
  BY DEF PhaseOK
<1> USE <1>0 DEF ClientMoves, ReadingAt, Counted, RdLoop, WritingAt, WpLoop, TypeOK,
    Fields, Goto, Return
<1>1. CASE futex_wake(t)
  BY <1>1, SMTT(60) DEF futex_wake, Silent
<1>2. CASE futex_wait_woken(t)
  BY <1>2, WaitPlaces, SMTT(60) DEF futex_wait_woken, Silent
<1>3. CASE futex_wait_ends(t)
  BY <1>3, WaitPlaces, SMTT(60) DEF futex_wait_ends, Silent, GivesUp
<1>4. CASE futex_wait_expired(t)
  BY <1>4, SMTT(60) DEF futex_wait_expired, Silent
<1>5. CASE rdlock_prefer(t)
  <2>1. CASE LetWriterPass
    BY <1>5, <2>1 DEF rdlock_prefer, Silent, Asks, MayRead
  <2>2. CASE ~(LetWriterPass)
    BY <1>5, <2>2, SMTT(60) DEF rdlock_prefer, Silent, Asks, MayRead
  <2> QED
    BY <2>1, <2>2
<1>6. CASE rdlock_add(t)
  <2>1. CASE lk.r + 1 >= ReaderOverflow
    BY <1>6, <2>1, ReadPhase DEF rdlock_add, Registered, ReadLocked, Silent, Asks,
       ReadLocks, MayRead, PhaseAt
  <2>2. CASE ~(lk.r + 1 >= ReaderOverflow)
    BY <1>6, <2>2, ReadPhase DEF rdlock_add, Registered, ReadLocked, Silent, Asks,
       ReadLocks, MayRead, PhaseAt
  <2> QED
    BY <2>1, <2>2, ZenonT(60)
<1>7. CASE rdlock_rwaiting(t)
  BY <1>7, ZenonT(60) DEF rdlock_rwaiting, FutexWait, Wait, Silent
<1>8. CASE rdlock_overflow(t)
  <2>1. CASE lk.r >= ReaderOverflow
    BY <1>8, <2>1, ReadPhase DEF rdlock_overflow, Registered, ReadLocked, Silent,
       ReadLocks, GivesUp, PhaseAt
  <2>2. CASE ~(lk.r >= ReaderOverflow)
    BY <1>8, <2>2, ReadPhase DEF rdlock_overflow, Registered, ReadLocked, Silent,
       ReadLocks, GivesUp, PhaseAt
  <2> QED
    BY <2>1, <2>2, ZenonT(60)
<1>9. CASE rdlock_start(t)
  BY <1>9 DEF rdlock_start, Silent
<1>10. CASE rdlock_phase(t)
  BY <1>10, ReadPhase, SMTT(60) DEF rdlock_phase, ReadLocked, ReadLocks, PhaseAt
<1>11. CASE rdlock_wait(t)
  <2>1. CASE lk.wpf = 1
    BY <1>11, <2>1, ReadPhase DEF rdlock_wait, ReadLocked, Silent, ReadLocks, PhaseAt
  <2>2. CASE ~(lk.wpf = 1)
    BY <1>11, <2>2, ReadPhase, SMTT(60) DEF rdlock_wait, ReadLocked, Silent, ReadLocks,
       PhaseAt
  <2> QED
    BY <2>1, <2>2
<1>12. CASE rdlock_futex(t)
  BY <1>12 DEF rdlock_futex, FutexWait, Wait, Silent
<1>13. CASE rdlock_check(t)
  BY <1>13, SMTT(60) DEF rdlock_check, Silent
<1>14. CASE rdlock_late(t)
  <2>1. CASE lk.wp
    BY <1>14, <2>1 DEF rdlock_late, Silent, GivesUp
  <2>2. CASE ~(lk.wp)
    BY <1>14, <2>2 DEF rdlock_late, Silent, GivesUp
  <2> QED
    BY <2>1, <2>2
<1>15. CASE rdlock_spin(t)
  BY <1>15, ReadPhase DEF rdlock_spin, ReadLocked, ReadLocks, PhaseAt
<1>16. CASE tryrdlock(t)
  <2>1. CASE lk.wp
    BY <1>16, <2>1, ReadPhase DEF tryrdlock, ReadLocked, Asks, ReadLocks, MayRead,
       PhaseAt
  <2>2. CASE ~(lk.wp)
    BY <1>16, <2>2, ReadPhase, SMTT(60) DEF tryrdlock, ReadLocked, Asks, ReadLocks, MayRead,
       PhaseAt
  <2> QED
    BY <2>1, <2>2
<1>17. CASE rdunlock(t)
  <2>1. CASE lk.wp \/ (lk.r = 1 /\ lk.wl)
    BY <1>17, <2>1 DEF rdunlock, Releases
  <2>2. CASE ~(lk.wp \/ (lk.r = 1 /\ lk.wl))
    BY <1>17, <2>2 DEF rdunlock, Releases
  <2> QED
    BY <2>1, <2>2
<1>18. CASE rdunlock_phase(t)
  BY <1>18, SMTT(60) DEF rdunlock_phase, Silent
<1>19. CASE wrlock(t)
  <2>1. CASE lk.wl
    BY <1>19, <2>1 DEF wrlock, Asks, MayWrite
  <2>2. CASE ~(lk.wl)
    BY <1>19, <2>2 DEF wrlock, Asks, MayWrite
  <2> QED
    BY <2>1, <2>2
<1>20. CASE wrlock_register(t)
  BY <1>20 DEF wrlock_register, Silent
<1>21. CASE wrlock_try(t)
  BY <1>21 DEF wrlock_try, Silent
<1>22. CASE wrlock_unregister(t)
  BY <1>22 DEF wrlock_unregister, Silent
<1>23. CASE wrlock_handover(t)
  BY <1>23, ZenonT(60) DEF wrlock_handover, Silent
<1>24. CASE wrlock_reload(t)
  BY <1>24 DEF wrlock_reload, Silent
<1>25. CASE wrlock_block(t)
  BY <1>25 DEF wrlock_block, Silent
<1>26. CASE wrlock_futex(t)
  BY <1>26, SMTT(60) DEF wrlock_futex, FutexWait, Wait, Silent
<1>27. CASE wrlock_late(t)
  <2>1. CASE PreferWriter /\ lk.h /\ lk.w = 1
    BY <1>27, <2>1 DEF wrlock_late, Silent, GivesUp
  <2>2. CASE ~(PreferWriter /\ lk.h /\ lk.w = 1)
    BY <1>27, <2>2, SMTT(60) DEF wrlock_late, Silent, GivesUp
  <2> QED
    BY <2>1, <2>2
<1>28. CASE wrlock_enable(t)
  <2>1. CASE me[t].seen
    BY <1>28, <2>1, WritePhase, ZenonT(60) DEF wrlock_enable, WriteLocked, Silent,
       WriteLocks, PhaseAt, PrimaryAt
  <2>2. CASE ~(me[t].seen)
    BY <1>28, <2>2, WritePhase, ZenonT(60) DEF wrlock_enable, WriteLocked, Silent,
       WriteLocks, PhaseAt, PrimaryAt
  <2> QED
    BY <2>1, <2>2
<1>29. CASE wrlock_start(t)
  BY <1>29 DEF wrlock_start, Silent
<1>30. CASE wrlock_phase(t)
  BY <1>30, WritePhase, SMTT(60) DEF wrlock_phase, WriteLocked, WriteLocks, PhaseAt,
     PrimaryAt
<1>31. CASE wrlock_wait(t)
  <2>1. CASE lk.wpf = 0
    BY <1>31, <2>1, WritePhase DEF wrlock_wait, WriteLocked, Silent, WriteLocks,
       PhaseAt, PrimaryAt
  <2>2. CASE ~(lk.wpf = 0)
    BY <1>31, <2>2, WritePhase, SMTT(60) DEF wrlock_wait, WriteLocked, Silent, WriteLocks,
       PhaseAt, PrimaryAt
  <2> QED
    BY <2>1, <2>2
<1>32. CASE wrlock_wait_futex(t)
  BY <1>32 DEF wrlock_wait_futex, FutexWait, Wait, Silent
<1>33. CASE wrlock_check(t)
  BY <1>33, SMTT(60) DEF wrlock_check, Silent
<1>34. CASE wrlock_giveup(t)
  BY <1>34, SMTT(60) DEF wrlock_giveup, Silent
<1>35. CASE wrlock_giveup_look(t)
  BY <1>35 DEF wrlock_giveup_look, Silent
<1>36. CASE wrlock_giveup_exchange(t)
  BY <1>36, ZenonT(60) DEF wrlock_giveup_exchange, TakeWritersFutex, Silent
<1>37. CASE wrlock_giveup_handover(t)
  BY <1>37 DEF wrlock_giveup_handover, Silent, GivesUp
<1>38. CASE wrlock_giveup_release(t)
  BY <1>38, ZenonT(60) DEF wrlock_giveup_release, Silent, GivesUp
<1>39. CASE wrlock_giveup_restore(t)
  BY <1>39 DEF wrlock_giveup_restore, Silent
<1>40. CASE wrlock_spin(t)
  BY <1>40, WritePhase DEF wrlock_spin, WriteLocked, WriteLocks, PhaseAt, PrimaryAt
<1>41. CASE trywrlock(t)
  BY <1>41 DEF trywrlock, Asks, MayWrite
<1>42. CASE trywrlock_enable(t)
  <2>1. CASE me[t].seen
    BY <1>42, <2>1, WritePhase, ZenonT(60) DEF trywrlock_enable, WriteLocked, Silent,
       WriteLocks, PhaseAt, PrimaryAt
  <2>2. CASE ~(me[t].seen)
    BY <1>42, <2>2, WritePhase, ZenonT(60) DEF trywrlock_enable, WriteLocked, Silent,
       WriteLocks, PhaseAt, PrimaryAt
  <2> QED
    BY <2>1, <2>2
<1>43. CASE wrunlock(t)
  BY <1>43 DEF wrunlock, Releases
<1>44. CASE wrunlock_handover(t)
  BY <1>44, SMTT(60) DEF wrunlock_handover, Silent
<1>45. CASE wrunlock_release(t)
  BY <1>45, SMTT(60) DEF wrunlock_release, Silent
<1>46. CASE wrunlock_phase(t)
  BY <1>46 DEF wrunlock_phase, Silent
<1> QED
  BY <1>1, <1>2, <1>3, <1>4, <1>5, <1>6, <1>7, <1>8, <1>9, <1>10, <1>11, <1>12, <1>13,
     <1>14, <1>15, <1>16, <1>17, <1>18, <1>19, <1>20, <1>21, <1>22, <1>23, <1>24, <1>25,
     <1>26, <1>27, <1>28, <1>29, <1>30, <1>31, <1>32, <1>33, <1>34, <1>35, <1>36, <1>37,
     <1>38, <1>39, <1>40, <1>41, <1>42, <1>43, <1>44, <1>45, <1>46, ZenonT(60) DEF Call,
     Step, Environment

-----------------------------------------------------------------------------
(* A new lock satisfies the invariant.                                      *)
LEMMA InitIInv ==
  ASSUME Init
  PROVE  IInv
<1>1. TypeOK
  BY DEF Init, TypeOK, Unlocked, Fields, NoLocals, Locals, Label
<1>2. PrimaryOK
  BY RWLockAssumption, ZenonT(60) DEF Init, PrimaryOK, OnePrimary, Primary, Unlocked
<1>3. PhaseOK
  BY RWLockAssumption, SMTT(60) DEF Init, PhaseOK, PhaseAt, Unlocked, NoLocals
<1>4. CountOK
  <2>1. Tokens = {}
    BY SMTT(60) DEF Init, Tokens, Stake, Counted, RdLoop
  <2> QED
    BY <2>1, FS_EmptySet, SMTT(60) DEF CountOK, Init, Unlocked
<1> QED
  BY <1>1, <1>2, <1>3, <1>4, SMTT(60) DEF IInv

(* Every step keeps it.                                                     *)
LEMMA StepIInv ==
  ASSUME IInv, [Next]_vars
  PROVE  IInv'
<1>1. CASE UNCHANGED vars
  BY <1>1, ZenonT(60) DEF vars, IInv, TypeOK, PrimaryOK, OnePrimary, Primary, PhaseOK,
     PhaseAt, CountOK, Tokens, Stake
<1>2. ASSUME NEW t \in Threads, Call(t) \/ Step(t) \/ Environment(t)
      PROVE  IInv'
  <2>1. TypeOK /\ PrimaryOK /\ PhaseOK /\ CountOK
    BY DEF IInv
  <2>2. lk' \in Fields /\ pc' \in [Threads -> Label] /\ held' \in [Threads -> Nat]
    BY <1>2, <2>1, StepFields, StepLabels, StepHeld
  <2>3. LocalsOK'
    BY <1>2, <2>1, StepLocals, SMTT(60)
  <2>4. TypeOK'
    BY <2>2, <2>3 DEF TypeOK, LocalsOK
  <2>5. Others(t)
    BY <1>2, <2>1, StepOthers
  <2>6. PrimaryMoves(t)
    BY <1>2, <2>1, StepPrimaryMoves
  <2>7. PrimaryOK'
    BY <2>1, <2>4, <2>5, <2>6, MovesPrimaryOK
  <2>8. PhaseMoves(t) /\ PhaseAt(t)'
    BY <1>2, <2>1, StepPhaseMoves, StepPhaseAt
  <2>9. PhaseOK'
    BY <2>1, <2>4, <2>5, <2>6, <2>8, MovesPhaseOK
  <2>10. CountOK'
    BY <1>2, <2>1, <2>4, <2>5, StepCountMoves, MovesCountOK
  <2> QED
    BY <2>4, <2>7, <2>9, <2>10 DEF IInv
<1> QED
  BY <1>1, <1>2, SMTT(60) DEF Next

(* The invariant holds in every reachable state of a lock.                  *)
THEOREM AlwaysIInv == Spec => []IInv
<1>1. Init => IInv
  BY InitIInv
<1>2. IInv /\ [Next]_vars => IInv'
  BY StepIInv
<1> QED
  BY <1>1, <1>2, PTL DEF Spec

(* WRLOCKED belongs to one writer, or is being handed over to one that is   *)
(* still registered, whatever hand-overs, time-outs and trylocks meet.      *)
THEOREM PrimaryAlwaysOne == Spec => []OnePrimary
<1>1. IInv => OnePrimary
  BY DEF IInv, PrimaryOK
<1> QED
  BY <1>1, AlwaysIInv, PTL

(* A writer has the lock alone, and a thread has what it asked for or gave  *)
(* up: rdlock, wrlock, their try and timed forms and unlock implement the   *)
(* abstract reader-writer lock.                                             *)
THEOREM RWLockIsRWLock == Spec => ImplementsRWLock
<1>1. Init => Abstract!AInit
  BY DEF Init, Abstract!AInit, Unlocked, Reading, Writing
<1>2. IInv /\ [Next]_vars => [Abstract!ANext]_(Abstract!avars)
  <2> SUFFICES ASSUME IInv, [Next]_vars
               PROVE  [Abstract!ANext]_(Abstract!avars)
    OBVIOUS
  <2>1. CASE UNCHANGED vars
    BY <2>1 DEF vars, Abstract!avars, Reading, Writing
  <2>2. ASSUME NEW t \in Threads, Call(t) \/ Step(t) \/ Environment(t)
        PROVE  [Abstract!ANext]_(Abstract!avars)
    BY <2>2, StepOthers, StepClientMoves, MovesImplement DEF IInv
  <2> QED
    BY <2>1, <2>2 DEF Next
<1> QED
  BY <1>1, <1>2, AlwaysIInv, PTL DEF Spec, ImplementsRWLock, Abstract!ASpec
-----------------------------------------------------------------------------
(* Where a thread that has a read lock may be.                              *)
Free == {"idle", "wake", "rd_add", "rd_undo", "ru_phase"}

RecursesFreely(t) == held[t] > 0 => pc[t] \in Free

(* A step leaves a thread with a read lock at such a place: it enters the   *)
(* others only without one, because a thread that has a read lock is in a   *)
(* read phase.                                                              *)
LEMMA StepRecursion ==
  ASSUME TypeOK, PhaseOK, NEW t \in Threads, Call(t) \/ Step(t) \/ Environment(t),
         RecursesFreely(t)
  PROVE  RecursesFreely(t)'
<1>1. /\ held \in [Threads -> Nat] /\ pc \in [Threads -> Label]
      /\ held[t] > 0 => ~lk.wp /\ pc[t] \in Free
  BY SMTT(60) DEF TypeOK, PhaseOK, PhaseAt, RecursesFreely
<1>2. ASSUME held' = held, pc[t] \notin Free \/ held[t] = 0
      PROVE  RecursesFreely(t)'
  BY <1>1, <1>2, SMTT(60) DEF RecursesFreely
<1>3. ASSUME pc'[t] \in Free
      PROVE  RecursesFreely(t)'
  BY <1>3 DEF RecursesFreely
<1> USE <1>1 DEF Goto, Return, Free
<1>4. CASE rdlock_rwaiting(t) \/ rdlock_start(t) \/ rdlock_futex(t) \/ rdlock_check(t)
  <2>1. held' = held /\ pc[t] \notin Free
    BY <1>4, SMTT(60) DEF rdlock_rwaiting, rdlock_start, rdlock_futex, rdlock_check,
       FutexWait
  <2> QED
    BY <1>2, <2>1
<1>5. CASE \/ wrlock_register(t) \/ wrlock_try(t) \/ wrlock_unregister(t)
           \/ wrlock_handover(t) \/ wrlock_reload(t) \/ wrlock_block(t)
           \/ wrlock_futex(t) \/ wrlock_start(t) \/ wrlock_wait_futex(t)
           \/ wrlock_check(t) \/ wrlock_giveup(t) \/ wrlock_giveup_look(t)
  <2>1. held' = held /\ pc[t] \notin Free
    BY <1>5, SMTT(60) DEF wrlock_register, wrlock_try, wrlock_unregister, wrlock_handover,
       wrlock_reload, wrlock_block, wrlock_futex, wrlock_start, wrlock_wait_futex,
       wrlock_check, wrlock_giveup, wrlock_giveup_look, FutexWait
  <2> QED
    BY <1>2, <2>1
<1>6. CASE \/ wrlock_late(t) \/ wrlock_enable(t) \/ wrlock_phase(t) \/ wrlock_wait(t)
           \/ wrlock_giveup_exchange(t) \/ wrlock_giveup_handover(t)
           \/ wrlock_giveup_release(t) \/ wrlock_giveup_restore(t) \/ wrlock_spin(t)
           \/ trywrlock_enable(t)
  <2>1. held' = held /\ pc[t] \notin Free
    BY <1>6, SMTT(60) DEF wrlock_late, wrlock_enable, wrlock_phase, wrlock_wait,
       wrlock_giveup_exchange, wrlock_giveup_handover, wrlock_giveup_release,
       wrlock_giveup_restore, wrlock_spin, trywrlock_enable, WriteLocked
  <2> QED
    BY <1>2, <2>1
<1>7. CASE \/ wrunlock_handover(t) \/ wrunlock_release(t) \/ wrunlock_phase(t)
           \/ rdlock_late(t)
  <2>1. held' = held /\ pc[t] \notin Free
    BY <1>7, SMTT(60) DEF wrunlock_handover, wrunlock_release, wrunlock_phase, rdlock_late
  <2> QED
    BY <1>2, <2>1
<1>8. CASE futex_wait_woken(t) \/ futex_wait_ends(t) \/ futex_wait_expired(t)
  <2>1. held' = held /\ pc[t] \notin Free
    BY <1>8, WaitPlaces, SMTT(60) DEF futex_wait_woken, futex_wait_ends, futex_wait_expired
  <2> QED
    BY <1>2, <2>1
<1>9. CASE wrlock(t) \/ trywrlock(t)
  <2>1. held' = held /\ held[t] = 0
    BY <1>9, SMTT(60) DEF wrlock, trywrlock, MayWrite
  <2> QED
    BY <1>2, <2>1
<1>10. CASE wrunlock(t)
  <2>1. lk.cur = t => lk.wp
    BY DEF PhaseOK, PhaseAt
  <2>2. held' = held /\ held[t] = 0
    BY <1>10, <2>1 DEF wrunlock
  <2> QED
    BY <1>2, <2>2
<1>11. CASE futex_wake(t) \/ rdlock_phase(t) \/ rdlock_spin(t) \/ rdunlock_phase(t)
  <2>1. pc'[t] \in Free
    BY <1>11, ZenonT(60) DEF futex_wake, rdlock_phase, rdlock_spin, rdunlock_phase,
       ReadLocked
  <2> QED
    BY <1>3, <2>1, SMTT(60)
<1>12. CASE rdunlock(t)
  <2>1. pc'[t] \in Free
    BY <1>12, ZenonT(60) DEF rdunlock
  <2> QED
    BY <1>3, <2>1
<1>13. CASE rdlock_wait(t)
  <2>1. (held' = held /\ pc[t] \notin Free) \/ pc'[t] \in Free
    BY <1>13 DEF rdlock_wait, ReadLocked
  <2> QED
    BY <1>2, <1>3, <2>1
<1>14. CASE rdlock_prefer(t)
  <2>1. held' = held /\ held[t] = 0
    BY <1>14 DEF rdlock_prefer, MayRead
  <2> QED
    BY <1>2, <2>1
<1>15. CASE rdlock_add(t)
  <2>1. (held' = held /\ held[t] = 0) \/ pc'[t] \in Free
    BY <1>15 DEF rdlock_add, Registered, ReadLocked
  <2> QED
    BY <1>2, <1>3, <2>1
<1>16. CASE rdlock_overflow(t)
  <2>1. (held' = held /\ held[t] = 0) \/ pc'[t] \in Free
    BY <1>16 DEF rdlock_overflow, Registered, ReadLocked
  <2> QED
    BY <1>2, <1>3, <2>1
<1>17. CASE tryrdlock(t)
  <2>1. (held' = held /\ held[t] = 0) \/ pc'[t] \in Free
    BY <1>17 DEF tryrdlock, ReadLocked
  <2> QED
    BY <1>2, <1>3, <2>1
<1> QED
  BY <1>4, <1>5, <1>6, <1>7, <1>8, <1>9, <1>10, <1>11, <1>12, <1>13, <1>14, <1>15,
     <1>16, <1>17, ZenonT(60) DEF Call, Step, Environment

(* A thread that has a read lock and asks for another is never made to wait *)
(* for a writer that waits for it, in any of the three kinds.               *)
THEOREM RecursionNeverWaits == Spec => []RecursionNeverBlocks
<1>1. Init => RecursionNeverBlocks
  BY DEF Init, RecursionNeverBlocks
<1>2. IInv /\ RecursionNeverBlocks /\ [Next]_vars => RecursionNeverBlocks'
  <2> SUFFICES ASSUME IInv, RecursionNeverBlocks, [Next]_vars, NEW u \in Threads
               PROVE  RecursesFreely(u)'
    BY DEF RecursionNeverBlocks, RecursesFreely, Free
  <2>1. RecursesFreely(u)
    BY DEF RecursionNeverBlocks, RecursesFreely, Free
  <2>2. CASE UNCHANGED vars
    BY <2>1, <2>2, SMTT(60) DEF vars, RecursesFreely
  <2>3. ASSUME NEW t \in Threads, Call(t) \/ Step(t) \/ Environment(t)
        PROVE  RecursesFreely(u)'
    <3>1. CASE u = t
      BY <2>1, <2>3, <3>1, StepRecursion, SMTT(60) DEF IInv
    <3>2. CASE u # t
      <4>1. Others(t)
        BY <2>3, StepOthers DEF IInv
      <4> QED
        BY <2>1, <3>2, <4>1 DEF Others, RecursesFreely
    <3> QED
      BY <3>1, <3>2
  <2> QED
    BY <2>2, <2>3 DEF Next
<1> QED
  BY <1>1, <1>2, AlwaysIInv, PTL DEF Spec
=============================================================================
