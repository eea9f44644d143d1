--------------------------- MODULE BarrierProofs ---------------------------
(***************************************************************************)
(* Proofs about barriers, for every set of threads, every count and every  *)
(* threshold: the reset is not concurrent with any use of the barrier,     *)
(* pthread_barrier_destroy waits for everybody, and the rounds are those   *)
(* of AbstractBarrier.  Clients are assumed not to destroy a barrier with  *)
(* its reset under way (see Barrier!DestroyAtThreshold).                   *)
(***************************************************************************)
EXTENDS Barrier, Integers, FiniteSetTheorems, TLAPS

M == max_in_before_reset

(* Where pthread_barrier_destroy waits for the reset that it has triggered. *)
Triggered == {"d_wait", "d_sleep", "d_load"}

ResetAt(t) == pc[t] \in Resetting

DestroyAt(t) == pc[t] \in Destroying

(* The positions taken since the last reset that count for leaving.         *)
Positions == IF in <= M THEN in ELSE M

(* At most one thread resets, and then nobody is inside: the last one to    *)
(* confirm its exit has brought OUT to the threshold.                       *)
ResetOK ==
  \A t \in Threads : ResetAt(t) =>
    /\ Inside = {}
    /\ \A u \in Threads : pc[u] # "d_out" /\ (ResetAt(u) => u = t)
    /\ stage # "destroyed"
    /\ stage = "live" => in >= M
    /\ in > 0
    /\ pc[t] = "reset_in" => out = 0
    /\ pc[t] \in {"reset_out", "reset_in"} => current_round = 0

(* Otherwise OUT and the threads inside make up the positions taken, or,    *)
(* when a reset has been triggered, the threshold.                          *)
CountOK ==
  (\A t \in Threads : ~ResetAt(t)) =>
    /\ stage = "live" => out + Cardinality(Inside) = Positions /\ out < M
    /\ \A t \in Threads :
         /\ pc[t] = "d_out" => i[t] = in /\ in < M /\ out + Cardinality(Inside) = in
         /\ pc[t] \in Triggered =>
              IF in = 0 THEN Inside = {}
                        ELSE out < M /\ out + Cardinality(Inside) = M
    /\ stage = "destroyed" => Inside = {}

(* One thread destroys, and nobody is held up by a reset meanwhile.         *)
StageOK ==
  /\ \A t \in Threads : DestroyAt(t) =>
       stage = "destroying" /\ \A u \in Threads : DestroyAt(u) => u = t
  /\ stage = "destroying" => \E t \in Threads : DestroyAt(t)
  /\ stage # "live" => \A t \in Threads : pc[t] \notin PostReset

SafeInv == TypeOK /\ IsFiniteSet(Inside) /\ ResetOK /\ CountOK /\ StageOK

(* The last position of the last full round.                                *)
Completed == RoundEnd(Positions)

(* No thread knows of a round that is not complete, and the threads of the  *)
(* current round are as many as the positions taken in it.                  *)
RoundOK ==
  /\ current_round <= Completed
  /\ \A t \in Inside :
       /\ 0 < i[t] /\ i[t] <= Positions
       /\ pc[t] # "load" => cr[t] <= Completed
       /\ pc[t] = "leave" => i[t] <= Completed
  /\ IsFiniteSet(Arrived)
  /\ in <= M => Cardinality(Arrived) = in % Count

IInv == SafeInv /\ RoundOK
-----------------------------------------------------------------------------
(* What a step of t leaves alone.                                           *)
Others(t) ==
  \A u \in Threads \ {t} : pc'[u] = pc[u] /\ i'[u] = i[u] /\ cr'[u] = cr[u]

(* The steps within a loop: inside the barrier, in the wait for a reset, in *)
(* the wait of pthread_barrier_destroy, or outside.                         *)
Quiet(t) ==
  /\ \/ pc[t] \in PreReset /\ pc'[t] \in PreReset
     \/ /\ current_round' = current_round
        /\ \/ pc[t] \in PostReset /\ pc'[t] \in PostReset
           \/ pc[t] \in Triggered /\ pc'[t] \in Triggered
           \/ pc[t] \in {"out", "rwake"} /\ pc'[t] \in {"out", "rwake"}
           \/ pc'[t] = pc[t] /\ i'[t] = i[t] /\ cr'[t] = cr[t]
  /\ UNCHANGED <<in, out, stage>>

(* The threshold is a positive number of positions.                         *)
LEMMA ThresholdType == M \in Nat /\ M > 0
<1>1. BARRIER_IN_THRESHOLD % Count \in 0..(Count - 1)
  BY CountAssumption
<1> QED
  BY <1>1, CountAssumption DEF M, max_in_before_reset, RoundEnd

(* Every step keeps the types.                                              *)
LEMMA StepTypeOK ==
  ASSUME TypeOK, ResetOK, CountOK, NEW t \in Threads, Call(t) \/ Step(t) \/ spurious_wake(t)
  PROVE  TypeOK'
<1> USE DEF TypeOK, PreReset, PostReset, Resetting, Destroying, Goto, AfterLoad, words,
            queues, locals
<1>1. CASE barrier_enter(t)
  BY <1>1 DEF barrier_enter
<1>2. CASE reset_wait(t) \/ reset_reload(t)
  BY <1>2 DEF reset_wait, reset_reload, FutexWaitQueue
<1>3. CASE load_round(t) \/ wake_round(t)
  BY <1>3 DEF load_round, wake_round, FutexWakeAll
<1>4. CASE complete_round(t)
  <2>1. RoundEnd(i[t]) \in Nat
    <3>1. i[t] % Count \in 0..(Count - 1) /\ i[t] % Count <= i[t]
      BY CountAssumption
    <3> QED
      BY <3>1 DEF RoundEnd
  <2> QED
    BY <1>4, <2>1 DEF complete_round
<1>5. CASE round_wait(t) \/ round_reload(t)
  BY <1>5 DEF round_wait, round_reload, FutexWaitQueue
<1>6. CASE barrier_leave(t) \/ reset_round(t) \/ reset_out(t) \/ reset_in(t)
  BY <1>6 DEF barrier_leave, reset_round, reset_out, reset_in
<1>7. CASE reset_wake(t) \/ spurious_wake(t)
  BY <1>7 DEF reset_wake, spurious_wake, FutexWakeAll
<1>8. CASE barrier_destroy(t) \/ barrier_init(t)
  BY <1>8 DEF barrier_destroy, barrier_init
<1>9. CASE destroy_trigger(t)
  <2>1. M - i[t] \in Nat
    BY <1>9, ThresholdType DEF destroy_trigger, ResetOK, CountOK
  <2> QED
    BY <1>9, <2>1 DEF destroy_trigger, M
<1>10. CASE destroy_wait(t) \/ destroy_reload(t)
  BY <1>10 DEF destroy_wait, destroy_reload, FutexWaitQueue
<1> QED
  BY <1>1, <1>2, <1>3, <1>4, <1>5, <1>6, <1>7, <1>8, <1>9, <1>10 DEF Call, Step

(* A step of t changes only its own state and the words of the barrier.     *)
LEMMA StepOthers ==
  ASSUME TypeOK, NEW t \in Threads, Call(t) \/ Step(t) \/ spurious_wake(t)
  PROVE  Others(t)
<1> USE DEF TypeOK, Others, Goto, locals
<1>1. CASE barrier_enter(t) \/ reset_wait(t) \/ reset_reload(t) \/ load_round(t)
  BY <1>1 DEF barrier_enter, reset_wait, reset_reload, load_round
<1>2. CASE complete_round(t) \/ wake_round(t) \/ round_wait(t) \/ round_reload(t)
  BY <1>2 DEF complete_round, wake_round, round_wait, round_reload
<1>3. CASE barrier_leave(t) \/ reset_round(t) \/ reset_out(t) \/ reset_in(t)
  BY <1>3 DEF barrier_leave, reset_round, reset_out, reset_in
<1>4. CASE reset_wake(t) \/ spurious_wake(t) \/ barrier_destroy(t) \/ barrier_init(t)
  BY <1>4 DEF reset_wake, spurious_wake, barrier_destroy, barrier_init
<1>5. CASE destroy_trigger(t) \/ destroy_wait(t) \/ destroy_reload(t)
  BY <1>5 DEF destroy_trigger, destroy_wait, destroy_reload
<1> QED
  BY <1>1, <1>2, <1>3, <1>4, <1>5 DEF Call, Step

(* Where the steps of the loops go.                                         *)
LEMMA StepQuiet ==
  ASSUME TypeOK, NEW t \in Threads,
         \/ reset_wait(t) \/ reset_reload(t) \/ load_round(t) \/ complete_round(t)
         \/ wake_round(t) \/ round_wait(t) \/ round_reload(t) \/ reset_wake(t)
         \/ spurious_wake(t) \/ destroy_wait(t) \/ (destroy_reload(t) /\ in # 0)
  PROVE  Quiet(t)
<1> USE DEF TypeOK, Quiet, PreReset, PostReset, Triggered, Goto, AfterLoad, words,
            locals
<1>1. CASE reset_wait(t) \/ reset_reload(t)
  BY <1>1 DEF reset_wait, reset_reload
<1>2. CASE load_round(t) \/ complete_round(t) \/ wake_round(t)
  BY <1>2 DEF load_round, complete_round, wake_round
<1>3. CASE round_wait(t) \/ round_reload(t)
  BY <1>3 DEF round_wait, round_reload
<1>4. CASE reset_wake(t) \/ spurious_wake(t)
  BY <1>4 DEF reset_wake, spurious_wake
<1>5. CASE destroy_wait(t) \/ (destroy_reload(t) /\ in # 0)
  BY <1>5 DEF destroy_wait, destroy_reload
<1> QED
  BY <1>1, <1>2, <1>3, <1>4, <1>5

(* The number of threads inside when one enters or leaves.                  *)
LEMMA InsideSize ==
  ASSUME IsFiniteSet(Inside)
  PROVE  /\ Cardinality(Inside) \in Nat
         /\ Cardinality(Inside) = 0 <=> Inside = {}
         /\ \A t : t \notin Inside =>
              /\ IsFiniteSet(Inside \cup {t})
              /\ Cardinality(Inside \cup {t}) = Cardinality(Inside) + 1
         /\ \A t \in Inside :
              /\ IsFiniteSet(Inside \ {t})
              /\ Cardinality(Inside \ {t}) = Cardinality(Inside) - 1
<1>1. ASSUME NEW t, t \notin Inside
      PROVE  /\ IsFiniteSet(Inside \cup {t})
             /\ Cardinality(Inside \cup {t}) = Cardinality(Inside) + 1
  BY <1>1, FS_AddElement
<1>2. ASSUME NEW t \in Inside
      PROVE  /\ IsFiniteSet(Inside \ {t})
             /\ Cardinality(Inside \ {t}) = Cardinality(Inside) - 1
  BY <1>2, FS_RemoveElement
<1> QED
  BY <1>1, <1>2, FS_CardinalityType, FS_EmptySet

(* A step within a loop keeps the invariant: it changes neither what is     *)
(* counted nor who resets or destroys.                                      *)
LEMMA QuietSafe ==
  ASSUME SafeInv, TypeOK', NEW t \in Threads, Others(t), Quiet(t)
  PROVE  SafeInv'
<1>1. Inside' = Inside
  BY DEF Others, Quiet, Inside, PreReset, PostReset, Triggered
<1>2. \A u \in Threads :
        /\ ResetAt(u)' <=> ResetAt(u)
        /\ ResetAt(u) => pc'[u] = pc[u]
        /\ DestroyAt(u)' <=> DestroyAt(u)
        /\ pc'[u] = "d_out" => pc[u] = "d_out" /\ i'[u] = i[u]
        /\ pc'[u] \in Triggered <=> pc[u] \in Triggered
        /\ pc'[u] \in PostReset <=> pc[u] \in PostReset
  BY DEF Others, Quiet, ResetAt, DestroyAt, PreReset, PostReset, Triggered, Resetting,
         Destroying
<1>3. UNCHANGED <<in, out, stage>>
  BY DEF Quiet
<1>4. current_round' # current_round => Inside # {}
  BY DEF Quiet, Inside
<1>5. ResetOK'
  BY <1>1, <1>2, <1>3, <1>4 DEF SafeInv, ResetOK
<1>6. CountOK'
  BY <1>1, <1>2, <1>3 DEF SafeInv, CountOK, Positions
<1>7. StageOK'
  BY <1>1, <1>2, <1>3 DEF SafeInv, StageOK
<1> QED
  BY <1>1, <1>5, <1>6, <1>7 DEF SafeInv

(* A thread takes a position: inside, or beyond the threshold.              *)
LEMMA EnterSafe ==
  ASSUME SafeInv, TypeOK', NEW t \in Threads, Others(t), barrier_enter(t)
  PROVE  SafeInv'
<1> USE ThresholdType DEF PreReset, PostReset, Triggered, Resetting, Destroying
<1>1. /\ pc[t] \in {"out", "enter"} /\ stage = "live"
      /\ in' = in + 1 /\ UNCHANGED <<current_round, out, stage>>
      /\ pc'[t] = IF in + 1 > M THEN "rwait" ELSE "load"
  BY DEF barrier_enter, SafeInv, StageOK, TypeOK, Goto, M
<1>2. \A u \in Threads :
        /\ ResetAt(u)' <=> ResetAt(u)
        /\ ResetAt(u) => pc'[u] = pc[u]
        /\ ~DestroyAt(u) /\ ~DestroyAt(u)'
  BY <1>1 DEF Others, ResetAt, DestroyAt, SafeInv, StageOK
<1>3. t \notin Inside
  BY <1>1 DEF Inside
<1>4. Inside' = IF in + 1 > M THEN Inside ELSE Inside \cup {t}
  BY <1>1 DEF Others, Inside
<1>5. \A u \in Threads : ResetAt(u) => in + 1 > M
  BY <1>1 DEF SafeInv, ResetOK, TypeOK
<1>6. ResetOK'
  BY <1>1, <1>2, <1>4, <1>5 DEF SafeInv, ResetOK, DestroyAt, TypeOK
<1>7. IsFiniteSet(Inside') /\ CountOK'
  <2>1. /\ IsFiniteSet(Inside')
        /\ Cardinality(Inside') =
             Cardinality(Inside) + IF in + 1 > M THEN 0 ELSE 1
        /\ Cardinality(Inside) \in Nat
    BY <1>3, <1>4, InsideSize DEF SafeInv
  <2> QED
    BY <1>1, <1>2, <2>1 DEF SafeInv, CountOK, Positions, TypeOK, DestroyAt
<1>8. StageOK'
  BY <1>1, <1>2 DEF StageOK
<1> QED
  BY <1>6, <1>7, <1>8 DEF SafeInv

(* A thread confirms its exit; if it brings OUT to the threshold, it was    *)
(* the only one inside.                                                     *)
LEMMA LeaveSafe ==
  ASSUME SafeInv, TypeOK', NEW t \in Threads, Others(t), barrier_leave(t)
  PROVE  SafeInv'
<1> USE ThresholdType DEF PreReset, PostReset, Triggered, Resetting, Destroying
<1>1. /\ pc[t] = "leave" /\ out' = out + 1 /\ UNCHANGED <<in, current_round, stage>>
      /\ pc'[t] = IF out + 1 = M THEN "reset_cr" ELSE "out"
  BY DEF barrier_leave, SafeInv, TypeOK, Goto, M
<1>2. t \in Inside /\ Inside' = Inside \ {t}
  BY <1>1 DEF Others, Inside
<1>3. /\ Cardinality(Inside) \in Nat /\ Cardinality(Inside) > 0
      /\ Cardinality(Inside') = Cardinality(Inside) - 1
      /\ IsFiniteSet(Inside')
      /\ Cardinality(Inside) = 1 => Inside' = {}
  <2>1. /\ Cardinality(Inside) \in Nat /\ Cardinality(Inside) # 0
        /\ Cardinality(Inside') = Cardinality(Inside) - 1
        /\ IsFiniteSet(Inside')
    BY <1>2, InsideSize DEF SafeInv
  <2>2. Cardinality(Inside') = 0 => Inside' = {}
    BY <2>1, FS_EmptySet
  <2> QED
    BY <2>1, <2>2
<1>4. \A u \in Threads : ~ResetAt(u)
  BY <1>2 DEF SafeInv, ResetOK
<1>5. \A u \in Threads :
        /\ DestroyAt(u)' <=> DestroyAt(u)
        /\ DestroyAt(u) => pc'[u] = pc[u] /\ i'[u] = i[u]
        /\ ResetAt(u)' => u = t /\ out + 1 = M
        /\ pc'[u] \in PostReset => pc[u] \in PostReset
  BY <1>1, <1>4 DEF Others, DestroyAt, ResetAt
<1>6. /\ stage = "live" => out + Cardinality(Inside) = Positions /\ out < M
      /\ \A u \in Threads :
           /\ pc[u] = "d_out" =>
                i[u] = in /\ in < M /\ out + Cardinality(Inside) = in
           /\ pc[u] \in Triggered =>
                in # 0 /\ out < M /\ out + Cardinality(Inside) = M
      /\ stage # "destroyed"
  BY <1>2, <1>4 DEF SafeInv, CountOK
<1>7. CASE out + 1 = M
  <2>1. /\ Cardinality(Inside) = 1 /\ in > 0 /\ (stage = "live" => in >= M)
        /\ \A u \in Threads : pc[u] # "d_out"
    <3>1. \A u \in Threads : pc[u] # "d_out"
      BY <1>3, <1>6, <1>7 DEF SafeInv, TypeOK
    <3>2. CASE stage = "live"
      BY <1>3, <1>6, <1>7, <3>1, <3>2 DEF Positions, SafeInv, TypeOK
    <3>3. CASE stage = "destroying"
      BY <1>3, <1>6, <1>7, <3>1, <3>3 DEF SafeInv, TypeOK, StageOK, DestroyAt
    <3> QED
      BY <1>6, <3>1, <3>2, <3>3 DEF SafeInv, TypeOK
  <2>2. ResetOK'
    BY <1>1, <1>3, <1>5, <1>6, <1>7, <2>1 DEF ResetOK, DestroyAt
  <2>3. CountOK'
    BY <1>1, <1>7 DEF CountOK, ResetAt
  <2>4. StageOK'
    BY <1>1, <1>5 DEF SafeInv, StageOK
  <2> QED
    BY <1>3, <2>2, <2>3, <2>4 DEF SafeInv
<1>8. CASE out + 1 # M
  <2>1. ResetOK'
    BY <1>5, <1>8 DEF ResetOK
  <2>2. CountOK'
    BY <1>1, <1>3, <1>5, <1>6, <1>8 DEF CountOK, Positions, DestroyAt, SafeInv, TypeOK
  <2>3. StageOK'
    BY <1>1, <1>5 DEF SafeInv, StageOK
  <2> QED
    BY <1>3, <2>1, <2>2, <2>3 DEF SafeInv
<1> QED
  BY <1>7, <1>8

(* The stores of the reset.                                                 *)
LEMMA ResetSafe ==
  ASSUME SafeInv, TypeOK', NEW t \in Threads, Others(t),
         reset_round(t) \/ reset_out(t) \/ reset_in(t)
  PROVE  SafeInv'
<1> USE ThresholdType DEF PreReset, PostReset, Triggered, Resetting, Destroying
<1>1. /\ UNCHANGED stage
      /\ \/ /\ pc[t] = "reset_cr" /\ pc'[t] = "reset_out"
            /\ current_round' = 0 /\ UNCHANGED <<in, out>>
         \/ /\ pc[t] = "reset_out" /\ pc'[t] = "reset_in"
            /\ out' = 0 /\ UNCHANGED <<in, current_round>>
         \/ /\ pc[t] = "reset_in" /\ pc'[t] = "rwake"
            /\ in' = 0 /\ UNCHANGED <<out, current_round>>
  BY DEF reset_round, reset_out, reset_in, SafeInv, TypeOK, Goto
<1>2. ResetAt(t)
  BY <1>1 DEF ResetAt
<1>3. /\ Inside = {} /\ stage # "destroyed" /\ in > 0
      /\ \A u \in Threads : pc[u] # "d_out" /\ (ResetAt(u) => u = t)
      /\ stage = "live" => in >= M
      /\ pc[t] = "reset_in" => out = 0
      /\ pc[t] \in {"reset_out", "reset_in"} => current_round = 0
  BY <1>2 DEF SafeInv, ResetOK
<1>4. Inside' = {}
  BY <1>1, <1>3 DEF Inside, Others
<1>5. \A u \in Threads :
        /\ DestroyAt(u)' <=> DestroyAt(u)
        /\ pc'[u] # "d_out" /\ (ResetAt(u)' => u = t)
        /\ pc'[u] \in PostReset => pc[u] \in PostReset
  BY <1>1, <1>3 DEF Others, DestroyAt, ResetAt
<1>6. ResetOK'
  BY <1>1, <1>3, <1>4, <1>5 DEF ResetOK, ResetAt
<1>7. CountOK'
  BY <1>1, <1>3, <1>4, <1>5, FS_EmptySet DEF CountOK, ResetAt, Positions
<1>8. StageOK'
  BY <1>1, <1>5 DEF SafeInv, StageOK
<1> QED
  BY <1>4, <1>6, <1>7, <1>8, FS_EmptySet DEF SafeInv

(* pthread_barrier_destroy and pthread_barrier_init.                        *)
LEMMA DestroySafe ==
  ASSUME ~DestroyAtThreshold, SafeInv, TypeOK', NEW t \in Threads, Others(t),
         \/ barrier_destroy(t) \/ destroy_trigger(t) \/ barrier_init(t)
         \/ destroy_reload(t) /\ in = 0
  PROVE  SafeInv'
<1> USE ThresholdType DEF PreReset, PostReset, Triggered, Resetting, Destroying
<1>0. pc[t] \notin PreReset /\ pc'[t] \notin PreReset \cup Resetting
      /\ pc[t] \notin Resetting /\ pc'[t] \notin PostReset
  BY DEF barrier_destroy, destroy_trigger, barrier_init, destroy_reload, SafeInv,
         TypeOK, Goto
<1>1. Inside' = Inside
  BY <1>0 DEF Inside, Others
<1>2. \A u \in Threads : /\ ResetAt(u)' <=> ResetAt(u)
                         /\ ResetAt(u) => pc'[u] = pc[u]
                         /\ pc'[u] \in PostReset => pc[u] \in PostReset
  BY <1>0 DEF ResetAt, Others
<1>3. Cardinality(Inside) \in Nat /\ (Cardinality(Inside) = 0 <=> Inside = {})
  BY InsideSize DEF SafeInv
<1>4. CASE barrier_destroy(t)
  <2>1. /\ pc[t] = "out" /\ pc'[t] = "d_out" /\ stage = "live" /\ stage' = "destroying"
        /\ in < M /\ i'[t] = in /\ UNCHANGED <<in, out, current_round>>
        /\ \A u \in Threads : pc[u] \notin PostReset
    BY <1>4 DEF barrier_destroy, Goto, M, SafeInv, TypeOK, words
  <2>2. \A u \in Threads : ~ResetAt(u) /\ ~DestroyAt(u)
    BY <2>1 DEF SafeInv, ResetOK, StageOK, TypeOK
  <2>3. \A u \in Threads : DestroyAt(u)' <=> u = t
    BY <2>1, <2>2 DEF Others, DestroyAt
  <2>4. ResetOK'
    BY <1>2, <2>2 DEF ResetOK
  <2>5. CountOK'
    BY <1>1, <2>1, <2>2, <2>3, SMTT(60) DEF SafeInv, CountOK, Positions, DestroyAt, TypeOK
  <2>6. StageOK'
    BY <1>2, <2>1, <2>3 DEF StageOK
  <2> QED
    BY <1>1, <2>4, <2>5, <2>6 DEF SafeInv
<1>5. CASE destroy_trigger(t)
  <2>1. /\ pc[t] = "d_out" /\ out' = out + (M - i[t])
        /\ IF out < i[t] THEN pc'[t] = "d_wait" /\ stage' = stage
                         ELSE pc'[t] = "out" /\ stage' = "destroyed"
        /\ UNCHANGED <<in, current_round>>
    BY <1>5 DEF destroy_trigger, Goto, M, SafeInv, TypeOK
  <2>2. /\ stage = "destroying"
        /\ \A u \in Threads : ~ResetAt(u) /\ (DestroyAt(u) => u = t)
    BY <2>1, SMTT(60) DEF SafeInv, ResetOK, StageOK, DestroyAt
  <2>3. i[t] = in /\ in < M /\ out + Cardinality(Inside) = in
    BY <2>1, <2>2, SMTT(60) DEF SafeInv, CountOK
  <2>4. \A u \in Threads : DestroyAt(u)' <=> u = t /\ pc'[t] = "d_wait"
    BY <2>1, <2>2 DEF Others, DestroyAt
  <2>5. ResetOK'
    BY <1>2, <2>2 DEF ResetOK
  <2>6. CountOK'
    <3>1. CASE out < i[t]
      BY <1>1, <1>3, <2>1, <2>2, <2>3, <2>4, <3>1, SMTT(60) DEF SafeInv, CountOK,
         DestroyAt, TypeOK
    <3>2. CASE ~(out < i[t])
      <4>1. Inside = {}
        BY <1>3, <2>3, <3>2 DEF SafeInv, TypeOK
      <4> QED
        BY <1>1, <2>1, <2>4, <3>2, <4>1 DEF CountOK, DestroyAt
    <3> QED
      BY <3>1, <3>2
  <2>7. StageOK'
    BY <1>2, <2>1, <2>2, <2>4 DEF SafeInv, StageOK
  <2> QED
    BY <1>1, <2>5, <2>6, <2>7 DEF SafeInv
<1>6. CASE destroy_reload(t) /\ in = 0
  <2>1. /\ pc[t] \in Triggered /\ pc'[t] = "out" /\ stage' = "destroyed"
        /\ UNCHANGED <<in, out, current_round>>
    BY <1>6 DEF destroy_reload, Goto, SafeInv, TypeOK, words
  <2>2. /\ stage = "destroying"
        /\ \A u \in Threads : ~ResetAt(u) /\ (DestroyAt(u) => u = t)
    BY <1>6, <2>1, SMTT(60) DEF SafeInv, ResetOK, StageOK, DestroyAt, TypeOK
  <2>3. Inside = {}
    BY <1>6, <2>1, <2>2 DEF SafeInv, CountOK
  <2>4. \A u \in Threads : ~DestroyAt(u)'
    BY <2>1, <2>2 DEF Others, DestroyAt
  <2>5. ResetOK'
    BY <1>2, <2>2 DEF ResetOK
  <2>6. CountOK'
    BY <1>1, <2>1, <2>3, <2>4 DEF CountOK, DestroyAt
  <2>7. StageOK'
    BY <1>2, <2>1, <2>2, <2>4 DEF SafeInv, StageOK
  <2> QED
    BY <1>1, <2>5, <2>6, <2>7 DEF SafeInv
<1>7. CASE barrier_init(t)
  <2>1. /\ pc' = pc /\ stage = "destroyed" /\ stage' = "live"
        /\ in' = 0 /\ out' = 0 /\ current_round' = 0
    BY <1>7 DEF barrier_init
  <2>2. \A u \in Threads : ~ResetAt(u) /\ ~DestroyAt(u) /\ ~DestroyAt(u)'
    BY <2>1, SMTT(60) DEF SafeInv, ResetOK, StageOK, DestroyAt
  <2>3. Inside = {} /\ Cardinality(Inside) = 0
    BY <1>3, <2>1, <2>2 DEF SafeInv, CountOK
  <2>4. ResetOK'
    BY <1>2, <2>2 DEF ResetOK
  <2>5. CountOK'
    BY <1>1, <2>1, <2>2, <2>3 DEF CountOK, Positions, DestroyAt
  <2>6. StageOK'
    BY <2>1, <2>2 DEF StageOK
  <2> QED
    BY <1>1, <2>4, <2>5, <2>6 DEF SafeInv
<1> QED
  BY <1>4, <1>5, <1>6, <1>7

(* Every step keeps the invariant.                                          *)
LEMMA StepSafe ==
  ASSUME ~DestroyAtThreshold, SafeInv, [Next]_vars
  PROVE  SafeInv'
<1>1. CASE UNCHANGED vars
  BY <1>1 DEF vars, words, queues, locals, SafeInv, TypeOK, ResetOK, CountOK, StageOK,
              Inside, ResetAt, DestroyAt, Positions
<1>2. ASSUME NEW t \in Threads, Call(t) \/ Step(t) \/ spurious_wake(t)
      PROVE  SafeInv'
  <2>1. TypeOK' /\ Others(t)
    BY <1>2, StepTypeOK, StepOthers DEF SafeInv
  <2>2. CASE \/ reset_wait(t) \/ reset_reload(t) \/ load_round(t) \/ complete_round(t)
             \/ wake_round(t) \/ round_wait(t) \/ round_reload(t) \/ reset_wake(t)
             \/ spurious_wake(t) \/ destroy_wait(t) \/ (destroy_reload(t) /\ in # 0)
    BY <2>1, <2>2, StepQuiet, QuietSafe DEF SafeInv
  <2>3. CASE barrier_enter(t)
    BY <2>1, <2>3, EnterSafe
  <2>4. CASE barrier_leave(t)
    BY <2>1, <2>4, LeaveSafe
  <2>5. CASE reset_round(t) \/ reset_out(t) \/ reset_in(t)
    BY <2>1, <2>5, ResetSafe
  <2>6. CASE \/ barrier_destroy(t) \/ destroy_trigger(t) \/ barrier_init(t)
             \/ destroy_reload(t) /\ in = 0
    BY <2>1, <2>6, DestroySafe
  <2> QED
    BY <1>2, <2>2, <2>3, <2>4, <2>5, <2>6, Zenon DEF Call, Step
<1> QED
  BY <1>1, <1>2 DEF Next

(* A new barrier satisfies the invariant.                                   *)
LEMMA InitSafe == Init => SafeInv
<1> SUFFICES ASSUME Init PROVE SafeInv
  OBVIOUS
<1>1. Inside = {} /\ Cardinality(Inside) = 0 /\ IsFiniteSet(Inside)
  <2>1. Inside = {}
    BY DEF Init, Inside, PreReset
  <2> QED
    BY <2>1, FS_EmptySet
<1>2. TypeOK
  BY DEF Init, TypeOK
<1>3. ResetOK /\ CountOK /\ StageOK
  BY <1>1, ThresholdType DEF Init, ResetOK, CountOK, StageOK, ResetAt, DestroyAt,
     Resetting, Destroying, Triggered, PostReset, Positions
<1> QED
  BY <1>1, <1>2, <1>3 DEF SafeInv

(* While a thread stores the three words of the reset, every other thread   *)
(* is outside or waits for IN to become small: the stores race with nothing *)
(* but the increments of IN that the reset is meant to discard.             *)
THEOREM ResetAlwaysAlone == ASSUME ~DestroyAtThreshold PROVE Spec => []ResetAlone
<1>1. SafeInv => ResetAlone
  BY DEF SafeInv, ResetOK, ResetAlone, ResetAt, Inside
<1>2. SafeInv /\ [Next]_vars => SafeInv'
  BY StepSafe
<1> QED
  BY <1>1, <1>2, InitSafe, PTL DEF Spec

(* When pthread_barrier_destroy has returned, no thread will touch the      *)
(* words of the barrier again: the reset that it triggered was made by the  *)
(* last thread inside, whatever rounds those threads were in.               *)
THEOREM DestroyAlwaysWaits ==
  ASSUME ~DestroyAtThreshold PROVE Spec => []DestroyWaitsForAll
<1>1. SafeInv => DestroyWaitsForAll
  <2> SUFFICES ASSUME SafeInv, stage = "destroyed", NEW t \in Threads
               PROVE  pc[t] \in {"out", "rwake"}
    BY DEF DestroyWaitsForAll
  <2>1. \A u \in Threads : ~ResetAt(u) /\ ~DestroyAt(u) /\ pc[u] \notin PostReset
    BY DEF SafeInv, ResetOK, StageOK
  <2>2. t \notin Inside
    BY <2>1 DEF SafeInv, CountOK
  <2> QED
    BY <2>1, <2>2 DEF SafeInv, TypeOK, ResetAt, DestroyAt, Inside
<1>2. SafeInv /\ [Next]_vars => SafeInv'
  BY StepSafe
<1> QED
  BY <1>1, <1>2, InitSafe, PTL DEF Spec
-----------------------------------------------------------------------------
(* Division with remainder by the count.                                    *)
LEMMA Remainder ==
  ASSUME NEW n \in Nat
  PROVE  /\ n % Count \in 0..(Count - 1) /\ n % Count <= n
         /\ n = Count * (n \div Count) + (n % Count) /\ n \div Count \in Nat
<1>1. Count \in Nat \ {0}
  BY CountAssumption
<1>2. n % Count \in 0..(Count - 1) /\ n % Count <= n
  BY <1>1
<1>3. n = Count * (n \div Count) + (n % Count) /\ n \div Count \in Nat
  BY <1>1
<1> QED
  BY <1>2, <1>3

(* A number is its quotient and its remainder.                              *)
LEMMA RemainderIs ==
  ASSUME NEW q \in Nat, NEW r \in 0..(Count - 1)
  PROVE  (Count * q + r) % Count = r
BY CountAssumption

(* The remainder counts up to the end of a round and starts over.           *)
LEMMA NextRemainder ==
  ASSUME NEW n \in Nat
  PROVE  (n + 1) % Count = IF (n % Count) + 1 = Count THEN 0 ELSE (n % Count) + 1
<1> DEFINE q == n \div Count
           r == n % Count
<1>1. r \in 0..(Count - 1) /\ n = Count * q + r /\ q \in Nat /\ Count \in Nat
  BY Remainder, CountAssumption
<1> HIDE DEF q, r
<1>2. CASE r + 1 = Count
  <2>1. n + 1 = Count * (q + 1) + 0
    BY <1>1, <1>2
  <2>2. (Count * (q + 1) + 0) % Count = 0
    BY <1>1, <1>2, RemainderIs
  <2> QED
    BY <1>2, <2>1, <2>2 DEF r
<1>3. CASE r + 1 # Count
  <2>1. n + 1 = Count * q + (r + 1) /\ r + 1 \in 0..(Count - 1)
    BY <1>1, <1>3
  <2>2. (Count * q + (r + 1)) % Count = r + 1
    BY <1>1, <2>1, RemainderIs
  <2> QED
    BY <1>3, <2>1, <2>2 DEF r
<1> QED
  BY <1>2, <1>3

(* The end of the last full round does not go back as positions are taken.  *)
LEMMA RoundEndGrows ==
  ASSUME NEW p \in Nat, NEW n \in Nat, p <= n
  PROVE  RoundEnd(p) <= RoundEnd(n)
BY CountAssumption DEF RoundEnd

(* What RoundEnd returns; taking one more position completes a round or     *)
(* leaves its end where it was.                                             *)
LEMMA RoundEndFacts ==
  ASSUME NEW n \in Nat
  PROVE  /\ RoundEnd(n) \in Nat /\ RoundEnd(n) <= n
         /\ RoundEnd(n) = n <=> n % Count = 0
         /\ RoundEnd(n + 1) = IF (n + 1) % Count = 0 THEN n + 1 ELSE RoundEnd(n)
<1>1. n % Count \in 0..(Count - 1) /\ n % Count <= n
  BY Remainder
<1>2. (n + 1) % Count = IF (n % Count) + 1 = Count THEN 0 ELSE (n % Count) + 1
  BY NextRemainder
<1> QED
  BY <1>1, <1>2, CountAssumption DEF RoundEnd

(* The threshold is the end of a round.                                     *)
LEMMA ThresholdRound == M % Count = 0 /\ RoundEnd(M) = M
<1> DEFINE T == BARRIER_IN_THRESHOLD
<1>1. T \in Nat /\ Count \in Nat \ {0}
  BY CountAssumption
<1>2. T = Count * (T \div Count) + (T % Count) /\ T \div Count \in Nat
  BY <1>1, Remainder
<1>3. M = Count * (T \div Count) + 0
  BY <1>1, <1>2 DEF M, max_in_before_reset, RoundEnd
<1>4. (Count * (T \div Count) + 0) % Count = 0
  BY <1>1, <1>2, RemainderIs
<1> QED
  BY <1>3, <1>4, ThresholdType, RoundEndFacts

(* The positions that count, in numbers.                                    *)
LEMMA PositionFacts ==
  ASSUME TypeOK
  PROVE  /\ Positions \in Nat /\ Positions <= in /\ Positions <= M
         /\ Completed \in Nat /\ Completed <= Positions
<1>1. Positions \in Nat /\ Positions <= in /\ Positions <= M
  BY ThresholdType DEF TypeOK, Positions
<1> QED
  BY <1>1, RoundEndFacts DEF Completed

(* Who is in the current round, in terms of the positions that count.       *)
LEMMA ArrivedIs ==
  ASSUME TypeOK, \A t \in Inside : i[t] <= Positions
  PROVE  Arrived = { t \in Inside : i[t] > Completed }
<1>1. CASE in <= M
  BY <1>1 DEF Arrived, Completed, Positions, M
<1>2. CASE ~(in <= M)
  <2>1. Positions = M /\ Completed = M
    BY <1>2, ThresholdRound DEF Positions, Completed
  <2>2. \A t \in Inside : i[t] \in Nat /\ i[t] <= M
    BY <2>1 DEF TypeOK, Inside
  <2> QED
    BY <1>2, <2>1, <2>2, ThresholdType DEF Arrived, M, TypeOK
<1> QED
  BY <1>1, <1>2

(* The threads that will return PTHREAD_BARRIER_SERIAL_THREAD.              *)
Serial == { t \in Inside \ Arrived : i[t] % Count = 0 }

(* The thread of the current round that is serial is yet to come.           *)
LEMMA ArrivedNotSerial ==
  ASSUME TypeOK, RoundOK
  PROVE  \A t \in Arrived : i[t] % Count # 0
<1> SUFFICES ASSUME NEW t \in Arrived, i[t] % Count = 0
             PROVE  FALSE
  OBVIOUS
<1>1. t \in Inside /\ i[t] > Completed /\ i[t] <= Positions
  BY ArrivedIs DEF RoundOK
<1>2. i[t] \in Nat /\ RoundEnd(i[t]) = i[t]
  BY <1>1, RoundEndFacts DEF Inside, TypeOK
<1>3. RoundEnd(i[t]) <= RoundEnd(Positions)
  BY <1>1, <1>2, PositionFacts, RoundEndGrows
<1> QED
  BY <1>1, <1>2, <1>3, PositionFacts DEF Completed

(* The steps that take no position and give none up.                        *)
SameRound ==
  /\ in' = in /\ Inside' = Inside
  /\ current_round' <= Completed
  /\ \A u \in Inside : /\ i'[u] = i[u]
                       /\ pc'[u] # "load" => cr'[u] <= Completed
                       /\ pc'[u] = "leave" => i[u] <= Completed

(* The steps that start over with position 0, when nobody is inside.        *)
FirstRound ==
  /\ Inside = {} /\ Inside' = {}
  /\ in' = 0 /\ current_round' = 0

(* Both keep the invariant and are invisible to the abstract barrier.       *)
LEMMA SameRoundKeeps ==
  ASSUME TypeOK, RoundOK, SameRound
  PROVE  RoundOK' /\ UNCHANGED <<Inside, Arrived, Serial>>
<1>1. Arrived' = Arrived
  BY DEF SameRound, Arrived
<1>2. Serial' = Serial
  BY <1>1 DEF SameRound, Serial
<1>3. Positions' = Positions /\ Completed' = Completed
  BY DEF SameRound, Positions, Completed
<1>4. RoundOK'
  BY <1>1, <1>3 DEF SameRound, RoundOK
<1> QED
  BY <1>1, <1>2, <1>4 DEF SameRound

LEMMA FirstRoundKeeps ==
  ASSUME TypeOK, RoundOK, FirstRound
  PROVE  RoundOK' /\ UNCHANGED <<Inside, Arrived, Serial>>
<1>1. Arrived = {} /\ Arrived' = {} /\ Serial = {} /\ Serial' = {}
  BY DEF FirstRound, Arrived, Serial
<1>2. Positions' = 0 /\ Completed' = 0 /\ 0 % Count = 0
  <2>1. 0 % Count = 0 /\ RoundEnd(0) = 0
    BY Remainder, RoundEndFacts, CountAssumption
  <2> QED
    BY <2>1, ThresholdType DEF FirstRound, Positions, Completed
<1>3. RoundOK'
  BY <1>1, <1>2, FS_EmptySet DEF FirstRound, RoundOK
<1> QED
  BY <1>1, <1>3 DEF FirstRound

(* No step inside the barrier learns of a round that is not complete.       *)
LEMMA InnerRounds ==
  ASSUME IInv, NEW t \in Threads, Others(t), Inside' = Inside,
         \/ load_round(t) \/ complete_round(t) \/ wake_round(t)
         \/ round_wait(t) \/ round_reload(t)
  PROVE  SameRound
<1> USE DEF PreReset
<1>1. t \in Inside /\ in' = in /\ i' = i
  BY DEF load_round, complete_round, wake_round, round_wait, round_reload, Inside, words,
         locals
<1>2. /\ i[t] \in Nat /\ i[t] <= Positions /\ current_round \in Nat
      /\ cr[t] \in Nat /\ current_round <= Completed
      /\ pc[t] # "load" => cr[t] <= Completed
  BY <1>1 DEF IInv, SafeInv, TypeOK, RoundOK, Inside
<1>3. RoundEnd(i[t]) \in Nat /\ RoundEnd(i[t]) <= Completed /\ Completed \in Nat
  BY <1>2, RoundEndFacts, RoundEndGrows, PositionFacts, SMTT(60) DEF Completed, IInv,
     SafeInv
<1>4. /\ current_round' <= Completed
      /\ pc'[t] # "load" => cr'[t] <= Completed
      /\ pc'[t] = "leave" => i[t] <= Completed
  <2> USE DEF IInv, SafeInv, TypeOK, Goto, words, locals
  <2>1. CASE load_round(t)
    BY <2>1, <1>2, <1>3, CountAssumption, SMTT(60) DEF load_round, AfterLoad
  <2>2. CASE complete_round(t)
    <3>1. CASE current_round = cr[t]
      BY <2>2, <3>1, <1>3 DEF complete_round
    <3>2. CASE current_round # cr[t]
      BY <2>2, <3>2, <1>2, <1>3, CountAssumption DEF complete_round, AfterLoad
    <3> QED
      BY <3>1, <3>2
  <2>3. CASE wake_round(t)
    BY <2>3, <1>2, <1>3 DEF wake_round
  <2>4. CASE round_wait(t)
    BY <2>4, <1>2, <1>3 DEF round_wait
  <2>5. CASE round_reload(t)
    BY <2>5, <1>2, <1>3, SMTT(60) DEF round_reload
  <2> QED
    BY <2>1, <2>2, <2>3, <2>4, <2>5
<1>5. \A u \in Inside : u # t => pc'[u] = pc[u] /\ cr'[u] = cr[u]
  BY DEF Others, Inside
<1> QED
  BY <1>1, <1>4, <1>5, SMTT(60) DEF SameRound, IInv, RoundOK

(* The steps of threads without a position.                                 *)
LEMMA OuterRounds ==
  ASSUME ~DestroyAtThreshold, IInv, SafeInv', NEW t \in Threads, Others(t),
         \/ reset_wait(t) \/ reset_reload(t) \/ reset_wake(t) \/ spurious_wake(t)
         \/ reset_round(t) \/ reset_out(t) \/ reset_in(t)
         \/ barrier_destroy(t) \/ destroy_trigger(t) \/ destroy_wait(t)
         \/ destroy_reload(t) \/ barrier_init(t)
  PROVE  SameRound \/ FirstRound
<1> USE DEF PreReset, PostReset, Triggered, Resetting, Destroying
<1>1. /\ \A u \in Inside : pc'[u] = pc[u] /\ i'[u] = i[u] /\ cr'[u] = cr[u]
      /\ Inside' = Inside
  <2>1. \/ pc[t] \notin PreReset /\ pc'[t] \notin PreReset
        \/ pc' = pc /\ i' = i /\ cr' = cr
    <3> USE DEF IInv, SafeInv, TypeOK, Goto, locals
    <3>1. CASE reset_wait(t) \/ reset_reload(t) \/ reset_wake(t) \/ spurious_wake(t)
      BY <3>1, SMTT(60) DEF reset_wait, reset_reload, reset_wake, spurious_wake
    <3>2. CASE reset_round(t) \/ reset_out(t) \/ reset_in(t) \/ barrier_destroy(t)
      BY <3>2, SMTT(60) DEF reset_round, reset_out, reset_in, barrier_destroy
    <3>3. CASE \/ destroy_trigger(t) \/ destroy_wait(t) \/ destroy_reload(t)
               \/ barrier_init(t)
      BY <3>3, SMTT(60) DEF destroy_trigger, destroy_wait, destroy_reload, barrier_init
    <3> QED
      BY <3>1, <3>2, <3>3, SMTT(60)
  <2> QED
    BY <2>1 DEF Others, Inside
<1>2. ASSUME in' = in, current_round' = current_round \/ current_round' = 0
      PROVE  SameRound
  <2>1. current_round' <= Completed
    BY <1>2, PositionFacts, SMTT(60) DEF IInv, RoundOK, SafeInv
  <2> QED
    BY <1>1, <1>2, <2>1 DEF SameRound, IInv, RoundOK
<1>3. CASE reset_in(t)
  <2>1. Inside = {} /\ current_round = 0
    BY <1>3, ZenonT(60) DEF reset_in, IInv, SafeInv, ResetOK, ResetAt
  <2> QED
    BY <1>1, <1>3, <2>1 DEF reset_in, FirstRound
<1>4. CASE barrier_init(t)
  <2>1. stage = "destroyed"
    BY <1>4 DEF barrier_init
  <2>2. \A u \in Threads : ~ResetAt(u)
    BY <2>1, ZenonT(60) DEF IInv, SafeInv, ResetOK
  <2>3. Inside = {}
    BY <2>1, <2>2, ZenonT(60) DEF IInv, SafeInv, CountOK
  <2> QED
    BY <1>1, <1>4, <2>3 DEF barrier_init, FirstRound
<1>5. CASE reset_wait(t) \/ reset_reload(t) \/ reset_wake(t) \/ spurious_wake(t)
  BY <1>2, <1>5, ZenonT(60) DEF reset_wait, reset_reload, reset_wake, spurious_wake, words
<1>6. CASE reset_round(t) \/ reset_out(t) \/ barrier_destroy(t)
  BY <1>2, <1>6, SMTT(60) DEF reset_round, reset_out, barrier_destroy, words
<1>7. CASE destroy_trigger(t) \/ destroy_wait(t) \/ destroy_reload(t)
  BY <1>2, <1>7 DEF destroy_trigger, destroy_wait, destroy_reload, words
<1> QED
  BY <1>3, <1>4, <1>5, <1>6, <1>7

(* A thread that takes a position arrives at the current round, completes   *)
(* it, or is held up by a reset and not inside.                             *)
LEMMA EnterRounds ==
  ASSUME IInv, TypeOK', NEW t \in Threads, Others(t), barrier_enter(t)
  PROVE  /\ RoundOK'
         /\ \/ UNCHANGED <<Inside, Arrived, Serial>>
            \/ /\ t \notin Inside /\ Inside' = Inside \cup {t} /\ Cardinality(Arrived) \in Nat
               /\ \/ /\ Cardinality(Arrived) + 1 < Count
                     /\ Arrived' = Arrived \cup {t} /\ Serial' = Serial
                  \/ /\ Cardinality(Arrived) + 1 = Count
                     /\ Arrived' = {} /\ Serial' = Serial \cup {t}
<1> USE ThresholdType
<1>1. /\ pc[t] \notin PreReset
      /\ in \in Nat /\ in' = in + 1 /\ current_round' = current_round
      /\ i'[t] = in + 1
      /\ pc'[t] = IF in + 1 > M THEN "rwait" ELSE "load"
  BY DEF barrier_enter, IInv, SafeInv, TypeOK, Goto, M, PreReset
<1>2. t \notin Inside /\ \A u \in Inside : u # t /\ u \in Threads /\ i[u] \in Nat
  BY <1>1 DEF Inside, IInv, SafeInv, TypeOK
<1>3. \A u \in Inside : pc'[u] = pc[u] /\ i'[u] = i[u] /\ cr'[u] = cr[u]
  BY <1>2 DEF Others
<1>4. Inside' = IF in + 1 > M THEN Inside ELSE Inside \cup {t}
  BY <1>1 DEF Others, Inside, PreReset
<1>5. /\ current_round \in Nat /\ current_round <= Completed
      /\ Completed \in Nat /\ Positions \in Nat /\ Completed <= Positions
      /\ \A u \in Inside :
           /\ 0 < i[u] /\ i[u] <= Positions
           /\ pc[u] # "load" => cr[u] \in Nat /\ cr[u] <= Completed
           /\ pc[u] = "leave" => i[u] <= Completed
      /\ IsFiniteSet(Arrived)
      /\ in <= M => Cardinality(Arrived) = in % Count
  BY PositionFacts DEF IInv, SafeInv, TypeOK, RoundOK, Inside
<1>6. Arrived = { u \in Inside : i[u] > Completed }
  BY <1>5, ArrivedIs DEF IInv, SafeInv
<1>7. CASE in + 1 > M
  <2>1. Positions = M /\ Positions' = M
    BY <1>1, <1>7 DEF Positions
  <2>2. Completed = M /\ Completed' = M
    BY <2>1, ThresholdRound DEF Completed
  <2>3. Arrived = {}
    BY <1>2, <1>5, <1>6, <2>1, <2>2
  <2>4. Arrived' = {}
    BY <1>1, <1>7, SMTT(60) DEF Arrived, M
  <2>5. Serial' = Serial
    BY <1>3, <1>4, <1>7, <2>3, <2>4, SMTT(60) DEF Serial
  <2>6. RoundOK'
    BY <1>1, <1>3, <1>4, <1>5, <1>7, <2>1, <2>2, <2>4, FS_EmptySet DEF RoundOK
  <2> QED
    BY <1>4, <1>7, <2>3, <2>4, <2>5, <2>6
<1>8. CASE ~(in + 1 > M)
  <2>1. Positions = in /\ Positions' = in + 1 /\ in <= M /\ in' <= M
    BY <1>1, <1>8 DEF Positions
  <2>2. /\ (in + 1) % Count = IF (in % Count) + 1 = Count THEN 0 ELSE (in % Count) + 1
        /\ in % Count \in 0..(Count - 1) /\ Count \in Nat
    <3>1. (in + 1) % Count = IF (in % Count) + 1 = Count THEN 0 ELSE (in % Count) + 1
      BY <1>1, NextRemainder, Zenon
    <3>2. in % Count \in 0..(Count - 1)
      BY <1>1, Remainder, Zenon
    <3> QED
      BY <3>1, <3>2, CountAssumption
  <2>3. Completed' = IF (in + 1) % Count = 0 THEN in + 1 ELSE Completed
    BY <1>1, <2>1, RoundEndFacts DEF Completed
  <2>4. Inside' = Inside \cup {t} /\ pc'[t] = "load"
    BY <1>1, <1>4, <1>8, SMTT(60)
  <2>5. \A u \in Inside' : i'[u] \in Nat /\ 0 < i'[u] /\ i'[u] <= Positions'
    BY <1>1, <1>2, <1>3, <1>5, <2>1, <2>4
  <2>6. Arrived' = { u \in Inside' : i'[u] > Completed' }
    <3>1. TypeOK' /\ \A u \in Inside' : i'[u] <= Positions'
      BY <2>5
    <3>2. Arrived' = { u \in Inside' : i'[u] > RoundEnd(in') }
      BY <2>1, SMTT(60) DEF Arrived, M
    <3> QED
      BY <1>1, <2>1, <3>2 DEF Completed
  <2>7. /\ current_round' <= Completed'
        /\ \A u \in Inside' :
             /\ 0 < i'[u] /\ i'[u] <= Positions'
             /\ pc'[u] # "load" => cr'[u] <= Completed'
             /\ pc'[u] = "leave" => i'[u] <= Completed'
    BY <1>1, <1>2, <1>3, <1>5, <2>1, <2>3, <2>4, <2>5, SMTT(60)
  <2>8. CASE (in % Count) + 1 = Count
    <3>1. Completed' = in + 1 /\ (in + 1) % Count = 0
      BY <2>2, <2>3, <2>8
    <3>2. Arrived' = {}
      BY <1>1, <2>1, <2>5, <2>6, <3>1
    <3>3. Cardinality(Arrived) + 1 = Count /\ Cardinality(Arrived) \in Nat
      BY <1>5, <2>1, <2>2, <2>8
    <3>4. Serial' = Serial \cup {t}
      <4>1. \A u \in Arrived : i[u] % Count # 0
        BY ArrivedNotSerial DEF IInv, SafeInv
      <4> QED
        BY <1>1, <1>2, <1>3, <2>4, <3>1, <3>2, <4>1 DEF Serial
    <3>5. RoundOK'
      BY <1>1, <2>7, <3>1, <3>2, FS_EmptySet DEF RoundOK
    <3> QED
      BY <1>2, <2>4, <3>2, <3>3, <3>4, <3>5
  <2>9. CASE (in % Count) + 1 # Count
    <3>1. Completed' = Completed /\ (in + 1) % Count = (in % Count) + 1
      BY <2>2, <2>3, <2>9, SMTT(60)
    <3>2. Arrived' = Arrived \cup {t}
      BY <1>1, <1>2, <1>3, <1>5, <1>6, <2>1, <2>4, <2>6, <3>1
    <3>3. /\ Cardinality(Arrived) = in % Count /\ Cardinality(Arrived) \in Nat
          /\ Cardinality(Arrived) + 1 < Count
      BY <1>5, <2>1, <2>2, <2>9
    <3>4. IsFiniteSet(Arrived') /\ Cardinality(Arrived') = Cardinality(Arrived) + 1
      <4>1. t \notin Arrived
        BY <1>2, <1>6, SMTT(60)
      <4> QED
        BY <1>5, <3>2, <4>1, FS_AddElement
    <3>5. Serial' = Serial
      BY <1>2, <1>3, <2>4, <3>2 DEF Serial
    <3>6. RoundOK'
      BY <1>1, <2>7, <3>1, <3>3, <3>4 DEF RoundOK
    <3> QED
      BY <1>2, <2>4, <3>2, <3>3, <3>5, <3>6
  <2> QED
    BY <2>8, <2>9, SMTT(60)
<1> QED
  BY <1>7, <1>8

(* A thread that leaves was released.                                       *)
LEMMA LeaveRounds ==
  ASSUME IInv, NEW t \in Threads, Others(t), barrier_leave(t)
  PROVE  /\ RoundOK'
         /\ t \in Inside \ Arrived /\ Inside' = Inside \ {t}
         /\ Arrived' = Arrived /\ Serial' = Serial \ {t}
<1>1. /\ pc[t] = "leave" /\ UNCHANGED <<in, current_round, i, cr>>
      /\ pc'[t] \notin PreReset
  BY DEF barrier_leave, IInv, SafeInv, TypeOK, Goto, PreReset, locals
<1>2. t \in Inside /\ Inside' = Inside \ {t}
  BY <1>1, SMTT(60) DEF Inside, PreReset, Others
<1>3. \A u \in Inside : u # t => pc'[u] = pc[u]
  BY DEF Others, Inside
<1>4. Positions' = Positions /\ Completed' = Completed
  BY <1>1 DEF Positions, Completed
<1>5. t \notin Arrived
  <2>1. Arrived = { u \in Inside : i[u] > Completed }
    BY ArrivedIs DEF IInv, SafeInv, RoundOK
  <2>2. i[t] <= Completed /\ i[t] \in Nat /\ Completed \in Nat
    BY <1>1, <1>2, PositionFacts DEF IInv, SafeInv, TypeOK, RoundOK
  <2> QED
    BY <2>1, <2>2
<1>6. Arrived' = Arrived
  BY <1>1, <1>2, <1>5 DEF Arrived
<1>7. Serial' = Serial \ {t}
  BY <1>1, <1>2, <1>6, SMTT(60) DEF Serial
<1>8. RoundOK'
  BY <1>1, <1>2, <1>3, <1>4, <1>6 DEF IInv, RoundOK
<1> QED
  BY <1>2, <1>5, <1>6, <1>7, <1>8
-----------------------------------------------------------------------------
(* The abstract barrier counts as this module does.                         *)
LEMMA AbstractCardinality == Abstract!Cardinality(Arrived) = Cardinality(Arrived)
BY DEF Cardinality, Abstract!Cardinality

(* What one step is to the abstract barrier.                                *)
AbstractStep(t) ==
  \/ UNCHANGED <<Inside, Arrived, Serial>>
  \/ Abstract!Arrive(t) \/ Abstract!Complete(t) \/ Abstract!Leave(t)

(* Every step of a thread keeps the invariant and is a step of the abstract *)
(* barrier or none.                                                         *)
LEMMA StepRounds ==
  ASSUME ~DestroyAtThreshold, IInv, SafeInv', NEW t \in Threads,
         Call(t) \/ Step(t) \/ spurious_wake(t)
  PROVE  RoundOK' /\ AbstractStep(t)
<1>1. TypeOK /\ RoundOK /\ TypeOK' /\ Others(t)
  BY StepOthers DEF IInv, SafeInv
<1>2. ASSUME SameRound \/ FirstRound
      PROVE  RoundOK' /\ AbstractStep(t)
  BY <1>1, <1>2, SameRoundKeeps, FirstRoundKeeps DEF AbstractStep
<1>3. CASE \/ load_round(t) \/ complete_round(t) \/ wake_round(t)
           \/ round_wait(t) \/ round_reload(t)
  <2>1. Quiet(t) /\ pc[t] \in PreReset
    BY <1>1, <1>3, StepQuiet, ZenonT(60) DEF load_round, complete_round, wake_round,
       round_wait, round_reload, PreReset
  <2>2. Inside' = Inside
    BY <1>1, <2>1 DEF Quiet, Inside, Others, PreReset, PostReset, Triggered
  <2>3. SameRound
    BY <1>1, <1>3, <2>2, InnerRounds
  <2> QED
    BY <1>2, <2>3
<1>4. CASE \/ reset_wait(t) \/ reset_reload(t) \/ reset_wake(t) \/ spurious_wake(t)
           \/ reset_round(t) \/ reset_out(t) \/ reset_in(t)
           \/ barrier_destroy(t) \/ destroy_trigger(t) \/ destroy_wait(t)
           \/ destroy_reload(t) \/ barrier_init(t)
  <2>1. SameRound \/ FirstRound
    BY <1>1, <1>4, OuterRounds
  <2> QED
    BY <1>2, <2>1
<1>5. CASE barrier_enter(t)
  <2>1. /\ RoundOK'
        /\ \/ UNCHANGED <<Inside, Arrived, Serial>>
           \/ /\ t \notin Inside /\ Inside' = Inside \cup {t} /\ Cardinality(Arrived) \in Nat
              /\ \/ /\ Cardinality(Arrived) + 1 < Count
                    /\ Arrived' = Arrived \cup {t} /\ Serial' = Serial
                 \/ /\ Cardinality(Arrived) + 1 = Count
                    /\ Arrived' = {} /\ Serial' = Serial \cup {t}
    BY <1>1, <1>5, EnterRounds
  <2>2. Arrived \subseteq Inside
    BY DEF Arrived
  <2>3. CASE UNCHANGED <<Inside, Arrived, Serial>>
    BY <2>1, <2>3 DEF AbstractStep
  <2>4. ASSUME t \notin Inside, Inside' = Inside \cup {t}, Arrived' = Arrived \cup {t},
               Cardinality(Arrived) + 1 < Count, Serial' = Serial
        PROVE  AbstractStep(t)
    <3>1. /\ t \notin Arrived \cup (Inside \ Arrived)
          /\ Inside' \ Arrived' = Inside \ Arrived
      BY <2>2, <2>4, SMTT(60)
    <3> QED
      BY <2>4, <3>1, AbstractCardinality DEF AbstractStep, Abstract!Arrive, Serial
  <2>5. ASSUME t \notin Inside, Inside' = Inside \cup {t}, Arrived' = {},
               Cardinality(Arrived) + 1 = Count, Serial' = Serial \cup {t}
        PROVE  AbstractStep(t)
    <3>1. /\ t \notin Arrived \cup (Inside \ Arrived)
          /\ Inside' \ Arrived' = (Inside \ Arrived) \cup Arrived \cup {t}
      BY <2>2, <2>5, SMTT(60)
    <3> QED
      BY <2>5, <3>1, AbstractCardinality DEF AbstractStep, Abstract!Complete, Serial
  <2> QED
    BY <2>1, <2>3, <2>4, <2>5
<1>6. CASE barrier_leave(t)
  <2>1. /\ RoundOK'
        /\ t \in Inside \ Arrived /\ Inside' = Inside \ {t}
        /\ Arrived' = Arrived /\ Serial' = Serial \ {t}
    BY <1>1, <1>6, LeaveRounds
  <2> QED
    BY <2>1 DEF AbstractStep, Abstract!Leave, Serial
<1> QED
  BY <1>3, <1>4, <1>5, <1>6, Zenon DEF Call, Step

(* Every step keeps the invariant.                                          *)
LEMMA StepIInv ==
  ASSUME ~DestroyAtThreshold, IInv, [Next]_vars
  PROVE  IInv'
<1>1. SafeInv'
  BY StepSafe, SMTT(60) DEF IInv
<1>2. CASE UNCHANGED vars
  BY <1>1, <1>2 DEF vars, words, locals, IInv, RoundOK, Completed, Positions, Inside,
     Arrived
<1>3. ASSUME NEW t \in Threads, Call(t) \/ Step(t) \/ spurious_wake(t)
      PROVE  IInv'
  BY <1>1, <1>3, StepRounds DEF IInv
<1> QED
  BY <1>2, <1>3 DEF Next

(* A new barrier satisfies the invariant.                                   *)
LEMMA InitIInv == Init => IInv
<1> SUFFICES ASSUME Init PROVE IInv
  OBVIOUS
<1>1. Inside = {} /\ Arrived = {}
  BY DEF Init, Inside, Arrived, PreReset
<1>2. 0 % Count = 0 /\ RoundEnd(0) = 0
  BY Remainder, RoundEndFacts, CountAssumption
<1>3. Completed = 0
  BY <1>2, ThresholdType DEF Init, Completed, Positions
<1>4. RoundOK
  BY <1>1, <1>2, <1>3, FS_EmptySet DEF Init, RoundOK
<1> QED
  BY <1>4, InitSafe DEF IInv

(* pthread_barrier_wait does what AbstractBarrier says, for every count,    *)
(* every threshold and every number of threads: nobody leaves before Count  *)
(* threads have entered its round, the last of them is the only serial      *)
(* thread, and a reset neither merges nor splits a round.                   *)
THEOREM BarrierRefinement == ASSUME ~DestroyAtThreshold PROVE Spec => Abstract!ASpec
<1>1. Init => Abstract!AInit
  <2> SUFFICES ASSUME Init PROVE Abstract!AInit
    OBVIOUS
  <2>1. Inside = {}
    BY DEF Init, Inside, PreReset
  <2> QED
    BY <2>1 DEF Abstract!AInit, Arrived
<1>2. IInv /\ IInv' /\ [Next]_vars => [Abstract!ANext]_(Abstract!avars)
  <2> SUFFICES ASSUME IInv, IInv', [Next]_vars
               PROVE  [Abstract!ANext]_(Abstract!avars)
    OBVIOUS
  <2>1. CASE UNCHANGED vars
    BY <2>1 DEF vars, words, locals, Abstract!avars, Inside, Arrived
  <2>2. ASSUME NEW t \in Threads, Call(t) \/ Step(t) \/ spurious_wake(t)
        PROVE  [Abstract!ANext]_(Abstract!avars)
    <3>1. AbstractStep(t)
      BY <2>2, StepRounds DEF IInv
    <3> QED
      BY <3>1 DEF AbstractStep, Abstract!ANext, Abstract!avars, Serial
  <2> QED
    BY <2>1, <2>2 DEF Next
<1>3. IInv /\ [Next]_vars => IInv'
  BY StepIInv
<1> QED
  BY <1>1, <1>2, <1>3, InitIInv, PTL DEF Spec, Abstract!ASpec
=============================================================================
