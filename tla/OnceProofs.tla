----------------------------- MODULE OnceProofs -----------------------------
(***************************************************************************)
(* Proofs about Once, for any set of threads and any number of forks and   *)
(* cancelled initialisations.  The one-initialiser property needs that the *)
(* initialisation routine does not fork (see Once!ForkInInit).             *)
(***************************************************************************)
EXTENDS Once, TLAPS

(* What makes the properties inductive: the control word never carries a    *)
(* generation from the future; the owner that is about to store DONE has    *)
(* run the routine to its end, and the one about to wake has stored it.     *)
Tags ==
  /\ \A g \in Nat : control = INPROGRESS(g) => g <= generation
  /\ \A t \in Threads : pc[t] = "done" => completed > 0
  /\ \A t \in Threads : pc[t] = "wake" => control = DONE
  /\ \A t \in sleepers : pc[t] = "sleep"

IInv ==
  /\ TypeOK
  /\ Tags
  /\ OneInitializer
  /\ ControlTruthful
  /\ InitializedBeforeReturn
  /\ NoLostWakeup

(* Initially nobody owns or waits.                                          *)
LEMMA InitIInv == Init => IInv
BY BoundsAssumption
   DEF Init, IInv, TypeOK, Tags, OneInitializer, ControlTruthful,
       InitializedBeforeReturn, NoLostWakeup, Owners, PC, NOTYET, DONE,
       INPROGRESS

(* Every action keeps the inductive invariant.                              *)
LEMMA StepIInv == ASSUME ForkInInit = FALSE, IInv, [Next]_vars PROVE IInv'
<1> USE BoundsAssumption
<1> USE DEF IInv, TypeOK, Tags, OneInitializer, ControlTruthful, PC, Goto,
            InitializedBeforeReturn, NoLostWakeup, Owners, NOTYET, DONE,
            INPROGRESS, FutexWakeAll, FutexWaitQueue
<1>1. CASE UNCHANGED vars
  BY <1>1 DEF vars
<1>2. ASSUME NEW t \in Threads, pthread_once(t) PROVE IInv'
  BY <1>2 DEF pthread_once
<1>3. ASSUME NEW t \in Threads, once_slow(t) PROVE IInv'
  BY <1>3 DEF once_slow
<1>4. ASSUME NEW t \in Threads, once_wait(t) PROVE IInv'
  BY <1>4 DEF once_wait
<1>5. ASSUME NEW t \in Threads, once_wait_return(t) PROVE IInv'
  BY <1>5 DEF once_wait_return
<1>6. ASSUME NEW t \in Threads, init_return(t) PROVE IInv'
  BY <1>6 DEF init_return
<1>7. ASSUME NEW t \in Threads, once_done(t) PROVE IInv'
  BY <1>7 DEF once_done
<1>8. ASSUME NEW t \in Threads, once_wake(t) PROVE IInv'
  BY <1>8 DEF once_wake
<1>9. ASSUME NEW t \in Threads, clear_once_control(t) PROVE IInv'
  BY <1>9 DEF clear_once_control
<1>10. ASSUME NEW t \in Threads, clear_once_control_wake(t) PROVE IInv'
  BY <1>10 DEF clear_once_control_wake
<1>11. ASSUME NEW t \in Threads, once_wait_spurious(t) PROVE IInv'
  BY <1>11 DEF once_wait_spurious
<1>12. ASSUME NEW t \in Threads, init_cancelled(t) PROVE IInv'
  BY <1>12 DEF init_cancelled
<1>13. ASSUME NEW t \in Threads, fork(t) PROVE IInv'
  BY <1>13 DEF fork
<1> QED
  BY <1>1, <1>2, <1>3, <1>4, <1>5, <1>6, <1>7, <1>8, <1>9, <1>10, <1>11,
     <1>12, <1>13 DEF Next, Step, Environment

(* No step takes DONE back: the only stores of another value are made by an *)
(* owner, and a word that says DONE has none.                               *)
LEMMA StepDoneStable ==
  ASSUME IInv, [Next]_vars, control = DONE PROVE control' = DONE
<1> USE DEF IInv, InitializedBeforeReturn, Owners
<1>1. CASE UNCHANGED vars
  BY <1>1 DEF vars
<1>2. ASSUME NEW t \in Threads, Step(t) PROVE control' = DONE
  BY <1>2 DEF Step, pthread_once, once_slow, once_wait, once_wait_return,
       init_return, once_done, once_wake, clear_once_control,
       clear_once_control_wake
<1>3. ASSUME NEW t \in Threads, Environment(t) PROVE control' = DONE
  BY <1>3 DEF Environment, once_wait_spurious, init_cancelled, fork
<1> QED
  BY <1>1, <1>2, <1>3 DEF Next

(* While init_routine itself does not fork: at most one thread of a process *)
(* runs it at a time, the control word tells whether one does, nobody       *)
(* returns from pthread_once before a run of it has ended, and a thread     *)
(* blocked in pthread_once has an owner or a wake-up to wait for.           *)
THEOREM OnceSafety ==
  ASSUME ForkInInit = FALSE
  PROVE  Spec => [](/\ TypeOK /\ OneInitializer /\ ControlTruthful
                    /\ InitializedBeforeReturn /\ NoLostWakeup)
<1>1. IInv => /\ TypeOK /\ OneInitializer /\ ControlTruthful
              /\ InitializedBeforeReturn /\ NoLostWakeup
  BY DEF IInv
<1>2. IInv /\ [Next]_vars => IInv'
  BY StepIInv
<1> QED
  BY <1>1, <1>2, InitIInv, PTL DEF Spec

(* The control word carries the current generation exactly while a thread   *)
(* of this process runs init_routine: after a fork the child does not wait  *)
(* for an owner that it does not have.                                      *)
THEOREM ControlAlwaysTruthful ==
  ASSUME ForkInInit = FALSE PROVE Spec => []ControlTruthful
BY OnceSafety, PTL

(* pthread_once returns only after a run of init_routine has ended, and     *)
(* then no other run is under way.                                          *)
THEOREM AlwaysInitializedBeforeReturn ==
  ASSUME ForkInInit = FALSE PROVE Spec => []InitializedBeforeReturn
BY OnceSafety, PTL

(* Under the same condition the control word never leaves DONE, whatever    *)
(* forks, cancellations and late callers do.                                *)
THEOREM DoneForEver == ASSUME ForkInInit = FALSE PROVE Spec => DoneStable
<1>1. IInv /\ [Next]_vars => IInv'
  BY StepIInv
<1>2. IInv /\ [Next]_vars => [control = DONE => control' = DONE]_vars
  BY StepDoneStable
<1> QED
  BY <1>1, <1>2, InitIInv, PTL DEF Spec, DoneStable
=============================================================================
