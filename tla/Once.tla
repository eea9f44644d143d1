-------------------------------- MODULE Once --------------------------------
(***************************************************************************)
(* pthread_once (nptl/pthread_once.c), with cancellation of the            *)
(* initialisation routine and with fork (sysdeps/nptl/fork.h, line 34).    *)
(*                                                                         *)
(* once_control is 0, the fork generation tagged "in progress", or "done". *)
(* The model follows one process; a fork continues in the child, where     *)
(* only the forking thread is left and the generation is one higher.       *)
(***************************************************************************)
EXTENDS Naturals, Futex

CONSTANTS
  Threads,      \* the threads of a process
  MaxForks,     \* bound on the number of forks, below the 2^30 generations
  MaxCancels,   \* bound on the number of cancelled initialisations
  ForkInInit    \* whether init_routine itself may fork

ASSUME BoundsAssumption ==
  MaxForks \in Nat /\ MaxCancels \in Nat /\ ForkInInit \in BOOLEAN

VARIABLES
  control,     \* *once_control
  generation,  \* __fork_generation
  cancels,     \* cancelled initialisations so far
  completed,   \* the number of init_routine calls that ran to the end
  sleepers,    \* threads blocked by the kernel on once_control
  pc

vars == <<control, generation, cancels, completed, sleepers, pc>>

NOTYET == <<"init", 0>>
DONE == <<"done", 0>>
INPROGRESS(g) == <<"inprogress", g>>

PC == { "call",    \* before a call of pthread_once
        "cas",     \* in __pthread_once_slow, before the compare-exchange
        "fwait",   \* before futex_wait_simple
        "sleep",   \* in futex_wait_simple
        "init",    \* running init_routine
        "done",    \* init_routine returned, before storing DONE
        "wake",    \* before futex_wake, about to return
        "clear",   \* cancelled in init_routine, before storing 0
        "cwake",   \* in clear_once_control, before futex_wake
        "ret",     \* pthread_once has returned
        "gone" }   \* terminated, or left behind by a fork

TypeOK ==
  /\ control \in {NOTYET, DONE} \cup { INPROGRESS(g) : g \in 0..MaxForks }
  /\ generation \in 0..MaxForks
  /\ cancels \in 0..MaxCancels
  /\ completed \in Nat
  /\ sleepers \subseteq Threads
  /\ pc \in [Threads -> PC]

Goto(t, l) == pc' = [pc EXCEPT ![t] = l]

Init ==
  /\ control = NOTYET
  /\ generation = 0
  /\ cancels = 0
  /\ completed = 0
  /\ sleepers = {}
  /\ pc = [t \in Threads |-> "call"]
-----------------------------------------------------------------------------
(* Mutant: the fast path returns as soon as the word is not zero.           *)
pthread_once_nonzero(t) ==
  /\ pc[t] = "call"
  /\ Goto(t, IF control # NOTYET THEN "ret" ELSE "cas")
  /\ UNCHANGED <<control, generation, cancels, completed, sleepers>>

(* The fast path: return if the load sees DONE, else __pthread_once_slow.   *)
pthread_once(t) ==
  /\ pc[t] = "call"
  /\ Goto(t, IF control = DONE THEN "ret" ELSE "cas")
  /\ UNCHANGED <<control, generation, cancels, completed, sleepers>>

(* Mutant: does not tell an initialisation in progress from a stale one.    *)
once_slow_no_wait(t) ==
  /\ pc[t] = "cas"
  /\ IF control = DONE
       THEN Goto(t, "ret") /\ UNCHANGED control
       ELSE control' = INPROGRESS(generation) /\ Goto(t, "init")
  /\ UNCHANGED <<generation, cancels, completed, sleepers>>

(* Load and compare-exchange of the slow path: return on DONE; else write   *)
(* the current generation and wait if it was there already, or run the      *)
(* initialisation.                                                          *)
once_slow(t) ==
  /\ pc[t] = "cas"
  /\ IF control = DONE
       THEN Goto(t, "ret") /\ UNCHANGED control
       ELSE /\ control' = INPROGRESS(generation)
            /\ Goto(t, IF control = INPROGRESS(generation)
                         THEN "fwait" ELSE "init")
  /\ UNCHANGED <<generation, cancels, completed, sleepers>>

once_wait(t) ==
  /\ pc[t] = "fwait"
  /\ sleepers' = FutexWaitQueue(sleepers, t, control, INPROGRESS(generation))
  /\ Goto(t, IF control = INPROGRESS(generation) THEN "sleep" ELSE "cas")
  /\ UNCHANGED <<control, generation, cancels, completed>>

once_wait_return(t) ==
  /\ pc[t] = "sleep"
  /\ t \notin sleepers
  /\ Goto(t, "cas")
  /\ UNCHANGED <<control, generation, cancels, completed, sleepers>>

(* futex_wait_simple does not tell a signal or a spurious wake-up apart.    *)
once_wait_spurious(t) ==
  /\ t \in sleepers
  /\ sleepers' = sleepers \ {t}
  /\ Goto(t, "cas")
  /\ UNCHANGED <<control, generation, cancels, completed>>

(* init_routine returns.                                                    *)
init_return(t) ==
  /\ pc[t] = "init"
  /\ completed' = completed + 1
  /\ Goto(t, "done")
  /\ UNCHANGED <<control, generation, cancels, sleepers>>

once_done(t) ==
  /\ pc[t] = "done"
  /\ control' = DONE
  /\ Goto(t, "wake")
  /\ UNCHANGED <<generation, cancels, completed, sleepers>>

once_wake(t) ==
  /\ pc[t] = "wake"
  /\ sleepers' = FutexWakeAll(sleepers)
  /\ Goto(t, "ret")
  /\ UNCHANGED <<control, generation, cancels, completed>>

(* The thread is cancelled, or unwound by an exception, in init_routine.    *)
init_cancelled(t) ==
  /\ pc[t] = "init"
  /\ cancels < MaxCancels
  /\ cancels' = cancels + 1
  /\ Goto(t, "clear")
  /\ UNCHANGED <<control, generation, completed, sleepers>>

(* Mutant: leaves the word in progress.                                     *)
clear_once_control_keep(t) ==
  /\ pc[t] = "clear"
  /\ Goto(t, "cwake")
  /\ UNCHANGED <<control, generation, cancels, completed, sleepers>>

clear_once_control(t) ==
  /\ pc[t] = "clear"
  /\ control' = NOTYET
  /\ Goto(t, "cwake")
  /\ UNCHANGED <<generation, cancels, completed, sleepers>>

(* Mutant: a cancelled owner wakes nobody.                                  *)
clear_once_control_wake_none(t) ==
  /\ pc[t] = "cwake"
  /\ Goto(t, "gone")
  /\ UNCHANGED <<control, generation, cancels, completed, sleepers>>

clear_once_control_wake(t) ==
  /\ pc[t] = "cwake"
  /\ sleepers' = FutexWakeAll(sleepers)
  /\ Goto(t, "gone")
  /\ UNCHANGED <<control, generation, cancels, completed>>

(* fork by a thread outside pthread_once, or from init_routine: the child   *)
(* has that thread only, the next generation, and may start other threads   *)
(* afresh.                                                                  *)
fork(t) ==
  /\ pc[t] \in {"call", "ret"} \/ (ForkInInit /\ pc[t] = "init")
  /\ generation < MaxForks
  /\ generation' = generation + 1
  /\ sleepers' = {}
  /\ pc' = [u \in Threads |-> IF u = t THEN pc[t] ELSE "call"]
  /\ UNCHANGED <<control, cancels, completed>>
-----------------------------------------------------------------------------
Step(t) ==
  \/ pthread_once(t)
  \/ once_slow(t)
  \/ once_wait(t)
  \/ once_wait_return(t)
  \/ init_return(t)
  \/ once_done(t)
  \/ once_wake(t)
  \/ clear_once_control(t)
  \/ clear_once_control_wake(t)

Environment(t) == once_wait_spurious(t) \/ init_cancelled(t) \/ fork(t)

Next == \E t \in Threads : Step(t) \/ Environment(t)

Spec == Init /\ [][Next]_vars

Fairness == \A t \in Threads : WF_vars(Step(t))

FairSpec == Spec /\ Fairness
-----------------------------------------------------------------------------
(* The threads that own the initialisation of their process.                *)
Owners == { t \in Threads : pc[t] \in {"init", "done", "clear"} }

(* "the first thread to do so via a CAS on once_control runs init_routine,  *)
(* other threads block": no two threads of a process run it at once.        *)
OneInitializer == \A t, u \in Owners : t = u

(* The control word tells the truth about the owner: it is in progress in   *)
(* the current generation exactly while a thread of this process owns the   *)
(* initialisation.                                                          *)
ControlTruthful == control = INPROGRESS(generation) <=> Owners # {}

(* Nobody returns from pthread_once before an init_routine has run to its   *)
(* end, and once the word says DONE it never runs again.                    *)
InitializedBeforeReturn ==
  /\ \A t \in Threads : pc[t] = "ret" => control = DONE
  /\ control = DONE => completed > 0 /\ Owners = {}

(* A blocked caller is never forgotten: the owner it waits for is at work,  *)
(* or a wake-up of everybody is on its way.                                 *)
NoLostWakeup ==
  sleepers # {} =>
    \/ Owners # {}
    \/ \E t \in Threads : pc[t] \in {"wake", "cwake"}

(* DONE is for ever, across forks too.                                      *)
DoneStable == [][control = DONE => control' = DONE]_vars

(* Every call returns, unless its thread ends: cancelled initialisations    *)
(* and forks do not leave a caller waiting for an owner that is gone.       *)
CallsReturn ==
  \A t \in Threads : pc[t] = "call" ~> pc[t] \in {"ret", "gone"}
=============================================================================
