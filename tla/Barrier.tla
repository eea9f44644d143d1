------------------------------- MODULE Barrier -------------------------------
(***************************************************************************)
(* pthread barriers: nptl/pthread_barrier_wait.c, pthread_barrier_init.c   *)
(* and pthread_barrier_destroy.c.                                          *)
(*                                                                         *)
(* Threads take positions by incrementing IN; CURRENT_ROUND is the last    *)
(* position of the last round known complete; OUT counts confirmed exits.  *)
(* When OUT reaches the threshold, the last thread to leave resets all     *)
(* three.  pthread_barrier_destroy reuses the reset to learn that everyone *)
(* is out.  Each atomic access and each futex call is one action.          *)
(***************************************************************************)
EXTENDS Naturals, Futex

CONSTANTS
  Threads,
  Count,                \* bar->count
  BARRIER_IN_THRESHOLD, \* UINT_MAX/2 in the code
  DestroyAtThreshold    \* whether a client destroys after the very last
                        \* round before a reset, with the reset under way

(* pthread_barrier_init refuses any other count.                            *)
ASSUME CountAssumption ==
  /\ BARRIER_IN_THRESHOLD \in Nat
  /\ Count \in 1..(BARRIER_IN_THRESHOLD - 1)
  /\ DestroyAtThreshold \in BOOLEAN

(* The last position of the last full round among the first n positions.    *)
RoundEnd(n) == n - (n % Count)

max_in_before_reset == RoundEnd(BARRIER_IN_THRESHOLD)

VARIABLES
  in, current_round, out,  \* the words of struct pthread_barrier
  inSleepers,              \* threads blocked by the kernel on in
  crSleepers,              \* threads blocked by the kernel on current_round
  i,                       \* each thread's local i (in, in destroy)
  cr,                      \* each thread's local cr
  stage,                   \* "live", "destroying" or "destroyed"
  pc

words == <<in, current_round, out>>
queues == <<inSleepers, crSleepers>>
locals == <<i, cr>>
vars == <<words, queues, locals, stage, pc>>

(* Inside the barrier with a position: not confirmed to have left.          *)
PreReset == {"load", "cas", "cwake", "cwait", "csleep", "cload", "leave"}
PostReset == {"enter", "rwait", "rsleep", "rload"}
Resetting == {"reset_cr", "reset_out", "reset_in"}
Destroying == {"d_out", "d_wait", "d_sleep", "d_load"}

TypeOK ==
  /\ in \in Nat /\ current_round \in Nat /\ out \in Nat
  /\ inSleepers \subseteq Threads /\ crSleepers \subseteq Threads
  /\ i \in [Threads -> Nat] /\ cr \in [Threads -> Nat]
  /\ stage \in {"live", "destroying", "destroyed"}
  /\ pc \in [Threads -> PreReset \cup PostReset \cup Resetting
                          \cup Destroying \cup {"out", "rwake"}]

Goto(t, l) == pc' = [pc EXCEPT ![t] = l]

Init ==
  /\ in = 0 /\ current_round = 0 /\ out = 0
  /\ inSleepers = {} /\ crSleepers = {}
  /\ i = [t \in Threads |-> 0] /\ cr = [t \in Threads |-> 0]
  /\ stage = "live"
  /\ pc = [t \in Threads |-> "out"]
-----------------------------------------------------------------------------
(* Where a thread at position p goes once it knows the round to be c: help  *)
(* complete rounds, wait for its own, or leave.                             *)
AfterLoad(p, c) ==
  IF c + Count <= p THEN "cas" ELSE IF p > c THEN "cwait" ELSE "leave"

(* pthread_barrier_wait up to reset_restart and the increment of IN, for a  *)
(* new call or for a thread that was held up by a reset.                    *)
barrier_enter(t) ==
  /\ \/ pc[t] = "out" /\ stage = "live"
     \/ pc[t] = "enter"
  /\ in' = in + 1
  /\ i' = [i EXCEPT ![t] = in + 1]
  /\ Goto(t, IF in + 1 > max_in_before_reset THEN "rwait" ELSE "load")
  /\ UNCHANGED <<current_round, out, queues, cr, stage>>

(* futex_wait_simple (&bar->in, i) of a post-reset thread.                  *)
reset_wait(t) ==
  /\ pc[t] = "rwait"
  /\ inSleepers' = FutexWaitQueue(inSleepers, t, in, i[t])
  /\ Goto(t, IF in = i[t] THEN "rsleep" ELSE "rload")
  /\ UNCHANGED <<words, crSleepers, locals, stage>>

reset_reload(t) ==
  /\ \/ pc[t] = "rload"
     \/ pc[t] = "rsleep" /\ t \notin inSleepers
  /\ i' = [i EXCEPT ![t] = in]
  /\ Goto(t, IF in > max_in_before_reset THEN "rwait" ELSE "enter")
  /\ UNCHANGED <<words, queues, cr, stage>>

load_round(t) ==
  /\ pc[t] = "load"
  /\ cr' = [cr EXCEPT ![t] = current_round]
  /\ Goto(t, AfterLoad(i[t], current_round))
  /\ UNCHANGED <<words, queues, i, stage>>

(* The compare-exchange that completes all rounds up to the own position;   *)
(* on failure it reloads CR and the loop condition decides.                 *)
complete_round(t) ==
  /\ pc[t] = "cas"
  /\ IF current_round = cr[t]
       THEN LET newcr == RoundEnd(i[t])
            IN  /\ current_round' = newcr
                /\ cr' = [cr EXCEPT ![t] = newcr]
                /\ Goto(t, "cwake")
       ELSE /\ cr' = [cr EXCEPT ![t] = current_round]
            /\ Goto(t, AfterLoad(i[t], current_round))
            /\ UNCHANGED current_round
  /\ UNCHANGED <<in, out, queues, i, stage>>

wake_round(t) ==
  /\ pc[t] = "cwake"
  /\ crSleepers' = FutexWakeAll(crSleepers)
  /\ Goto(t, IF i[t] <= cr[t] THEN "leave" ELSE "cwait")
  /\ UNCHANGED <<words, inSleepers, locals, stage>>

round_wait(t) ==
  /\ pc[t] = "cwait"
  /\ crSleepers' = FutexWaitQueue(crSleepers, t, current_round, cr[t])
  /\ Goto(t, IF current_round = cr[t] THEN "csleep" ELSE "cload")
  /\ UNCHANGED <<words, inSleepers, locals, stage>>

(* Mutant: takes any return from futex_wait for the end of the round.       *)
round_reload_once(t) ==
  /\ \/ pc[t] = "cload"
     \/ pc[t] = "csleep" /\ t \notin crSleepers
  /\ cr' = [cr EXCEPT ![t] = current_round]
  /\ Goto(t, "leave")
  /\ UNCHANGED <<words, queues, i, stage>>

round_reload(t) ==
  /\ \/ pc[t] = "cload"
     \/ pc[t] = "csleep" /\ t \notin crSleepers
  /\ cr' = [cr EXCEPT ![t] = current_round]
  /\ Goto(t, IF i[t] > current_round THEN "cwait" ELSE "leave")
  /\ UNCHANGED <<words, queues, i, stage>>

(* Mutant: resets whenever everyone who entered has left.                   *)
barrier_leave_reset_early(t) ==
  /\ pc[t] = "leave"
  /\ out' = out + 1
  /\ Goto(t, IF out + 1 = in THEN "reset_cr" ELSE "out")
  /\ UNCHANGED <<in, current_round, queues, locals, stage>>

(* ready_to_leave: confirm the exit; the last one out resets.               *)
barrier_leave(t) ==
  /\ pc[t] = "leave"
  /\ out' = out + 1
  /\ Goto(t, IF out + 1 = max_in_before_reset THEN "reset_cr" ELSE "out")
  /\ UNCHANGED <<in, current_round, queues, locals, stage>>

reset_round(t) ==
  /\ pc[t] = "reset_cr"
  /\ current_round' = 0
  /\ Goto(t, "reset_out")
  /\ UNCHANGED <<in, out, queues, locals, stage>>

reset_out(t) ==
  /\ pc[t] = "reset_out"
  /\ out' = 0
  /\ Goto(t, "reset_in")
  /\ UNCHANGED <<in, current_round, queues, locals, stage>>

reset_in(t) ==
  /\ pc[t] = "reset_in"
  /\ in' = 0
  /\ Goto(t, "rwake")
  /\ UNCHANGED <<current_round, out, queues, locals, stage>>

(* Mutant: the reset wakes nobody.                                          *)
reset_wake_none(t) ==
  /\ pc[t] = "rwake"
  /\ Goto(t, "out")
  /\ UNCHANGED <<words, queues, locals, stage>>

reset_wake(t) ==
  /\ pc[t] = "rwake"
  /\ inSleepers' = FutexWakeAll(inSleepers)
  /\ Goto(t, "out")
  /\ UNCHANGED <<words, crSleepers, locals, stage>>

(* A blocked thread may return from the kernel on its own.                  *)
spurious_wake(t) ==
  /\ t \in inSleepers \cup crSleepers
  /\ inSleepers' = inSleepers \ {t}
  /\ crSleepers' = crSleepers \ {t}
  /\ UNCHANGED <<words, locals, stage, pc>>
-----------------------------------------------------------------------------
(* pthread_barrier_destroy up to the load of IN.  The client's obligation:  *)
(* no thread is blocked in an unfinished round, and none enters any more.   *)
barrier_destroy(t) ==
  /\ pc[t] = "out"
  /\ stage = "live"
  /\ \A u \in Threads : /\ pc[u] \notin PostReset
                        /\ pc[u] \in PreReset => i[u] <= RoundEnd(in)
  /\ DestroyAtThreshold \/ in < max_in_before_reset
  /\ stage' = "destroying"
  /\ i' = [i EXCEPT ![t] = in]
  /\ Goto(t, "d_out")
  /\ UNCHANGED <<words, queues, cr>>

(* Mutant: takes the last thread inside for itself.                         *)
destroy_trigger_off_by_one(t) ==
  /\ pc[t] = "d_out"
  /\ out' = out + (max_in_before_reset - i[t])
  /\ IF out + 1 < i[t]
       THEN Goto(t, "d_wait") /\ UNCHANGED stage
       ELSE Goto(t, "out") /\ stage' = "destroyed"
  /\ UNCHANGED <<in, current_round, queues, locals>>

(* "Trigger reset": pretend the threshold was reached.                      *)
destroy_trigger(t) ==
  /\ pc[t] = "d_out"
  /\ out' = out + (max_in_before_reset - i[t])
  /\ IF out < i[t]
       THEN Goto(t, "d_wait") /\ UNCHANGED stage
       ELSE Goto(t, "out") /\ stage' = "destroyed"
  /\ UNCHANGED <<in, current_round, queues, locals>>

destroy_wait(t) ==
  /\ pc[t] = "d_wait"
  /\ inSleepers' = FutexWaitQueue(inSleepers, t, in, i[t])
  /\ Goto(t, IF in = i[t] THEN "d_sleep" ELSE "d_load")
  /\ UNCHANGED <<words, crSleepers, locals, stage>>

destroy_reload(t) ==
  /\ \/ pc[t] = "d_load"
     \/ pc[t] = "d_sleep" /\ t \notin inSleepers
  /\ i' = [i EXCEPT ![t] = in]
  /\ IF in # 0
       THEN Goto(t, "d_wait") /\ UNCHANGED stage
       ELSE Goto(t, "out") /\ stage' = "destroyed"
  /\ UNCHANGED <<words, queues, cr>>

(* pthread_barrier_init in the memory of a destroyed barrier.               *)
barrier_init(t) ==
  /\ pc[t] = "out"
  /\ stage = "destroyed"
  /\ in' = 0 /\ out' = 0 /\ current_round' = 0
  /\ stage' = "live"
  /\ UNCHANGED <<queues, locals, pc>>
-----------------------------------------------------------------------------
Call(t) ==
  \/ pc[t] = "out" /\ barrier_enter(t)
  \/ barrier_destroy(t)
  \/ barrier_init(t)

Step(t) ==
  \/ pc[t] = "enter" /\ barrier_enter(t)
  \/ reset_wait(t) \/ reset_reload(t)
  \/ load_round(t) \/ complete_round(t) \/ wake_round(t)
  \/ round_wait(t) \/ round_reload(t)
  \/ barrier_leave(t)
  \/ reset_round(t) \/ reset_out(t) \/ reset_in(t) \/ reset_wake(t)
  \/ destroy_trigger(t) \/ destroy_wait(t) \/ destroy_reload(t)

Next == \E t \in Threads : Call(t) \/ Step(t) \/ spurious_wake(t)

Spec == Init /\ [][Next]_vars

(* A thread inside one of the functions keeps running; calls and spurious   *)
(* wake-ups are never forced.                                               *)
Fairness == \A t \in Threads : WF_vars(Step(t))

FairSpec == Spec /\ Fairness
-----------------------------------------------------------------------------
(* While a thread resets, "all other threads accessing the barrier are      *)
(* post-reset threads and are incrementing or spinning on IN": the three    *)
(* stores are not concurrent with any use of the barrier.                   *)
ResetAlone ==
  \A t, u \in Threads :
    pc[t] \in Resetting /\ u # t => pc[u] \notin PreReset \cup Resetting

(* When pthread_barrier_destroy has returned, no thread will read or write  *)
(* the barrier again; at most the address is still passed to futex_wake.    *)
DestroyWaitsForAll ==
  stage = "destroyed" => \A t \in Threads : pc[t] \in {"out", "rwake"}

(* The mapping reads membership of a round off the positions.               *)
Inside == { t \in Threads : pc[t] \in PreReset }
Arrived == { t \in Inside : in <= max_in_before_reset /\ i[t] > RoundEnd(in) }
Abstract == INSTANCE AbstractBarrier WITH
  arrived <- Arrived,
  released <- Inside \ Arrived,
  serial <- { t \in Inside \ Arrived : i[t] % Count = 0 }

(* pthread_barrier_wait does what a barrier promises: nobody leaves before  *)
(* Count threads of its round have entered, each round has one serial       *)
(* thread, and everybody released leaves, across resets as well.            *)
ImplementsBarrier == Abstract!ALiveSpec

(* pthread_barrier_destroy returns: the last thread out sees the artificial *)
(* threshold and resets.                                                    *)
DestroyReturns == stage = "destroying" ~> stage = "destroyed"
=============================================================================
