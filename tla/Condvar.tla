------------------------------ MODULE Condvar ------------------------------
(***************************************************************************)
(* Condition variables: nptl/pthread_cond_wait.c, pthread_cond_signal.c,   *)
(* pthread_cond_broadcast.c, pthread_cond_destroy.c and                    *)
(* pthread_cond_common.c.                                                  *)
(*                                                                         *)
(* Waiters take positions in a sequence and fall into two groups: G1,      *)
(* which receives signals, and G2, which collects newcomers.  The groups   *)
(* live in two slots that change roles.  A waiter blocks on the signal     *)
(* word of its slot; a waiter that was slow may find its slot in use by a  *)
(* later group and take a signal from it.                                  *)
(*                                                                         *)
(* Each access to a word that is read outside the internal lock is an      *)
(* action.  The internal lock is taken with the first access under it and  *)
(* released with the last (CondvarLock has its protocol).  Signals per     *)
(* slot are counted in twos, the lowest bit being the closed flag.         *)
(*                                                                         *)
(* The client is the one condition variables are for: consumers wait in a  *)
(* loop while there is no item, producers add one and signal, with the     *)
(* mutex held or after releasing it, and the last one broadcasts and       *)
(* destroys.  A consumer that times out or is cancelled leaves.            *)
(***************************************************************************)
EXTENDS Integers, Futex

CONSTANTS
  Producers, Consumers,
  Nobody,          \* the owner of a free mutex or internal lock
  GroupMax,        \* __PTHREAD_COND_MAX_GROUP_SIZE
  Kinds,           \* what producers call: "signal", "broadcast"
  Locked,          \* whether they call it with the mutex held: a set
  Faults,          \* what may hit a waiter: "timeout", "cancel", "spurious"
  Destroys,        \* whether the condition variable is destroyed at the end
  MaxWaits,        \* bound on calls of pthread_cond_wait
  MaxItems,        \* bound on items produced
  MaxFaults        \* bound on faults

Threads == Producers \cup Consumers
Slots == 0..1

ASSUME ClientAssumption ==
  /\ Producers \cap Consumers = {}
  /\ Nobody \notin Threads
  /\ Kinds \subseteq {"signal", "broadcast"}
  /\ Locked \subseteq BOOLEAN
  /\ Faults \subseteq {"timeout", "cancel", "spurious"}
  /\ Destroys \in BOOLEAN
  /\ {GroupMax, MaxWaits, MaxItems, MaxFaults} \subseteq Nat

VARIABLES
  wseq, g2,        \* __wseq: next position, slot of G2
  g1_start,        \* __g1_start: position, slot of G2
  orig_size,       \* __g1_orig_size without its lock bits
  lock,            \* the owner of the internal lock
  g_refs,          \* __g_refs: references, wake-request flag
  g_signals,       \* __g_signals
  g_size,          \* __g_size, negative in G2 after cancellations
  wrefs, destroying, \* __wrefs: references, wake-request flag
  gSleepers,       \* threads blocked on __g_signals of their slot
  rSleepers,       \* threads blocked on __g_refs
  dSleepers,       \* threads blocked on __wrefs
  mutex,           \* the owner of the client's mutex
  items, produced, \* the client's predicate; items produced so far
  faults,          \* faults so far
  stage,           \* "live", "closing" or "destroyed"
  local,           \* the locals of each thread
  pc

sequence == <<wseq, g2, g1_start, orig_size>>
groups == <<g_refs, g_signals, g_size>>
references == <<wrefs, destroying>>
queues == <<gSleepers, rSleepers, dSleepers>>
client == <<mutex, items, produced, faults, stage>>
vars == <<sequence, lock, groups, references, queues, client, local, pc>>

(* seq and g: position and slot of a waiter.  exit: why it stops waiting.   *)
(* start, s: g1_start and s in the repair of a stolen signal.               *)
(* kind, switch, g1: the signal or broadcast a thread performs, whether it  *)
(* has to switch groups, and the slot it wakes.  r: a value to block on.    *)
Fresh ==
  [ seq |-> 0, g |-> 0, exit |-> "none", start |-> <<0, 0>>, s |-> 0,
    kind |-> "none", switch |-> FALSE, g1 |-> 0, r |-> <<0, 0>>, ret |-> "idle" ]

Waiting == { "wrefs", "try", "ref", "closed", "older", "fwait", "sleep", "dec",
             "unflag", "rwake", "took", "undo_load", "undo_check", "undo_cas",
             "undo_wake", "cancel", "cwake", "confirm" }
Signalling == { "waiters", "s_lock", "b_wake", "q_close", "q_refs", "q_flag",
                "q_wait", "q_sleep", "q_start", "q_open", "q_switch", "s_add",
                "s_wake" }
PC == Waiting \cup Signalling \cup
      { "idle", "again", "dwake", "d_flag", "d_wait", "d_sleep", "d_load" }

TypeOK ==
  /\ wseq \in 0..MaxWaits /\ g2 \in Slots
  /\ g1_start \in (0..MaxWaits) \X Slots
  /\ orig_size \in 0..MaxWaits
  /\ lock \in Threads \cup {Nobody} /\ mutex \in Threads \cup {Nobody}
  /\ g_refs \in [Slots -> (0..Cardinality(Consumers)) \X (0..1)]
  /\ g_signals \in [Slots -> Nat]
  /\ g_size \in [Slots -> Int]
  /\ wrefs \in 0..Cardinality(Consumers) /\ destroying \in 0..1
  /\ gSleepers \cup rSleepers \cup dSleepers \subseteq Threads
  /\ items \in 0..MaxItems /\ produced \in 0..MaxItems
  /\ faults \in 0..MaxFaults
  /\ stage \in {"live", "closing", "destroyed"}
  /\ DOMAIN local = Threads
  /\ pc \in [Threads -> PC]

(* PTHREAD_COND_INITIALIZER                                                 *)
Init ==
  /\ wseq = 0 /\ g2 = 0 /\ g1_start = <<0, 0>> /\ orig_size = 0
  /\ lock = Nobody
  /\ g_refs = [k \in Slots |-> <<0, 0>>]
  /\ g_signals = [k \in Slots |-> 0] /\ g_size = [k \in Slots |-> 0]
  /\ wrefs = 0 /\ destroying = 0
  /\ gSleepers = {} /\ rSleepers = {} /\ dSleepers = {}
  /\ mutex = Nobody /\ items = 0 /\ produced = 0 /\ faults = 0
  /\ stage = "live"
  /\ local = [t \in Threads |-> Fresh]
  /\ pc = [t \in Threads |-> "idle"]

At(t, l) == pc[t] = l
Goto(t, l) == pc' = [pc EXCEPT ![t] = l]
Set(t, f, v) == local' = [local EXCEPT ![t][f] = v]
G(t) == local[t].g
G1 == 1 - g2

(* Go on at l with the locals that are still live: before the wait is       *)
(* confirmed its position and slot, and all along why a waiter gives up.    *)
Continue(t, l) ==
  LET me == local[t]
  IN  /\ Goto(t, l)
      /\ local' = [local EXCEPT ![t] =
           IF l = "confirm"
             THEN [Fresh EXCEPT !.exit =
                     IF me.exit = "closed" THEN "none" ELSE me.exit]
             ELSE [Fresh EXCEPT !.seq = me.seq, !.g = me.g, !.exit = me.exit]]

IsClosed(signals) == signals % 2 = 1

(* futex_wake on the signal word of slot k.                                 *)
Blocked(k) == { t \in gSleepers : G(t) = k }
WakeOne(k) ==
  \E rest \in FutexWakeOne(Blocked(k)) :
    gSleepers' = (gSleepers \ Blocked(k)) \cup rest
WakeAll(k) == gSleepers' = gSleepers \ Blocked(k)
-----------------------------------------------------------------------------
(* pthread_cond_wait: take a position in the current G2.                    *)
wait_position(t) ==
  /\ wseq < MaxWaits
  /\ wseq' = wseq + 1
  /\ local' = [local EXCEPT ![t] = [Fresh EXCEPT !.seq = wseq, !.g = g2]]
  /\ Goto(t, "wrefs")
  /\ UNCHANGED <<g2, g1_start, orig_size>>

(* Take a reference and release the mutex.                                  *)
wait_reference(t) ==
  /\ At(t, "wrefs")
  /\ wrefs' = wrefs + 1
  /\ mutex' = Nobody
  /\ Goto(t, "try")
  /\ UNCHANGED <<sequence, lock, groups, destroying, queues, items, produced,
                 faults, stage, local>>

(* Load the signals of the slot and, unless it is closed or empty, take one.*)
(* The load and the compare-exchange are one action: when the exchange      *)
(* fails, the same decision is made on the value it returns.                *)
wait_grab(t) ==
  /\ At(t, "try")
  /\ LET signals == g_signals[G(t)]
     IN  IF IsClosed(signals) THEN Continue(t, "confirm") /\ UNCHANGED g_signals
         ELSE IF signals = 0 THEN Continue(t, "ref") /\ UNCHANGED g_signals
         ELSE /\ g_signals' = [g_signals EXCEPT ![G(t)] = signals - 2]
              /\ Continue(t, "took")
  /\ UNCHANGED <<sequence, lock, g_refs, g_size, references, queues, client>>

wait_group_reference(t) ==
  /\ At(t, "ref")
  /\ g_refs' = [g_refs EXCEPT ![G(t)][1] = @ + 1]
  /\ Goto(t, "closed")
  /\ UNCHANGED <<sequence, lock, g_signals, g_size, references, queues, client,
                 local>>

(* With the reference held: is the group closed, by the flag or by the      *)
(* position?  Two loads.                                                    *)
wait_check_closed(t) ==
  /\ At(t, "closed")
  /\ IF IsClosed(g_signals[G(t)])
       THEN Goto(t, "dec") /\ Set(t, "exit", "closed")
       ELSE Goto(t, "older") /\ UNCHANGED local
  /\ UNCHANGED <<sequence, lock, groups, references, queues, client>>

wait_check_older(t) ==
  /\ At(t, "older")
  /\ IF local[t].seq < g1_start[1]
       THEN Goto(t, "dec") /\ Set(t, "exit", "closed")
       ELSE Goto(t, "fwait") /\ UNCHANGED local
  /\ UNCHANGED <<sequence, lock, groups, references, queues, client>>

wait_block(t) ==
  /\ At(t, "fwait")
  /\ gSleepers' = FutexWaitQueue(gSleepers, t, g_signals[G(t)], 0)
  /\ Goto(t, IF g_signals[G(t)] = 0 THEN "sleep" ELSE "dec")
  /\ UNCHANGED <<sequence, lock, groups, references, rSleepers, dSleepers,
                 client, local>>

(* A signal or a spurious wake-up: the futex call returns and the loop goes *)
(* on.  A timeout or EOVERFLOW: the waiter gives up.  Cancellation: the     *)
(* cleanup handler runs, also in a thread already woken.                    *)
Fault(t, f) ==
  /\ f \in Faults /\ faults < MaxFaults
  /\ \/ t \in gSleepers
     \/ At(t, "fwait") /\ f # "spurious"
     \/ At(t, "sleep") /\ f = "cancel"
  /\ faults' = faults + 1
  /\ gSleepers' = gSleepers \ {t}
  /\ Set(t, "exit", IF f = "spurious" THEN "none" ELSE f)
  /\ Goto(t, "dec")
  /\ UNCHANGED <<sequence, lock, groups, references, rSleepers, dSleepers,
                 mutex, items, produced, stage>>

(* Where a waiter goes once it has dropped its group reference.             *)
AfterDec(t) ==
  CASE local[t].exit = "none" -> "try"
    [] local[t].exit = "closed" -> "confirm"
    [] OTHER -> "cancel"

(* __condvar_dec_grefs, also by a waiter that has been woken.               *)
dec_grefs(t) ==
  /\ \/ At(t, "dec")
     \/ At(t, "sleep") /\ t \notin gSleepers
  /\ g_refs' = [g_refs EXCEPT ![G(t)][1] = @ - 1]
  /\ Continue(t, IF g_refs[G(t)] = <<1, 1>> THEN "unflag" ELSE AfterDec(t))
  /\ UNCHANGED <<sequence, lock, g_signals, g_size, references, queues, client>>

dec_grefs_unflag(t) ==
  /\ At(t, "unflag")
  /\ g_refs' = [g_refs EXCEPT ![G(t)][2] = 0]
  /\ Goto(t, "rwake")
  /\ UNCHANGED <<sequence, lock, g_signals, g_size, references, queues, client,
                 local>>

dec_grefs_wake(t) ==
  /\ At(t, "rwake")
  /\ rSleepers' = { u \in rSleepers : local[u].g1 # G(t) }
  /\ Continue(t, AfterDec(t))
  /\ UNCHANGED <<sequence, lock, groups, references, gSleepers, dSleepers,
                 client>>

(* The waiter has a signal.  If its group is closed and its slot is that of *)
(* the current G1, the signal may have been meant for another.              *)
wait_took(t) ==
  /\ At(t, "took")
  /\ IF local[t].seq < g1_start[1] /\ 1 - g1_start[2] = G(t)
       THEN Goto(t, "undo_load") /\ Set(t, "start", g1_start)
       ELSE Continue(t, "confirm")
  /\ UNCHANGED <<sequence, lock, groups, references, queues, client>>

undo_load(t) ==
  /\ At(t, "undo_load")
  /\ Set(t, "s", g_signals[G(t)])
  /\ Goto(t, "undo_check")
  /\ UNCHANGED <<sequence, lock, groups, references, queues, client>>

undo_check(t) ==
  /\ At(t, "undo_check")
  /\ IF g1_start # local[t].start
       THEN Continue(t, "confirm")
       ELSE /\ Goto(t, IF IsClosed(local[t].s) THEN "undo_wake" ELSE "undo_cas")
            /\ UNCHANGED local
  /\ UNCHANGED <<sequence, lock, groups, references, queues, client>>

undo_cas(t) ==
  /\ At(t, "undo_cas")
  /\ IF g_signals[G(t)] = local[t].s
       THEN /\ g_signals' = [g_signals EXCEPT ![G(t)] = @ + 2]
            /\ Continue(t, "undo_wake")
       ELSE /\ Set(t, "s", g_signals[G(t)])
            /\ Goto(t, "undo_check")
            /\ UNCHANGED g_signals
  /\ UNCHANGED <<sequence, lock, g_refs, g_size, references, queues, client>>

(* Mutant: returns the signal and leaves it at that.                        *)
undo_wake_only(t) ==
  /\ At(t, "undo_wake")
  /\ WakeOne(G(t))
  /\ Continue(t, "confirm")
  /\ UNCHANGED <<sequence, lock, groups, references, rSleepers, dSleepers,
                 client>>

(* Wake one waiter of the slot, then broadcast: the signal may have been    *)
(* returned to a group it was not taken from.                               *)
undo_wake(t) ==
  /\ At(t, "undo_wake")
  /\ WakeOne(G(t))
  /\ local' = [local EXCEPT ![t] =
                 [Fresh EXCEPT !.kind = "broadcast", !.ret = "confirm"]]
  /\ Goto(t, "waiters")
  /\ UNCHANGED <<sequence, lock, groups, references, rSleepers, dSleepers,
                 client>>

(* Mutant: makes the group smaller even if it is all signalled.             *)
cancel_waiting_shrink(t) ==
  /\ At(t, "cancel")
  /\ lock = Nobody
  /\ g_size' = [g_size EXCEPT ![G(t)] = @ - 1]
  /\ Continue(t, IF local[t].exit = "cancel" THEN "cwake" ELSE "confirm")
  /\ UNCHANGED <<sequence, lock, g_refs, g_signals, references, queues, client>>

(* __condvar_cancel_waiting, all of it under the internal lock: either the  *)
(* group is made smaller or the signal effectively consumed is replaced.    *)
cancel_waiting(t) ==
  LET seq == local[t].seq
      closed == g1_start[1] > seq
      inG2 == ~closed /\ g1_start[1] + orig_size <= seq
      full == inG2 /\ g_size[G(t)] + GroupMax = 0
      consumed == closed \/ (~inG2 /\ g_size[G(t)] = 0)
      next == IF local[t].exit = "cancel" THEN "cwake" ELSE "confirm"
  IN  /\ At(t, "cancel")
      /\ lock = Nobody
      /\ IF consumed \/ full
           THEN /\ local' = [local EXCEPT ![t].ret = next,
                   ![t].kind = IF full THEN "broadcast" ELSE "signal"]
                /\ Goto(t, "waiters")
                /\ UNCHANGED g_size
           ELSE /\ g_size' = [g_size EXCEPT ![G(t)] = @ - 1]
                /\ Continue(t, next)
      /\ UNCHANGED <<sequence, lock, g_refs, g_signals, references, queues,
                     client>>

(* Mutant: takes it that a cancelled waiter was not woken.                  *)
cleanup_wake_none(t) ==
  /\ At(t, "cwake")
  /\ Continue(t, "confirm")
  /\ UNCHANGED <<sequence, lock, groups, references, queues, client>>

(* __condvar_cleanup_waiting: a conservative wake-up for the one a          *)
(* cancelled waiter may have consumed.                                      *)
cleanup_wake(t) ==
  /\ At(t, "cwake")
  /\ WakeOne(G(t))
  /\ Continue(t, "confirm")
  /\ UNCHANGED <<sequence, lock, groups, references, rSleepers, dSleepers,
                 client>>

(* __condvar_confirm_wakeup                                                 *)
confirm_wakeup(t) ==
  /\ At(t, "confirm")
  /\ wrefs' = wrefs - 1
  /\ Goto(t, IF <<wrefs, destroying>> = <<1, 1>> THEN "dwake" ELSE "again")
  /\ UNCHANGED <<sequence, lock, groups, destroying, queues, client, local>>

confirm_wakeup_wake(t) ==
  /\ At(t, "dwake")
  /\ dSleepers' = FutexWakeAll(dSleepers)
  /\ Goto(t, "again")
  /\ UNCHANGED <<sequence, lock, groups, references, gSleepers, rSleepers,
                 client, local>>
-----------------------------------------------------------------------------
(* The return of pthread_cond_signal or pthread_cond_broadcast, to the      *)
(* client, which releases the mutex if it has it, or to the waiter that     *)
(* called it.                                                               *)
Return(t) ==
  /\ Continue(t, local[t].ret)
  /\ mutex' = IF mutex = t THEN Nobody ELSE mutex
  /\ UNCHANGED <<items, produced, faults, stage>>

(* Nothing to do if there are no references.                                *)
signal_check(t) ==
  /\ At(t, "waiters")
  /\ IF wrefs = 0 THEN Return(t) ELSE Goto(t, "s_lock") /\ UNCHANGED <<local, client>>
  /\ UNCHANGED <<sequence, lock, groups, references, queues>>

(* No waiter in G2, cancelled ones discounted.                              *)
EmptyG2 == wseq - g1_start[1] - orig_size + g_size[g2] = 0

(* pthread_cond_signal with the internal lock: put the signal into G1 if it *)
(* still takes signals, else switch groups unless G2 is empty.              *)
signal_lock(t) ==
  /\ At(t, "s_lock") /\ local[t].kind = "signal"
  /\ lock = Nobody
  /\ IF g_size[G1] = 0 /\ EmptyG2
       THEN Return(t) /\ UNCHANGED lock
       ELSE /\ lock' = t
            /\ Set(t, "g1", G1)
            /\ Goto(t, IF g_size[G1] # 0 THEN "s_add" ELSE "q_close")
            /\ UNCHANGED client
  /\ UNCHANGED <<sequence, groups, references, queues>>

(* pthread_cond_broadcast with the internal lock: signal all of G1, then    *)
(* switch unless G2 was empty.                                              *)
broadcast_lock(t) ==
  /\ At(t, "s_lock") /\ local[t].kind = "broadcast"
  /\ lock = Nobody
  /\ IF g_size[G1] = 0 /\ EmptyG2
       THEN Return(t) /\ UNCHANGED <<lock, groups>>
       ELSE /\ lock' = t
            /\ local' = [local EXCEPT ![t].g1 = G1, ![t].switch = ~EmptyG2]
            /\ g_signals' = [g_signals EXCEPT ![G1] = @ + 2 * g_size[G1]]
            /\ g_size' = [g_size EXCEPT ![G1] = 0]
            /\ Goto(t, IF g_size[G1] # 0 THEN "b_wake" ELSE "q_close")
            /\ UNCHANGED <<g_refs, client>>
  /\ UNCHANGED <<sequence, references, queues>>

broadcast_wake(t) ==
  /\ At(t, "b_wake")
  /\ WakeAll(local[t].g1)
  /\ IF local[t].switch
       THEN Goto(t, "q_close") /\ UNCHANGED <<lock, local, client>>
       ELSE lock' = Nobody /\ Return(t)
  /\ UNCHANGED <<sequence, groups, references, rSleepers, dSleepers>>

(* __condvar_quiesce_and_switch_g1: set the closed flag, ...                *)
quiesce_close(t) ==
  /\ At(t, "q_close")
  /\ g_signals' = [g_signals EXCEPT ![local[t].g1] =
                     IF IsClosed(@) THEN @ ELSE @ + 1]
  /\ Goto(t, "q_refs")
  /\ UNCHANGED <<sequence, lock, g_refs, g_size, references, queues, client,
                 local>>

(* Mutant: does not wait for the group to quiesce.                          *)
quiesce_load_skip(t) ==
  /\ At(t, "q_refs")
  /\ Goto(t, "q_start")
  /\ UNCHANGED <<sequence, lock, groups, references, queues, client, local>>

(* ... wait until nobody uses the futex word, ...                           *)
quiesce_load(t) ==
  /\ \/ At(t, "q_refs")
     \/ At(t, "q_sleep") /\ t \notin rSleepers
  /\ Goto(t, IF g_refs[local[t].g1][1] = 0 THEN "q_start" ELSE "q_flag")
  /\ UNCHANGED <<sequence, lock, groups, references, queues, client, local>>

quiesce_flag(t) ==
  LET refs == g_refs[local[t].g1][1]
  IN  /\ At(t, "q_flag")
      /\ g_refs' = [g_refs EXCEPT ![local[t].g1][2] = 1]
      /\ IF refs > 0 THEN Goto(t, "q_wait") /\ Set(t, "r", <<refs, 1>>)
                     ELSE Goto(t, "q_refs") /\ UNCHANGED local
      /\ UNCHANGED <<sequence, lock, g_signals, g_size, references, queues,
                     client>>

quiesce_wait(t) ==
  LET word == g_refs[local[t].g1]
  IN  /\ At(t, "q_wait")
      /\ rSleepers' = FutexWaitQueue(rSleepers, t, word, local[t].r)
      /\ Goto(t, IF word = local[t].r THEN "q_sleep" ELSE "q_refs")
      /\ Set(t, "r", <<0, 0>>)
      /\ UNCHANGED <<sequence, lock, groups, references, gSleepers, dSleepers,
                     client>>

(* ... move the start of G1, ...                                            *)
quiesce_start(t) ==
  /\ At(t, "q_start")
  /\ g1_start' = <<g1_start[1] + orig_size, local[t].g1>>
  /\ Goto(t, "q_open")
  /\ UNCHANGED <<wseq, g2, orig_size, lock, groups, references, queues, client,
                 local>>

(* ... reopen the slot, ...                                                 *)
quiesce_open(t) ==
  /\ At(t, "q_open")
  /\ g_signals' = [g_signals EXCEPT ![local[t].g1] = 0]
  /\ Goto(t, "q_switch")
  /\ UNCHANGED <<sequence, lock, g_refs, g_size, references, queues, client,
                 local>>

(* ... and make G2 the new G1, whose size may be zero after cancellations.  *)
quiesce_switch(t) ==
  LET new == g2
      size == wseq - g1_start[1]
  IN  /\ At(t, "q_switch")
      /\ g2' = 1 - g2
      /\ orig_size' = size
      /\ g_size' = [g_size EXCEPT ![new] = @ + size]
      /\ IF g_size[new] + size = 0
           THEN lock' = Nobody /\ Return(t)
           ELSE Goto(t, "s_add") /\ Set(t, "g1", new) /\ UNCHANGED <<lock, client>>
      /\ UNCHANGED <<wseq, g1_start, g_refs, g_signals, references, queues>>

(* Add the signal or signals to G1 and release the lock.                    *)
signal_add(t) ==
  LET g1 == local[t].g1
      n == IF local[t].kind = "signal" THEN 1 ELSE g_size[g1]
  IN  /\ At(t, "s_add")
      /\ g_signals' = [g_signals EXCEPT ![g1] = @ + 2 * n]
      /\ g_size' = [g_size EXCEPT ![g1] = @ - n]
      /\ lock' = Nobody
      /\ Goto(t, "s_wake")
      /\ UNCHANGED <<sequence, g_refs, references, queues, client, local>>

signal_wake(t) ==
  /\ At(t, "s_wake")
  /\ IF local[t].kind = "signal" THEN WakeOne(local[t].g1)
                                 ELSE WakeAll(local[t].g1)
  /\ Return(t)
  /\ UNCHANGED <<sequence, lock, groups, references, rSleepers, dSleepers>>
-----------------------------------------------------------------------------
(* Mutant: takes the last waiter for gone.                                  *)
AfterDestroyLoadLast(t) ==
  IF wrefs <= 1
    THEN Goto(t, "idle") /\ stage' = "destroyed" /\ UNCHANGED local
    ELSE Goto(t, "d_wait") /\ Set(t, "r", references) /\ UNCHANGED stage

(* What follows a load of __wrefs in pthread_cond_destroy.                  *)
AfterDestroyLoad(t) ==
  IF wrefs = 0
    THEN Goto(t, "idle") /\ stage' = "destroyed" /\ UNCHANGED local
    ELSE Goto(t, "d_wait") /\ Set(t, "r", references) /\ UNCHANGED stage

(* pthread_cond_destroy, once the client's other signals have returned: set *)
(* the flag.  The value it goes on with is the one from before the flag, so *)
(* that the first futex call does not block.                                *)
cond_destroy(t) ==
  /\ At(t, "d_flag")
  /\ \A u \in Producers \ {t} : At(u, "idle")
  /\ destroying' = 1
  /\ AfterDestroyLoad(t)
  /\ UNCHANGED <<sequence, lock, groups, wrefs, queues, mutex, items, produced,
                 faults>>

destroy_wait(t) ==
  /\ At(t, "d_wait")
  /\ dSleepers' = FutexWaitQueue(dSleepers, t, references, local[t].r)
  /\ Goto(t, IF references = local[t].r THEN "d_sleep" ELSE "d_load")
  /\ UNCHANGED <<sequence, lock, groups, references, gSleepers, rSleepers,
                 client, local>>

destroy_load(t) ==
  /\ \/ At(t, "d_load")
     \/ At(t, "d_sleep") /\ t \notin dSleepers
  /\ AfterDestroyLoad(t)
  /\ UNCHANGED <<sequence, lock, groups, references, queues, mutex, items,
                 produced, faults>>

(* futex_wait_simple returns on its own, in quiesce or destroy.             *)
simple_spurious(t) ==
  /\ "spurious" \in Faults /\ faults < MaxFaults
  /\ t \in rSleepers \cup dSleepers
  /\ faults' = faults + 1
  /\ rSleepers' = rSleepers \ {t}
  /\ dSleepers' = dSleepers \ {t}
  /\ UNCHANGED <<sequence, lock, groups, references, gSleepers, mutex, items,
                 produced, stage, local, pc>>
-----------------------------------------------------------------------------
(* The client.  A producer adds an item under the mutex and keeps the mutex *)
(* for the signal or not.                                                   *)
Produce(t) ==
  /\ t \in Producers /\ At(t, "idle")
  /\ mutex = Nobody /\ stage = "live"
  /\ produced < MaxItems
  /\ items' = items + 1 /\ produced' = produced + 1
  /\ \E held \in Locked : mutex' = IF held THEN t ELSE Nobody
  /\ \E kind \in Kinds : Set(t, "kind", kind)
  /\ Goto(t, "waiters")
  /\ UNCHANGED <<sequence, lock, groups, references, queues, faults, stage>>

(* The last user: no more waits, everybody woken, then destroy.             *)
Close(t) ==
  /\ Destroys
  /\ t \in Producers /\ At(t, "idle")
  /\ mutex = Nobody /\ stage = "live"
  /\ stage' = "closing"
  /\ mutex' = t
  /\ local' = [local EXCEPT ![t].kind = "broadcast", ![t].ret = "d_flag"]
  /\ Goto(t, "waiters")
  /\ UNCHANGED <<sequence, lock, groups, references, queues, items, produced,
                 faults>>

(* A consumer with the mutex: take an item, or wait for one.                *)
Consume(t) ==
  /\ t \in Consumers /\ pc[t] \in {"idle", "again"}
  /\ mutex = Nobody
  /\ local[t].exit \notin {"timeout", "cancel"}
  /\ items > 0
  /\ items' = items - 1
  /\ Goto(t, "idle")
  /\ local' = [local EXCEPT ![t] = Fresh]
  /\ UNCHANGED <<sequence, lock, groups, references, queues, mutex, produced,
                 faults, stage>>

Wait(t) ==
  /\ t \in Consumers /\ pc[t] \in {"idle", "again"}
  /\ mutex = Nobody /\ stage = "live"
  /\ local[t].exit \notin {"timeout", "cancel"}
  /\ items = 0
  /\ mutex' = t
  /\ wait_position(t)
  /\ UNCHANGED <<lock, groups, references, queues, items, produced, faults,
                 stage>>

(* A consumer leaves: timed out, cancelled, or told to by the closing       *)
(* client.                                                                  *)
Leave(t) ==
  /\ At(t, "again")
  /\ mutex = Nobody
  /\ \/ local[t].exit \in {"timeout", "cancel"}
     \/ items = 0 /\ (stage # "live" \/ wseq = MaxWaits)
  /\ Goto(t, "idle")
  /\ local' = [local EXCEPT ![t] = Fresh]
  /\ UNCHANGED <<sequence, lock, groups, references, queues, client>>

Waiter(t) ==
  \/ wait_reference(t) \/ wait_grab(t) \/ wait_group_reference(t)
  \/ wait_check_closed(t) \/ wait_check_older(t)
  \/ wait_block(t)
  \/ dec_grefs(t) \/ dec_grefs_unflag(t) \/ dec_grefs_wake(t)
  \/ wait_took(t) \/ undo_load(t) \/ undo_check(t) \/ undo_cas(t)
  \/ undo_wake(t)
  \/ cancel_waiting(t) \/ cleanup_wake(t)
  \/ confirm_wakeup(t) \/ confirm_wakeup_wake(t)

Signaler(t) ==
  \/ signal_check(t) \/ signal_lock(t)
  \/ broadcast_lock(t) \/ broadcast_wake(t)
  \/ quiesce_close(t) \/ quiesce_load(t) \/ quiesce_flag(t)
  \/ quiesce_wait(t) \/ quiesce_start(t) \/ quiesce_open(t)
  \/ quiesce_switch(t)
  \/ signal_add(t) \/ signal_wake(t)

Destroyer(t) == cond_destroy(t) \/ destroy_wait(t) \/ destroy_load(t)

Client(t) == Produce(t) \/ Close(t) \/ Consume(t) \/ Wait(t) \/ Leave(t)

Next ==
  \E t \in Threads :
    \/ Waiter(t) \/ Signaler(t) \/ Destroyer(t) \/ Client(t)
    \/ simple_spurious(t)
    \/ \E f \in Faults : Fault(t, f)

Spec == Init /\ [][Next]_vars
-----------------------------------------------------------------------------
(* A thread that has nothing to do or waits for another.                    *)
Halted(t) ==
  \/ At(t, "idle")
  \/ t \in gSleepers \cup rSleepers \cup dSleepers
  \/ pc[t] \in {"s_lock", "cancel"} /\ lock # Nobody
  \/ At(t, "again") /\ mutex # Nobody

(* No signal is lost and nobody waits in a circle.  When no thread can go   *)
(* on by itself, nobody holds the internal lock or waits in quiesce or in   *)
(* destroy, and a waiter is blocked only if there is nothing to wait for:   *)
(* every item had its signal.                                               *)
NoLostSignal ==
  (\A t \in Threads : Halted(t)) =>
    \A t \in Threads :
      \/ At(t, "idle")
      \/ t \in gSleepers /\ items = 0 /\ stage = "live"

(* A slot changes its role only when nobody of the old group is blocked on  *)
(* it: "this prevents ABA issues on the futex word".                        *)
NoStaleSleeper == \A t \in gSleepers : local[t].seq >= g1_start[1]

(* Sizes never go below zero, cancellations in G2 included: the unsigned    *)
(* arithmetic of __g_size and of the test for an empty G2 does not wrap.    *)
SizesSound ==
  lock = Nobody =>
    /\ g_size[G1] \in 0..orig_size
    /\ g_size[g2] <= 0
    /\ wseq - g1_start[1] - orig_size + g_size[g2] >= 0

(* When pthread_cond_destroy has returned, every waiter has done its last   *)
(* access to the condition variable.                                        *)
DestroyWaitsForAll ==
  stage = "destroyed" =>
    \A t \in Threads : pc[t] \in {"idle", "again", "dwake"}
=============================================================================
