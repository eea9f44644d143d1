--------------------------- MODULE CondvarProofs ---------------------------
(***************************************************************************)
(* Proofs about condition variables, for every set of producers and        *)
(* consumers, every bound and all faults: no waiter of a closed group is   *)
(* blocked on a slot that changes its role, the sizes of the groups do not *)
(* wrap, and pthread_cond_destroy waits for every waiter.                  *)
(***************************************************************************)
EXTENDS Condvar, FiniteSetTheorems, TLAPS

Locals ==
  [ seq : Int, g : Slots, exit : {"none", "closed", "timeout", "cancel"},
    start : Int \X Slots, s : Int, kind : {"none", "signal", "broadcast"},
    switch : BOOLEAN, g1 : Slots, r : Int \X Int,
    ret : {"idle", "confirm", "cwake", "d_flag"} ]

Types ==
  /\ wseq \in Int /\ g2 \in Slots /\ orig_size \in Int
  /\ g1_start \in Int \X Slots
  /\ lock \in Threads \cup {Nobody} /\ mutex \in Threads \cup {Nobody}
  /\ g_refs \in [Slots -> Int \X Int]
  /\ g_signals \in [Slots -> Int] /\ g_size \in [Slots -> Int]
  /\ wrefs \in Int /\ destroying \in Int
  /\ local \in [Threads -> Locals]
  /\ pc \in [Threads -> PC]

(* Where pthread_cond_destroy is.                                           *)
DestroyWaits == {"d_wait", "d_sleep", "d_load"}
Destroying == DestroyWaits \cup {"d_flag"}

(* Where a thread holds the internal lock, and where it changes the groups. *)
Quiescing == {"q_close", "q_refs", "q_flag", "q_wait", "q_sleep", "q_start", "q_open",
              "q_switch"}
Locking == Quiescing \cup {"b_wake", "s_add"}

(* Where a waiter belongs to a group: it may still block or give up.        *)
Grouped == {"wrefs", "try", "ref", "closed", "older", "fwait", "sleep", "dec",
            "unflag", "rwake", "cancel"}

(* Where it holds a reference to the group, where it has found the group    *)
(* open, and where it has also found it not to be older than G1.            *)
Referring == {"closed", "older", "fwait", "sleep", "dec"}
Open == {"older", "fwait", "sleep"}
Blocking == {"fwait", "sleep"}

(* The part of a client and of the library a thread can be in, and what it  *)
(* knows of the mutex and of the life of the condition variable.            *)
ControlAt(t) ==
  /\ t \in Consumers =>
       pc[t] \in Waiting \cup Signalling \cup {"idle", "again", "dwake"}
  /\ t \in Producers => pc[t] \in Signalling \cup Destroying \cup {"idle"}
  /\ pc[t] \in Signalling =>
       local[t].ret \in IF t \in Consumers THEN {"confirm", "cwake"}
                                           ELSE {"idle", "d_flag"}
  /\ t \in Producers /\ pc[t] \notin Signalling => local[t].ret = "idle"
  /\ pc[t] = "wrefs" => mutex = t /\ stage = "live"
  /\ pc[t] \in Destroying \/ (pc[t] \in Signalling /\ local[t].ret = "d_flag") =>
       stage = "closing"
  /\ pc[t] \in DestroyWaits => \A u \in Producers \ {t} : pc[u] = "idle"
  /\ stage = "destroyed" => pc[t] \in {"idle", "again", "dwake"}

ControlOK == \A t \in Threads : ControlAt(t)

(* __wrefs counts the threads in pthread_cond_wait, those that perform a    *)
(* signal there included.                                                   *)
InWait ==
  {t \in Consumers : pc[t] \in (Waiting \ {"wrefs"}) \cup Signalling}

WrefsOK == IsFiniteSet(InWait) /\ wrefs = Cardinality(InWait)

(* The reference count of a group is that of the threads that may use the   *)
(* futex word of its slot.                                                  *)
Refs(k) == {t \in Threads : pc[t] \in Referring /\ local[t].g = k}

RefsOK ==
  \A k \in Slots : IsFiniteSet(Refs(k)) /\ g_refs[k][1] = Cardinality(Refs(k))

SleepOK == \A t \in gSleepers : t \in Threads /\ pc[t] = "sleep"

(* The internal lock has one holder, which operates on the current G1.      *)
LockOK ==
  \A t \in Threads :
    /\ pc[t] \in Locking <=> lock = t
    /\ pc[t] \in Locking => local[t].g1 = G1

Holder(L) == lock # Nobody /\ pc[lock] \in L

(* The first position that does not belong to G1.  While the groups are     *)
(* switched g1_start has already moved and the size has not.                *)
Moved == Holder({"q_open", "q_switch"})
End == IF Moved THEN g1_start[1] ELSE g1_start[1] + orig_size

(* Where waiters are in the sequence.  A waiter in the slot of G1 is in G1  *)
(* or late; one in the slot of G2 is in G2 or late by two groups or more.   *)
PositionAt(t) ==
  /\ local[t].seq < wseq
  /\ local[t].g = G1 => local[t].seq < End
  /\ local[t].g = g2 => local[t].seq < g1_start[1] \/ local[t].seq >= End
  /\ pc[t] \in Blocking => local[t].seq >= g1_start[1]

PositionOK ==
  /\ 0 <= orig_size /\ End <= wseq
  /\ \A t \in Threads : pc[t] \in Grouped => PositionAt(t)

(* A group is closed before it is quiesced, and stays so until nobody can   *)
(* block on its slot.                                                       *)
ClosedOK ==
  /\ Holder({"q_refs", "q_flag", "q_wait", "q_sleep", "q_start"}) =>
       IsClosed(g_signals[G1])
  /\ Holder({"q_start"}) =>
       \A t \in Threads : pc[t] \in Open => local[t].g # G1

(* The waiters that count for the size of G2.                               *)
Newcomers == {t \in Threads : pc[t] \in Grouped /\ local[t].g = g2 /\ local[t].seq >= End}

(* Cancelled waiters are subtracted from sizes at most once each.           *)
SizeOK ==
  /\ IsFiniteSet(Newcomers)
  /\ g_size[g2] <= 0 /\ Cardinality(Newcomers) <= wseq - End + g_size[g2]
  /\ 0 <= g_size[G1] /\ g_size[G1] <= orig_size
  /\ Holder(Quiescing \cup {"b_wake"}) => g_size[G1] = 0
  /\ Holder({"s_add"}) => g_size[G1] > 0

IInv ==
  /\ Types /\ ControlOK /\ WrefsOK /\ SleepOK /\ RefsOK
  /\ LockOK /\ PositionOK /\ ClosedOK /\ SizeOK
-----------------------------------------------------------------------------
(* What a step of t leaves alone, and what a waiter does not forget.        *)
Others(t) ==
  \A u \in Threads \ {t} : pc'[u] = pc[u] /\ local'[u] = local[u]

Keeps(t) == local'[t].seq = local[t].seq /\ local'[t].g = local[t].g

(* The values of the locals that are set one by one.                        *)
Settable(f, v) ==
  \/ f = "exit" /\ v \in {"none", "closed", "timeout", "cancel"}
  \/ f = "start" /\ v \in Int \X Slots
  \/ f = "s" /\ v \in Int
  \/ f = "kind" /\ v \in {"signal", "broadcast"}
  \/ f = "g1" /\ v \in Slots
  \/ f = "r" /\ v \in Int \X Int

(* The locals of a thread outside the library are well typed.               *)
LEMMA FreshType == Fresh \in Locals
BY SMTT(60) DEF Locals, Fresh, Slots

(* Setting one of the locals of a thread leaves them well typed and the     *)
(* other ones as they were.                                                 *)
LEMMA SetEffect ==
  ASSUME Types, NEW t \in Threads, NEW f, NEW v, Set(t, f, v), Settable(f, v)
  PROVE  /\ local' \in [Threads -> Locals]
         /\ \A u \in Threads \ {t} : local'[u] = local[u]
         /\ Keeps(t) /\ local'[t].ret = local[t].ret
         /\ local'[t].g1 = IF f = "g1" THEN v ELSE local[t].g1
<1>1. local \in [Threads -> Locals]
  BY ZenonT(60) DEF Types
<1>2. [local[t] EXCEPT ![f] = v] \in Locals
  BY <1>1, SMTT(60) DEF Settable, Locals
<1>3. local' \in [Threads -> Locals]
  BY <1>1, <1>2, ZenonT(60) DEF Set
<1>4. \A u \in Threads \ {t} : local'[u] = local[u]
  BY <1>1, ZenonT(60) DEF Set
<1>5. /\ Keeps(t) /\ local'[t].ret = local[t].ret
      /\ local'[t].g1 = IF f = "g1" THEN v ELSE local[t].g1
  BY <1>1, ZenonT(60) DEF Set, Settable, Locals, Keeps
<1> QED
  BY <1>3, <1>4, <1>5, ZenonT(60)

(* Going on with the locals that are still live.                            *)
LEMMA ContinueEffect ==
  ASSUME Types, NEW t \in Threads, NEW l \in PC, Continue(t, l)
  PROVE  /\ local' \in [Threads -> Locals] /\ pc' \in [Threads -> PC]
         /\ Others(t) /\ pc'[t] = l
         /\ local'[t].ret = "idle" /\ (l # "confirm" => Keeps(t))
<1>1. local \in [Threads -> Locals] /\ pc \in [Threads -> PC]
  BY ZenonT(60) DEF Types
<1>2. /\ local[t].exit \in {"none", "closed", "timeout", "cancel"}
      /\ local[t].seq \in Int /\ local[t].g \in Slots
  BY <1>1, ZenonT(60) DEF Locals
<1>3. [Fresh EXCEPT !.exit = IF local[t].exit = "closed" THEN "none" ELSE local[t].exit]
        \in Locals
  BY <1>2, FreshType, ZenonT(60) DEF Locals
<1>4. [Fresh EXCEPT !.seq = local[t].seq, !.g = local[t].g, !.exit = local[t].exit]
        \in Locals
  BY <1>2, FreshType, ZenonT(60) DEF Locals
<1>5. local' \in [Threads -> Locals]
  <2>1. CASE l = "confirm"
    BY <1>1, <1>3, <2>1, ZenonT(60) DEF Continue
  <2>2. CASE l # "confirm"
    BY <1>1, <1>4, <2>2, ZenonT(60) DEF Continue
  <2> QED
    BY <2>1, <2>2, ZenonT(60)
<1>6. Others(t) /\ pc'[t] = l /\ local'[t].ret = "idle" /\ (l # "confirm" => Keeps(t))
  BY <1>1, ZenonT(60) DEF Continue, Goto, Fresh, Locals, Others, Keeps
<1>7. pc' \in [Threads -> PC]
  BY <1>1, ZenonT(60) DEF Continue, Goto
<1> QED
  BY <1>5, <1>6, <1>7, ZenonT(60)

(* The call of a signal or broadcast that returns to label l.               *)
LEMMA CallEffect ==
  ASSUME Types, NEW t \in Threads, NEW l \in {"confirm", "cwake", "d_flag"},
         NEW k \in {"signal", "broadcast"},
         \/ local' = [local EXCEPT ![t].ret = l, ![t].kind = k]
         \/ local' = [local EXCEPT ![t].kind = k, ![t].ret = l]
  PROVE  /\ local' \in [Threads -> Locals]
         /\ \A u \in Threads \ {t} : local'[u] = local[u]
         /\ local'[t].ret = l
<1>1. local \in [Threads -> Locals]
  BY ZenonT(60) DEF Types
<1>2. /\ [[local[t] EXCEPT !.ret = l] EXCEPT !.kind = k] \in Locals
      /\ [[local[t] EXCEPT !.kind = k] EXCEPT !.ret = l] \in Locals
  <2>1. ASSUME NEW m \in Locals PROVE [m EXCEPT !.ret = l] \in Locals
    BY ZenonT(60) DEF Locals
  <2>2. ASSUME NEW m \in Locals PROVE [m EXCEPT !.kind = k] \in Locals
    BY ZenonT(60) DEF Locals
  <2> QED
    BY <1>1, <2>1, <2>2, ZenonT(60)
<1>3. local' \in [Threads -> Locals]
  BY <1>1, <1>2, ZenonT(60)
<1>4. /\ [[local[t] EXCEPT !.ret = l] EXCEPT !.kind = k].ret = l
      /\ [[local[t] EXCEPT !.kind = k] EXCEPT !.ret = l].ret = l
  BY <1>1, SMTT(60) DEF Locals
<1>5. local'[t].ret = l
  BY <1>1, <1>4, ZenonT(60)
<1> QED
  BY <1>1, <1>3, <1>5, ZenonT(60)

(* The start of a broadcast.                                                *)
LEMMA BroadcastEffect ==
  ASSUME Types, NEW t \in Threads, NEW k \in Slots, NEW b \in BOOLEAN,
         local' = [local EXCEPT ![t].g1 = k, ![t].switch = b]
  PROVE  /\ local' \in [Threads -> Locals]
         /\ \A u \in Threads \ {t} : local'[u] = local[u]
         /\ local'[t].g1 = k /\ local'[t].ret = local[t].ret
<1>1. local \in [Threads -> Locals]
  BY ZenonT(60) DEF Types
<1>2. [[local[t] EXCEPT !.g1 = k] EXCEPT !.switch = b] \in Locals
  <2>1. ASSUME NEW m \in Locals PROVE [m EXCEPT !.g1 = k] \in Locals
    BY ZenonT(60) DEF Locals
  <2>2. ASSUME NEW m \in Locals PROVE [m EXCEPT !.switch = b] \in Locals
    BY ZenonT(60) DEF Locals
  <2> QED
    BY <1>1, <2>1, <2>2, ZenonT(60)
<1>3. local' \in [Threads -> Locals]
  BY <1>1, <1>2, ZenonT(60)
<1>4. /\ [[local[t] EXCEPT !.g1 = k] EXCEPT !.switch = b].g1 = k
      /\ [[local[t] EXCEPT !.g1 = k] EXCEPT !.switch = b].ret = local[t].ret
  BY <1>1, SMTT(60) DEF Locals
<1>5. local'[t].g1 = k /\ local'[t].ret = local[t].ret
  BY <1>1, <1>4, ZenonT(60)
<1> QED
  BY <1>1, <1>3, <1>5, ZenonT(60)

(* Moving a thread to another label.                                        *)
LEMMA GotoEffect ==
  ASSUME Types, NEW t \in Threads, NEW l \in PC, Goto(t, l)
  PROVE  /\ pc' \in [Threads -> PC] /\ pc'[t] = l
         /\ \A u \in Threads \ {t} : pc'[u] = pc[u]
BY ZenonT(60) DEF Types, Goto

(* The return of a signal or broadcast.                                     *)
LEMMA ReturnEffect ==
  ASSUME Types, NEW t \in Threads, Return(t)
  PROVE  /\ local' \in [Threads -> Locals] /\ pc' \in [Threads -> PC]
         /\ mutex' \in Threads \cup {Nobody}
         /\ Others(t) /\ pc'[t] = local[t].ret
         /\ pc'[t] \in {"idle", "confirm", "cwake", "d_flag"}
         /\ local'[t].ret = "idle"
<1>1. local[t].ret \in {"idle", "confirm", "cwake", "d_flag"}
  BY ZenonT(60) DEF Types, Locals
<1>2. local[t].ret \in PC
  BY <1>1, ZenonT(60) DEF PC, Waiting
<1> QED
  BY <1>1, <1>2, ContinueEffect, ZenonT(60) DEF Return, Types

(* Changing one part of the reference word of a slot.                       *)
LEMMA RefsTypes ==
  ASSUME Types, NEW k \in Slots, NEW n \in Int, NEW i \in 1..2
  PROVE  /\ [g_refs EXCEPT ![k][i] = n] \in [Slots -> Int \X Int]
         /\ \A j \in Slots : [g_refs EXCEPT ![k][i] = n][j][1] =
              IF j = k /\ i = 1 THEN n ELSE g_refs[j][1]
BY SMTT(60) DEF Types

(* Every step of a waiter keeps the types and leaves other threads alone.   *)
LEMMA WaiterTypes ==
  ASSUME Types, NEW t \in Threads, Waiter(t)
  PROVE  Types' /\ Others(t)
<1> USE DEF At, G, PC, Waiting
<1>g. /\ local[t].g \in Slots /\ local[t].seq \in Int /\ local[t].s \in Int
      /\ local[t].exit \in {"none", "closed", "timeout", "cancel"}
  BY ZenonT(60) DEF Types, Locals
<1>l. AfterDec(t) \in {"try", "confirm", "cancel"}
  BY ZenonT(60) DEF AfterDec
<1>1. CASE wait_reference(t)
  BY <1>1, GotoEffect, SMTT(60) DEF wait_reference, sequence, groups, Types, Others
<1>2. CASE wait_grab(t)
  BY <1>2, <1>g, ContinueEffect, SMTT(60) DEF wait_grab, sequence, references, client, Types
<1>3. CASE wait_group_reference(t)
  BY <1>3, <1>g, GotoEffect, RefsTypes, SMTT(60)
     DEF wait_group_reference, sequence, references, client, Types, Others
<1>4. CASE wait_check_closed(t)
  BY <1>4, GotoEffect, SetEffect, ZenonT(60)
     DEF wait_check_closed, sequence, groups, references, client, Types, Others, Settable
<1>5. CASE wait_check_older(t)
  BY <1>5, GotoEffect, SetEffect, ZenonT(60)
     DEF wait_check_older, sequence, groups, references, client, Types, Others, Settable
<1>6. CASE wait_block(t)
  BY <1>6, GotoEffect, ZenonT(60) DEF wait_block, sequence, groups, references, client,
     Types, Others
<1>7. CASE dec_grefs(t)
  BY <1>7, <1>g, <1>l, ContinueEffect, RefsTypes, SMTT(60)
     DEF dec_grefs, sequence, references, client, Types
<1>8. CASE dec_grefs_unflag(t)
  BY <1>8, <1>g, GotoEffect, RefsTypes, SMTT(60)
     DEF dec_grefs_unflag, sequence, references, client, Types, Others
<1>9. CASE dec_grefs_wake(t)
  BY <1>9, <1>l, ContinueEffect, ZenonT(60)
     DEF dec_grefs_wake, sequence, groups, references, client, Types
<1>10. CASE wait_took(t)
  BY <1>10, GotoEffect, SetEffect, ContinueEffect, ZenonT(60)
     DEF wait_took, sequence, groups, references, client, Types, Others, Settable
<1>11. CASE undo_load(t)
  BY <1>11, <1>g, GotoEffect, SetEffect, ZenonT(60)
     DEF undo_load, sequence, groups, references, client, Types, Others, Settable
<1>12. CASE undo_check(t)
  BY <1>12, GotoEffect, ContinueEffect, ZenonT(60)
     DEF undo_check, sequence, groups, references, client, Types, Others
<1>13. CASE undo_cas(t)
  BY <1>13, <1>g, GotoEffect, SetEffect, ContinueEffect, SMTT(60)
     DEF undo_cas, sequence, references, client, Types, Others, Settable
<1>14. CASE undo_wake(t)
  <2>1. [Fresh EXCEPT !.kind = "broadcast", !.ret = "confirm"] \in Locals
    BY FreshType, ZenonT(60) DEF Locals
  <2> QED
    BY <1>14, <2>1, GotoEffect, ZenonT(60)
       DEF undo_wake, sequence, groups, references, client, Types, Others, Signalling
<1>15. CASE cancel_waiting(t)
  <2>1. CASE /\ UNCHANGED g_size /\ Goto(t, "waiters")
             /\ \E next \in {"cwake", "confirm"}, k \in {"broadcast", "signal"} :
                  local' = [local EXCEPT ![t].ret = next, ![t].kind = k]
    BY <1>15, <2>1, GotoEffect, CallEffect, ZenonT(60)
       DEF cancel_waiting, sequence, references, client, Types, Others, Signalling
  <2>2. CASE /\ g_size' = [g_size EXCEPT ![G(t)] = @ - 1]
             /\ \E next \in {"cwake", "confirm"} : Continue(t, next)
    BY <1>15, <1>g, <2>2, ContinueEffect, SMTT(60)
       DEF cancel_waiting, sequence, references, client, Types
  <2> QED
    BY <1>15, <2>1, <2>2, ZenonT(60) DEF cancel_waiting
<1>16. CASE cleanup_wake(t)
  BY <1>16, ContinueEffect, ZenonT(60) DEF cleanup_wake, sequence, groups, references,
     client, Types
<1>17. CASE confirm_wakeup(t)
  BY <1>17, GotoEffect, SMTT(60) DEF confirm_wakeup, sequence, groups, client, Types, Others
<1>18. CASE confirm_wakeup_wake(t)
  BY <1>18, GotoEffect, ZenonT(60)
     DEF confirm_wakeup_wake, sequence, groups, references, client, Types, Others
<1> QED
  BY <1>1, <1>2, <1>3, <1>4, <1>5, <1>6, <1>7, <1>8, <1>9, <1>10, <1>11, <1>12,
     <1>13, <1>14, <1>15, <1>16, <1>17, <1>18, ZenonT(60) DEF Waiter

(* Every step of a signaler keeps the types and leaves other threads alone. *)
LEMMA SignalerTypes ==
  ASSUME Types, NEW t \in Threads, Signaler(t)
  PROVE  Types' /\ Others(t)
<1> USE DEF At, G1, Slots, PC, Signalling
<1>g. local[t].g1 \in Slots /\ g_refs[local[t].g1] \in Int \X Int
  BY ZenonT(60) DEF Types, Locals
<1>1. CASE signal_check(t)
  BY <1>1, GotoEffect, ReturnEffect, ZenonT(60)
     DEF signal_check, sequence, groups, references, client, Types, Others
<1>2. CASE signal_lock(t)
  BY <1>2, GotoEffect, ReturnEffect, SetEffect, SMTT(60)
     DEF signal_lock, sequence, groups, references, client, Types, Others, Settable
<1>3. CASE broadcast_lock(t)
  <2>1. CASE Return(t) /\ UNCHANGED <<lock, groups>>
    BY <1>3, <2>1, ReturnEffect, ZenonT(60) DEF broadcast_lock, sequence, groups,
       references, Types
  <2>2. CASE ~(g_size[G1] = 0 /\ EmptyG2)
    <3>1. local' = [local EXCEPT ![t].g1 = G1, ![t].switch = ~EmptyG2]
      BY <1>3, <2>2, ZenonT(60) DEF broadcast_lock
    <3>2. G1 \in Slots /\ (~EmptyG2) \in BOOLEAN
      BY SMTT(60) DEF Types, EmptyG2
    <3>3. local' \in [Threads -> Locals] /\ \A u \in Threads \ {t} : local'[u] = local[u]
      BY <3>1, <3>2, BroadcastEffect, ZenonT(60)
    <3> QED
      BY <1>3, <2>2, <3>3, GotoEffect, SMTT(60)
         DEF broadcast_lock, sequence, references, client, Types, Others
  <2> QED
    BY <1>3, <2>1, <2>2, ZenonT(60) DEF broadcast_lock
<1>4. CASE broadcast_wake(t)
  BY <1>4, GotoEffect, ReturnEffect, ZenonT(60)
     DEF broadcast_wake, sequence, groups, references, client, Types, Others
<1>5. CASE quiesce_close(t)
  BY <1>5, <1>g, GotoEffect, SMTT(60)
     DEF quiesce_close, sequence, references, client, Types, Others
<1>6. CASE quiesce_load(t)
  BY <1>6, GotoEffect, ZenonT(60)
     DEF quiesce_load, sequence, groups, references, client, Types, Others
<1>7. CASE quiesce_flag(t)
  BY <1>7, <1>g, GotoEffect, SetEffect, RefsTypes, SMTT(60)
     DEF quiesce_flag, sequence, references, client, Types, Others, Settable
<1>8. CASE quiesce_wait(t)
  BY <1>8, GotoEffect, SetEffect, SMTT(60)
     DEF quiesce_wait, sequence, groups, references, client, Types, Others, Settable
<1>9. CASE quiesce_start(t)
  BY <1>9, <1>g, GotoEffect, SMTT(60)
     DEF quiesce_start, groups, references, client, Types, Others
<1>10. CASE quiesce_open(t)
  BY <1>10, <1>g, GotoEffect, SMTT(60)
     DEF quiesce_open, sequence, references, client, Types, Others
<1>11. CASE quiesce_switch(t)
  BY <1>11, GotoEffect, ReturnEffect, SetEffect, SMTT(60)
     DEF quiesce_switch, references, client, Types, Others, Settable
<1>12. CASE signal_add(t)
  BY <1>12, <1>g, GotoEffect, SMTT(60)
     DEF signal_add, sequence, references, client, Types, Others
<1>13. CASE signal_wake(t)
  BY <1>13, ReturnEffect, ZenonT(60) DEF signal_wake, sequence, groups, references, Types
<1> QED
  BY <1>1, <1>2, <1>3, <1>4, <1>5, <1>6, <1>7, <1>8, <1>9, <1>10, <1>11, <1>12,
     <1>13, ZenonT(60) DEF Signaler

(* So do those of destroy, of the client and of the environment.            *)
LEMMA OtherTypes ==
  ASSUME Types, NEW t \in Threads,
         \/ Destroyer(t) \/ Client(t) \/ simple_spurious(t)
         \/ \E f \in Faults : Fault(t, f)
  PROVE  Types' /\ Others(t)
<1> USE DEF At, PC, Waiting, Signalling
<1>1. CASE cond_destroy(t)
  BY <1>1, GotoEffect, SetEffect, SMTT(60)
     DEF cond_destroy, AfterDestroyLoad, sequence, groups, references, Types, Others,
         Settable
<1>2. CASE destroy_wait(t)
  BY <1>2, GotoEffect, ZenonT(60)
     DEF destroy_wait, sequence, groups, references, client, Types, Others
<1>3. CASE destroy_load(t)
  BY <1>3, GotoEffect, SetEffect, ZenonT(60)
     DEF destroy_load, AfterDestroyLoad, sequence, groups, references, Types, Others,
         Settable
<1>4. CASE Produce(t)
  BY <1>4, GotoEffect, SetEffect, ClientAssumption, ZenonT(60)
     DEF Produce, sequence, groups, references, Types, Others, Settable
<1>5. CASE Close(t)
  <2>1. local' \in [Threads -> Locals] /\ \A u \in Threads \ {t} : local'[u] = local[u]
    BY <1>5, CallEffect, ZenonT(60) DEF Close
  <2> QED
    BY <1>5, <2>1, GotoEffect, ZenonT(60) DEF Close, sequence, groups, references,
       Types, Others
<1>6. CASE Consume(t)
  BY <1>6, GotoEffect, FreshType, ZenonT(60)
     DEF Consume, sequence, groups, references, Types, Others
<1>7. CASE Wait(t)
  <2>1. [Fresh EXCEPT !.seq = wseq, !.g = g2] \in Locals
    BY FreshType, ZenonT(60) DEF Types, Locals
  <2> QED
    BY <1>7, <2>1, GotoEffect, SMTT(60) DEF Wait, wait_position, groups, references,
       Types, Others
<1>8. CASE Leave(t)
  BY <1>8, GotoEffect, FreshType, ZenonT(60)
     DEF Leave, sequence, groups, references, client, Types, Others
<1>9. CASE simple_spurious(t)
  BY <1>9, ZenonT(60) DEF simple_spurious, sequence, groups, references, Types, Others
<1>10. CASE \E f \in Faults : Fault(t, f)
  BY <1>10, GotoEffect, SetEffect, ClientAssumption, SMTT(60)
     DEF Fault, sequence, groups, references, Types, Others, Settable
<1> QED
  BY <1>1, <1>2, <1>3, <1>4, <1>5, <1>6, <1>7, <1>8, <1>9, <1>10, ZenonT(60) DEF
     Destroyer, Client
-----------------------------------------------------------------------------
(* A step of t that does not change the life of the condition variable.     *)
ControlMove(t) ==
  /\ stage' = stage
  /\ mutex' = mutex \/ mutex \in {t, Nobody}
  /\ t \in Producers /\ pc[t] = "idle" /\ pc'[t] # "idle" => stage = "live"
  /\ ControlAt(t)'

(* Such a step keeps what is known of where every thread is.                *)
LEMMA ControlKept ==
  ASSUME Types, ControlOK, NEW t \in Threads, Others(t), ControlMove(t)
  PROVE  ControlOK'
<1> SUFFICES ASSUME NEW u \in Threads \ {t} PROVE ControlAt(u)'
  BY ZenonT(60) DEF ControlOK, ControlMove
<1>1. ControlAt(u)
  BY ZenonT(60) DEF ControlOK
<1>2. Nobody # u /\ t # u /\ pc'[u] = pc[u] /\ local'[u] = local[u]
  BY ClientAssumption, ZenonT(60) DEF Others
<1>3. ASSUME pc[u] \in DestroyWaits, NEW w \in Producers \ {u} PROVE pc'[w] = "idle"
  <2>1. pc[w] = "idle" /\ stage = "closing"
    BY <1>1, <1>3, ZenonT(60) DEF ControlAt, Destroying
  <2> QED
    BY <2>1, ZenonT(60) DEF ControlMove, Others, Threads
<1> QED
  BY <1>1, <1>2, <1>3, ZenonT(60) DEF ControlAt, ControlMove

(* The steps of a waiter: it takes a reference, gives it up, or goes on.    *)
WaiterMove(t) ==
  /\ stage' = stage
  /\ \/ /\ pc[t] = "wrefs" /\ pc'[t] = "try"
        /\ wrefs' = wrefs + 1 /\ mutex' = Nobody
     \/ /\ pc[t] = "confirm" /\ pc'[t] \in {"again", "dwake"}
        /\ wrefs' = wrefs - 1 /\ mutex' = mutex
     \/ /\ pc[t] = "dwake" /\ pc'[t] = "again"
        /\ wrefs' = wrefs /\ mutex' = mutex
     \/ /\ pc[t] \in Waiting \ {"wrefs", "confirm"}
        /\ \/ pc'[t] \in Waiting \ {"wrefs"}
           \/ pc'[t] = "waiters" /\ local'[t].ret \in {"confirm", "cwake"}
        /\ wrefs' = wrefs /\ mutex' = mutex

(* Every step of pthread_cond_wait, faults included, is such a move.        *)
LEMMA WaiterMoves ==
  ASSUME Types, NEW t \in Threads, Waiter(t) \/ \E f \in Faults : Fault(t, f), SleepOK
  PROVE  WaiterMove(t)
<1> USE DEF At, PC, Waiting, WaiterMove, client, references
<1>l. AfterDec(t) \in {"try", "confirm", "cancel"}
  BY ZenonT(60) DEF AfterDec
<1>1. CASE wait_reference(t)
  BY <1>1, GotoEffect, ZenonT(60) DEF wait_reference
<1>2. CASE wait_grab(t)
  BY <1>2, ContinueEffect, SMTT(60) DEF wait_grab
<1>3. CASE wait_group_reference(t) \/ wait_check_closed(t) \/ wait_check_older(t)
  BY <1>3, GotoEffect, SMTT(60) DEF wait_group_reference, wait_check_closed,
     wait_check_older
<1>4. CASE wait_block(t) \/ dec_grefs_unflag(t)
  BY <1>4, GotoEffect, SMTT(60) DEF wait_block, dec_grefs_unflag
<1>5. CASE dec_grefs(t)
  BY <1>5, <1>l, ContinueEffect, SMTT(60) DEF dec_grefs
<1>6. CASE dec_grefs_wake(t)
  BY <1>6, <1>l, ContinueEffect, ZenonT(60) DEF dec_grefs_wake
<1>7. CASE wait_took(t)
  BY <1>7, GotoEffect, ContinueEffect, SMTT(60) DEF wait_took
<1>8. CASE undo_load(t)
  BY <1>8, GotoEffect, SMTT(60) DEF undo_load
<1>9. CASE undo_check(t)
  BY <1>9, GotoEffect, ContinueEffect, SMTT(60) DEF undo_check
<1>10. CASE undo_cas(t)
  BY <1>10, GotoEffect, ContinueEffect, SMTT(60) DEF undo_cas
<1>11. CASE undo_wake(t)
  BY <1>11, GotoEffect, ZenonT(60) DEF undo_wake, Types, Fresh, Signalling
<1>12. CASE cancel_waiting(t)
  <2>1. CASE /\ Goto(t, "waiters")
             /\ \E next \in {"cwake", "confirm"}, k \in {"broadcast", "signal"} :
                  local' = [local EXCEPT ![t].ret = next, ![t].kind = k]
    BY <1>12, <2>1, GotoEffect, CallEffect, ZenonT(60) DEF cancel_waiting, Signalling
  <2>2. CASE \E next \in {"cwake", "confirm"} : Continue(t, next)
    BY <1>12, <2>2, ContinueEffect, ZenonT(60) DEF cancel_waiting
  <2> QED
    BY <1>12, <2>1, <2>2, ZenonT(60) DEF cancel_waiting
<1>13. CASE cleanup_wake(t)
  BY <1>13, ContinueEffect, SMTT(60) DEF cleanup_wake
<1>14. CASE confirm_wakeup(t)
  BY <1>14, GotoEffect, ZenonT(60) DEF confirm_wakeup
<1>15. CASE confirm_wakeup_wake(t)
  BY <1>15, GotoEffect, ZenonT(60) DEF confirm_wakeup_wake
<1>16. CASE \E f \in Faults : Fault(t, f)
  BY <1>16, GotoEffect, SMTT(60) DEF Fault, SleepOK
<1> QED
  BY <1>1, <1>2, <1>3, <1>4, <1>5, <1>6, <1>7, <1>8, <1>9, <1>10, <1>11, <1>12,
     <1>13, <1>14, <1>15, <1>16, ZenonT(60) DEF Waiter

(* Moves of waiters keep to where consumers can be.                         *)
LEMMA WaiterControl ==
  ASSUME Types, ControlOK, NEW t \in Threads, WaiterMove(t)
  PROVE  ControlMove(t)
<1>1. t \in Consumers /\ t \notin Producers /\ Nobody # t
  BY ClientAssumption, ZenonT(60)
     DEF WaiterMove, ControlOK, ControlAt, Threads, Waiting, Signalling, Destroying,
         DestroyWaits
<1>2. ControlAt(t)
  BY ZenonT(60) DEF ControlOK
<1>3. pc'[t] \notin Destroying
  BY ZenonT(60) DEF WaiterMove, Waiting, Destroying, DestroyWaits
<1>4. pc'[t] \in Signalling => local'[t].ret \in {"confirm", "cwake"}
  BY ZenonT(60) DEF WaiterMove, Waiting, Signalling
<1>5. pc'[t] # "wrefs" /\ pc'[t] \in Waiting \cup Signalling \cup {"again", "dwake"}
  BY ZenonT(60) DEF WaiterMove, Waiting, Signalling
<1>6. stage' = "destroyed" => pc'[t] = "again"
  BY <1>2, ZenonT(60) DEF WaiterMove, ControlAt, Waiting
<1>7. ControlAt(t)'
  BY <1>1, <1>3, <1>4, <1>5, <1>6, ZenonT(60) DEF ControlAt, Destroying
<1> QED
  BY <1>1, <1>2, <1>7, ZenonT(60) DEF WaiterMove, ControlMove, ControlAt

(* The steps of a signaler: it goes on or returns.                          *)
SignalerMove(t) ==
  /\ stage' = stage /\ wrefs' = wrefs
  /\ mutex' = mutex \/ mutex = t
  /\ pc[t] \in Signalling
  /\ \/ pc'[t] \in Signalling /\ local'[t].ret = local[t].ret
     \/ pc'[t] = local[t].ret /\ local'[t].ret = "idle"

(* Every step of pthread_cond_signal and pthread_cond_broadcast is such a   *)
(* move.                                                                    *)
LEMMA SignalerMoves ==
  ASSUME Types, NEW t \in Threads, Signaler(t)
  PROVE  SignalerMove(t)
<1> USE DEF At, PC, Signalling, SignalerMove, client, references
<1>1. CASE signal_check(t)
  BY <1>1, GotoEffect, ReturnEffect, ZenonT(60) DEF signal_check, Return
<1>2. CASE signal_lock(t)
  <2>1. G1 \in Slots
    BY SMTT(60) DEF G1, Slots, Types
  <2>2. CASE g_size[G1] = 0 /\ EmptyG2
    BY <1>2, <2>2, ReturnEffect, ZenonT(60) DEF signal_lock, Return
  <2>3. CASE ~(g_size[G1] = 0 /\ EmptyG2)
    BY <1>2, <2>1, <2>3, GotoEffect, SetEffect, ZenonT(60) DEF signal_lock, Settable
  <2> QED
    BY <2>2, <2>3, ZenonT(60)
<1>3. CASE broadcast_lock(t)
  <2>1. G1 \in Slots /\ (~EmptyG2) \in BOOLEAN
    BY SMTT(60) DEF Types, EmptyG2, G1, Slots
  <2>2. CASE g_size[G1] = 0 /\ EmptyG2
    BY <1>3, <2>2, ReturnEffect, ZenonT(60) DEF broadcast_lock, Return
  <2>3. CASE ~(g_size[G1] = 0 /\ EmptyG2)
    <3>1. /\ local' = [local EXCEPT ![t].g1 = G1, ![t].switch = ~EmptyG2]
          /\ UNCHANGED client /\ UNCHANGED references /\ pc[t] = "s_lock"
          /\ Goto(t, "b_wake") \/ Goto(t, "q_close")
      BY <1>3, <2>3, ZenonT(60) DEF broadcast_lock
    <3>2. local'[t].ret = local[t].ret
      BY <2>1, <3>1, BroadcastEffect, ZenonT(60)
    <3>3. pc'[t] \in {"b_wake", "q_close"}
      BY <3>1, GotoEffect, ZenonT(60)
    <3> QED
      BY <3>1, <3>2, <3>3, ZenonT(60)
  <2> QED
    BY <2>2, <2>3, ZenonT(60)
<1>4. CASE broadcast_wake(t)
  BY <1>4, GotoEffect, ReturnEffect, ZenonT(60) DEF broadcast_wake, Return
<1>5. CASE quiesce_close(t) \/ quiesce_load(t)
  BY <1>5, GotoEffect, ZenonT(60) DEF quiesce_close, quiesce_load
<1>6. CASE quiesce_flag(t)
  <2>1. <<g_refs[local[t].g1][1], 1>> \in Int \X Int
    BY SMTT(60) DEF Types, Locals
  <2> QED
    BY <1>6, <2>1, GotoEffect, SetEffect, ZenonT(60) DEF quiesce_flag, Settable
<1>7. CASE quiesce_wait(t)
  BY <1>7, GotoEffect, SetEffect, SMTT(60) DEF quiesce_wait, Settable
<1>8. CASE quiesce_start(t) \/ quiesce_open(t)
  BY <1>8, GotoEffect, ZenonT(60) DEF quiesce_start, quiesce_open
<1>9. CASE quiesce_switch(t)
  <2>1. g2 \in Slots
    BY ZenonT(60) DEF Types
  <2> QED
    BY <1>9, <2>1, GotoEffect, ReturnEffect, SetEffect, SMTT(60) DEF quiesce_switch,
       Return, Settable
<1>10. CASE signal_add(t)
  BY <1>10, GotoEffect, ZenonT(60) DEF signal_add
<1>11. CASE signal_wake(t)
  BY <1>11, ReturnEffect, ZenonT(60) DEF signal_wake, Return
<1> QED
  BY <1>1, <1>2, <1>3, <1>4, <1>5, <1>6, <1>7, <1>8, <1>9, <1>10, <1>11, ZenonT(60) DEF
     Signaler

(* Moves of signalers keep to where their callers can be.                   *)
LEMMA SignalerControl ==
  ASSUME Types, ControlOK, NEW t \in Threads, SignalerMove(t)
  PROVE  ControlMove(t)
<1>1. ControlAt(t)
  BY ZenonT(60) DEF ControlOK
<1>2. /\ pc[t] \notin {"idle", "again", "dwake"} /\ stage' # "destroyed"
      /\ pc'[t] \notin DestroyWaits \cup {"wrefs"}
  <2>1. local[t].ret \in {"idle", "confirm", "cwake", "d_flag"}
    BY ZenonT(60) DEF Types, Locals
  <2> QED
    BY <1>1, <2>1, ZenonT(60) DEF SignalerMove, Signalling, ControlAt, DestroyWaits
<1>3. ControlAt(t)'
  BY <1>1, <1>2, ClientAssumption, ZenonT(60)
     DEF SignalerMove, ControlAt, Signalling, Destroying, DestroyWaits, Waiting, Threads
<1> QED
  BY <1>2, <1>3, ZenonT(60) DEF SignalerMove, ControlMove

(* The size of a set that gains or loses one element.                       *)
LEMMA SizeChange ==
  ASSUME NEW S, IsFiniteSet(S), NEW x
  PROVE  /\ Cardinality(S) \in Nat
         /\ IsFiniteSet(S \cup {x}) /\ IsFiniteSet(S \ {x})
         /\ x \notin S => Cardinality(S \cup {x}) = Cardinality(S) + 1
         /\ x \in S => Cardinality(S \ {x}) = Cardinality(S) - 1
BY FS_CardinalityType, FS_AddElement, FS_RemoveElement, ZenonT(60)

(* __wrefs stays exact.                                                     *)
LEMMA WrefsKept ==
  ASSUME Types, ControlOK, WrefsOK, NEW t \in Threads, Others(t),
         \/ WaiterMove(t) \/ SignalerMove(t)
         \/ wrefs' = wrefs /\ (t \in InWait <=> t \in InWait')
  PROVE  WrefsOK'
<1>1. \A u \in Threads \ {t} : u \in InWait' <=> u \in InWait
  BY ZenonT(60) DEF InWait, Others, Threads
<1>2. InWait \subseteq Threads /\ InWait' \subseteq Threads
  BY ZenonT(60) DEF InWait, Threads
<1>3. ControlAt(t)
  BY ZenonT(60) DEF ControlOK
<1>4. CASE wrefs' = wrefs /\ (t \in InWait <=> t \in InWait')
  <2>1. InWait' = InWait
    BY <1>1, <1>2, <1>4, SMTT(60)
  <2> QED
    BY <1>4, <2>1, ZenonT(60) DEF WrefsOK
<1>5. CASE SignalerMove(t)
  <2>1. t \in InWait <=> t \in InWait'
    BY <1>3, <1>5, ZenonT(60) DEF SignalerMove, InWait, ControlAt, Waiting
  <2> QED
    BY <1>4, <1>5, <2>1, ZenonT(60) DEF SignalerMove
<1>6. CASE WaiterMove(t)
  <2>1. t \in Consumers
    BY <1>3, <1>6, ZenonT(60) DEF WaiterMove, ControlAt, Threads, Waiting, Signalling,
       Destroying, DestroyWaits
  <2>2. CASE pc[t] = "wrefs"
    <3>1. t \notin InWait /\ t \in InWait' /\ wrefs' = wrefs + 1
      BY <1>6, <2>1, <2>2, ZenonT(60) DEF WaiterMove, InWait, Waiting, Signalling
    <3>2. InWait' = InWait \cup {t}
      BY <1>1, <1>2, <3>1, ZenonT(60)
    <3> QED
      BY <3>1, <3>2, SizeChange, ZenonT(60) DEF WrefsOK
  <2>3. CASE pc[t] = "confirm"
    <3>1. t \in InWait /\ t \notin InWait' /\ wrefs' = wrefs - 1
      BY <1>6, <2>1, <2>3, ZenonT(60) DEF WaiterMove, InWait, Waiting, Signalling
    <3>2. InWait' = InWait \ {t}
      BY <1>1, <1>2, <3>1, ZenonT(60)
    <3> QED
      BY <3>1, <3>2, SizeChange, ZenonT(60) DEF WrefsOK
  <2>4. CASE pc[t] \notin {"wrefs", "confirm"}
    <3>1. wrefs' = wrefs /\ (t \in InWait <=> t \in InWait')
      BY <1>6, <2>1, <2>4, ZenonT(60) DEF WaiterMove, InWait, Waiting, Signalling
    <3> QED
      BY <1>4, <3>1, ZenonT(60)
  <2> QED
    BY <2>2, <2>3, <2>4, ZenonT(60)
<1> QED
  BY <1>4, <1>5, <1>6, ZenonT(60)

(* The steps of the client that do not close the condition variable.        *)
LEMMA ClientControl ==
  ASSUME Types, ControlOK, NEW t \in Threads, Others(t),
         \/ Produce(t) \/ Consume(t) \/ Wait(t) \/ Leave(t) \/ simple_spurious(t)
         \/ destroy_wait(t)
  PROVE  ControlMove(t) /\ wrefs' = wrefs /\ (t \in InWait <=> t \in InWait')
<1> USE DEF At, ControlMove, client, references
<1>c. /\ ControlAt(t) /\ pc \in [Threads -> PC] /\ Nobody # t
      /\ t \in Consumers <=> t \notin Producers
  BY ClientAssumption, ZenonT(60) DEF ControlOK, Types, Threads
<1>1. CASE Produce(t)
  <2>1. pc'[t] = "waiters" /\ local'[t].ret = local[t].ret
    BY <1>1, GotoEffect, SetEffect, ClientAssumption, ZenonT(60) DEF Produce, Settable, PC,
       Signalling
  <2> QED
    BY <1>1, <1>c, <2>1, ZenonT(60) DEF Produce, ControlAt, Signalling, Destroying,
       DestroyWaits, InWait
<1>2. CASE Consume(t)
  <2>1. pc'[t] = "idle"
    BY <1>2, GotoEffect, ZenonT(60) DEF Consume, PC
  <2> QED
    BY <1>2, <1>c, <2>1, ZenonT(60) DEF Consume, ControlAt, Signalling, Destroying,
       DestroyWaits, InWait, Waiting
<1>3. CASE Wait(t)
  <2>1. pc'[t] = "wrefs"
    BY <1>3, GotoEffect, ZenonT(60) DEF Wait, wait_position, PC, Waiting
  <2> QED
    BY <1>3, <1>c, <2>1, ZenonT(60) DEF Wait, ControlAt, Signalling, Destroying,
       DestroyWaits, InWait, Waiting
<1>4. CASE Leave(t)
  <2>1. pc'[t] = "idle" /\ t \in Consumers
    BY <1>4, <1>c, GotoEffect, ZenonT(60)
       DEF Leave, PC, ControlAt, Signalling, Destroying, DestroyWaits
  <2> QED
    BY <1>4, <1>c, <2>1, ZenonT(60) DEF Leave, ControlAt, Signalling, Destroying,
       DestroyWaits, InWait, Waiting
<1>5. CASE simple_spurious(t)
  BY <1>5, <1>c, ZenonT(60) DEF simple_spurious, ControlAt, InWait
<1>6. CASE destroy_wait(t)
  <2>1. pc'[t] \in DestroyWaits /\ pc[t] \in DestroyWaits /\ t \in Producers
    BY <1>6, <1>c, GotoEffect, ZenonT(60)
       DEF destroy_wait, PC, ControlAt, DestroyWaits, Waiting, Signalling
  <2> QED
    BY <1>6, <1>c, <2>1, ZenonT(60) DEF destroy_wait, ControlAt, Signalling, Destroying,
       DestroyWaits, InWait, Waiting, Others, Threads
<1> QED
  BY <1>1, <1>2, <1>3, <1>4, <1>5, <1>6, ZenonT(60)

(* The last user closes the condition variable: it has the mutex, so that   *)
(* nobody is between taking a position and taking a reference.              *)
LEMMA CloseControl ==
  ASSUME Types, ControlOK, NEW t \in Threads, Others(t), Close(t)
  PROVE  ControlOK' /\ wrefs' = wrefs /\ (t \in InWait <=> t \in InWait')
<1>1. /\ pc'[t] = "waiters" /\ local'[t].ret = "d_flag"
      /\ t \in Producers /\ t \notin Consumers
  <2>1. local'[t].ret = "d_flag"
    BY CallEffect, ZenonT(60) DEF Close
  <2> QED
    BY <2>1, GotoEffect, ClientAssumption, ZenonT(60) DEF Close, PC, Signalling
<1>2. /\ mutex = Nobody /\ stage = "live" /\ stage' = "closing" /\ wrefs' = wrefs
  BY ZenonT(60) DEF Close, references
<1>3. ASSUME NEW u \in Threads \ {t} PROVE ControlAt(u)'
  <2>1. /\ ControlAt(u) /\ pc'[u] = pc[u] /\ local'[u] = local[u] /\ u # Nobody
    BY ClientAssumption, ZenonT(60) DEF ControlOK, Others
  <2> QED
    BY <1>2, <2>1, ZenonT(60) DEF ControlAt, Destroying
<1>4. ControlAt(t)'
  BY <1>1, <1>2, ZenonT(60) DEF ControlAt, Signalling, Destroying, DestroyWaits
<1> QED
  BY <1>1, <1>2, <1>3, <1>4, ZenonT(60) DEF ControlOK, InWait

(* pthread_cond_destroy returns only when the references are gone.          *)
LEMMA DestroyControl ==
  ASSUME Types, ControlOK, WrefsOK, NEW t \in Threads, Others(t),
         cond_destroy(t) \/ destroy_load(t)
  PROVE  ControlOK' /\ wrefs' = wrefs /\ (t \in InWait <=> t \in InWait')
<1>1. /\ ControlAt(t) /\ pc[t] \in Destroying
      /\ AfterDestroyLoad(t) /\ wrefs' = wrefs /\ mutex' = mutex
  BY ZenonT(60) DEF cond_destroy, destroy_load, At, references, ControlOK, Destroying,
     DestroyWaits
<1>2. t \in Producers /\ t \notin Consumers /\ stage = "closing" /\ local[t].ret = "idle"
  BY <1>1, ClientAssumption, ZenonT(60)
     DEF ControlAt, Threads, Destroying, DestroyWaits, Waiting, Signalling
<1>3. \A u \in Producers \ {t} : pc[u] = "idle"
  BY <1>1, ZenonT(60) DEF ControlAt, cond_destroy, destroy_load, At, DestroyWaits
<1>4. CASE wrefs = 0
  <2>1. pc'[t] = "idle" /\ stage' = "destroyed" /\ local'[t].ret = "idle"
    BY <1>1, <1>2, <1>4, GotoEffect, ZenonT(60) DEF AfterDestroyLoad, PC
  <2>2. InWait = {}
    BY <1>4, FS_EmptySet, ZenonT(60) DEF WrefsOK
  <2>3. ASSUME NEW u \in Threads \ {t} PROVE ControlAt(u)'
    <3>1. /\ ControlAt(u) /\ pc'[u] = pc[u] /\ local'[u] = local[u]
      BY ZenonT(60) DEF ControlOK, Others
    <3>2. pc[u] \in {"idle", "again", "dwake"}
      BY <1>2, <1>3, <2>2, <3>1, ZenonT(60) DEF ControlAt, InWait, Threads
    <3> QED
      BY <3>1, <3>2, ZenonT(60) DEF ControlAt, Signalling, Destroying, DestroyWaits, Waiting
  <2>4. ControlAt(t)'
    BY <1>2, <2>1, ZenonT(60) DEF ControlAt, Signalling, Destroying, DestroyWaits
  <2> QED
    BY <1>1, <1>2, <2>3, <2>4, ZenonT(60) DEF ControlOK, InWait
<1>5. CASE wrefs # 0
  <2>1. references \in Int \X Int
    BY ZenonT(60) DEF references, Types
  <2>2. pc'[t] = "d_wait" /\ stage' = stage /\ local'[t].ret = "idle"
    BY <1>1, <1>2, <1>5, <2>1, GotoEffect, SetEffect, ZenonT(60) DEF AfterDestroyLoad, PC,
       Settable
  <2>3. ControlAt(t)'
    BY <1>2, <1>3, <2>2, ZenonT(60)
       DEF ControlAt, Signalling, Destroying, DestroyWaits, Others, Threads
  <2>4. ControlMove(t)
    BY <1>1, <2>2, <2>3, ZenonT(60) DEF ControlMove, Destroying, DestroyWaits
  <2> QED
    BY <1>1, <1>2, <2>4, ControlKept, ZenonT(60) DEF InWait
<1> QED
  BY <1>4, <1>5, ZenonT(60)

(* Where threads are and how many wait, through every step.                 *)
LEMMA StepControl ==
  ASSUME Types, ControlOK, WrefsOK, SleepOK, [Next]_vars
  PROVE  ControlOK' /\ WrefsOK'
<1>1. CASE UNCHANGED vars
  BY <1>1, ZenonT(60) DEF vars, client, references, ControlOK, ControlAt, WrefsOK, InWait
<1>2. ASSUME NEW t \in Threads, Waiter(t) \/ \E f \in Faults : Fault(t, f)
      PROVE  ControlOK' /\ WrefsOK'
  <2>1. Others(t)
    BY <1>2, WaiterTypes, OtherTypes, ZenonT(60)
  <2>2. WaiterMove(t)
    BY <1>2, WaiterMoves, ZenonT(60)
  <2> QED
    BY <2>1, <2>2, WaiterControl, ControlKept, WrefsKept, ZenonT(60)
<1>3. ASSUME NEW t \in Threads, Signaler(t)
      PROVE  ControlOK' /\ WrefsOK'
  BY <1>3, SignalerTypes, SignalerMoves, SignalerControl, ControlKept, WrefsKept, ZenonT(60)
<1>4. ASSUME NEW t \in Threads,
             Produce(t) \/ Consume(t) \/ Wait(t) \/ Leave(t) \/ simple_spurious(t)
               \/ destroy_wait(t)
      PROVE  ControlOK' /\ WrefsOK'
  <2>1. Others(t)
    BY <1>4, OtherTypes, ZenonT(60) DEF Client, Destroyer
  <2> QED
    BY <1>4, <2>1, ClientControl, ControlKept, WrefsKept, ZenonT(60)
<1>5. ASSUME NEW t \in Threads, Close(t)
      PROVE  ControlOK' /\ WrefsOK'
  <2>1. Others(t)
    BY <1>5, OtherTypes, ZenonT(60) DEF Client
  <2> QED
    BY <1>5, <2>1, CloseControl, WrefsKept, ZenonT(60)
<1>6. ASSUME NEW t \in Threads, cond_destroy(t) \/ destroy_load(t)
      PROVE  ControlOK' /\ WrefsOK'
  <2>1. Others(t)
    BY <1>6, OtherTypes, ZenonT(60) DEF Destroyer
  <2> QED
    BY <1>6, <2>1, DestroyControl, WrefsKept, ZenonT(60)
<1> QED
  BY <1>1, <1>2, <1>3, <1>4, <1>5, <1>6, ZenonT(60) DEF Next, Destroyer, Client
-----------------------------------------------------------------------------
(* What a step of t does to the threads blocked on the signal words.        *)
SleepMove(t) ==
  \/ gSleepers' \subseteq gSleepers /\ (t \in gSleepers' => pc'[t] = pc[t])
  \/ gSleepers' = gSleepers \cup {t} /\ pc'[t] = "sleep"

(* What it does to the reference counts of the groups.                      *)
RefsMove(t) ==
  \/ /\ \A k \in Slots : g_refs'[k][1] = g_refs[k][1]
     /\ pc[t] \in Referring <=> pc'[t] \in Referring
     /\ pc[t] \in Referring => local'[t].g = local[t].g
  \/ /\ pc[t] \notin Referring /\ pc'[t] \in Referring /\ local'[t].g = local[t].g
     /\ \A k \in Slots : g_refs'[k][1] =
          IF k = local[t].g THEN g_refs[k][1] + 1 ELSE g_refs[k][1]
  \/ /\ pc[t] \in Referring /\ pc'[t] \notin Referring
     /\ \A k \in Slots : g_refs'[k][1] =
          IF k = local[t].g THEN g_refs[k][1] - 1 ELSE g_refs[k][1]

(* The steps of threads without the internal lock that leave the groups and *)
(* their sizes alone.  A waiter finds its group open and not older than G1  *)
(* before it blocks, and a closed slot is not opened.                       *)
Quiet(t) ==
  /\ UNCHANGED <<sequence, lock, g_size>>
  /\ pc[t] \notin Locking /\ pc'[t] \notin Locking
  /\ pc'[t] \in Grouped => pc[t] \in Grouped /\ Keeps(t)
  /\ pc'[t] \in Blocking => pc[t] \in Blocking \/ local[t].seq >= g1_start[1]
  /\ pc'[t] \in Open => pc[t] \in Open \/ ~IsClosed(g_signals[local[t].g])
  /\ \A k \in Slots : IsClosed(g_signals[k]) => IsClosed(g_signals'[k])

(* A waiter that gives up makes its group smaller.                          *)
Shrink(t) ==
  /\ UNCHANGED <<sequence, lock, g_signals>>
  /\ lock = Nobody
  /\ pc[t] = "cancel" /\ pc'[t] \in {"cwake", "confirm"}
  /\ g1_start[1] <= local[t].seq
  /\ g1_start[1] + orig_size <= local[t].seq \/ g_size[local[t].g] # 0
  /\ g_size' = [g_size EXCEPT ![local[t].g] = @ - 1]

(* Adding or taking a signal leaves the closed flag of __g_signals alone.   *)
LEMMA Parity == \A n \in Int : IsClosed(n + 2) <=> IsClosed(n)
BY SMTT(60) DEF IsClosed

(* futex_wake only unblocks.                                                *)
LEMMA WakeUnblocks ==
  ASSUME NEW k, WakeOne(k) \/ WakeAll(k)
  PROVE  gSleepers' \subseteq gSleepers
BY ZenonT(60) DEF WakeOne, WakeAll, Blocked, FutexWakeOne

(* The steps of waiters are such steps.                                     *)
LEMMA WaiterQuiet ==
  ASSUME Types, SleepOK, NEW t \in Threads, Waiter(t) \/ \E f \in Faults : Fault(t, f)
  PROVE  SleepMove(t) /\ RefsMove(t) /\ (Quiet(t) \/ Shrink(t))
<1> USE DEF At, G, Referring, Open, Blocking, Grouped, Locking, Quiescing, SleepMove,
            RefsMove, Quiet, groups, queues, sequence
<1>l. /\ AfterDec(t) \in {"try", "confirm", "cancel"}
      /\ {"try", "confirm", "cancel", "ref", "took", "unflag", "undo_wake", "cwake",
          "undo_load", "undo_check", "undo_cas", "closed", "older", "fwait", "sleep",
          "dec", "rwake", "again", "dwake", "waiters"} \subseteq PC
  BY ZenonT(60) DEF AfterDec, PC, Waiting, Signalling
<1>g. /\ local[t].g \in Slots /\ local[t].seq \in Int
      /\ g_signals \in [Slots -> Int]
  BY ZenonT(60) DEF Types, Locals
<1>s. pc[t] # "sleep" => t \notin gSleepers
  BY ZenonT(60) DEF SleepOK
<1>1. CASE wait_reference(t)
  BY <1>1, <1>l, <1>s, GotoEffect, ZenonT(60) DEF wait_reference, Keeps
<1>2. CASE wait_grab(t)
  BY <1>2, <1>l, <1>g, <1>s, ContinueEffect, ZenonT(60) DEF wait_grab
<1>3. CASE wait_group_reference(t)
  <2>1. \A k \in Slots : g_refs'[k][1] =
          IF k = local[t].g THEN g_refs[k][1] + 1 ELSE g_refs[k][1]
    BY <1>3, <1>g, RefsTypes, SMTT(60) DEF wait_group_reference, Types
  <2> QED
    BY <1>3, <2>1, <1>l, <1>s, GotoEffect, ZenonT(60) DEF wait_group_reference, Keeps
<1>4. CASE wait_check_closed(t)
  <2>1. Keeps(t)
    BY <1>4, SetEffect, ZenonT(60) DEF wait_check_closed, Keeps, Settable
  <2> QED
    BY <1>4, <2>1, <1>l, <1>s, GotoEffect, ZenonT(60) DEF wait_check_closed, Keeps
<1>5. CASE wait_check_older(t)
  <2>1. Keeps(t)
    BY <1>5, SetEffect, ZenonT(60) DEF wait_check_older, Keeps, Settable
  <2>2. g1_start[1] \in Int
    BY ZenonT(60) DEF Types
  <2>3. ~(local[t].seq < g1_start[1]) => local[t].seq >= g1_start[1]
    BY <1>g, <2>2, SMTT(60)
  <2> QED
    BY <1>5, <2>1, <2>3, <1>l, <1>s, GotoEffect, ZenonT(60) DEF wait_check_older, Keeps
<1>6. CASE wait_block(t)
  BY <1>6, <1>l, <1>s, GotoEffect, ZenonT(60) DEF wait_block, Keeps, FutexWaitQueue
<1>7. CASE dec_grefs(t)
  <2>1. \A k \in Slots : g_refs'[k][1] =
          IF k = local[t].g THEN g_refs[k][1] - 1 ELSE g_refs[k][1]
    BY <1>7, <1>g, RefsTypes, SMTT(60) DEF dec_grefs, Types
  <2>2. /\ pc'[t] \in {"unflag", "try", "confirm", "cancel"}
        /\ pc'[t] # "confirm" => Keeps(t)
    BY <1>7, <1>l, ContinueEffect, ZenonT(60) DEF dec_grefs
  <2> QED
    BY <1>7, <2>1, <2>2, <1>s, ZenonT(60) DEF dec_grefs, Keeps
<1>8. CASE dec_grefs_unflag(t)
  <2>1. \A k \in Slots : g_refs'[k][1] = g_refs[k][1]
    BY <1>8, <1>g, RefsTypes, SMTT(60) DEF dec_grefs_unflag, Types
  <2> QED
    BY <1>8, <2>1, <1>l, <1>s, GotoEffect, ZenonT(60) DEF dec_grefs_unflag, Keeps
<1>9. CASE dec_grefs_wake(t)
  BY <1>9, <1>l, <1>s, ContinueEffect, ZenonT(60) DEF dec_grefs_wake
<1>10. CASE wait_took(t)
  <2>1. pc'[t] \in {"confirm", "undo_load"}
    BY <1>10, <1>l, GotoEffect, ContinueEffect, ZenonT(60) DEF wait_took
  <2> QED
    BY <1>10, <2>1, <1>s, ZenonT(60) DEF wait_took
<1>11. CASE undo_load(t)
  BY <1>11, <1>l, <1>s, GotoEffect, ZenonT(60) DEF undo_load
<1>12. CASE undo_check(t)
  <2>1. pc'[t] \in {"confirm", "undo_wake", "undo_cas"}
    BY <1>12, <1>l, GotoEffect, ContinueEffect, ZenonT(60) DEF undo_check
  <2> QED
    BY <1>12, <2>1, <1>s, ZenonT(60) DEF undo_check
<1>13. CASE undo_cas(t)
  <2>1. pc'[t] \in {"undo_wake", "undo_check"}
    BY <1>13, <1>l, GotoEffect, ContinueEffect, ZenonT(60) DEF undo_cas
  <2>2. \A k \in Slots : g_signals'[k] \in {g_signals[k], g_signals[k] + 2}
    BY <1>13, <1>g, SMTT(60) DEF undo_cas
  <2>3. \A k \in Slots : IsClosed(g_signals[k]) => IsClosed(g_signals'[k])
    BY <1>g, <2>2, Parity, SMTT(60)
  <2> QED
    BY <1>13, <2>1, <2>3, <1>s, ZenonT(60) DEF undo_cas
<1>14. CASE undo_wake(t)
  BY <1>14, <1>l, <1>s, GotoEffect, WakeUnblocks, ZenonT(60) DEF undo_wake
<1>15. CASE cancel_waiting(t)
  <2>1. CASE Goto(t, "waiters") /\ UNCHANGED g_size
    BY <1>15, <2>1, <1>l, <1>s, GotoEffect, ZenonT(60) DEF cancel_waiting
  <2>2. CASE /\ g_size' = [g_size EXCEPT ![G(t)] = @ - 1]
             /\ \E next \in {"cwake", "confirm"} : Continue(t, next)
             /\ ~(g1_start[1] > local[t].seq)
             /\ g1_start[1] + orig_size <= local[t].seq \/ g_size[G(t)] # 0
    BY <1>15, <2>2, <1>l, <1>g, <1>s, ContinueEffect, SMTT(60) DEF cancel_waiting,
       Shrink, Types
  <2> QED
    BY <1>15, <2>1, <2>2, ZenonT(60) DEF cancel_waiting
<1>16. CASE cleanup_wake(t)
  BY <1>16, <1>l, <1>s, ContinueEffect, WakeUnblocks, ZenonT(60) DEF cleanup_wake
<1>17. CASE confirm_wakeup(t)
  BY <1>17, <1>l, <1>s, GotoEffect, ZenonT(60) DEF confirm_wakeup
<1>18. CASE confirm_wakeup_wake(t)
  BY <1>18, <1>l, <1>s, GotoEffect, ZenonT(60) DEF confirm_wakeup_wake
<1>19. CASE \E f \in Faults : Fault(t, f)
  <2>1. Keeps(t)
    BY <1>19, SetEffect, ClientAssumption, ZenonT(60) DEF Fault, Settable
  <2> QED
    BY <1>19, <2>1, <1>l, <1>s, GotoEffect, ZenonT(60) DEF Fault, SleepOK, Keeps
<1> QED
  BY <1>1, <1>2, <1>3, <1>4, <1>5, <1>6, <1>7, <1>8, <1>9, <1>10, <1>11, <1>12,
     <1>13, <1>14, <1>15, <1>16, <1>17, <1>18, <1>19, ZenonT(60) DEF Waiter

(* So are those of destroy and of the client, but for the one that takes a  *)
(* position.                                                                *)
LEMMA OtherQuiet ==
  ASSUME Types, SleepOK, NEW t \in Threads,
         Destroyer(t) \/ Client(t)
  PROVE  SleepMove(t) /\ RefsMove(t) /\ (Quiet(t) \/ Wait(t))
<1> USE DEF At, Referring, Open, Blocking, Grouped, Locking, Quiescing, SleepMove,
            RefsMove, Quiet, groups, queues, sequence
<1>l. {"idle", "d_wait", "d_sleep", "d_load", "waiters", "wrefs"} \subseteq PC
  BY ZenonT(60) DEF PC, Waiting, Signalling
<1>s. pc[t] # "sleep" => t \notin gSleepers
  BY ZenonT(60) DEF SleepOK
<1>1. CASE cond_destroy(t)
  BY <1>1, <1>l, <1>s, GotoEffect, ZenonT(60) DEF cond_destroy, AfterDestroyLoad
<1>2. CASE destroy_wait(t)
  BY <1>2, <1>l, <1>s, GotoEffect, ZenonT(60) DEF destroy_wait
<1>3. CASE destroy_load(t)
  BY <1>3, <1>l, <1>s, GotoEffect, ZenonT(60) DEF destroy_load, AfterDestroyLoad
<1>4. CASE Produce(t)
  BY <1>4, <1>l, <1>s, GotoEffect, ZenonT(60) DEF Produce
<1>5. CASE Close(t)
  BY <1>5, <1>l, <1>s, GotoEffect, ZenonT(60) DEF Close
<1>6. CASE Consume(t)
  BY <1>6, <1>l, <1>s, GotoEffect, ZenonT(60) DEF Consume
<1>7. CASE Leave(t)
  BY <1>7, <1>l, <1>s, GotoEffect, ZenonT(60) DEF Leave
<1>8. CASE Wait(t)
  BY <1>8, <1>l, <1>s, GotoEffect, ZenonT(60) DEF Wait, wait_position
<1> QED
  BY <1>1, <1>2, <1>3, <1>4, <1>5, <1>6, <1>7, <1>8, ZenonT(60) DEF Destroyer, Client

(* Signalers neither block on the signal words nor hold references.         *)
LEMMA SignalerRefs ==
  ASSUME Types, SleepOK, NEW t \in Threads, Signaler(t)
  PROVE  SleepMove(t) /\ RefsMove(t)
<1>1. pc[t] \in Signalling /\ pc'[t] \in Signalling \cup {"idle", "confirm", "cwake", "d_flag"}
  BY SignalerMoves, ZenonT(60) DEF SignalerMove, Types, Locals
<1>2. pc[t] \notin Referring /\ pc'[t] \notin Referring /\ pc[t] # "sleep"
  BY <1>1, ZenonT(60) DEF Signalling, Referring
<1>3. gSleepers' \subseteq gSleepers
  BY WakeUnblocks, ZenonT(60)
     DEF Signaler, signal_check, signal_lock, broadcast_lock, broadcast_wake,
         quiesce_close, quiesce_load, quiesce_flag, quiesce_wait, quiesce_start,
         quiesce_open, quiesce_switch, signal_add, signal_wake, queues
<1>4. \A k \in Slots : g_refs'[k][1] = g_refs[k][1]
  <2>1. CASE quiesce_flag(t)
    <3>1. local[t].g1 \in Slots
      BY ZenonT(60) DEF Types, Locals
    <3> QED
      BY <2>1, <3>1, RefsTypes, SMTT(60) DEF quiesce_flag
  <2>2. CASE ~quiesce_flag(t)
    <3>1. g_refs' = g_refs
      BY <2>2, ZenonT(60)
         DEF Signaler, signal_check, signal_lock, broadcast_lock, broadcast_wake,
             quiesce_close, quiesce_load, quiesce_wait, quiesce_start,
             quiesce_open, quiesce_switch, signal_add, signal_wake, groups
    <3> QED
      BY <3>1, ZenonT(60)
  <2> QED
    BY <2>1, <2>2, ZenonT(60)
<1> QED
  BY <1>2, <1>3, <1>4, ZenonT(60) DEF SleepMove, RefsMove, SleepOK

(* The references stay exact, and whoever is blocked is at "sleep".         *)
LEMMA RefsKept ==
  ASSUME Types, SleepOK, RefsOK, NEW t \in Threads, Others(t), SleepMove(t), RefsMove(t)
  PROVE  SleepOK' /\ RefsOK'
<1>1. SleepOK'
  BY ZenonT(60) DEF SleepOK, SleepMove, Others
<1>2. ASSUME NEW k \in Slots
      PROVE  IsFiniteSet(Refs(k)') /\ g_refs'[k][1] = Cardinality(Refs(k)')
  <2>1. \A u \in Threads \ {t} : u \in Refs(k)' <=> u \in Refs(k)
    BY ZenonT(60) DEF Refs, Others
  <2>2. Refs(k) \subseteq Threads /\ Refs(k)' \subseteq Threads
    BY ZenonT(60) DEF Refs
  <2>3. IsFiniteSet(Refs(k)) /\ g_refs[k][1] = Cardinality(Refs(k))
    BY ZenonT(60) DEF RefsOK
  <2>4. CASE g_refs'[k][1] = g_refs[k][1] /\ (t \in Refs(k) <=> t \in Refs(k)')
    <3>1. Refs(k)' = Refs(k)
      BY <2>1, <2>2, <2>4, SMTT(60)
    <3> QED
      BY <2>3, <2>4, <3>1, ZenonT(60)
  <2>5. CASE g_refs'[k][1] = g_refs[k][1] + 1 /\ t \notin Refs(k) /\ t \in Refs(k)'
    <3>1. Refs(k)' = Refs(k) \cup {t}
      BY <2>1, <2>2, <2>5, ZenonT(60)
    <3> QED
      BY <2>3, <2>5, <3>1, SizeChange, ZenonT(60)
  <2>6. CASE g_refs'[k][1] = g_refs[k][1] - 1 /\ t \in Refs(k) /\ t \notin Refs(k)'
    <3>1. Refs(k)' = Refs(k) \ {t}
      BY <2>1, <2>2, <2>6, ZenonT(60)
    <3> QED
      BY <2>3, <2>6, <3>1, SizeChange, ZenonT(60)
  <2> QED
    BY <2>4, <2>5, <2>6, ZenonT(60) DEF RefsMove, Refs
<1> QED
  BY <1>1, <1>2, ZenonT(60) DEF RefsOK
-----------------------------------------------------------------------------
GroupsOK == LockOK /\ PositionOK /\ ClosedOK /\ SizeOK

(* A signaler takes the internal lock, ...                                  *)
Take(t) ==
  /\ UNCHANGED sequence
  /\ lock = Nobody /\ lock' = t
  /\ pc[t] = "s_lock" /\ local'[t].g1 = G1
  /\ g_size'[g2] = g_size[g2]
  /\ \/ pc'[t] = "s_add" /\ g_size'[G1] = g_size[G1] /\ g_size[G1] # 0
     \/ pc'[t] \in {"q_close", "b_wake"} /\ g_size'[G1] = 0

(* ... goes on with it, having waited for the closed group to be left, ...  *)
Closing == {"q_refs", "q_flag", "q_wait", "q_sleep", "q_start"}

Hold(t) ==
  /\ UNCHANGED <<sequence, lock, g_size>>
  /\ pc[t] \in (Quiescing \cup {"b_wake"}) \ {"q_start", "q_switch"}
  /\ pc'[t] \in Quiescing \ {"q_open"}
  /\ pc[t] = "q_open" <=> pc'[t] = "q_switch"
  /\ local'[t].g1 = local[t].g1
  /\ pc'[t] \in Closing =>
       \/ IsClosed(g_signals'[local[t].g1])
       \/ pc[t] \in Closing /\ g_signals' = g_signals
  /\ pc'[t] = "q_start" => g_refs[local[t].g1][1] = 0

(* ... and releases it.                                                     *)
Drop(t) ==
  /\ UNCHANGED sequence
  /\ lock' = Nobody
  /\ pc[t] \in {"b_wake", "s_add"} /\ pc'[t] \notin Grouped \cup Locking
  /\ \/ g_size' = g_size
     \/ /\ pc[t] = "s_add"
        /\ \E n \in {1, g_size[local[t].g1]} :
             g_size' = [g_size EXCEPT ![local[t].g1] = @ - n]

(* The steps of signalers.                                                  *)
LEMMA SignalerGroups ==
  ASSUME Types, NEW t \in Threads, Signaler(t)
  PROVE  \/ Quiet(t) \/ Take(t) \/ Hold(t) \/ Drop(t)
         \/ quiesce_start(t) \/ quiesce_switch(t)
<1> USE DEF At, groups, sequence, Locking, Quiescing, Grouped, Closing
<1>l. Signalling \subseteq PC
  BY ZenonT(60) DEF PC
<1>g. /\ local[t].g1 \in Slots /\ G1 \in Slots /\ g2 \in Slots /\ G1 # g2
      /\ g_size \in [Slots -> Int] /\ g_signals \in [Slots -> Int]
  BY SMTT(60) DEF Types, Locals, G1, Slots
<1>1. CASE signal_check(t)
  BY <1>1, <1>l, GotoEffect, ReturnEffect, ZenonT(60)
     DEF signal_check, Quiet, Open, Blocking, Signalling
<1>2. CASE signal_lock(t)
  <2>1. CASE Return(t) /\ UNCHANGED lock
    BY <1>2, <2>1, ReturnEffect, ZenonT(60) DEF signal_lock, Quiet, Open, Blocking
  <2>2. CASE lock' = t /\ Set(t, "g1", G1)
    <3>1. local'[t].g1 = G1
      BY <2>2, <1>g, SetEffect, ZenonT(60) DEF Settable
    <3> QED
      BY <1>2, <2>2, <3>1, <1>l, <1>g, GotoEffect, ReturnEffect, ZenonT(60)
         DEF signal_lock, Take, Signalling, Quiet, Open, Blocking
  <2> QED
    BY <1>2, <2>1, <2>2, ZenonT(60) DEF signal_lock
<1>3. CASE broadcast_lock(t)
  <2>1. CASE Return(t) /\ UNCHANGED <<lock, groups>>
    BY <1>3, <2>1, ReturnEffect, ZenonT(60) DEF broadcast_lock, Quiet, Open, Blocking
  <2>2. CASE ~(g_size[G1] = 0 /\ EmptyG2)
    <3>1. local'[t].g1 = G1
      <4>1. local' = [local EXCEPT ![t].g1 = G1, ![t].switch = ~EmptyG2]
        BY <1>3, <2>2, ZenonT(60) DEF broadcast_lock
      <4>2. (~EmptyG2) \in BOOLEAN
        BY ZenonT(60) DEF EmptyG2
      <4> QED
        BY <4>1, <4>2, <1>g, BroadcastEffect, ZenonT(60)
    <3> QED
      BY <1>3, <2>2, <3>1, <1>l, <1>g, GotoEffect, ZenonT(60) DEF broadcast_lock, Take,
         Signalling
  <2> QED
    BY <1>3, <2>1, <2>2, ZenonT(60) DEF broadcast_lock
<1>4. CASE broadcast_wake(t)
  <2>1. CASE Goto(t, "q_close") /\ UNCHANGED <<lock, local>>
    BY <1>4, <2>1, <1>l, GotoEffect, ZenonT(60) DEF broadcast_wake, Hold, Signalling
  <2>2. CASE lock' = Nobody /\ Return(t)
    BY <1>4, <2>2, ReturnEffect, ZenonT(60) DEF broadcast_wake, Drop
  <2> QED
    BY <1>4, <2>1, <2>2, ZenonT(60) DEF broadcast_wake
<1>5. CASE quiesce_close(t)
  <2>1. IsClosed(g_signals'[local[t].g1])
    BY <1>5, <1>g, SMTT(60) DEF quiesce_close, IsClosed
  <2> QED
    BY <1>5, <2>1, <1>l, GotoEffect, ZenonT(60) DEF quiesce_close, Hold, Signalling
<1>6. CASE quiesce_load(t)
  BY <1>6, <1>l, GotoEffect, ZenonT(60) DEF quiesce_load, Hold, Signalling
<1>7. CASE quiesce_flag(t)
  <2>1. local'[t].g1 = local[t].g1
    <3>1. <<g_refs[local[t].g1][1], 1>> \in Int \X Int
      BY <1>g, SMTT(60) DEF Types
    <3> QED
      BY <1>7, <3>1, SetEffect, SMTT(60) DEF quiesce_flag, Settable
  <2> QED
    BY <1>7, <2>1, <1>l, GotoEffect, ZenonT(60) DEF quiesce_flag, Hold, Signalling
<1>8. CASE quiesce_wait(t)
  <2>1. local'[t].g1 = local[t].g1
    BY <1>8, SetEffect, SMTT(60) DEF quiesce_wait, Settable
  <2> QED
    BY <1>8, <2>1, <1>l, GotoEffect, ZenonT(60) DEF quiesce_wait, Hold, Signalling
<1>9. CASE quiesce_open(t)
  BY <1>9, <1>l, GotoEffect, ZenonT(60) DEF quiesce_open, Hold, Signalling
<1>10. CASE signal_add(t)
  BY <1>10, <1>l, GotoEffect, ZenonT(60) DEF signal_add, Drop, Signalling
<1>11. CASE signal_wake(t)
  BY <1>11, ReturnEffect, ZenonT(60) DEF signal_wake, Quiet, Open, Blocking
<1> QED
  BY <1>1, <1>2, <1>3, <1>4, <1>5, <1>6, <1>7, <1>8, <1>9, <1>10, <1>11, ZenonT(60) DEF
     Signaler

(* Facts used in all of the lemmas about groups.                            *)
LEMMA GroupTypes ==
  ASSUME Types
  PROVE  /\ wseq \in Int /\ orig_size \in Int /\ g1_start[1] \in Int /\ End \in Int
         /\ g2 \in Slots /\ G1 \in Slots /\ G1 # g2
         /\ \A k \in Slots : (k = G1 \/ k = g2) /\ g_size[k] \in Int
         /\ \A t \in Threads : local[t].seq \in Int /\ local[t].g \in Slots
         /\ Nobody \notin Threads
BY ClientAssumption, SMTT(60) DEF Types, Locals, G1, Slots, End

(* A smaller set of newcomers has a smaller size.                           *)
LEMMA FewerNewcomers ==
  ASSUME IsFiniteSet(Newcomers), Newcomers' \subseteq Newcomers
  PROVE  /\ IsFiniteSet(Newcomers') /\ Cardinality(Newcomers') <= Cardinality(Newcomers)
         /\ Cardinality(Newcomers') \in Nat /\ Cardinality(Newcomers) \in Nat
BY FS_Subset, FS_CardinalityType, ZenonT(60)

(* A step that does not concern the holder of the lock leaves alone what    *)
(* is said of it.                                                           *)
LEMMA HolderKept ==
  ASSUME Types, LockOK, NEW t \in Threads, Others(t), lock' = lock, lock # t
  PROVE  /\ \A L : Holder(L)' <=> Holder(L)
         /\ UNCHANGED <<g1_start, orig_size>> => End' = End
<1>1. lock = Nobody \/ (lock \in Threads \ {t} /\ pc'[lock] = pc[lock])
  BY ZenonT(60) DEF Types, Others
<1>2. \A L : Holder(L)' <=> Holder(L)
  BY <1>1, ZenonT(60) DEF Holder
<1> QED
  BY <1>2, ZenonT(60) DEF End, Moved, Holder

(* Quiet steps keep the groups as they are.                                 *)
LEMMA QuietGroups ==
  ASSUME Types, GroupsOK, NEW t \in Threads, Others(t), Quiet(t), Types'
  PROVE  GroupsOK'
<1> USE DEF GroupsOK
<1>1. /\ lock' = lock /\ lock # t /\ wseq' = wseq /\ g2' = g2 /\ G1' = G1
      /\ g1_start' = g1_start /\ orig_size' = orig_size /\ g_size' = g_size
  BY ZenonT(60) DEF Quiet, sequence, LockOK, G1
<1>2. /\ \A L : Holder(L)' <=> Holder(L)
      /\ End' = End
  BY <1>1, HolderKept, ZenonT(60)
<1>3. LockOK'
  BY <1>1, ZenonT(60) DEF LockOK, Others, Quiet
<1>4. PositionOK'
  <2>1. ASSUME NEW u \in Threads, pc'[u] \in Grouped PROVE PositionAt(u)'
    <3>1. /\ pc[u] \in Grouped /\ local'[u].seq = local[u].seq /\ local'[u].g = local[u].g
          /\ pc'[u] \in Blocking => pc[u] \in Blocking \/ local[u].seq >= g1_start[1]
      BY <2>1, ZenonT(60) DEF Others, Quiet, Keeps
    <3>2. PositionAt(u)
      BY <3>1, ZenonT(60) DEF PositionOK
    <3> QED
      BY <1>1, <1>2, <3>1, <3>2, ZenonT(60) DEF PositionAt
  <2> QED
    BY <1>1, <1>2, <2>1, ZenonT(60) DEF PositionOK
<1>5. ClosedOK'
  <2>1. G1 \in Slots
    BY GroupTypes, ZenonT(60)
  <2>2. ASSUME Holder({"q_start"})', NEW u \in Threads, pc'[u] \in Open
        PROVE  local'[u].g # G1
    <3>1. Holder({"q_start"}) /\ Holder(Closing)
      BY <1>2, <2>2, ZenonT(60) DEF Holder, Closing
    <3>2. IsClosed(g_signals[G1]) /\ (pc[u] \in Open => local[u].g # G1)
      BY <3>1, ZenonT(60) DEF ClosedOK, Closing
    <3>3. pc[u] \in Open \/ ~IsClosed(g_signals[local[u].g])
      BY <2>2, ZenonT(60) DEF Quiet, Others
    <3>4. local'[u].g = local[u].g
      BY <2>2, ZenonT(60) DEF Quiet, Others, Keeps, Open, Grouped
    <3> QED
      BY <3>2, <3>3, <3>4, ZenonT(60)
  <2> QED
    BY <1>1, <1>2, <2>1, <2>2, ZenonT(60) DEF ClosedOK, Quiet
<1>6. SizeOK'
  <2>1. Newcomers' \subseteq Newcomers
    BY <1>1, <1>2, ZenonT(60) DEF Newcomers, Others, Quiet, Keeps
  <2>2. /\ IsFiniteSet(Newcomers') /\ Cardinality(Newcomers') <= Cardinality(Newcomers)
        /\ Cardinality(Newcomers') \in Nat /\ Cardinality(Newcomers) \in Nat
    BY <2>1, FewerNewcomers, ZenonT(60) DEF SizeOK
  <2> QED
    BY <1>1, <1>2, <2>2, GroupTypes, SMTT(60) DEF SizeOK
<1> QED
  BY <1>3, <1>4, <1>5, <1>6, ZenonT(60)

(* A waiter that gives up is subtracted from its own group, G2 or G1, and   *)
(* was counted there.                                                       *)
LEMMA ShrinkGroups ==
  ASSUME Types, GroupsOK, NEW t \in Threads, Others(t), Shrink(t), Types'
  PROVE  GroupsOK'
<1> USE DEF GroupsOK
<1>1. /\ lock' = Nobody /\ lock = Nobody /\ wseq' = wseq /\ g2' = g2 /\ G1' = G1
      /\ g1_start' = g1_start /\ orig_size' = orig_size /\ g_signals' = g_signals
  BY ZenonT(60) DEF Shrink, sequence, G1
<1>2. /\ \A L : ~Holder(L)' /\ ~Holder(L)
      /\ End' = End /\ End = g1_start[1] + orig_size
  BY <1>1, ZenonT(60) DEF Holder, End, Moved
<1>3. pc[t] \in Grouped /\ pc'[t] \notin Grouped \cup Locking
  BY ZenonT(60) DEF Shrink, Grouped, Locking, Quiescing
<1>4. LockOK'
  BY <1>1, <1>3, GroupTypes, ZenonT(60) DEF LockOK, Others
<1>5. PositionOK'
  <2>1. ASSUME NEW u \in Threads, pc'[u] \in Grouped PROVE PositionAt(u)'
    <3>1. pc'[u] = pc[u] /\ local'[u] = local[u]
      BY <1>3, <2>1, ZenonT(60) DEF Others
    <3> QED
      BY <1>1, <1>2, <2>1, <3>1, ZenonT(60) DEF PositionOK, PositionAt
  <2> QED
    BY <1>1, <1>2, <2>1, ZenonT(60) DEF PositionOK
<1>6. ClosedOK'
  BY <1>2, ZenonT(60) DEF ClosedOK
<1>7. Newcomers' = Newcomers \ {t}
  BY <1>1, <1>2, <1>3, ZenonT(60) DEF Newcomers, Others
<1>8. PositionAt(t)
  BY <1>3, ZenonT(60) DEF PositionOK
<1>9. CASE local[t].seq >= End
  <2>1. local[t].g = g2
    BY <1>8, <1>9, GroupTypes, SMTT(60) DEF PositionAt
  <2>2. g_size'[g2] = g_size[g2] - 1 /\ g_size'[G1] = g_size[G1]
    BY <2>1, GroupTypes, ZenonT(60) DEF Shrink, Types
  <2>3. t \in Newcomers
    BY <1>3, <1>9, <2>1, ZenonT(60) DEF Newcomers
  <2>4. /\ IsFiniteSet(Newcomers') /\ Cardinality(Newcomers') = Cardinality(Newcomers) - 1
        /\ Cardinality(Newcomers) \in Nat
    BY <1>7, <2>3, SizeChange, ZenonT(60) DEF SizeOK
  <2>5. SizeOK'
    BY <1>1, <1>2, <2>2, <2>4, GroupTypes, SMTT(60) DEF SizeOK
  <2> QED
    BY <1>4, <1>5, <1>6, <2>5, ZenonT(60)
<1>10. CASE ~(local[t].seq >= End)
  <2>1. local[t].g = G1 /\ g_size[G1] # 0
    BY <1>2, <1>8, <1>10, GroupTypes, SMTT(60) DEF PositionAt, Shrink
  <2>2. g_size'[G1] = g_size[G1] - 1 /\ g_size'[g2] = g_size[g2]
    BY <2>1, GroupTypes, ZenonT(60) DEF Shrink, Types
  <2>3. /\ IsFiniteSet(Newcomers') /\ Cardinality(Newcomers') <= Cardinality(Newcomers)
        /\ Cardinality(Newcomers') \in Nat /\ Cardinality(Newcomers) \in Nat
    BY <1>7, FewerNewcomers, ZenonT(60) DEF SizeOK
  <2>4. 0 <= g_size'[G1] /\ g_size'[G1] <= orig_size
    <3>1. g_size[G1] \in Int /\ orig_size \in Int
      BY GroupTypes, ZenonT(60)
    <3>2. 0 <= g_size[G1] /\ g_size[G1] <= orig_size
      BY ZenonT(60) DEF SizeOK
    <3> QED
      BY <2>1, <2>2, <3>1, <3>2, SMTT(60)
  <2>5. g_size[g2] <= 0 /\ Cardinality(Newcomers') <= wseq - End + g_size[g2]
    BY <2>3, GroupTypes, SMTT(60) DEF SizeOK
  <2>6. SizeOK'
    BY <1>1, <1>2, <2>2, <2>3, <2>4, <2>5, ZenonT(60) DEF SizeOK
  <2> QED
    BY <1>4, <1>5, <1>6, <2>6, ZenonT(60)
<1> QED
  BY <1>9, <1>10, ZenonT(60)

(* A new waiter takes a position in G2, also while the groups are switched. *)
LEMMA EnterGroups ==
  ASSUME Types, GroupsOK, NEW t \in Threads, Others(t), Wait(t), Types'
  PROVE  GroupsOK'
<1> USE DEF GroupsOK
<1>1. /\ lock' = lock /\ wseq' = wseq + 1 /\ g2' = g2 /\ G1' = G1
      /\ g1_start' = g1_start /\ orig_size' = orig_size
      /\ g_size' = g_size /\ g_signals' = g_signals
  BY ZenonT(60) DEF Wait, wait_position, groups, G1
<1>2. pc[t] \in {"idle", "again"} /\ pc'[t] = "wrefs"
  BY GotoEffect, ZenonT(60) DEF Wait, wait_position, PC, Waiting
<1>3. local'[t].seq = wseq /\ local'[t].g = g2
  BY ZenonT(60) DEF Wait, wait_position, Types, Fresh
<1>4. lock # t
  BY <1>2, ZenonT(60) DEF LockOK, Locking, Quiescing
<1>5. /\ \A L : Holder(L)' <=> Holder(L)
      /\ End' = End
  BY <1>1, <1>4, HolderKept, ZenonT(60)
<1>6. LockOK'
  BY <1>1, <1>2, <1>4, ZenonT(60) DEF LockOK, Others, Locking, Quiescing
<1>7. PositionOK'
  <2>1. ASSUME NEW u \in Threads \ {t}, pc'[u] \in Grouped PROVE PositionAt(u)'
    <3>1. PositionAt(u) /\ pc'[u] = pc[u] /\ local'[u] = local[u]
      BY <2>1, ZenonT(60) DEF Others, PositionOK
    <3> QED
      BY <1>1, <1>5, <3>1, GroupTypes, SMTT(60) DEF PositionAt
  <2>2. PositionAt(t)'
    BY <1>1, <1>2, <1>3, <1>5, GroupTypes, SMTT(60) DEF PositionAt, PositionOK, Blocking
  <2> QED
    BY <1>1, <1>5, <2>1, <2>2, GroupTypes, SMTT(60) DEF PositionOK
<1>8. ClosedOK'
  <2>1. pc'[t] \notin Open
    BY <1>2, ZenonT(60) DEF Open
  <2> QED
    BY <1>1, <1>5, <2>1, ZenonT(60) DEF ClosedOK, Others
<1>9. Newcomers' = Newcomers \cup {t} /\ t \notin Newcomers
  <2>1. t \notin Newcomers
    BY <1>2, ZenonT(60) DEF Newcomers, Grouped
  <2>2. t \in Newcomers'
    BY <1>1, <1>2, <1>3, <1>5, ZenonT(60) DEF Newcomers, Grouped, PositionOK
  <2>3. \A u \in Threads \ {t} : u \in Newcomers' <=> u \in Newcomers
    BY <1>1, <1>5, ZenonT(60) DEF Newcomers, Others
  <2>4. Newcomers \subseteq Threads /\ Newcomers' \subseteq Threads
    BY ZenonT(60) DEF Newcomers
  <2> QED
    BY <2>1, <2>2, <2>3, <2>4, ZenonT(60)
<1>10. /\ IsFiniteSet(Newcomers') /\ Cardinality(Newcomers') = Cardinality(Newcomers) + 1
       /\ Cardinality(Newcomers) \in Nat
  BY <1>9, SizeChange, ZenonT(60) DEF SizeOK
<1>11. SizeOK'
  BY <1>1, <1>5, <1>10, GroupTypes, SMTT(60) DEF SizeOK
<1> QED
  BY <1>6, <1>7, <1>8, <1>11, ZenonT(60)

(* Taking the internal lock.                                                *)
LEMMA TakeGroups ==
  ASSUME Types, GroupsOK, NEW t \in Threads, Others(t), Take(t), Types'
  PROVE  GroupsOK'
<1> USE DEF GroupsOK
<1>1. /\ lock' = t /\ lock = Nobody /\ wseq' = wseq /\ g2' = g2 /\ G1' = G1
      /\ g1_start' = g1_start /\ orig_size' = orig_size /\ t # Nobody
  BY GroupTypes, ZenonT(60) DEF Take, sequence, G1
<1>2. /\ pc[t] \notin Grouped /\ pc'[t] \notin Grouped /\ pc'[t] \in Locking
      /\ pc'[t] \in {"s_add", "q_close", "b_wake"}
  BY ZenonT(60) DEF Take, Grouped, Locking, Quiescing
<1>3. End' = End
  BY <1>1, <1>2, ZenonT(60) DEF End, Moved, Holder
<1>4. LockOK'
  BY <1>1, <1>2, GroupTypes, ZenonT(60) DEF LockOK, Others, Take
<1>5. PositionOK'
  <2>1. ASSUME NEW u \in Threads, pc'[u] \in Grouped PROVE PositionAt(u)'
    <3>1. pc'[u] = pc[u] /\ local'[u] = local[u]
      BY <1>2, <2>1, ZenonT(60) DEF Others
    <3> QED
      BY <1>1, <1>3, <2>1, <3>1, ZenonT(60) DEF PositionOK, PositionAt
  <2> QED
    BY <1>1, <1>3, <2>1, ZenonT(60) DEF PositionOK
<1>6. ClosedOK'
  BY <1>1, <1>2, ZenonT(60) DEF ClosedOK, Holder
<1>7. Newcomers' = Newcomers
  BY <1>1, <1>2, <1>3, ZenonT(60) DEF Newcomers, Others
<1>8. SizeOK'
  <2>1. pc'[t] = "s_add" => g_size'[G1] > 0
    BY <1>2, GroupTypes, SMTT(60) DEF Take, SizeOK
  <2>2. 0 <= g_size'[G1] /\ g_size'[G1] <= orig_size
    BY GroupTypes, SMTT(60) DEF Take, SizeOK, PositionOK
  <2>3. pc'[t] # "s_add" => g_size'[G1] = 0
    BY ZenonT(60) DEF Take
  <2>4. g_size'[g2] = g_size[g2]
    BY ZenonT(60) DEF Take
  <2> QED
    BY <1>1, <1>2, <1>3, <1>7, <2>1, <2>2, <2>3, <2>4, ZenonT(60) DEF SizeOK, Holder,
       Quiescing
<1> QED
  BY <1>4, <1>5, <1>6, <1>8, ZenonT(60)

(* The holder of the lock is neither a waiter in a group nor a newcomer.    *)
LEMMA HolderSteps ==
  ASSUME Types, GroupsOK, NEW t \in Threads, Others(t), pc[t] \in Locking,
         pc'[t] \notin Grouped
  PROVE  /\ lock = t /\ t # Nobody /\ local[t].g1 = G1
         /\ \A L : Holder(L) <=> pc[t] \in L
         /\ \A u \in Threads : pc'[u] \in Grouped =>
              /\ u # t /\ pc[u] \in Grouped
              /\ pc'[u] = pc[u] /\ local'[u] = local[u]
         /\ UNCHANGED <<g2, End>> => Newcomers' = Newcomers
<1>1. lock = t /\ t # Nobody /\ local[t].g1 = G1
  BY GroupTypes, ZenonT(60) DEF GroupsOK, LockOK
<1>2. pc[t] \notin Grouped
  BY ZenonT(60) DEF Locking, Quiescing, Grouped
<1>3. \A L : Holder(L) <=> pc[t] \in L
  BY <1>1, ZenonT(60) DEF Holder
<1>4. \A u \in Threads : pc'[u] \in Grouped =>
        u # t /\ pc[u] \in Grouped /\ pc'[u] = pc[u] /\ local'[u] = local[u]
  BY ZenonT(60) DEF Others
<1>5. \A u \in Threads : pc[u] \in Grouped =>
        pc'[u] = pc[u] /\ local'[u] = local[u]
  BY <1>2, ZenonT(60) DEF Others
<1>6. UNCHANGED <<g2, End>> => Newcomers' = Newcomers
  BY <1>4, <1>5, ZenonT(60) DEF Newcomers
<1> QED
  BY <1>1, <1>3, <1>4, <1>6, ZenonT(60)

(* The steps of quiesce but the moves of the groups.  When the switch       *)
(* begins no reference to the closed group is left, so that nobody is past  *)
(* the test of the closed flag.                                             *)
LEMMA HoldGroups ==
  ASSUME Types, GroupsOK, RefsOK, NEW t \in Threads, Others(t), Hold(t), Types'
  PROVE  GroupsOK'
<1> USE DEF GroupsOK
<1>1. /\ lock' = lock /\ wseq' = wseq /\ g2' = g2 /\ G1' = G1
      /\ g1_start' = g1_start /\ orig_size' = orig_size /\ g_size' = g_size
  BY ZenonT(60) DEF Hold, sequence, G1
<1>2. /\ pc[t] \in Locking /\ pc'[t] \in Locking /\ pc'[t] \notin Grouped
      /\ pc[t] \in Quiescing \cup {"b_wake"} /\ pc'[t] \in Quiescing
      /\ pc'[t] \notin Open
  BY ZenonT(60) DEF Hold, Locking, Quiescing, Grouped, Open
<1>3. /\ lock = t /\ t # Nobody /\ local[t].g1 = G1
      /\ \A L : Holder(L) <=> pc[t] \in L
      /\ \A L : Holder(L)' <=> pc'[t] \in L
  <2>1. lock = t /\ t # Nobody /\ local[t].g1 = G1 /\ \A L : Holder(L) <=> pc[t] \in L
    BY <1>2, HolderSteps, ZenonT(60)
  <2>2. \A L : Holder(L)' <=> pc'[t] \in L
    BY <1>1, <2>1, ZenonT(60) DEF Holder
  <2> QED
    BY <2>1, <2>2, ZenonT(60)
<1>4. End' = End
  BY <1>1, <1>3, ZenonT(60) DEF End, Moved, Hold
<1>5. LockOK'
  BY <1>1, <1>2, <1>3, ZenonT(60) DEF LockOK, Others, Hold
<1>6. PositionOK'
  <2>1. ASSUME NEW u \in Threads, pc'[u] \in Grouped PROVE PositionAt(u)'
    <3>1. pc'[u] = pc[u] /\ local'[u] = local[u]
      BY <1>2, <2>1, ZenonT(60) DEF Others
    <3> QED
      BY <1>1, <1>4, <2>1, <3>1, ZenonT(60) DEF PositionOK, PositionAt
  <2> QED
    BY <1>1, <1>4, <2>1, ZenonT(60) DEF PositionOK
<1>7. ClosedOK'
  <2>1. ASSUME pc'[t] \in Closing PROVE IsClosed(g_signals'[G1])
    <3>1. pc[t] \in Closing => IsClosed(g_signals[G1])
      BY <1>3, ZenonT(60) DEF ClosedOK, Closing
    <3> QED
      BY <1>3, <2>1, <3>1, ZenonT(60) DEF Hold
  <2>2. ASSUME pc'[t] = "q_start", NEW u \in Threads, pc'[u] \in Open
        PROVE  local'[u].g # G1
    <3>1. u # t /\ pc'[u] = pc[u] /\ local'[u] = local[u]
      BY <1>2, <2>2, ZenonT(60) DEF Others
    <3>2. G1 \in Slots /\ g_refs[G1][1] = 0
      BY <1>3, <2>2, GroupTypes, ZenonT(60) DEF Hold
    <3>3. Refs(G1) = {}
      BY <3>2, FS_EmptySet, ZenonT(60) DEF RefsOK
    <3> QED
      BY <2>2, <3>1, <3>3, ZenonT(60) DEF Refs, Open, Referring
  <2> QED
    BY <1>1, <1>3, <2>1, <2>2, SMTT(60) DEF ClosedOK, Closing
<1>8. SizeOK'
  <2>1. Newcomers' = Newcomers
    BY <1>1, <1>2, <1>4, HolderSteps, ZenonT(60)
  <2>2. g_size[G1] = 0
    BY <1>2, <1>3, ZenonT(60) DEF SizeOK
  <2>3. ~Holder({"s_add"})'
    BY <1>2, <1>3, SMTT(60) DEF Quiescing
  <2> QED
    BY <1>1, <1>4, <2>1, <2>2, <2>3, ZenonT(60) DEF SizeOK
<1> QED
  BY <1>5, <1>6, <1>7, <1>8, ZenonT(60)

(* Releasing the lock after adding signals to G1, no more than its size.    *)
LEMMA DropGroups ==
  ASSUME Types, GroupsOK, NEW t \in Threads, Others(t), Drop(t), Types'
  PROVE  GroupsOK'
<1> USE DEF GroupsOK
<1>1. /\ lock' = Nobody /\ wseq' = wseq /\ g2' = g2 /\ G1' = G1
      /\ g1_start' = g1_start /\ orig_size' = orig_size
  BY ZenonT(60) DEF Drop, sequence, G1
<1>2. /\ pc[t] \in Locking /\ pc'[t] \notin Grouped /\ pc'[t] \notin Locking
      /\ pc[t] \notin {"q_open", "q_switch"}
  BY ZenonT(60) DEF Drop, Locking, Quiescing
<1>3. /\ lock = t /\ t # Nobody /\ local[t].g1 = G1
      /\ \A L : Holder(L) <=> pc[t] \in L
      /\ \A L : ~Holder(L)'
  <2>1. lock = t /\ t # Nobody /\ local[t].g1 = G1 /\ \A L : Holder(L) <=> pc[t] \in L
    BY <1>2, HolderSteps, ZenonT(60)
  <2>2. \A L : ~Holder(L)'
    BY <1>1, ZenonT(60) DEF Holder
  <2> QED
    BY <2>1, <2>2, ZenonT(60)
<1>4. End' = End
  BY <1>1, <1>2, <1>3, ZenonT(60) DEF End, Moved
<1>5. LockOK'
  BY <1>1, <1>2, <1>3, GroupTypes, ZenonT(60) DEF LockOK, Others
<1>6. PositionOK'
  <2>1. ASSUME NEW u \in Threads, pc'[u] \in Grouped PROVE PositionAt(u)'
    <3>1. pc'[u] = pc[u] /\ local'[u] = local[u]
      BY <1>2, <2>1, ZenonT(60) DEF Others
    <3> QED
      BY <1>1, <1>4, <2>1, <3>1, ZenonT(60) DEF PositionOK, PositionAt
  <2> QED
    BY <1>1, <1>4, <2>1, ZenonT(60) DEF PositionOK
<1>7. ClosedOK'
  BY <1>3, ZenonT(60) DEF ClosedOK
<1>8. SizeOK'
  <2>1. Newcomers' = Newcomers
    BY <1>1, <1>2, <1>4, HolderSteps, ZenonT(60)
  <2>2. g_size'[g2] = g_size[g2] /\ 0 <= g_size'[G1] /\ g_size'[G1] <= orig_size
    <3>1. CASE g_size' = g_size
      BY <3>1, ZenonT(60) DEF SizeOK
    <3>2. CASE g_size' # g_size
      <4>1. pc[t] = "s_add" /\ g_size[G1] > 0
        BY <1>3, <3>2, ZenonT(60) DEF Drop, SizeOK
      <4>2. PICK n \in {1, g_size[G1]} : g_size' = [g_size EXCEPT ![G1] = @ - n]
        BY <1>3, <3>2, ZenonT(60) DEF Drop
      <4>3. g_size'[g2] = g_size[g2] /\ g_size'[G1] = g_size[G1] - n
        BY <4>2, GroupTypes, ZenonT(60) DEF Types
      <4> QED
        BY <4>1, <4>2, <4>3, GroupTypes, SMTT(60) DEF SizeOK
    <3> QED
      BY <3>1, <3>2, ZenonT(60)
  <2> QED
    BY <1>1, <1>3, <1>4, <2>1, <2>2, ZenonT(60) DEF SizeOK
<1> QED
  BY <1>5, <1>6, <1>7, <1>8, ZenonT(60)

(* The start of G1 moves past the group that has been quiesced; nobody is   *)
(* blocked in its slot.                                                     *)
LEMMA StartGroups ==
  ASSUME Types, GroupsOK, NEW t \in Threads, Others(t), quiesce_start(t), Types'
  PROVE  GroupsOK'
<1> USE DEF GroupsOK
<1>1. /\ lock' = lock /\ wseq' = wseq /\ g2' = g2 /\ G1' = G1
      /\ g1_start'[1] = g1_start[1] + orig_size
      /\ orig_size' = orig_size /\ g_size' = g_size /\ local' = local
  BY ZenonT(60) DEF quiesce_start, groups, G1
<1>2. pc[t] = "q_start" /\ pc'[t] = "q_open"
  BY GotoEffect, ZenonT(60) DEF quiesce_start, At, PC, Signalling
<1>3. /\ pc[t] \in Locking /\ pc'[t] \in Locking
      /\ pc'[t] \notin Grouped /\ pc'[t] \notin Open
  BY <1>2, ZenonT(60) DEF Locking, Quiescing, Grouped, Open
<1>4. /\ lock = t /\ t # Nobody /\ local[t].g1 = G1
      /\ \A L : Holder(L) <=> pc[t] \in L
      /\ \A L : Holder(L)' <=> pc'[t] \in L
  <2>1. lock = t /\ t # Nobody /\ local[t].g1 = G1 /\ \A L : Holder(L) <=> pc[t] \in L
    BY <1>3, HolderSteps, ZenonT(60)
  <2>2. \A L : Holder(L)' <=> pc'[t] \in L
    BY <1>1, <2>1, ZenonT(60) DEF Holder
  <2> QED
    BY <2>1, <2>2, ZenonT(60)
<1>5. End' = End /\ End = g1_start[1] + orig_size
  BY <1>1, <1>2, <1>4, SMTT(60) DEF End, Moved
<1>6. LockOK'
  BY <1>1, <1>3, <1>4, ZenonT(60) DEF LockOK, Others
<1>7. PositionOK'
  <2>1. ASSUME NEW u \in Threads, pc'[u] \in Grouped PROVE PositionAt(u)'
    <3>1. pc'[u] = pc[u] /\ PositionAt(u)
      BY <1>3, <2>1, ZenonT(60) DEF Others, PositionOK
    <3>2. pc[u] \in Blocking => local[u].g # G1
      BY <1>2, <1>4, ZenonT(60) DEF ClosedOK, Blocking, Open
    <3>3. pc[u] \in Blocking => local[u].seq >= End
      BY <3>1, <3>2, GroupTypes, SMTT(60) DEF PositionAt
    <3>4. local[u].seq < g1_start[1] => local[u].seq < End
      BY <1>5, GroupTypes, SMTT(60) DEF PositionOK
    <3> QED
      BY <1>1, <1>5, <3>1, <3>3, <3>4, ZenonT(60) DEF PositionAt
  <2> QED
    BY <1>1, <1>5, <2>1, ZenonT(60) DEF PositionOK
<1>8. ClosedOK'
  BY <1>2, <1>4, SMTT(60) DEF ClosedOK
<1>9. SizeOK'
  <2>1. Newcomers' = Newcomers
    BY <1>1, <1>3, <1>5, HolderSteps, ZenonT(60)
  <2>2. g_size[G1] = 0 /\ ~Holder({"s_add"})'
    BY <1>2, <1>4, SMTT(60) DEF SizeOK, Quiescing
  <2> QED
    BY <1>1, <1>5, <2>1, <2>2, ZenonT(60) DEF SizeOK
<1> QED
  BY <1>6, <1>7, <1>8, <1>9, ZenonT(60)

(* G2 becomes G1.  Its size is the number of positions taken in it less the *)
(* waiters that gave up, which is not negative; the slot of the old G1 is   *)
(* empty, and only waiters of older groups are left in it.                  *)
LEMMA SwitchGroups ==
  ASSUME Types, ControlOK, GroupsOK, NEW t \in Threads, Others(t),
         quiesce_switch(t), Types'
  PROVE  GroupsOK'
<1> USE DEF GroupsOK
<1>1. /\ wseq' = wseq /\ g2' = G1 /\ G1' = g2 /\ g1_start' = g1_start
      /\ orig_size' = wseq - g1_start[1]
      /\ g_size'[g2] = g_size[g2] + wseq - g1_start[1] /\ g_size'[G1] = g_size[G1]
  BY GroupTypes, SMTT(60) DEF quiesce_switch, Types, G1, Slots
<1>2. pc[t] = "q_switch"
  BY ZenonT(60) DEF quiesce_switch, At
<1>3. \/ /\ lock' = lock /\ pc'[t] = "s_add" /\ local'[t].g1 = g2
         /\ g_size'[g2] # 0
      \/ /\ lock' = Nobody /\ pc'[t] \notin Grouped /\ pc'[t] \notin Locking
  <2>1. CASE g_size[g2] + (wseq - g1_start[1]) = 0
    <3>1. local[t].ret \in {"confirm", "cwake", "idle", "d_flag"}
      BY <1>2, ZenonT(60) DEF ControlOK, ControlAt, Signalling
    <3>2. pc'[t] = local[t].ret
      BY <2>1, <3>1, ReturnEffect, ZenonT(60) DEF quiesce_switch, PC, Waiting
    <3> QED
      BY <2>1, <3>1, <3>2, ZenonT(60) DEF quiesce_switch, Grouped, Locking, Quiescing
  <2>2. CASE g_size[g2] + (wseq - g1_start[1]) # 0
    <3>1. lock' = lock /\ Goto(t, "s_add") /\ Set(t, "g1", g2)
      BY <2>2, ZenonT(60) DEF quiesce_switch
    <3>2. pc'[t] = "s_add"
      BY <3>1, GotoEffect, ZenonT(60) DEF PC, Signalling
    <3>3. local'[t].g1 = g2
      BY <3>1, SMTT(60) DEF Set, Types, Locals
    <3> QED
      BY <1>1, <2>2, <3>1, <3>2, <3>3, GroupTypes, ZenonT(60)
  <2> QED
    BY <2>1, <2>2, ZenonT(60)
<1>4. pc[t] \in Locking /\ pc'[t] \notin Grouped /\ pc'[t] \notin Open
  BY <1>2, <1>3, ZenonT(60) DEF Locking, Quiescing, Grouped, Open
<1>5. /\ lock = t /\ t # Nobody /\ \A L : Holder(L) <=> pc[t] \in L
  BY <1>4, HolderSteps, ZenonT(60)
<1>6. \A L : Holder(L)' => "s_add" \in L
  BY <1>3, <1>5, ZenonT(60) DEF Holder
<1>7. End = g1_start[1] /\ End' = wseq
  <2>1. ~Moved' /\ Moved
    BY <1>2, <1>5, <1>6, ZenonT(60) DEF Moved
  <2> QED
    BY <1>1, <2>1, GroupTypes, SMTT(60) DEF End
<1>8. LockOK'
  BY <1>1, <1>3, <1>4, <1>5, GroupTypes, ZenonT(60) DEF LockOK, Others, Locking, Quiescing
<1>9. PositionOK'
  <2>1. ASSUME NEW u \in Threads, pc'[u] \in Grouped PROVE PositionAt(u)'
    <3>1. pc'[u] = pc[u] /\ local'[u] = local[u] /\ PositionAt(u)
      BY <1>4, <2>1, ZenonT(60) DEF Others, PositionOK
    <3> QED
      BY <1>1, <1>7, <3>1, ZenonT(60) DEF PositionAt
  <2>2. 0 <= wseq - g1_start[1]
    BY <1>7, GroupTypes, SMTT(60) DEF PositionOK
  <2> QED
    BY <1>1, <1>7, <2>1, <2>2, GroupTypes, SMTT(60) DEF PositionOK
<1>10. ClosedOK'
  BY <1>6, ZenonT(60) DEF ClosedOK
<1>11. SizeOK'
  <2>1. Newcomers' = {}
    <3>1. ASSUME NEW u \in Threads, pc'[u] \in Grouped
          PROVE  ~(local'[u].seq >= End')
      <4>1. local'[u] = local[u] /\ PositionAt(u)
        BY <1>4, <3>1, ZenonT(60) DEF Others, PositionOK
      <4> QED
        BY <1>7, <4>1, GroupTypes, SMTT(60) DEF PositionAt
    <3> QED
      BY <3>1, ZenonT(60) DEF Newcomers
  <2>2. IsFiniteSet({}) /\ Cardinality({}) = 0
    BY FS_EmptySet, ZenonT(60)
  <2>3. g_size[G1] = 0
    BY <1>2, <1>5, ZenonT(60) DEF SizeOK, Quiescing
  <2>4. g_size[g2] <= 0 /\ 0 <= wseq - End + g_size[g2]
    <3>1. Cardinality(Newcomers) \in Nat
      BY FS_CardinalityType, ZenonT(60) DEF SizeOK
    <3> QED
      BY <3>1, GroupTypes, SMTT(60) DEF SizeOK
  <2>5. 0 <= g_size'[g2] /\ g_size'[g2] <= wseq - g1_start[1]
    BY <1>1, <1>7, <2>4, GroupTypes, SMTT(60)
  <2>6. Holder({"s_add"})' => g_size'[g2] > 0
    BY <1>1, <1>3, <2>5, GroupTypes, SMTT(60) DEF Holder
  <2>7. ~Holder(Quiescing \cup {"b_wake"})'
    BY <1>6, ZenonT(60) DEF Quiescing
  <2>8. g_size'[g2'] <= 0 /\ Cardinality(Newcomers') <= wseq' - End' + g_size'[g2']
    BY <1>1, <1>7, <2>1, <2>2, <2>3, GroupTypes, SMTT(60)
  <2> QED
    BY <1>1, <2>1, <2>2, <2>5, <2>6, <2>7, <2>8, ZenonT(60) DEF SizeOK
<1> QED
  BY <1>8, <1>9, <1>10, <1>11, ZenonT(60)
-----------------------------------------------------------------------------
(* A step that changes neither the condition variable's groups nor any      *)
(* thread: stuttering and the return of a futex call on its own.            *)
LEMMA IdleStep ==
  ASSUME IInv, UNCHANGED <<sequence, lock, groups, gSleepers, local, pc>>
  PROVE  SleepOK' /\ RefsOK' /\ GroupsOK'
<1>1. /\ wseq' = wseq /\ g2' = g2 /\ g1_start' = g1_start /\ orig_size' = orig_size
      /\ lock' = lock /\ g_refs' = g_refs /\ g_signals' = g_signals /\ g_size' = g_size
      /\ gSleepers' = gSleepers /\ local' = local /\ pc' = pc /\ G1' = G1
  BY ZenonT(60) DEF sequence, groups, G1
<1>2. (\A L : Holder(L)' <=> Holder(L)) /\ End' = End
  BY <1>1, ZenonT(60) DEF Holder, End, Moved
<1>3. Newcomers' = Newcomers
  BY <1>1, <1>2, ZenonT(60) DEF Newcomers
<1>4. \A k : Refs(k)' = Refs(k)
  BY <1>1, ZenonT(60) DEF Refs
<1>5. SleepOK' /\ RefsOK' /\ LockOK'
  BY <1>1, <1>4, ZenonT(60) DEF IInv, SleepOK, RefsOK, LockOK
<1>6. PositionOK' /\ ClosedOK' /\ SizeOK'
  BY <1>1, <1>2, <1>3, ZenonT(60) DEF IInv, PositionOK, PositionAt, ClosedOK, SizeOK
<1> QED
  BY <1>5, <1>6, ZenonT(60) DEF GroupsOK

(* Every step keeps the inductive invariant.                                *)
LEMMA StepIInv ==
  ASSUME IInv, [Next]_vars
  PROVE  IInv'
<1>1. ControlOK' /\ WrefsOK'
  BY StepControl, ZenonT(60) DEF IInv
<1> SUFFICES Types' /\ SleepOK' /\ RefsOK' /\ GroupsOK'
  BY <1>1, ZenonT(60) DEF IInv, GroupsOK
<1> USE DEF IInv, GroupsOK
<1>2. CASE UNCHANGED vars
  <2>1. Types'
    BY <1>2, ZenonT(60) DEF vars, sequence, groups, references, client, Types
  <2> QED
    BY <1>2, <2>1, IdleStep, ZenonT(60) DEF vars, queues
<1>3. ASSUME NEW t \in Threads, Waiter(t) \/ \E f \in Faults : Fault(t, f)
      PROVE  Types' /\ SleepOK' /\ RefsOK' /\ GroupsOK'
  <2>1. Types' /\ Others(t)
    BY <1>3, WaiterTypes, OtherTypes, ZenonT(60)
  <2>2. SleepMove(t) /\ RefsMove(t) /\ (Quiet(t) \/ Shrink(t))
    BY <1>3, WaiterQuiet, ZenonT(60)
  <2>3. GroupsOK'
    BY <2>1, <2>2, QuietGroups, ShrinkGroups, ZenonT(60)
  <2> QED
    BY <2>1, <2>2, <2>3, RefsKept, ZenonT(60)
<1>4. ASSUME NEW t \in Threads, Signaler(t)
      PROVE  Types' /\ SleepOK' /\ RefsOK' /\ GroupsOK'
  <2>1. Types' /\ Others(t)
    BY <1>4, SignalerTypes, ZenonT(60)
  <2>2. SleepMove(t) /\ RefsMove(t)
    BY <1>4, SignalerRefs, ZenonT(60)
  <2>3. GroupsOK'
    <3>1. \/ Quiet(t) \/ Take(t) \/ Hold(t) \/ Drop(t)
          \/ quiesce_start(t) \/ quiesce_switch(t)
      BY <1>4, SignalerGroups, ZenonT(60)
    <3> QED
      BY <2>1, <3>1, QuietGroups, TakeGroups, HoldGroups, DropGroups, StartGroups,
         SwitchGroups, ZenonT(60)
  <2> QED
    BY <2>1, <2>2, <2>3, RefsKept, ZenonT(60)
<1>5. ASSUME NEW t \in Threads, Destroyer(t) \/ Client(t)
      PROVE  Types' /\ SleepOK' /\ RefsOK' /\ GroupsOK'
  <2>1. Types' /\ Others(t)
    BY <1>5, OtherTypes, ZenonT(60)
  <2>2. SleepMove(t) /\ RefsMove(t) /\ (Quiet(t) \/ Wait(t))
    BY <1>5, OtherQuiet, ZenonT(60)
  <2>3. GroupsOK'
    BY <2>1, <2>2, QuietGroups, EnterGroups, ZenonT(60)
  <2> QED
    BY <2>1, <2>2, <2>3, RefsKept, ZenonT(60)
<1>6. ASSUME NEW t \in Threads, simple_spurious(t)
      PROVE  Types' /\ SleepOK' /\ RefsOK' /\ GroupsOK'
  <2>1. Types'
    BY <1>6, OtherTypes, ZenonT(60)
  <2> QED
    BY <1>6, <2>1, IdleStep, ZenonT(60) DEF simple_spurious
<1> QED
  BY <1>2, <1>3, <1>4, <1>5, <1>6, ZenonT(60) DEF Next

(* PTHREAD_COND_INITIALIZER satisfies it.                                   *)
LEMMA InitIInv == Init => IInv
<1> SUFFICES ASSUME Init PROVE IInv
  BY ZenonT(60)
<1>n. Nobody \notin Threads
  BY ClientAssumption, ZenonT(60)
<1>1. Types
  BY FreshType, SMTT(60) DEF Init, Types, Slots, PC
<1>2. \A t \in Threads : pc[t] = "idle" /\ local[t].ret = "idle"
  BY ZenonT(60) DEF Init, Fresh
<1>3. ControlOK
  BY <1>2, ZenonT(60) DEF Init, ControlOK, ControlAt, Threads, Signalling, Destroying,
     DestroyWaits
<1>4. InWait = {} /\ (\A k : Refs(k) = {}) /\ Newcomers = {}
  BY <1>2, ZenonT(60) DEF InWait, Refs, Newcomers, Threads, Waiting, Signalling, Referring,
     Grouped
<1>5. IsFiniteSet({}) /\ Cardinality({}) = 0
  BY FS_EmptySet, ZenonT(60)
<1>6. WrefsOK /\ SleepOK /\ RefsOK
  BY <1>4, <1>5, ZenonT(60) DEF Init, WrefsOK, SleepOK, RefsOK
<1>7. \A L : ~Holder(L)
  BY ZenonT(60) DEF Init, Holder
<1>8. LockOK
  BY <1>2, <1>n, ZenonT(60) DEF Init, LockOK, Locking, Quiescing
<1>9. End = 0
  BY <1>7, SMTT(60) DEF Init, End, Moved
<1>10. PositionOK
  BY <1>2, <1>9, SMTT(60) DEF Init, PositionOK, Grouped
<1>11. ClosedOK
  BY <1>7, ZenonT(60) DEF ClosedOK
<1>12. g_size[g2] = 0 /\ g_size[G1] = 0 /\ wseq = 0 /\ orig_size = 0
  BY SMTT(60) DEF Init, G1, Slots
<1>13. SizeOK
  BY <1>4, <1>5, <1>7, <1>9, <1>12, SMTT(60) DEF SizeOK
<1> QED
  BY <1>1, <1>3, <1>6, <1>8, <1>10, <1>11, <1>13, ZenonT(60) DEF IInv

(* The inductive invariant holds in every reachable state.                  *)
THEOREM AlwaysIInv == Spec => []IInv
BY InitIInv, StepIInv, PTL DEF Spec

(* No waiter is blocked in a group older than G1: a group is quiesced, all  *)
(* its waiters out of the kernel, before __condvar_quiesce_and_switch_g1    *)
(* moves __g1_start and reuses the slot.                                    *)
THEOREM NeverStaleSleeper == Spec => []NoStaleSleeper
<1>1. IInv => NoStaleSleeper
  BY ZenonT(60) DEF IInv, SleepOK, PositionOK, PositionAt, NoStaleSleeper, Grouped, Blocking
<1> QED
  BY <1>1, AlwaysIInv, PTL

(* Whenever the internal lock is free the sizes are those of groups: what   *)
(* is left to signal in G1 is at most its size, and the waiters subtracted  *)
(* from G2 are at most those that entered it.  The unsigned subtractions of *)
(* __condvar_cancel_waiting and the test of an empty G2 do not wrap.        *)
THEOREM SizesAlwaysSound == Spec => []SizesSound
<1>1. ASSUME IInv, lock = Nobody
      PROVE  /\ g_size[G1] \in 0..orig_size /\ g_size[g2] <= 0
             /\ wseq - g1_start[1] - orig_size + g_size[g2] >= 0
  <2>1. End = g1_start[1] + orig_size
    BY <1>1, ZenonT(60) DEF End, Moved, Holder
  <2>2. Cardinality(Newcomers) \in Nat
    BY <1>1, FS_CardinalityType, ZenonT(60) DEF IInv, SizeOK
  <2>3. /\ wseq \in Int /\ orig_size \in Int /\ g1_start[1] \in Int
        /\ g_size[G1] \in Int /\ g_size[g2] \in Int
    BY <1>1, GroupTypes, ZenonT(60) DEF IInv
  <2>4. /\ 0 <= g_size[G1] /\ g_size[G1] <= orig_size /\ g_size[g2] <= 0
        /\ Cardinality(Newcomers) <= wseq - End + g_size[g2]
    BY <1>1, ZenonT(60) DEF IInv, SizeOK
  <2> QED
    BY <2>1, <2>2, <2>3, <2>4, SMTT(60)
<1>2. IInv => SizesSound
  BY <1>1, ZenonT(60) DEF SizesSound
<1> QED
  BY <1>2, AlwaysIInv, PTL

(* pthread_cond_destroy returns only when every thread has made its last    *)
(* access to the condition variable, signals performed by waiters included. *)
THEOREM DestroyAlwaysWaits == Spec => []DestroyWaitsForAll
<1>1. IInv => DestroyWaitsForAll
  BY ZenonT(60) DEF IInv, ControlOK, ControlAt, DestroyWaitsForAll
<1> QED
  BY <1>1, AlwaysIInv, PTL
=============================================================================
