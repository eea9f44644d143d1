--------------------------- MODULE AbstractRWLock ---------------------------
(***************************************************************************)
(* What a reader-writer lock promises its clients: any number of read      *)
(* locks, or one write lock and no read lock; a thread that asks may give  *)
(* up; and the lock is not left available for ever to readers, nor idle    *)
(* for ever, while somebody is asking for it.                              *)
(***************************************************************************)
EXTENDS Naturals

CONSTANTS Threads, Nobody

VARIABLES
  depth,    \* the read locks each thread has
  writer,   \* the thread that has the write lock, or Nobody
  reading,  \* the threads waiting for a read lock
  writing   \* the threads waiting for the write lock

avars == <<depth, writer, reading, writing>>

AInit ==
  /\ depth = [t \in Threads |-> 0]
  /\ writer = Nobody
  /\ reading = {} /\ writing = {}

Ask(t) ==
  /\ t \notin reading \cup writing
  /\ \/ reading' = reading \cup {t} /\ UNCHANGED writing
     \/ writing' = writing \cup {t} /\ UNCHANGED reading
  /\ UNCHANGED <<depth, writer>>

AcquireRead(t) ==
  /\ writer = Nobody
  /\ depth' = [depth EXCEPT ![t] = @ + 1]
  /\ reading' = reading \ {t}
  /\ UNCHANGED <<writer, writing>>

AcquireWrite(t) ==
  /\ writer = Nobody
  /\ \A u \in Threads : depth[u] = 0
  /\ writer' = t
  /\ writing' = writing \ {t}
  /\ UNCHANGED <<depth, reading>>

GiveUp(t) ==
  /\ t \in reading \cup writing
  /\ reading' = reading \ {t} /\ writing' = writing \ {t}
  /\ UNCHANGED <<depth, writer>>

Release(t) ==
  /\ \/ writer = t /\ writer' = Nobody /\ UNCHANGED depth
     \/ depth[t] > 0 /\ depth' = [depth EXCEPT ![t] = @ - 1] /\ UNCHANGED writer
  /\ UNCHANGED <<reading, writing>>

ANext ==
  \E t \in Threads :
    Ask(t) \/ AcquireRead(t) \/ AcquireWrite(t) \/ GiveUp(t) \/ Release(t)

ASpec == AInit /\ [][ANext]_avars

(* A lock that stays available does not leave those who wait for it waiting *)
(* for ever: one of them takes it or gives up.  Readers may be made to wait *)
(* for a writer that waits.                                                 *)
ReadAnswered ==
  writer = Nobody /\ writing = {} /\ \E t \in reading : AcquireRead(t) \/ GiveUp(t)

WriteAnswered ==
  /\ writer = Nobody /\ \A u \in Threads : depth[u] = 0
  /\ \E t \in writing : AcquireWrite(t) \/ GiveUp(t)

ALive == WF_avars(ReadAnswered) /\ WF_avars(WriteAnswered)
=============================================================================
