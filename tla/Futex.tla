------------------------------- MODULE Futex -------------------------------
(***************************************************************************)
(* The blocking primitive every nptl object is built on, as described by   *)
(* sysdeps/nptl/futex-internal.h.  The kernel keeps, for a futex word, the *)
(* set of threads blocked on it.                                           *)
(*                                                                         *)
(*   futex_wait (w, expected)  atomically compares the word with expected  *)
(*     and either returns EAGAIN or adds the caller to the set;            *)
(*   futex_wake (w, n)  removes min(n, size) members, the kernel choosing  *)
(*     which; the removed threads return 0 from futex_wait later on;       *)
(*   a blocked thread may also leave on its own: EINTR, a spurious wake-up *)
(*     (return 0) or, in the timed variants, ETIMEDOUT.                    *)
(*                                                                         *)
(* A thread's place in a module is its program counter; it is "blocked" in *)
(* the kernel exactly while it is in the set.                              *)
(***************************************************************************)

EXTENDS Naturals, FiniteSets

(* The sets that may remain after futex_wake (w, n).  *)
FutexWake(queue, n) ==
  { rest \in SUBSET queue :
      Cardinality(rest) = IF Cardinality(queue) > n
                            THEN Cardinality(queue) - n ELSE 0 }

(* The sets that may remain after futex_wake (w, 1).  *)
FutexWakeOne(queue) ==
  IF queue = {} THEN { {} } ELSE { queue \ {t} : t \in queue }

(* The set that remains after futex_wake (w, INT_MAX).  *)
FutexWakeAll(queue) == {}

(* The set after futex_wait by t on a word holding val.  *)
FutexWaitQueue(queue, t, val, expected) ==
  IF val = expected THEN queue \cup {t} ELSE queue
=============================================================================
