------------------------------- MODULE Mutex -------------------------------
(***************************************************************************)
(* pthread mutexes of every kind that does not need a kernel's             *)
(* priority-inheritance futex or a scheduler: __pthread_mutex_lock and its *)
(* companions handle the plain kinds (PlainMutex) and pass the robust ones *)
(* on to __pthread_mutex_lock_full and its companions (RobustMutex).       *)
(***************************************************************************)
EXTENDS PlainMutex

CONSTANT RobustKinds   \* the values of __kind with the robust bit under test

ASSUME RobustAssumption ==
  RobustKinds \subseteq {"robust_normal", "robust_errorcheck", "robust_recursive"}

(* PTHREAD_MUTEX_INCONSISTENT and PTHREAD_MUTEX_NOTRECOVERABLE, INT_MAX and *)
(* INT_MAX - 1, are not thread IDs.                                         *)
ASSUME ThreadIDAssumption ==
  (Threads \cup {NoOwner}) \cap {"inconsistent", "notrecoverable"} = {}

VARIABLES word, queue, at, me, torn   \* see RobustMutex

R == INSTANCE RobustMutex

robust == <<word, queue, at, me, torn>>
plain == <<vars, nusers, stage, inwait>>
allvars == <<mvars, robust>>

AnyInit == Init /\ kind \in Kinds \cup RobustKinds /\ FieldsInit /\ R!RInit

(* The switch on PTHREAD_MUTEX_TYPE_ELISION.                                *)
IsPlain == kind \in Kinds

AnyStep(t) ==
  \/ IsPlain /\ MutexStep(t) /\ UNCHANGED robust
  \/ ~IsPlain /\ R!RobustStep(t) /\ UNCHANGED plain

AnyNext ==
  \/ IsPlain /\ MutexNext /\ UNCHANGED robust
  \/ ~IsPlain /\ R!RobustNext /\ UNCHANGED plain

AnySpec == AnyInit /\ [][AnyNext]_allvars

AnyFairSpec == AnySpec /\ \A t \in Threads : WF_allvars(AnyStep(t))
-----------------------------------------------------------------------------
(* The word of a robust mutex does not keep the ID of a dead thread.        *)
DeathNoticed == R!DeathNoticed

(* Half-modified data are not presented as consistent.                      *)
TornKnown == R!TornKnown

(* Threads do not stay blocked on a robust mutex that can be had.           *)
RobustAnswered == R!RobustAnswered
=============================================================================
