------------------------------ MODULE Threads ------------------------------
(***************************************************************************)
(* The life of threads: creation, cancellation, exit, join, detach, the    *)
(* reuse of their control blocks, and the set*id functions, which make     *)
(* every thread of the process change its user or group IDs.               *)
(*                                                                         *)
(*   nptl/pthread_create.c      create_thread, start_thread                *)
(*   nptl/allocatestack.c, nptl-stack.c, nptl_free_tcb.c                   *)
(*   nptl/pthread_join_common.c, pthread_detach.c, pthread_tryjoin.c       *)
(*   nptl/pthread_cancel.c, cancellation.c, pthread_setcanceltype.c,       *)
(*   pthread_setcancelstate.c, pthread_testcancel.c, pthread_exit.c        *)
(*   nptl/nptl_setxid.c                                                    *)
(*                                                                         *)
(* A thread is named by its control block (TCB, struct pthread).  The main *)
(* thread does not exit.  A TCB that is freed is put on the stack cache    *)
(* and can be given to another thread.  Critical sections of pd->lock,     *)
(* exit_lock and, but for __nptl_setxid, dl_stack_cache_lock are single    *)
(* steps.  The client uses a thread ID only while it is valid and joins or *)
(* detaches a thread at most once.                                         *)
(***************************************************************************)
EXTENDS Integers, FiniteSets, Futex

CONSTANTS
  Main,       \* the initial thread
  Pool,       \* the TCBs that there is memory for
  NoThread,
  Callers,    \* the threads that create, join, detach and cancel others
  Setters,    \* the threads that call set*id functions
  Cancelable, \* those that are cancelled, set how they are, and call pthread_exit
  MaxCreate,  \* how often pthread_create is called
  MaxSetxid   \* how often set*id functions are called

Threads == {Main} \cup Pool

ASSUME ThreadsAssumption ==
  /\ Main \notin Pool /\ NoThread \notin Threads
  /\ Callers \subseteq Threads /\ Setters \subseteq Threads /\ Cancelable \subseteq Pool
  /\ MaxCreate \in Nat /\ MaxSetxid \in Nat

VARIABLES
  pc,        \* where the thread is that runs on each TCB
  arg,       \* the TCB that each thread operates on
  tid,       \* its tid field: "zero", "live", or "joined" for -1
  detached,  \* the TCBs whose joinid is their own address
  bits,      \* its cancelhandling field
  sxf,       \* its setxid_futex field
  startup,   \* stopped_start and pd->lock, setup_failed
  exiting,   \* the TCBs whose exiting field is set
  inuse,     \* the lists dl_stack_used and dl_stack_user
  cache,     \* the list dl_stack_cache
  lock,      \* the thread in __nptl_setxid, which holds dl_stack_cache_lock
  cmd,       \* xidcmd: id and cntr; todo: the rest of the list; signalled
  nthreads,  \* __nptl_nthreads
  sleepers,  \* threads blocked by the kernel on each setxid_futex
  sig,       \* pending signals
  cred,      \* the ID of each thread that the kernel runs
  issued,    \* the ID that the last set*id function set
  valid,     \* the thread IDs that the client may join or detach
  created,   \* the number of calls of pthread_create
  stale      \* a TCB has been reused while pthread_detach still operated on it

tcb == <<tid, detached, bits, sxf, startup, exiting>>
stacks == <<inuse, cache, nthreads>>
kernel == <<sleepers, sig, cred>>
setxid == <<lock, cmd, issued>>
client == <<valid, created, stale>>
tvars == <<pc, arg, tcb, stacks, kernel, setxid, client>>

Init ==
  /\ pc = [t \in Threads |-> IF t = Main THEN "run" ELSE "none"]
  /\ arg = [t \in Threads |-> NoThread]
  /\ tid = [t \in Threads |-> IF t = Main THEN "live" ELSE "zero"]
  /\ detached = {} /\ exiting = {}
  /\ bits = [t \in Threads |-> {}]
  /\ sxf = [t \in Threads |-> 0]
  /\ startup = [t \in Threads |-> "go"]
  /\ inuse = {Main} /\ cache = {} /\ nthreads = 1
  /\ sleepers = [t \in Threads |-> {}] /\ sig = [t \in Threads |-> {}]
  /\ cred = [t \in Threads |-> 0]
  /\ lock = NoThread
  /\ cmd = [id |-> 0, cntr |-> 0, todo |-> {}, signalled |-> FALSE]
  /\ issued = 0
  /\ valid = {} /\ created = 0 /\ stale = FALSE

Goto(t, l) == pc' = [pc EXCEPT ![t] = l]

Return(t) ==
  /\ Goto(t, "run")
  /\ arg' = [arg EXCEPT ![t] = NoThread]

(* A thread in its own code.  Functions other than those of cancellation    *)
(* are not safe under asynchronous cancellation.                            *)
Calls(t) == pc[t] = "run" /\ "async" \notin bits[t]

(* cancel_enabled_and_canceled.                                             *)
Canceled(b) ==
  "canceled" \in b /\ b \cap {"disabled", "exiting", "terminated"} = {}

(* Set EXITING: the bits that control cancellation mean nothing any more    *)
(* and are not kept.                                                        *)
Exiting(b) == (b \cap {"setxid"}) \cup {"exiting"}

(* __do_cancel, of pthread_exit and of cancellation.                        *)
DoCancel(t, b) ==
  /\ bits' = [bits EXCEPT ![t] = Exiting(b)]
  /\ Goto(t, "unwind")
-----------------------------------------------------------------------------
(* allocate_stack takes a cached stack that no thread uses, or a new one if *)
(* there is none.  All stacks have the same size.                           *)
Allocatable ==
  LET reusable == {p \in cache : tid[p] # "live"} IN
  IF reusable # {} THEN reusable ELSE Pool \ (inuse \cup cache)

(* pthread_create.  Signals are blocked until it returns.                   *)
create_alloc(t) ==
  /\ Calls(t) /\ t \in Callers /\ created < MaxCreate
  /\ lock = NoThread
  /\ \E p \in Allocatable, d \in BOOLEAN, s \in {"go", "stopped"} :
       /\ inuse' = inuse \cup {p} /\ cache' = cache \ {p}
       /\ sxf' = [sxf EXCEPT ![p] = -1]
       /\ bits' = [bits EXCEPT ![p] = {}]
       /\ exiting' = exiting \ {p}
       /\ detached' = IF d THEN detached \cup {p} ELSE detached \ {p}
       /\ startup' = [startup EXCEPT ![p] = s]
       /\ arg' = [arg EXCEPT ![t] = p]
       /\ stale' = (stale \/ \E u \in Threads : pc[u] \in {"detach", "detach_free"} /\ arg[u] = p)
  /\ nthreads' = nthreads + 1
  /\ created' = created + 1
  /\ Goto(t, "clone")
  /\ UNCHANGED <<tid, kernel, setxid, valid>>

(* The client may use the thread ID as soon as the thread runs its code, if *)
(* the thread is joinable.                                                  *)
Publish(p) == valid' = IF p \in detached THEN valid ELSE valid \cup {p}

create_clone(t) ==
  /\ pc[t] = "clone"
  /\ LET p == arg[t] IN
       \/ /\ tid' = [tid EXCEPT ![p] = "live"]
          /\ cred' = [cred EXCEPT ![p] = cred[t]]
          /\ pc' = [pc EXCEPT ![t] = IF startup[p] = "go" THEN "run" ELSE "setup",
                              ![p] = "start"]
          /\ IF startup[p] = "go"
               THEN Publish(p) /\ arg' = [arg EXCEPT ![t] = NoThread]
               ELSE UNCHANGED <<valid, arg>>
       \/ Goto(t, "create_failed") /\ UNCHANGED <<arg, tid, cred, valid>>
  /\ UNCHANGED <<detached, bits, sxf, startup, exiting, stacks, sleepers, sig,
                 setxid, created, stale>>

(* The new thread is stopped: set its affinity and scheduling parameters,   *)
(* and release pd->lock.                                                    *)
create_setup(t) ==
  /\ pc[t] = "setup"
  /\ \/ /\ startup' = [startup EXCEPT ![arg[t]] = "go"]
        /\ Publish(arg[t])
        /\ Return(t)
     \/ /\ startup' = [startup EXCEPT ![arg[t]] = "failed"]
        /\ Goto(t, "create_wait")
        /\ UNCHANGED <<arg, valid>>
  /\ UNCHANGED <<tid, detached, bits, sxf, exiting, stacks, kernel, setxid,
                 created, stale>>

(* Setup failed: wait for the thread to exit early.                         *)
create_wait(t) ==
  /\ pc[t] = "create_wait" /\ tid[arg[t]] = "zero"
  /\ Goto(t, "create_failed")
  /\ UNCHANGED <<arg, tcb, stacks, kernel, setxid, client>>

(* The wait is a cancellation point: nobody frees the TCB then.             *)
create_cancel(t) ==
  /\ pc[t] = "create_wait" /\ Canceled(bits[t])
  /\ DoCancel(t, bits[t])
  /\ arg' = [arg EXCEPT ![t] = NoThread]
  /\ UNCHANGED <<tid, detached, sxf, startup, exiting, stacks, kernel, setxid, client>>

(* __nptl_deallocate_stack.                                                 *)
Deallocate(p) ==
  /\ lock = NoThread
  /\ inuse' = inuse \ {p} /\ cache' = cache \cup {p}

(* Mutant: __nptl_nthreads is not decremented.                              *)
create_failed_counted(t) ==
  /\ pc[t] = "create_failed"
  /\ Deallocate(arg[t])
  /\ Return(t)
  /\ UNCHANGED <<nthreads, tcb, kernel, setxid, client>>

create_failed(t) ==
  /\ pc[t] = "create_failed"
  /\ Deallocate(arg[t])
  /\ nthreads' = nthreads - 1
  /\ Return(t)
  /\ UNCHANGED <<tcb, kernel, setxid, client>>
-----------------------------------------------------------------------------
(* start_thread: a stopped thread waits for its creator, and exits at once  *)
(* if that could not set it up.                                             *)
start_failed(t) ==
  /\ pc[t] = "start" /\ startup[t] = "failed"
  /\ detached' = detached \ {t}
  /\ Goto(t, "exit")
  /\ UNCHANGED <<arg, tid, bits, sxf, startup, exiting, stacks, kernel, setxid, client>>

(* Allow setxid from now onwards, and unblock signals.                      *)
start_allow(t) ==
  /\ pc[t] = "start" /\ startup[t] = "go"
  /\ sxf' = [sxf EXCEPT ![t] = 0]
  /\ sleepers' = [sleepers EXCEPT ![t] = IF sxf[t] = -2 THEN {} ELSE @]
  /\ Goto(t, "run")
  /\ UNCHANGED <<arg, tid, detached, bits, startup, exiting, stacks, sig, cred, setxid,
                 client>>

(* The start routine returns; or pthread_exit.                              *)
thread_return(t) ==
  /\ t # Main /\ pc[t] = "run"
  /\ bits' = [bits EXCEPT ![t] = Exiting(@)]
  /\ nthreads' = nthreads - 1
  /\ Goto(t, "leave")
  /\ UNCHANGED <<arg, tid, detached, sxf, startup, exiting, inuse, cache, kernel, setxid,
                 client>>

pthread_exit(t) ==
  /\ t \in Cancelable /\ Calls(t)
  /\ DoCancel(t, bits[t])
  /\ UNCHANGED <<arg, tid, detached, sxf, startup, exiting, stacks, kernel, setxid, client>>

(* setjmp returns again, and the exchange of setxid_futex is repeated.      *)
unwind(t) ==
  /\ pc[t] = "unwind"
  /\ sxf' = [sxf EXCEPT ![t] = 0]
  /\ nthreads' = nthreads - 1
  /\ Goto(t, "leave")
  /\ UNCHANGED <<arg, tid, detached, bits, startup, exiting, inuse, cache, kernel, setxid,
                 client>>

(* Block all signals but SIGSETXID, and tell pthread_kill.                  *)
leave(t) ==
  /\ pc[t] = "leave"
  /\ exiting' = exiting \cup {t}
  /\ Goto(t, "handshake")
  /\ UNCHANGED <<arg, tid, detached, bits, sxf, startup, stacks, kernel, setxid, client>>

(* Some other thread might call any of the setXid functions and expect us   *)
(* to reply.  In this case wait until we did that.                          *)
handshake(t) ==
  /\ pc[t] = "handshake" /\ "setxid" \in bits[t]
  /\ Goto(t, "exit_wait")
  /\ UNCHANGED <<arg, tcb, stacks, kernel, setxid, client>>

exit_wait(t) ==
  /\ pc[t] = "exit_wait"
  /\ sleepers' = [sleepers EXCEPT ![t] = FutexWaitQueue(@, t, sxf[t], 0)]
  /\ Goto(t, IF sxf[t] = 0 THEN "exit_sleep" ELSE "exit_check")
  /\ UNCHANGED <<arg, tcb, stacks, sig, cred, setxid, client>>

exit_check(t) ==
  /\ \/ pc[t] = "exit_check"
     \/ pc[t] = "exit_sleep" /\ t \notin sleepers[t]
  /\ IF "setxid" \in bits[t]
       THEN Goto(t, "exit_wait") /\ UNCHANGED sxf
       ELSE Goto(t, "reap") /\ sxf' = [sxf EXCEPT ![t] = 0]
  /\ UNCHANGED <<arg, tid, detached, bits, startup, exiting, stacks, kernel, setxid, client>>

(* __nptl_free_tcb, by thread t: each TCB is freed only once.               *)
FreeTCB(t, p) ==
  /\ bits' = [bits EXCEPT ![p] = @ \cup {"terminated"}]
  /\ IF "terminated" \notin bits[p]
       THEN Goto(t, "free") /\ UNCHANGED arg
       ELSE IF arg[t] = NoThread THEN Goto(t, "exit") /\ UNCHANGED arg
                                 ELSE Return(t)

(* Mutant: without regard to IS_DETACHED.                                   *)
reap_joinable(t) ==
  /\ \/ pc[t] = "reap"
     \/ pc[t] = "handshake" /\ "setxid" \notin bits[t]
  /\ FreeTCB(t, t)
  /\ UNCHANGED <<tid, detached, sxf, startup, exiting, stacks, kernel, setxid, client>>

(* If the thread is detached free the TCB.                                  *)
reap(t) ==
  /\ \/ pc[t] = "reap"
     \/ pc[t] = "handshake" /\ "setxid" \notin bits[t]
  /\ IF t \in detached
       THEN FreeTCB(t, t)
       ELSE Goto(t, "exit") /\ UNCHANGED <<arg, bits>>
  /\ UNCHANGED <<tid, detached, sxf, startup, exiting, stacks, kernel, setxid, client>>

(* The rest of __nptl_free_tcb.                                             *)
free(t) ==
  /\ pc[t] = "free"
  /\ LET self == arg[t] = NoThread IN
       /\ Deallocate(IF self THEN t ELSE arg[t])
       /\ IF self THEN Goto(t, "exit") /\ UNCHANGED arg ELSE Return(t)
  /\ UNCHANGED <<tcb, nthreads, kernel, setxid, client>>

(* The exit system call: CLONE_CHILD_CLEARTID.                              *)
exit(t) ==
  /\ pc[t] = "exit"
  /\ Goto(t, "none")
  /\ tid' = [tid EXCEPT ![t] = "zero"]
  /\ sig' = [sig EXCEPT ![t] = {}]
  /\ cred' = [cred EXCEPT ![t] = 0]
  /\ UNCHANGED <<arg, detached, bits, sxf, startup, exiting, stacks, sleepers, setxid, client>>
-----------------------------------------------------------------------------
(* __pthread_clockjoin_ex.  Its compare-and-swap of joinid changes nothing, *)
(* because it expects the caller and not NULL.                              *)
join(t) ==
  /\ Calls(t) /\ t \in Callers
  /\ \E p \in valid \ {t} :
       /\ tid[p] # "joined" /\ p \notin detached
       /\ valid' = valid \ {p}
       /\ arg' = [arg EXCEPT ![t] = p]
  /\ Goto(t, "join")
  /\ UNCHANGED <<tcb, stacks, kernel, setxid, created, stale>>

join_wait(t) ==
  /\ pc[t] = "join" /\ tid[arg[t]] = "zero"
  /\ tid' = [tid EXCEPT ![arg[t]] = "joined"]
  /\ FreeTCB(t, arg[t])
  /\ UNCHANGED <<detached, sxf, startup, exiting, stacks, kernel, setxid, client>>

(* The timeout of pthread_timedjoin_np; also pthread_tryjoin_np's EBUSY.    *)
join_timeout(t) ==
  /\ pc[t] = "join"
  /\ Return(t)
  /\ valid' = valid \cup {arg[t]}
  /\ detached' = detached \ {arg[t]}
  /\ UNCHANGED <<tid, bits, sxf, startup, exiting, stacks, kernel, setxid, created, stale>>

(* Cancellation of the wait; the cleanup handler changes nothing either.    *)
join_cancel(t) ==
  /\ pc[t] = "join" /\ Canceled(bits[t])
  /\ DoCancel(t, bits[t])
  /\ arg' = [arg EXCEPT ![t] = NoThread]
  /\ valid' = valid \cup {arg[t]}
  /\ UNCHANGED <<tid, detached, sxf, startup, exiting, stacks, kernel, setxid, created, stale>>

(* pthread_detach, of any thread or the caller itself: compare and swap     *)
(* joinid; check whether the thread terminated meanwhile; free the TCB.     *)
detach(t) ==
  /\ Calls(t)
  /\ \E p \in valid :
       /\ t \in Callers \/ p = t
       /\ p \notin detached
       /\ detached' = detached \cup {p}
       /\ valid' = valid \ {p}
       /\ arg' = [arg EXCEPT ![t] = p]
  /\ Goto(t, "detach")
  /\ UNCHANGED <<tid, bits, sxf, startup, exiting, stacks, kernel, setxid, created, stale>>

detach_check(t) ==
  /\ pc[t] = "detach"
  /\ IF "exiting" \in bits[arg[t]]
       THEN Goto(t, "detach_free") /\ UNCHANGED arg
       ELSE Return(t)
  /\ UNCHANGED <<tcb, stacks, kernel, setxid, client>>

detach_free(t) ==
  /\ pc[t] = "detach_free"
  /\ FreeTCB(t, arg[t])
  /\ UNCHANGED <<tid, detached, sxf, startup, exiting, stacks, kernel, setxid, client>>

-----------------------------------------------------------------------------
(* cancel_enabled_and_canceled_and_async.                                   *)
CanceledAsync(b) == Canceled(b) /\ "async" \in b

(* pthread_setcancelstate, pthread_setcanceltype and, around a system call, *)
(* __pthread_enable_asynccancel.                                            *)
SetBits(t, b) ==
  /\ IF CanceledAsync(b)
       THEN DoCancel(t, b)
       ELSE bits' = [bits EXCEPT ![t] = b] /\ UNCHANGED pc
  /\ UNCHANGED <<arg, tid, detached, sxf, startup, exiting, stacks, kernel, setxid, client>>

setcancel(t) ==
  /\ t \in Cancelable /\ pc[t] = "run"
  /\ \E b \in {"disabled", "async"} :
       SetBits(t, IF b \in bits[t] THEN bits[t] \ {b} ELSE bits[t] \cup {b})

(* __pthread_disable_asynccancel, after a system call: we cannot return     *)
(* when we are being canceled.                                              *)
disable_asynccancel(t) ==
  /\ t \in Cancelable /\ pc[t] = "run" /\ "async" \in bits[t]
  /\ bits' = [bits EXCEPT ![t] = @ \ {"async"}]
  /\ Goto(t, "canceling")
  /\ UNCHANGED <<arg, tid, detached, sxf, startup, exiting, stacks, kernel, setxid, client>>

disable_wait(t) ==
  /\ pc[t] = "canceling"
  /\ "canceling" \in bits[t] => "canceled" \in bits[t]
  /\ Goto(t, "run")
  /\ UNCHANGED <<arg, tcb, stacks, kernel, setxid, client>>

testcancel(t) ==
  /\ pc[t] = "run" /\ Canceled(bits[t])
  /\ DoCancel(t, bits[t])
  /\ UNCHANGED <<arg, tid, detached, sxf, startup, exiting, stacks, kernel, setxid, client>>

(* pthread_cancel: if cancellation is asynchronous, only mark it as in      *)
(* progress and send a signal.                                              *)
cancel(t) ==
  /\ Calls(t) /\ t \in Callers
  /\ \E p \in (valid \cap Cancelable) \ {t} :
       LET b == bits[p] \cup {"canceling", "canceled"} IN
       /\ tid[p] = "live" /\ bits[p] # b /\ "exiting" \notin bits[p]
       /\ bits' = [bits EXCEPT ![p] = IF CanceledAsync(b) THEN @ \cup {"canceling"} ELSE b]
       /\ IF CanceledAsync(b)
            THEN /\ Goto(t, "kill")
                 /\ arg' = [arg EXCEPT ![t] = p]
                 /\ valid' = valid \ {p}
            ELSE UNCHANGED <<pc, arg, valid>>
  /\ UNCHANGED <<tid, detached, sxf, startup, exiting, stacks, kernel, setxid, created, stale>>

(* __pthread_kill_internal, unless the thread is about to exit.             *)
kill(t) ==
  /\ pc[t] = "kill"
  /\ sig' = [sig EXCEPT ![arg[t]] = IF arg[t] \in exiting THEN @ ELSE @ \cup {"cancel"}]
  /\ valid' = valid \cup {arg[t]}
  /\ Return(t)
  /\ UNCHANGED <<tcb, stacks, sleepers, cred, setxid, created, stale>>

(* Signals are blocked in pthread_create, pthread_kill and start_thread,    *)
(* and all but SIGSETXID at the end of start_thread.                        *)
AllBlocked(t) == pc[t] \in {"none", "clone", "setup", "start", "kill", "exit"}

CancelBlocked(t) ==
  \/ AllBlocked(t)
  \/ t \in exiting

(* Mutant: the handler returns if cancellation is not asynchronous any more.*)
sigcancel_handler_sync(t) ==
  /\ "cancel" \in sig[t] /\ ~CancelBlocked(t)
  /\ sig' = [sig EXCEPT ![t] = @ \ {"cancel"}]
  /\ IF "exiting" \notin bits[t] /\ "async" \in bits[t]
       THEN DoCancel(t, bits[t])
       ELSE UNCHANGED <<bits, pc>>
  /\ UNCHANGED <<arg, tid, detached, sxf, startup, exiting, stacks, sleepers, cred, setxid,
                 client>>

sigcancel_handler(t) ==
  /\ "cancel" \in sig[t] /\ ~CancelBlocked(t)
  /\ sig' = [sig EXCEPT ![t] = @ \ {"cancel"}]
  /\ LET b == bits[t] \cup {"canceling", "canceled"} IN
       IF b = bits[t] \/ "exiting" \in bits[t]
         THEN UNCHANGED <<bits, pc>>
         ELSE IF "async" \in b
                THEN DoCancel(t, b)
                ELSE bits' = [bits EXCEPT ![t] = b] /\ UNCHANGED pc
  /\ UNCHANGED <<arg, tid, detached, sxf, startup, exiting, stacks, sleepers, cred, setxid,
                 client>>
-----------------------------------------------------------------------------
(* A step of __nptl_setxid, by the thread that holds the lock, and what it  *)
(* does to the TCB of one thread of the lists.                              *)
setxid_lock(t) ==
  /\ Calls(t) /\ t \in Setters /\ cmd.id < MaxSetxid
  /\ lock = NoThread
  /\ lock' = t
  /\ cmd' = [id |-> cmd.id + 1, cntr |-> 0, todo |-> inuse \ {t}, signalled |-> FALSE]
  /\ Goto(t, "mark")
  /\ UNCHANGED <<arg, tcb, stacks, kernel, issued, client>>

(* The end of a loop over the lists.                                        *)
NextLoop(t, l) ==
  /\ cmd.todo = {}
  /\ cmd' = [cmd EXCEPT !.todo = inuse \ {t}, !.signalled = FALSE]
  /\ Goto(t, l)
  /\ UNCHANGED <<arg, tcb, stacks, kernel, lock, issued, client>>

Done(p) == cmd' = [cmd EXCEPT !.todo = @ \ {p}]

(* setxid_mark_thread: wait until this thread is cloned.                    *)
mark(t) ==
  /\ pc[t] = "mark"
  /\ \E p \in cmd.todo :
       /\ arg' = [arg EXCEPT ![t] = p]
       /\ sxf' = [sxf EXCEPT ![p] = IF @ = -1 THEN -2 ELSE @]
       /\ Goto(t, IF sxf[p] = -1 THEN "mark_wait" ELSE "mark_hold")
  /\ UNCHANGED <<tid, detached, bits, startup, exiting, stacks, kernel, setxid, client>>

mark_wait(t) ==
  /\ pc[t] = "mark_wait"
  /\ sleepers' = [sleepers EXCEPT ![arg[t]] = FutexWaitQueue(@, t, sxf[arg[t]], -2)]
  /\ Goto(t, IF sxf[arg[t]] = -2 THEN "mark_sleep" ELSE "mark_hold")
  /\ UNCHANGED <<arg, tcb, stacks, sig, cred, setxid, client>>

mark_woken(t) ==
  /\ pc[t] = "mark_sleep" /\ t \notin sleepers[arg[t]]
  /\ Goto(t, IF sxf[arg[t]] = -2 THEN "mark_wait" ELSE "mark_hold")
  /\ UNCHANGED <<arg, tcb, stacks, kernel, setxid, client>>

(* Don't let the thread exit before the setxid handler runs.                *)
mark_hold(t) ==
  /\ pc[t] = "mark_hold"
  /\ sxf' = [sxf EXCEPT ![arg[t]] = 0]
  /\ Goto(t, "mark_flag")
  /\ UNCHANGED <<arg, tid, detached, bits, startup, exiting, stacks, kernel, setxid, client>>

(* Mutant: the exiting thread is not woken.                                 *)
ReleaseFutexUnwoken(p) ==
  /\ sxf' = [sxf EXCEPT ![p] = 1]
  /\ UNCHANGED sleepers

ReleaseFutex(p) ==
  /\ sxf' = [sxf EXCEPT ![p] = 1]
  /\ \E q \in FutexWakeOne(sleepers[p]) : sleepers' = [sleepers EXCEPT ![p] = q]

(* If the thread is exiting right now, ignore it.                           *)
mark_flag(t) ==
  /\ pc[t] = "mark_flag"
  /\ LET p == arg[t] IN
       /\ IF "exiting" \in bits[p]
            THEN /\ UNCHANGED bits
                 /\ IF "setxid" \in bits[p] THEN UNCHANGED <<sxf, sleepers>>
                                            ELSE ReleaseFutex(p)
            ELSE /\ bits' = [bits EXCEPT ![p] = @ \cup {"setxid"}]
                 /\ UNCHANGED <<sxf, sleepers>>
       /\ Done(p)
  /\ arg' = [arg EXCEPT ![t] = NoThread]
  /\ Goto(t, "mark")
  /\ UNCHANGED <<tid, detached, startup, exiting, stacks, sig, cred, lock, issued, client>>

marked(t) == pc[t] = "mark" /\ NextLoop(t, "signal")

(* setxid_signal_thread.                                                    *)
signal(t) ==
  /\ pc[t] = "signal"
  /\ \E p \in cmd.todo :
       LET send == "setxid" \in bits[p] /\ pc[p] # "none" IN
       /\ sig' = [sig EXCEPT ![p] = IF send THEN @ \cup {"setxid"} ELSE @]
       /\ cmd' = [cmd EXCEPT !.todo = @ \ {p}, !.signalled = @ \/ send,
                             !.cntr = IF send THEN @ + 1 ELSE @]
  /\ UNCHANGED <<pc, arg, tcb, stacks, sleepers, cred, lock, issued, client>>

(* Mutant: without waiting for the handlers.                                *)
signalled_unanswered(t) == pc[t] = "signal" /\ NextLoop(t, "unmark")

(* Iterate until we don't succeed in signalling anyone.                     *)
signalled(t) ==
  /\ pc[t] = "signal" /\ cmd.cntr = 0
  /\ NextLoop(t, IF cmd.signalled THEN "signal" ELSE "unmark")

(* setxid_unmark_thread, so that no thread blocks during exit waiting for a *)
(* signal which will never come.                                            *)
unmark(t) ==
  /\ pc[t] = "unmark"
  /\ \E p \in cmd.todo :
       /\ bits' = [bits EXCEPT ![p] = @ \ {"setxid"}]
       /\ IF "setxid" \in bits[p] THEN ReleaseFutex(p) ELSE UNCHANGED <<sxf, sleepers>>
       /\ Done(p)
  /\ UNCHANGED <<pc, arg, tid, detached, startup, exiting, stacks, sig, cred, lock, issued,
                 client>>

(* The caller's own system call must be last.                               *)
setxid_self(t) ==
  /\ pc[t] = "unmark" /\ cmd.todo = {}
  /\ cred' = [cred EXCEPT ![t] = cmd.id]
  /\ issued' = cmd.id
  /\ lock' = NoThread
  /\ Return(t)
  /\ UNCHANGED <<tcb, stacks, sleepers, sig, cmd, client>>

(* __nptl_setxid_sighandler interrupts the thread that it runs in, and      *)
(* __nptl_setxid waits for its last step.                                   *)
setxid_sighandler(t) ==
  /\ "setxid" \in sig[t] /\ ~AllBlocked(t)
  /\ sig' = [sig EXCEPT ![t] = @ \ {"setxid"}]
  /\ cred' = [cred EXCEPT ![t] = cmd.id]
  /\ bits' = [bits EXCEPT ![t] = @ \ {"setxid"}]
  /\ ReleaseFutex(t)
  /\ cmd' = [cmd EXCEPT !.cntr = @ - 1]
  /\ UNCHANGED <<pc, arg, tid, detached, startup, exiting, stacks, lock, issued, client>>
(* The kernel may end a futex wait for no reason.                           *)
futex_wait_ends(t) ==
  /\ pc[t] \in {"exit_sleep", "mark_sleep"}
  /\ LET p == IF pc[t] = "exit_sleep" THEN t ELSE arg[t] IN
       /\ t \in sleepers[p]
       /\ sleepers' = [sleepers EXCEPT ![p] = @ \ {t}]
  /\ UNCHANGED <<pc, arg, tcb, stacks, sig, cred, setxid, client>>
-----------------------------------------------------------------------------
Call(t) ==
  \/ create_alloc(t) \/ join(t) \/ detach(t) \/ cancel(t) \/ setxid_lock(t)
  \/ thread_return(t) \/ pthread_exit(t)
  \/ setcancel(t) \/ disable_asynccancel(t) \/ testcancel(t)

Create(t) ==
  \/ create_clone(t) \/ create_setup(t)
  \/ create_wait(t) \/ create_cancel(t) \/ create_failed(t)
  \/ start_failed(t) \/ start_allow(t)

Exit(t) ==
  \/ unwind(t) \/ leave(t) \/ handshake(t) \/ exit_wait(t)
  \/ exit_check(t) \/ reap(t) \/ free(t) \/ exit(t)

Setxid(t) ==
  \/ mark(t) \/ mark_wait(t) \/ mark_woken(t) \/ mark_hold(t) \/ mark_flag(t)
  \/ marked(t) \/ signal(t) \/ signalled(t) \/ unmark(t) \/ setxid_self(t)

Step(t) ==
  \/ Create(t) \/ Exit(t) \/ Setxid(t)
  \/ join_wait(t) \/ join_cancel(t) \/ detach_check(t) \/ detach_free(t)
  \/ disable_wait(t) \/ kill(t)

Signal(t) == sigcancel_handler(t) \/ setxid_sighandler(t)

Next ==
  \E t \in Threads :
     Call(t) \/ Step(t) \/ join_timeout(t) \/ futex_wait_ends(t) \/ Signal(t)

Spec == Init /\ [][Next]_tvars

(* Threads run and signals that are not blocked are delivered (each is sent *)
(* a bounded number of times); nobody has to call the library.              *)
FairSpec ==
  /\ Spec
  /\ \A t \in Threads : WF_tvars(Step(t))
  /\ WF_tvars(\E t \in Threads : Signal(t))
-----------------------------------------------------------------------------
(* pthread_detach looks at the TCB after it has marked it as detached, when *)
(* the thread may have exited and the TCB belong to another one, which is   *)
(* then freed.  The properties are about what happens up to such a reuse.   *)

(* When no set*id function is in progress, every thread that runs, other    *)
(* than those that have begun to exit, has the ID that was set last, also   *)
(* the threads that were being created meanwhile.                           *)
ProcessWide ==
  lock = NoThread /\ ~stale =>
    \A t \in Threads : pc[t] # "none" /\ "exiting" \notin bits[t] => cred[t] = issued

(* The TCB of a thread that can still be joined has not been freed, whoever *)
(* exits, detaches or joins at the same time.                               *)
JoinableKept == ~stale => valid \subseteq inuse

(* The TCBs that a cancelled pthread_create left behind.                    *)
Orphans ==
  {p \in inuse :
     /\ startup[p] = "failed"
     /\ ~\E t \in Threads : pc[t] \in {"create_wait", "create_failed"} /\ arg[t] = p}

(* __nptl_nthreads covers the threads that still run their own code, so     *)
(* that a thread that leaves does not end the process under them, and does  *)
(* so exactly, but for TCBs left behind, when nobody is creating a thread.  *)
ThreadsCounted ==
  LET Running == {t \in Threads :
                    pc[t] \notin {"none", "leave", "handshake", "exit_wait", "exit_sleep",
                                  "exit_check", "reap", "exit"}
                    /\ ~(pc[t] = "free" /\ arg[t] = NoThread)}
      Creating == {t \in Threads : pc[t] \in {"clone", "setup", "create_wait", "create_failed"}}
  IN  /\ nthreads >= Cardinality(Running)
      /\ Creating = {} /\ ~stale => nthreads = Cardinality(Running \cup Orphans)

(* A set*id function that waits for a thread whose creation failed waits    *)
(* for ever.                                                                *)
WaitsForUnborn ==
  \E t \in Threads :
     /\ pc[t] \in {"mark_wait", "mark_sleep"}
     /\ \/ startup[arg[t]] = "failed"
        \/ \E u \in Threads : pc[u] = "create_failed" /\ arg[u] = arg[t]

(* Whatever a thread does in the library, but waiting to join, it finishes: *)
(* set*id functions return, threads that exit are gone, and their futex     *)
(* handshake, whose wait and loop test different words, loses no wake-up.   *)
OperationsEnd ==
  \A t \in Threads : []<>(pc[t] \in {"run", "none", "join"} \/ WaitsForUnborn)

(* A cancellation in progress is completed by the signal, or the thread     *)
(* exits: no thread waits for ever to return from a system call.            *)
CancelDelivered ==
  \A t \in Cancelable :
    []<>(\/ "canceling" \notin bits[t] \/ "canceled" \in bits[t]
         \/ pc[t] = "none" \/ WaitsForUnborn)
=============================================================================
