----------------------------- MODULE Semaphore -----------------------------
(***************************************************************************)
(* One ngx.semaphore object inside one nginx worker, as implemented by     *)
(* ngx_lua-0.10.10/src/ngx_http_lua_semaphore.c and called through         *)
(* lua-resty-core-0.1.12/lib/ngx/semaphore.lua.                            *)
(*                                                                         *)
(* The worker is single threaded: at most one light thread is on the CPU   *)
(* and, while one is, neither a timer nor a posted event is processed.  A  *)
(* light thread that waits leaves behind an entry in wait_queue, an armed  *)
(* timer and a cleanup callback; the resource that ends its wait is handed *)
(* over later, by the posted event sem_event.  The interesting orders are  *)
(* those between post, the event, the timers and the death of a thread.    *)
(***************************************************************************)
EXTENDS Integers, Sequences, FiniteSets, SequencesExt

CONSTANTS
    Threads,        \* light threads of this worker
    Requests,       \* requests the threads belong to
    ReqOf,          \* the request of each thread
    Parent,         \* the thread that spawns it, None for an entry thread
    None,           \* no thread
    MaxPost,        \* bound: resources released by one post
    MaxResources    \* bound: resource_count never exceeds it

ASSUME SemaphoreAssumption ==
    /\ ReqOf \in [Threads -> Requests]
    /\ None \notin Threads
    /\ Parent \in [Threads -> Threads \cup {None}]
    /\ \A t \in Threads : Parent[t] # None => ReqOf[Parent[t]] = ReqOf[t]
    /\ MaxPost \in Nat \ {0}
    /\ MaxResources \in Nat

VARIABLES
    resource_count, \* sem->resource_count
    wait_count,     \* sem->wait_count
    wait_queue,     \* sem->wait_queue, head first
    posted,         \* sem->sem_event is in ngx_posted_events
    in_handler,     \* ngx_http_lua_sema_handler is in its loop
    timer_set,      \* threads whose coctx->sleep timer is armed
    cleanup,        \* threads whose coctx->cleanup is ngx_http_lua_sema_cleanup
    status,         \* what each thread is doing
    outcome,        \* what its last wait returned
    cpu,            \* the thread on the CPU, or None
    dying           \* threads the loop of ngx_http_lua_finalize_threads has left

semVars == <<resource_count, wait_count, wait_queue, posted, timer_set, cleanup>>
vars == <<resource_count, wait_count, wait_queue, posted, in_handler, timer_set,
          cleanup, status, outcome, cpu, dying>>

\* "posted": in its request's posted_threads, to run when the running one yields.
Statuses == {"dead", "ready", "posted", "running", "waiting"}

TypeOK ==
    /\ resource_count \in 0..MaxResources
    /\ wait_count \in Nat
    /\ wait_queue \in Seq(Threads)
    /\ posted \in BOOLEAN
    /\ in_handler \in BOOLEAN
    /\ timer_set \subseteq Threads
    /\ cleanup \subseteq Threads
    /\ status \in [Threads -> Statuses]
    /\ outcome \in [Threads -> {"none", "ok", "timeout"}]
    /\ cpu \in Threads \cup {None}
    /\ dying \subseteq Threads

----------------------------------------------------------------------------
\* ngx_http_lua_ffi_sema_new(n): a fresh object, no waiter, no event.
Init ==
    /\ resource_count \in 0..MaxResources
    /\ wait_count = 0
    /\ wait_queue = <<>>
    /\ posted = FALSE
    /\ in_handler = FALSE
    /\ timer_set = {}
    /\ cleanup = {}
    /\ status = [t \in Threads |-> "dead"]
    /\ outcome = [t \in Threads |-> "none"]
    /\ cpu = None
    /\ dying = {}

Queued(t) == \E i \in 1..Len(wait_queue) : wait_queue[i] = t

\* ngx_queue_remove of the thread's own node.
Unlinked(t) ==
    IF Queued(t)
    THEN RemoveAt(wait_queue, CHOOSE i \in 1..Len(wait_queue) : wait_queue[i] = t)
    ELSE wait_queue

\* The event loop is between two events: nothing of the worker is on the stack.
LoopIdle == cpu = None /\ dying = {} /\ ~in_handler

\* Control is back in the loop of ngx_http_lua_sema_handler.
InHandlerLoop == cpu = None /\ dying = {} /\ in_handler

PostedThreads(t) == {u \in Threads \ {t} : ReqOf[u] = ReqOf[t] /\ status[u] = "posted"}

\* t leaves the CPU with status s: ngx_http_lua_run_posted_threads runs the
\* posted threads of the request before control returns to the event loop, or
\* to the handler that resumed t.
SwitchFrom(t, s) ==
    \/ /\ PostedThreads(t) = {}
       /\ cpu' = None
       /\ status' = [status EXCEPT ![t] = s]
    \/ \E u \in PostedThreads(t) :
        /\ cpu' = u
        /\ status' = [status EXCEPT ![t] = s, ![u] = "running"]

----------------------------------------------------------------------------
(* Calls of the thread on the CPU.                                         *)

MustWakeMutant == Len(wait_queue) > 1
MustWake == wait_queue # <<>>

\* ngx_http_lua_ffi_sema_post
Post(n) ==
    /\ cpu # None
    /\ resource_count + n <= MaxResources
    /\ resource_count' = resource_count + n
    /\ posted' = (posted \/ MustWake)
    /\ UNCHANGED <<wait_count, wait_queue, in_handler, timer_set, cleanup,
                   status, outcome, cpu, dying>>

\* A resource may be taken without waiting: nobody is queued before the caller.
AvailableMutant == resource_count > 0
Available == wait_queue = <<>> /\ resource_count > 0

\* ngx_http_lua_ffi_sema_wait, NGX_OK
WaitAtOnce(t) ==
    /\ cpu = t
    /\ Available
    /\ resource_count' = resource_count - 1
    /\ outcome' = [outcome EXCEPT ![t] = "ok"]
    /\ UNCHANGED <<wait_count, wait_queue, posted, in_handler, timer_set, cleanup,
                   status, cpu, dying>>

\* ngx_http_lua_ffi_sema_wait with a zero timeout, NGX_DECLINED
WaitDeclined(t) ==
    /\ cpu = t
    /\ ~Available
    /\ outcome' = [outcome EXCEPT ![t] = "timeout"]
    /\ UNCHANGED <<semVars, in_handler, status, cpu, dying>>

ArmedMutant(t) == timer_set
Armed(t) == timer_set \cup {t}

\* ngx_http_lua_ffi_sema_wait, NGX_AGAIN: the thread yields.
WaitYield(t) ==
    /\ cpu = t
    /\ ~Available
    /\ wait_count' = wait_count + 1
    /\ timer_set' = Armed(t)
    /\ wait_queue' = Append(wait_queue, t)
    /\ cleanup' = cleanup \cup {t}
    /\ outcome' = [outcome EXCEPT ![t] = "none"]
    /\ SwitchFrom(t, "waiting")
    /\ UNCHANGED <<resource_count, posted, in_handler, dying>>

\* The thread yields on something else (a socket, ngx.sleep).
YieldElsewhere(t) ==
    /\ cpu = t
    /\ SwitchFrom(t, "ready")
    /\ UNCHANGED <<semVars, in_handler, outcome, dying>>

\* ngx_http_lua_uthread_spawn: the parent is posted, the child runs at once.
Spawn(t, u) ==
    /\ cpu = t
    /\ status[u] = "dead" /\ Parent[u] = t
    /\ cpu' = u
    /\ status' = [status EXCEPT ![t] = "posted", ![u] = "running"]
    /\ outcome' = [outcome EXCEPT ![u] = "none"]
    /\ UNCHANGED <<semVars, in_handler, dying>>

HasPendingMutant(t) == TRUE
HasPending(t) == t \in cleanup

\* ngx_http_lua_cleanup_pending_operation, with ngx_http_lua_sema_cleanup as
\* the callback.
CleanupPending(t) ==
    IF HasPending(t)
    THEN /\ timer_set' = timer_set \ {t}
         /\ wait_queue' = Unlinked(t)
         /\ wait_count' = wait_count - 1
         /\ cleanup' = cleanup \ {t}
         /\ UNCHANGED <<resource_count, posted>>
    ELSE UNCHANGED semVars

\* The thread's function returns; a parent blocked in ngx.thread.wait runs next.
Terminate(t) ==
    /\ cpu = t
    /\ CleanupPending(t)
    /\ \/ SwitchFrom(t, "dead")
       \/ /\ Parent[t] # None /\ status[Parent[t]] = "ready"
          /\ cpu' = Parent[t]
          /\ status' = [status EXCEPT ![t] = "dead", ![Parent[t]] = "running"]
    /\ UNCHANGED <<in_handler, outcome, dying>>

\* ngx.thread.kill: only the parent may.
KillThread(t, u) ==
    /\ cpu = t
    /\ Parent[u] = t /\ status[u] \in {"ready", "posted", "waiting"}
    /\ CleanupPending(u)
    /\ status' = [status EXCEPT ![u] = "dead"]
    /\ UNCHANGED <<in_handler, outcome, cpu, dying>>

LiveThreadsOf(r) == {t \in Threads : ReqOf[t] = r /\ status[t] # "dead"}

\* ngx.exit, ngx.exec or an uncaught error: the whole request is torn down.
ExitRequest(t) ==
    /\ cpu = t
    /\ dying' = LiveThreadsOf(ReqOf[t])
    /\ cpu' = None
    /\ UNCHANGED <<semVars, in_handler, status, outcome>>

----------------------------------------------------------------------------
(* What the event loop does.                                               *)

\* The client goes away: the request's cleanup handler runs.
AbortRequest(r) ==
    /\ LoopIdle
    /\ LiveThreadsOf(r) # {}
    /\ dying' = LiveThreadsOf(r)
    /\ UNCHANGED <<semVars, in_handler, status, outcome, cpu>>

\* One iteration of the loop of ngx_http_lua_finalize_threads.
FinalizeThread(t) ==
    /\ t \in dying
    /\ CleanupPending(t)
    /\ dying' = dying \ {t}
    /\ status' = [status EXCEPT ![t] = "dead"]
    /\ UNCHANGED <<in_handler, outcome, cpu>>

\* A new request, or a timer, starts with its entry thread.
StartThread(t) ==
    /\ LoopIdle
    /\ Parent[t] = None /\ LiveThreadsOf(ReqOf[t]) = {}
    /\ status' = [status EXCEPT ![t] = "ready"]
    /\ outcome' = [outcome EXCEPT ![t] = "none"]
    /\ UNCHANGED <<semVars, in_handler, cpu, dying>>

\* An event other than ours resumes a thread.
Dispatch(t) ==
    /\ LoopIdle
    /\ status[t] = "ready"
    /\ cpu' = t
    /\ status' = [status EXCEPT ![t] = "running"]
    /\ UNCHANGED <<semVars, in_handler, outcome, dying>>

ForgetCleanupMutant(t) == cleanup
ForgetCleanup(t) == cleanup \ {t}

\* ngx_http_lua_sema_timeout_handler, called by ngx_event_expire_timers
TimeoutHandler(t) ==
    /\ LoopIdle
    /\ t \in timer_set
    /\ timer_set' = timer_set \ {t}
    /\ cleanup' = ForgetCleanup(t)
    /\ wait_queue' = Unlinked(t)
    /\ wait_count' = wait_count - 1
    /\ outcome' = [outcome EXCEPT ![t] = "timeout"]
    /\ cpu' = t
    /\ status' = [status EXCEPT ![t] = "running"]
    /\ UNCHANGED <<resource_count, posted, in_handler, dying>>

\* ngx_event_process_posted takes sem_event off its queue and calls the handler.
HandlerStart ==
    /\ LoopIdle
    /\ posted
    /\ posted' = FALSE
    /\ in_handler' = TRUE
    /\ UNCHANGED <<resource_count, wait_count, wait_queue, timer_set, cleanup,
                   status, outcome, cpu, dying>>

CanGrant == wait_queue # <<>> /\ resource_count > 0

CountAfterGrantMutant == resource_count
CountAfterGrant == resource_count - 1

\* One iteration of the loop of ngx_http_lua_sema_handler: the oldest waiter
\* is resumed synchronously, so it may call back into the semaphore.
HandlerResume ==
    /\ InHandlerLoop
    /\ CanGrant
    /\ LET t == Head(wait_queue) IN
        /\ wait_queue' = Tail(wait_queue)
        /\ wait_count' = wait_count - 1
        /\ cleanup' = ForgetCleanup(t)
        /\ timer_set' = timer_set \ {t}
        /\ resource_count' = CountAfterGrant
        /\ outcome' = [outcome EXCEPT ![t] = "ok"]
        /\ cpu' = t
        /\ status' = [status EXCEPT ![t] = "running"]
    /\ UNCHANGED <<posted, in_handler, dying>>

HandlerDone ==
    /\ InHandlerLoop
    /\ ~CanGrant
    /\ in_handler' = FALSE
    /\ UNCHANGED <<semVars, status, outcome, cpu, dying>>

----------------------------------------------------------------------------
ThreadStep(t) ==
    \/ WaitAtOnce(t) \/ WaitDeclined(t) \/ WaitYield(t)
    \/ YieldElsewhere(t) \/ Terminate(t) \/ ExitRequest(t)
    \/ \E u \in Threads : Spawn(t, u) \/ KillThread(t, u)

LoopStep ==
    \/ HandlerStart \/ HandlerResume \/ HandlerDone
    \/ \E r \in Requests : AbortRequest(r)
    \/ \E t \in Threads : \/ FinalizeThread(t) \/ StartThread(t)
                          \/ Dispatch(t) \/ TimeoutHandler(t)

Next ==
    \/ \E n \in 1..MaxPost : Post(n)
    \/ \E t \in Threads : ThreadStep(t)
    \/ LoopStep

\* The loops of C code terminate: weak fairness.  Every iteration of
\* ngx_process_events_and_timers expires the due timers and empties
\* ngx_posted_events, whatever else it dispatches: strong fairness.  A light
\* thread is cooperative code: if it gets the CPU again and again it does not
\* forever spawn and kill siblings without once yielding to the event loop.
Fairness ==
    /\ \A t \in Threads : SF_vars(YieldElsewhere(t))
    /\ \A t \in Threads : WF_vars(FinalizeThread(t))
    /\ \A t \in Threads : SF_vars(TimeoutHandler(t))
    /\ SF_vars(HandlerStart)
    /\ WF_vars(HandlerResume)
    /\ WF_vars(HandlerDone)

Spec == Init /\ [][Next]_vars
FairSpec == Spec /\ Fairness

----------------------------------------------------------------------------
(* Properties.                                                             *)

\* The four places the code keeps a waiting thread in - wait_queue, the
\* counter, the timer and the cleanup callback - always name the same threads,
\* whichever of the handler, the timeout and a killing parent gets there first.
WaitersAccounted ==
    /\ wait_count = Len(wait_queue)
    /\ \A i, j \in 1..Len(wait_queue) : wait_queue[i] = wait_queue[j] => i = j
    /\ \A t \in Threads :
        /\ Queued(t) <=> status[t] = "waiting"
        /\ t \in timer_set <=> status[t] = "waiting"
        /\ t \in cleanup <=> status[t] = "waiting"

\* Post arms sem_event only if somebody waits, and wait joins the queue only
\* if it cannot take a resource: no order of the two leaves a waiter and a
\* resource side by side with nothing scheduled to bring them together.
NoLostWakeup == CanGrant => posted \/ in_handler

\* A resource is taken, while threads are queued, only by the oldest of them.
NoBarging ==
    [][resource_count' < resource_count /\ wait_queue # <<>>
          => /\ wait_queue' = Tail(wait_queue)
             /\ cpu' = Head(wait_queue)
             /\ outcome'[Head(wait_queue)] = "ok"]_vars

\* Every wait ends: by a grant, by its timeout or with its thread.
WaitEnds == \A t \in Threads : status[t] = "waiting" ~> status[t] # "waiting"

Classic == INSTANCE ClassicSemaphore
               WITH value <- resource_count, waiters <- wait_queue

\* The event-driven implementation is a fair FIFO counting semaphore: a
\* posted resource reaches exactly one waiter, and is not forgotten.
ImplementsClassic == Classic!Spec
============================================================================
