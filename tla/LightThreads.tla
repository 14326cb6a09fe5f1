--------------------------- MODULE LightThreads ---------------------------
(***************************************************************************)
(* The light threads and coroutines of one request and their scheduler:    *)
(* ngx_http_lua_uthread.c, ngx_http_lua_coroutine.c and                    *)
(* ngx_http_lua_run_thread with its helpers in ngx_http_lua_util.c         *)
(* (ngx_lua-0.10.10/src).                                                  *)
(*                                                                         *)
(* ngx.sleep stands for every call that waits for an event.  Requests      *)
(* follow each other; each has its threads anew.                           *)
(***************************************************************************)
EXTENDS Integers, FiniteSets, Sequences, SequencesExt

CONSTANTS
    Entry,          \* the entry thread
    Uthreads,       \* what ngx.thread.spawn and ngx.on_abort create
    Coros,          \* what coroutine.create creates
    MaxArgs,        \* the most threads given to one ngx.thread.wait, a bound
    None

ASSUME LightThreadsAssumption ==
    /\ IsFiniteSet(Uthreads) /\ MaxArgs \in Nat
    /\ Entry \notin Uthreads \cup Coros
    /\ Uthreads \cap Coros = {}
    /\ None \notin {Entry} \cup Uthreads \cup Coros

Threads == {Entry} \cup Uthreads \cup Coros

VARIABLES
    co,             \* the ngx_http_lua_co_ctx_t of each thread
    cur,            \* cur_co_ctx: the thread that runs
    uthreads,       \* the count of user threads that keep the request going
    posted,         \* posted_threads
    zombies,        \* zombie_child_threads of each thread
    onAbort,        \* on_abort_co_ctx
    ended,          \* the request is over
    misled          \* a thread was resumed out of a call by what it did not wait for

vars == <<co, cur, uthreads, posted, zombies, onAbort, ended, misled>>

\* ref: the thread is anchored by co_ref.  timer: an event is pending for it, with
\* the callback that would cancel it.  at: the call its Lua code is in ("lua" if
\* none), and for ngx.thread.wait in on the children it waits for.
Absent == [status |-> "none", parent |-> None, ref |-> FALSE, waited |-> FALSE,
           timer |-> FALSE, at |-> "start", on |-> {}]

Started == [Absent EXCEPT !.status = "running", !.ref = TRUE, !.at = "lua"]

Init ==
    /\ co = [t \in Threads |-> IF t = Entry THEN Started ELSE Absent]
    /\ cur = Entry
    /\ uthreads = 0
    /\ posted = <<>>
    /\ zombies = [t \in Threads |-> <<>>]
    /\ onAbort = None
    /\ ended = FALSE
    /\ misled = FALSE

----------------------------------------------------------------------------
(* Pieces of the scheduler.                                                *)

Alive(t) == co[t].status \notin {"dead", "zombie"}

\* ngx_http_lua_del_thread, for each of a set of threads.
Del(c, ts) ==
    [t \in Threads |-> IF t \in ts /\ c[t].ref
                       THEN [c[t] EXCEPT !.ref = FALSE, !.status = "dead"] ELSE c[t]]

\* ngx_http_lua_cleanup_pending_operation
CleanupPendingMutant(c, t) == c
CleanupPending(c, t) == [c EXCEPT ![t].timer = FALSE]

PostMutant(t) == <<t>>
Post(t) == Append(posted, t)

\* lua_resume: the call t is in returns.
Resumed(c, t) == [c EXCEPT ![t].at = "lua", ![t].on = {}]

\* ngx_http_lua_finalize_threads visits the anchored threads only.  An abort
\* thread that has not started is not in the count.
CountedMutant(c) == {u \in Uthreads : c[u].ref}
Counted(c) == {u \in Uthreads : c[u].ref /\ ~(u = onAbort /\ c[u].status = "suspended")}

FinalizeThreads(c, n) ==
    /\ co' = [t \in Threads |-> IF c[t].ref
                 THEN [c[t] EXCEPT !.timer = FALSE, !.ref = FALSE, !.status = "dead"] ELSE c[t]]
    /\ uthreads' = n - Cardinality(Counted(c))
    /\ cur' = None
    /\ ended' = TRUE
    /\ posted' = <<>>
    /\ zombies' = [t \in Threads |-> <<>>]
    /\ onAbort' = None

----------------------------------------------------------------------------
(* Calls of the thread t that runs.                                        *)

Runs(t) == cur = t /\ ~ended

Sleep(t) ==
    /\ Runs(t)
    /\ co' = [co EXCEPT ![t].timer = TRUE, ![t].at = "sleep"]
    /\ cur' = None
    /\ UNCHANGED <<uthreads, posted, zombies, onAbort, ended, misled>>

\* ngx.thread.spawn runs the new thread at once and posts its parent.
Spawn(t, u) ==
    /\ Runs(t) /\ co[u].status = "none"
    /\ co' = [co EXCEPT ![u] = [Started EXCEPT !.parent = t], ![t].at = "spawn"]
    /\ posted' = Post(t)
    /\ uthreads' = uthreads + 1
    /\ cur' = u
    /\ UNCHANGED <<zombies, onAbort, ended, misled>>

IsChild(t, u) == u \in Uthreads /\ co[u].parent = t

\* The argument at which the loop of ngx.thread.wait ends: one that is not a
\* child (an error is raised), a zombie, or the last one if dead.
EndsLoop(t, us, i) ==
    \/ ~IsChild(t, us[i])
    \/ co[us[i]].status = "zombie"
    \/ co[us[i]].status = "dead" /\ i = Len(us)

\* The flags set before it stay set.
Flagged(us, i) == {us[j] : j \in {k \in 1..(i - 1) : co[us[k]].status # "dead"}}
Flag(c, ws) == [u \in Threads |-> IF u \in ws THEN [c[u] EXCEPT !.waited = TRUE] ELSE c[u]]

WaitReturns(t, us, i) ==
    /\ EndsLoop(t, us, i) /\ \A j \in 1..(i - 1) : ~EndsLoop(t, us, j)
    /\ LET c == Flag(co, Flagged(us, i))
           reaped == IsChild(t, us[i]) /\ co[us[i]].status = "zombie" IN
       /\ co' = IF reaped THEN Del(c, {us[i]}) ELSE c
       /\ uthreads' = IF reaped THEN uthreads - 1 ELSE uthreads
    /\ cur' = cur

WaitYields(t, us) ==
    /\ \A i \in DOMAIN us : ~EndsLoop(t, us, i)
    /\ LET ws == Flagged(us, Len(us) + 1) IN
       co' = Flag([co EXCEPT ![t].at = "wait", ![t].on = ws], ws)
    /\ uthreads' = uthreads
    /\ cur' = None

\* A program can have a thread only once it has started.
Known(u) == co[u].status \notin {"none", "suspended"}

ThreadWait(t, us) ==
    /\ Runs(t) /\ \A i \in DOMAIN us : Known(us[i])
    /\ (\E i \in DOMAIN us : WaitReturns(t, us, i)) \/ WaitYields(t, us)
    /\ UNCHANGED <<posted, zombies, onAbort, ended, misled>>

KillableMutant(u) == Known(u)
Killable(u) == Known(u) /\ co[u].status # "dead"

\* ngx.thread.kill (the thread has no pending subrequest).
Kill(t, u) ==
    /\ Runs(t) /\ IsChild(t, u) /\ Killable(u)
    /\ LET c == IF co[u].status = "zombie" THEN co ELSE CleanupPending(co, u) IN
       co' = Del(c, {u})
    /\ uthreads' = uthreads - 1
    /\ UNCHANGED <<cur, posted, zombies, onAbort, ended, misled>>

RegisterAbort(t, u) ==
    /\ Runs(t) /\ onAbort = None /\ co[u].status = "none"
    /\ co' = [co EXCEPT ![u] = [Absent EXCEPT !.status = "suspended", !.ref = TRUE, !.parent = t]]
    /\ onAbort' = u
    /\ UNCHANGED <<cur, uthreads, posted, zombies, ended, misled>>

Create(t, c) ==
    /\ Runs(t) /\ co[c].status = "none"
    /\ co' = [co EXCEPT ![c].status = "suspended"]
    /\ UNCHANGED <<cur, uthreads, posted, zombies, onAbort, ended, misled>>

Resume(t, c) ==
    /\ Runs(t) /\ co[c].status = "suspended"
    /\ co' = Resumed([co EXCEPT ![t].status = "normal", ![t].at = "resume",
                                ![c].status = "running", ![c].parent = t], c)
    /\ cur' = c
    /\ UNCHANGED <<uthreads, posted, zombies, onAbort, ended, misled>>

\* coroutine.yield of a light thread lets the posted threads run, if any.
YieldThread(t) ==
    /\ Runs(t) /\ t \notin Coros /\ posted # <<>>
    /\ co' = [co EXCEPT ![t].at = "yield"]
    /\ posted' = Post(t)
    /\ cur' = None
    /\ UNCHANGED <<uthreads, zombies, onAbort, ended, misled>>

SetRunningMutant(c, p) == c
SetRunning(c, p) == [c EXCEPT ![p].status = "running"]

\* Control goes back to the thread that resumed a coroutine, even a killed one.
BackTo(c, p) ==
    /\ co' = Resumed(SetRunning(c, p), p)
    /\ cur' = p
    /\ misled' = (misled \/ ~Alive(p) \/ co[p].at # "resume")

YieldCoro(c) ==
    /\ Runs(c) /\ c \in Coros
    /\ BackTo([co EXCEPT ![c].status = "suspended", ![c].at = "yielded"], co[c].parent)
    /\ UNCHANGED <<uthreads, posted, zombies, onAbort, ended>>

\* ngx.exit, ngx.exec and the like end the request.
Exit(t) ==
    /\ Runs(t)
    /\ FinalizeThreads([co EXCEPT ![t].timer = FALSE, ![t].status = "dead"], uthreads)
    /\ UNCHANGED misled

----------------------------------------------------------------------------
(* The end of the running thread, in ngx_http_lua_run_thread: its function *)
(* returns (ok) or raises an error.                                        *)

Over(t) ==
    [CleanupPending(co, t) EXCEPT ![t].status = "dead", ![t].at = "over"]

\* Only a thread that ends well takes its zombie children with it.
Reaped(t, ok) == IF ok THEN {u \in ToSet(zombies[t]) : co[u].ref} ELSE {}

EndEntry(ok) ==
    LET c == Del(Over(Entry), Reaped(Entry, ok))
        n == uthreads - Cardinality(Reaped(Entry, ok)) IN
    /\ Runs(Entry)
    /\ IF ok /\ n > 0
       THEN /\ co' = Del(c, {Entry})
            /\ uthreads' = n
            /\ cur' = None
            /\ zombies' = [zombies EXCEPT ![Entry] = <<>>]
            /\ UNCHANGED <<posted, onAbort, ended>>
       ELSE FinalizeThreads(IF ok THEN Del(c, {Entry}) ELSE c, n)
    /\ UNCHANGED misled

\* A user thread whose parent lives, and waits for it as far as the flag says.
EndWaited(u, ok) ==
    LET p == co[u].parent
        c == Del(Over(u), Reaped(u, ok) \cup {u}) IN
    /\ Runs(u) /\ u \in Uthreads /\ Alive(p) /\ co[u].waited
    /\ co' = Resumed(SetRunning([c EXCEPT ![u].waited = FALSE], p), p)
    /\ uthreads' = uthreads - Cardinality(Reaped(u, ok)) - 1
    /\ cur' = p
    /\ zombies' = [zombies EXCEPT ![u] = IF ok THEN <<>> ELSE @]
    /\ misled' = (misled \/ co[p].at # "wait" \/ u \notin co[p].on)
    /\ UNCHANGED <<posted, onAbort, ended>>

EndZombie(u, ok) ==
    LET p == co[u].parent IN
    /\ Runs(u) /\ u \in Uthreads /\ Alive(p) /\ ~co[u].waited
    /\ co' = [Del(Over(u), Reaped(u, ok)) EXCEPT ![u].status = "zombie"]
    /\ uthreads' = uthreads - Cardinality(Reaped(u, ok))
    /\ cur' = None
    /\ zombies' = [zombies EXCEPT ![u] = IF ok THEN <<>> ELSE @, ![p] = Append(@, u)]
    /\ UNCHANGED <<posted, onAbort, ended, misled>>

AllOverMutant(n) == n = -1 /\ ~co[Entry].ref
AllOver(n) == n = 0 /\ ~co[Entry].ref

EndDetached(u, ok) ==
    LET c == Del(Over(u), Reaped(u, ok) \cup {u})
        n == uthreads - Cardinality(Reaped(u, ok)) - 1 IN
    /\ Runs(u) /\ u \in Uthreads /\ ~Alive(co[u].parent)
    /\ IF AllOver(n)
       THEN FinalizeThreads(c, n)
       ELSE /\ co' = c
            /\ uthreads' = n
            /\ cur' = None
            /\ zombies' = [zombies EXCEPT ![u] = IF ok THEN <<>> ELSE @]
            /\ UNCHANGED <<posted, onAbort, ended>>
    /\ UNCHANGED misled

EndCoro(c, ok) ==
    /\ Runs(c) /\ c \in Coros
    /\ BackTo(Del(Over(c), Reaped(c, ok)), co[c].parent)
    /\ uthreads' = uthreads - Cardinality(Reaped(c, ok))
    /\ zombies' = [zombies EXCEPT ![c] = IF ok THEN <<>> ELSE @]
    /\ UNCHANGED <<posted, onAbort, ended>>

End(ok) ==
    \/ EndEntry(ok)
    \/ \E u \in Uthreads : EndWaited(u, ok) \/ EndZombie(u, ok) \/ EndDetached(u, ok)
    \/ \E c \in Coros : EndCoro(c, ok)

----------------------------------------------------------------------------
(* The event loop.                                                         *)

\* The posted threads run before control goes back to the event loop.
RunPosted ==
    /\ cur = None /\ ~ended /\ posted # <<>>
    /\ LET t == Head(posted) IN
       IF co[t].status = "running"
       THEN /\ co' = Resumed(co, t)
            /\ cur' = t
            /\ misled' = (misled \/ co[t].at \notin {"spawn", "yield"})
       ELSE UNCHANGED <<co, cur, misled>>
    /\ posted' = Tail(posted)
    /\ UNCHANGED <<uthreads, zombies, onAbort, ended>>

InEventLoop == cur = None /\ posted = <<>> /\ ~ended

SleepHandler(t) ==
    /\ InEventLoop /\ co[t].timer
    /\ co' = Resumed([co EXCEPT ![t].timer = FALSE], t)
    /\ cur' = t
    /\ misled' = (misled \/ co[t].at # "sleep")
    /\ UNCHANGED <<uthreads, posted, zombies, onAbort, ended>>

\* The client closes the connection: the abort thread starts, or the request is
\* over.
ClientGone ==
    /\ InEventLoop
    /\ IF onAbort = None THEN FinalizeThreads(co, uthreads)
       ELSE /\ co[onAbort].status = "suspended"
            /\ co' = Resumed([co EXCEPT ![onAbort].status = "running"], onAbort)
            /\ uthreads' = uthreads + 1
            /\ cur' = onAbort
            /\ UNCHANGED <<posted, zombies, onAbort, ended>>
    /\ UNCHANGED misled

\* The next request.  What a misled thread does is not followed further.
NextRequest ==
    /\ ended \/ misled
    /\ co' = [t \in Threads |-> IF t = Entry THEN Started ELSE Absent]
    /\ cur' = Entry
    /\ uthreads' = 0
    /\ posted' = <<>>
    /\ zombies' = [t \in Threads |-> <<>>]
    /\ onAbort' = None
    /\ ended' = FALSE
    /\ misled' = FALSE

Call(t) ==
    \/ Sleep(t) \/ YieldThread(t) \/ YieldCoro(t) \/ Exit(t)
    \/ \E u \in Uthreads : Spawn(t, u) \/ Kill(t, u) \/ RegisterAbort(t, u)
    \/ \E us \in SeqOf(Uthreads, MaxArgs) \ {<<>>} : ThreadWait(t, us)
    \/ \E c \in Coros : Create(t, c) \/ Resume(t, c)

Next ==
    \/ /\ ~misled
       /\ \/ \E t \in Threads : Call(t)
          \/ \E ok \in BOOLEAN : End(ok)
          \/ RunPosted
          \/ \E t \in Threads : SleepHandler(t)
          \/ ClientGone
    \/ NextRequest

Spec == Init /\ [][Next]_vars

\* Lua code that runs on and on comes to a call that waits, or to its end.
LuaBlocks == ~misled /\ ((\E t \in Threads : Sleep(t)) \/ \E ok \in BOOLEAN : End(ok))

\* run_posted_threads is a loop; it runs to its end.
FairSpec == Spec /\ WF_vars(~misled /\ RunPosted) /\ SF_vars(LuaBlocks)

----------------------------------------------------------------------------
(* Properties.  Each speaks of the request up to the first misled step.    *)

Statuses == {"none", "running", "suspended", "normal", "dead", "zombie"}
Places == {"start", "lua", "sleep", "spawn", "yield", "wait", "resume", "yielded", "over"}

TypeOK ==
    /\ co \in [Threads -> [status : Statuses, parent : Threads \cup {None}, ref : BOOLEAN,
                           waited : BOOLEAN, timer : BOOLEAN, at : Places,
                           on : SUBSET Uthreads]]
    /\ cur \in Threads \cup {None}
    /\ uthreads \in Int /\ (misled \/ uthreads >= 0)
    /\ posted \in Seq(Threads)
    /\ zombies \in [Threads -> Seq(Uthreads)]
    /\ onAbort \in Uthreads \cup {None}
    /\ ended \in BOOLEAN /\ misled \in BOOLEAN

\* uthreads counts the user threads that are anchored, but for an abort thread
\* that has not started; a dead thread is not anchored and any other is.  Every
\* path out of run_thread, wait, kill and finalize decides for itself whether to
\* count down, and the request ends when the count is 0
\* (ngx_http_lua_util.c:1199, 1243, 3213).
UthreadsCounted ==
    misled \/ /\ uthreads = Cardinality({u \in Uthreads : co[u].ref /\ co[u].status # "suspended"})
              /\ \A u \in Uthreads : co[u].ref <=> co[u].status \notin {"none", "dead"}

\* The thread that runs is marked so, and each thread marked "normal" is in
\* coroutine.resume with one coroutine it resumed above it, which runs or has
\* resumed another; a coroutine that runs goes back to such a thread, unless
\* that was killed meanwhile.
ChainsSound ==
    misled \/ ended \/
    /\ cur # None => co[cur].status = "running" /\ co[cur].at = "lua"
    /\ \A t \in Threads : co[t].status = "normal" =>
          /\ co[t].at = "resume"
          /\ Cardinality({c \in Coros : /\ co[c].parent = t
                                        /\ co[c].status \in {"running", "normal"}}) = 1
    /\ \A c \in Coros : co[c].status \in {"running", "normal"} =>
          co[co[c].parent].status \in {"normal", "dead"}

Posts(t) == Cardinality({i \in DOMAIN posted : posted[i] = t})

\* Whoever is off the CPU will be resumed by just the event its call waits for:
\* a pending event if and only if it sleeps, one post after spawn or yield, and
\* for ngx.thread.wait a living child whose flag is set.  Once the request is
\* over no event of it is left, but for a coroutine's, which nothing cancels.
WakeupPending ==
    misled \/ \A t \in Threads : IF ended THEN co[t].timer => t \in Coros ELSE
        /\ co[t].timer <=> co[t].status = "running" /\ co[t].at = "sleep"
        /\ co[t].status = "running" /\ co[t].at \in {"spawn", "yield"} => Posts(t) = 1
        /\ co[t].status = "running" /\ co[t].at = "wait" =>
              \E u \in co[t].on : Alive(u) /\ co[u].waited /\ co[u].parent = t

ZombieHolds ==
    \E u \in Uthreads :
        co[u].status = "zombie" /\ co[co[u].parent].status \in {"suspended", "dead"}

WaitsForItself == \E t \in Threads : \E u \in co[t].on : co[u].status = "normal"

\* "the corresponding Nginx handler will not terminate until both the 'entry
\* thread' and all the user 'light threads' terminates": a request for which no
\* event is to come is over.  What is left are programs that make a coroutine wait
\* for the thread that resumed it, and one slip of the code: a zombie whose
\* parent died of an error or was killed, or is a coroutine that nobody resumes,
\* holds the request for ever.
RequestEnds ==
    \/ misled \/ ~InEventLoop \/ \E t \in Threads : co[t].timer
    \/ ZombieHolds \/ WaitsForItself

\* A thread that spawned another or yielded runs again, unless it is killed or
\* the request ends.
InPosted(t) ==
    ~misled /\ ~ended /\ co[t].status = "running" /\ co[t].at \in {"spawn", "yield"}

PostedRuns == \A t \in Threads : InPosted(t) ~> ~InPosted(t)

\* "The status of the light thread coroutine can be zombie if the current light
\* thread already terminates, its parent coroutine is still alive, and its parent
\* coroutine is not waiting on it" (ngx.thread.spawn in the documentation).
ZombieUnlessWaitedFor ==
    [][\A u \in Uthreads :
         /\ cur = u /\ co'[u].at = "over" /\ ~ended'
         /\ Alive(co[u].parent) /\ u \notin co[co[u].parent].on
         => co'[u].status = "zombie"]_vars
============================================================================
