------------------------- MODULE ClassicSemaphore -------------------------
(***************************************************************************)
(* What ngx.semaphore promises its callers, without the event loop: a      *)
(* counting semaphore whose blocked callers are served in the order they   *)
(* arrived, and where a resource made available to a blocked caller is     *)
(* eventually handed over.  Semaphore.tla, the model of                    *)
(* ngx_http_lua_semaphore.c, implements this specification.                *)
(***************************************************************************)
EXTENDS Integers, Sequences, SequencesExt

CONSTANT Threads

VARIABLES
    value,      \* resources nobody holds
    waiters,    \* blocked callers, oldest first
    outcome     \* what each thread's last wait returned

vars == <<value, waiters, outcome>>

Outcomes == {"none", "ok", "timeout"}

Init ==
    /\ value \in Nat
    /\ waiters = <<>>
    /\ outcome = [t \in Threads |-> "none"]

Blocked(t) == \E i \in 1..Len(waiters) : waiters[i] = t

Release ==
    /\ value' \in Nat /\ value' > value
    /\ UNCHANGED <<waiters, outcome>>

\* A caller never overtakes the blocked ones.
TakeAtOnce(t) ==
    /\ waiters = <<>> /\ value > 0
    /\ value' = value - 1
    /\ outcome' = [outcome EXCEPT ![t] = "ok"]
    /\ UNCHANGED waiters

Refuse(t) ==
    /\ ~(waiters = <<>> /\ value > 0)
    /\ ~Blocked(t)
    /\ outcome' = [outcome EXCEPT ![t] = "timeout"]
    /\ UNCHANGED <<value, waiters>>

Block(t) ==
    /\ ~(waiters = <<>> /\ value > 0)
    /\ ~Blocked(t)
    /\ waiters' = Append(waiters, t)
    /\ outcome' = [outcome EXCEPT ![t] = "none"]
    /\ UNCHANGED value

\* The oldest blocked caller is handed exactly one resource.
Grant ==
    /\ waiters # <<>> /\ value > 0
    /\ value' = value - 1
    /\ waiters' = Tail(waiters)
    /\ outcome' = [outcome EXCEPT ![Head(waiters)] = "ok"]

\* A blocked caller gives up (timeout) or disappears (its thread is killed).
Leave ==
    \E i \in 1..Len(waiters) :
        /\ waiters' = RemoveAt(waiters, i)
        /\ \/ outcome' = [outcome EXCEPT ![waiters[i]] = "timeout"]
           \/ UNCHANGED outcome
        /\ UNCHANGED value

\* A thread slot is reused by a new thread.
Forget(t) ==
    /\ ~Blocked(t)
    /\ outcome' = [outcome EXCEPT ![t] = "none"]
    /\ UNCHANGED <<value, waiters>>

Next ==
    \/ Release \/ Grant \/ Leave
    \/ \E t \in Threads : TakeAtOnce(t) \/ Refuse(t) \/ Block(t) \/ Forget(t)

Safety == Init /\ [][Next]_vars

Spec == Safety /\ WF_vars(Grant)
===========================================================================
