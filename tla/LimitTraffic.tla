---------------------------- MODULE LimitTraffic ----------------------------
(***************************************************************************)
(* Limits on concurrency, as implemented by lua-resty-limit-traffic-0.04:  *)
(* limiters of resty/limit/conn.lua count requests in shared dictionaries, *)
(* and combine of resty/limit/traffic.lua asks several of them about one   *)
(* request.  A rejected request adds itself to a counter and takes itself  *)
(* off again; requests in other worker processes run between the two.      *)
(*                                                                         *)
(* Requests stands for requests of different workers, which all use the    *)
(* same limiters and keys.  The dictionaries are large enough to evict no  *)
(* counter.                                                                *)
(***************************************************************************)
EXTENDS Integers, FiniteSets

CONSTANTS
    Requests,
    N,              \* #limiters
    Max, Burst,     \* of each limiter
    DictOf, KeyOf,  \* the dictionary of each limiter, the key it is asked about
    NotFound,       \* the reply for a key that is not there
    MaxCrashes      \* bound on the requests lost with their workers

Limiters == 1..N

ASSUME LimitTrafficAssumption ==
    /\ N \in Nat \ {0}
    /\ Max \in [Limiters -> Nat \ {0}]
    /\ Burst \in [Limiters -> Nat]
    /\ DOMAIN DictOf = Limiters /\ DOMAIN KeyOf = Limiters
    /\ NotFound \notin Int
    /\ MaxCrashes \in Nat

VARIABLES
    count,      \* the counters, by dictionary and key
    pc,         \* of each request: where it is
    at,         \* the number of the call of incoming combine is in
    done,       \* the counters a request has been taken off since
    delayed,    \* whether max_delay is positive so far
    crashes

vars == <<count, pc, at, done, delayed, crashes>>

Counters == {<<DictOf[i], KeyOf[j]>> : i, j \in Limiters}
Counter(i) == <<DictOf[i], KeyOf[i]>>

Number(v) == IF v = NotFound THEN 0 ELSE v

\* dict:incr(key, by, 0), and without an initial value: nothing to increment.
IncrInit(c, by) == count' = [count EXCEPT ![c] = Number(@) + by]
Incr(c, by) ==
    count' = [count EXCEPT ![c] = IF @ = NotFound THEN NotFound ELSE @ + by]

----------------------------------------------------------------------------
(* combine asks about limiters 1 to N, committing to the last, and then    *)
(* commits to 1 to N - 1: call number c of incoming is of limiter Asked(c).*)

Calls == 1..(2 * N - 1)
Asked(c) == IF c <= N THEN c ELSE c - N

OverMutant(i, conn) == conn - 1 > Max[i] + Burst[i]
Over(i, conn) == conn > Max[i] + Burst[i]

SlowerMutant(delay, conn, i) == conn > Max[i]
Slower(delay, conn, i) == delay \/ conn > Max[i]

Init ==
    /\ count = [c \in Counters |-> NotFound]
    /\ pc = [r \in Requests |-> "none"]
    /\ at = [r \in Requests |-> 1]
    /\ done = [r \in Requests |-> 0]
    /\ delayed = [r \in Requests |-> FALSE]
    /\ crashes = 0

Arrive(r) ==
    /\ pc[r] = "none"
    /\ pc' = [pc EXCEPT ![r] = "combine"]
    /\ UNCHANGED <<count, at, done, delayed, crashes>>

Gone(r) ==
    /\ pc' = [pc EXCEPT ![r] = "none"]
    /\ at' = [at EXCEPT ![r] = 1]
    /\ done' = [done EXCEPT ![r] = 0]
    /\ delayed' = [delayed EXCEPT ![r] = FALSE]

\* incoming without commit.
DryRun(r) ==
    LET i == Asked(at[r]) conn == Number(count[Counter(i)]) + 1 IN
    /\ pc[r] = "combine" /\ at[r] < N
    /\ \/ Over(i, conn) /\ Gone(r)
       \/ ~Over(i, conn) /\ at' = [at EXCEPT ![r] = @ + 1] /\ UNCHANGED <<pc, done, delayed>>
    /\ UNCHANGED <<count, crashes>>

\* incoming with commit, as far as its first incr.
Commit(r) ==
    LET i == Asked(at[r]) conn == Number(count[Counter(i)]) + 1 IN
    /\ pc[r] = "combine" /\ at[r] >= N
    /\ IncrInit(Counter(i), 1)
    /\ \/ /\ Over(i, conn)
          /\ pc' = [pc EXCEPT ![r] = "rejected"]
          /\ UNCHANGED <<at, delayed>>
       \/ /\ ~Over(i, conn)
          /\ delayed' = [delayed EXCEPT ![r] = Slower(@, conn, i)]
          /\ IF at[r] + 1 \in Calls
             THEN at' = [at EXCEPT ![r] = @ + 1] /\ UNCHANGED pc
             ELSE at' = [at EXCEPT ![r] = 1] /\ pc' = [pc EXCEPT ![r] = "admitted"]
    /\ UNCHANGED <<done, crashes>>

WithdrawMutant(c) == UNCHANGED count
Withdraw(c) == IncrInit(c, -1)

\* The second incr of incoming takes the rejected request off again (its own +1
\* has left the counter there); combine returns, unless it is in its second
\* pass.
Reject(r) ==
    LET i == Asked(at[r]) IN
    /\ pc[r] = "rejected"
    /\ Withdraw(Counter(i))
    /\ IF at[r] > N THEN pc' = [pc EXCEPT ![r] = "undo"] /\ UNCHANGED <<at, done, delayed>>
                    ELSE Gone(r)
    /\ UNCHANGED crashes

UndoneMutant(i) == 1..i
Undone(i) == 1..(i - 1)

\* lim:uncommit(keys[j]) for the limiters before lim, the one that rejected, on
\* lim itself.
Undo(r) ==
    LET i == Asked(at[r]) j == done[r] + 1 IN
    /\ pc[r] = "undo"
    /\ \/ /\ j \in Undone(i)
          /\ Incr(<<DictOf[i], KeyOf[j]>>, -1)
          /\ done' = [done EXCEPT ![r] = j]
          /\ UNCHANGED <<pc, at, delayed>>
       \/ j \notin Undone(i) /\ Gone(r) /\ UNCHANGED count
    /\ UNCHANGED crashes

\* The request is over: its log handler calls leaving on each limiter.
Leave(r) ==
    LET j == done[r] + 1 IN
    /\ pc[r] = "admitted"
    /\ Incr(Counter(j), -1)
    /\ IF j < N THEN done' = [done EXCEPT ![r] = j] /\ UNCHANGED <<pc, at, delayed>>
                ELSE Gone(r)
    /\ UNCHANGED crashes

\* The worker of r dies, and nobody takes r off its counters.
Crash(r) ==
    /\ crashes < MaxCrashes
    /\ crashes' = crashes + 1
    /\ pc[r] # "none"
    /\ Gone(r)
    /\ UNCHANGED count

Step(r) ==
    \/ Arrive(r) \/ DryRun(r) \/ Commit(r) \/ Reject(r) \/ Undo(r) \/ Leave(r)
    \/ Crash(r)

Next == \E r \in Requests : Step(r)

Spec == Init /\ [][Next]_vars

----------------------------------------------------------------------------
(* Of the configuration.  combine calls uncommit on the limiter that       *)
(* rejected, with the key of another one.  That does no damage if what is  *)
(* decremented is the counter of that other one, or one nobody uses,       *)
(* and does what it is meant to if it is always the former.                *)

UndoApart ==
    \A i \in 1..(N - 1) : \A j \in Undone(i) : \A l \in Limiters :
        <<DictOf[i], KeyOf[j]>> = Counter(l) => Counter(l) = Counter(j)

UndoHits ==
    \A i \in 1..(N - 1) : \A j \in Undone(i) : <<DictOf[i], KeyOf[j]>> = Counter(j)

\* The last limiter's counter is no other's.
LastApart == \A i \in 1..(N - 1) : Counter(i) # Counter(N)

----------------------------------------------------------------------------
(* Properties.                                                             *)

\* A counter is never decremented for somebody who is not on it.
TypeOK ==
    /\ count \in [Counters -> Nat \cup {NotFound}]
    /\ pc \in [Requests -> {"none", "combine", "rejected", "undo", "admitted"}]
    /\ at \in [Requests -> Calls]
    /\ done \in [Requests -> 0..N]
    /\ delayed \in [Requests -> BOOLEAN]
    /\ crashes \in 0..MaxCrashes

\* r is on the counter of limiter i and may go on.
On(r, i) ==
    \/ pc[r] \in {"combine", "rejected"} /\ \E c \in Calls : N <= c /\ c < at[r] /\ Asked(c) = i
    \/ pc[r] = "admitted" /\ done[r] < i

\* No limiter lets more than max + burst requests through at a time, whatever
\* the workers' calls of combine do between each other's steps and whoever
\* crashes.
WithinLimit ==
    \A i \in Limiters : Cardinality({r \in Requests : On(r, i)}) <= Max[i] + Burst[i]

\* Of these no more than max run without a delay: the delay of one limiter is
\* not lost over the answer of another.
UndelayedWithinMax ==
    \A i \in Limiters :
        Cardinality({r \in Requests : On(r, i) /\ ~delayed[r]}) <= Max[i]

Quiet == crashes = 0 /\ \A r \in Requests : pc[r] = "none"
Leaks(i) == count[Counter(i)] \notin {0, NotFound}

\* Without a crash, once all requests are over nothing stays on the counters of
\* the limiters combine commits to in its second pass: rejections take back
\* what they committed there.
OnlyLastLeaks == Quiet => \A i \in 1..(N - 1) : ~Leaks(i)

\* What combine's documentation says: a rejected request is not committed in
\* any of the limiters.
NothingLeaks == Quiet => \A i \in Limiters : ~Leaks(i)
=============================================================================
