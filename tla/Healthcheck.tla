---------------------------- MODULE Healthcheck ----------------------------
(***************************************************************************)
(* resty.upstream.healthcheck: every worker runs a check cycle now and     *)
(* then.  Whoever adds the key of the lock sends the test requests, counts *)
(* the results in a shared dictionary, and turns peers down or up; a       *)
(* version in the dictionary tells the others that they have verdicts to   *)
(* read.  Each dictionary operation is a step.                             *)
(*                                                                         *)
(* Peers are those of one upstream (backup peers are a second list that is *)
(* treated alike); with concurrency they answer in any order.              *)
(***************************************************************************)
EXTENDS Integers, FiniteSets

CONSTANTS
    Workers,
    Peers,
    Nobody, None,
    Fall, Rise,     \* results in a row that turn a peer down, or up
    MaxFlips,       \* bound of the times peers die or come back
    MaxFaults       \* bound of crashes, lost keys, failed timers, late cycles

ASSUME HealthcheckAssumption ==
    /\ Fall \in Nat \ {0} /\ Rise \in Nat \ {0}
    /\ Nobody \notin Workers /\ None \notin Peers

VARIABLES
    dict,           \* "ok:" and "nok:" counters, "d:" verdicts, "v:" version
    lock,           \* who added "l:"
    ctx,            \* the checker of each worker
    alive,          \* the peers that pass the test
    flips, faults,
    streak,         \* each peer's results in a row: successes, or -failures
    torn,           \* peers of which two results were counted at the same time
    excused         \* peers whose change of verdict some worker will not learn of

vars == <<dict, lock, ctx, alive, flips, faults, streak, torn, excused>>

Results == {"ok", "nok"}
Other(r) == IF r = "ok" THEN "nok" ELSE "ok"
Needed(r) == IF r = "ok" THEN Rise ELSE Fall

\* Counters stop here: the code tells apart 0, 1, and enough for a verdict.
Cap == CHOOSE c \in {2, Fall, Rise} : \A d \in {2, Fall, Rise} : d <= c
Succ(n) == IF n < Cap THEN n + 1 ELSE Cap

\* A key that is not in the dictionary.  A version never published is 0, which
\* no check tells from a missing one.
Missing == -1

\* version, new_version and down (of each peer) are the code's; n is what the
\* current step has read.
Fresh == [pc |-> "idle", todo |-> {}, peer |-> None, result |-> "ok", n |-> 0,
          version |-> 0, new_version |-> FALSE, down |-> {}]

Init ==
    /\ dict = [count |-> [r \in Results |-> [p \in Peers |-> Missing]], down |-> {}, ver |-> 0]
    /\ lock = Nobody
    /\ ctx = [w \in Workers |-> Fresh]
    /\ alive = Peers
    /\ flips = 0 /\ faults = 0
    /\ streak = [p \in Peers |-> 0]
    /\ torn = {} /\ excused = {}

Counting(w, p) == ctx[w].pc \in {"counted", "bumped", "judging"} /\ ctx[w].peer = p

Differ(S, T) == (S \ T) \cup (T \ S)

----------------------------------------------------------------------------
(* do_check                                                                *)

\* check_peers_updates: a version that is gone is to be published anew; a later
\* one means verdicts to read.
BeginCycle(w) ==
    /\ ctx[w].pc = "idle"
    /\ IF ctx[w].version < dict.ver
       THEN ctx' = [ctx EXCEPT ![w].pc = "upgrading", ![w].todo = Peers, ![w].n = dict.ver]
       ELSE ctx' = [ctx EXCEPT ![w].pc = "begun",
                               ![w].new_version = @ \/ (dict.ver = 0 /\ ctx[w].version > 0)]
    /\ UNCHANGED <<dict, lock, alive, flips, faults, streak, torn, excused>>

\* upgrade_peers_version, for one peer; after the last one the version counts
\* as known.
UpgradePeer(w, p) ==
    LET todo == ctx[w].todo \ {p}
        read == [ctx[w] EXCEPT !.todo = todo,
                               !.down = IF p \in dict.down THEN @ \cup {p} ELSE @ \ {p}] IN
    /\ ctx[w].pc = "upgrading" /\ p \in ctx[w].todo
    /\ ctx' = [ctx EXCEPT ![w] = IF todo # {} THEN read
                                 ELSE [read EXCEPT !.pc = "begun", !.version = ctx[w].n, !.n = 0]]
    /\ UNCHANGED <<dict, lock, alive, flips, faults, streak, torn, excused>>

\* get_lock
GetLock(w) ==
    /\ ctx[w].pc = "begun"
    /\ IF lock = Nobody
       THEN lock' = w /\ ctx' = [ctx EXCEPT ![w].pc = "checking", ![w].todo = Peers]
       ELSE UNCHANGED lock /\ ctx' = [ctx EXCEPT ![w].pc = "publishing"]
    /\ UNCHANGED <<dict, alive, flips, faults, streak, torn, excused>>

\* check_peer has its answer, and peer_ok or peer_fail reads the counter.
Answer(w, p) ==
    LET r == IF p \in alive THEN "ok" ELSE "nok"
        s == streak[p] IN
    /\ ctx[w].pc = "checking" /\ p \in ctx[w].todo
    /\ ctx' = [ctx EXCEPT ![w].pc = "counted", ![w].todo = @ \ {p}, ![w].peer = p,
                          ![w].result = r, ![w].n = dict.count[r][p]]
    /\ streak' = [streak EXCEPT ![p] = IF r = "ok" THEN IF s > 0 THEN Succ(s) ELSE 1
                                       ELSE IF s < 0 THEN -Succ(-s) ELSE -1]
    /\ torn' = IF \E x \in Workers : Counting(x, p) THEN torn \cup {p} ELSE torn
    /\ UNCHANGED <<dict, lock, alive, flips, faults, excused>>

\* It sets the counter to 1 if it was missing, or increments it where it is.
Bump(w) ==
    LET c == ctx[w]
        now == dict.count[c.result][c.peer]
        n == IF c.n = Missing THEN 1 ELSE Succ(c.n) IN
    /\ c.pc = "counted"
    /\ dict' = [dict EXCEPT !.count[c.result][c.peer] =
                  IF c.n = Missing THEN 1 ELSE IF now = Missing THEN Missing ELSE Succ(now)]
    /\ ctx' = [ctx EXCEPT ![w].n = n, ![w].pc = IF n = 1 THEN "bumped" ELSE "judging"]
    /\ UNCHANGED <<lock, alive, flips, faults, streak, torn, excused>>

\* Mutant: the first result of its kind does not end the row of the others.
ResetMutant(w) ==
    /\ ctx[w].pc = "bumped"
    /\ ctx' = [ctx EXCEPT ![w].pc = "judging"]
    /\ UNCHANGED <<dict, lock, alive, flips, faults, streak, torn, excused>>

\* Mutant: the other counter goes down by one, whether it is there or not.
ResetByOneMutant(w) ==
    LET c == ctx[w] IN
    /\ c.pc = "bumped"
    /\ dict' = [dict EXCEPT !.count[Other(c.result)][c.peer] = @ - 1]
    /\ ctx' = [ctx EXCEPT ![w].pc = "judging"]
    /\ UNCHANGED <<lock, alive, flips, faults, streak, torn, excused>>

\* The first result of its kind ends the row of the others.
Reset(w) ==
    LET c == ctx[w] IN
    /\ c.pc = "bumped"
    /\ dict' = [dict EXCEPT !.count[Other(c.result)][c.peer] = IF @ = Missing THEN @ ELSE 0]
    /\ ctx' = [ctx EXCEPT ![w].pc = "judging"]
    /\ UNCHANGED <<lock, alive, flips, faults, streak, torn, excused>>

\* On to the next peer, or out of the loop.
Onward(c) == [c EXCEPT !.pc = IF c.todo = {} THEN "publishing" ELSE "checking",
                       !.peer = None, !.result = "ok", !.n = 0]

\* Mutant: the others are not told.
TurnMutant(c, p, down) == [c EXCEPT !.down = IF down THEN @ \cup {p} ELSE @ \ {p}]

\* The part of set_peer_down_globally that is the worker's own.
Turn(c, p, down) == [c EXCEPT !.down = IF down THEN @ \cup {p} ELSE @ \ {p},
                              !.new_version = TRUE]

\* A peer is turned down by fall failures, up by rise successes, here and in the
\* dictionary.
Judge(w) ==
    LET c == ctx[w]
        down == c.result = "nok" IN
    /\ c.pc = "judging"
    /\ IF (c.peer \in c.down) # down /\ c.n >= Needed(c.result)
       THEN /\ ctx' = [ctx EXCEPT ![w] = Onward(Turn(c, c.peer, down))]
            /\ dict' = [dict EXCEPT !.down = IF down THEN @ \cup {c.peer} ELSE @ \ {c.peer}]
       ELSE ctx' = [ctx EXCEPT ![w] = Onward(c)] /\ UNCHANGED dict
    /\ UNCHANGED <<lock, alive, flips, faults, streak, torn, excused>>

\* The version that a worker knows, or is about to.
Known(w) == IF ctx[w].pc = "upgrading" THEN ctx[w].n ELSE ctx[w].version

\* Workers that have, from before the version was lost, the number that w is
\* about to publish, and w itself if it has not read what was published last.
Unaware(w) ==
    {x \in Workers \ {w} : Known(x) = dict.ver + 1}
    \cup {x \in {w} : ctx[w].version # dict.ver}

\* add and incr of the version.
Publish(w) ==
    /\ ctx[w].pc = "publishing"
    /\ IF ctx[w].new_version
       THEN /\ dict' = [dict EXCEPT !.ver = @ + 1]
            /\ ctx' = [ctx EXCEPT ![w].pc = "idle", ![w].new_version = FALSE,
                                  ![w].version = dict.ver + 1]
            /\ excused' = excused \cup UNION {Differ(ctx[x].down, dict.down) : x \in Unaware(w)}
       ELSE /\ ctx' = [ctx EXCEPT ![w].pc = "idle"]
            /\ UNCHANGED <<dict, excused>>
    /\ UNCHANGED <<lock, alive, flips, faults, streak, torn>>

----------------------------------------------------------------------------
(* Time, peers and faults.                                                 *)

\* A cycle that is not over, or one that began before the last publication.
Late(w) ==
    \/ ctx[w].pc \in {"checking", "counted", "bumped", "judging"}
    \/ ctx[w].pc = "publishing" /\ ctx[w].new_version
    \/ ctx[w].pc \in {"upgrading", "begun"} /\ Known(w) # dict.ver

\* The interval is over, and with it the lock.  That a cycle should last longer,
\* or stop halfway for so long, is a fault: nothing in the code prevents it.
Expire ==
    /\ lock # Nobody
    /\ lock' = Nobody
    /\ IF \E w \in Workers : Late(w)
       THEN faults < MaxFaults /\ faults' = faults + 1
       ELSE UNCHANGED faults
    /\ UNCHANGED <<dict, ctx, alive, flips, streak, torn, excused>>

Flip(p) ==
    /\ flips < MaxFlips
    /\ flips' = flips + 1
    /\ alive' = Differ(alive, {p})
    /\ UNCHANGED <<dict, lock, ctx, faults, streak, torn, excused>>

\* A worker dies, with the peers it had turned down; another takes its place.
Crash(w) ==
    /\ faults < MaxFaults
    /\ faults' = faults + 1
    /\ ctx' = [ctx EXCEPT ![w] = Fresh]
    /\ torn' = torn \cup {p \in Peers : Counting(w, p)}
    /\ excused' = IF ctx[w].new_version \/ dict.ver = 0
                  THEN excused \cup UNION {Differ(ctx'[x].down, dict.down) : x \in Workers}
                  ELSE excused
    /\ UNCHANGED <<dict, lock, alive, flips, streak>>

\* The timer of the next cycle cannot be created.
StopChecker(w) ==
    /\ ctx[w].pc = "idle" /\ faults < MaxFaults
    /\ faults' = faults + 1
    /\ ctx' = [ctx EXCEPT ![w].pc = "stopped"]
    /\ UNCHANGED <<dict, lock, alive, flips, streak, torn, excused>>

\* The dictionary, which may serve others too, evicts a key.
LoseVersion ==
    /\ dict.ver # 0 /\ faults < MaxFaults
    /\ faults' = faults + 1
    /\ dict' = [dict EXCEPT !.ver = 0]
    /\ excused' = excused \cup UNION {Differ(ctx[x].down, dict.down) :
                                         x \in {y \in Workers : ctx[y].version = 0}}
    /\ UNCHANGED <<lock, ctx, alive, flips, streak, torn>>

LosePeerKey(p) ==
    /\ faults < MaxFaults
    /\ faults' = faults + 1
    /\ \/ /\ \E r \in Results : dict' = [dict EXCEPT !.count[r][p] = Missing]
          /\ UNCHANGED excused
       \/ /\ p \in dict.down
          /\ dict' = [dict EXCEPT !.down = @ \ {p}]
          /\ excused' = excused \cup {p}
    /\ UNCHANGED <<lock, ctx, alive, flips, streak, torn>>

Cycle(w) ==
    \/ BeginCycle(w) \/ GetLock(w) \/ Bump(w) \/ Reset(w) \/ Judge(w) \/ Publish(w)
    \/ \E p \in Peers : UpgradePeer(w, p) \/ Answer(w, p)

Next ==
    \/ \E w \in Workers : Cycle(w) \/ Crash(w) \/ StopChecker(w)
    \/ \E p \in Peers : Flip(p) \/ LosePeerKey(p)
    \/ Expire \/ LoseVersion

Spec == Init /\ [][Next]_vars

\* Timers fire, cycles run to their end, and keys expire.
FairSpec == Spec /\ (\A w \in Workers : WF_vars(Cycle(w))) /\ WF_vars(Expire)

----------------------------------------------------------------------------
(* Properties.                                                             *)

TypeOK ==
    /\ dict \in [count : [Results -> [Peers -> Missing..Cap]], down : SUBSET Peers, ver : Nat]
    /\ lock \in Workers \cup {Nobody}
    /\ ctx \in [Workers ->
          [pc : {"idle", "upgrading", "begun", "checking", "counted", "bumped", "judging",
                 "publishing", "stopped"},
           todo : SUBSET Peers, peer : Peers \cup {None}, result : Results, n : Int,
           version : Nat, new_version : BOOLEAN, down : SUBSET Peers]]
    /\ alive \subseteq Peers
    /\ streak \in [Peers -> -Cap..Cap]
    /\ torn \subseteq Peers /\ excused \subseteq Peers

\* "fall: # of successive failures before turning a peer down", "rise: # of
\* successive successes before turning a peer up": though the row is kept in
\* two counters that workers read, increment and reset one by one, every verdict
\* is one, unless two results for the peer were once counted at the same time,
\* or a worker died in the middle.
VerdictEarned ==
    [][\A w \in Workers : LET c == ctx[w] IN
         /\ c.pc = "judging" /\ c.peer \notin torn
         /\ (c.peer \in ctx'[w].down) # (c.peer \in c.down)
         /\ ctx'[w].pc # "idle"
         => IF c.result = "ok" THEN streak[c.peer] >= Rise ELSE streak[c.peer] <= -Fall]_vars

Unread(w) == IF ctx[w].pc = "upgrading" THEN ctx[w].todo ELSE {}

\* A worker disagrees with the shared verdict on a peer only while it has a
\* version to catch up with or somebody has yet to publish one.  A worker that
\* publishes counts as knowing the version before, which it may not have read;
\* what it misses that way is excused, and so are verdicts that were lost.
NoSilentDivergence ==
    \A w \in Workers :
        \/ Differ(ctx[w].down, dict.down) \subseteq excused \cup Unread(w)
        \/ Known(w) # dict.ver
        \/ \E x \in Workers : ctx[x].new_version

Undisturbed ==
    /\ excused = {}
    /\ \A w \in Workers : ctx[w].pc # "stopped" /\ ctx[w].version <= dict.ver

\* Peers that stay as they are come to be seen as they are by every worker, also
\* after workers died, cycles took too long or counters were lost; but for what
\* NoSilentDivergence excuses, workers without a timer, and workers that are
\* ahead of a version that was lost.
ViewsSettle ==
    <>[](flips = MaxFlips /\ Undisturbed)
        => <>[](\A w \in Workers : ctx[w].down = Peers \ alive)
=============================================================================
