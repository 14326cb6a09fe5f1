----------------------------- MODULE RestyLock -----------------------------
(***************************************************************************)
(* Locks on the keys of a shared dictionary, as implemented by             *)
(* lua-resty-lock-0.07/lib/resty/lock.lua.  A lock is an entry of the      *)
(* dictionary that expires; a light thread that finds it there polls, with *)
(* growing pauses, until its timeout.  The object that took the lock keeps *)
(* only a reference to the key, in the memo table of its worker, and       *)
(* nothing in the entry tells whose it is.                                 *)
(*                                                                         *)
(* Each operation of the dictionary is atomic (ShDict.tla); between two of *)
(* them any other object may run, time passes and workers crash.  Time is  *)
(* counted in milliseconds and only as what remains: the model has no      *)
(* clock to bound.                                                         *)
(***************************************************************************)
EXTENDS Integers, FiniteSets

CONSTANTS
    Keys,
    Objects,        \* slots for resty.lock objects, one per light thread
    Workers,
    WorkerOf,       \* the worker process each object lives in
    Dict,           \* the dictionary, as memo refers to it
    Options,        \* opts of new: timeout, exptime, step, each Nil or a number
    Nil,
    ExpireTimes,    \* arguments of expire
    Capacity,       \* entries that fit in the dictionary
    DefaultTimeout, DefaultExptime, DefaultStep, Ratio, MaxStep

ASSUME RestyLockAssumption ==
    /\ WorkerOf \in [Objects -> Workers]
    /\ Dict \notin Keys
    /\ Nil \notin Nat \cup Keys \cup {Dict}
    /\ \A opt \in Options :
          /\ opt.timeout \in Nat \cup {Nil}
          /\ opt.exptime \in (Nat \ {0}) \cup {Nil}
          /\ opt.step \in Nat \cup {Nil}
    /\ ExpireTimes \subseteq Nat \ {0}
    /\ Capacity \in Nat
    /\ DefaultTimeout \in Nat /\ DefaultExptime \in Nat \ {0}
    /\ DefaultStep \in Nat \ {0} /\ Ratio \in Nat /\ MaxStep \in Nat \ {0}

VARIABLES
    store,      \* the dictionary: the lock entries and their time to live
    memo,       \* the memo table of each worker
    pc,         \* of each object: "none" if there is none, "idle" between two
                \* calls, "sleeping" inside lock
    conf,       \* timeout, exptime and step of each object
    dict_id,    \* cdata.dict_id of each object
    key_id,     \* cdata.key_id of each object, 0 if it holds no lock
    key,        \* self.key of each object, or the key lock is waiting for
    wait,       \* the local variables of lock, and what is left of the pause
    lease,      \* time for which what the object locked is still its own
    misused,    \* somebody released or extended a lock after its lease
    evicted     \* a live lock made room for another entry

callVars == <<pc, conf, dict_id, key_id, key, wait>>
vars == <<store, memo, pc, conf, dict_id, key_id, key, wait, lease, misused, evicted>>

Lesser(a, b) == IF a < b THEN a ELSE b
Greater(a, b) == IF a > b THEN a ELSE b

----------------------------------------------------------------------------
(* The memo table: values by reference, and a free list threaded through   *)
(* the freed slots, headed in slot FREE_LIST_REF.                          *)

FREE_LIST_REF == 0
Empty == [i \in {} |-> Nil]

Slot(m, i) == IF i \in DOMAIN m THEN m[i] ELSE Nil

\* m[i] = v; assigning nil removes the slot.
Assign(m, i, v) ==
    IF v = Nil THEN [j \in DOMAIN m \ {i} |-> m[j]]
    ELSE [j \in DOMAIN m \cup {i} |-> IF j = i THEN v ELSE m[j]]

\* #m + 1
Border(m) == CHOOSE i \in 1..(Cardinality(DOMAIN m) + 1) :
                i \notin DOMAIN m /\ (i = 1 \/ i - 1 \in DOMAIN m)

\* ref_obj: the reference it returns and the table it leaves.
NewRef(m) == IF Slot(m, FREE_LIST_REF) # Nil THEN m[FREE_LIST_REF] ELSE Border(m)

PopFreeMutant(m) == m
PopFree(m) ==
    IF Slot(m, FREE_LIST_REF) # Nil
    THEN Assign(m, FREE_LIST_REF, Slot(m, m[FREE_LIST_REF])) ELSE m

RefObj(m, x) == Assign(PopFree(m), NewRef(m), x)

UnrefObj(m, r) == Assign(Assign(m, r, Slot(m, FREE_LIST_REF)), FREE_LIST_REF, r)

----------------------------------------------------------------------------
(* The dictionary as its clients see it.                                   *)

\* An entry is found at the millisecond of its expiry, unless that operation's
\* own expire(1) frees it.
Busy(k) == k \in DOMAIN store
FreeMutant(k) == TRUE
Free(k) == k \in DOMAIN store => store[k] = 0

Put(s, k, ttl) == [x \in DOMAIN s \cup {k} |-> IF x = k THEN ttl ELSE s[x]]
Drop(s, k) == [x \in DOMAIN s \ {k} |-> s[x]]

\* dict:add succeeds, evicting another entry if the dictionary is full.
Add(k, exptime) ==
    /\ Free(k)
    /\ \/ /\ Cardinality(DOMAIN store \cup {k}) <= Capacity
          /\ store' = Put(store, k, exptime)
          /\ UNCHANGED evicted
       \/ /\ Cardinality(DOMAIN store \cup {k}) > Capacity
          /\ \E x \in DOMAIN store \ {k} : store' = Put(Drop(store, x), k, exptime)
          /\ evicted' = TRUE

----------------------------------------------------------------------------
NoWait == [left |-> 0, step |-> 0, elapsed |-> 0, nap |-> 0]

Init ==
    /\ store = Empty
    /\ memo = [w \in Workers |-> Empty]
    /\ pc = [o \in Objects |-> "none"]
    /\ conf = [o \in Objects |-> Nil]
    /\ dict_id = [o \in Objects |-> 0]
    /\ key_id = [o \in Objects |-> 0]
    /\ key = [o \in Objects |-> Nil]
    /\ wait = [o \in Objects |-> NoWait]
    /\ lease = [o \in Objects |-> 0]
    /\ misused = FALSE
    /\ evicted = FALSE

Default(v, d) == IF v = Nil THEN d ELSE v

Settings(opt) ==
    LET exptime == Default(opt.exptime, DefaultExptime)
        timeout == IF opt.timeout = Nil THEN DefaultTimeout ELSE Lesser(opt.timeout, exptime)
        step == IF opt.step = Nil THEN DefaultStep
                ELSE IF opt.timeout = Nil THEN opt.step ELSE Lesser(opt.step, timeout)
    IN  [timeout |-> timeout, exptime |-> exptime, step |-> step]

New(o, opt) ==
    /\ pc[o] = "none"
    /\ pc' = [pc EXCEPT ![o] = "idle"]
    /\ conf' = [conf EXCEPT ![o] = Settings(opt)]
    /\ dict_id' = [dict_id EXCEPT ![o] = NewRef(memo[WorkerOf[o]])]
    /\ memo' = [memo EXCEPT ![WorkerOf[o]] = RefObj(@, Dict)]
    /\ UNCHANGED <<store, key_id, key, wait, lease, misused, evicted>>

\* dict:add returned true: o holds k.
Acquire(o, k) ==
    /\ Add(k, conf[o].exptime)
    /\ pc' = [pc EXCEPT ![o] = "idle"]
    /\ key_id' = [key_id EXCEPT ![o] = NewRef(memo[WorkerOf[o]])]
    /\ memo' = [memo EXCEPT ![WorkerOf[o]] = RefObj(@, k)]
    /\ key' = [key EXCEPT ![o] = k]
    /\ lease' = [lease EXCEPT ![o] = conf[o].exptime]
    /\ wait' = [wait EXCEPT ![o] = NoWait]
    /\ UNCHANGED <<conf, dict_id, misused>>

\* lock finds the key free.
LockAtOnce(o, k) ==
    /\ pc[o] = "idle" /\ key_id[o] = 0
    /\ Acquire(o, k)

\* lock finds the key taken and, with a timeout, goes to sleep.
LockBusy(o, k) ==
    /\ pc[o] = "idle" /\ key_id[o] = 0
    /\ Busy(k)
    /\ conf[o].timeout > 0
    /\ pc' = [pc EXCEPT ![o] = "sleeping"]
    /\ key' = [key EXCEPT ![o] = k]
    /\ wait' = [wait EXCEPT ![o] = [left |-> conf[o].timeout, step |-> conf[o].step,
                                    elapsed |-> 0, nap |-> conf[o].step]]
    /\ UNCHANGED <<store, memo, conf, dict_id, key_id, lease, misused, evicted>>

NextStepMutant(step, left) == Lesser(Greater(1, step * Ratio), MaxStep)
NoFloorMutant(step, left) == Lesser(Lesser(step * Ratio, left), MaxStep)
NextStep(step, left) == Lesser(Lesser(Greater(1, step * Ratio), left), MaxStep)

\* The pause is over and the key still taken: sleep on, or give up.
WakeBusy(o) ==
    LET left == wait[o].left - wait[o].step
        step == NextStep(wait[o].step, left) IN
    /\ pc[o] = "sleeping" /\ wait[o].nap = 0
    /\ Busy(key[o])
    /\ \/ /\ left > 0
          /\ wait' = [wait EXCEPT ![o] = [left |-> left, step |-> step, nap |-> step,
                                          elapsed |-> @.elapsed + @.step]]
          /\ UNCHANGED pc
       \/ /\ left <= 0
          /\ wait' = [wait EXCEPT ![o] = NoWait]
          /\ pc' = [pc EXCEPT ![o] = "idle"]
    /\ UNCHANGED <<store, memo, conf, dict_id, key_id, key, lease, misused, evicted>>

WakeFree(o) ==
    /\ pc[o] = "sleeping" /\ wait[o].nap = 0
    /\ Acquire(o, key[o])

\* add finds no room and lock returns its error; a first add that fails so
\* changes nothing.
AddFails(o) ==
    /\ pc[o] = "sleeping" /\ wait[o].nap = 0
    /\ Free(key[o]) /\ Cardinality(DOMAIN store \cup {key[o]}) > Capacity
    /\ wait' = [wait EXCEPT ![o] = NoWait]
    /\ pc' = [pc EXCEPT ![o] = "idle"]
    /\ UNCHANGED <<store, memo, conf, dict_id, key_id, key, lease, misused, evicted>>

----------------------------------------------------------------------------
Stale(o) == lease[o] = 0

\* The key o's reference stands for is deleted, whoever put it there.
Release(o, m) ==
    /\ store' = Drop(store, m[key_id[o]])
    /\ key_id' = [key_id EXCEPT ![o] = 0]
    /\ lease' = [lease EXCEPT ![o] = 0]
    /\ misused' = (misused \/ Stale(o))

Unlock(o) ==
    LET w == WorkerOf[o] IN
    /\ pc[o] = "idle" /\ key_id[o] > 0
    /\ Release(o, memo[w])
    /\ memo' = [memo EXCEPT ![w] = UnrefObj(@, key_id[o])]
    /\ UNCHANGED <<pc, conf, dict_id, key, wait, evicted>>

\* expire, with a time or with nil for the exptime of new; dict:replace may
\* find no entry.
Expire(o) ==
    /\ pc[o] = "idle" /\ key_id[o] > 0
    /\ Busy(key[o])
    /\ \E time \in ExpireTimes \cup {conf[o].exptime} :
          /\ store' = Put(store, key[o], time)
          /\ lease' = [lease EXCEPT ![o] = time]
    /\ misused' = (misused \/ Stale(o))
    /\ UNCHANGED <<memo, callVars, evicted>>

\* The light thread is killed while it waits: its object is garbage.
Abandon(o) ==
    /\ pc[o] = "sleeping"
    /\ pc' = [pc EXCEPT ![o] = "idle"]
    /\ wait' = [wait EXCEPT ![o] = NoWait]
    /\ UNCHANGED <<store, memo, conf, dict_id, key_id, key, lease, misused, evicted>>

\* gc_lock: the collector finds the object.
Collect(o) ==
    LET w == WorkerOf[o]
        m == IF key_id[o] > 0 THEN UnrefObj(memo[w], key_id[o]) ELSE memo[w] IN
    /\ pc[o] = "idle"
    /\ \/ key_id[o] > 0 /\ Release(o, memo[w])
       \/ key_id[o] = 0 /\ UNCHANGED <<store, key_id, lease, misused>>
    /\ memo' = [memo EXCEPT ![w] = UnrefObj(m, dict_id[o])]
    /\ pc' = [pc EXCEPT ![o] = "none"]
    /\ dict_id' = [dict_id EXCEPT ![o] = 0]
    /\ conf' = [conf EXCEPT ![o] = Nil]
    /\ key' = [key EXCEPT ![o] = Nil]
    /\ UNCHANGED <<wait, evicted>>

\* A worker process dies and is respawned: its Lua VM is gone, the dictionary
\* is not.
Crash(w) ==
    LET Lost(f, v) == [o \in Objects |-> IF WorkerOf[o] = w THEN v ELSE f[o]] IN
    /\ memo' = [memo EXCEPT ![w] = Empty]
    /\ pc' = Lost(pc, "none")
    /\ conf' = Lost(conf, Nil)
    /\ dict_id' = Lost(dict_id, 0)
    /\ key_id' = Lost(key_id, 0)
    /\ key' = Lost(key, Nil)
    /\ wait' = Lost(wait, NoWait)
    /\ lease' = Lost(lease, 0)
    /\ UNCHANGED <<store, misused, evicted>>

NegativeMutant(s) == [k \in DOMAIN s |-> s[k] - 1]
AgedMutant(s) == [k \in DOMAIN s |-> Greater(s[k] - 1, 0)]
Aged(s) == [k \in {x \in DOMAIN s : s[x] > 0} |-> s[k] - 1]

\* A millisecond passes.
Tick ==
    /\ store' = Aged(store)
    /\ lease' = [o \in Objects |-> Greater(lease[o] - 1, 0)]
    /\ wait' = [o \in Objects |-> [wait[o] EXCEPT !.nap = Greater(@ - 1, 0)]]
    /\ UNCHANGED <<memo, pc, conf, dict_id, key_id, key, misused, evicted>>

Wake(o) == WakeBusy(o) \/ WakeFree(o) \/ AddFails(o)

Step(o) ==
    \/ \E opt \in Options : New(o, opt)
    \/ \E k \in Keys : LockAtOnce(o, k) \/ LockBusy(o, k)
    \/ Wake(o) \/ Unlock(o) \/ Expire(o) \/ Abandon(o) \/ Collect(o)

Next ==
    \/ \E o \in Objects : Step(o)
    \/ \E w \in Workers : Crash(w)
    \/ Tick

Spec == Init /\ [][Next]_vars

\* Time passes, and the event loop runs the timer of every sleep that is over.
Fairness == WF_vars(Tick) /\ \A o \in Objects : WF_vars(Wake(o))

FairSpec == Spec /\ Fairness

----------------------------------------------------------------------------
(* Properties.                                                             *)

Refs == Nat \ {0}

Conf == [timeout : Nat, exptime : Nat \ {0}, step : Nat]

\* Types.
CallsTyped ==
    /\ pc \in [Objects -> {"none", "idle", "sleeping"}]
    /\ conf \in [Objects -> Conf \cup {Nil}]
    /\ dict_id \in [Objects -> Nat] /\ key_id \in [Objects -> Nat]
    /\ \A o \in Objects : pc[o] # "none" => conf[o] \in Conf /\ dict_id[o] \in Refs
    /\ key \in [Objects -> Keys \cup {Nil}]
    /\ wait \in [Objects -> [left : Nat, step : Nat, elapsed : Nat, nap : Nat]]
    /\ lease \in [Objects -> Nat]
    /\ misused \in BOOLEAN /\ evicted \in BOOLEAN

StoreTyped == DOMAIN store \subseteq Keys /\ \A k \in DOMAIN store : store[k] \in Nat

MemoTyped ==
    \A w \in Workers :
        /\ DOMAIN memo[w] \subseteq Nat
        /\ \A i \in DOMAIN memo[w] : memo[w][i] \in Keys \cup {Dict} \cup Refs

TypeOK == CallsTyped /\ StoreTyped /\ DOMAIN memo = Workers /\ MemoTyped

Holds(o, k) == pc[o] = "idle" /\ key_id[o] > 0 /\ key[o] = k

\* The mutual exclusion of lock: two objects never hold the same key within
\* their leases, unless somebody released or extended a lock whose lease was
\* over, or the dictionary was too small and evicted one.
Exclusive ==
    misused \/ evicted \/
    \A o, p \in Objects, k \in Keys :
        Holds(o, k) /\ Holds(p, k) /\ lease[o] > 0 /\ lease[p] > 0 => o = p

\* References are never shared between objects and stand for what they were
\* made for, so that unlock and the collector delete the key that was locked,
\* in whatever order objects of a worker are made, locked, unlocked and
\* collected.
MemoConsistent ==
    \A o \in Objects : pc[o] # "none" =>
        LET m == memo[WorkerOf[o]] IN
        /\ Slot(m, dict_id[o]) = Dict
        /\ key_id[o] > 0 => Slot(m, key_id[o]) = key[o]
        /\ \A p \in Objects \ {o} : (pc[p] # "none" /\ WorkerOf[p] = WorkerOf[o]) =>
              /\ dict_id[p] # dict_id[o]
              /\ key_id[o] > 0 => key_id[p] # key_id[o]

\* When the pause it is in ends, a call of lock has slept no longer than its
\* timeout, or than its first step where new was given a step beyond the
\* default timeout (only a timeout that is given cuts the step).
WaitWithinTimeout ==
    \A o \in Objects : pc[o] = "sleeping" =>
        wait[o].elapsed + wait[o].step <= Greater(conf[o].timeout, conf[o].step)

\* Every call of lock returns.
LockReturns == \A o \in Objects : (pc[o] = "sleeping") ~> (pc[o] # "sleeping")

\* A lock whose holder is gone without unlocking, in a crash for instance, does
\* not stay: the entry goes, or somebody locks the key again.
OrphanFreed ==
    \A k \in Keys :
        (k \in DOMAIN store /\ \A o \in Objects : ~Holds(o, k))
        ~> (k \notin DOMAIN store \/ \E o \in Objects : Holds(o, k))

============================================================================
