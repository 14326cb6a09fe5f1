--------------------------- MODULE DatabaseCache ---------------------------
(* Kong's cache of database entities in one node: every worker keeps an    *)
(* LRU cache of its own before a shared dictionary; get_or_set loads what  *)
(* neither holds under a lock of resty.lock. A change made through the     *)
(* admin API of any node is announced by serf to every node, and in a node *)
(* by worker events to every worker, which then drop the key.              *)
(* The entity is one row of the plugins table, with the key it is cached   *)
(* under and a version; for a key without a row, a marker is cached.       *)
(* Values are kept without a time to live, as the core does.               *)
EXTENDS LruCache, FiniteSets

CONSTANTS Workers, Threads, WorkerOf, Admins,
          Nobody, AllKeys,
          MaxChanges, MaxFaults

ASSUME CacheAssumption ==
    /\ WorkerOf \in [Threads -> Workers]
    /\ Nobody \notin Threads
    /\ AllKeys \notin Keys \cup {NoKey}
    /\ NoValue \notin 0..MaxChanges
    /\ MaxChanges \in Nat \ {0}

VARIABLES row,         \* the entity: identity, cache key (NoKey: none), version
          patch,       \* what an update under way has read of the row it changes
          serf,        \* events on their way to this node
          queue,       \* events that a worker has yet to handle
          lru,         \* DATA, the local cache of each worker
          shm,         \* the shared dictionary "cache"
          lock,        \* who holds the key in "cache_locks"
          thread,      \* the get_or_set calls
          faults,      \* losses, crashes, members that join, locks that lapse
          changes,     \* changes of the row so far
          excused,     \* keys whose change was not announced, or overtook a load
          lapsed       \* keys whose lock ran out while a loader was inside

db     == <<row, patch, changes>>
events == <<serf, queue>>
caches == <<lru, shm>>
calls  == <<lock, thread, lapsed>>
vars   == <<db, events, caches, calls, excused, faults>>

Missing  == 0                       \* { null = true }
Versions == Missing..MaxChanges
Absent   == [id |-> 0, at |-> NoKey, ver |-> Missing]
NotBegun == [id |-> 0, at |-> NoKey]
Idle     == [pc |-> "idle", key |-> NoKey, val |-> NoValue]

\* What load_plugin_into_memory returns for k.
Truth(k) == IF row.at = k THEN row.ver ELSE Missing

-----------------------------------------------------------------------------
(* tools/database_cache.lua                                                *)

\* The value that get returns, and what looking for it does to the local cache.
Found(w, k) == IF peek(lru[w], k) # NoValue THEN peek(lru[w], k) ELSE shm[k]

Looked(w, k) ==
    CASE peek(lru[w], k) # NoValue -> touch(lru[w], k)
      [] peek(lru[w], k) = NoValue /\ shm[k] # NoValue -> set(lru[w], k, shm[k])
      [] OTHER -> lru[w]

get(w, k) == lru' = [lru EXCEPT ![w] = Looked(w, k)]

\* Mutant: delete forgets the shared dictionary.
DropMutant(w, k) == lru' = [lru EXCEPT ![w] = delete(@, k)] /\ UNCHANGED shm

Drop(w, k) ==
    /\ lru' = [lru EXCEPT ![w] = delete(@, k)]
    /\ shm' = [shm EXCEPT ![k] = NoValue]

DropAll(w) ==
    /\ lru' = [lru EXCEPT ![w] = new]
    /\ shm' = [k \in Keys |-> NoValue]

\* unlock deletes the key of the lock, whoever holds it by now.
unlock(k) == lock' = [lock EXCEPT ![k] = Nobody]

\* get_or_set: a hit ends it; otherwise it waits for the lock of the key.
GetOrSet(t, k) ==
    /\ thread[t].pc = "idle"
    /\ get(WorkerOf[t], k)
    /\ IF Found(WorkerOf[t], k) # NoValue
       THEN UNCHANGED thread
       ELSE thread' = [thread EXCEPT ![t] = [Idle EXCEPT !.pc = "locking", !.key = k]]
    /\ UNCHANGED <<db, events, shm, lock, lapsed, excused, faults>>

\* With the lock it looks again: a hit gives the lock back, a miss calls cb.
Locked(t) ==
    LET k == thread[t].key
        w == WorkerOf[t]
    IN  /\ thread[t].pc = "locking" /\ lock[k] = Nobody
        /\ get(w, k)
        /\ IF Found(w, k) # NoValue
           THEN thread' = [thread EXCEPT ![t] = Idle] /\ UNCHANGED lock
           ELSE /\ thread' = [thread EXCEPT ![t].pc = "loading"]
                /\ lock' = [lock EXCEPT ![k] = t]
        /\ UNCHANGED <<db, events, shm, lapsed, excused, faults>>

\* Mutant: a lock that was not obtained is taken for one that was.
LockTimeoutMutant(t) ==
    /\ thread[t].pc = "locking" /\ lock[thread[t].key] # Nobody
    /\ thread' = [thread EXCEPT ![t].pc = "loading"]
    /\ UNCHANGED <<db, events, caches, lock, lapsed, excused, faults>>

\* The lock was held for all of the five seconds: the call returns nothing.
LockTimeout(t) ==
    /\ thread[t].pc = "locking" /\ lock[thread[t].key] # Nobody
    /\ thread' = [thread EXCEPT ![t] = Idle]
    /\ UNCHANGED <<db, events, caches, lock, lapsed, excused, faults>>

\* The database answers cb; the answer is as of this moment.
Load(t) ==
    /\ thread[t].pc = "loading"
    /\ thread' = [thread EXCEPT ![t].pc = "loaded", ![t].val = Truth(thread[t].key)]
    /\ UNCHANGED <<db, events, caches, lock, lapsed, excused, faults>>

\* cb returns nil and an error: nothing is set.
LoadFails(t) ==
    /\ thread[t].pc = "loading"
    /\ unlock(thread[t].key)
    /\ thread' = [thread EXCEPT ![t] = Idle]
    /\ UNCHANGED <<db, events, caches, lapsed, excused, faults>>

\* cb does not return: the lock stays.
LoadAborts(t) ==
    /\ thread[t].pc = "loading"
    /\ thread' = [thread EXCEPT ![t] = Idle]
    /\ UNCHANGED <<db, events, caches, lock, lapsed, excused, faults>>

\* The value goes into both levels, into the second if there is memory.
Store(t) ==
    LET k == thread[t].key
        w == WorkerOf[t]
    IN  /\ thread[t].pc = "loaded"
        /\ lru' = [lru EXCEPT ![w] = set(@, k, thread[t].val)]
        /\ \/ shm' = [shm EXCEPT ![k] = thread[t].val]
           \/ UNCHANGED shm
        /\ unlock(k)
        /\ thread' = [thread EXCEPT ![t] = Idle]
        /\ UNCHANGED <<db, events, lapsed, excused, faults>>

Inside(t, k) == thread[t].key = k /\ thread[t].pc \in {"loading", "loaded"}

\* The key of a lock expires, after ten seconds.
Lapse(k) ==
    /\ lock[k] # Nobody
    /\ unlock(k)
    /\ IF Inside(lock[k], k)
       THEN /\ faults < MaxFaults
            /\ faults' = faults + 1
            /\ lapsed' = lapsed \cup {k}
       ELSE UNCHANGED <<faults, lapsed>>
    /\ UNCHANGED <<db, events, caches, thread, excused>>

\* The shared dictionary removes k to make room for something else.
EvictShared(k) ==
    /\ shm[k] # NoValue
    /\ shm' = [shm EXCEPT ![k] = NoValue]
    /\ UNCHANGED <<db, events, lru, calls, excused, faults>>

-----------------------------------------------------------------------------
(* Changes of the row and their announcement: dao/dao.lua, serf.lua        *)

Event(type, r, k) == [type |-> type, id |-> r.id, key |-> k, nr |-> changes + 1]

\* The event is sent, or lost: the payload too long, or serf out of reach.
\* `moved` are the keys whose cached value the change makes wrong.
Announce(e, moved) ==
    \/ /\ serf' = serf \cup {e}
       /\ excused' = excused \cup (moved \ {e.key})
       /\ UNCHANGED faults
    \/ /\ faults < MaxFaults
       /\ faults' = faults + 1
       /\ excused' = excused \cup moved
       /\ UNCHANGED serf

Insert(k) ==
    LET r == [id |-> changes + 1, at |-> k, ver |-> changes + 1]
    IN  /\ row.at = NoKey /\ changes < MaxChanges
        /\ row' = r /\ changes' = changes + 1
        /\ Announce(Event("created", r, k), {k})
        /\ UNCHANGED <<patch, queue, caches, calls>>

\* DAO:update reads the row first, for the event...
BeginUpdate(a) ==
    /\ patch[a] = NotBegun /\ row.at # NoKey /\ changes < MaxChanges
    /\ patch' = [patch EXCEPT ![a] = [id |-> row.id, at |-> row.at]]
    /\ UNCHANGED <<row, changes, events, caches, calls, excused, faults>>

\* ... and then writes it, to a key that may be another one; the event names
\* the key that was read. A row that is gone meanwhile gives no event.
EndUpdate(a, k) ==
    /\ patch[a] # NotBegun /\ changes < MaxChanges
    /\ patch' = [patch EXCEPT ![a] = NotBegun]
    /\ IF row.at # NoKey /\ row.id = patch[a].id
       THEN /\ row' = [row EXCEPT !.at = k, !.ver = changes + 1]
            /\ changes' = changes + 1
            /\ Announce(Event("updated", row, patch[a].at), {row.at, k})
       ELSE UNCHANGED <<row, changes, serf, excused, faults>>
    /\ UNCHANGED <<queue, caches, calls>>

Delete ==
    /\ row.at # NoKey /\ changes < MaxChanges
    /\ row' = Absent /\ changes' = changes + 1
    /\ Announce(Event("deleted", row, row.at), {row.at})
    /\ UNCHANGED <<patch, queue, caches, calls>>

\* Another node joins, or comes back after a failure.
MemberEvent ==
    /\ faults < MaxFaults
    /\ faults' = faults + 1
    /\ serf' = serf \cup {[type |-> "member", id |-> 0, key |-> AllKeys, nr |-> 0]}
    /\ UNCHANGED <<db, queue, caches, calls, excused>>

-----------------------------------------------------------------------------
(* Invalidation: api/routes/cluster.lua, kong.lua, core/hooks.lua          *)

\* An update whose row is gone by now is ignored: /cluster/events relies on
\* the event of the deletion, which names the key of the row when it went.
Ignored(e) == e.type = "updated" /\ (row.at = NoKey \/ row.id # e.id)

Deliver(e) ==
    /\ e \in serf
    /\ serf' = serf \ {e}
    /\ IF Ignored(e)
       THEN excused' = excused \cup {e.key} /\ UNCHANGED queue
       ELSE /\ queue' = [w \in Workers |-> Append(queue[w], e.key)]
            /\ UNCHANGED excused
    /\ UNCHANGED <<db, caches, calls, faults>>

Named(x) == IF x = AllKeys THEN Keys ELSE {x}

\* Keys for which a loader holds a value that is no longer that of the row.
Overtaken == {k \in Keys : \E t \in Threads :
                 thread[t].pc = "loaded" /\ thread[t].key = k /\ thread[t].val # Truth(k)}

HandleEvent(w) ==
    /\ queue[w] # <<>>
    /\ queue' = [queue EXCEPT ![w] = Tail(@)]
    /\ IF Head(queue[w]) = AllKeys THEN DropAll(w) ELSE Drop(w, Head(queue[w]))
    /\ excused' = excused \cup (Overtaken \cap Named(Head(queue[w])))
    /\ UNCHANGED <<db, serf, calls, faults>>

\* The data of an event live for five seconds: a worker that is busy for
\* longer misses it.
MissEvent(w) ==
    /\ queue[w] # <<>> /\ faults < MaxFaults
    /\ queue' = [queue EXCEPT ![w] = Tail(@)]
    /\ faults' = faults + 1
    /\ excused' = excused \cup Named(Head(queue[w]))
    /\ UNCHANGED <<db, serf, caches, calls>>

\* A worker dies and another takes its place, with the events to come.
Crash(w) ==
    /\ faults < MaxFaults
    /\ faults' = faults + 1
    /\ lru' = [lru EXCEPT ![w] = new]
    /\ queue' = [queue EXCEPT ![w] = <<>>]
    /\ thread' = [t \in Threads |-> IF WorkerOf[t] = w THEN Idle ELSE thread[t]]
    /\ excused' = excused \cup UNION {Named(queue[w][i]) : i \in 1..Len(queue[w])}
    /\ UNCHANGED <<db, serf, shm, lock, lapsed>>

-----------------------------------------------------------------------------

Init ==
    /\ row \in {Absent} \cup {[id |-> 1, at |-> k, ver |-> 1] : k \in Keys}
    /\ changes = 1
    /\ patch = [a \in Admins |-> NotBegun]
    /\ serf = {}
    /\ queue = [w \in Workers |-> <<>>]
    /\ lru = [w \in Workers |-> new]
    /\ shm = [k \in Keys |-> NoValue]
    /\ lock = [k \in Keys |-> Nobody]
    /\ thread = [t \in Threads |-> Idle]
    /\ faults = 0
    /\ excused = {} /\ lapsed = {}

ThreadStep(t) ==
    \/ Locked(t) \/ LockTimeout(t)
    \/ Load(t) \/ LoadFails(t) \/ LoadAborts(t)
    \/ Store(t)

Next ==
    \/ \E t \in Threads : (\E k \in Keys : GetOrSet(t, k)) \/ ThreadStep(t)
    \/ \E k \in Keys : Lapse(k) \/ EvictShared(k) \/ Insert(k)
    \/ \E a \in Admins : BeginUpdate(a) \/ \E k \in Keys : EndUpdate(a, k)
    \/ Delete \/ MemberEvent
    \/ \E e \in serf : Deliver(e)
    \/ \E w \in Workers : HandleEvent(w) \/ MissEvent(w) \/ Crash(w)

Spec == Init /\ [][Next]_vars


-----------------------------------------------------------------------------

\* Every variable has its type.
TypeOK ==
    /\ row \in [id : 0..MaxChanges, at : Keys \cup {NoKey}, ver : Versions]
    /\ patch \in [Admins -> [id : 0..MaxChanges, at : Keys \cup {NoKey}]]
    /\ \A e \in serf : e.key \in Keys \cup {AllKeys} /\ e.nr \in Versions
    /\ queue \in [Workers -> Seq(Keys \cup {AllKeys})]
    /\ lru \in [Workers -> LruType(Versions)]
    /\ shm \in [Keys -> Versions \cup {NoValue}]
    /\ lock \in [Keys -> Threads \cup {Nobody}]
    /\ thread \in [Threads -> [ pc  : {"idle", "locking", "loading", "loaded"},
                                key : Keys \cup {NoKey},
                                val : Versions \cup {NoValue} ]]
    /\ changes \in Versions
    /\ excused \subseteq Keys /\ lapsed \subseteq Keys

\* Whatever a worker looks up, stores and drops, also after it ran out of
\* nodes, its local cache keeps its nodes and its tables in agreement
\* (resty.lrucache).
LocalConsistent == \A w \in Workers : LruConsistent(lru[w])

\* The callers that miss at the same time cause one lookup in the database,
\* not one each (the "dog-pile effect"), unless the lock of the key ran out
\* under one of them; unlock frees the lock of whoever took it since.
OneLoader ==
    \A k \in Keys \ lapsed : Cardinality({t \in Threads : Inside(t, k)}) <= 1

Announced(k)  == \E e \in serf : e.key \in {k, AllKeys}
Pending(w, k) == \E i \in 1..Len(queue[w]) : queue[w][i] \in {k, AllKeys}

Stale(w, k) == peek(lru[w], k) \notin {NoValue, Truth(k)}

\* A cache is wrong about a key only as long as the event that will correct
\* it is on its way: to the node, or to this worker, or, for the value that
\* all workers share, to every worker, since the first that handles it drops
\* that value. Excused are the keys whose event was lost, did not name them,
\* or came between the answer of the database and set.
NoSilentStaleness ==
    \A k \in Keys \ excused :
        /\ \A w \in Workers : Stale(w, k) => Announced(k) \/ Pending(w, k)
        /\ shm[k] \notin {NoValue, Truth(k)} =>
               Announced(k) \/ \A w \in Workers : Pending(w, k)
=============================================================================
