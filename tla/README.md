# Verification of the concurrent core of OpenResty

OpenResty is nginx with Lua inside. Most of `src/bundle` is code of others that
it packages (nginx, LuaJIT, OpenSSL, protocol clients, Kong); what is its own
and carries its promises is the layer that lets many Lua *light threads* in
many worker *processes* share things: semaphores within a worker, dictionaries
in shared memory between workers, locks and traffic limits built on those
dictionaries, connections kept between requests. That layer is what the modules
here model, and on top of it one application in the tree that uses all of it:
Kong's cache of database entities.

1. [Inventory](#1-inventory)
2. [Modules and how they correspond to the code](#2-modules-and-how-they-correspond-to-the-code)
3. [Runs, bounds, fairness](#3-runs-bounds-fairness)
4. [Proofs](#4-proofs)
5. [Disagreements between code and documentation](#5-disagreements-between-code-and-documentation)
6. [What is not modelled](#6-what-is-not-modelled)
7. [Plan](#7-plan)

To check everything, inside `tla/`: `tlc -workers 2 -config X.cfg M` for each
run of `PROJECT.json`, and `tlapm X.tla` for each module `X` named `...Proofs`.

## 1. Inventory

`ngx_lua` stands for `src/bundle/ngx_lua-0.10.10/src`.

| component | state | operations | interacts with |
|---|---|---|---|
| `ngx.semaphore` (`ngx_http_lua_semaphore.c`, `ngx/semaphore.lua`) | `resource_count`, `wait_count`, `wait_queue`, the posted event `sem_event`; per waiting thread a timer and a cleanup callback | `new`, `post`, `wait`, `count`, the event handler, the timeout handler, the cleanup | light threads, event loop |
| light threads (`ngx_http_lua_util.c`, `_uthread.c`, `_coroutine.c`) | per thread its status, parent, anchor, `waited_by_parent` and zombie children; per request `uthreads`, `posted_threads`, the abort thread | run, spawn, wait, kill, resume, yield, exit, finalize | everything that yields |
| semaphore memory manager (same file) | blocks, free queue, `used` counts, generations | alloc, free, release of idle blocks | semaphore life cycle |
| `lua_shared_dict` (`ngx_http_lua_shdict.c`, `resty/core/shdict.lua`) | LRU queue, red-black tree, slab pool, in shared memory under one mutex | scalar, list, flush and listing operations | all workers |
| `resty.lock` | one expiring entry per lock; per worker the `memo` table of references and its free list; per object `key_id`, `dict_id` | `new`, `lock`, `unlock`, `expire`, the collector | shared dict, sleep, the Lua collector |
| `resty.limit.conn`, `.req`, `.traffic` | one counter (or leaky bucket) per key in a dictionary | `incoming`, `leaving`, `uncommit`, `combine` | shared dict |
| `resty.upstream.healthcheck` | verdict, counters and version of each peer in a dictionary; one lock entry per period | periodic check by whichever worker gets the lock | shared dict, timers, cosockets |
| `resty.lrucache` | hash and two queues, one worker | `get`, `set`, `delete` | the cache below |
| Kong `database_cache` (with `dao.lua`, `serf.lua`, `cluster.lua`, `hooks.lua`) | an lrucache per worker over one shared dictionary; events on their way | `get_or_set` under a `resty.lock`, `delete`, `delete_all` on cluster events | lock, lrucache, dict, database |
| cosocket connection pool (`ngx_http_lua_socket_tcp.c`) | per pool a cache and a free queue of connections, `active_connections`; the registry of pools by key | connect, `setkeepalive`, close, idle handlers, finalizers, worker exit | light threads, event loop, collector |
| timers, sleep (`_timer.c`, `_sleep.c`) | pending and running timer counts | `ngx.timer.at`, expiry, shutdown | light threads |
| nginx core | processes, event loop, timers, posted events, slab pool | - | everything |
| protocol clients, filters, API bindings | per request | - | cosockets |

What is hard, and the property each component owes:

* **Semaphore.** One worker is single threaded, yet a post does not wake the
  waiter: it posts an event, and until that event runs other threads call
  `post` and `wait`, timers fire, threads and requests die, and the handler
  resumes threads *inside its loop*, so they re-enter the semaphore. Owed: no
  wakeup is lost, nobody overtakes, a waiter ends in exactly one way, no stale
  timer or callback survives, and the whole is a fair FIFO semaphore.
* **Shared dictionary.** Each operation is atomic (mutex), but it also reclaims
  up to two expired entries, moves entries in the LRU queue, evicts when the
  pool is full and mixes two notions of "expired". Workers run on cached,
  different clocks. Owed: queue, tree and pool agree after every path; only the
  least recently used go, and the caller is told; clients see a map with
  expiring entries.
* **Lock.** Polling across processes over an entry that says nothing of its
  owner and expires by itself. Owed: mutual exclusion within the lease, bounded
  waiting, no lock orphaned by a crash, and references that never get mixed up.
* **Limits.** Increment, compare, decrement are separate operations visible to
  other workers; `combine` commits to several limiters and must roll back.
  Owed: the limit, the delay, and a rollback that leaves nothing.
* **Light threads.** Whether a request goes on hangs on one counter that a dozen
  paths maintain by hand; who runs next, on flags left in the threads of others.
  Owed: the count is right, everyone off the CPU is resumed by what it waits for
  and by nothing else, and the request ends.
* **Connection pool.** Connections pass between sockets, pools and the event loop,
  while threads die, peers hang up and the collector frees pools. Owed: one owner
  per connection, pools that live as long as their connections, no idle connection
  closed without cause.
* **Health checks.** Every worker counts results in shared counters, reads and
  increments being separate operations, and learns of verdicts by a version number.
  Owed: a verdict rests on results in a row, no worker keeps another view of a peer
  unawares, and views settle when peers do.
* **Database cache.** Two levels in several workers, filled by loads that take time
  and emptied by events that travel. Owed: one load at a time, and nothing stale
  that nobody will correct.

`PROJECT.json` lists each hazard at its line, with the property that covers it.

## 2. Modules and how they correspond to the code

```
ClassicSemaphore  <--implements--  Semaphore   <-- SemaphoreProofs, MCSemaphore
DictEntries  <-- SharedMap  <--implements--  ShDict      <-- ShDictProofs, MCShDict
RestyLock     <-- RestyLockProofs, MCRestyLock           (over the dict as an atomic map)
LimitTraffic  <-- LimitTrafficProofs, MCLimitTraffic     (over the dict as atomic counters)
LightThreads  <-- LightThreadsProofs, MCLightThreads     (the scheduler Semaphore lives in)
SocketPool    <-- SocketPoolProofs, MCSocketPool
Healthcheck   <-- HealthcheckProofs, MCHealthcheck       (over the dict, one operation a step)
LruCache      <-- DatabaseCache <-- MCDatabaseCache      (over the dict as a map, the lock as an
                        ^                                 entry that expires)
                DatabaseCacheProofs
```

**Semaphore** is one semaphore and the light threads of one worker. Variables
keep the names of `ngx_http_lua_sema_t`; `timer_set` and `cleanup` are the
threads whose `coctx->sleep` timer is armed and whose `coctx->cleanup` is set.
`cpu` is the thread that runs Lua, `dying` what the loop of
`ngx_http_lua_finalize_threads` still has to visit, `in_handler` that
`ngx_http_lua_sema_handler` is on the C stack below a resumed thread. Actions:
the three outcomes of `ngx_http_lua_ffi_sema_wait` (`WaitAtOnce`,
`WaitDeclined`, `WaitYield`), `Post`, the event (`HandlerStart`, one
`HandlerResume` per turn of its loop, `HandlerDone`), `TimeoutHandler`, and of
the scheduler what a semaphore can meet: `Spawn`, `KillThread`, `Terminate`,
`ExitRequest`, `AbortRequest`, `FinalizeThread`, `YieldElsewhere`, `Dispatch`.
`SwitchFrom` runs the posted threads of the request before control goes back.
**ClassicSemaphore** is the promise: a FIFO counting semaphore with no event
loop, in which a grant that stays possible happens.

**ShDict** is one zone. `sh` holds the queue, the nodes and the free units of the
pool; the helpers from `Unlink` to `MakeRoom` are the pieces of the C code as
functions from zones to zones, and each operation composes them in the order of
the source: `Entered` is the `expire(1)` and lookup every operation starts
with, `Put` and `Insert` are the labels `replace` and `insert` of `store`,
`Reset`, `PushNode` and `DropEmpty` those of `push`. Memory is counted in
units. Each operation chooses the cached time `t` of its worker within `Skew`
of the clock. `reply` is what the call returned: it is output, read by the
properties only. **SharedMap** is the promise: a map with expiring
entries, in which other entries vanish only in operations that report
`forcible`. **DictEntries** holds what the two share.

**RestyLock** is the lock library in several workers. `store` is the dictionary
as its clients see it, with times to live in place of times of expiry, so that
the model needs no clock to bound; `memo`, `key_id`, `dict_id` are the code's.
`lock` is split where it sleeps: `LockAtOnce` or `LockBusy`, then
`WakeFree`, `WakeBusy` or `AddFails` at the end of each pause. `Collect` is the
`__gc` handler, `Abandon` the death of a sleeping thread, `Crash` that of a worker.
`lease`, `misused` and `evicted` are history for the properties: for how long
what an object locked is its own, and whether somebody used a lock after its
lease or the dictionary evicted one.

**LimitTraffic** is `combine` over limiters of `resty.limit.conn`. Each
dictionary operation is a step. `at` counts the calls of `incoming` that `combine`
makes (limiters 1 to N, dry but for the last, then 1 to N-1 in earnest); the
increment (`Commit`) and the decrement of a rejection (`Reject`) are separate
steps, as are the calls of `uncommit` (`Undo`) and `leaving` (`Leave`).

**LightThreads** is one request at a time: its entry thread, user threads and
coroutines. `co` is the `ngx_http_lua_co_ctx_t` of each, with `at`, the call its Lua
code is in; `cur`, `uthreads`, `posted`, `zombies`, `onAbort` are the code's. Each API
call is an action of the running thread, and `End` is the tail of
`ngx_http_lua_run_thread` with all it decides by the kind of thread, its parent and
its flags (`EndEntry`, `EndWaited`, `EndZombie`, `EndDetached`, `EndCoro`).
`RunPosted` is a turn of `run_posted_threads`, `SleepHandler` stands for any event
a thread waits for, `ClientGone` starts the abort thread, `NextRequest` begins anew.
`misled` records that a thread was resumed out of a call by something it did not
wait for (section 5); what follows is undefined, and the model goes on with the next
request.

**SocketPool** is one worker's cosockets and pools. `sock` is each socket object with
its upstream context (a call may come while another thread waits in it), `vm` the
connections, the pools and the registry. `Connect` takes a connection from the pool
of its key or waits for a new one (`Connected`, `ConnectFailed`); `SetKeepalive`
creates the pool, or evicts its oldest item, and files the connection; `IdleEvent` is
`keepalive_close_handler`; `Destroy` and `ShutdownPool` are finalizers, `KillWaiting`
the cleanup of a killed thread, `CleanupConnPools` the exit of the worker.
`misfiled` records that a connection went into the pool of a key it was not made for
(section 5).

**Healthcheck** is the checkers of one upstream. `dict` holds the counters `ok:` and
`nok:`, the verdicts `d:` and the version `v:`, `lock` who added `l:`; `ctx` is the
checker's table in each worker. A cycle is `BeginCycle` (`check_peers_updates`),
`UpgradePeer` for each verdict to read, `GetLock`, then for each peer `Answer` (the
result, and the read of its counter), `Bump` (the write), `Reset` (of the other counter)
and `Judge`, and last `Publish`. Counters stop at `Cap`, where the code no longer tells them
apart. There are no clocks: `Expire` is free once the cycle that took the lock is over
and nobody is still between reading the version and the lock; that it may
expire earlier (a cycle that lasts longer than the interval) is a fault, like
`Crash`, `StopChecker`, `LoseVersion` and `LosePeerKey`. Peers answer in any order, which
covers both the sequence of the code and its light threads. `streak`, `torn` and
`excused` are history for the properties.

**LruCache** is `resty.lrucache` as operators on one cache, with its two queues of
nodes and the tables between keys and nodes. **DatabaseCache** is Kong's cache of one
row of the plugins table in one node. `get_or_set` is split where it yields:
`GetOrSet` up to the lock, `Locked` (or `LockTimeout`) to the callback, `Load` the
moment the database answers, `Store` with everything that follows (or `LoadFails`,
`LoadAborts`). `Lapse` is the expiry of the lock's key, `EvictShared` what memory
pressure does to the dictionary. `Insert`, `BeginUpdate`/`EndUpdate` and `Delete` are
the DAO operations, of any node, each with its event (`Announce`); `Deliver` is
`/cluster/events` of this node, which passes the event to every worker, and
`HandleEvent` the hook in one of them. Serf may reorder events, workers see
them in the order they were posted. `excused` and `lapsed` are history for the properties.

## 3. Runs, bounds, fairness

| run | checks | bounds |
|---|---|---|
| `semaphore` | `TypeOK`, `WaitersAccounted`, `NoLostWakeup`, `NoBarging`, `WaitEnds`, `ImplementsClassic` | a parent and its child in one request and a thread in another; posts of 1 or 2, at most 3 resources |
| `light_threads` | `TypeOK`, `UthreadsCounted`, `ChainsSound`, `WakeupPending`, `RequestEnds`, `PostedRuns` | an entry thread, two user threads and a coroutine; waits on one or two threads (`MaxArgs` = 2) |
| `socket_pool` | `TypeOK`, `OneOwner`, `PoolsCounted`, `ClosedForCause` | two sockets, two keys, three connections, pools of size 1 or 2 |
| `shdict` | `TypeOK`, `ZoneConsistent`, `NoEmptyList`, `EvictsOldestOnly`, `ImplementsMap` | 3 keys, scalars and list elements of two sizes, room for two big scalars; memory runs out in either allocation of push; clocks one apart, two ticks |
| `shdict_flush` | `ZoneConsistent` | 6 keys: `flush_all` reclaims three of them and the next operation two, so that a marked one is still there |
| `lock` | `TypeOK`, `Exclusive`, `MemoConsistent`, `WaitWithinTimeout`, `LockReturns`, `OrphanFreed` | two objects, one in each of two workers, two keys in a dictionary with room for one; steps of 0 and 1, pauses that double |
| `limit_combine` | `TypeOK`, `WithinLimit`, `UndelayedWithinMax`, `OnlyLastLeaks` | 3 requests, 3 limiters of one dictionary that allow 2, 1 and 2 requests, one crash |
| `healthcheck` | `TypeOK`, `VerdictEarned`, `NoSilentDivergence`, `ViewsSettle` | two workers, two peers, two results for a verdict, three changes of peers, one fault |
| `database_cache` | `TypeOK`, `LocalConsistent`, `OneLoader`, `NoSilentStaleness` | two keys, two workers with room for one of them and one call each, an admin request, three changes of the row, one fault |
| `shdict_length`, `limit_leak`, `light_threads_wait` | violations, see section 5 | |

Why these are enough. In the semaphore every hazard involves at most a waiter,
the thread ahead of it and the one that posts, kills or exits: three threads in
two requests give all of them, and the theorems lift the safety properties to
any number. Two user threads and a coroutine give the scheduler every relation of
parent and child: child of the entry thread, of a sibling, of a coroutine, with a
second one to be waited for, to become a zombie or to be the abort thread. In the zone
an operation touches its key, the tail of the queue and the two entries behind it;
with three keys and room for fewer, each is the caller's own, live or expired. Two
sockets contend for the connections of one pool and hold those of two; the third
connection is the one that a full pool evicts. The `lock` run has one object per
worker; threads that share a worker share a memo table too, and that their
references stay apart and their locks exclude each other is proved for any number
(section 4). In `combine` three limiters are the fewest for which the rollback loop
runs. Two workers are one that checks and one that learns, or two that overlap; three
changes let a peer go down, come up and go down again. In the database cache one thread loads while the other worker handles
events, loads the same key or another; three changes are enough to move a row, to
delete it and to create it again, and the theorems hold for any number of each.

Constants that only bound the search: `MaxResources`, `MaxPost` (Semaphore),
`MaxTime`, `MaxNumber`, `MaxLength` (ShDict), `MaxCrashes` (LimitTraffic), `MaxArgs`
(LightThreads: the threads one call of `ngx.thread.wait` may name),
`MaxChanges`, `MaxFaults` (DatabaseCache), `MaxFlips`, `MaxFaults` (Healthcheck, whose
version needs no bound: it grows only with verdicts).
`MaxTime` does stop the ShDict clock, but not its operations, so no run of it
deadlocks. RestyLock needs no bound: all its times count down.

The ShDict runs use `VIEW` without `reply`: no guard and no state property
reads it, and the action properties read only its new value, which TLC
evaluates on every transition before the view discards it. Symmetry is over keys,
which are interchangeable (the `none` of an operation without a key is no
element of `Keys`), over requests in LimitTraffic, over sockets, keys, connections and
pools in SocketPool, over keys and over the two workers, each with its thread, in
DatabaseCache; the runs with liveness properties use none.

Two runs stop at states behind which their properties say nothing, by a
`CONSTRAINT`: `socket_pool` at the first misfiled connection (`OneOwner` is checked there
too; `PoolsCounted` and `ClosedForCause` except such states), `database_cache` when the
only keys there are have all been excused. `light_threads` does not check for deadlock:
a request held by a zombie nobody will reap really does stop (section 5).

`ImplementsMap` is checked with three keys only. With six, a list that `flush_all`
marked can still be there when it is pushed to again, and then has a length that
counts elements it does not have (section 5): from there on the zone is no
longer the map its documentation describes, which is why `shdict_flush` checks only
the zone's own consistency.

Fairness. *Semaphore*: the loops of C code (`FinalizeThread`, `HandlerResume`,
`HandlerDone`) are weakly fair because they run to their end. A due timer and the
posted event are strongly fair: each iteration of
`ngx_process_events_and_timers` expires the timers and empties
`ngx_posted_events`, but in between they are disabled over and over by other
dispatches. A light thread that gets the CPU again and again eventually yields
(`SF` on `YieldElsewhere`): Lua code that never yields blocks the whole worker, and
nothing can be promised of it. No fairness is assumed of posts, or of any thread
waiting or terminating. *LightThreads*: `run_posted_threads` is a loop that runs to
its end (`WF` on `RunPosted`), and running Lua code comes to a call that waits or to
its end (`SF` on `LuaBlocks`), for the same reason as above. *Healthcheck*: timers fire
and cycles run to their end (`WF` on each worker's `Cycle`; sockets have timeouts), and
the lock's key expires (`WF` on `Expire`). Nothing is assumed of who gets the lock. *RestyLock*: time passes, and the timer of a pause that is over
fires (`WF` on `Tick` and on each `Wake`). Nothing is assumed of unlock, expire
or the collector; `OrphanFreed` rests on expiry alone.

Each property of a passing run has a mutant: an operator `...Mutant` next to the
definition it replaces, a plausible slip in that code, under which TLC must
find the property violated.

## 4. Proofs

`SemaphoreProofs` proves, from `SemaphoreAssumption` alone and so for any number
of threads, requests and resources:

* `TypeCorrect`, `Accounted`, `NoWakeupLost`: `Spec => []TypeOK`,
  `[]WaitersAccounted`, `[]NoLostWakeup`;
* `FirstComeFirstServed`: `Spec => NoBarging`, an action property;
* `FifoSemaphore`: `Spec => Classic!Safety`, the safety half of the refinement
  `ImplementsClassic`: every step of the C code, the posted event and the handler's loop
  included, is a step of the classic FIFO semaphore or leaves it as it is.

They rest on `Invariant`, `Spec => []IInv`, where `IInv` adds `OneOnCpu` to the three
invariants. Without it the argument fails at `WaitYield`: that the thread which
joins the queue is not in it yet follows from its being on the CPU, hence
running, hence (by `WaitersAccounted`) neither queued nor timed nor holding a
callback. The work is in the queue: `RemoveAtFacts` says what removing an element
does to a sequence, `UnlinkedFacts` that the queue then names the same threads
but one, `CleanupFacts` that the cleanup callback takes a thread out of all four
places at once; `StepIInv` then has one step per action. `NoLostWakeup` is
inductive because the handler leaves its loop only when the queue or the resources
are exhausted, `post` posts the event when the queue is not empty, and `wait`
queues only when there is nothing to take or somebody is queued already.

`ShDictProofs` proves, from `ShDictAssumption` alone and so for any keys, values, pool,
clock and bounds:

* `TypeCorrect`, `ZoneKept`, `NoListEmpty`: `Spec => []TypeOK`, `[]ZoneConsistent`,
  `[]NoEmptyList`;
* `EvictsOldest`: `Spec => EvictsOldestOnly`, an action property;
* `MapImplemented`: `Spec /\ []ListsCounted => ImplementsMap`, the whole refinement (there is
  no fairness in it);
* `MapWithoutLists`: `Elements = {} => (Spec => ImplementsMap)`.

The inductive invariant `ZoneInv` says of the zone that it is `Well` and `Settled`. `Well`
is `ZoneConsistent` and the types, and of each node two things the code relies on
silently: a number has the size of a double, and a list never has *more* elements than
`value_len` says. The second is what is left of the length after `push` has revived a
flushed list, and all that `pop` needs: the node it frees with the "last" element has no
other elements whose memory would be lost. `Settled` is `NoEmptyList` for every key.
They are proved of functions from zones to zones, for `Expire1`, `MakeRoom` and the others
are composed in a dozen ways: `Drops` says that entries have gone from the tail of the
queue only, whoever of them the operation is about aside; `Turns`, that the zone differs
in one entry, in its place in the queue and in its memory; `Others` is what both leave of
the rest, and `KeyDone` what every operation on a key comes to. `EvictsOldest` follows
from `Others`: what is left of a queue from whose tail entries have gone is a start of it.

What the model computes by recursion (`ItemsSize`, the sum over all nodes, the eviction
loop, the walks of `flush_expired` and `get_keys`) is handled without induction over data:
a lemma shows that the recursive function exists (`SizesExist`, `SumsExist`, `RoomsExist`,
`WalksExist`, `ListsExist`: were there a least length, set or turn without one, the one
before would have one, and it could be extended), and what it keeps from turn to turn
follows in the same way, by the least counterexample.

The refinement needs its condition, `ListsCounted`: that the length of every list is the
number of its elements. The code breaks it where `push` revives an expired list
(`shdict_length`, section 5), and then `llen`, `pop` and a failed `push` do what no map
does. `MapImplemented` shows that this is the *only* way in which the zone differs from its
documentation, and `MapWithoutLists` that a zone nobody pushes to does not differ. In
the run `shdict` no list gets a wrong length, for `flush_all` leaves no marked entries
behind when there are three keys; TLC checks `ImplementsMap` there without the condition.

`RestyLockProofs` proves, from `RestyLockAssumption` alone and so for any number
of objects, workers and keys and any settings of the locks:

* `TypesKept`: `Spec => []TypeOK`;
* `MutualExclusion`: `Spec => []Exclusive`;
* `ReferencesApart`: `Spec => []MemoConsistent`;
* `WaitBounded`: `Spec => []WaitWithinTimeout`.

The inductive invariant `IInv` adds to them what the code relies on silently. *Of the memo
table* (`FreeLists`): there is a sequence of freed references that slot 0 and the freed
slots spell out, they are distinct, none is in use, and no slot is neither on that list
nor in use. Without it nothing says that the reference `ref_obj` takes from slot 0 is
unused. `RefFacts` and `UnrefFacts` prove that taking and giving back a reference keep
such a sequence and leave the references in use alone; `BorderFacts`, that `#memo + 1` is
free although the freed slots make the table one with holes. *Of leases* (`LeaseBacked`):
an object's lease is never longer than what its entry has left, so that `add`, which
succeeds only on a free key, cannot take a key in somebody's lease; `Alone` is `Exclusive`
without its mention of `pc`. That `unlock` deletes the object's own key is where exclusion
needs the memo table (`ReleasedKey`). *Of waiting* (`Waiting`): slept plus left is the
timeout, and only the first pause can exceed what is left.

`DatabaseCacheProofs` first proves what each operation of `resty.lrucache` keeps
(`NewOK`, `TouchOK`, `DeleteOK`, `SetOK`), for any number of keys and nodes; the work is
in what removing a node from a queue and putting it at an end do to who is in it
(`QueueRemove`, `QueueInsertHead`, `QueueInsertTail`). It builds on that and proves, from `LruAssumption` and `CacheAssumption` alone and so for any
number of keys, workers, calls and admin requests and any size of the local caches:

* `TypeCorrect`, `LocalCachesConsistent`: `Spec => []TypeOK`, `[]LocalConsistent`;
* `LoadedOnce`: `Spec => []OneLoader`;
* `NothingSilentlyStale`: `Spec => []NoSilentStaleness`.

The first two need each other (`TypeInv`): when no node is free, the node that `set`
takes is a node only because the queues are consistent. `OneLoader` follows from
`InsideHolds`: whoever is inside the callback holds the lock, unless it lapsed.
`NoSilentStaleness` is not inductive: `Store` would break it with a wrong value in a
loader's hands. `StaleInv` adds `LoadedCovered`, that such a value is covered by an
event still to come *for every worker*. It has to be every worker, for loaded
values and for the shared dictionary alike: a worker that fills its own cache from
either has perhaps handled the event already. That is also why `HandleEvent` has to
excuse the keys whose load it overtakes.

`HealthcheckProofs` proves, from `HealthcheckAssumption` alone and so for any number
of workers and peers and any `fall` and `rise`:

* `TypeCorrect`: `Spec => []TypeOK`;
* `SilentDivergence`: `Spec => []NoSilentDivergence`;
* `VerdictsEarned`: `Spec => []VerdictEarned`.

`NoSilentDivergence` is not inductive: it lets a worker that disagrees be excused by an
announcement still to come, and that could be its own, which it will never read.
`AnnouncedByOthers` asks for the announcement of another, so that a publisher must itself
agree. `VerdictEarned` rests on `RowsInv`: between two results of a peer that is not torn,
a counter above 0 counts no more than the row the peer is in (`RowKept`), so that at most
one of `ok:` and `nok:` is above 0; while a worker counts a result (`RowCounted`), the
other counter may still hold the row this result has ended, but not when the own counter
was read as 1 or more, which is when the code does not reset it.

`SocketPoolProofs` proves, from `SocketPoolAssumption` alone and so for any number of
sockets, keys, connections and pools of any sizes:

* `TypeCorrect`, `ConnectionsOwned`: `Spec => []TypeOK`, `[]OneOwner`;
* `CountsRight`: `Spec => []PoolsCounted`;
* `ClosedWithReason`: `Spec => ClosedForCause`, an action property.

The first two are one induction (`Owned`). It is a predicate of the connections and pools
and of the set of connections that sockets hold, so that each function of the code can be
shown to keep it while a connection is between hands: `setkeepalive` passes one from the
held to the idle (`FileKeeps`), and may then close it where it now is (`HandlerKeeps`).
`Owned` says nothing of `home`, hence it survives misfiling. The counts do not, and
`CountsRight` is about what happens until then. `CountsOK` counts, for each pool, the
sockets that borrow from it (`Borrowed`), and adds what `PoolsCounted` leaves open: an
idle or borrowed connection is of the pool's key, and a pool that has left the registry
with connections in its cache did so when the worker exited, and its `active_connections`
exceeds what is in it, so that it does not reach 0, where the pool is freed, while there
are connections in it. For `ClosedForCause` there is, for each function, what it may close
at most (`Closes`).

`LightThreadsProofs` proves, from `LightThreadsAssumption` alone and so for any number of
user threads and coroutines and any number of threads waited for:

* `TypeCorrect`: `Spec => []TypeOK`;
* `CountKept`: `Spec => []UthreadsCounted`;
* `ChainsKept`: `Spec => []ChainsSound`;
* `WakeupsKept`: `Spec => []WakeupPending`;
* `NoThreadLost`: `Spec => []RequestEnds`.

The inductive invariant `IInv` is `Types /\ (misled \/ Sound)`, since the four properties
speak of requests in which nobody was misled (section 5). While the request lives, `Sound`
is the count and `Live`. Of each thread alone (`Local`): its flags, its timer and its
place on the queue of posted threads, at most once, are those of the call its code is in
(`Fits`, `PostsOK`), and it is anchored as its kind and status want (`Anchored`). Of
threads and each other: a thread in `coroutine.resume` has exactly one coroutine riding on
it (`Resumes`), one in `ngx.thread.wait` has a live child among its arguments that is
marked to resume it (`Waits`), parents exist (`Children`), zombie lists name zombies or
dead (`Corpses`), and somebody is left (`Someone`). `RequestEnds` is the deep one: between
two events, a request that is not over has one to come, unless a zombie holds it or the
program makes a coroutine wait for the thread that resumed it. A thread waits for its
child, and a caller of `resume` for its coroutine; if these chains closed, everybody would
wait while the counter is right. That nobody is his own ancestor cannot be said by
induction here, so `Ranked` says it with numbers that grow from parent to child, for user
threads and for chains of coroutines. `NoThreadLost` supposes that no event is to come: of
the threads still running the youngest waits for a child that runs, so none runs; of the
callers of `resume` the highest in the chain has a running coroutine above it, so there
are none; the eldest zombie has a parent that is gone, which is `ZombieHolds`.

`LimitTrafficProofs` proves, for any number of requests and limiters, any limits and any
number of crashes:

* `TypeCorrect`, `LimitHolds`, `DelayHolds`: `Spec => []TypeOK`, `[]WithinLimit`,
  `[]UndelayedWithinMax`, if `UndoApart`;
* `OthersClean`: `Spec => []OnlyLastLeaks`, if `UndoHits` and `LastApart`.

`Claims(r, l)` says that a commit has put `r` on the counter of `l` and nothing has taken it
off again, and the invariant `Backed` that no counter is below the number of claims on
it (crashes and forgotten commits leave it above). It holds because every decrement
takes away a claim (`LeaveKeeps`); this is what needs `UndoApart`, for the decrement
of `uncommit` goes to the dictionary of another limiter than the commit it undoes (section
5: without the condition the limit fails). The limits follow at each commit: those a
limiter has let through have claims, so what `incr` answers is at least their number plus 1.
`OthersClean` has the sharper `Exact`: without crashes a counter, but for the
last limiter's, is its claims. The conditions are on `DictOf` and `KeyOf` only; limiters
that share one dictionary and use different keys satisfy all three, and TLC evaluates
them on the configuration of the passing run.

Model-checked only: liveness and the fairness parts of refinements (`WaitEnds`, of
`ImplementsClassic` what `FifoSemaphore` does not say, `LockReturns`, `OrphanFreed`,
`PostedRuns`, `ViewsSettle`), because fairness and `ENABLED` are beyond the prover. Every
other property of the passing runs is a theorem.

## 5. Disagreements between code and documentation

Each is a run that ends in a counterexample (`findings` in `PROJECT.json`):

* `shdict_length`: `push` on an expired list frees its elements and keeps
  `value_len`; `llen` then reports elements that are gone, and `pop` on the
  emptied list reads the list head as if it were an element (`PopHollow`).
  It takes a `flush_all` that leaves marked entries behind.
* `limit_leak`: a request that `combine` rejects in its second pass stays on the
  counter of the last limiter for ever, so each such race takes one place from it.
* `light_threads_wait`: `ngx.thread.wait` marks every living thread it is given
  (`waited_by_parent`, ngx_http_lua_uthread.c:199) and nothing removes the marks when it
  returns with one of them. When another one ends, it resumes the parent out of
  whatever call that is in by then: a sleep, a spawn, a wait for somebody else.

Seen while modelling, without a run of their own.

*Semaphore.* Between a `post` and the event, `wait(0)` fails although `count()` is
positive; the resources are meant for queued threads, which keeps the queue fair
(`NoBarging`) but is not what the documentation of `count` and `wait` says.

*Dictionary.* A `safe_set` with a value of another length that fails with "no
memory" has already removed the old, unexpired value. `forcible` is also returned
when an eviction removed only expired entries (`ngx_http_lua_shdict.c:2434`, against
ngx_lua-0.10.10.pod:7342).

*Locks and limits.* `resty.lock`'s first pause ignores `max_step` (lock.lua:151), a
step that is given without a timeout is not cut to the default one (lock.lua:103,
which is why `WaitWithinTimeout` speaks of the longer of the two), and `unlock`
after the lease succeeds and frees whoever holds the key now (lock.lua:181, which is why
`Exclusive` has `misused`); `set_conn` of `resty.limit.conn` sets a field nobody
reads (conn.lua:115). `combine` takes back limiter `j`'s commit by `lim:uncommit(keys[j])`,
where `lim` is the limiter that rejected (traffic.lua:42): if that one has another dictionary, the
commit stays; if a third limiter counts the same key in that dictionary, a request it
has let through is taken off its counter, and it admits one too many. That takes four
limiters, say with maxima 3, 1, 1, 3, keys `client`, `client`, `user`, `host`, the second and third
in a dictionary of their own: there TLC finds `WithinLimit` violated, and `UndoApart` excludes it.

*Light threads.* A zombie is reaped only when its parent waits for it or ends
well: the zombie children of a parent that died of an error or was killed
(ngx_http_lua_util.c:1343), or that is a coroutine nobody resumes, stay in `uthreads` and hold the
request for ever (`ZombieHolds`). Killing a thread that is in
`coroutine.resume` leaves the coroutine running, and it later returns into the
dead thread (ngx_http_lua_uthread.c:274). When a request ends, the pending event of a coroutine
is not cancelled, unlike that of a thread (`WakeupPending` excepts it).

*Connection pool.* `connect` stores the new key before it finds out whether it can
connect (ngx_http_lua_socket_tcp.c:482). If it then fails (another thread is waiting in the
socket) the old connection is still open, and `setkeepalive` files it
under the new key: the next request for that key talks to the wrong server, and the
counts of both pools are off (`misfiled`).

*Health checks.* When two results of a peer are counted at the same time (a
cycle that outlasts the interval, and with it the lock that is to "prevent multiple worker
processes from sending the test request simultaneously", healthcheck.lua:423), or a
worker dies between the two counters, both may stay above 0; the counter of the
other kind is reset only when one becomes 1 (lines 118, 174), so from then on neither
ever is, and `fall` and `rise` count single results. The comment "it is fine for our
purpose" (line 104) is about the lost increment only. `VerdictEarned` excepts such peers (`torn`). A worker
that publishes sets its version to the new number without reading what others
published since (line 462), and misses it (`excused`). If the version key is lost, it
starts again at 1, and workers with a higher number read nothing until it has
passed theirs. With more peers than `concurrency`, `local nthr` (line 315) hides the
variable that the waiting loop reads (line 356): nobody waits for the groups, and verdicts
they reach are published a cycle later. If `incr` of the version fails,
`ctx.version` becomes nil and every later cycle of that worker ends in an error (line 462).

*Database cache.* A value that `cb` read before an invalidation and that is set after it
stays, without a time to live, until the next change (database_cache.lua:197). The
event of an update names only the key that was read (hooks.lua:14, dao.lua:302): a plugin that moves to another key
leaves the cached `null` of its new key in place, and of two concurrent
updates the second names a key the row no longer had. An update whose row is gone
by the time the event arrives is ignored, in the belief that "a delete invalidation
will come immediately after" (cluster.lua:88), but that one names the key the row
had last. A caller that waits five seconds for the lock gets nothing from `get_or_set`, so
that the plugin is skipped for that request. `NoSilentStaleness` excuses the keys hit by
these, and no others.

## 6. What is not modelled

* *Semaphore*: the Lua object's life (reference counts, the finaliser, the
  block allocator), the wording of errors, phases in which `wait` is refused.
* *LightThreads*: subrequests; the output a request sends; other handlers of the
  request (`exec`, redirects); `ngx.thread.wait()` without arguments, which never returns.
* *SocketPool*: name resolution, TLS and the reading and writing of data, which are
  outcomes of a wait; sockets shared by several requests, which the code refuses.
* *ShDict*: slab fragmentation (an allocation fails exactly when units are short),
  the red-black tree's shape (keys are found or not), user flags, `ttl` rounding. Operations are atomic:
  a worker that dies inside the mutex leaves the zone in a state nothing repairs.
* *RestyLock*: the differing clocks of workers (one clock), eviction order (any
  other entry may go), errors other than "exists" and "no memory".
* *LimitTraffic*: evictions of counters, limits changed at run time, the value of
  delays (only whether there is one), `resty.limit.req`.
* *Healthcheck*: what is sent and received; groups of peers beyond `concurrency`; the
  failure of a dictionary operation, other than keys being gone.
* *LruCache, DatabaseCache*: values with a time to live, the counters of `sh_incr`,
  collections other than plugins (their hooks delete keys in the same way), and
  liveness: an event that a worker never polls for is never handled, and the
  instance with fairness was too large for TLC.
* Everything listed as `not_modelled` in `PROJECT.json`, with the reason there. Most of
  the tree is code of others that OpenResty packages (nginx, LuaJIT, OpenSSL and
  LibreSSL, tables of constants, generated lexers); the modules cover its
  concurrent core in depth rather than the tree in breadth.

## 7. Plan

In this order; the first nine are written.

1. `Semaphore`, `ClassicSemaphore`, `SemaphoreProofs`.
2. `ShDict`, `SharedMap`, `DictEntries`, `ShDictProofs`.
3. `RestyLock`, `RestyLockProofs`.
4. `LimitTraffic`.
5. `SocketPool`.
6. `LightThreads`.
7. `LruCache`, `DatabaseCache` and their proofs.
8. `Healthcheck`.
9. Theorems about SocketPool, Healthcheck, LightThreads and LimitTraffic, and the safety
   half of Semaphore's refinement: written. Theorems about ShDict, its refinement included:
   written.
10. `SemaphoreBlocks`: allocation and release of blocks and the lifetime of an object
   whose event is still posted.
11. `LimitReq` and the timers' pending and running limits.
