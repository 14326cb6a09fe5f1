----------------------------- MODULE SocketPool -----------------------------
(***************************************************************************)
(* The connection pools of cosockets in one worker,                        *)
(* ngx_lua-0.10.10/src/ngx_http_lua_socket_tcp.c.  setkeepalive files the  *)
(* connection of a socket under the key the socket last connected with;    *)
(* connect takes the connection filed last under its key.  A pool lives in *)
(* the Lua registry as long as its count of active connections is not 0;   *)
(* then it is dropped, and the Lua collector runs its finaliser.           *)
(*                                                                         *)
(* A socket object may be shared by the light threads of its request, so   *)
(* that any call may come while another waits in it.                       *)
(***************************************************************************)
EXTENDS Integers, FiniteSets, Sequences, SequencesExt

CONSTANTS
    Sockets,        \* Lua socket objects
    Keys,           \* "host:port", or the pool option of connect
    Conns,          \* nginx connections
    PoolIds,        \* the memory of pools
    Sizes,          \* pool sizes given to setkeepalive, or lua_socket_pool_size
    None

\* A connection is made for its home key; its peer may have sent or closed, and
\* its timer may be set.
Connection == [home : Keys, hot : BOOLEAN, timer : BOOLEAN]

\* An item is in the cache, the latest connection first, or free.
Pool == [key : Keys, size : Sizes, cache : Seq(Conns), free : Nat, active : Int]

ASSUME SocketPoolAssumption ==
    /\ None \notin Conns \cup PoolIds \cup Keys
    /\ None \notin Connection /\ None \notin Pool
    /\ Sizes \subseteq Nat \ {0}

VARIABLES
    sock,           \* each socket object with its upstream context u
    vm,             \* connections, pools, and the registry of pools by key
    exiting,        \* the worker is shutting down
    misfiled        \* a connection was filed under a key it was not made for

vars == <<sock, vm, exiting, misfiled>>

\* No connection, and no wait for one.  What else is left in u or in the object
\* then, connect overwrites before anything reads it.  (Of socket_pool only
\* finalize makes use, for reused connections.)
Closed == [key |-> None, target |-> None, conn |-> None, reused |-> FALSE,
           pool |-> None, waiting |-> "no", half |-> FALSE]

Init ==
    /\ sock = [s \in Sockets |-> Closed]
    /\ vm = [conn |-> [c \in Conns |-> None],
             pool |-> [p \in PoolIds |-> None],
             registry |-> [k \in Keys |-> None]]
    /\ exiting = FALSE
    /\ misfiled = FALSE

----------------------------------------------------------------------------
(* The pieces the operations are made of, as functions of the state vm.    *)

CloseConnection(v, c) == [v EXCEPT !.conn[c] = None]

\* The count goes down, and with the last active connection the pool goes from
\* the registry.
DropActiveMutant(v, p) ==
    LET w == [v EXCEPT !.pool[p].active = @ - 1] IN
    IF w.pool[p].active <= 1 THEN [w EXCEPT !.registry[v.pool[p].key] = None] ELSE w
DropActive(v, p) ==
    LET w == [v EXCEPT !.pool[p].active = @ - 1] IN
    IF w.pool[p].active = 0 THEN [w EXCEPT !.registry[v.pool[p].key] = None] ELSE w

\* A pool that is gone leaves freed memory behind, whose count nobody reads.
NeverPooled(v, u) == ~u.reused \/ v.pool[u.pool] = None

\* ngx_http_lua_socket_tcp_finalize closes the connection of u, if it has one,
\* and counts it out of the pool it came from.
Finalize(v, u) ==
    IF u.conn = None THEN v
    ELSE IF NeverPooled(v, u) THEN CloseConnection(v, u.conn)
    ELSE DropActive(CloseConnection(v, u.conn), u.pool)

Unlinked(cache, c) == RemoveAt(cache, CHOOSE i \in DOMAIN cache : cache[i] = c)

\* ngx_http_lua_socket_keepalive_close_handler, past its label close.
CloseHandler(v, p, c) ==
    DropActive([CloseConnection(v, c) EXCEPT !.pool[p].cache = Unlinked(@, c),
                                             !.pool[p].free = @ + 1], p)

NewPool(k, size) == [key |-> k, size |-> size, cache |-> <<>>, free |-> size, active |-> 0]

\* Without a free item, the one at the end of the cache is closed and reused.
EvictMutant(v, p) == [v EXCEPT !.pool[p].cache = Front(@)]
Evict(v, p) ==
    [CloseConnection(v, Last(v.pool[p].cache)) EXCEPT !.pool[p].cache = Front(@),
                                                      !.pool[p].active = @ - 1]
TakeItemMutant(v, p) == [v EXCEPT !.pool[p].free = @ - 1]
TakeItem(v, p) ==
    IF v.pool[p].free = 0 THEN Evict(v, p) ELSE [v EXCEPT !.pool[p].free = @ - 1]

CountInMutant(u) == 1
CountIn(u) == IF u.reused THEN 0 ELSE 1

\* The connection of u goes to the head of the cache.
File(v, p, u, timer) ==
    LET w == TakeItem(v, p) IN
    [w EXCEPT !.pool[p].cache = <<u.conn>> \o @,
              !.pool[p].active = @ + CountIn(u),
              !.conn[u.conn].timer = timer]

----------------------------------------------------------------------------
(* Calls on a socket.                                                      *)

CanReuse(v, p) == p # None /\ v.pool[p].cache # <<>>

\* connect closes what the socket has, then takes the head of the cache of the
\* pool, or else starts to resolve and connect.
Connect(s, k) ==
    LET v == Finalize(vm, sock[s])
        p == v.registry[k]
        u == [Closed EXCEPT !.key = k, !.target = k] IN
    /\ sock[s].waiting = "no"
    /\ \/ /\ CanReuse(v, p)
          /\ LET c == Head(v.pool[p].cache) IN
             /\ vm' = [v EXCEPT !.pool[p].cache = Tail(@), !.pool[p].free = @ + 1,
                                !.conn[c].timer = FALSE]
             /\ sock' = [sock EXCEPT ![s] = [u EXCEPT !.conn = c, !.reused = TRUE, !.pool = p]]
       \/ /\ ~CanReuse(v, p)
          /\ vm' = v
          /\ sock' = [sock EXCEPT ![s] = [u EXCEPT !.waiting = "connecting"]]
    /\ UNCHANGED <<exiting, misfiled>>

\* connect sets the key of the object before it finds the port bad or the socket
\* busy, and returns.  (After a connection was misfiled the model follows no
\* second such mistake.)
ConnectRefused(s, k) ==
    /\ ~misfiled
    /\ sock[s].key \notin {k, None}
    /\ sock' = [sock EXCEPT ![s].key = k]
    /\ UNCHANGED <<vm, exiting, misfiled>>

Connected(s, c) ==
    /\ sock[s].waiting = "connecting"
    /\ vm.conn[c] = None
    /\ vm' = [vm EXCEPT !.conn[c] = [home |-> sock[s].target, hot |-> FALSE, timer |-> FALSE]]
    /\ sock' = [sock EXCEPT ![s].conn = c, ![s].waiting = "no"]
    /\ UNCHANGED <<exiting, misfiled>>

ConnectFailed(s) ==
    /\ sock[s].waiting = "connecting"
    /\ sock' = [sock EXCEPT ![s] = Closed]
    /\ UNCHANGED <<vm, exiting, misfiled>>

\* A thread waits in receive or send.
Wait(s) ==
    /\ sock[s].waiting = "no" /\ sock[s].conn # None
    /\ sock' = [sock EXCEPT ![s].waiting = "io"]
    /\ UNCHANGED <<vm, exiting, misfiled>>

\* It has read what the peer sent, if anything, or failed, which closes one
\* half of the connection.
WaitDone(s) ==
    /\ sock[s].waiting = "io"
    /\ \/ sock' = [sock EXCEPT ![s].waiting = "no"]
       \/ sock' = [sock EXCEPT ![s].waiting = "no", ![s].half = TRUE]
    /\ \/ UNCHANGED vm
       \/ vm' = [vm EXCEPT !.conn[sock[s].conn].hot = FALSE]
    /\ UNCHANGED <<exiting, misfiled>>

\* The thread that waits is killed; its callback closes the connection, and the
\* socket stays busy.
KillWaiting(s) ==
    /\ sock[s].waiting \in {"connecting", "io"}
    /\ vm' = Finalize(vm, sock[s])
    /\ sock' = [sock EXCEPT ![s] = [Closed EXCEPT !.waiting = "killed"]]
    /\ UNCHANGED <<exiting, misfiled>>

Close(s) ==
    /\ sock[s].waiting = "no" /\ sock[s].conn # None
    /\ vm' = Finalize(vm, sock[s])
    /\ sock' = [sock EXCEPT ![s] = Closed]
    /\ UNCHANGED <<exiting, misfiled>>

\* The request ends, or the Lua collector takes the object.
Destroy(s) ==
    /\ sock[s] # Closed
    /\ vm' = Finalize(vm, sock[s])
    /\ sock' = [sock EXCEPT ![s] = Closed]
    /\ UNCHANGED <<exiting, misfiled>>

\* The pool of a key, a new one if the registry has none.
PoolFor(k, size) ==
    IF vm.registry[k] # None THEN {[id |-> vm.registry[k], vm |-> vm]}
    ELSE {[id |-> p, vm |-> [vm EXCEPT !.pool[p] = NewPool(k, size), !.registry[k] = p]] :
             p \in {q \in PoolIds : vm.pool[q] = None}}

\* setkeepalive files the connection under the key of the object.  If it turns
\* out to be readable it is closed again at once: "connection in dubious state".
SetKeepalive(s, timer, size) ==
    LET u == sock[s] IN
    /\ u.conn # None /\ u.waiting = "no" /\ ~u.half
    /\ \E to \in PoolFor(u.key, size) :
          LET filed == File(to.vm, to.id, u, timer) IN
          \/ vm' = filed
          \/ vm.conn[u.conn].hot /\ vm' = CloseHandler(filed, to.id, u.conn)
    /\ sock' = [sock EXCEPT ![s] = Closed]
    /\ misfiled' = (misfiled \/ vm.conn[u.conn].home # u.key)
    /\ UNCHANGED exiting

----------------------------------------------------------------------------
(* Events.                                                                 *)

\* The peer of a connection sends something or closes it.
PeerActs(c) ==
    /\ vm.conn[c] # None /\ ~vm.conn[c].hot
    /\ vm' = [vm EXCEPT !.conn[c].hot = TRUE]
    /\ UNCHANGED <<sock, exiting, misfiled>>

IdleIn(c, p) == vm.pool[p] # None /\ c \in ToSet(vm.pool[p].cache)

\* The read event of an idle connection: its timer, or something to read.
IdleEvent(c, p) ==
    /\ IdleIn(c, p)
    /\ vm.conn[c].timer \/ vm.conn[c].hot
    /\ vm' = CloseHandler(vm, p, c)
    /\ UNCHANGED <<sock, exiting, misfiled>>

\* The finaliser of a pool nobody refers to.
ShutdownPool(p) ==
    /\ vm.pool[p] # None
    /\ \A k \in Keys : vm.registry[k] # p
    /\ vm' = [vm EXCEPT !.pool[p] = None,
                        !.conn = [c \in Conns |-> IF IdleIn(c, p) THEN None ELSE @[c]]]
    /\ UNCHANGED <<sock, exiting, misfiled>>

----------------------------------------------------------------------------
(* The life of the worker.                                                 *)

\* ngx_close_idle_connections runs the close handler of every idle connection.
CloseIdle(v) ==
    LET idle == {c \in Conns : \E p \in PoolIds : IdleIn(c, p)}
        left(pool) == pool.active - Len(pool.cache)
        dropped(p) == /\ v.pool[p].cache # <<>>
                      /\ 0 \in left(v.pool[p])..(v.pool[p].active - 1)
    IN  [conn |-> [c \in Conns |-> IF c \in idle THEN None ELSE v.conn[c]],
         pool |-> [p \in PoolIds |->
                     IF v.pool[p] = None THEN None
                     ELSE [v.pool[p] EXCEPT !.cache = <<>>, !.free = @ + Len(v.pool[p].cache),
                                            !.active = left(v.pool[p])]],
         registry |-> [k \in Keys |->
                         IF \E p \in PoolIds : v.pool[p] # None /\ v.pool[p].key = k /\ dropped(p)
                         THEN None ELSE v.registry[k]]]

BeginExit ==
    /\ ~exiting
    /\ vm' = CloseIdle(vm)
    /\ exiting' = TRUE
    /\ UNCHANGED <<sock, misfiled>>

NoRequests == \A s \in Sockets : sock[s] = Closed

\* ngx_http_lua_cleanup_conn_pools closes one connection of each pool; the
\* finalisers that lua_close runs close the others.
CleanupConnPools ==
    LET registered == {vm.registry[k] : k \in Keys} \ {None}
        heads == {Head(vm.pool[p].cache) : p \in {q \in registered : vm.pool[q].cache # <<>>}} IN
    /\ exiting /\ NoRequests /\ registered # {}
    /\ vm' = [conn |-> [c \in Conns |-> IF c \in heads THEN None ELSE vm.conn[c]],
              pool |-> [p \in PoolIds |->
                           IF p \in registered /\ vm.pool[p].cache # <<>>
                           THEN [vm.pool[p] EXCEPT !.cache = Tail(@)] ELSE vm.pool[p]],
              registry |-> [k \in Keys |-> None]]
    /\ UNCHANGED <<sock, exiting, misfiled>>

\* The process has exited and another one is there.
Respawn ==
    /\ exiting /\ NoRequests /\ \A p \in PoolIds : vm.pool[p] = None
    /\ vm' = [vm EXCEPT !.conn = [c \in Conns |-> None]]
    /\ exiting' = FALSE
    /\ misfiled' = FALSE
    /\ UNCHANGED sock

Call(s) ==
    \/ \E k \in Keys : Connect(s, k) \/ ConnectRefused(s, k)
    \/ \E c \in Conns : Connected(s, c)
    \/ ConnectFailed(s) \/ Wait(s) \/ WaitDone(s) \/ KillWaiting(s) \/ Close(s) \/ Destroy(s)
    \/ \E timer \in BOOLEAN, size \in Sizes : SetKeepalive(s, timer, size)

Event ==
    \/ \E c \in Conns : PeerActs(c) \/ \E p \in PoolIds : IdleEvent(c, p)
    \/ \E p \in PoolIds : ShutdownPool(p)

Next == (\E s \in Sockets : Call(s)) \/ Event \/ BeginExit \/ CleanupConnPools \/ Respawn

Spec == Init /\ [][Next]_vars

----------------------------------------------------------------------------
(* Properties.                                                             *)

TypeOK ==
    /\ sock \in [Sockets -> [key : Keys \cup {None}, target : Keys \cup {None},
                             conn : Conns \cup {None}, reused : BOOLEAN,
                             pool : PoolIds \cup {None},
                             waiting : {"no", "connecting", "io", "killed"}, half : BOOLEAN]]
    /\ vm \in [conn : [Conns -> Connection \cup {None}],
               pool : [PoolIds -> Pool \cup {None}],
               registry : [Keys -> PoolIds \cup {None}]]
    /\ exiting \in BOOLEAN /\ misfiled \in BOOLEAN

HeldBy(c) == {s \in Sockets : sock[s].conn = c}
Places(p, c) == {i \in DOMAIN vm.pool[p].cache : vm.pool[p].cache[i] = c}
CachedIn(c) == UNION {{p} \X Places(p, c) : p \in {q \in PoolIds : vm.pool[q] # None}}

\* An open connection is with one socket or in one place of one pool, and a
\* closed one is nowhere: no two requests ever talk over one connection, and
\* none leaks, in whatever order sockets connect, file, die and events fire.
OneOwner ==
    \A c \in Conns :
        Cardinality(HeldBy(c)) + Cardinality(CachedIn(c)) = IF vm.conn[c] = None THEN 0 ELSE 1

Borrowed(p) == {s \in Sockets : sock[s].conn # None /\ sock[s].reused /\ sock[s].pool = p}
Registered(p) == vm.pool[p] # None /\ vm.registry[vm.pool[p].key] = p

\* "active connections == out-of-pool reused connections + in-pool connections"
\* (ngx_http_lua_socket_tcp.h:40): a pool stays registered just as long as it
\* has such connections, and its items are all in one of its two queues.
Counted(p) ==
    LET pool == vm.pool[p] IN
    IF Registered(p)
    THEN /\ pool.active = Len(pool.cache) + Cardinality(Borrowed(p))
         /\ pool.active > 0
         /\ Len(pool.cache) + pool.free = pool.size
    ELSE Borrowed(p) = {}

PoolsCounted == misfiled \/ \A p \in PoolIds : Counted(p)

\* An idle connection is closed only because it timed out, the peer acted on it,
\* the worker exits, or its pool was full and it had been idle longest; never by
\* what happens to another connection of the pool or in another pool.
ClosedForCause ==
    [][\A c \in Conns, p \in PoolIds :
         (IdleIn(c, p) /\ vm'.conn[c] = None)
         => \/ misfiled \/ exiting'
            \/ vm.conn[c].timer \/ vm.conn[c].hot
            \/ vm.pool[p].free = 0 /\ Last(vm.pool[p].cache) = c]_vars
=============================================================================
