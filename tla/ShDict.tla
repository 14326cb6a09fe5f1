------------------------------- MODULE ShDict -------------------------------
(***************************************************************************)
(* A lua_shared_dict zone, as implemented by                               *)
(* ngx_lua-0.10.10/src/ngx_http_lua_shdict.c.  Every operation runs under  *)
(* the zone's mutex, so an operation is one step; what makes the zone hard *)
(* is what an operation does besides its own work: it reclaims up to two   *)
(* expired entries, moves entries in the LRU queue, and evicts others when *)
(* the slab pool is full.                                                  *)
(*                                                                         *)
(* Memory is counted in units: a node takes one unit and the length of its *)
(* value, a list head one unit, a list node one unit and its value.  The   *)
(* pool is modelled by the number of free units; slab fragmentation, which *)
(* only makes an allocation fail earlier, is left out.                     *)
(***************************************************************************)
EXTENDS DictEntries, Sequences, SequencesExt, FiniteSets

CONSTANTS
    Keys,
    Scalars,        \* values given to set, add and replace
    Elements,       \* values given to lpush and rpush
    Capacity,       \* units of memory of the zone
    ExpTimes,       \* exptime arguments, 0 for none
    Skew,           \* how far the cached time of a worker may lag
    MaxTime,        \* bound of the clock
    Increments,     \* values given to incr
    MaxNumber,      \* bound of the numbers incr produces
    MaxLength       \* bound of the length field of a list

NumLen == 1     \* sizeof(double), in units

\* The clock starts after the instant 1, which flush_all uses as "long ago".
StartTime == 2

ASSUME ShDictAssumption ==
    /\ Capacity \in Nat /\ Skew \in Nat /\ MaxTime \in Nat /\ MaxNumber \in Nat
    /\ MaxLength \in Nat /\ Increments \subseteq Nat
    /\ ExpTimes \subseteq Nat /\ MaxTime >= StartTime
    /\ \A v \in Scalars \cup Elements :
            /\ v.type \in {"number", "string"} /\ v.len \in Nat \ {0}
            /\ v.type = "number" => v.len = NumLen

VARIABLES
    sh,     \* the zone: LRU queue (head first), nodes, free units
    now,    \* the time of day
    reply   \* what the last operation returned, and when it ran

vars == <<sh, now, reply>>

Number(n) == [type |-> "number", data |-> n, len |-> NumLen]

\* A node as ngx_http_lua_shdict_node_t: value_len counts units of a scalar
\* and elements of a list.
ScalarNode(v, d) ==
    [type |-> v.type, data |-> v.data, value_len |-> v.len, items |-> <<>>, expires |-> d]
ListNode == [type |-> "list", data |-> 0, value_len |-> 0, items |-> <<>>, expires |-> 0]

NodeSize(nd) == IF nd.type = "list" THEN 2 ELSE 1 + nd.value_len
ElementSize(v) == 1 + v.len

ItemsSize(s) ==
    LET upTo[i \in 0..Len(s)] == IF i = 0 THEN 0 ELSE upTo[i - 1] + ElementSize(s[i])
    IN  upTo[Len(s)]

----------------------------------------------------------------------------
(* The pieces the operations are made of: functions from zones to zones.   *)

\* The list nodes of k go back to the pool.
FreeItemsMutant(z, k) == z
FreeItems(z, k) == [z EXCEPT !.free = @ + ItemsSize(z.node[k].items)]

\* The links of a node take it out of the queue it is in.
ngx_queue_remove(q, k) == RemoveAt(q, CHOOSE i \in DOMAIN q : q[i] = k)

\* k leaves the LRU queue and the red-black tree and its node is freed.
Unlink(z, k) ==
    [lru  |-> ngx_queue_remove(z.lru, k),
     node |-> Restrict(z.node, DOMAIN z.node \ {k}),
     free |-> z.free + NodeSize(z.node[k])]

RemoveEntry(z, k) == Unlink(FreeItems(z, k), k)

RemoveIfPresentMutant(z, k) == z
RemoveIfPresent(z, k) == IF k \in DOMAIN z.node THEN RemoveEntry(z, k) ELSE z

\* A freshly allocated node enters the tree and the head of the LRU queue.
Link(z, k, nd) ==
    [lru  |-> <<k>> \o z.lru,
     node |-> [x \in DOMAIN z.node \cup {k} |-> IF x = k THEN nd ELSE z.node[x]],
     free |-> z.free - NodeSize(nd)]

MoveToHead(z, k) == [z EXCEPT !.lru = <<k>> \o ngx_queue_remove(z.lru, k)]

Update(z, k, nd) == [MoveToHead(z, k) EXCEPT !.node[k] = nd]

DueMutant(nd, t) == nd.expires <= t
Due(nd, t) == nd.expires # 0 /\ nd.expires <= t

\* One turn of the loop of ngx_http_lua_shdict_expire.
ExpireDue(z, t) ==
    IF z.lru # <<>> /\ Due(z.node[Last(z.lru)], t)
    THEN RemoveEntry(z, Last(z.lru)) ELSE z

OldestMutant(lru) == Head(lru)
Oldest(lru) == Last(lru)

ExpireOldest(z) == IF z.lru # <<>> THEN RemoveEntry(z, Oldest(z.lru)) ELSE z

\* n = 1: at most two entries from the tail, as long as they have expired.
\* n = 0: the oldest entry by force, and then the same.
Expire1(z, t) == ExpireDue(ExpireDue(z, t), t)
Expire0(z, t) == ExpireDue(ExpireDue(ExpireOldest(z), t), t)

\* ngx_http_lua_shdict_lookup: "OK", "DONE" for an expired entry, "DECLINED".
Rc(z, k, t) ==
    IF k \notin DOMAIN z.node THEN "DECLINED"
    ELSE IF z.node[k].expires # 0 /\ z.node[k].expires < t THEN "DONE" ELSE "OK"

Looked(z, k) == IF k \in DOMAIN z.node THEN MoveToHead(z, k) ELSE z

\* What nearly every operation on k begins with.
Entered(k, t) == Looked(Expire1(sh, t), k)

FitsMutant(z, n) == z.free + 2 >= n
Fits(z, n) == z.free >= n

EvictRounds == 30

\* The eviction loop of store and incr: a failed allocation is retried after
\* each forced expiry, until nothing is left to evict.
MakeRoom(z, n, t) ==
    LET room[i \in 0..EvictRounds] ==
            IF i = 0 THEN z
            ELSE LET y == room[i - 1] IN
                 IF Fits(y, n) \/ y.lru = <<>> THEN y ELSE Expire0(y, t)
    IN  room[EvictRounds]

Clocks == (now - Skew)..now

\* A reply: the status or error, the values returned (a sequence, so that none
\* is <<>>), and whether valid entries were evicted.
Reply(op, k, t, res, val, forcible) ==
    /\ t \in Clocks
    /\ reply' = [op |-> op, key |-> k, at |-> t, res |-> res, val |-> val, forcible |-> forcible]
    /\ UNCHANGED now

Return(op, k, t, val) == Reply(op, k, t, "ok", val, FALSE)
Fail(op, k, t, err) == Reply(op, k, t, err, <<>>, FALSE)

----------------------------------------------------------------------------
Init ==
    /\ sh = [lru |-> <<>>, node |-> <<>>, free |-> Capacity]
    /\ now = StartTime
    /\ reply = [op |-> "none", key |-> "none", at |-> StartTime, res |-> "ok", val |-> <<>>, forcible |-> FALSE]

\* The entry found for k may be overwritten in place.
Reusable(z, k, len) ==
    k \in DOMAIN z.node /\ z.node[k].type # "list" /\ z.node[k].value_len = len

\* From the label insert on: allocate a node for k, evicting unless safe.
Insert(op, z, k, nd, t, safe, val) ==
    LET m == IF safe THEN z ELSE MakeRoom(z, NodeSize(nd), t) IN
    \/ /\ Fits(m, NodeSize(nd))
       /\ sh' = Link(m, k, nd)
       /\ Reply(op, k, t, "ok", val, m # z)
    \/ /\ ~Fits(m, NodeSize(nd))
       /\ sh' = m
       /\ Reply(op, k, t, "no memory", <<>>, m # z)

\* From the label replace on: reuse the old node or remove it and insert.
Put(op, z, k, nd, t, safe, val) ==
    \/ /\ Reusable(z, k, nd.value_len)
       /\ sh' = Update(z, k, nd)
       /\ Return(op, k, t, val)
    \/ /\ ~Reusable(z, k, nd.value_len)
       /\ Insert(op, RemoveIfPresent(z, k), k, nd, t, safe, val)

NewNode(v, e, t) == ScalarNode(v, Deadline(t, e))

Set(k, v, e, t) == Put("set", Entered(k, t), k, NewNode(v, e, t), t, FALSE, <<>>)

SafeSet(k, v, e, t) == Put("safe_set", Entered(k, t), k, NewNode(v, e, t), t, TRUE, <<>>)

\* add and safe_add
Add(op, safe, k, v, e, t) ==
    LET z == Entered(k, t) IN
    \/ /\ Rc(z, k, t) = "OK"
       /\ sh' = z
       /\ Fail(op, k, t, "exists")
    \/ /\ Rc(z, k, t) # "OK"
       /\ Put(op, z, k, NewNode(v, e, t), t, safe, <<>>)

Replace(k, v, e, t) ==
    LET z == Entered(k, t) IN
    \/ /\ Rc(z, k, t) # "OK"
       /\ sh' = z
       /\ Fail("replace", k, t, "not found")
    \/ /\ Rc(z, k, t) = "OK"
       /\ Put("replace", z, k, NewNode(v, e, t), t, FALSE, <<>>)

\* delete is set with nil: whatever is there is removed.
Delete(k, t) ==
    /\ sh' = RemoveIfPresent(Entered(k, t), k)
    /\ Return("delete", k, t, <<>>)

Value(nd) == [type |-> nd.type, data |-> nd.data, len |-> nd.value_len]

Get(k, t) ==
    LET z == Entered(k, t)
        nd == z.node[k] IN
    /\ sh' = z
    /\ \/ Rc(z, k, t) # "OK" /\ Return("get", k, t, <<>>)
       \/ Rc(z, k, t) = "OK" /\ nd.type = "list" /\ Fail("get", k, t, "value is a list")
       \/ Rc(z, k, t) = "OK" /\ nd.type # "list" /\ Return("get", k, t, <<Value(nd)>>)

\* get_stale reclaims nothing and returns an expired value too, saying so.
GetStale(k, t) ==
    LET z == Looked(sh, k)
        nd == z.node[k]
        stale == IF Rc(z, k, t) = "DONE" THEN "stale" ELSE "ok" IN
    /\ sh' = z
    /\ \/ Rc(z, k, t) = "DECLINED" /\ Return("get_stale", k, t, <<>>)
       \/ /\ Rc(z, k, t) # "DECLINED" /\ nd.type = "list"
          /\ Fail("get_stale", k, t, "value is a list")
       \/ /\ Rc(z, k, t) # "DECLINED" /\ nd.type # "list"
          /\ Reply("get_stale", k, t, stale, <<Value(nd)>>, FALSE)

\* incr of a live entry adds in place and keeps its expiry.
IncrLive(k, n, t) ==
    LET z == Entered(k, t)
        nd == z.node[k] IN
    /\ Rc(z, k, t) = "OK"
    /\ \/ /\ nd.type # "number"
          /\ sh' = z
          /\ Fail("incr", k, t, "not a number")
       \/ /\ nd.type = "number" /\ nd.data + n <= MaxNumber
          /\ sh' = Update(z, k, [nd EXCEPT !.data = @ + n])
          /\ Return("incr", k, t, <<Number(nd.data + n)>>)

\* Without init a missing or expired key is an error; with it the key starts
\* over, never expiring, in the old node if that has the size of a number.
IncrDead(k, n, init, t) ==
    LET z == Entered(k, t) IN
    /\ Rc(z, k, t) # "OK"
    /\ \/ /\ init = <<>>
          /\ sh' = z
          /\ Fail("incr", k, t, "not found")
       \/ /\ init # <<>>
          /\ Put("incr", z, k, ScalarNode(Number(n + init[1]), 0), t, FALSE, <<Number(n + init[1])>>)

Incr(k, n, init, t) == IncrLive(k, n, t) \/ IncrDead(k, n, init, t)

----------------------------------------------------------------------------
(* Lists.                                                                  *)

\* push on an expired list keeps the node and starts an empty list in it; the
\* code does not reset value_len.
Reset(z, k) ==
    [MoveToHead(FreeItems(z, k), k) EXCEPT !.node[k].items = <<>>, !.node[k].expires = 0]

\* The zone when push reaches the label push_node; k is not in it if there is
\* no memory for a new list.
ListReady(z, k, t) ==
    IF Rc(z, k, t) = "OK" THEN MoveToHead(z, k)
    ELSE IF k \in DOMAIN z.node /\ z.node[k].type = "list" THEN Reset(z, k)
    ELSE LET y == RemoveIfPresent(z, k) IN
         IF Fits(y, NodeSize(ListNode)) THEN Link(y, k, ListNode) ELSE y

Pushed(items, v, side) == IF side = "left" THEN <<v>> \o items ELSE Append(items, v)

PushNode(y, k, v, side) ==
    [y EXCEPT !.free = @ - ElementSize(v),
              !.node[k].items = Pushed(@, v, side),
              !.node[k].value_len = @ + 1]

\* A list that got no element because memory ran out does not stay behind.
DropEmptyMutant(y, k) == y
DropEmpty(y, k) == IF y.node[k].value_len = 0 THEN Unlink(y, k) ELSE y

\* lpush and rpush never evict.
Push(k, v, side, t) ==
    LET z == Entered(k, t)
        y == ListReady(z, k, t) IN
    \/ /\ Rc(z, k, t) = "OK" /\ z.node[k].type # "list"
       /\ sh' = z
       /\ Fail("push", k, t, "value not a list")
    \/ /\ Rc(z, k, t) = "OK" => z.node[k].type = "list"
       /\ \/ /\ k \in DOMAIN y.node /\ Fits(y, ElementSize(v))
             /\ y.node[k].value_len < MaxLength
             /\ sh' = PushNode(y, k, v, side)
             /\ Return("push", k, t, <<Number(y.node[k].value_len + 1)>>)
          \/ /\ k \in DOMAIN y.node => ~Fits(y, ElementSize(v))
             /\ sh' = IF k \in DOMAIN y.node THEN DropEmpty(y, k) ELSE y
             /\ Fail("push", k, t, "no memory")

\* The node is removed with its last element, as value_len counts them.
ShrinkList(z, k) ==
    IF z.node[k].value_len = 1 THEN Unlink(z, k)
    ELSE [MoveToHead(z, k) EXCEPT !.node[k].value_len = @ - 1]

PopNode(z, k, side) ==
    LET items == z.node[k].items
        v == IF side = "left" THEN Head(items) ELSE Last(items) IN
    ShrinkList([z EXCEPT !.free = @ + ElementSize(v),
                         !.node[k].items = IF side = "left" THEN Tail(items) ELSE Front(items)],
               k)

Pop(k, side, t) ==
    LET z == Entered(k, t)
        nd == z.node[k] IN
    \/ /\ Rc(z, k, t) # "OK"
       /\ sh' = z
       /\ Return("pop", k, t, <<>>)
    \/ /\ Rc(z, k, t) = "OK" /\ nd.type # "list"
       /\ sh' = z
       /\ Fail("pop", k, t, "value not a list")
    \/ /\ Rc(z, k, t) = "OK" /\ nd.type = "list" /\ nd.items # <<>>
       /\ sh' = PopNode(z, k, side)
       /\ Return("pop", k, t, <<IF side = "left" THEN Head(nd.items) ELSE Last(nd.items)>>)

\* value_len promises an element the list does not have: the list head itself is
\* read as a node.  Its type byte decides between an error and a meaningless
\* value; the slab allocator refuses to free an address inside a chunk.
PopHollow(k, t) ==
    LET z == Entered(k, t) IN
    /\ Rc(z, k, t) = "OK" /\ z.node[k].type = "list" /\ z.node[k].items = <<>>
    /\ \/ sh' = z /\ Fail("pop", k, t, "bad list node value type")
       \/ sh' = ShrinkList(z, k) /\ Fail("pop", k, t, "garbage")

LLen(k, t) ==
    LET z == Entered(k, t) IN
    /\ sh' = z
    /\ \/ Rc(z, k, t) # "OK" /\ Return("llen", k, t, <<Number(0)>>)
       \/ /\ Rc(z, k, t) = "OK" /\ z.node[k].type # "list"
          /\ Fail("llen", k, t, "value not a list")
       \/ /\ Rc(z, k, t) = "OK" /\ z.node[k].type = "list"
          /\ Return("llen", k, t, <<Number(z.node[k].value_len)>>)

----------------------------------------------------------------------------
(* Operations on the whole zone.                                           *)

\* flush_all marks every entry as long expired and reclaims up to three.
FlushAll(t) ==
    LET marked == [k \in DOMAIN sh.node |-> [sh.node[k] EXCEPT !.expires = 1]] IN
    /\ sh' = Expire0([sh EXCEPT !.node = marked], t)
    /\ Return("flush_all", "none", t, <<>>)

\* The entries as flush_expired and get_keys walk them: from the tail on.
Aged(i) == sh.lru[Len(sh.lru) + 1 - i]

\* flush_expired frees the expired entries it comes to, at most n unless n is 0.
FlushExpired(n, t) ==
    LET walk[i \in 0..Len(sh.lru)] ==
            IF i = 0 THEN [zone |-> sh, freed |-> 0]
            ELSE LET w == walk[i - 1] IN
                 IF Due(sh.node[Aged(i)], t) /\ (n = 0 \/ w.freed < n)
                 THEN [zone |-> RemoveEntry(w.zone, Aged(i)), freed |-> w.freed + 1] ELSE w
        end == walk[Len(sh.lru)] IN
    /\ sh' = end.zone
    /\ Return("flush_expired", "none", t, <<Number(end.freed)>>)

GetKeys(t) ==
    LET keys[i \in 0..Len(sh.lru)] ==
            IF i = 0 THEN <<>>
            ELSE IF Due(sh.node[Aged(i)], t) THEN keys[i - 1] ELSE Append(keys[i - 1], Aged(i)) IN
    /\ UNCHANGED sh
    /\ Return("get_keys", "none", t, keys[Len(sh.lru)])

Tick ==
    /\ now < MaxTime
    /\ now' = now + 1
    /\ UNCHANGED <<sh, reply>>

KeyOp(k, t) ==
    \/ \E v \in Scalars, e \in ExpTimes :
            \/ Set(k, v, e, t) \/ SafeSet(k, v, e, t) \/ Replace(k, v, e, t)
            \/ Add("add", FALSE, k, v, e, t) \/ Add("safe_add", TRUE, k, v, e, t)
    \/ \E v \in Elements, side \in {"left", "right"} : Push(k, v, side, t)
    \/ \E side \in {"left", "right"} : Pop(k, side, t)
    \/ \E n \in Increments, init \in {<<>>, <<0>>} : Incr(k, n, init, t)
    \/ Delete(k, t) \/ Get(k, t) \/ GetStale(k, t) \/ PopHollow(k, t) \/ LLen(k, t)

ZoneOp(t) == FlushAll(t) \/ GetKeys(t) \/ \E n \in {0, 1} : FlushExpired(n, t)

Next == Tick \/ \E t \in StartTime..MaxTime : ZoneOp(t) \/ \E k \in Keys : KeyOp(k, t)

Spec == Init /\ [][Next]_vars

----------------------------------------------------------------------------
(* Properties.                                                             *)

NodeOK(nd) ==
    /\ nd.type \in {"number", "string", "list"}
    /\ nd.value_len \in Nat
    /\ nd.expires \in Nat
    /\ nd.items \in Seq(Elements)
    /\ nd.type # "list" => nd.items = <<>> /\ nd.value_len > 0

TypeOK ==
    /\ sh.lru \in Seq(Keys)
    /\ DOMAIN sh.node \subseteq Keys
    /\ \A k \in DOMAIN sh.node : NodeOK(sh.node[k])
    /\ sh.free \in 0..Capacity
    /\ now \in StartTime..MaxTime
    /\ reply.forcible \in BOOLEAN

Footprint(k) == NodeSize(sh.node[k]) + ItemsSize(sh.node[k].items)

\* The LRU queue and the tree hold the same nodes, each once, and every unit of
\* the pool is free or belongs to one of them: no path of store, incr, push,
\* pop, flush or eviction frees twice, forgets to free or leaves a dangling
\* entry behind.
ZoneConsistent ==
    /\ IsInjective(sh.lru)
    /\ ToSet(sh.lru) = DOMAIN sh.node
    /\ sh.free + SumFunction([k \in DOMAIN sh.node |-> Footprint(k)]) = Capacity

Valid(k, t) == k \in DOMAIN sh.node /\ ~Due(sh.node[k], t)

\* A valid entry nobody named disappears only from an operation that ran out of
\* memory and may evict; the operation says so, and then everything used less
\* recently has gone too.
EvictsOldestOnly ==
    [][\A i \in DOMAIN sh.lru :
         LET k == sh.lru[i] IN
         (/\ reply'.op # "flush_all" /\ reply'.key # k
          /\ Valid(k, reply'.at) /\ k \notin DOMAIN sh'.node)
         => /\ reply'.forcible
            /\ reply'.op \in {"set", "add", "replace", "incr"}
            /\ \A j \in i..Len(sh.lru) :
                  sh.lru[j] # reply'.key => sh.lru[j] \notin DOMAIN sh'.node]_vars

\* No operation is left with an empty list under a key.
NoEmptyList ==
    \A k \in DOMAIN sh.node : sh.node[k].type = "list" => sh.node[k].value_len > 0

Contents ==
    [k \in DOMAIN sh.node |->
        LET nd == sh.node[k] IN
        Entry([type |-> nd.type, data |-> nd.data, items |-> nd.items,
               len |-> IF nd.type = "list" THEN Len(nd.items) ELSE nd.value_len],
              nd.expires)]

Map == INSTANCE SharedMap WITH store <- Contents

\* The zone is the map with expiring entries its documentation describes.
ImplementsMap == Map!Spec

----------------------------------------------------------------------------
(* What the documentation says and the code does not do.                   *)

\* llen returns the number of elements of the list.
LengthIsCount ==
    [][reply'.op = "llen" /\ reply'.res = "ok" /\ reply'.key \in DOMAIN sh'.node
       /\ Rc(sh', reply'.key, reply'.at) = "OK"
       => reply'.val = <<Number(Len(sh'.node[reply'.key].items))>>]_vars
============================================================================
