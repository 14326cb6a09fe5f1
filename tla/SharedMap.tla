----------------------------- MODULE SharedMap -----------------------------
(***************************************************************************)
(* What ngx.shared.DICT promises: a map from keys to values that may       *)
(* expire, every operation atomic.  Expired entries may vanish at any      *)
(* operation; others only when an operation that may evict says it did.    *)
(* ShDict.tla, the model of ngx_http_lua_shdict.c, implements it.          *)
(***************************************************************************)
EXTENDS DictEntries, Sequences, SequencesExt, FiniteSets

CONSTANTS Keys, Scalars, Elements, ExpTimes, Increments, Skew

VARIABLES store, now, reply

vars == <<store, now, reply>>

\* Values as an operation returns them, and as the map holds them.
Number(n) == [type |-> "number", data |-> n, len |-> 1]
Scalar(v) == [type |-> v.type, data |-> v.data, items |-> <<>>, len |-> v.len]
List(items) == [type |-> "list", data |-> 0, items |-> items, len |-> Len(items)]
Value(v) == [type |-> v.type, data |-> v.data, len |-> v.len]
IsList(v) == v.type = "list"

Reply(op, k, t, res, val, forcible) ==
    reply' = [op |-> op, key |-> k, at |-> t, res |-> res, val |-> val, forcible |-> forcible]

Init ==
    /\ DOMAIN store = {}
    /\ now \in Nat

\* k is stored with value v and expiry d, or memory ran out and k is gone.  An
\* operation that is not safe may lose other entries E, and then is forcible.
Store(op, s, k, v, d, t, safe, val) ==
    \E forcible \in BOOLEAN, E \in IF safe THEN {{}} ELSE SUBSET (DOMAIN s \ {k}) :
        /\ E # {} => forcible
        /\ safe => ~forcible
        /\ \/ /\ Reply(op, k, t, "ok", val, forcible)
              /\ store' = With(Without(s, E), k, Scalar(v), d)
           \/ /\ Reply(op, k, t, "no memory", <<>>, forcible)
              /\ store' = Without(s, E \cup {k})

Fail(op, s, k, t, err) == Reply(op, k, t, err, <<>>, FALSE) /\ store' = s
Return(op, s, k, t, val) == Reply(op, k, t, "ok", val, FALSE) /\ store' = s

StoreOp(s, k, v, e, t) ==
    LET d == Deadline(t, e) IN
    \/ Store("set", s, k, v, d, t, FALSE, <<>>)
    \/ Store("safe_set", s, k, v, d, t, TRUE, <<>>)
    \/ ~Live(s, k, t) /\ Store("add", s, k, v, d, t, FALSE, <<>>)
    \/ ~Live(s, k, t) /\ Store("safe_add", s, k, v, d, t, TRUE, <<>>)
    \/ Live(s, k, t) /\ Store("replace", s, k, v, d, t, FALSE, <<>>)
    \/ Live(s, k, t) /\ \E op \in {"add", "safe_add"} : Fail(op, s, k, t, "exists")
    \/ ~Live(s, k, t) /\ Fail("replace", s, k, t, "not found")

\* get_stale finds what has expired and has not been reclaimed.
ReadOp(s, k, t) ==
    IF Live(s, k, t)
    THEN LET v == s[k].value IN
         \/ \E op \in {"get", "get_stale"} :
                IF IsList(v) THEN Fail(op, s, k, t, "value is a list")
                ELSE Return(op, s, k, t, <<Value(v)>>)
         \/ IF IsList(v) THEN Return("llen", s, k, t, <<Number(Len(v.items))>>)
            ELSE Fail("llen", s, k, t, "value not a list")
    ELSE \/ Return("get", s, k, t, <<>>)
         \/ Return("llen", s, k, t, <<Number(0)>>)
         \/ IF k \notin DOMAIN s THEN Return("get_stale", s, k, t, <<>>)
            ELSE IF IsList(s[k].value) THEN Fail("get_stale", s, k, t, "value is a list")
            ELSE store' = s /\ Reply("get_stale", k, t, "stale", <<Value(s[k].value)>>, FALSE)

DeleteOp(s, k, t) == Return("delete", Without(s, {k}), k, t, <<>>)

IncrOp(s, k, n, t) ==
    IF Live(s, k, t)
    THEN LET v == s[k].value
             sum == Number(v.data + n) IN
         IF v.type = "number"
         THEN Return("incr", With(s, k, Scalar(sum), s[k].expires), k, t, <<sum>>)
         ELSE Fail("incr", s, k, t, "not a number")
    ELSE \/ Fail("incr", s, k, t, "not found")
         \/ Store("incr", s, k, Number(n), 0, t, FALSE, <<Number(n)>>)

\* The list a push extends: the live one, or a new one that never expires.
PushOp(s, k, v, t) ==
    LET old == IF Live(s, k, t) THEN s[k].value.items ELSE <<>>
        d == IF Live(s, k, t) THEN s[k].expires ELSE 0 IN
    IF Live(s, k, t) /\ ~IsList(s[k].value) THEN Fail("push", s, k, t, "value not a list")
    ELSE \/ \E items \in {<<v>> \o old, Append(old, v)} :
              Return("push", With(s, k, List(items), d), k, t, <<Number(Len(items))>>)
         \/ Fail("push", IF Live(s, k, t) THEN s ELSE Without(s, {k}), k, t, "no memory")

PopOp(s, k, t) ==
    IF ~Live(s, k, t) THEN Return("pop", s, k, t, <<>>)
    ELSE IF ~IsList(s[k].value) THEN Fail("pop", s, k, t, "value not a list")
    ELSE LET items == s[k].value.items
             PopTo(v, rest) ==
                Return("pop", IF rest = <<>> THEN Without(s, {k})
                              ELSE With(s, k, List(rest), s[k].expires), k, t, <<v>>) IN
         /\ items # <<>>
         /\ PopTo(Head(items), Tail(items)) \/ PopTo(Last(items), Front(items))

FlushOp(t) ==
    \/ /\ \E kept \in SUBSET DOMAIN store :
             store' = [k \in kept |-> [store[k] EXCEPT !.expires = 1]]
       /\ Reply("flush_all", "none", t, "ok", <<>>, FALSE)
    \/ \E D \in SUBSET Reclaimable(store, t) :
        /\ D = Reclaimable(store, t) \/ Cardinality(D) = 1
        /\ Return("flush_expired", Without(store, D), "none", t, <<Number(Cardinality(D))>>)
    \/ \E keys \in SetToSeqs(DOMAIN store \ Reclaimable(store, t)) :
        Return("get_keys", store, "none", t, keys)

Tick == now' = now + 1 /\ UNCHANGED <<store, reply>>

Operation(t) ==
    \/ FlushOp(t)
    \/ \E D \in SUBSET Reclaimable(store, t), k \in Keys :
        LET s == Without(store, D) IN
        \/ \E v \in Scalars, e \in ExpTimes : StoreOp(s, k, v, e, t)
        \/ \E v \in Elements : PushOp(s, k, v, t)
        \/ ReadOp(s, k, t) \/ DeleteOp(s, k, t) \/ PopOp(s, k, t)
        \/ \E n \in Increments : IncrOp(s, k, n, t)

Next == Tick \/ \E t \in (now - Skew)..now : Operation(t) /\ UNCHANGED now

Spec == Init /\ [][Next]_vars
===========================================================================
