---------------------------- MODULE DictEntries ----------------------------
(***************************************************************************)
(* The contents of a lua_shared_dict zone as its clients see them: a       *)
(* partial function from keys to a value and an expiry time, 0 meaning     *)
(* never.  ShDict and SharedMap share these operators.                     *)
(***************************************************************************)
EXTENDS Integers, Functions

\* ngx_http_lua_shdict_lookup: an entry has expired when its time to live is
\* negative; at the very millisecond of its expiry it is still found.
Live(s, k, t) == k \in DOMAIN s /\ (s[k].expires = 0 \/ s[k].expires >= t)

\* ngx_http_lua_shdict_expire and flush_expired free it from that millisecond on.
Reclaimable(s, t) == {k \in DOMAIN s : s[k].expires # 0 /\ s[k].expires <= t}

Without(s, D) == Restrict(s, DOMAIN s \ D)

Entry(v, d) == [value |-> v, expires |-> d]

With(s, k, v, d) ==
    [x \in DOMAIN s \cup {k} |-> IF x = k THEN Entry(v, d) ELSE s[x]]

\* The expiry a positive exptime gives at time t.
Deadline(t, exptime) == IF exptime > 0 THEN t + exptime ELSE 0
============================================================================
