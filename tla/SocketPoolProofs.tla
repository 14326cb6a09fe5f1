-------------------------- MODULE SocketPoolProofs --------------------------
(***************************************************************************)
(* Theorems about SocketPool.tla, for any sockets, keys, connections and   *)
(* pools and any pool sizes: types, that a connection is in one place, how *)
(* pools count, and why connections are closed.                            *)
(***************************************************************************)
EXTENDS SocketPool, FiniteSetTheorems, SequenceTheorems, TLAPS

USE SocketPoolAssumption

VM == [conn : [Conns -> Connection \cup {None}],
       pool : [PoolIds -> Pool \cup {None}],
       registry : [Keys -> PoolIds \cup {None}]]

Socket == [key : Keys \cup {None}, target : Keys \cup {None}, conn : Conns \cup {None},
           reused : BOOLEAN, pool : PoolIds \cup {None},
           waiting : {"no", "connecting", "io", "killed"}, half : BOOLEAN]

NoDup(q) == \A i, j \in 1..Len(q) : q[i] = q[j] => i = j

\* The connections in the cache of a pool.
Idle(v, p) == IF v.pool[p] = None THEN {} ELSE ToSet(v.pool[p].cache)

\* The state of connections and pools, while sockets hold the connections in H:
\* who is open is held or idle, in one place; a key's pool is there, and each of
\* its items is in use or free.
InOnePlace(v, H) ==
    /\ \A p \in PoolIds : v.pool[p] # None => NoDup(v.pool[p].cache)
    /\ \A p, q \in PoolIds : p # q => Idle(v, p) \cap Idle(v, q) = {}
    /\ \A p \in PoolIds : Idle(v, p) \cap H = {}
    /\ \A c \in Conns : v.conn[c] # None <=> c \in H \/ \E p \in PoolIds : c \in Idle(v, p)

RegistryOK(v) ==
    \A k \in Keys : LET p == v.registry[k] IN
        p # None => /\ v.pool[p] # None /\ v.pool[p].key = k
                    /\ Len(v.pool[p].cache) + v.pool[p].free = v.pool[p].size

VmOK(v, H) == v \in VM /\ H \subseteq Conns /\ InOnePlace(v, H) /\ RegistryOK(v)

\* The sockets hold connections of their own, and know what they need to know.
SocketOK(u) ==
    /\ u \in Socket
    /\ u.conn # None \/ u.waiting = "connecting" => u.key \in Keys
    /\ u.waiting \in {"connecting", "killed"} => u.conn = None
    /\ u.waiting = "connecting" => u.target \in Keys
    /\ u.waiting = "io" => u.conn # None
    /\ u.reused => u.conn # None /\ u.pool \in PoolIds

Held == {sock[s].conn : s \in Sockets} \ {None}

SocketsOK ==
    /\ sock \in [Sockets -> Socket]
    /\ \A s \in Sockets : SocketOK(sock[s])
    /\ \A s, t \in Sockets : sock[s].conn = sock[t].conn /\ sock[s].conn # None => s = t

Owned == SocketsOK /\ VmOK(vm, Held) /\ exiting \in BOOLEAN /\ misfiled \in BOOLEAN

\* Counted, with what it takes to stay so, for a pool from which n connections
\* are borrowed.  Connections are filed in, and were borrowed from, the pool of
\* their home.  A pool that lost its place in the registry with connections in it
\* did so when the worker exited; then its count no longer reaches 0.
Listed(v, p) == v.pool[p] # None /\ v.registry[v.pool[p].key] = p

Agrees(v, p, n, leaving) ==
    /\ n \in Nat
    /\ Listed(v, p) => v.pool[p].active = Len(v.pool[p].cache) + n /\ v.pool[p].active > 0
    /\ ~Listed(v, p) => /\ n = 0
                        /\ v.pool[p] # None /\ v.pool[p].cache # <<>> =>
                              leaving /\ v.pool[p].active > Len(v.pool[p].cache)
    /\ \A c \in Idle(v, p) : v.conn[c].home = v.pool[p].key

Borrows(u, p) == u.conn # None /\ u.reused /\ u.pool = p

CountsOK ==
    /\ \A p \in PoolIds : /\ IsFiniteSet(Borrowed(p))
                          /\ Agrees(vm, p, Cardinality(Borrowed(p)), exiting)
    /\ \A s \in Sockets, p \in PoolIds :
          Borrows(sock[s], p) => vm.conn[sock[s].conn].home = vm.pool[p].key

----------------------------------------------------------------------------
(* Caches.                                                                 *)

LEMMA ToSetFacts ==
    ASSUME NEW s \in Seq(Conns)
    PROVE  /\ Len(s) \in Nat /\ DOMAIN s = 1..Len(s)
           /\ \A c : c \in ToSet(s) <=> \E i \in 1..Len(s) : s[i] = c
           /\ \A i \in 1..Len(s) : s[i] \in Conns
           /\ ToSet(s) \subseteq Conns
           /\ s = <<>> <=> Len(s) = 0
           /\ s = <<>> <=> ToSet(s) = {}
<1>1. /\ Len(s) \in Nat /\ DOMAIN s = 1..Len(s) /\ \A i \in 1..Len(s) : s[i] \in Conns
      /\ s = <<>> <=> Len(s) = 0
  OBVIOUS
<1>2. \A c : c \in ToSet(s) <=> \E i \in 1..Len(s) : s[i] = c
  BY <1>1 DEF ToSet
<1>3. s = <<>> <=> ToSet(s) = {}
  <2>1. CASE Len(s) = 0
    BY <1>1, <1>2, <2>1
  <2>2. CASE Len(s) # 0
    <3>1. 1 \in 1..Len(s)
      BY <1>1, <2>2
    <3> QED BY <1>1, <1>2, <2>2, <3>1
  <2> QED BY <2>1, <2>2
<1> QED BY <1>1, <1>2, <1>3

\* A cache without its k-th connection.
LEMMA GapFacts ==
    ASSUME NEW s \in Seq(Conns), NoDup(s), NEW k \in 1..Len(s),
           NEW r \in Seq(Conns), Len(r) = Len(s) - 1,
           \A j \in 1..(Len(s) - 1) : r[j] = IF j < k THEN s[j] ELSE s[j + 1]
    PROVE  NoDup(r) /\ ToSet(r) = ToSet(s) \ {s[k]}
<1>1. Len(s) \in Nat
  BY ToSetFacts
<1>2. NoDup(r)
  BY <1>1 DEF NoDup
<1>3. ASSUME NEW c \in ToSet(r) PROVE c \in ToSet(s) \ {s[k]}
  <2>1. PICK i \in 1..Len(r) : r[i] = c
    BY <1>3, ToSetFacts
  <2>2. PICK j \in 1..Len(s) : s[j] = c /\ j # k
    <3>1. CASE i < k
      BY <1>1, <2>1, <3>1
    <3>2. CASE i >= k
      <4>1. i + 1 \in 1..Len(s) /\ s[i + 1] = c /\ i + 1 # k
        BY <1>1, <2>1, <3>2
      <4> QED BY <4>1
    <3> QED BY <1>1, <3>1, <3>2
  <2>3. c # s[k]
    BY <2>2 DEF NoDup
  <2> QED BY <2>2, <2>3, ToSetFacts
<1>4. ASSUME NEW c \in ToSet(s), c # s[k] PROVE c \in ToSet(r)
  <2>1. PICK i \in 1..Len(s) : s[i] = c /\ i # k
    BY <1>4, ToSetFacts
  <2>2. CASE i < k
    <3>1. i \in 1..Len(r) /\ r[i] = c
      BY <1>1, <2>1, <2>2
    <3> QED BY <3>1, ToSetFacts
  <2>3. CASE i > k
    <3>1. i - 1 \in 1..Len(r) /\ r[i - 1] = c
      BY <1>1, <2>1, <2>3
    <3> QED BY <3>1, ToSetFacts
  <2> QED BY <1>1, <2>1, <2>2, <2>3
<1> QED BY <1>2, <1>3, <1>4

LEMMA ConsFacts ==
    ASSUME NEW s \in Seq(Conns), NEW c \in Conns
    PROVE  /\ <<c>> \o s \in Seq(Conns) /\ Len(<<c>> \o s) = Len(s) + 1
           /\ ToSet(<<c>> \o s) = ToSet(s) \cup {c}
           /\ c \notin ToSet(s) /\ NoDup(s) => NoDup(<<c>> \o s)
<1> DEFINE r == <<c>> \o s
<1>1. /\ r \in Seq(Conns) /\ Len(r) = Len(s) + 1 /\ Len(s) \in Nat
      /\ \A j \in 1..(Len(s) + 1) : r[j] = IF j = 1 THEN c ELSE s[j - 1]
  OBVIOUS
<1> HIDE DEF r
<1>2. ToSet(r) = ToSet(s) \cup {c}
  <2>1. ASSUME NEW d \in ToSet(r) PROVE d \in ToSet(s) \cup {c}
    <3>1. PICK i \in 1..Len(r) : r[i] = d
      BY <1>1, <2>1, ToSetFacts
    <3>2. i # 1 => i - 1 \in 1..Len(s)
      BY <1>1
    <3> QED BY <1>1, <3>1, <3>2, ToSetFacts
  <2>2. ASSUME NEW d \in ToSet(s) PROVE d \in ToSet(r)
    <3>1. PICK i \in 1..Len(s) : s[i] = d
      BY <2>2, ToSetFacts
    <3>2. i + 1 \in 1..Len(r) /\ r[i + 1] = d
      BY <1>1, <3>1
    <3> QED BY <1>1, <3>2, ToSetFacts
  <2>3. c \in ToSet(r)
    <3>1. 1 \in 1..Len(r) /\ r[1] = c
      BY <1>1
    <3> QED BY <1>1, <3>1, ToSetFacts
  <2> QED BY <2>1, <2>2, <2>3
<1>3. ASSUME c \notin ToSet(s), NoDup(s) PROVE NoDup(r)
  <2> SUFFICES ASSUME NEW i \in 1..Len(r), NEW j \in 1..Len(r), r[i] = r[j] PROVE i = j
    BY DEF NoDup
  <2>1. \A k \in 1..Len(s) : s[k] # c
    BY <1>3, ToSetFacts
  <2>2. CASE i = 1 \/ j = 1
    BY <1>1, <2>1, <2>2
  <2>3. CASE i # 1 /\ j # 1
    <3>1. i - 1 \in 1..Len(s) /\ j - 1 \in 1..Len(s) /\ s[i - 1] = s[j - 1]
      BY <1>1, <2>3
    <3>2. i - 1 = j - 1
      BY <1>3, <3>1 DEF NoDup
    <3> QED BY <1>1, <3>2
  <2> QED BY <2>2, <2>3
<1> QED BY <1>1, <1>2, <1>3 DEF r

LEMMA TailFacts ==
    ASSUME NEW s \in Seq(Conns), s # <<>>, NoDup(s)
    PROVE  /\ Tail(s) \in Seq(Conns) /\ Len(Tail(s)) = Len(s) - 1 /\ NoDup(Tail(s))
           /\ Head(s) \in ToSet(s) /\ ToSet(Tail(s)) = ToSet(s) \ {Head(s)}
<1> DEFINE r == Tail(s)
<1>1. /\ r \in Seq(Conns) /\ Len(r) = Len(s) - 1 /\ Head(s) = s[1] /\ Len(s) \in Nat
      /\ Len(s) > 0 /\ \A j \in 1..(Len(s) - 1) : r[j] = s[j + 1]
  OBVIOUS
<1> HIDE DEF r
<1>2. 1 \in 1..Len(s)
  BY <1>1
<1>3. \A j \in 1..(Len(s) - 1) : r[j] = IF j < 1 THEN s[j] ELSE s[j + 1]
  BY <1>1
<1>4. NoDup(r) /\ ToSet(r) = ToSet(s) \ {s[1]}
  BY <1>1, <1>2, <1>3, GapFacts
<1>5. s[1] \in ToSet(s)
  BY <1>2, ToSetFacts
<1> QED BY <1>1, <1>4, <1>5 DEF r

LEMMA PrefixFacts ==
    ASSUME NEW s \in Seq(Conns), NEW m \in 0..Len(s)
    PROVE  /\ SubSeq(s, 1, m) \in Seq(Conns) /\ Len(SubSeq(s, 1, m)) = m
           /\ \A j \in 1..m : SubSeq(s, 1, m)[j] = s[j]
<1>1. Len(s) \in Nat /\ \A i \in 1..Len(s) : s[i] \in Conns
  BY ToSetFacts
<1>2. m \in Int /\ \A i \in 1..m : s[i] \in Conns
  BY <1>1
<1> QED BY <1>1, <1>2, SubSeqProperties

LEMMA FrontFacts ==
    ASSUME NEW s \in Seq(Conns), s # <<>>, NoDup(s)
    PROVE  /\ Front(s) \in Seq(Conns) /\ Len(Front(s)) = Len(s) - 1 /\ NoDup(Front(s))
           /\ Last(s) \in ToSet(s) /\ ToSet(Front(s)) = ToSet(s) \ {Last(s)}
<1> DEFINE r == SubSeq(s, 1, Len(s) - 1)
           n == Len(s)
<1>1. n \in Nat /\ n > 0 /\ \A i \in 1..n : s[i] \in Conns
  BY ToSetFacts
<1>2. /\ r \in Seq(Conns) /\ Len(r) = n - 1
      /\ \A j \in 1..(n - 1) : r[j] = s[j]
  <2>1. n - 1 \in 0..Len(s)
    BY <1>1
  <2> QED BY <1>1, <2>1, PrefixFacts
<1> HIDE DEF r
<1>3. \A j \in 1..(n - 1) : r[j] = IF j < n THEN s[j] ELSE s[j + 1]
  BY <1>1, <1>2
<1>4. n \in 1..n
  BY <1>1
<1>5. NoDup(r) /\ ToSet(r) = ToSet(s) \ {s[n]}
  BY <1>2, <1>3, <1>4, GapFacts
<1>6. s[n] \in ToSet(s)
  BY <1>4, ToSetFacts
<1> QED BY <1>2, <1>5, <1>6 DEF r, Front, Last

LEMMA UnlinkedFacts ==
    ASSUME NEW s \in Seq(Conns), NoDup(s), NEW c \in ToSet(s)
    PROVE  /\ Unlinked(s, c) \in Seq(Conns) /\ Len(Unlinked(s, c)) = Len(s) - 1
           /\ NoDup(Unlinked(s, c)) /\ ToSet(Unlinked(s, c)) = ToSet(s) \ {c}
<1> DEFINE k == CHOOSE i \in DOMAIN s : s[i] = c
           front == SubSeq(s, 1, k - 1)
           back == SubSeq(s, k + 1, Len(s))
           r == front \o back
<1>1. k \in 1..Len(s) /\ s[k] = c /\ Len(s) \in Nat /\ \A i \in 1..Len(s) : s[i] \in Conns
  BY ToSetFacts
<1>2. Unlinked(s, c) = r
  BY DEF Unlinked, RemoveAt
<1> HIDE DEF k
<1>3. /\ front \in Seq(Conns) /\ Len(front) = k - 1
      /\ \A j \in 1..(k - 1) : front[j] = s[j]
  <2>1. k - 1 \in 0..Len(s)
    BY <1>1
  <2> QED BY <1>1, <2>1, PrefixFacts
<1>4. /\ back \in Seq(Conns) /\ Len(back) = Len(s) - k
      /\ \A j \in 1..(Len(s) - k) : back[j] = s[k + j]
  <2>1. \A j \in (k + 1)..Len(s) : s[j] \in Conns
    BY <1>1
  <2>2. /\ back \in Seq(Conns)
        /\ Len(back) = IF k + 1 <= Len(s) THEN Len(s) - (k + 1) + 1 ELSE 0
        /\ \A j \in 1..(Len(s) - (k + 1) + 1) : back[j] = s[(k + 1) + j - 1]
    BY <1>1, <2>1, SubSeqProperties
  <2> QED BY <1>1, <2>2
<1> HIDE DEF front, back
<1>5. /\ r \in Seq(Conns) /\ Len(r) = Len(front) + Len(back)
      /\ \A j \in 1..(Len(front) + Len(back)) : r[j] =
            IF j <= Len(front) THEN front[j] ELSE back[j - Len(front)]
  <2>1. front \in Seq(Conns) /\ back \in Seq(Conns)
    BY <1>3, <1>4
  <2> QED BY <2>1
<1> HIDE DEF r
<1>6. /\ r \in Seq(Conns) /\ Len(r) = Len(s) - 1
      /\ \A j \in 1..(Len(s) - 1) : r[j] = IF j < k THEN s[j] ELSE s[j + 1]
  <2>1. r \in Seq(Conns) /\ Len(r) = Len(s) - 1
    BY <1>1, <1>3, <1>4, <1>5
  <2>2. ASSUME NEW j \in 1..(Len(s) - 1)
        PROVE  r[j] = IF j < k THEN s[j] ELSE s[j + 1]
    <3>1. CASE j < k
      <4>1. j \in 1..(Len(front) + Len(back)) /\ j <= Len(front) /\ j \in 1..(k - 1)
        BY <1>1, <1>3, <1>4, <3>1
      <4>2. r[j] = front[j]
        BY <1>5, <4>1
      <4> QED BY <1>3, <3>1, <4>1, <4>2
    <3>2. CASE j >= k
      <4>1. r[j] = back[j - (k - 1)] /\ j - (k - 1) \in 1..(Len(s) - k)
        BY <1>1, <1>3, <1>4, <1>5, <3>2
      <4>2. back[j - (k - 1)] = s[k + (j - (k - 1))]
        BY <1>4, <4>1
      <4>3. k + (j - (k - 1)) = j + 1
        BY <1>1
      <4> QED BY <3>2, <4>1, <4>2, <4>3, <1>1
    <3> QED BY <1>1, <3>1, <3>2
  <2> QED BY <2>1, <2>2
<1>7. NoDup(r) /\ ToSet(r) = ToSet(s) \ {c}
  BY <1>1, <1>6, GapFacts
<1> QED BY <1>2, <1>6, <1>7

----------------------------------------------------------------------------
(* What the pieces change.                                                 *)

LEMMA CloseConnectionFacts ==
    ASSUME NEW v \in VM, NEW c \in Conns
    PROVE  /\ CloseConnection(v, c) \in VM
           /\ CloseConnection(v, c).pool = v.pool
           /\ CloseConnection(v, c).registry = v.registry
           /\ \A d \in Conns : CloseConnection(v, c).conn[d] = IF d = c THEN None ELSE v.conn[d]
  BY DEF VM, CloseConnection

\* Another record in the place of a pool.
LEMMA PoolStep ==
    ASSUME NEW v \in VM, NEW p \in PoolIds, NEW x \in Pool
    PROVE  LET w == [v EXCEPT !.pool[p] = x] IN
           /\ w \in VM /\ w.conn = v.conn /\ w.registry = v.registry /\ w.pool[p] = x
           /\ \A q \in PoolIds \ {p} : w.pool[q] = v.pool[q]
  BY DEF VM

LEMMA RegistryStep ==
    ASSUME NEW v \in VM, NEW k \in Keys, NEW x \in PoolIds \cup {None}
    PROVE  LET w == [v EXCEPT !.registry[k] = x] IN
           /\ w \in VM /\ w.conn = v.conn /\ w.pool = v.pool
           /\ \A l \in Keys : w.registry[l] = IF l = k THEN x ELSE v.registry[l]
  BY DEF VM

LEMMA ActiveStep ==
    ASSUME NEW x \in Pool
    PROVE  LET y == [x EXCEPT !.active = @ - 1] IN
           /\ y \in Pool /\ y.key = x.key /\ y.size = x.size /\ y.cache = x.cache
           /\ y.free = x.free /\ y.active = x.active - 1
  BY DEF Pool

\* Another cache, and another number of free items.
WithItems(x, s, f) == [x EXCEPT !.cache = s, !.free = f]

LEMMA ItemsStep ==
    ASSUME NEW x \in Pool, NEW s \in Seq(Conns), NEW f \in Nat
    PROVE  LET y == WithItems(x, s, f) IN
           /\ y \in Pool /\ y.key = x.key /\ y.size = x.size
           /\ y.cache = s /\ y.free = f /\ y.active = x.active
<1> DEFINE y == WithItems(x, s, f)
           e == [x EXCEPT !.cache = s]
<1>1. e \in Pool /\ e.key = x.key /\ e.size = x.size /\ e.cache = s /\ e.active = x.active
  BY DEF Pool
<1>2. y = [e EXCEPT !.free = f]
  BY DEF WithItems
<1> HIDE DEF e, y
<1>3. /\ y \in Pool /\ y.key = x.key /\ y.size = x.size
      /\ y.cache = s /\ y.free = f /\ y.active = x.active
  BY <1>1, <1>2 DEF Pool
<1> QED BY <1>3 DEF y

\* The pool counts one connection less, and leaves the registry with the last.
Dropped(v, p, w) ==
    LET x == v.pool[p]
        y == w.pool[p] IN
    /\ w \in VM /\ w.conn = v.conn /\ x \in Pool /\ y \in Pool
    /\ \A q \in PoolIds \ {p} : w.pool[q] = v.pool[q]
    /\ y.key = x.key /\ y.size = x.size /\ y.cache = x.cache /\ y.free = x.free
    /\ y.active = x.active - 1
    /\ \A k \in Keys : w.registry[k] = IF k = x.key /\ x.active = 1
                                       THEN None ELSE v.registry[k]

LEMMA DropActiveFacts ==
    ASSUME NEW v \in VM, NEW p \in PoolIds, v.pool[p] # None
    PROVE  Dropped(v, p, DropActive(v, p))
<1> DEFINE w == DropActive(v, p)
           x == v.pool[p]
           y == [x EXCEPT !.active = @ - 1]
           u == [v EXCEPT !.pool[p].active = @ - 1]
<1>1. x \in Pool
  BY DEF VM
<1>2. /\ y \in Pool /\ y.key = x.key /\ y.size = x.size /\ y.cache = x.cache
      /\ y.free = x.free /\ y.active = x.active - 1
  BY <1>1, ActiveStep
<1>3. u = [v EXCEPT !.pool[p] = y]
  OBVIOUS
<1>4. w = IF u.pool[p].active = 0 THEN [u EXCEPT !.registry[x.key] = None] ELSE u
  BY DEF DropActive
<1>5. x.key \in Keys /\ x.active \in Int
  BY <1>1 DEF Pool
<1> HIDE DEF x, y, u, w
<1>6. /\ u \in VM /\ u.conn = v.conn /\ u.registry = v.registry /\ u.pool[p] = y
      /\ \A q \in PoolIds \ {p} : u.pool[q] = v.pool[q]
  BY <1>2, <1>3, PoolStep
<1>7. u.pool[p].active = 0 <=> x.active = 1
  BY <1>2, <1>5, <1>6
<1>8. CASE x.active = 1
  <2>1. w = [u EXCEPT !.registry[x.key] = None]
    BY <1>4, <1>7, <1>8
  <2>2. /\ w \in VM /\ w.conn = u.conn /\ w.pool = u.pool
        /\ \A l \in Keys : w.registry[l] = IF l = x.key THEN None ELSE u.registry[l]
    BY <1>5, <1>6, <2>1, RegistryStep
  <2>3. Dropped(v, p, w)
    BY <1>1, <1>2, <1>6, <1>8, <2>2 DEF Dropped, x
  <2> QED BY <2>3 DEF w
<1>9. CASE x.active # 1
  <2>1. w = u
    BY <1>4, <1>7, <1>9
  <2>2. Dropped(v, p, w)
    BY <1>1, <1>2, <1>6, <1>9, <2>1 DEF Dropped, x
  <2> QED BY <2>2 DEF w
<1> QED BY <1>8, <1>9

\* The connection c is linked out of the cache of p.
Unfiled(v, p, c, w) ==
    LET x == v.pool[p]
        y == w.pool[p] IN
    /\ w \in VM /\ x \in Pool /\ y \in Pool
    /\ \A d \in Conns : w.conn[d] = IF d = c THEN None ELSE v.conn[d]
    /\ \A q \in PoolIds \ {p} : w.pool[q] = v.pool[q]
    /\ y.key = x.key /\ y.size = x.size /\ y.free = x.free + 1
    /\ NoDup(y.cache) /\ ToSet(y.cache) = ToSet(x.cache) \ {c}
    /\ Len(y.cache) = Len(x.cache) - 1
    /\ y.active = x.active - 1
    /\ \A k \in Keys : w.registry[k] = IF k = x.key /\ x.active = 1
                                       THEN None ELSE v.registry[k]

LEMMA CloseHandlerFacts ==
    ASSUME NEW v \in VM, NEW p \in PoolIds, NEW c \in Conns, v.pool[p] # None,
           NoDup(v.pool[p].cache), c \in ToSet(v.pool[p].cache)
    PROVE  Unfiled(v, p, c, CloseHandler(v, p, c))
<1> DEFINE w == CloseHandler(v, p, c)
           x == v.pool[p]
           y == [x EXCEPT !.cache = Unlinked(@, c), !.free = @ + 1]
           t == CloseConnection(v, c)
           u == [t EXCEPT !.pool[p].cache = Unlinked(@, c), !.pool[p].free = @ + 1]
<1>1. x \in Pool /\ x.cache \in Seq(Conns) /\ x.free \in Nat
  BY DEF VM, Pool
<1>2. /\ Unlinked(x.cache, c) \in Seq(Conns)
      /\ Len(Unlinked(x.cache, c)) = Len(x.cache) - 1
      /\ NoDup(Unlinked(x.cache, c)) /\ ToSet(Unlinked(x.cache, c)) = ToSet(x.cache) \ {c}
  BY <1>1, UnlinkedFacts
<1>3. /\ y \in Pool /\ y.key = x.key /\ y.size = x.size /\ y.cache = Unlinked(x.cache, c)
      /\ y.free = x.free + 1 /\ y.active = x.active
  <2>1. PICK f \in Nat : f = x.free + 1
    BY <1>1
  <2>2. y = WithItems(x, Unlinked(x.cache, c), f)
    BY <1>1, <2>1 DEF Pool, WithItems
  <2> DEFINE s == Unlinked(x.cache, c)
             z == WithItems(x, s, f)
  <2>3. x \in Pool /\ s \in Seq(Conns) /\ f \in Nat
    BY <1>1, <1>2
  <2> HIDE DEF x, y, s
  <2>4. /\ z \in Pool /\ z.key = x.key /\ z.size = x.size
        /\ z.cache = s /\ z.free = f /\ z.active = x.active
    BY <2>3, ItemsStep
  <2> QED BY <2>1, <2>2, <2>4 DEF s
<1>4. /\ t \in VM /\ t.pool = v.pool /\ t.registry = v.registry
      /\ \A d \in Conns : t.conn[d] = IF d = c THEN None ELSE v.conn[d]
  BY CloseConnectionFacts
<1>5. u = [t EXCEPT !.pool[p] = y]
  BY <1>4 DEF VM
<1>6. w = DropActive(u, p)
  BY DEF CloseHandler
<1> HIDE DEF x, y, t, u, w
<1>7. /\ u \in VM /\ u.conn = t.conn /\ u.registry = t.registry /\ u.pool[p] = y
      /\ \A q \in PoolIds \ {p} : u.pool[q] = t.pool[q]
  BY <1>3, <1>4, <1>5, PoolStep
<1>8. u.pool[p] # None
  BY <1>3, <1>7
<1>9. /\ w \in VM /\ w.conn = u.conn
      /\ \A q \in PoolIds \ {p} : w.pool[q] = u.pool[q]
      /\ w.pool[p] \in Pool
      /\ w.pool[p].key = y.key /\ w.pool[p].size = y.size
      /\ w.pool[p].cache = y.cache /\ w.pool[p].free = y.free
      /\ w.pool[p].active = y.active - 1
      /\ \A k \in Keys : w.registry[k] = IF k = y.key /\ y.active = 1
                                         THEN None ELSE u.registry[k]
  <2>1. Dropped(u, p, w)
    BY <1>6, <1>7, <1>8, DropActiveFacts
  <2> QED BY <1>7, <2>1 DEF Dropped
<1>10. Unfiled(v, p, c, w)
  BY <1>1, <1>2, <1>3, <1>4, <1>7, <1>9 DEF Unfiled, x
<1> QED BY <1>10 DEF w

\* An item is made free: the connection that has been idle longest goes, if none
\* is free.
Taken(v, p, w) ==
    LET x == v.pool[p]
        y == w.pool[p]
        last == Last(x.cache) IN
    /\ w \in VM /\ w.registry = v.registry /\ x \in Pool /\ y \in Pool
    /\ \A q \in PoolIds \ {p} : w.pool[q] = v.pool[q]
    /\ y.key = x.key /\ y.size = x.size /\ NoDup(y.cache)
    /\ x.free = 0 => /\ last \in ToSet(x.cache) /\ y.free = 0
                     /\ ToSet(y.cache) = ToSet(x.cache) \ {last}
                     /\ Len(y.cache) = Len(x.cache) - 1
                     /\ y.active = x.active - 1
                     /\ \A d \in Conns : w.conn[d] = IF d = last THEN None ELSE v.conn[d]
    /\ x.free # 0 => /\ y.cache = x.cache /\ y.free = x.free - 1 /\ y.active = x.active
                     /\ w.conn = v.conn

LEMMA TakeItemFacts ==
    ASSUME NEW v \in VM, NEW p \in PoolIds, v.pool[p] # None, NoDup(v.pool[p].cache),
           v.pool[p].free = 0 => v.pool[p].cache # <<>>
    PROVE  Taken(v, p, TakeItem(v, p))
<1> DEFINE w == TakeItem(v, p)
           x == v.pool[p]
           y == w.pool[p]
           last == Last(x.cache)
<1>1. x \in Pool /\ x.cache \in Seq(Conns) /\ x.free \in Nat /\ x.active \in Int
  BY DEF VM, Pool
<1>2. CASE x.free = 0
  <2> DEFINE z == [x EXCEPT !.cache = Front(@), !.active = @ - 1]
             t == CloseConnection(v, last)
  <2>1. /\ Front(x.cache) \in Seq(Conns) /\ Len(Front(x.cache)) = Len(x.cache) - 1
        /\ NoDup(Front(x.cache)) /\ last \in ToSet(x.cache)
        /\ ToSet(Front(x.cache)) = ToSet(x.cache) \ {last}
    BY <1>1, <1>2, FrontFacts
  <2>2. last \in Conns
    BY <1>1, <2>1, ToSetFacts
  <2>3. /\ t \in VM /\ t.pool = v.pool /\ t.registry = v.registry
        /\ \A d \in Conns : t.conn[d] = IF d = last THEN None ELSE v.conn[d]
    BY <2>2, CloseConnectionFacts
  <2>4. /\ z \in Pool /\ z.key = x.key /\ z.size = x.size /\ z.cache = Front(x.cache)
        /\ z.free = x.free /\ z.active = x.active - 1
    <3> DEFINE e == [x EXCEPT !.cache = Front(@)]
    <3>1. e \in Pool /\ e.key = x.key /\ e.size = x.size /\ e.cache = Front(x.cache)
          /\ e.free = x.free /\ e.active = x.active
      BY <1>1, <2>1 DEF Pool
    <3>2. z = [e EXCEPT !.active = @ - 1]
      OBVIOUS
    <3> HIDE DEF e, z
    <3> QED BY <3>1, <3>2, ActiveStep
  <2>5. w = [t EXCEPT !.pool[p] = z]
    <3>1. w = Evict(v, p)
      BY <1>2 DEF TakeItem
    <3> QED BY <2>3, <3>1 DEF Evict, VM
  <2> HIDE DEF z, t, w, x, last
  <2>6. /\ w \in VM /\ w.conn = t.conn /\ w.registry = t.registry /\ w.pool[p] = z
        /\ \A q \in PoolIds \ {p} : w.pool[q] = t.pool[q]
    BY <2>3, <2>4, <2>5, PoolStep
  <2>7. Taken(v, p, w)
    BY <1>1, <1>2, <2>1, <2>3, <2>4, <2>6 DEF Taken, x, last
  <2> QED BY <2>7 DEF w
<1>3. CASE x.free # 0
  <2> DEFINE z == [x EXCEPT !.free = @ - 1]
  <2>1. /\ z \in Pool /\ z.key = x.key /\ z.size = x.size /\ z.cache = x.cache
        /\ z.free = x.free - 1 /\ z.active = x.active
    BY <1>1, <1>3 DEF Pool
  <2>2. w = [v EXCEPT !.pool[p] = z]
    BY <1>3 DEF TakeItem
  <2> HIDE DEF z, w, x
  <2>3. /\ w \in VM /\ w.conn = v.conn /\ w.registry = v.registry /\ w.pool[p] = z
        /\ \A q \in PoolIds \ {p} : w.pool[q] = v.pool[q]
    BY <2>1, <2>2, PoolStep
  <2>4. NoDup(x.cache)
    BY DEF x
  <2>5. Taken(v, p, w)
    BY <1>1, <1>3, <2>1, <2>3, <2>4 DEF Taken, x
  <2> QED BY <2>5 DEF w
<1> QED BY <1>2, <1>3

\* The connection of u is filed.
Filed(v, p, u, w) ==
    LET x == v.pool[p]
        y == w.pool[p]
        last == Last(x.cache) IN
    /\ w \in VM /\ w.registry = v.registry /\ x \in Pool /\ y \in Pool
    /\ \A q \in PoolIds \ {p} : w.pool[q] = v.pool[q]
    /\ y.key = x.key /\ y.size = x.size /\ NoDup(y.cache)
    /\ w.conn[u.conn] # None /\ w.conn[u.conn].home = v.conn[u.conn].home
    /\ x.free = 0 => /\ last \in ToSet(x.cache) /\ y.free = 0
                     /\ ToSet(y.cache) = (ToSet(x.cache) \ {last}) \cup {u.conn}
                     /\ Len(y.cache) = Len(x.cache)
                     /\ y.active = x.active - 1 + CountIn(u)
                     /\ \A d \in Conns \ {u.conn} :
                           w.conn[d] = IF d = last THEN None ELSE v.conn[d]
    /\ x.free # 0 => /\ ToSet(y.cache) = ToSet(x.cache) \cup {u.conn}
                     /\ y.free = x.free - 1 /\ Len(y.cache) = Len(x.cache) + 1
                     /\ y.active = x.active + CountIn(u)
                     /\ \A d \in Conns \ {u.conn} : w.conn[d] = v.conn[d]

LEMMA FileFacts ==
    ASSUME NEW v \in VM, NEW p \in PoolIds, v.pool[p] # None, NoDup(v.pool[p].cache),
           v.pool[p].free = 0 => v.pool[p].cache # <<>>,
           NEW u, u.conn \in Conns, v.conn[u.conn] # None, u.conn \notin ToSet(v.pool[p].cache),
           NEW timer \in BOOLEAN
    PROVE  Filed(v, p, u, File(v, p, u, timer))
<1> DEFINE w == File(v, p, u, timer)
           x == v.pool[p]
           last == Last(x.cache)
           c == u.conn
           t == TakeItem(v, p)
           z == t.pool[p]
           y == [z EXCEPT !.cache = <<c>> \o @, !.active = @ + CountIn(u)]
           s == [t EXCEPT !.pool[p] = y]
<1>1. /\ t \in VM /\ t.registry = v.registry /\ x \in Pool /\ z \in Pool
      /\ \A q \in PoolIds \ {p} : t.pool[q] = v.pool[q]
      /\ z.key = x.key /\ z.size = x.size /\ NoDup(z.cache)
      /\ x.free = 0 => /\ last \in ToSet(x.cache) /\ z.free = 0
                       /\ ToSet(z.cache) = ToSet(x.cache) \ {last}
                       /\ Len(z.cache) = Len(x.cache) - 1
                       /\ z.active = x.active - 1
                       /\ \A d \in Conns : t.conn[d] = IF d = last THEN None ELSE v.conn[d]
      /\ x.free # 0 => /\ z.cache = x.cache /\ z.free = x.free - 1 /\ z.active = x.active
                       /\ t.conn = v.conn
  <2>1. Taken(v, p, t)
    BY TakeItemFacts
  <2> HIDE DEF t
  <2> QED BY <2>1 DEF Taken
<1>2. w = [s EXCEPT !.conn[c].timer = timer]
  <2> DEFINE a == [t EXCEPT !.pool[p].cache = <<c>> \o @]
             b == [a EXCEPT !.pool[p].active = @ + CountIn(u)]
  <2>1. w = [b EXCEPT !.conn[c].timer = timer]
    BY DEF File
  <2>2. b = s
    <3> DEFINE e == [z EXCEPT !.cache = <<c>> \o @]
    <3>1. a = [t EXCEPT !.pool[p] = e]
      OBVIOUS
    <3>2. a.pool[p] = e
      <4> HIDE DEF t, e, a
      <4> QED BY <1>1, <3>1 DEF VM
    <3>3. y = [e EXCEPT !.active = @ + CountIn(u)]
      OBVIOUS
    <3> DEFINE g == e.active + CountIn(u)
    <3>4. b = [a EXCEPT !.pool[p] = [e EXCEPT !.active = g]] /\ y = [e EXCEPT !.active = g]
      <4> HIDE DEF a, e, t, y
      <4> QED BY <3>2, <3>3
    <3> HIDE DEF a, e, t, y, b, g
    <3>5. b = [a EXCEPT !.pool[p] = y]
      BY <3>4
    <3> QED BY <1>1, <3>1, <3>5 DEF VM
  <2> HIDE DEF b, s
  <2> QED BY <2>1, <2>2
<1> HIDE DEF t, w
<1>3. z.cache \in Seq(Conns) /\ z.free \in Nat /\ z.active \in Int /\ x.cache \in Seq(Conns)
      /\ x.active \in Int
  BY <1>1 DEF Pool
<1>4. CountIn(u) \in Int
  BY DEF CountIn
<1>5. c \notin ToSet(z.cache) /\ c \in Conns
  BY <1>1
<1>6. /\ <<c>> \o z.cache \in Seq(Conns) /\ Len(<<c>> \o z.cache) = Len(z.cache) + 1
      /\ ToSet(<<c>> \o z.cache) = ToSet(z.cache) \cup {c} /\ NoDup(<<c>> \o z.cache)
  BY <1>1, <1>3, <1>5, ConsFacts
<1>7. /\ y \in Pool /\ y.key = z.key /\ y.size = z.size /\ y.cache = <<c>> \o z.cache
      /\ y.free = z.free /\ y.active = z.active + CountIn(u)
  <2> DEFINE e == [z EXCEPT !.cache = <<c>> \o @]
             a == e.active + CountIn(u)
  <2>1. e \in Pool /\ e.key = z.key /\ e.size = z.size /\ e.cache = <<c>> \o z.cache
        /\ e.free = z.free /\ e.active = z.active
    BY <1>1, <1>6 DEF Pool
  <2>2. y = [e EXCEPT !.active = a]
    OBVIOUS
  <2> HIDE DEF e, y, z, a
  <2>3. a \in Int
    BY <1>3, <1>4, <2>1 DEF a
  <2>4. y \in Pool /\ y.key = e.key /\ y.size = e.size /\ y.cache = e.cache
        /\ y.free = e.free /\ y.active = a
    BY <2>1, <2>2, <2>3 DEF Pool
  <2> QED BY <2>1, <2>4 DEF a
<1> HIDE DEF x, y, z, last
<1>8. /\ s \in VM /\ s.conn = t.conn /\ s.registry = t.registry /\ s.pool[p] = y
      /\ \A q \in PoolIds \ {p} : s.pool[q] = t.pool[q]
  BY <1>1, <1>7, PoolStep
<1> HIDE DEF s
<1>9. c # last \/ x.free # 0
  BY <1>1 DEF x
<1>10. t.conn[c] = v.conn[c] /\ v.conn[c] \in Connection
  BY <1>1, <1>5, <1>9 DEF VM
<1>11. /\ w \in VM /\ w.pool = s.pool /\ w.registry = s.registry
       /\ w.conn[c] \in Connection /\ w.conn[c].home = v.conn[c].home
       /\ \A d \in Conns \ {c} : w.conn[d] = t.conn[d]
  <2> DEFINE f == [s.conn[c] EXCEPT !.timer = timer]
  <2>1. f \in Connection /\ f.home = v.conn[c].home
    BY <1>8, <1>10 DEF Connection
  <2>2. w = [s EXCEPT !.conn[c] = f]
    BY <1>2
  <2> HIDE DEF f
  <2>3. /\ w \in VM /\ w.pool = s.pool /\ w.registry = s.registry /\ w.conn[c] = f
        /\ \A d \in Conns \ {c} : w.conn[d] = s.conn[d]
    BY <1>5, <1>8, <2>1, <2>2 DEF VM
  <2> QED BY <1>8, <2>1, <2>3
<1>12. /\ w \in VM /\ w.registry = v.registry /\ x \in Pool /\ w.pool[p] = y
       /\ \A q \in PoolIds \ {p} : w.pool[q] = v.pool[q]
       /\ w.conn[c] # None /\ w.conn[c].home = v.conn[c].home
  BY <1>1, <1>8, <1>11
<1>13. x.free = 0 => /\ last \in ToSet(x.cache) /\ y.free = 0
                     /\ ToSet(y.cache) = (ToSet(x.cache) \ {last}) \cup {c}
                     /\ Len(y.cache) = Len(x.cache)
                     /\ y.active = x.active - 1 + CountIn(u)
                     /\ \A d \in Conns \ {c} : w.conn[d] = IF d = last THEN None ELSE v.conn[d]
  <2> SUFFICES ASSUME x.free = 0
               PROVE  /\ last \in ToSet(x.cache) /\ y.free = 0
                      /\ ToSet(y.cache) = (ToSet(x.cache) \ {last}) \cup {c}
                      /\ Len(y.cache) = Len(x.cache)
                      /\ y.active = x.active - 1 + CountIn(u)
                      /\ \A d \in Conns \ {c} : w.conn[d] = IF d = last THEN None ELSE v.conn[d]
    OBVIOUS
  <2>1. last \in ToSet(x.cache) /\ y.free = 0
        /\ ToSet(y.cache) = (ToSet(x.cache) \ {last}) \cup {c}
    BY <1>1, <1>6, <1>7
  <2>2. Len(y.cache) = Len(x.cache)
    <3>1. Len(x.cache) \in Nat
      BY <1>3, ToSetFacts
    <3> QED BY <1>1, <1>6, <1>7, <3>1
  <2>3. y.active = x.active - 1 + CountIn(u)
    BY <1>1, <1>7
  <2>4. \A d \in Conns \ {c} : w.conn[d] = IF d = last THEN None ELSE v.conn[d]
    BY <1>1, <1>11
  <2> QED BY <2>1, <2>2, <2>3, <2>4
<1>14. x.free # 0 => /\ ToSet(y.cache) = ToSet(x.cache) \cup {c}
                     /\ y.free = x.free - 1 /\ Len(y.cache) = Len(x.cache) + 1
                     /\ y.active = x.active + CountIn(u)
                     /\ \A d \in Conns \ {c} : w.conn[d] = v.conn[d]
  BY <1>1, <1>3, <1>4, <1>6, <1>7, <1>11
<1>15. Filed(v, p, u, w)
  BY <1>1, <1>6, <1>7, <1>12, <1>13, <1>14 DEF Filed, x, last
<1> QED BY <1>15 DEF w

\* connect takes the connection filed last.
Reuse(v, p) == [v EXCEPT !.pool[p].cache = Tail(@), !.pool[p].free = @ + 1,
                         !.conn[Head(v.pool[p].cache)].timer = FALSE]

Reused(v, p, w) ==
    LET x == v.pool[p]
        y == w.pool[p]
        c == Head(x.cache) IN
    /\ w \in VM /\ w.registry = v.registry /\ x \in Pool /\ y \in Pool
    /\ \A q \in PoolIds \ {p} : w.pool[q] = v.pool[q]
    /\ y.key = x.key /\ y.size = x.size /\ y.free = x.free + 1 /\ y.active = x.active
    /\ NoDup(y.cache) /\ c \in ToSet(x.cache) /\ ToSet(y.cache) = ToSet(x.cache) \ {c}
    /\ Len(y.cache) = Len(x.cache) - 1
    /\ w.conn[c] # None /\ w.conn[c].home = v.conn[c].home
    /\ \A d \in Conns \ {c} : w.conn[d] = v.conn[d]

LEMMA ReuseFacts ==
    ASSUME NEW v \in VM, NEW p \in PoolIds, v.pool[p] # None, NoDup(v.pool[p].cache),
           v.pool[p].cache # <<>>, v.conn[Head(v.pool[p].cache)] # None
    PROVE  Reused(v, p, Reuse(v, p))
<1> DEFINE w == Reuse(v, p)
           x == v.pool[p]
           c == Head(x.cache)
<1>1. x \in Pool /\ x.cache \in Seq(Conns) /\ x.free \in Nat
  BY DEF VM, Pool
<1>2. /\ Tail(x.cache) \in Seq(Conns) /\ Len(Tail(x.cache)) = Len(x.cache) - 1
      /\ NoDup(Tail(x.cache))
      /\ c \in ToSet(x.cache) /\ ToSet(Tail(x.cache)) = ToSet(x.cache) \ {c}
  BY <1>1, TailFacts
<1>3. c \in Conns
  BY <1>1, <1>2, ToSetFacts
<1>4. v.conn[c] \in Connection
  BY <1>3 DEF VM
<1> DEFINE s == Tail(x.cache)
<1>5. PICK f \in Nat : f = x.free + 1
  BY <1>1
<1> DEFINE y == WithItems(x, s, f)
           d == [v.conn[c] EXCEPT !.timer = FALSE]
           u == [v EXCEPT !.pool[p] = y]
<1>6. w = [u EXCEPT !.conn[c] = d]
  BY <1>1, <1>5 DEF Reuse, VM, WithItems
<1>7. d \in Connection /\ d.home = v.conn[c].home
  BY <1>4 DEF Connection
<1>8. x \in Pool /\ s \in Seq(Conns)
  BY <1>1, <1>2
<1> HIDE DEF w, s
<1>9. /\ y \in Pool /\ y.key = x.key /\ y.size = x.size
      /\ y.cache = s /\ y.free = f /\ y.active = x.active
  <2> HIDE DEF x
  <2> QED BY <1>8, ItemsStep
<1> HIDE DEF d, u, y, x
<1>10. /\ u \in VM /\ u.conn = v.conn /\ u.registry = v.registry /\ u.pool[p] = y
       /\ \A q \in PoolIds \ {p} : u.pool[q] = v.pool[q]
  BY <1>9, PoolStep DEF u
<1> HIDE DEF c
<1>11. /\ w \in VM /\ w.pool = u.pool /\ w.registry = u.registry /\ w.conn[c] = d
       /\ \A e \in Conns \ {c} : w.conn[e] = u.conn[e]
  BY <1>3, <1>6, <1>7, <1>10 DEF VM
<1>12. d # None
  BY <1>7
<1>13. Reused(v, p, w)
  BY <1>1, <1>2, <1>5, <1>7, <1>9, <1>10, <1>11, <1>12 DEF Reused, x, s, c
<1> QED BY <1>13 DEF w

----------------------------------------------------------------------------
(* Every piece keeps connections in one place.                             *)

\* The cache of one pool and some connections change; afterwards sockets hold G.
PoolChange(v, p, w, G) ==
    /\ w \in VM /\ v.pool[p] # None /\ w.pool[p] # None
    /\ w.pool[p].key = v.pool[p].key /\ NoDup(w.pool[p].cache)
    /\ \A q \in PoolIds \ {p} : w.pool[q] = v.pool[q]
    /\ \A k \in Keys : w.registry[k] = v.registry[k] \/ w.registry[k] = None
    /\ v.registry[v.pool[p].key] = p =>
          Len(w.pool[p].cache) + w.pool[p].free = w.pool[p].size
    /\ G \subseteq Conns /\ G \cap ToSet(w.pool[p].cache) = {}
    /\ \A q \in PoolIds \ {p} : Idle(v, q) \cap (G \cup ToSet(w.pool[p].cache)) = {}
    /\ \A c \in Conns : w.conn[c] # None <=>
          \/ c \in G \/ c \in ToSet(w.pool[p].cache)
          \/ \E q \in PoolIds \ {p} : c \in Idle(v, q)

LEMMA OnePool ==
    ASSUME NEW v, NEW H, VmOK(v, H), NEW p \in PoolIds, NEW w, NEW G, PoolChange(v, p, w, G)
    PROVE  VmOK(w, G)
<1> USE DEF PoolChange
<1>1. Idle(w, p) = ToSet(w.pool[p].cache) /\ \A q \in PoolIds \ {p} : Idle(w, q) = Idle(v, q)
  BY DEF Idle
<1>2. \A q, r \in PoolIds : q # r => Idle(v, q) \cap Idle(v, r) = {}
  BY DEF VmOK, InOnePlace
<1>3. \A q \in PoolIds : w.pool[q] # None => NoDup(w.pool[q].cache)
  BY DEF VmOK, InOnePlace
<1>4. \A q, r \in PoolIds : q # r => Idle(w, q) \cap Idle(w, r) = {}
  <2> SUFFICES ASSUME NEW q \in PoolIds, NEW r \in PoolIds, q # r
               PROVE  Idle(w, q) \cap Idle(w, r) = {}
    OBVIOUS
  <2>1. CASE q = p
    BY <1>1, <2>1
  <2>2. CASE r = p
    BY <1>1, <2>2
  <2>3. CASE q # p /\ r # p
    BY <1>1, <1>2, <2>3
  <2> QED BY <2>1, <2>2, <2>3
<1>5. \A q \in PoolIds : Idle(w, q) \cap G = {}
  BY <1>1
<1>6. \A c \in Conns : w.conn[c] # None <=> c \in G \/ \E q \in PoolIds : c \in Idle(w, q)
  BY <1>1
<1>7. InOnePlace(w, G)
  BY <1>3, <1>4, <1>5, <1>6 DEF InOnePlace
<1>8. RegistryOK(w)
  <2> SUFFICES ASSUME NEW k \in Keys, w.registry[k] # None
               PROVE  LET q == w.registry[k] IN
                      /\ w.pool[q] # None /\ w.pool[q].key = k
                      /\ Len(w.pool[q].cache) + w.pool[q].free = w.pool[q].size
    BY DEF RegistryOK
  <2>1. w.registry[k] = v.registry[k] /\ w.registry[k] \in PoolIds
    BY DEF VM
  <2>2. LET q == v.registry[k] IN
        /\ v.pool[q] # None /\ v.pool[q].key = k
        /\ Len(v.pool[q].cache) + v.pool[q].free = v.pool[q].size
    BY <2>1 DEF VmOK, RegistryOK
  <2>3. CASE v.registry[k] = p
    BY <2>1, <2>2, <2>3
  <2>4. CASE v.registry[k] # p
    BY <2>1, <2>2, <2>4
  <2> QED BY <2>3, <2>4
<1> QED BY <1>7, <1>8 DEF VmOK

LEMMA CloseKeeps ==
    ASSUME NEW v, NEW H, VmOK(v, H), NEW c \in H
    PROVE  VmOK(CloseConnection(v, c), H \ {c})
<1> DEFINE w == CloseConnection(v, c)
<1>1. v \in VM /\ c \in Conns
  BY DEF VmOK
<1>2. /\ w \in VM /\ w.pool = v.pool /\ w.registry = v.registry
      /\ \A d \in Conns : w.conn[d] = IF d = c THEN None ELSE v.conn[d]
  BY <1>1, CloseConnectionFacts
<1> HIDE DEF w
<1>3. \A p \in PoolIds : Idle(w, p) = Idle(v, p)
  BY <1>2 DEF Idle
<1>4. InOnePlace(w, H \ {c})
  BY <1>2, <1>3 DEF VmOK, InOnePlace
<1>5. RegistryOK(w)
  BY <1>2 DEF VmOK, RegistryOK
<1>6. VmOK(w, H \ {c})
  BY <1>2, <1>4, <1>5 DEF VmOK
<1> QED BY <1>6 DEF w

LEMMA DropKeeps ==
    ASSUME NEW v, NEW H, VmOK(v, H), NEW p \in PoolIds, v.pool[p] # None
    PROVE  VmOK(DropActive(v, p), H)
<1> DEFINE w == DropActive(v, p)
<1>1. v \in VM
  BY DEF VmOK
<1>2. Dropped(v, p, w)
  BY <1>1, DropActiveFacts
<1> HIDE DEF w
<1>3. /\ w \in VM /\ w.pool[p] # None
      /\ w.pool[p].key = v.pool[p].key /\ w.pool[p].size = v.pool[p].size
      /\ w.pool[p].cache = v.pool[p].cache /\ w.pool[p].free = v.pool[p].free
      /\ \A q \in PoolIds \ {p} : w.pool[q] = v.pool[q]
      /\ \A k \in Keys : w.registry[k] = v.registry[k] \/ w.registry[k] = None
      /\ w.conn = v.conn /\ v.pool[p].key \in Keys
  BY <1>2 DEF Dropped, Pool
<1>4. NoDup(w.pool[p].cache) /\ Idle(v, p) = ToSet(w.pool[p].cache)
  BY <1>3 DEF VmOK, InOnePlace, Idle
<1>5. v.registry[v.pool[p].key] = p => Len(w.pool[p].cache) + w.pool[p].free = w.pool[p].size
  BY <1>3 DEF VmOK, RegistryOK
<1>6. /\ H \subseteq Conns /\ H \cap ToSet(w.pool[p].cache) = {}
      /\ \A q \in PoolIds \ {p} : Idle(v, q) \cap (H \cup ToSet(w.pool[p].cache)) = {}
      /\ \A c \in Conns : w.conn[c] # None <=>
              \/ c \in H \/ c \in ToSet(w.pool[p].cache)
              \/ \E q \in PoolIds \ {p} : c \in Idle(v, q)
  BY <1>3, <1>4 DEF VmOK, InOnePlace
<1>7. PoolChange(v, p, w, H)
  BY <1>3, <1>4, <1>5, <1>6 DEF PoolChange
<1>8. VmOK(w, H)
  BY <1>7, OnePool
<1> QED BY <1>8 DEF w

LEMMA FinalizeKeeps ==
    ASSUME NEW v, NEW H, VmOK(v, H), NEW u, SocketOK(u), u.conn \in H \cup {None}
    PROVE  VmOK(Finalize(v, u), H \ {u.conn})
<1>1. None \notin H /\ v \in VM
  BY DEF VmOK
<1>2. CASE u.conn = None
  <2>1. H \ {u.conn} = H
    BY <1>1, <1>2
  <2> QED BY <1>2, <2>1 DEF Finalize
<1>3. CASE u.conn # None
  <2> DEFINE t == CloseConnection(v, u.conn)
  <2>1. VmOK(t, H \ {u.conn}) /\ u.conn \in Conns
    BY <1>3, CloseKeeps DEF VmOK
  <2>2. t.pool = v.pool
    BY <1>1, <2>1, CloseConnectionFacts
  <2> HIDE DEF t
  <2>3. CASE NeverPooled(v, u)
    BY <1>3, <2>1, <2>3 DEF Finalize, t
  <2>4. CASE ~NeverPooled(v, u)
    <3>1. u.pool \in PoolIds /\ t.pool[u.pool] # None
      BY <2>2, <2>4 DEF NeverPooled, SocketOK
    <3>2. Finalize(v, u) = DropActive(t, u.pool)
      BY <1>3, <2>4 DEF Finalize, t
    <3> QED BY <2>1, <3>1, <3>2, DropKeeps
  <2> QED BY <2>3, <2>4
<1> QED BY <1>2, <1>3

LEMMA HandlerKeeps ==
    ASSUME NEW v, NEW H, VmOK(v, H), NEW p \in PoolIds, NEW c \in Idle(v, p)
    PROVE  VmOK(CloseHandler(v, p, c), H)
<1> DEFINE w == CloseHandler(v, p, c)
           x == v.pool[p]
<1>1. v \in VM /\ x # None /\ NoDup(x.cache) /\ c \in ToSet(x.cache) /\ Idle(v, p) = ToSet(x.cache)
  BY DEF VmOK, InOnePlace, Idle
<1>2. x \in Pool /\ x.cache \in Seq(Conns) /\ Len(x.cache) \in Nat /\ x.free \in Nat
      /\ x.key \in Keys
  BY <1>1 DEF VM, Pool
<1>3. c \in Conns
  BY <1>1, <1>2, ToSetFacts
<1>4. Unfiled(v, p, c, w)
  BY <1>1, <1>3, CloseHandlerFacts
<1> HIDE DEF w
<1>5. /\ w \in VM /\ w.pool[p] # None /\ w.pool[p].key = x.key /\ w.pool[p].size = x.size
      /\ w.pool[p].free = x.free + 1 /\ NoDup(w.pool[p].cache)
      /\ ToSet(w.pool[p].cache) = ToSet(x.cache) \ {c}
      /\ Len(w.pool[p].cache) = Len(x.cache) - 1
      /\ \A q \in PoolIds \ {p} : w.pool[q] = v.pool[q]
      /\ \A d \in Conns : w.conn[d] = IF d = c THEN None ELSE v.conn[d]
      /\ \A k \in Keys : w.registry[k] = v.registry[k] \/ w.registry[k] = None
  BY <1>4 DEF Unfiled
<1>6. v.registry[x.key] = p => Len(w.pool[p].cache) + w.pool[p].free = w.pool[p].size
  <2>1. v.registry[x.key] = p => Len(x.cache) + x.free = x.size
    BY <1>1, <1>2 DEF VmOK, RegistryOK
  <2>2. w.pool[p].free = x.free + 1 /\ Len(w.pool[p].cache) = Len(x.cache) - 1
        /\ w.pool[p].size = x.size /\ x.free \in Nat /\ Len(x.cache) \in Nat
    BY <1>2, <1>5
  <2> HIDE DEF x
  <2> SUFFICES ASSUME v.registry[x.key] = p
               PROVE  Len(w.pool[p].cache) + w.pool[p].free = w.pool[p].size
    OBVIOUS
  <2>3. PICK n \in Nat, f \in Nat : n = Len(x.cache) /\ f = x.free
    BY <2>2
  <2>4. n + f = x.size
    BY <2>1, <2>3
  <2>5. Len(w.pool[p].cache) = n - 1 /\ w.pool[p].free = f + 1 /\ w.pool[p].size = n + f
    BY <2>2, <2>3, <2>4
  <2> QED BY <2>5
<1>7. /\ H \subseteq Conns /\ H \cap ToSet(x.cache) = {}
      /\ \A q \in PoolIds \ {p} : Idle(v, q) \cap H = {} /\ Idle(v, q) \cap ToSet(x.cache) = {}
      /\ \A d \in Conns : v.conn[d] # None <=>
            \/ d \in H \/ d \in ToSet(x.cache)
            \/ \E q \in PoolIds \ {p} : d \in Idle(v, q)
  BY <1>1 DEF VmOK, InOnePlace
<1>8. \A d \in Conns : w.conn[d] # None <=>
            \/ d \in H \/ d \in ToSet(w.pool[p].cache)
            \/ \E q \in PoolIds \ {p} : d \in Idle(v, q)
  <2> HIDE DEF x
  <2>1. c \notin H /\ \A q \in PoolIds \ {p} : c \notin Idle(v, q)
    BY <1>1, <1>7
  <2> QED BY <1>5, <1>7, <2>1
<1>9. PoolChange(v, p, w, H)
  BY <1>1, <1>5, <1>6, <1>7, <1>8 DEF PoolChange
<1>10. VmOK(w, H)
  BY <1>9, OnePool
<1> QED BY <1>10 DEF w

LEMMA ReuseKeeps ==
    ASSUME NEW v, NEW H, VmOK(v, H), NEW p \in PoolIds, v.pool[p] # None, v.pool[p].cache # <<>>
    PROVE  /\ VmOK(Reuse(v, p), H \cup {Head(v.pool[p].cache)})
           /\ Head(v.pool[p].cache) \in Idle(v, p)
<1> DEFINE w == Reuse(v, p)
           x == v.pool[p]
           c == Head(x.cache)
<1>1. v \in VM /\ NoDup(x.cache) /\ Idle(v, p) = ToSet(x.cache)
  BY DEF VmOK, InOnePlace, Idle
<1>2. x \in Pool /\ x.cache \in Seq(Conns) /\ Len(x.cache) \in Nat /\ x.free \in Nat
      /\ x.key \in Keys
  BY <1>1 DEF VM, Pool
<1>3. c \in ToSet(x.cache) /\ c \in Conns
  BY <1>1, <1>2, ToSetFacts, TailFacts
<1>4. v.conn[c] # None
  BY <1>1, <1>3 DEF VmOK, InOnePlace
<1>5. Reused(v, p, w)
  BY <1>1, <1>4, ReuseFacts
<1> HIDE DEF w
<1>6. /\ w \in VM /\ w.pool[p] # None /\ w.pool[p].key = x.key /\ w.pool[p].size = x.size
      /\ w.pool[p].free = x.free + 1 /\ NoDup(w.pool[p].cache)
      /\ ToSet(w.pool[p].cache) = ToSet(x.cache) \ {c}
      /\ Len(w.pool[p].cache) = Len(x.cache) - 1
      /\ w.conn[c] # None
      /\ \A q \in PoolIds \ {p} : w.pool[q] = v.pool[q]
      /\ \A d \in Conns \ {c} : w.conn[d] = v.conn[d]
      /\ \A k \in Keys : w.registry[k] = v.registry[k]
  BY <1>5 DEF Reused
<1>7. v.registry[x.key] = p => Len(w.pool[p].cache) + w.pool[p].free = w.pool[p].size
  <2>1. v.registry[x.key] = p => Len(x.cache) + x.free = x.size
    BY <1>1, <1>2 DEF VmOK, RegistryOK
  <2>2. w.pool[p].free = x.free + 1 /\ Len(w.pool[p].cache) = Len(x.cache) - 1
        /\ w.pool[p].size = x.size /\ x.free \in Nat /\ Len(x.cache) \in Nat
    BY <1>2, <1>6
  <2> HIDE DEF x
  <2> QED BY <2>1, <2>2
<1>8. /\ H \subseteq Conns /\ H \cap ToSet(x.cache) = {}
      /\ \A q \in PoolIds \ {p} : Idle(v, q) \cap H = {} /\ Idle(v, q) \cap ToSet(x.cache) = {}
      /\ \A d \in Conns : v.conn[d] # None <=>
            \/ d \in H \/ d \in ToSet(x.cache)
            \/ \E q \in PoolIds \ {p} : d \in Idle(v, q)
  BY <1>1 DEF VmOK, InOnePlace
<1> HIDE DEF x, c
<1>9. \A d \in Conns : w.conn[d] # None <=>
            \/ d \in H \cup {c} \/ d \in ToSet(w.pool[p].cache)
            \/ \E q \in PoolIds \ {p} : d \in Idle(v, q)
  BY <1>3, <1>6, <1>8
<1>10. PoolChange(v, p, w, H \cup {c})
  <2>1. /\ H \cup {c} \subseteq Conns /\ (H \cup {c}) \cap ToSet(w.pool[p].cache) = {}
        /\ \A q \in PoolIds \ {p} : Idle(v, q) \cap ((H \cup {c}) \cup ToSet(w.pool[p].cache)) = {}
    BY <1>3, <1>6, <1>8
  <2> QED BY <1>1, <1>6, <1>7, <1>9, <2>1 DEF PoolChange, x
<1>11. VmOK(w, H \cup {c})
  BY <1>10, OnePool
<1> QED BY <1>1, <1>3, <1>11 DEF w, c, x

LEMMA FileKeeps ==
    ASSUME NEW v, NEW H, VmOK(v, H), NEW p \in PoolIds, v.pool[p] # None,
           v.registry[v.pool[p].key] = p, NEW u, u.conn \in H, NEW timer \in BOOLEAN
    PROVE  /\ Filed(v, p, u, File(v, p, u, timer))
           /\ VmOK(File(v, p, u, timer), H \ {u.conn})
           /\ u.conn \in Idle(File(v, p, u, timer), p)
<1> DEFINE w == File(v, p, u, timer)
           x == v.pool[p]
           c == u.conn
           last == Last(x.cache)
<1>1. v \in VM /\ NoDup(x.cache) /\ Idle(v, p) = ToSet(x.cache) /\ c \in Conns /\ H \subseteq Conns
  BY DEF VmOK, InOnePlace, Idle
<1>2. x \in Pool /\ x.cache \in Seq(Conns) /\ Len(x.cache) \in Nat /\ x.free \in Nat
      /\ x.key \in Keys /\ x.size \in Nat /\ x.size > 0
  <2>1. x \in Pool
    BY <1>1 DEF VM
  <2> HIDE DEF x
  <2>2. x.size \in Sizes /\ x.cache \in Seq(Conns) /\ x.free \in Nat /\ x.key \in Keys
    BY <2>1 DEF Pool
  <2>3. Len(x.cache) \in Nat
    BY <2>2
  <2>4. x.size \in Nat \ {0}
    BY <2>2, Zenon
  <2> QED BY <2>1, <2>2, <2>3, <2>4
<1>3. Len(x.cache) + x.free = x.size
  BY <1>2 DEF VmOK, RegistryOK
<1>4. x.free = 0 => x.cache # <<>>
  BY <1>2, <1>3, ToSetFacts
<1>5. /\ H \cap ToSet(x.cache) = {}
      /\ \A q \in PoolIds \ {p} : Idle(v, q) \cap H = {} /\ Idle(v, q) \cap ToSet(x.cache) = {}
      /\ \A d \in Conns : v.conn[d] # None <=>
            \/ d \in H \/ d \in ToSet(x.cache)
            \/ \E q \in PoolIds \ {p} : d \in Idle(v, q)
  BY <1>1 DEF VmOK, InOnePlace
<1>6. Filed(v, p, u, w)
  <2>1. v.conn[c] # None /\ c \notin ToSet(x.cache)
    BY <1>1, <1>5
  <2> QED BY <1>1, <1>4, <2>1, FileFacts
<1> HIDE DEF w
<1>7. /\ w \in VM /\ w.pool[p] # None /\ w.pool[p].key = x.key /\ w.pool[p].size = x.size
      /\ NoDup(w.pool[p].cache) /\ w.conn[c] # None
      /\ \A q \in PoolIds \ {p} : w.pool[q] = v.pool[q]
      /\ \A k \in Keys : w.registry[k] = v.registry[k]
  BY <1>6 DEF Filed
<1>8. /\ x.free = 0 => /\ last \in ToSet(x.cache) /\ w.pool[p].free = 0
                       /\ ToSet(w.pool[p].cache) = (ToSet(x.cache) \ {last}) \cup {c}
                       /\ Len(w.pool[p].cache) = Len(x.cache)
                       /\ \A d \in Conns \ {c} : w.conn[d] = IF d = last THEN None ELSE v.conn[d]
      /\ x.free # 0 => /\ ToSet(w.pool[p].cache) = ToSet(x.cache) \cup {c}
                       /\ w.pool[p].free = x.free - 1 /\ Len(w.pool[p].cache) = Len(x.cache) + 1
                       /\ \A d \in Conns \ {c} : w.conn[d] = v.conn[d]
  BY <1>6 DEF Filed
<1> HIDE DEF x, c, last
<1>9. Len(w.pool[p].cache) + w.pool[p].free = w.pool[p].size
  BY <1>2, <1>3, <1>7, <1>8
<1>10. /\ H \ {c} \subseteq Conns /\ (H \ {c}) \cap ToSet(w.pool[p].cache) = {}
       /\ \A q \in PoolIds \ {p} : Idle(v, q) \cap ((H \ {c}) \cup ToSet(w.pool[p].cache)) = {}
  <2>1. ToSet(w.pool[p].cache) \subseteq ToSet(x.cache) \cup {c} /\ c \in H
    BY <1>8 DEF c
  <2> QED BY <1>1, <1>5, <2>1
<1>11. ASSUME NEW d \in Conns
       PROVE  w.conn[d] # None <=>
                  \/ d \in H \ {c} \/ d \in ToSet(w.pool[p].cache)
                  \/ \E q \in PoolIds \ {p} : d \in Idle(v, q)
  <2>1. CASE d = c
    BY <1>7, <1>8, <2>1
  <2>2. CASE d # c /\ x.free # 0
    BY <1>5, <1>8, <2>2
  <2>3. CASE d # c /\ x.free = 0
    <3>1. last \in ToSet(x.cache) /\ last \notin H /\ \A q \in PoolIds \ {p} : last \notin Idle(v, q)
      BY <1>5, <1>8, <2>3
    <3> QED BY <1>5, <1>8, <2>3, <3>1
  <2> QED BY <2>1, <2>2, <2>3
<1>12. PoolChange(v, p, w, H \ {c})
  BY <1>7, <1>9, <1>10, <1>11 DEF PoolChange, x
<1>13. VmOK(w, H \ {c})
  BY <1>12, OnePool
<1>14. c \in Idle(w, p)
  BY <1>7, <1>8 DEF Idle
<1> QED BY <1>6, <1>13, <1>14 DEF w, c

\* Idle connections and what sockets hold become fewer or stay.
LEMMA FewerIdle ==
    ASSUME NEW v, NEW H, VmOK(v, H), NEW w \in VM, NEW G \in SUBSET Conns,
           \A p \in PoolIds : /\ w.pool[p] # None => NoDup(w.pool[p].cache)
                              /\ Idle(w, p) \subseteq Idle(v, p) /\ Idle(w, p) \cap G = {},
           \A c \in Conns : w.conn[c] # None <=> c \in G \/ \E p \in PoolIds : c \in Idle(w, p),
           RegistryOK(w)
    PROVE  VmOK(w, G)
<1>1. \A p, q \in PoolIds : p # q => Idle(w, p) \cap Idle(w, q) = {}
  <2>1. \A p, q \in PoolIds : p # q => Idle(v, p) \cap Idle(v, q) = {}
    BY DEF VmOK, InOnePlace
  <2> QED BY <2>1
<1>2. InOnePlace(w, G)
  BY <1>1 DEF InOnePlace
<1> QED BY <1>2 DEF VmOK

\* What becomes of pools when an empty one is made.
WithPool(v, p, k, size) == [v EXCEPT !.pool[p] = NewPool(k, size), !.registry[k] = p]

LEMMA NewPoolFacts ==
    ASSUME NEW v \in VM, NEW p \in PoolIds, NEW k \in Keys, NEW size \in Sizes
    PROVE  LET w == WithPool(v, p, k, size) IN
           /\ w \in VM /\ w.conn = v.conn /\ w.pool[p] = NewPool(k, size)
           /\ NewPool(k, size) \in Pool
           /\ \A q \in PoolIds \ {p} : w.pool[q] = v.pool[q]
           /\ \A l \in Keys : w.registry[l] = IF l = k THEN p ELSE v.registry[l]
<1> DEFINE x == NewPool(k, size)
           u == [v EXCEPT !.pool[p] = x]
           w == WithPool(v, p, k, size)
<1>1. x \in Pool
  <2>1. size \in Nat
    BY Zenon
  <2>2. <<>> \in Seq(Conns)
    OBVIOUS
  <2> QED BY <2>1, <2>2 DEF NewPool, Pool
<1>2. w = [u EXCEPT !.registry[k] = p]
  BY DEF WithPool
<1> HIDE DEF x, u, w
<1>3. /\ u \in VM /\ u.conn = v.conn /\ u.registry = v.registry /\ u.pool[p] = x
      /\ \A q \in PoolIds \ {p} : u.pool[q] = v.pool[q]
  BY <1>1, PoolStep DEF u
<1>4. /\ w \in VM /\ w.conn = u.conn /\ w.pool = u.pool
      /\ \A l \in Keys : w.registry[l] = IF l = k THEN p ELSE u.registry[l]
  BY <1>2, <1>3, RegistryStep
<1> QED BY <1>1, <1>3, <1>4 DEF x, w

LEMMA NewPoolKeeps ==
    ASSUME NEW v, NEW H, VmOK(v, H), NEW p \in PoolIds, NEW k \in Keys, NEW size \in Sizes,
           v.pool[p] = None, v.registry[k] = None
    PROVE  VmOK(WithPool(v, p, k, size), H)
<1> DEFINE w == WithPool(v, p, k, size)
           x == NewPool(k, size)
<1>1. v \in VM /\ H \subseteq Conns
  BY DEF VmOK
<1>2. /\ w \in VM /\ w.conn = v.conn /\ w.pool[p] = x /\ x \in Pool
      /\ \A q \in PoolIds \ {p} : w.pool[q] = v.pool[q]
      /\ \A l \in Keys : w.registry[l] = IF l = k THEN p ELSE v.registry[l]
  BY <1>1, NewPoolFacts
<1>3. x.key = k /\ x.cache = <<>> /\ Len(x.cache) + x.free = x.size
  <2>1. x.key = k /\ x.cache = <<>> /\ x.free = size /\ x.size = size
    BY DEF NewPool
  <2>2. size \in Nat
    BY Zenon
  <2>3. Len(<<>>) = 0
    OBVIOUS
  <2> HIDE DEF x
  <2> QED BY <2>1, <2>2, <2>3
<1> HIDE DEF w, x
<1>4. \A q \in PoolIds : Idle(w, q) = Idle(v, q)
  <2>1. Idle(v, p) = {}
    BY DEF Idle
  <2>2. Idle(w, p) = {}
    BY <1>2, <1>3, ToSetFacts DEF Idle, Pool
  <2>3. \A q \in PoolIds \ {p} : Idle(w, q) = Idle(v, q)
    BY <1>2 DEF Idle
  <2> QED BY <2>1, <2>2, <2>3
<1>5. \A q \in PoolIds : w.pool[q] # None => NoDup(w.pool[q].cache)
  <2>1. NoDup(<<>>)
    BY DEF NoDup
  <2> QED BY <1>2, <1>3, <2>1 DEF VmOK, InOnePlace
<1>6. RegistryOK(w)
  <2> SUFFICES ASSUME NEW l \in Keys, w.registry[l] # None
               PROVE  LET q == w.registry[l] IN
                      /\ w.pool[q] # None /\ w.pool[q].key = l
                      /\ Len(w.pool[q].cache) + w.pool[q].free = w.pool[q].size
    BY DEF RegistryOK
  <2>1. CASE l = k
    BY <1>2, <1>3, <2>1
  <2>2. CASE l # k
    <3>1. w.registry[l] = v.registry[l] /\ v.registry[l] \in PoolIds
      BY <1>1, <1>2, <2>2 DEF VM
    <3>2. LET q == v.registry[l] IN
          /\ v.pool[q] # None /\ v.pool[q].key = l
          /\ Len(v.pool[q].cache) + v.pool[q].free = v.pool[q].size
      BY <3>1 DEF VmOK, RegistryOK
    <3> QED BY <1>2, <3>1, <3>2
  <2> QED BY <2>1, <2>2
<1>7. InOnePlace(w, H)
  BY <1>2, <1>4, <1>5 DEF VmOK, InOnePlace
<1>8. VmOK(w, H)
  BY <1>2, <1>6, <1>7 DEF VmOK
<1> QED BY <1>8 DEF w

\* Only the flags of connections differ.
LEMMA FlagsKeep ==
    ASSUME NEW v, NEW H, VmOK(v, H), NEW w \in VM,
           w.pool = v.pool, w.registry = v.registry,
           \A c \in Conns : w.conn[c] = None <=> v.conn[c] = None
    PROVE  VmOK(w, H)
<1>1. \A p \in PoolIds : Idle(w, p) = Idle(v, p)
  BY DEF Idle
<1>2. InOnePlace(w, H)
  BY <1>1 DEF VmOK, InOnePlace
<1>3. RegistryOK(w)
  BY DEF VmOK, RegistryOK
<1> QED BY <1>2, <1>3 DEF VmOK

LEMMA OpenKeeps ==
    ASSUME NEW v, NEW H, VmOK(v, H), NEW c \in Conns, v.conn[c] = None, NEW x \in Connection
    PROVE  VmOK([v EXCEPT !.conn[c] = x], H \cup {c})
<1> DEFINE w == [v EXCEPT !.conn[c] = x]
<1>1. /\ w \in VM /\ w.pool = v.pool /\ w.registry = v.registry
      /\ \A d \in Conns : w.conn[d] = IF d = c THEN x ELSE v.conn[d]
  BY DEF VmOK, VM
<1> HIDE DEF w
<1>2. \A p \in PoolIds : Idle(w, p) = Idle(v, p)
  BY <1>1 DEF Idle
<1>3. InOnePlace(w, H \cup {c})
  BY <1>1, <1>2 DEF VmOK, InOnePlace
<1>4. RegistryOK(w)
  BY <1>1 DEF VmOK, RegistryOK
<1>5. VmOK(w, H \cup {c})
  BY <1>1, <1>3, <1>4 DEF VmOK
<1> QED BY <1>5 DEF w

LEMMA IdleInFacts ==
    ASSUME NEW p \in PoolIds, NEW c
    PROVE  IdleIn(c, p) <=> c \in Idle(vm, p)
  BY DEF IdleIn, Idle

\* A pool that goes, and its connections with it.
Shut(v, p, w) ==
    /\ w \in VM /\ w.registry = v.registry /\ w.pool[p] = None
    /\ \A q \in PoolIds \ {p} : w.pool[q] = v.pool[q]
    /\ \A c \in Conns : w.conn[c] = IF c \in Idle(v, p) THEN None ELSE v.conn[c]

LEMMA ShutdownFacts ==
    ASSUME vm \in VM, NEW p \in PoolIds, ShutdownPool(p)
    PROVE  Shut(vm, p, vm')
<1> DEFINE f == [c \in Conns |-> IF IdleIn(c, p) THEN None ELSE vm.conn[c]]
           u == [vm EXCEPT !.pool[p] = None]
<1>1. f \in [Conns -> Connection \cup {None}]
      /\ \A c \in Conns : f[c] = IF c \in Idle(vm, p) THEN None ELSE vm.conn[c]
  BY IdleInFacts DEF VM
<1>2. u \in VM /\ u.registry = vm.registry /\ u.conn = vm.conn /\ u.pool[p] = None
      /\ \A q \in PoolIds \ {p} : u.pool[q] = vm.pool[q]
  BY DEF VM
<1>3. vm' = [u EXCEPT !.conn = f]
  BY DEF ShutdownPool, VM
<1> HIDE DEF f, u
<1>4. vm' \in VM /\ vm'.registry = u.registry /\ vm'.pool = u.pool /\ vm'.conn = f
  BY <1>1, <1>2, <1>3 DEF VM
<1> QED BY <1>1, <1>2, <1>4 DEF Shut

LEMMA ShutdownKeeps ==
    ASSUME NEW H, VmOK(vm, H), NEW p \in PoolIds, ShutdownPool(p)
    PROVE  VmOK(vm', H)
<1>1. PICK w : w = vm'
  OBVIOUS
<1>2. PICK v : v = vm
  OBVIOUS
<1>3. VmOK(v, H) /\ v \in VM /\ H \in SUBSET Conns /\ \A k \in Keys : v.registry[k] # p
  BY <1>2 DEF VmOK, ShutdownPool
<1>4. Shut(v, p, w)
  BY <1>1, <1>2, <1>3, ShutdownFacts
<1>5. Idle(w, p) = {} /\ \A q \in PoolIds \ {p} : Idle(w, q) = Idle(v, q)
  BY <1>4 DEF Shut, Idle
<1>6. \A q \in PoolIds : /\ w.pool[q] # None => NoDup(w.pool[q].cache)
                         /\ Idle(w, q) \subseteq Idle(v, q) /\ Idle(w, q) \cap H = {}
  BY <1>3, <1>4, <1>5 DEF Shut, VmOK, InOnePlace
<1>7. \A c \in Conns : w.conn[c] # None <=> c \in H \/ \E q \in PoolIds : c \in Idle(w, q)
  <2> SUFFICES ASSUME NEW c \in Conns
               PROVE  w.conn[c] # None <=> c \in H \/ \E q \in PoolIds : c \in Idle(w, q)
    OBVIOUS
  <2>1. CASE c \in Idle(v, p)
    <3>1. c \notin H /\ \A q \in PoolIds \ {p} : c \notin Idle(v, q)
      BY <1>3, <2>1 DEF VmOK, InOnePlace
    <3> QED BY <1>4, <1>5, <2>1, <3>1 DEF Shut
  <2>2. CASE c \notin Idle(v, p)
    <3>1. v.conn[c] # None <=> c \in H \/ \E q \in PoolIds : c \in Idle(v, q)
      BY <1>3 DEF VmOK, InOnePlace
    <3> QED BY <1>4, <1>5, <2>2, <3>1 DEF Shut
  <2> QED BY <2>1, <2>2
<1>8. RegistryOK(w)
  BY <1>3, <1>4 DEF Shut, VmOK, RegistryOK, VM
<1>9. VmOK(w, H)
  BY <1>3, <1>4, <1>6, <1>7, <1>8, FewerIdle DEF Shut
<1> QED BY <1>1, <1>9

\* What the exit of the worker leaves: empty caches.
Left(v, w) ==
    /\ w \in VM
    /\ \A c \in Conns : w.conn[c] = IF \E p \in PoolIds : c \in Idle(v, p) THEN None ELSE v.conn[c]
    /\ \A p \in PoolIds : IF v.pool[p] = None THEN w.pool[p] = None
                          ELSE LET x == v.pool[p]
                                   y == w.pool[p] IN
                               /\ x \in Pool /\ y \in Pool /\ y.key = x.key /\ y.size = x.size
                               /\ y.cache = <<>> /\ y.free = x.free + Len(x.cache)
                               /\ y.active = x.active - Len(x.cache)
    /\ \A k \in Keys :
          w.registry[k] =
             IF \E p \in PoolIds : /\ v.pool[p] # None /\ v.pool[p].key = k
                                   /\ v.pool[p].cache # <<>> /\ v.pool[p].active > 0
                                   /\ v.pool[p].active <= Len(v.pool[p].cache)
             THEN None ELSE v.registry[k]

LEMMA CloseIdleFacts ==
    ASSUME vm \in VM
    PROVE  Left(vm, CloseIdle(vm))
<1>1. PICK w : w = CloseIdle(vm)
  OBVIOUS
<1> DEFINE conn == [c \in Conns |-> IF c \in {d \in Conns : \E p \in PoolIds : IdleIn(d, p)}
                                    THEN None ELSE vm.conn[c]]
           left(p) == [vm.pool[p] EXCEPT !.cache = <<>>, !.free = @ + Len(vm.pool[p].cache),
                                         !.active = vm.pool[p].active - Len(vm.pool[p].cache)]
           pool == [p \in PoolIds |-> IF vm.pool[p] = None THEN None ELSE left(p)]
           dropped(p) == /\ vm.pool[p].cache # <<>>
                         /\ 0 \in (vm.pool[p].active - Len(vm.pool[p].cache))
                                  ..(vm.pool[p].active - 1)
           registry == [k \in Keys |->
                           IF \E p \in PoolIds : vm.pool[p] # None /\ vm.pool[p].key = k /\ dropped(p)
                           THEN None ELSE vm.registry[k]]
<1>2. w = [conn |-> conn, pool |-> pool, registry |-> registry]
  BY <1>1 DEF CloseIdle
<1>3. conn \in [Conns -> Connection \cup {None}]
      /\ \A c \in Conns : conn[c] = IF \E p \in PoolIds : c \in Idle(vm, p)
                                    THEN None ELSE vm.conn[c]
  BY IdleInFacts DEF VM
<1>4. ASSUME NEW p \in PoolIds, vm.pool[p] # None
      PROVE  LET x == vm.pool[p]
                 y == left(p) IN
             /\ x \in Pool /\ y \in Pool /\ y.key = x.key /\ y.size = x.size
             /\ y.cache = <<>> /\ y.free = x.free + Len(x.cache)
             /\ y.active = x.active - Len(x.cache)
  <2> DEFINE x == vm.pool[p]
             s == <<>>
  <2>1. x \in Pool
    BY <1>4 DEF VM
  <2>2. x.cache \in Seq(Conns) /\ x.free \in Nat /\ x.active \in Int /\ Len(x.cache) \in Nat
    BY <2>1 DEF Pool
  <2>3. PICK f \in Nat : f = x.free + Len(x.cache)
    BY <2>2
  <2>4. PICK a \in Int : a = x.active - Len(x.cache)
    BY <2>2
  <2>5. s \in Seq(Conns)
    OBVIOUS
  <2> DEFINE e == WithItems(x, s, f)
             y == left(p)
  <2>6. y = [e EXCEPT !.active = a]
    BY <2>1, <2>3, <2>4 DEF WithItems, Pool
  <2> HIDE DEF e, y, x, s
  <2>7. /\ e \in Pool /\ e.key = x.key /\ e.size = x.size
        /\ e.cache = s /\ e.free = f /\ e.active = x.active
    BY <2>1, <2>5, ItemsStep DEF e
  <2>8. y \in Pool /\ y.key = e.key /\ y.size = e.size /\ y.cache = e.cache /\ y.free = e.free
        /\ y.active = a
    BY <2>6, <2>7 DEF Pool
  <2> QED BY <2>1, <2>3, <2>4, <2>7, <2>8 DEF y, x, s
<1>5. pool \in [PoolIds -> Pool \cup {None}]
  <2>1. ASSUME NEW p \in PoolIds PROVE pool[p] \in Pool \cup {None}
    BY <1>4
  <2> QED BY <2>1
<1>6. registry \in [Keys -> PoolIds \cup {None}]
  BY DEF VM
<1>7. ASSUME NEW k \in Keys
      PROVE  registry[k] =
             IF \E p \in PoolIds : /\ vm.pool[p] # None /\ vm.pool[p].key = k
                                   /\ vm.pool[p].cache # <<>> /\ vm.pool[p].active > 0
                                   /\ vm.pool[p].active <= Len(vm.pool[p].cache)
             THEN None ELSE vm.registry[k]
  <2>1. ASSUME NEW p \in PoolIds, vm.pool[p] # None
        PROVE  dropped(p) <=> /\ vm.pool[p].cache # <<>> /\ vm.pool[p].active > 0
                              /\ vm.pool[p].active <= Len(vm.pool[p].cache)
    <3>1. vm.pool[p].active \in Int /\ vm.pool[p].cache \in Seq(Conns)
      BY <2>1 DEF VM, Pool
    <3>2. PICK a \in Int, n \in Nat : a = vm.pool[p].active /\ n = Len(vm.pool[p].cache)
      BY <3>1
    <3>3. 0 \in (a - n)..(a - 1) <=> a > 0 /\ a <= n
      OBVIOUS
    <3> QED BY <3>2, <3>3
  <2> HIDE DEF dropped
  <2> QED BY <2>1
<1>8. \A p \in PoolIds : pool[p] = IF vm.pool[p] = None THEN None ELSE left(p)
  OBVIOUS
<1> HIDE DEF conn, pool, left, dropped, registry
<1>9. w \in VM /\ w.conn = conn /\ w.pool = pool /\ w.registry = registry
  BY <1>2, <1>3, <1>5, <1>6 DEF VM
<1>10. \A p \in PoolIds : IF vm.pool[p] = None THEN w.pool[p] = None
                          ELSE LET x == vm.pool[p]
                                   y == w.pool[p] IN
                               /\ x \in Pool /\ y \in Pool /\ y.key = x.key /\ y.size = x.size
                               /\ y.cache = <<>> /\ y.free = x.free + Len(x.cache)
                               /\ y.active = x.active - Len(x.cache)
  BY <1>4, <1>8, <1>9
<1>11. Left(vm, w)
  BY <1>3, <1>7, <1>9, <1>10 DEF Left
<1> QED BY <1>1, <1>11

LEMMA LeftKeeps ==
    ASSUME NEW v, NEW H, VmOK(v, H), NEW w, Left(v, w)
    PROVE  VmOK(w, H)
<1>1. w \in VM /\ v \in VM /\ H \in SUBSET Conns
  BY DEF Left, VmOK
<1>2. \A p \in PoolIds : Idle(w, p) = {} /\ (w.pool[p] # None => w.pool[p].cache = <<>>)
                         /\ (w.pool[p] # None <=> v.pool[p] # None)
  <2>1. ASSUME NEW p \in PoolIds
        PROVE  (w.pool[p] # None => w.pool[p].cache = <<>>) /\ (w.pool[p] # None <=> v.pool[p] # None)
    BY <2>1 DEF Left
  <2>2. ToSet(<<>>) = {}
    BY DEF ToSet
  <2> QED BY <2>1, <2>2 DEF Idle
<1>3. \A c \in Conns : w.conn[c] # None <=> c \in H
  BY DEF Left, VmOK, InOnePlace
<1>4. NoDup(<<>>)
  BY DEF NoDup
<1>5. RegistryOK(w)
  <2> SUFFICES ASSUME NEW k \in Keys, w.registry[k] # None
               PROVE  LET q == w.registry[k] IN
                      /\ w.pool[q] # None /\ w.pool[q].key = k
                      /\ Len(w.pool[q].cache) + w.pool[q].free = w.pool[q].size
    BY DEF RegistryOK
  <2>1. w.registry[k] = v.registry[k]
    BY DEF Left
  <2>2. PICK q \in PoolIds : q = v.registry[k]
    BY <1>1, <2>1 DEF VM
  <2>3. v.pool[q] # None /\ v.pool[q].key = k
        /\ Len(v.pool[q].cache) + v.pool[q].free = v.pool[q].size
    BY <2>1, <2>2 DEF VmOK, RegistryOK
  <2>4. LET x == v.pool[q]
            y == w.pool[q] IN
        /\ x \in Pool /\ y \in Pool /\ y.key = x.key /\ y.size = x.size
        /\ y.cache = <<>> /\ y.free = x.free + Len(x.cache)
    BY <2>3 DEF Left
  <2>5. Len(w.pool[q].cache) + w.pool[q].free = w.pool[q].size
    <3>1. PICK n \in Nat, f \in Nat : n = Len(v.pool[q].cache) /\ f = v.pool[q].free
      BY <2>4 DEF Pool
    <3>2. Len(w.pool[q].cache) = 0
      BY <2>4
    <3>3. w.pool[q].free = f + n /\ w.pool[q].size = n + f
      BY <2>3, <2>4, <3>1
    <3> QED BY <3>2, <3>3
  <2>6. w.pool[q] # None
    BY <2>4
  <2> QED BY <2>1, <2>2, <2>3, <2>4, <2>5, <2>6
<1> QED BY <1>1, <1>2, <1>3, <1>4, <1>5, FewerIdle

\* What is left in registered pools after one connection of each was closed.
Cleaned(v, w) ==
    /\ w \in VM /\ \A k \in Keys : w.registry[k] = None
    /\ \A p \in PoolIds :
          LET x == v.pool[p]
              y == w.pool[p] IN
          IF (\E k \in Keys : v.registry[k] = p) /\ x.cache # <<>>
          THEN /\ x \in Pool /\ y \in Pool /\ NoDup(y.cache) /\ y.key = x.key
               /\ Len(y.cache) = Len(x.cache) - 1 /\ y.active = x.active
               /\ ToSet(y.cache) = ToSet(x.cache) \ {Head(x.cache)}
               /\ Head(x.cache) \in ToSet(x.cache) /\ w.conn[Head(x.cache)] = None
          ELSE y = x
    /\ \A c \in Conns : \/ w.conn[c] = v.conn[c]
                        \/ /\ w.conn[c] = None
                           /\ \E p \in PoolIds : /\ \E k \in Keys : v.registry[k] = p
                                                 /\ v.pool[p].cache # <<>>
                                                 /\ c = Head(v.pool[p].cache)

LEMMA CleanupFacts ==
    ASSUME NEW H, VmOK(vm, H), CleanupConnPools
    PROVE  Cleaned(vm, vm')
<1>1. PICK v, w : v = vm /\ w = vm'
  OBVIOUS
<1>2. v \in VM /\ VmOK(v, H)
  BY <1>1 DEF VmOK
<1> DEFINE registered == {v.registry[k] : k \in Keys} \ {None}
           heads == {Head(v.pool[p].cache) : p \in {q \in registered : v.pool[q].cache # <<>>}}
           conn == [c \in Conns |-> IF c \in heads THEN None ELSE v.conn[c]]
           tail(p) == [v.pool[p] EXCEPT !.cache = Tail(@)]
           pool == [p \in PoolIds |-> IF p \in registered /\ v.pool[p].cache # <<>>
                                      THEN tail(p) ELSE v.pool[p]]
           registry == [k \in Keys |-> None]
<1>3. w = [conn |-> conn, pool |-> pool, registry |-> registry]
  BY <1>1 DEF CleanupConnPools
<1>4. \A p \in PoolIds : p \in registered <=> \E k \in Keys : v.registry[k] = p
  OBVIOUS
<1>5. registered \subseteq PoolIds
  BY <1>2 DEF VM
<1>6. ASSUME NEW p \in registered, v.pool[p].cache # <<>>
      PROVE  LET x == v.pool[p]
                 y == tail(p) IN
             /\ x \in Pool /\ y \in Pool /\ NoDup(y.cache) /\ y.key = x.key
             /\ Len(y.cache) = Len(x.cache) - 1 /\ y.active = x.active
             /\ ToSet(y.cache) = ToSet(x.cache) \ {Head(x.cache)}
             /\ Head(x.cache) \in ToSet(x.cache) /\ Head(x.cache) \in Conns
  <2> DEFINE x == v.pool[p]
             y == tail(p)
  <2>1. PICK k \in Keys : v.registry[k] = p /\ p # None
    OBVIOUS
  <2>2. x # None /\ p \in PoolIds
    BY <1>2, <1>5, <2>1 DEF VmOK, RegistryOK
  <2>3. x \in Pool /\ NoDup(x.cache)
    BY <1>2, <2>2 DEF VM, VmOK, InOnePlace
  <2>4. x.cache \in Seq(Conns)
    BY <2>3 DEF Pool
  <2>5. /\ Tail(x.cache) \in Seq(Conns) /\ Len(Tail(x.cache)) = Len(x.cache) - 1
        /\ NoDup(Tail(x.cache)) /\ Head(x.cache) \in ToSet(x.cache)
        /\ ToSet(Tail(x.cache)) = ToSet(x.cache) \ {Head(x.cache)}
    BY <1>6, <2>3, <2>4, TailFacts
  <2>6. Head(x.cache) \in Conns
    BY <2>4, <2>5, ToSetFacts
  <2>7. y \in Pool /\ y.cache = Tail(x.cache) /\ y.key = x.key /\ y.active = x.active
    BY <2>3, <2>5 DEF Pool
  <2> HIDE DEF x, y
  <2>8. /\ x \in Pool /\ y \in Pool /\ NoDup(y.cache) /\ y.key = x.key
        /\ Len(y.cache) = Len(x.cache) - 1 /\ y.active = x.active
        /\ ToSet(y.cache) = ToSet(x.cache) \ {Head(x.cache)}
        /\ Head(x.cache) \in ToSet(x.cache) /\ Head(x.cache) \in Conns
    BY <2>3, <2>5, <2>6, <2>7
  <2> QED BY <2>8 DEF x, y
<1>7. conn \in [Conns -> Connection \cup {None}]
  BY <1>2 DEF VM
<1>8. pool \in [PoolIds -> Pool \cup {None}]
  <2>1. ASSUME NEW p \in PoolIds PROVE pool[p] \in Pool \cup {None}
    <3>1. CASE p \in registered /\ v.pool[p].cache # <<>>
      BY <1>6, <3>1
    <3>2. CASE ~(p \in registered /\ v.pool[p].cache # <<>>)
      BY <1>2, <3>2 DEF VM
    <3> QED BY <3>1, <3>2
  <2> QED BY <2>1
<1>9. registry \in [Keys -> PoolIds \cup {None}]
  OBVIOUS
<1>10. \A p \in PoolIds : pool[p] = IF p \in registered /\ v.pool[p].cache # <<>>
                                    THEN tail(p) ELSE v.pool[p]
  OBVIOUS
<1>11. \A c \in Conns : conn[c] = IF c \in heads THEN None ELSE v.conn[c]
  OBVIOUS
<1>12. \A c : c \in heads <=> \E p \in registered : v.pool[p].cache # <<>> /\ c = Head(v.pool[p].cache)
  OBVIOUS
<1>13. \A k \in Keys : registry[k] = None
  OBVIOUS
<1> HIDE DEF conn, pool, tail, registry, registered, heads
<1>14. w \in VM /\ w.conn = conn /\ w.pool = pool /\ w.registry = registry
  BY <1>3, <1>7, <1>8, <1>9 DEF VM
<1>15. ASSUME NEW p \in PoolIds
       PROVE  LET x == v.pool[p]
                  y == w.pool[p] IN
              IF (\E k \in Keys : v.registry[k] = p) /\ x.cache # <<>>
              THEN /\ x \in Pool /\ y \in Pool /\ NoDup(y.cache) /\ y.key = x.key
                   /\ Len(y.cache) = Len(x.cache) - 1 /\ y.active = x.active
                   /\ ToSet(y.cache) = ToSet(x.cache) \ {Head(x.cache)}
                   /\ Head(x.cache) \in ToSet(x.cache) /\ w.conn[Head(x.cache)] = None
              ELSE y = x
  <2>1. CASE p \in registered /\ v.pool[p].cache # <<>>
    <3>1. w.pool[p] = tail(p)
      BY <1>10, <1>14, <2>1
    <3>2. Head(v.pool[p].cache) \in heads
      BY <1>12, <2>1
    <3>3. w.conn[Head(v.pool[p].cache)] = None
      BY <1>6, <1>11, <1>14, <2>1, <3>2
    <3> QED BY <1>4, <1>6, <2>1, <3>1, <3>3
  <2>2. CASE ~(p \in registered /\ v.pool[p].cache # <<>>)
    BY <1>4, <1>10, <1>14, <2>2
  <2> QED BY <2>1, <2>2
<1>16. \A c \in Conns : \/ w.conn[c] = v.conn[c]
                        \/ /\ w.conn[c] = None
                           /\ \E p \in PoolIds : /\ \E k \in Keys : v.registry[k] = p
                                                 /\ v.pool[p].cache # <<>>
                                                 /\ c = Head(v.pool[p].cache)
  <2> SUFFICES ASSUME NEW c \in Conns, w.conn[c] # v.conn[c]
               PROVE  /\ w.conn[c] = None
                      /\ \E p \in PoolIds : /\ \E k \in Keys : v.registry[k] = p
                                            /\ v.pool[p].cache # <<>>
                                            /\ c = Head(v.pool[p].cache)
    OBVIOUS
  <2>1. c \in heads /\ w.conn[c] = None
    BY <1>11, <1>14
  <2>2. PICK p \in registered : v.pool[p].cache # <<>> /\ c = Head(v.pool[p].cache)
    BY <1>12, <2>1
  <2>3. p \in PoolIds /\ \E k \in Keys : v.registry[k] = p
    BY <1>4, <1>5
  <2> QED BY <2>1, <2>2, <2>3
<1>17. Cleaned(v, w)
  BY <1>13, <1>14, <1>15, <1>16 DEF Cleaned
<1> QED BY <1>1, <1>17

LEMMA CleanedKeeps ==
    ASSUME NEW v, NEW H, VmOK(v, H), NEW w, Cleaned(v, w)
    PROVE  VmOK(w, H)
<1>1. w \in VM /\ v \in VM /\ H \in SUBSET Conns
  BY DEF Cleaned, VmOK
<1> DEFINE registered(p) == \E k \in Keys : v.registry[k] = p
<1>2. \A p \in PoolIds : registered(p) => v.pool[p] # None
  BY DEF VmOK, RegistryOK
<1>3. ASSUME NEW p \in PoolIds
      PROVE  IF registered(p) /\ v.pool[p].cache # <<>>
             THEN /\ w.pool[p] \in Pool /\ NoDup(w.pool[p].cache)
                  /\ Head(v.pool[p].cache) \in Idle(v, p) /\ w.conn[Head(v.pool[p].cache)] = None
                  /\ Idle(w, p) = Idle(v, p) \ {Head(v.pool[p].cache)}
             ELSE w.pool[p] = v.pool[p] /\ Idle(w, p) = Idle(v, p)
  <2>1. CASE registered(p) /\ v.pool[p].cache # <<>>
    <3>1. /\ w.pool[p] \in Pool /\ NoDup(w.pool[p].cache)
          /\ Head(v.pool[p].cache) \in ToSet(v.pool[p].cache) /\ w.conn[Head(v.pool[p].cache)] = None
          /\ ToSet(w.pool[p].cache) = ToSet(v.pool[p].cache) \ {Head(v.pool[p].cache)}
      BY <2>1 DEF Cleaned
    <3>2. v.pool[p] # None /\ w.pool[p] # None
      BY <1>2, <2>1, <3>1
    <3> QED BY <2>1, <3>1, <3>2 DEF Idle
  <2>2. CASE ~(registered(p) /\ v.pool[p].cache # <<>>)
    <3>1. w.pool[p] = v.pool[p]
      BY <2>2 DEF Cleaned
    <3> QED BY <2>2, <3>1 DEF Idle
  <2> QED BY <2>1, <2>2
<1>4. \A p \in PoolIds : /\ w.pool[p] # None => NoDup(w.pool[p].cache)
                         /\ Idle(w, p) \subseteq Idle(v, p) /\ Idle(w, p) \cap H = {}
  <2>1. \A p \in PoolIds : (v.pool[p] # None => NoDup(v.pool[p].cache)) /\ Idle(v, p) \cap H = {}
    BY DEF VmOK, InOnePlace
  <2> HIDE DEF registered
  <2> QED BY <1>3, <2>1
<1>5. ASSUME NEW c \in Conns
      PROVE  w.conn[c] # None <=> c \in H \/ \E p \in PoolIds : c \in Idle(w, p)
  <2>1. v.conn[c] # None <=> c \in H \/ \E p \in PoolIds : c \in Idle(v, p)
    BY DEF VmOK, InOnePlace
  <2>2. CASE \E p \in PoolIds : registered(p) /\ v.pool[p].cache # <<>> /\ c = Head(v.pool[p].cache)
    <3>1. PICK p \in PoolIds : registered(p) /\ v.pool[p].cache # <<>> /\ c = Head(v.pool[p].cache)
      BY <2>2
    <3>2. c \in Idle(v, p) /\ c \notin Idle(w, p) /\ w.conn[c] = None
      BY <1>3, <3>1
    <3>3. c \notin H /\ \A q \in PoolIds \ {p} : c \notin Idle(v, q)
      BY <3>2 DEF VmOK, InOnePlace
    <3> QED BY <1>4, <3>2, <3>3
  <2>3. CASE ~\E p \in PoolIds : registered(p) /\ v.pool[p].cache # <<>> /\ c = Head(v.pool[p].cache)
    <3>1. w.conn[c] = v.conn[c]
      BY <2>3 DEF Cleaned
    <3>2. \A p \in PoolIds : c \in Idle(w, p) <=> c \in Idle(v, p)
      BY <1>3, <2>3
    <3> QED BY <2>1, <3>1, <3>2
  <2> QED BY <2>2, <2>3
<1>6. RegistryOK(w)
  BY DEF Cleaned, RegistryOK
<1> QED BY <1>1, <1>4, <1>5, <1>6, FewerIdle

----------------------------------------------------------------------------
(* Every step keeps connections in one place.                              *)

\* One socket changes.
LEMMA SocketStep ==
    ASSUME SocketsOK, NEW s \in Sockets, NEW x, SocketOK(x), sock' = [sock EXCEPT ![s] = x],
           x.conn = None \/ x.conn \notin Held \ {sock[s].conn}
    PROVE  SocketsOK' /\ Held' = (Held \ {sock[s].conn}) \cup ({x.conn} \ {None})
<1>1. sock \in [Sockets -> Socket] /\ x \in Socket
  BY DEF SocketsOK, SocketOK
<1>2. sock' \in [Sockets -> Socket] /\ sock'[s] = x /\ \A t \in Sockets \ {s} : sock'[t] = sock[t]
  BY <1>1
<1>3. \A t, r \in Sockets : sock[t].conn = sock[r].conn /\ sock[t].conn # None => t = r
  BY DEF SocketsOK
<1>4. \A t \in Sockets : sock[t].conn # None => sock[t].conn \in Held
  BY DEF Held
<1>5. \A c : c \in Held <=> c # None /\ \E t \in Sockets : sock[t].conn = c
  BY DEF Held
<1>6. \A c : c \in Held' <=> c # None /\ \E t \in Sockets : sock'[t].conn = c
  BY DEF Held
<1>7. \A t \in Sockets \ {s} : sock[t].conn # None => sock[t].conn # x.conn
  BY <1>3, <1>4
<1>8. \A t, r \in Sockets : sock'[t].conn = sock'[r].conn /\ sock'[t].conn # None => t = r
  BY <1>2, <1>3, <1>7
<1>9. \A t \in Sockets : SocketOK(sock'[t])
  BY <1>2 DEF SocketsOK
<1>10. SocketsOK'
  BY <1>2, <1>8, <1>9 DEF SocketsOK
<1>11. ASSUME NEW c PROVE c \in Held' <=> c \in (Held \ {sock[s].conn}) \cup ({x.conn} \ {None})
  <2>1. CASE c = None
    BY <1>6, <1>5, <2>1
  <2>2. CASE c # None /\ c = x.conn
    BY <1>2, <1>6, <2>2
  <2>3. CASE c # None /\ c # x.conn
    <3>1. c \in Held' <=> \E t \in Sockets \ {s} : sock[t].conn = c
      BY <1>2, <1>6, <2>3
    <3>2. (\E t \in Sockets \ {s} : sock[t].conn = c) <=> c \in Held /\ c # sock[s].conn
      BY <1>3, <1>5, <2>3
    <3> QED BY <2>3, <3>1, <3>2
  <2> QED BY <2>1, <2>2, <2>3
<1> QED BY <1>10, <1>11

LEMMA ClosedFacts ==
    /\ Closed \in Socket /\ SocketOK(Closed) /\ Closed.conn = None
    /\ SocketOK([Closed EXCEPT !.waiting = "killed"])
    /\ [Closed EXCEPT !.waiting = "killed"].conn = None
  BY DEF Closed, Socket, SocketOK

\* A socket that wants a connection for the key k.
Wanting(k) == [Closed EXCEPT !.key = k, !.target = k]

\* A socket that took the connection c from the pool p.
Borrower(k, c, p) == [Wanting(k) EXCEPT !.conn = c, !.reused = TRUE, !.pool = p]

LEMMA WantingFacts ==
    ASSUME NEW k \in Keys
    PROVE  /\ SocketOK([Wanting(k) EXCEPT !.waiting = "connecting"])
           /\ [Wanting(k) EXCEPT !.waiting = "connecting"].conn = None
  BY DEF Wanting, Closed, Socket, SocketOK

LEMMA BorrowerFacts ==
    ASSUME NEW k \in Keys, NEW c \in Conns, NEW p \in PoolIds
    PROVE  LET x == Borrower(k, c, p) IN
           SocketOK(x) /\ x.conn = c /\ x.reused = TRUE /\ x.pool = p /\ x.key = k
  BY DEF Borrower, Wanting, Closed, Socket, SocketOK

\* The connection of s, if it had one, is closed or filed, and s has none now.
LEMMA LetGo ==
    ASSUME Owned, NEW s \in Sockets, NEW x, SocketOK(x), x.conn = None,
           sock' = [sock EXCEPT ![s] = x], NEW w, vm' = w, VmOK(w, Held \ {sock[s].conn}),
           exiting' \in BOOLEAN, misfiled' \in BOOLEAN
    PROVE  Owned'
<1>1. SocketsOK' /\ Held' = (Held \ {sock[s].conn}) \cup ({x.conn} \ {None})
  BY SocketStep DEF Owned
<1>2. Held' = Held \ {sock[s].conn}
  BY <1>1
<1>3. VmOK(vm', Held')
  BY <1>2
<1> QED BY <1>1, <1>3 DEF Owned

\* Some attributes of s, other than its connection.
LEMMA Retold ==
    ASSUME Owned, NEW s \in Sockets, NEW x, SocketOK(x), x.conn = sock[s].conn,
           sock' = [sock EXCEPT ![s] = x], NEW w, vm' = w, VmOK(w, Held),
           exiting' \in BOOLEAN, misfiled' \in BOOLEAN
    PROVE  Owned'
<1>1. SocketsOK' /\ Held' = (Held \ {sock[s].conn}) \cup ({x.conn} \ {None})
  BY SocketStep DEF Owned
<1>2. Held' = Held
  BY <1>1 DEF Held
<1>3. VmOK(vm', Held')
  BY <1>2
<1> QED BY <1>1, <1>3 DEF Owned

LEMMA OwnedInit ==
    Init => Owned
<1> SUFFICES ASSUME Init PROVE Owned
  OBVIOUS
<1>1. /\ sock = [s \in Sockets |-> Closed]
      /\ vm = [conn |-> [c \in Conns |-> None], pool |-> [p \in PoolIds |-> None],
               registry |-> [k \in Keys |-> None]]
      /\ exiting = FALSE /\ misfiled = FALSE
  BY DEF Init
<1>2. SocketsOK /\ Held = {}
  BY <1>1, ClosedFacts DEF SocketsOK, Held
<1>3. /\ vm \in VM /\ \A c \in Conns : vm.conn[c] = None
      /\ \A p \in PoolIds : vm.pool[p] = None
      /\ \A k \in Keys : vm.registry[k] = None
  BY <1>1 DEF VM
<1>4. \A p \in PoolIds : Idle(vm, p) = {}
  BY <1>3 DEF Idle
<1>5. VmOK(vm, {})
  BY <1>3, <1>4 DEF VmOK, InOnePlace, RegistryOK
<1> QED BY <1>1, <1>2, <1>5 DEF Owned

\* What is known of a socket.
LEMMA OwnedFacts ==
    ASSUME Owned, NEW s \in Sockets
    PROVE  /\ SocketOK(sock[s]) /\ sock[s] \in Socket /\ sock[s].conn \in Held \cup {None}
           /\ sock[s].conn # None => sock[s].conn \in Conns
           /\ vm \in VM /\ VmOK(vm, Held) /\ exiting \in BOOLEAN /\ misfiled \in BOOLEAN
           /\ VmOK(Finalize(vm, sock[s]), Held \ {sock[s].conn})
<1>1. SocketOK(sock[s]) /\ sock[s] \in Socket /\ sock[s].conn \in Held \cup {None}
      /\ vm \in VM /\ VmOK(vm, Held) /\ exiting \in BOOLEAN /\ misfiled \in BOOLEAN
  BY DEF Owned, SocketsOK, VmOK, Held
<1>2. sock[s].conn # None => sock[s].conn \in Conns
  BY <1>1 DEF VmOK
<1>3. VmOK(Finalize(vm, sock[s]), Held \ {sock[s].conn})
  BY <1>1, FinalizeKeeps
<1> QED BY <1>1, <1>2, <1>3

\* connect either takes an idle connection or starts to make one.
Connecting(s, k, v) ==
    \/ \E p \in PoolIds :
          /\ p = v.registry[k] /\ v.pool[p].cache # <<>> /\ vm' = Reuse(v, p)
          /\ sock' = [sock EXCEPT ![s] = Borrower(k, Head(v.pool[p].cache), p)]
    \/ /\ vm' = v
       /\ sock' = [sock EXCEPT ![s] = [Wanting(k) EXCEPT !.waiting = "connecting"]]

LEMMA ConnectFacts ==
    ASSUME NEW s \in Sockets, NEW k \in Keys, NEW H, VmOK(Finalize(vm, sock[s]), H), Connect(s, k)
    PROVE  Connecting(s, k, Finalize(vm, sock[s])) /\ UNCHANGED <<exiting, misfiled>>
<1> PICK v : v = Finalize(vm, sock[s])
  OBVIOUS
<1> DEFINE p == v.registry[k]
<1>1. v \in VM
  BY DEF VmOK
<1>2. \/ /\ CanReuse(v, p)
         /\ vm' = Reuse(v, p)
         /\ sock' = [sock EXCEPT ![s] = Borrower(k, Head(v.pool[p].cache), p)]
      \/ /\ vm' = v
         /\ sock' = [sock EXCEPT ![s] = [Wanting(k) EXCEPT !.waiting = "connecting"]]
  BY DEF Connect, Reuse, Wanting, Borrower
<1>3. CanReuse(v, p) => p \in PoolIds /\ v.pool[p].cache # <<>>
  BY <1>1 DEF CanReuse, VM
<1>4. UNCHANGED <<exiting, misfiled>>
  BY DEF Connect
<1> HIDE DEF p
<1>5. CASE CanReuse(v, p)
  BY <1>2, <1>3, <1>4 DEF Connecting, p
<1>6. CASE ~CanReuse(v, p)
  BY <1>2, <1>4, <1>6 DEF Connecting
<1> QED BY <1>5, <1>6

LEMMA ConnectOwned ==
    ASSUME Owned, NEW s \in Sockets, NEW k \in Keys, Connect(s, k)
    PROVE  Owned'
<1> PICK v : v = Finalize(vm, sock[s])
  OBVIOUS
<1> DEFINE G == Held \ {sock[s].conn}
<1>1. VmOK(v, G) /\ v \in VM /\ exiting' \in BOOLEAN /\ misfiled' \in BOOLEAN
      /\ Connecting(s, k, v)
  BY OwnedFacts, ConnectFacts DEF VmOK
<1>2. ASSUME NEW p \in PoolIds, p = v.registry[k], v.pool[p].cache # <<>>, vm' = Reuse(v, p),
             sock' = [sock EXCEPT ![s] = Borrower(k, Head(v.pool[p].cache), p)]
      PROVE  Owned'
  <2>1. v.pool[p] # None
    BY <1>1, <1>2 DEF VmOK, RegistryOK
  <2>2. PICK c : c = Head(v.pool[p].cache)
    OBVIOUS
  <2> DEFINE x == Borrower(k, c, p)
  <2>3. VmOK(vm', G \cup {c}) /\ c \in Idle(v, p)
    BY <1>1, <1>2, <2>1, <2>2, ReuseKeeps
  <2>4. c \in Conns /\ c \notin G
    BY <1>1, <2>3 DEF VmOK, InOnePlace
  <2>5. SocketOK(x) /\ x.conn = c
    <3>1. c \in Conns
      BY <2>4
    <3> QED BY <3>1, BorrowerFacts
  <2>6. sock' = [sock EXCEPT ![s] = x]
    BY <1>2, <2>2
  <2> HIDE DEF x
  <2>7. SocketsOK' /\ Held' = G \cup ({c} \ {None})
    BY <2>4, <2>5, <2>6, SocketStep DEF Owned
  <2>8. Held' = G \cup {c}
    BY <2>4, <2>7
  <2> QED BY <1>1, <2>3, <2>7, <2>8 DEF Owned
<1>3. ASSUME vm' = v,
             sock' = [sock EXCEPT ![s] = [Wanting(k) EXCEPT !.waiting = "connecting"]]
      PROVE  Owned'
  <2> DEFINE x == [Wanting(k) EXCEPT !.waiting = "connecting"]
  <2>1. SocketOK(x) /\ x.conn = None
    BY WantingFacts
  <2>2. sock' = [sock EXCEPT ![s] = x]
    BY <1>3
  <2> HIDE DEF x
  <2> QED BY <1>1, <1>3, <2>1, <2>2, LetGo
<1> QED BY <1>1, <1>2, <1>3 DEF Connecting

LEMMA ConnectRefusedOwned ==
    ASSUME Owned, NEW s \in Sockets, NEW k \in Keys, ConnectRefused(s, k)
    PROVE  Owned'
<1> PICK u : u = sock[s]
  OBVIOUS
<1> DEFINE x == [u EXCEPT !.key = k]
<1>1. SocketOK(u) /\ u \in Socket
  BY OwnedFacts
<1>2. SocketOK(x) /\ x.conn = sock[s].conn
  BY <1>1 DEF Socket, SocketOK
<1>3. sock' = [sock EXCEPT ![s] = x]
  BY DEF ConnectRefused, Owned, SocketsOK
<1>4. vm' = vm /\ VmOK(vm, Held) /\ exiting' \in BOOLEAN /\ misfiled' \in BOOLEAN
  BY OwnedFacts DEF ConnectRefused
<1> HIDE DEF x
<1> QED BY <1>2, <1>3, <1>4, Retold

LEMMA ConnectedOwned ==
    ASSUME Owned, NEW s \in Sockets, NEW c \in Conns, Connected(s, c)
    PROVE  Owned'
<1> PICK u : u = sock[s]
  OBVIOUS
<1> DEFINE x == [u EXCEPT !.conn = c, !.waiting = "no"]
           d == [home |-> u.target, hot |-> FALSE, timer |-> FALSE]
<1>1. SocketOK(u) /\ u \in Socket /\ u.waiting = "connecting" /\ vm.conn[c] = None
      /\ VmOK(vm, Held) /\ vm \in VM
  BY OwnedFacts DEF Connected
<1>2. u.conn = None /\ u.target \in Keys /\ u.key \in Keys
  BY <1>1 DEF SocketOK
<1>3. d \in Connection
  BY <1>2 DEF Connection
<1>4. SocketOK(x) /\ x.conn = c
  BY <1>1, <1>2 DEF Socket, SocketOK
<1>5. sock' = [sock EXCEPT ![s] = x]
  BY DEF Connected, Owned, SocketsOK
<1>6. vm' = [vm EXCEPT !.conn[c] = d] /\ exiting' \in BOOLEAN /\ misfiled' \in BOOLEAN
  BY OwnedFacts DEF Connected
<1> HIDE DEF x, d
<1>7. VmOK(vm', Held \cup {c})
  BY <1>1, <1>3, <1>6, OpenKeeps
<1>8. c \notin Held /\ c # None
  BY <1>1 DEF VmOK, InOnePlace
<1>9. SocketsOK' /\ Held' = (Held \ {u.conn}) \cup ({c} \ {None})
  BY <1>4, <1>5, <1>8, SocketStep DEF Owned
<1>10. Held' = Held \cup {c}
  BY <1>2, <1>8, <1>9 DEF Held
<1> QED BY <1>6, <1>7, <1>9, <1>10 DEF Owned

\* Sockets that fail to connect, are closed, destroyed or killed.
LEMMA ReleaseOwned ==
    ASSUME Owned, NEW s \in Sockets,
           ConnectFailed(s) \/ Close(s) \/ Destroy(s) \/ KillWaiting(s)
    PROVE  Owned'
<1>1. /\ exiting' \in BOOLEAN /\ misfiled' \in BOOLEAN /\ SocketOK(sock[s])
      /\ VmOK(vm, Held) /\ VmOK(Finalize(vm, sock[s]), Held \ {sock[s].conn})
  BY OwnedFacts DEF ConnectFailed, Close, Destroy, KillWaiting
<1>2. CASE ConnectFailed(s)
  <2>1. sock[s].conn = None
    BY <1>1, <1>2 DEF ConnectFailed, SocketOK
  <2>2. Held \ {sock[s].conn} = Held
    BY <2>1 DEF Held
  <2>3. sock' = [sock EXCEPT ![s] = Closed] /\ vm' = vm
    BY <1>2 DEF ConnectFailed
  <2> QED BY <1>1, <2>2, <2>3, ClosedFacts, LetGo
<1>3. CASE Close(s) \/ Destroy(s)
  <2>1. sock' = [sock EXCEPT ![s] = Closed] /\ vm' = Finalize(vm, sock[s])
    BY <1>3 DEF Close, Destroy
  <2> QED BY <1>1, <2>1, ClosedFacts, LetGo
<1>4. CASE KillWaiting(s)
  <2>1. sock' = [sock EXCEPT ![s] = [Closed EXCEPT !.waiting = "killed"]]
        /\ vm' = Finalize(vm, sock[s])
    BY <1>4 DEF KillWaiting
  <2> QED BY <1>1, <2>1, ClosedFacts, LetGo
<1> QED BY <1>2, <1>3, <1>4

\* Only flags of connections differ.
Flagged(v, w) ==
    /\ w \in VM /\ w.pool = v.pool /\ w.registry = v.registry
    /\ \A d \in Conns : w.conn[d] = None <=> v.conn[d] = None
    /\ \A d \in Conns : v.conn[d] # None => w.conn[d].home = v.conn[d].home

LEMMA FlagFacts ==
    ASSUME NEW v \in VM, NEW c \in Conns, NEW x \in Connection, v.conn[c] # None,
           x.home = v.conn[c].home
    PROVE  Flagged(v, [v EXCEPT !.conn[c] = x])
<1> DEFINE w == [v EXCEPT !.conn[c] = x]
<1>1. /\ w \in VM /\ w.pool = v.pool /\ w.registry = v.registry
      /\ \A d \in Conns : w.conn[d] = IF d = c THEN x ELSE v.conn[d]
  BY DEF VM
<1> HIDE DEF w
<1>2. Flagged(v, w)
  BY <1>1 DEF Flagged
<1> QED BY <1>2 DEF w

\* The peer acts on an open connection, or what it sent is read.
LEMMA HotFacts ==
    ASSUME NEW v \in VM, NEW c \in Conns, v.conn[c] # None
    PROVE  Flagged(v, [v EXCEPT !.conn[c].hot = FALSE]) /\ Flagged(v, [v EXCEPT !.conn[c].hot = TRUE])
<1> DEFINE x == [v.conn[c] EXCEPT !.hot = FALSE]
           y == [v.conn[c] EXCEPT !.hot = TRUE]
<1>1. v.conn[c] \in Connection
  BY DEF VM
<1>2. x \in Connection /\ x.home = v.conn[c].home /\ y \in Connection /\ y.home = v.conn[c].home
  BY <1>1 DEF Connection
<1>3. /\ [v EXCEPT !.conn[c].hot = FALSE] = [v EXCEPT !.conn[c] = x]
      /\ [v EXCEPT !.conn[c].hot = TRUE] = [v EXCEPT !.conn[c] = y]
  OBVIOUS
<1> HIDE DEF x, y
<1>4. Flagged(v, [v EXCEPT !.conn[c] = x]) /\ Flagged(v, [v EXCEPT !.conn[c] = y])
  BY <1>2, FlagFacts
<1> QED BY <1>3, <1>4

LEMMA FlaggedKeeps ==
    ASSUME NEW v, NEW H, VmOK(v, H), NEW w, Flagged(v, w)
    PROVE  VmOK(w, H)
  BY FlagsKeep DEF Flagged

LEMMA WaitOwned ==
    ASSUME Owned, NEW s \in Sockets, Wait(s) \/ WaitDone(s)
    PROVE  Owned'
<1> PICK u : u = sock[s]
  OBVIOUS
<1>1. SocketOK(u) /\ u \in Socket /\ vm \in VM /\ VmOK(vm, Held)
      /\ exiting' \in BOOLEAN /\ misfiled' \in BOOLEAN
  BY OwnedFacts DEF Wait, WaitDone
<1>2. u.conn # None /\ u.conn \in Conns
  BY <1>1, OwnedFacts DEF Wait, WaitDone, SocketOK
<1>3. vm.conn[u.conn] # None
  <2>1. u.conn \in Held
    BY <1>2 DEF Held
  <2> QED BY <1>1, <1>2, <2>1 DEF VmOK, InOnePlace
<1>4. VmOK(vm', Held)
  <2>1. vm' = vm \/ vm' = [vm EXCEPT !.conn[u.conn].hot = FALSE]
    BY DEF Wait, WaitDone
  <2>2. CASE vm' = vm
    BY <1>1, <2>2
  <2>3. CASE vm' = [vm EXCEPT !.conn[u.conn].hot = FALSE]
    <3>1. Flagged(vm, vm')
      BY <1>1, <1>2, <1>3, <2>3, HotFacts
    <3> QED BY <1>1, <3>1, FlaggedKeeps
  <2> QED BY <2>1, <2>2, <2>3
<1>5. \E x : SocketOK(x) /\ x.conn = u.conn /\ sock' = [sock EXCEPT ![s] = x]
  <2>1. sock \in [Sockets -> Socket]
    BY DEF Owned, SocketsOK
  <2>2. CASE Wait(s)
    <3> DEFINE x == [u EXCEPT !.waiting = "io"]
    <3>1. SocketOK(x) /\ x.conn = u.conn
      BY <1>1, <1>2 DEF SocketOK, Socket
    <3>2. sock' = [sock EXCEPT ![s] = x]
      BY <2>2 DEF Wait
    <3> QED BY <3>1, <3>2
  <2>3. CASE WaitDone(s)
    <3> DEFINE x == [u EXCEPT !.waiting = "no"]
               y == [u EXCEPT !.waiting = "no", !.half = TRUE]
    <3>1. SocketOK(x) /\ x.conn = u.conn /\ SocketOK(y) /\ y.conn = u.conn
      BY <1>1, <1>2 DEF SocketOK, Socket
    <3>2. sock' = [sock EXCEPT ![s] = x] \/ sock' = [sock EXCEPT ![s] = y]
      BY <2>1, <2>3 DEF WaitDone
    <3> HIDE DEF x, y
    <3> QED BY <3>1, <3>2
  <2> QED BY <2>2, <2>3
<1> QED BY <1>1, <1>4, <1>5, Retold

\* The pool p of the key k in v, which is new in v if there was none in vm.
KeyPool(k, size, p, v) ==
    /\ p \in PoolIds /\ v.pool[p] # None /\ v.pool[p].key = k /\ v.registry[k] = p
    /\ \/ v = vm
       \/ /\ vm.pool[p] = None /\ vm.registry[k] = None
          /\ v = WithPool(vm, p, k, size)

LEMMA PoolForFacts ==
    ASSUME NEW H, VmOK(vm, H), NEW k \in Keys, NEW size \in Sizes, NEW to \in PoolFor(k, size)
    PROVE  KeyPool(k, size, to.id, to.vm) /\ VmOK(to.vm, H)
<1>1. vm \in VM
  BY DEF VmOK
<1>2. CASE vm.registry[k] # None
  <2>1. to = [id |-> vm.registry[k], vm |-> vm]
    BY <1>2 DEF PoolFor
  <2>2. to.id = vm.registry[k] /\ to.vm = vm /\ to.id \in PoolIds
    BY <1>1, <1>2, <2>1 DEF VM
  <2>3. vm.pool[to.id] # None /\ vm.pool[to.id].key = k
    BY <1>2, <2>2 DEF VmOK, RegistryOK
  <2> QED BY <2>2, <2>3 DEF KeyPool
<1>3. CASE vm.registry[k] = None
  <2>1. PICK p \in PoolIds : vm.pool[p] = None
                             /\ to = [id |-> p, vm |-> WithPool(vm, p, k, size)]
    BY <1>3 DEF PoolFor, WithPool
  <2>2. to.id = p /\ to.vm = WithPool(vm, p, k, size)
    BY <2>1
  <2>3. PICK w : w = WithPool(vm, p, k, size)
    OBVIOUS
  <2>4. VmOK(w, H)
    BY <1>3, <2>1, <2>3, NewPoolKeeps
  <2>5. /\ w.pool[p] = NewPool(k, size) /\ NewPool(k, size) \in Pool /\ w.registry[k] = p
    BY <1>1, <2>3, NewPoolFacts
  <2>6. NewPool(k, size).key = k
    BY DEF NewPool
  <2>7. KeyPool(k, size, p, w)
    BY <1>3, <2>1, <2>3, <2>5, <2>6 DEF KeyPool
  <2> QED BY <2>2, <2>3, <2>4, <2>7
<1> QED BY <1>2, <1>3

\* setkeepalive files the connection in the pool of its key and may have to close
\* it there.
KeptIn(u, timer, size, p, v) ==
    /\ KeyPool(u.key, size, p, v) /\ VmOK(v, Held)
    /\ \/ vm' = File(v, p, u, timer)
       \/ vm.conn[u.conn].hot /\ vm' = CloseHandler(File(v, p, u, timer), p, u.conn)

LEMMA SetKeepaliveFacts ==
    ASSUME Owned, NEW s \in Sockets, NEW timer \in BOOLEAN, NEW size \in Sizes,
           SetKeepalive(s, timer, size)
    PROVE  /\ sock[s].conn # None /\ sock[s].conn \in Held /\ sock[s].key \in Keys
           /\ \E p \in PoolIds : \E v : KeptIn(sock[s], timer, size, p, v)
           /\ sock' = [sock EXCEPT ![s] = Closed] /\ exiting' = exiting
           /\ misfiled' = (misfiled \/ vm.conn[sock[s].conn].home # sock[s].key)
<1> PICK u : u = sock[s]
  OBVIOUS
<1>1. u.conn # None /\ SocketOK(u) /\ u.conn \in Held /\ VmOK(vm, Held)
  BY OwnedFacts DEF SetKeepalive
<1>2. u.key \in Keys
  BY <1>1 DEF SocketOK
<1>3. PICK to \in PoolFor(u.key, size) :
         \/ vm' = File(to.vm, to.id, u, timer)
         \/ /\ vm.conn[u.conn].hot
            /\ vm' = CloseHandler(File(to.vm, to.id, u, timer), to.id, u.conn)
  BY DEF SetKeepalive
<1>4. PICK p, v : p = to.id /\ v = to.vm
  OBVIOUS
<1>5. KeyPool(u.key, size, p, v) /\ VmOK(v, Held)
  BY <1>1, <1>2, <1>4, PoolForFacts
<1>6. p \in PoolIds
  BY <1>5 DEF KeyPool
<1>7. \/ vm' = File(v, p, u, timer)
      \/ vm.conn[u.conn].hot /\ vm' = CloseHandler(File(v, p, u, timer), p, u.conn)
  BY <1>3, <1>4
<1>8. sock' = [sock EXCEPT ![s] = Closed] /\ exiting' = exiting
      /\ misfiled' = (misfiled \/ vm.conn[u.conn].home # u.key)
  BY DEF SetKeepalive
<1>9. KeptIn(u, timer, size, p, v)
  BY <1>5, <1>7 DEF KeptIn
<1> QED BY <1>1, <1>2, <1>6, <1>8, <1>9

LEMMA SetKeepaliveOwned ==
    ASSUME Owned, NEW s \in Sockets, NEW timer \in BOOLEAN, NEW size \in Sizes,
           SetKeepalive(s, timer, size)
    PROVE  Owned'
<1> PICK u : u = sock[s]
  OBVIOUS
<1>1. /\ u.conn # None /\ u.conn \in Held /\ sock' = [sock EXCEPT ![s] = Closed]
      /\ exiting' \in BOOLEAN /\ misfiled' \in BOOLEAN
  <2>1. exiting' = exiting /\ misfiled' = (misfiled \/ vm.conn[u.conn].home # u.key)
    BY SetKeepaliveFacts
  <2>2. exiting \in BOOLEAN /\ misfiled \in BOOLEAN
    BY DEF Owned
  <2> QED BY SetKeepaliveFacts, <2>1, <2>2
<1> PICK p \in PoolIds : \E v : KeptIn(u, timer, size, p, v)
  BY SetKeepaliveFacts
<1>2. PICK v :
         /\ KeyPool(u.key, size, p, v) /\ VmOK(v, Held)
         /\ \/ vm' = File(v, p, u, timer)
            \/ vm' = CloseHandler(File(v, p, u, timer), p, u.conn)
  BY DEF KeptIn
<1>3. v.pool[p] # None /\ v.registry[v.pool[p].key] = p
  BY <1>2 DEF KeyPool
<1>4. PICK w : w = File(v, p, u, timer)
  OBVIOUS
<1>5. VmOK(w, Held \ {u.conn}) /\ u.conn \in Idle(w, p)
  BY <1>1, <1>2, <1>3, <1>4, FileKeeps
<1>6. VmOK(CloseHandler(w, p, u.conn), Held \ {u.conn})
  BY <1>5, HandlerKeeps
<1>7. VmOK(vm', Held \ {u.conn})
  BY <1>2, <1>4, <1>5, <1>6
<1> QED BY <1>1, <1>7, ClosedFacts, LetGo

\* What happens to connections, pools and the worker, without any call.
LEMMA QuietOwned ==
    ASSUME Owned, sock' = sock, exiting' \in BOOLEAN, misfiled' \in BOOLEAN, VmOK(vm', Held)
    PROVE  Owned'
<1>1. SocketsOK' /\ Held' = Held
  BY DEF Owned, SocketsOK, Held
<1> QED BY <1>1 DEF Owned

LEMMA EventOwned ==
    ASSUME Owned, Event \/ BeginExit \/ CleanupConnPools \/ Respawn
    PROVE  Owned'
<1>1. VmOK(vm, Held) /\ vm \in VM /\ exiting \in BOOLEAN /\ misfiled \in BOOLEAN
  BY DEF Owned, VmOK
<1>2. ASSUME NEW c \in Conns, PeerActs(c) PROVE Owned'
  <2>1. vm.conn[c] # None /\ vm' = [vm EXCEPT !.conn[c].hot = TRUE]
    BY <1>2 DEF PeerActs
  <2>2. Flagged(vm, vm')
    BY <1>1, <2>1, HotFacts
  <2>3. VmOK(vm', Held)
    BY <1>1, <2>2, FlaggedKeeps
  <2> QED BY <1>1, <1>2, <2>3, QuietOwned DEF PeerActs
<1>3. ASSUME NEW c \in Conns, NEW p \in PoolIds, IdleEvent(c, p) PROVE Owned'
  <2>1. c \in Idle(vm, p) /\ vm' = CloseHandler(vm, p, c)
    BY <1>3, IdleInFacts DEF IdleEvent
  <2>2. VmOK(vm', Held)
    BY <1>1, <2>1, HandlerKeeps
  <2> QED BY <1>1, <1>3, <2>2, QuietOwned DEF IdleEvent
<1>4. ASSUME NEW p \in PoolIds, ShutdownPool(p) PROVE Owned'
  <2>1. VmOK(vm', Held)
    BY <1>1, <1>4, ShutdownKeeps
  <2> QED BY <1>1, <1>4, <2>1, QuietOwned DEF ShutdownPool
<1>5. CASE BeginExit
  <2>1. PICK w : w = CloseIdle(vm)
    OBVIOUS
  <2>2. VmOK(w, Held)
    BY <1>1, <2>1, CloseIdleFacts, LeftKeeps
  <2>3. VmOK(vm', Held)
    BY <1>5, <2>1, <2>2 DEF BeginExit
  <2> QED BY <1>1, <1>5, <2>3, QuietOwned DEF BeginExit
<1>6. CASE CleanupConnPools
  <2>1. Cleaned(vm, vm')
    BY <1>1, <1>6, CleanupFacts
  <2>2. VmOK(vm', Held)
    BY <1>1, <2>1, CleanedKeeps
  <2> QED BY <1>1, <1>6, <2>2, QuietOwned DEF CleanupConnPools
<1>7. CASE Respawn
  <2>1. Held = {}
    BY <1>7 DEF Respawn, NoRequests, Held, Closed
  <2>2. PICK v, w : v = vm /\ w = vm'
    OBVIOUS
  <2>3. w = [v EXCEPT !.conn = [c \in Conns |-> None]] /\ \A p \in PoolIds : v.pool[p] = None
    BY <1>7, <2>2 DEF Respawn
  <2>4. v \in VM /\ VmOK(v, Held)
    BY <1>1, <2>2
  <2>5. /\ w \in VM /\ w.pool = v.pool /\ w.registry = v.registry
        /\ \A c \in Conns : w.conn[c] = None
    BY <2>3, <2>4 DEF VM
  <2>6. \A p \in PoolIds : Idle(v, p) = {} /\ Idle(w, p) = {}
    BY <2>3, <2>5 DEF Idle
  <2>7. RegistryOK(w)
    BY <2>4, <2>5 DEF VmOK, RegistryOK
  <2>8. InOnePlace(w, Held)
    BY <2>1, <2>3, <2>5, <2>6 DEF InOnePlace
  <2>9. VmOK(vm', Held)
    BY <2>1, <2>2, <2>5, <2>7, <2>8 DEF VmOK
  <2> QED BY <1>7, <2>9, QuietOwned DEF Respawn
<1> QED BY <1>2, <1>3, <1>4, <1>5, <1>6, <1>7 DEF Event

LEMMA OwnedStep ==
    Owned /\ [Next]_vars => Owned'
<1> SUFFICES ASSUME Owned, [Next]_vars PROVE Owned'
  OBVIOUS
<1>1. ASSUME NEW s \in Sockets, Call(s) PROVE Owned'
  BY <1>1, ConnectOwned, ConnectRefusedOwned, ConnectedOwned, ReleaseOwned, WaitOwned,
     SetKeepaliveOwned DEF Call
<1>2. CASE Event \/ BeginExit \/ CleanupConnPools \/ Respawn
  BY <1>2, EventOwned
<1>3. CASE UNCHANGED vars
  BY <1>3 DEF vars, Owned, SocketsOK, Held
<1> QED BY <1>1, <1>2, <1>3 DEF Next

LEMMA OwnedAlways ==
    Spec => []Owned
<1>1. Init => Owned
  BY OwnedInit
<1>2. Owned /\ [Next]_vars => Owned'
  BY OwnedStep
<1> QED BY <1>1, <1>2, PTL DEF Spec

\* Sockets, connections, pools and the registry have their types: in particular
\* no pool ever has fewer than 0 free items, and no operation reads a field of a
\* pool or of a connection that is not there.
THEOREM TypeCorrect == Spec => []TypeOK
<1>1. Owned => TypeOK
  BY DEF Owned, SocketsOK, VmOK, VM, Socket, TypeOK
<1> QED BY <1>1, OwnedAlways, PTL

LEMMA PoolTypes ==
    ASSUME NEW v \in VM, NEW p \in PoolIds, v.pool[p] # None
    PROVE  /\ v.pool[p] \in Pool /\ v.pool[p].active \in Int /\ Len(v.pool[p].cache) \in Nat
           /\ v.pool[p].cache \in Seq(Conns) /\ v.pool[p].free \in Nat
           /\ v.pool[p].key \in Keys
           /\ v.pool[p].cache = <<>> <=> Len(v.pool[p].cache) = 0
           /\ Idle(v, p) = ToSet(v.pool[p].cache)
<1> PICK x : x = v.pool[p]
  OBVIOUS
<1>1. x \in Pool
  BY DEF VM
<1>2. x.active \in Int /\ x.cache \in Seq(Conns) /\ x.free \in Nat /\ x.key \in Keys
  BY <1>1 DEF Pool
<1>3. Len(x.cache) \in Nat /\ (x.cache = <<>> <=> Len(x.cache) = 0)
  BY <1>2, ToSetFacts
<1> QED BY <1>1, <1>2, <1>3 DEF Idle

\* An idle connection is in one place of one cache.
LEMMA CachedOnce ==
    ASSUME NEW H, VmOK(vm, H), NEW p \in PoolIds, NEW c \in Idle(vm, p)
    PROVE  \E i : CachedIn(c) = {<<p, i>>}
<1>1. vm.pool[p] # None /\ c \in ToSet(vm.pool[p].cache) /\ NoDup(vm.pool[p].cache)
      /\ vm \in VM /\ vm.pool[p].cache \in Seq(Conns)
  BY DEF VmOK, InOnePlace, Idle, VM, Pool
<1>2. PICK i \in 1..Len(vm.pool[p].cache) : vm.pool[p].cache[i] = c
  BY <1>1, ToSetFacts
<1>3. Places(p, c) = {i}
  <2>1. DOMAIN vm.pool[p].cache = 1..Len(vm.pool[p].cache)
    BY <1>1, ToSetFacts
  <2> PICK s : s = vm.pool[p].cache
    OBVIOUS
  <2>2. \A j \in 1..Len(s) : s[j] = c <=> j = i
    BY <1>1, <1>2 DEF NoDup
  <2>3. \A j : j \in Places(p, c) <=> j \in 1..Len(s) /\ s[j] = c
    BY <2>1 DEF Places
  <2>4. i \in 1..Len(s)
    BY <1>2
  <2>5. \A j : j \in Places(p, c) <=> j = i
    BY <2>2, <2>3, <2>4
  <2> QED BY <2>5
<1>4. ASSUME NEW q \in PoolIds, vm.pool[q] # None, q # p PROVE Places(q, c) = {}
  <2>1. c \notin ToSet(vm.pool[q].cache) /\ vm.pool[q].cache \in Seq(Conns)
    <3>1. Idle(vm, q) = ToSet(vm.pool[q].cache) /\ vm.pool[q].cache \in Seq(Conns)
      BY <1>1, <1>4, PoolTypes
    <3>2. c \notin Idle(vm, q)
      BY <1>4 DEF VmOK, InOnePlace
    <3> QED BY <3>1, <3>2
  <2>2. \A j \in DOMAIN vm.pool[q].cache : vm.pool[q].cache[j] # c
    BY <2>1, ToSetFacts
  <2> QED BY <2>2 DEF Places
<1>5. CachedIn(c) = {<<p, i>>}
  <2>1. ASSUME NEW x \in CachedIn(c) PROVE x = <<p, i>>
    <3>1. PICK q \in PoolIds : vm.pool[q] # None /\ x \in {q} \X Places(q, c)
      BY <2>1 DEF CachedIn
    <3>2. q = p
      BY <1>4, <3>1
    <3> QED BY <1>3, <3>1, <3>2
  <2>2. <<p, i>> \in CachedIn(c)
    BY <1>1, <1>3 DEF CachedIn
  <2> QED BY <2>1, <2>2
<1> QED BY <1>5

LEMMA NotCached ==
    ASSUME NEW H, VmOK(vm, H), NEW c, \A p \in PoolIds : c \notin Idle(vm, p)
    PROVE  CachedIn(c) = {}
<1>1. ASSUME NEW p \in PoolIds, vm.pool[p] # None PROVE Places(p, c) = {}
  <2>1. c \notin ToSet(vm.pool[p].cache) /\ vm.pool[p].cache \in Seq(Conns)
    BY <1>1 DEF VmOK, Idle, VM, Pool
  <2>2. \A j \in DOMAIN vm.pool[p].cache : vm.pool[p].cache[j] # c
    BY <2>1, ToSetFacts
  <2> QED BY <2>2 DEF Places
<1> QED BY <1>1 DEF CachedIn

\* An open connection has one owner, a socket or one item of one pool, and a
\* closed one has none: nothing that connects, files, evicts, times out or kills
\* threads gives a connection to two requests, leaks one, or keeps one in a pool
\* after it was closed.  It holds after a connection was misfiled, too.
THEOREM ConnectionsOwned == Spec => []OneOwner
<1>1. ASSUME Owned PROVE OneOwner
  <2> SUFFICES ASSUME NEW c \in Conns
               PROVE  Cardinality(HeldBy(c)) + Cardinality(CachedIn(c))
                      = IF vm.conn[c] = None THEN 0 ELSE 1
    BY DEF OneOwner
  <2>1. /\ VmOK(vm, Held)
        /\ vm.conn[c] # None <=> c \in Held \/ \E p \in PoolIds : c \in Idle(vm, p)
        /\ \A p \in PoolIds : c \in Idle(vm, p) => c \notin Held
    BY <1>1 DEF Owned, VmOK, InOnePlace
  <2>2. c \notin Held => HeldBy(c) = {}
    BY DEF HeldBy, Held
  <2>3. Cardinality({}) = 0 /\ \A x : Cardinality({x}) = 1
    BY FS_EmptySet, FS_Singleton
  <2>4. CASE c \in Held
    <3>1. PICK s \in Sockets : sock[s].conn = c
      BY <2>4 DEF Held
    <3>2. HeldBy(c) = {s}
      BY <1>1, <3>1 DEF HeldBy, Owned, SocketsOK
    <3>3. CachedIn(c) = {}
      BY <2>1, <2>4, NotCached
    <3>4. Cardinality(HeldBy(c)) = 1 /\ Cardinality(CachedIn(c)) = 0
      BY <2>3, <3>2, <3>3
    <3>5. vm.conn[c] # None
      BY <2>1, <2>4
    <3> QED BY <3>4, <3>5
  <2>5. CASE c \notin Held /\ \E p \in PoolIds : c \in Idle(vm, p)
    <3>1. PICK p \in PoolIds : c \in Idle(vm, p)
      BY <2>5
    <3>2. PICK i : CachedIn(c) = {<<p, i>>}
      BY <2>1, <3>1, CachedOnce
    <3>4. Cardinality(HeldBy(c)) = 0 /\ Cardinality(CachedIn(c)) = 1
      BY <2>2, <2>3, <2>5, <3>2
    <3>5. vm.conn[c] # None
      BY <2>1, <3>1
    <3> QED BY <3>4, <3>5
  <2>6. CASE c \notin Held /\ ~\E p \in PoolIds : c \in Idle(vm, p)
    <3>1. CachedIn(c) = {}
      BY <2>1, <2>6, NotCached
    <3>4. Cardinality(HeldBy(c)) = 0 /\ Cardinality(CachedIn(c)) = 0
      BY <2>2, <2>3, <2>6, <3>1
    <3>5. vm.conn[c] = None
      BY <2>1, <2>6
    <3> QED BY <3>4, <3>5
  <2> QED BY <2>4, <2>5, <2>6
<1> QED BY <1>1, OwnedAlways, PTL

----------------------------------------------------------------------------
(* Every piece keeps the counts of pools.                                  *)

\* The pool q is not concerned.
Aside(v, w, q) ==
    /\ w.pool[q] = v.pool[q]
    /\ v.pool[q] # None => (w.registry[v.pool[q].key] = q <=> v.registry[v.pool[q].key] = q)
    /\ \A c \in Idle(v, q) : w.conn[c].home = v.conn[c].home

LEMMA AsideAgrees ==
    ASSUME NEW v, NEW w, NEW q, Aside(v, w, q), NEW n, NEW x, Agrees(v, q, n, x)
    PROVE  Agrees(w, q, n, x)
<1>1. Listed(w, q) <=> Listed(v, q)
  BY DEF Aside, Listed
<1>2. Idle(w, q) = Idle(v, q)
  BY DEF Aside, Idle
<1> QED BY <1>1, <1>2 DEF Aside, Agrees

\* Connections in G, and pools, keep where they belong.
Steady(v, w, G) ==
    /\ \A c \in G : w.conn[c].home = v.conn[c].home
    /\ \A p \in PoolIds : v.pool[p] # None => w.pool[p] # None /\ w.pool[p].key = v.pool[p].key

LEMMA SteadyTwice ==
    ASSUME NEW v, NEW w, NEW t, NEW G, Steady(v, t, G), Steady(t, w, G)
    PROVE  Steady(v, w, G)
  BY DEF Steady

LEMMA CloseAside ==
    ASSUME NEW v, NEW H, VmOK(v, H), NEW c \in H
    PROVE  /\ \A q \in PoolIds : Aside(v, CloseConnection(v, c), q)
           /\ Steady(v, CloseConnection(v, c), H \ {c})
<1> PICK w : w = CloseConnection(v, c)
  OBVIOUS
<1>1. /\ w.pool = v.pool /\ w.registry = v.registry
      /\ \A d \in Conns : w.conn[d] = IF d = c THEN None ELSE v.conn[d]
  BY CloseConnectionFacts DEF VmOK
<1>2. \A q \in PoolIds : Idle(v, q) \subseteq Conns /\ c \notin Idle(v, q)
  <2>1. ASSUME NEW q \in PoolIds, v.pool[q] # None PROVE Idle(v, q) \subseteq Conns
    BY <2>1, PoolTypes, ToSetFacts DEF VmOK
  <2>2. \A q \in PoolIds : c \notin Idle(v, q)
    BY DEF VmOK, InOnePlace
  <2> QED BY <2>1, <2>2 DEF Idle
<1>3. \A q \in PoolIds : Aside(v, w, q)
  BY <1>1, <1>2 DEF Aside
<1>4. Steady(v, w, H \ {c})
  BY <1>1 DEF Steady, VmOK
<1> QED BY <1>3, <1>4

LEMMA DropAgrees ==
    ASSUME NEW v \in VM, NEW p \in PoolIds, Listed(v, p), NEW n \in Nat, NEW m, m = n + 1,
           NEW x, Agrees(v, p, m, x), NEW w, Dropped(v, p, w)
    PROVE  /\ Agrees(w, p, n, x) /\ \A q \in PoolIds \ {p} : Aside(v, w, q)
           /\ \A G : Steady(v, w, G)
<1> DEFINE k == v.pool[p].key
<1>1. v.pool[p] # None /\ v.registry[k] = p
  BY DEF Listed
<1>2. PICK a \in Int, l \in Nat : a = v.pool[p].active /\ l = Len(v.pool[p].cache)
  BY <1>1, PoolTypes
<1>3. a = l + m /\ a > 0 /\ k \in Keys
  BY <1>1, <1>2, PoolTypes DEF Agrees
<1>4. /\ w.conn = v.conn /\ w.pool[p] # None /\ w.pool[p].key = k
      /\ w.pool[p].cache = v.pool[p].cache /\ w.pool[p].active = a - 1
      /\ \A q \in PoolIds \ {p} : w.pool[q] = v.pool[q]
      /\ \A j \in Keys : w.registry[j] = IF j = k /\ a = 1 THEN None ELSE v.registry[j]
  BY <1>2 DEF Dropped
<1>5. Idle(w, p) = Idle(v, p)
  BY <1>1, <1>4 DEF Idle
<1>6. Listed(w, p) <=> a # 1
  BY <1>1, <1>3, <1>4 DEF Listed
<1>7. a = 1 => n = 0 /\ v.pool[p].cache = <<>>
  <2>1. a = 1 => n = 0 /\ l = 0
    BY <1>3
  <2> QED BY <1>1, <1>2, <2>1, PoolTypes
<1>8. a # 1 => a - 1 = l + n /\ a - 1 > 0
  BY <1>3
<1>9. \A c \in Idle(w, p) : w.conn[c].home = w.pool[p].key
  BY <1>4, <1>5 DEF Agrees
<1>10. Agrees(w, p, n, x)
  <2> HIDE DEF k
  <2>1. Listed(w, p) => w.pool[p].active = Len(w.pool[p].cache) + n /\ w.pool[p].active > 0
    BY <1>2, <1>4, <1>6, <1>8
  <2>2. ~Listed(w, p) => n = 0 /\ w.pool[p].cache = <<>>
    BY <1>4, <1>6, <1>7
  <2> QED BY <1>9, <2>1, <2>2 DEF Agrees
<1>11. ASSUME NEW q \in PoolIds \ {p} PROVE Aside(v, w, q)
  <2>1. v.pool[q] # None => v.pool[q].key \in Keys
    BY PoolTypes
  <2>2. v.pool[q] # None => (w.registry[v.pool[q].key] = q <=> v.registry[v.pool[q].key] = q)
    BY <1>1, <1>4, <2>1
  <2> QED BY <1>4, <2>2 DEF Aside
<1>12. \A G : Steady(v, w, G)
  BY <1>4 DEF Steady
<1> QED BY <1>10, <1>11, <1>12

LEMMA HandlerAgrees ==
    ASSUME NEW v, NEW H, VmOK(v, H), NEW p \in PoolIds, NEW c \in Idle(v, p),
           NEW n, NEW x, Agrees(v, p, n, x)
    PROVE  /\ Agrees(CloseHandler(v, p, c), p, n, x)
           /\ \A q \in PoolIds \ {p} : Aside(v, CloseHandler(v, p, c), q)
           /\ Steady(v, CloseHandler(v, p, c), H)
<1> PICK w : w = CloseHandler(v, p, c)
  OBVIOUS
<1> DEFINE k == v.pool[p].key
<1>1. v \in VM /\ v.pool[p] # None /\ NoDup(v.pool[p].cache) /\ c \in ToSet(v.pool[p].cache)
  BY DEF VmOK, InOnePlace, Idle
<1>2. PICK a \in Int, l \in Nat : a = v.pool[p].active /\ l = Len(v.pool[p].cache)
  BY <1>1, PoolTypes
<1>3. /\ k \in Keys /\ Idle(v, p) = ToSet(v.pool[p].cache) /\ Idle(v, p) \subseteq Conns
      /\ v.pool[p].cache # <<>> /\ l # 0
  <2>1. v.pool[p].cache \in Seq(Conns)
    BY <1>1, PoolTypes
  <2>2. v.pool[p].cache # <<>> /\ ToSet(v.pool[p].cache) \subseteq Conns
    BY <1>1, <2>1, ToSetFacts
  <2> QED BY <1>1, <1>2, <2>2, PoolTypes
<1>4. Unfiled(v, p, c, w)
  BY <1>1, <1>3, CloseHandlerFacts
<1>5. /\ w.pool[p] # None /\ w.pool[p].key = k /\ w.pool[p].active = a - 1
      /\ Len(w.pool[p].cache) = l - 1 /\ ToSet(w.pool[p].cache) = ToSet(v.pool[p].cache) \ {c}
      /\ \A d \in Conns : w.conn[d] = IF d = c THEN None ELSE v.conn[d]
      /\ \A q \in PoolIds \ {p} : w.pool[q] = v.pool[q]
      /\ \A j \in Keys : w.registry[j] = IF j = k /\ a = 1 THEN None ELSE v.registry[j]
      /\ w \in VM
  BY <1>2, <1>4 DEF Unfiled
<1>6. w.pool[p].cache = <<>> <=> l - 1 = 0
  BY <1>5, PoolTypes
<1>7. \A d \in Idle(w, p) : w.conn[d].home = w.pool[p].key
  BY <1>3, <1>5 DEF Idle, Agrees
<1>8. ASSUME Listed(v, p) PROVE Agrees(w, p, n, x)
  <2>1. n \in Nat /\ a = l + n /\ a > 0 /\ v.registry[k] = p
    BY <1>2, <1>8 DEF Agrees, Listed
  <2>2. Listed(w, p) <=> a # 1
    BY <1>3, <1>5, <2>1 DEF Listed
  <2>3. a = 1 => n = 0 /\ l - 1 = 0
    BY <1>3, <2>1
  <2>4. a # 1 => a - 1 = (l - 1) + n /\ a - 1 > 0
    BY <2>1
  <2>5. Agrees(w, p, n, x)
    <3> HIDE DEF k
    <3>1. Listed(w, p) => w.pool[p].active = Len(w.pool[p].cache) + n /\ w.pool[p].active > 0
      BY <1>5, <2>2, <2>4
    <3>2. ~Listed(w, p) => n = 0 /\ w.pool[p].cache = <<>>
      BY <1>6, <2>2, <2>3
    <3> QED BY <1>7, <2>1, <3>1, <3>2 DEF Agrees
  <2> QED BY <2>5
<1>9. ASSUME ~Listed(v, p) PROVE Agrees(w, p, n, x)
  <2>1. n = 0 /\ n \in Nat /\ x /\ a > l
    BY <1>1, <1>2, <1>3, <1>9 DEF Agrees
  <2>2. a # 1 /\ a - 1 > l - 1
    BY <1>3, <2>1
  <2>3. ~Listed(w, p)
    BY <1>1, <1>3, <1>5, <1>9, <2>2 DEF Listed
  <2>4. Agrees(w, p, n, x)
    <3> HIDE DEF k
    <3>1. w.pool[p].active > Len(w.pool[p].cache)
      BY <1>5, <2>2
    <3>2. x /\ n \in Nat /\ n = 0
      BY <2>1
    <3> QED BY <1>7, <2>3, <3>1, <3>2, Zenon DEF Agrees
  <2> QED BY <2>4
<1>10. Agrees(w, p, n, x) /\ (a = 1 => \A q \in PoolIds \ {p} : v.registry[k] # q)
  <2>1. CASE Listed(v, p)
    BY <1>8, <2>1 DEF Listed
  <2>2. CASE ~Listed(v, p)
    <3>1. a > l
      BY <1>1, <1>2, <1>3, <2>2 DEF Agrees
    <3>2. a # 1
      BY <1>2, <1>3, <3>1
    <3> QED BY <1>9, <2>2, <3>2
  <2> QED BY <2>1, <2>2
<1>11. ASSUME NEW q \in PoolIds \ {p} PROVE Aside(v, w, q)
  <2>1. v.pool[q] # None => v.pool[q].key \in Keys
    BY <1>1, PoolTypes
  <2>2. v.pool[q] # None => (w.registry[v.pool[q].key] = q <=> v.registry[v.pool[q].key] = q)
    BY <1>5, <1>10, <2>1
  <2>3. \A d \in Idle(v, q) : d # c /\ d \in Conns
    <3>1. c \notin Idle(v, q)
      BY DEF VmOK, InOnePlace
    <3>2. CASE v.pool[q] # None
      BY <1>1, <3>1, <3>2, PoolTypes, ToSetFacts
    <3> QED BY <3>2 DEF Idle
  <2> QED BY <1>5, <2>2, <2>3 DEF Aside
<1>12. Steady(v, w, H)
  <2>1. c \notin H /\ H \subseteq Conns
    BY DEF VmOK, InOnePlace
  <2> QED BY <1>5, <2>1 DEF Steady
<1> QED BY <1>10, <1>11, <1>12

\* Where only the items of p, its count and some connections change.
LEMMA OthersAside ==
    ASSUME NEW v, NEW H, VmOK(v, H), NEW p \in PoolIds, v.pool[p] # None, NEW w,
           w.pool[p] # None, w.pool[p].key = v.pool[p].key,
           \A q \in PoolIds \ {p} : w.pool[q] = v.pool[q], w.registry = v.registry,
           \A d \in Conns : d \notin Idle(v, p) \cup H => w.conn[d] = v.conn[d]
    PROVE  /\ \A q \in PoolIds \ {p} : Aside(v, w, q)
           /\ \A G : (\A d \in G : w.conn[d].home = v.conn[d].home) => Steady(v, w, G)
<1>1. ASSUME NEW q \in PoolIds \ {p} PROVE Aside(v, w, q)
  <2>1. \A d \in Idle(v, q) : d \in Conns /\ d \notin Idle(v, p) \cup H
    <3>1. CASE v.pool[q] # None
      <4>1. \A d \in Idle(v, q) : d \in Conns
        BY <3>1, PoolTypes, ToSetFacts DEF VmOK
      <4> QED BY <4>1 DEF VmOK, InOnePlace
    <3> QED BY <3>1 DEF Idle
  <2> QED BY <2>1 DEF Aside
<1>2. \A q \in PoolIds : v.pool[q] # None => w.pool[q] # None /\ w.pool[q].key = v.pool[q].key
  OBVIOUS
<1> QED BY <1>1, <1>2 DEF Steady

LEMMA ReuseAgrees ==
    ASSUME NEW v, NEW H, VmOK(v, H), NEW p \in PoolIds, Listed(v, p), v.pool[p].cache # <<>>,
           NEW n \in Nat, NEW x, Agrees(v, p, n, x), NEW m, m = n + 1
    PROVE  /\ Agrees(Reuse(v, p), p, m, x)
           /\ \A q \in PoolIds \ {p} : Aside(v, Reuse(v, p), q)
           /\ Steady(v, Reuse(v, p), H)
           /\ Reuse(v, p).conn[Head(v.pool[p].cache)].home = v.pool[p].key
           /\ Reuse(v, p).pool[p].key = v.pool[p].key
<1> PICK w, c : w = Reuse(v, p) /\ c = Head(v.pool[p].cache)
  OBVIOUS
<1>1. v \in VM /\ v.pool[p] # None /\ NoDup(v.pool[p].cache) /\ c \in Idle(v, p)
      /\ H \subseteq Conns
  <2>1. v \in VM /\ v.pool[p] # None /\ NoDup(v.pool[p].cache) /\ H \subseteq Conns
    BY DEF VmOK, InOnePlace, Listed
  <2>2. c \in Idle(v, p)
    BY <2>1, ReuseKeeps
  <2> QED BY <2>1, <2>2
<1>2. PICK a \in Int, l \in Nat : a = v.pool[p].active /\ l = Len(v.pool[p].cache)
  BY <1>1, PoolTypes
<1>3. Idle(v, p) = ToSet(v.pool[p].cache) /\ Idle(v, p) \subseteq Conns
  BY <1>1, PoolTypes, ToSetFacts
<1>4. v.conn[c] # None
  BY <1>1, <1>3 DEF VmOK, InOnePlace
<1>5. Reused(v, p, w)
  BY <1>1, <1>4, ReuseFacts
<1>6. /\ w.pool[p] # None /\ w.pool[p].key = v.pool[p].key /\ w.pool[p].active = a
      /\ Len(w.pool[p].cache) = l - 1 /\ ToSet(w.pool[p].cache) = ToSet(v.pool[p].cache) \ {c}
      /\ w.conn[c] # None /\ w.conn[c].home = v.conn[c].home
      /\ \A d \in Conns \ {c} : w.conn[d] = v.conn[d]
      /\ \A q \in PoolIds \ {p} : w.pool[q] = v.pool[q]
      /\ w.registry = v.registry
  BY <1>2, <1>5 DEF Reused
<1>7. \A d \in Conns : w.conn[d].home = v.conn[d].home
  BY <1>6
<1>8. Idle(w, p) \subseteq Idle(v, p)
  BY <1>3, <1>6 DEF Idle
<1>9. \A d \in Idle(v, p) : v.conn[d].home = v.pool[p].key
  BY DEF Agrees
<1>10. a = l + n /\ a > 0 /\ Listed(w, p)
  BY <1>2, <1>6 DEF Agrees, Listed
<1>11. w.pool[p].active = Len(w.pool[p].cache) + m /\ w.pool[p].active > 0 /\ m \in Nat
  BY <1>6, <1>10
<1>12. \A d \in Idle(w, p) : w.conn[d].home = w.pool[p].key
  BY <1>3, <1>6, <1>7, <1>8, <1>9
<1>13. Agrees(w, p, m, x)
  BY <1>10, <1>11, <1>12 DEF Agrees
<1>14. /\ \A q \in PoolIds \ {p} : Aside(v, w, q)
       /\ \A G : (\A d \in G : w.conn[d].home = v.conn[d].home) => Steady(v, w, G)
  <2>1. \A d \in Conns : d \notin Idle(v, p) \cup H => w.conn[d] = v.conn[d]
    BY <1>1, <1>6
  <2>2. /\ v.pool[p] # None /\ w.pool[p] # None /\ w.pool[p].key = v.pool[p].key
        /\ \A q \in PoolIds \ {p} : w.pool[q] = v.pool[q]
        /\ w.registry = v.registry
    BY <1>1, <1>6
  <2> QED BY <2>1, <2>2, OthersAside
<1>15. Steady(v, w, H)
  BY <1>1, <1>7, <1>14
<1> QED BY <1>1, <1>6, <1>9, <1>13, <1>14, <1>15

LEMMA FileAgrees ==
    ASSUME NEW v, NEW H, VmOK(v, H), NEW p \in PoolIds, Listed(v, p), NEW u, u.conn \in H,
           NEW timer \in BOOLEAN, NEW n \in Nat, NEW x,
           v.pool[p].active = Len(v.pool[p].cache) + n,
           \A c \in Idle(v, p) : v.conn[c].home = v.pool[p].key,
           v.conn[u.conn].home = v.pool[p].key,
           NEW m \in Nat, IF u.reused THEN n = m + 1 ELSE n = m
    PROVE  /\ Agrees(File(v, p, u, timer), p, m, x)
           /\ \A q \in PoolIds \ {p} : Aside(v, File(v, p, u, timer), q)
           /\ Steady(v, File(v, p, u, timer), H \ {u.conn})
<1> PICK w, c, last : w = File(v, p, u, timer) /\ c = u.conn /\ last = Last(v.pool[p].cache)
  OBVIOUS
<1>1. /\ v \in VM /\ v.pool[p] # None /\ v.registry[v.pool[p].key] = p
      /\ H \subseteq Conns /\ c \in Conns /\ H \cap Idle(v, p) = {}
  BY DEF VmOK, InOnePlace, Listed
<1>2. PICK a \in Int, l \in Nat, f \in Nat :
         a = v.pool[p].active /\ l = Len(v.pool[p].cache) /\ f = v.pool[p].free
  BY <1>1, PoolTypes
<1>3. /\ Idle(v, p) = ToSet(v.pool[p].cache) /\ Idle(v, p) \subseteq Conns
      /\ f = 0 => l # 0
  <2>1. Idle(v, p) = ToSet(v.pool[p].cache) /\ Idle(v, p) \subseteq Conns
    BY <1>1, PoolTypes, ToSetFacts
  <2>2. v.pool[p].size \in Sizes
    BY <1>1, PoolTypes DEF Pool
  <2>3. v.pool[p].size \in Nat \ {0}
    BY <2>2, Zenon
  <2>4. l + f = v.pool[p].size
    BY <1>1, <1>2, PoolTypes DEF VmOK, RegistryOK
  <2> QED BY <2>1, <2>3, <2>4
<1>4. Filed(v, p, u, w)
  BY <1>1, FileKeeps
<1>5. /\ w.pool[p] # None /\ w.pool[p].key = v.pool[p].key /\ w.registry = v.registry
      /\ w.conn[c] # None /\ w.conn[c].home = v.conn[c].home
      /\ \A q \in PoolIds \ {p} : w.pool[q] = v.pool[q]
  BY <1>1, <1>4 DEF Filed
<1>6. f = 0 => /\ last \in Idle(v, p)
               /\ ToSet(w.pool[p].cache) = (ToSet(v.pool[p].cache) \ {last}) \cup {c}
               /\ Len(w.pool[p].cache) = l /\ w.pool[p].active = a - 1 + CountIn(u)
               /\ \A d \in Conns \ {c} : w.conn[d] = IF d = last THEN None ELSE v.conn[d]
  BY <1>2, <1>3, <1>4 DEF Filed
<1>7. f # 0 => /\ ToSet(w.pool[p].cache) = ToSet(v.pool[p].cache) \cup {c}
               /\ Len(w.pool[p].cache) = l + 1 /\ w.pool[p].active = a + CountIn(u)
               /\ \A d \in Conns \ {c} : w.conn[d] = v.conn[d]
  BY <1>2, <1>4 DEF Filed
<1>8. w.pool[p].active = Len(w.pool[p].cache) + m /\ w.pool[p].active > 0
  <2>1. PICK i \in Int : i = CountIn(u)
    BY DEF CountIn
  <2>2. a = l + n /\ m = n - 1 + i
    BY <1>2, <2>1 DEF CountIn
  <2>3. f = 0 => a - 1 + i = l + m /\ a - 1 + i > 0
    BY <1>3, <2>2
  <2>4. f # 0 => a + i = (l + 1) + m /\ a + i > 0
    BY <2>2
  <2> QED BY <1>6, <1>7, <2>1, <2>3, <2>4
<1>9. \A d \in Idle(w, p) : w.conn[d].home = w.pool[p].key
  <2> SUFFICES ASSUME NEW d \in ToSet(w.pool[p].cache)
               PROVE  w.conn[d].home = v.pool[p].key
    BY <1>5 DEF Idle
  <2>1. CASE d = c
    BY <1>5, <2>1
  <2>2. CASE d # c
    <3>1. d \in Idle(v, p) /\ w.conn[d] = v.conn[d]
      BY <1>3, <1>6, <1>7, <2>2
    <3> QED BY <3>1
  <2> QED BY <2>1, <2>2
<1>10. Agrees(w, p, m, x)
  <2>1. Listed(w, p)
    BY <1>1, <1>5 DEF Listed
  <2> QED BY <1>8, <1>9, <2>1 DEF Agrees
<1>11. \A d \in Conns : d \notin Idle(v, p) \cup H => w.conn[d] = v.conn[d]
  BY <1>6, <1>7
<1>12. /\ \A q \in PoolIds \ {p} : Aside(v, w, q)
       /\ \A G : (\A d \in G : w.conn[d].home = v.conn[d].home) => Steady(v, w, G)
  BY <1>1, <1>5, <1>11, OthersAside
<1>13. \A d \in H \ {c} : w.conn[d] = v.conn[d]
  BY <1>1, <1>6, <1>7
<1>14. Steady(v, w, H \ {c})
  BY <1>12, <1>13
<1> QED BY <1>10, <1>12, <1>14

\* A new pool.
LEMMA NewPoolAside ==
    ASSUME NEW v, NEW H, VmOK(v, H), NEW p \in PoolIds, NEW k \in Keys, NEW size \in Sizes,
           v.pool[p] = None, v.registry[k] = None
    PROVE  /\ \A q \in PoolIds \ {p} : Aside(v, WithPool(v, p, k, size), q)
           /\ \A G : Steady(v, WithPool(v, p, k, size), G)
           /\ Listed(WithPool(v, p, k, size), p)
           /\ WithPool(v, p, k, size).pool[p].active = 0
           /\ WithPool(v, p, k, size).pool[p].cache = <<>>
<1> PICK w : w = WithPool(v, p, k, size)
  OBVIOUS
<1>1. v \in VM
  BY DEF VmOK
<1>2. /\ w.conn = v.conn /\ w.pool[p] = NewPool(k, size) /\ NewPool(k, size) \in Pool
      /\ \A q \in PoolIds \ {p} : w.pool[q] = v.pool[q]
      /\ \A l \in Keys : w.registry[l] = IF l = k THEN p ELSE v.registry[l]
  BY <1>1, NewPoolFacts
<1>3. NewPool(k, size).key = k /\ NewPool(k, size).active = 0 /\ NewPool(k, size).cache = <<>>
  BY DEF NewPool
<1>4. \A q \in PoolIds \ {p} : Aside(v, w, q)
  <2> SUFFICES ASSUME NEW q \in PoolIds \ {p}, v.pool[q] # None
               PROVE  w.registry[v.pool[q].key] = q <=> v.registry[v.pool[q].key] = q
    BY <1>2 DEF Aside
  <2>1. v.pool[q].key \in Keys
    BY <1>1, PoolTypes
  <2> QED BY <1>2, <2>1
<1>5. \A G : Steady(v, w, G)
  BY <1>2 DEF Steady
<1>6. Listed(w, p)
  BY <1>2, <1>3 DEF Listed
<1> QED BY <1>2, <1>3, <1>4, <1>5, <1>6

----------------------------------------------------------------------------
(* Every step keeps the counts of pools.                                   *)

\* Who borrows from p besides s.
Rest(s, p) == Borrowed(p) \ {s}

LEMMA RestFacts ==
    ASSUME NEW s \in Sockets, NEW p \in PoolIds, IsFiniteSet(Borrowed(p))
    PROVE  /\ IsFiniteSet(Rest(s, p)) /\ Cardinality(Rest(s, p)) \in Nat
           /\ Cardinality(Borrowed(p)) \in Nat
           /\ IF Borrows(sock[s], p) THEN Cardinality(Borrowed(p)) = Cardinality(Rest(s, p)) + 1
              ELSE Cardinality(Borrowed(p)) = Cardinality(Rest(s, p))
<1>1. s \in Borrowed(p) <=> Borrows(sock[s], p)
  BY DEF Borrowed, Borrows
<1>2. Cardinality(Borrowed(p)) \in Nat
  BY FS_CardinalityType
<1>3. /\ IsFiniteSet(Rest(s, p))
      /\ Cardinality(Rest(s, p)) = IF s \in Borrowed(p) THEN Cardinality(Borrowed(p)) - 1
                                   ELSE Cardinality(Borrowed(p))
  BY FS_RemoveElement DEF Rest
<1>4. Cardinality(Rest(s, p)) \in Nat
  BY <1>3, FS_CardinalityType
<1> QED BY <1>1, <1>2, <1>3, <1>4

LEMMA RestStep ==
    ASSUME SocketsOK, NEW s \in Sockets, NEW x, sock' = [sock EXCEPT ![s] = x],
           NEW p \in PoolIds, IsFiniteSet(Borrowed(p))
    PROVE  /\ IsFiniteSet(Borrowed(p)')
           /\ IF Borrows(x, p) THEN Cardinality(Borrowed(p)') = Cardinality(Rest(s, p)) + 1
              ELSE Cardinality(Borrowed(p)') = Cardinality(Rest(s, p))
<1>1. sock'[s] = x /\ \A t \in Sockets \ {s} : sock'[t] = sock[t]
  BY DEF SocketsOK
<1>2. IsFiniteSet(Rest(s, p)) /\ Cardinality(Rest(s, p)) \in Nat /\ s \notin Rest(s, p)
  BY RestFacts DEF Rest
<1>3. Borrowed(p)' = {t \in Sockets : Borrows(sock'[t], p)}
  BY DEF Borrowed, Borrows
<1>4. Rest(s, p) = {t \in Sockets \ {s} : Borrows(sock[t], p)}
  BY DEF Rest, Borrowed, Borrows
<1>5. CASE Borrows(x, p)
  <2>1. Borrowed(p)' = Rest(s, p) \cup {s}
    BY <1>1, <1>3, <1>4, <1>5
  <2>2. /\ IsFiniteSet(Rest(s, p) \cup {s})
        /\ Cardinality(Rest(s, p) \cup {s}) = Cardinality(Rest(s, p)) + 1
    BY <1>2, FS_AddElement
  <2> QED BY <1>5, <2>1, <2>2
<1>6. CASE ~Borrows(x, p)
  <2>1. Borrowed(p)' = Rest(s, p)
    BY <1>1, <1>3, <1>4, <1>6
  <2> QED BY <1>2, <1>6, <2>1
<1> QED BY <1>5, <1>6

\* A pool with borrowed connections is in the registry.
LEMMA LenderListed ==
    ASSUME CountsOK, NEW s \in Sockets, NEW p \in PoolIds, Borrows(sock[s], p)
    PROVE  Listed(vm, p) /\ vm.conn[sock[s].conn].home = vm.pool[p].key
<1>1. IsFiniteSet(Borrowed(p)) /\ Agrees(vm, p, Cardinality(Borrowed(p)), exiting)
  BY DEF CountsOK
<1>2. Cardinality(Borrowed(p)) # 0
  BY <1>1, RestFacts
<1> QED BY <1>1, <1>2 DEF Agrees, CountsOK

\* The connection of s is closed and counted out.
LEMMA FinalizeAgrees ==
    ASSUME Owned, CountsOK, NEW s \in Sockets
    PROVE  /\ \A p \in PoolIds : /\ Agrees(Finalize(vm, sock[s]), p, Cardinality(Rest(s, p)), exiting)
                                 /\ IsFiniteSet(Borrowed(p))
           /\ Steady(vm, Finalize(vm, sock[s]), Held \ {sock[s].conn})
<1> PICK u, v, w : u = sock[s] /\ v = vm /\ w = Finalize(vm, sock[s])
  OBVIOUS
<1> PICK x : x = exiting
  OBVIOUS
<1>1. \A p \in PoolIds : IsFiniteSet(Borrowed(p)) /\ Agrees(v, p, Cardinality(Borrowed(p)), x)
  BY DEF CountsOK
<1>2. SocketOK(u) /\ VmOK(v, Held) /\ v \in VM /\ u.conn \in Held \cup {None} /\ None \notin Held
  BY OwnedFacts DEF Held
<1>3. \A p \in PoolIds : ~Borrows(u, p) => Agrees(v, p, Cardinality(Rest(s, p)), x)
  BY <1>1, RestFacts
<1>4. CASE u.conn = None
  <2>1. w = v
    BY <1>4 DEF Finalize
  <2>2. \A p \in PoolIds : ~Borrows(u, p)
    BY <1>4 DEF Borrows
  <2>3. Steady(v, w, Held \ {u.conn})
    BY <2>1 DEF Steady
  <2> QED BY <1>1, <1>3, <2>1, <2>2, <2>3
<1>5. CASE u.conn # None
  <2> PICK t : t = CloseConnection(v, u.conn)
    OBVIOUS
  <2>1. /\ \A q \in PoolIds : Aside(v, t, q)
        /\ Steady(v, t, Held \ {u.conn})
    BY <1>2, <1>5, CloseAside
  <2>2. t \in VM /\ t.pool = v.pool /\ t.registry = v.registry
    BY <1>2, <1>5, CloseConnectionFacts DEF VmOK
  <2>3. CASE u.reused
    <3> PICK p \in PoolIds : p = u.pool
      BY <1>2, <2>3 DEF SocketOK
    <3>1. Borrows(u, p) /\ \A q \in PoolIds \ {p} : ~Borrows(u, q)
      BY <1>5, <2>3 DEF Borrows
    <3>2. Listed(v, p)
      BY <3>1, LenderListed
    <3>3. Listed(t, p) /\ t.pool[p] # None /\ v.pool[p] # None
      BY <2>2, <3>2 DEF Listed
    <3>4. w = DropActive(t, p)
      BY <1>5, <2>3, <3>3 DEF Finalize, NeverPooled
    <3>5. PICK n \in Nat, m \in Nat : n = Cardinality(Rest(s, p)) /\ m = Cardinality(Borrowed(p))
      BY <1>1, RestFacts
    <3>6. m = n + 1
      BY <1>1, <3>1, <3>5, RestFacts
    <3>7. Agrees(t, p, m, x)
      BY <1>1, <2>1, <3>5, AsideAgrees
    <3>8. Dropped(t, p, w)
      BY <2>2, <3>3, <3>4, DropActiveFacts
    <3>9. /\ Agrees(w, p, n, x) /\ \A q \in PoolIds \ {p} : Aside(t, w, q)
          /\ \A G : Steady(t, w, G)
      BY <2>2, <3>3, <3>6, <3>7, <3>8, DropAgrees
    <3>10. ASSUME NEW q \in PoolIds \ {p} PROVE Agrees(w, q, Cardinality(Rest(s, q)), x)
      <4>1. Agrees(v, q, Cardinality(Rest(s, q)), x)
        BY <1>3, <3>1
      <4>2. Agrees(t, q, Cardinality(Rest(s, q)), x)
        BY <2>1, <4>1, AsideAgrees
      <4> QED BY <3>9, <4>2, AsideAgrees
    <3>11. Steady(v, w, Held \ {u.conn})
      BY <2>1, <3>9, SteadyTwice
    <3> QED BY <1>1, <3>5, <3>9, <3>10, <3>11
  <2>4. CASE ~u.reused
    <3>1. w = t
      BY <1>5, <2>4 DEF Finalize, NeverPooled
    <3>2. \A p \in PoolIds : ~Borrows(u, p)
      BY <2>4 DEF Borrows
    <3>3. \A p \in PoolIds : Agrees(w, p, Cardinality(Rest(s, p)), x)
      BY <1>3, <2>1, <3>1, <3>2, AsideAgrees
    <3> QED BY <1>1, <2>1, <3>1, <3>3
  <2> QED BY <2>3, <2>4
<1> QED BY <1>4, <1>5

\* One socket changes, and the counts of pools with it.
Recount(s, x, w) ==
    /\ sock' = [sock EXCEPT ![s] = x] /\ vm' = w /\ Steady(vm, w, Held \ {sock[s].conn})
    /\ \A p \in PoolIds : Agrees(w, p, Cardinality(Borrowed(p)'), exiting')
    /\ \A p \in PoolIds : Borrows(x, p) => w.conn[x.conn].home = w.pool[p].key

LEMMA CountsStep ==
    ASSUME Owned, CountsOK, NEW s \in Sockets, NEW x, NEW w, Recount(s, x, w)
    PROVE  CountsOK'
<1> USE DEF Recount
<1>1. SocketsOK /\ sock'[s] = x /\ \A t \in Sockets \ {s} : sock'[t] = sock[t]
  BY DEF Owned, SocketsOK
<1>2. \A p \in PoolIds : IsFiniteSet(Borrowed(p)')
  BY <1>1, RestStep DEF CountsOK
<1>3. ASSUME NEW t \in Sockets, NEW p \in PoolIds, Borrows(sock'[t], p)
      PROVE  w.conn[sock'[t].conn].home = w.pool[p].key
  <2>1. CASE t = s
    BY <1>1, <1>3, <2>1
  <2>2. CASE t # s
    <3>1. sock'[t] = sock[t] /\ Borrows(sock[t], p)
      BY <1>1, <1>3, <2>2
    <3>2. Listed(vm, p) /\ vm.conn[sock[t].conn].home = vm.pool[p].key
      BY <3>1, LenderListed
    <3>3. sock[t].conn \in Held \ {sock[s].conn}
      BY <1>1, <2>2, <3>1 DEF Borrows, Held, SocketsOK
    <3> QED BY <3>1, <3>2, <3>3 DEF Steady, Listed
  <2> QED BY <2>1, <2>2
<1> QED BY <1>2, <1>3 DEF CountsOK

\* s has no connection any more.
LEMMA CountsLetGo ==
    ASSUME Owned, CountsOK, NEW s \in Sockets, NEW x, x.conn = None,
           sock' = [sock EXCEPT ![s] = x],
           NEW w, vm' = w, Steady(vm, w, Held \ {sock[s].conn}),
           \A p \in PoolIds : Agrees(w, p, Cardinality(Rest(s, p)), exiting')
    PROVE  CountsOK'
<1>1. \A p \in PoolIds : ~Borrows(x, p)
  BY DEF Borrows
<1>2. \A p \in PoolIds : Cardinality(Borrowed(p)') = Cardinality(Rest(s, p))
  <2>1. SocketsOK /\ \A p \in PoolIds : IsFiniteSet(Borrowed(p))
    BY DEF Owned, CountsOK
  <2> QED BY <1>1, <2>1, RestStep
<1>3. Recount(s, x, w)
  BY <1>1, <1>2 DEF Recount
<1> QED BY <1>3, CountsStep

\* s keeps its connection, and what it knows of where it came from.
LEMMA CountsRetold ==
    ASSUME Owned, CountsOK, NEW s \in Sockets, NEW x, sock' = [sock EXCEPT ![s] = x],
           x.conn = sock[s].conn, x.reused = sock[s].reused, x.pool = sock[s].pool,
           NEW w, vm' = w, Steady(vm, w, Held), \A p \in PoolIds : Aside(vm, w, p),
           exiting' = exiting
    PROVE  CountsOK'
<1>1. \A p \in PoolIds : Borrows(x, p) <=> Borrows(sock[s], p)
  BY DEF Borrows
<1>2. ASSUME NEW p \in PoolIds PROVE Agrees(w, p, Cardinality(Borrowed(p)'), exiting')
  <2>1. SocketsOK /\ IsFiniteSet(Borrowed(p)) /\ Agrees(vm, p, Cardinality(Borrowed(p)), exiting)
    BY DEF Owned, CountsOK
  <2>2. Cardinality(Borrowed(p)') = Cardinality(Borrowed(p))
    <3>1. IF Borrows(x, p) THEN Cardinality(Borrowed(p)') = Cardinality(Rest(s, p)) + 1
          ELSE Cardinality(Borrowed(p)') = Cardinality(Rest(s, p))
      BY <2>1, RestStep
    <3>2. IF Borrows(x, p) THEN Cardinality(Borrowed(p)) = Cardinality(Rest(s, p)) + 1
          ELSE Cardinality(Borrowed(p)) = Cardinality(Rest(s, p))
      BY <1>1, <2>1, RestFacts
    <3> QED BY <3>1, <3>2
  <2>3. Agrees(w, p, Cardinality(Borrowed(p)), exiting)
    BY <2>1, AsideAgrees
  <2> QED BY <2>2, <2>3
<1>3. ASSUME NEW p \in PoolIds, Borrows(x, p) PROVE w.conn[x.conn].home = w.pool[p].key
  <2>1. Listed(vm, p) /\ vm.conn[x.conn].home = vm.pool[p].key /\ x.conn \in Held
    BY <1>1, <1>3, LenderListed DEF Borrows, Held
  <2> QED BY <2>1 DEF Steady, Listed
<1>4. Steady(vm, w, Held \ {sock[s].conn})
  BY DEF Steady
<1>5. Recount(s, x, w)
  BY <1>2, <1>3, <1>4 DEF Recount
<1> QED BY <1>5, CountsStep

LEMMA FlaggedAside ==
    ASSUME NEW v, NEW H, VmOK(v, H), NEW w, Flagged(v, w)
    PROVE  (\A p \in PoolIds : Aside(v, w, p)) /\ Steady(v, w, H)
<1>1. \A p \in PoolIds : \A c \in Idle(v, p) : c \in Conns /\ v.conn[c] # None
  <2>1. ASSUME NEW p \in PoolIds, v.pool[p] # None PROVE Idle(v, p) \subseteq Conns
    BY <2>1, PoolTypes, ToSetFacts DEF VmOK
  <2> QED BY <2>1 DEF VmOK, InOnePlace, Idle
<1>2. \A c \in H : c \in Conns /\ v.conn[c] # None
  BY DEF VmOK, InOnePlace
<1>3. \A p \in PoolIds : Aside(v, w, p)
  BY <1>1 DEF Flagged, Aside
<1>4. Steady(v, w, H)
  BY <1>2 DEF Flagged, Steady
<1> QED BY <1>3, <1>4

LEMMA Unchanged ==
    ASSUME NEW v
    PROVE  (\A p \in PoolIds : Aside(v, v, p)) /\ \A G : Steady(v, v, G)
  BY DEF Aside, Steady

LEMMA ConnectCounts ==
    ASSUME Owned, CountsOK, NEW s \in Sockets, NEW k \in Keys, Connect(s, k)
    PROVE  CountsOK'
<1> PICK v : v = Finalize(vm, sock[s])
  OBVIOUS
<1> DEFINE G == Held \ {sock[s].conn}
<1>1. VmOK(v, G) /\ v \in VM /\ Connecting(s, k, v) /\ exiting' = exiting
  BY OwnedFacts, ConnectFacts DEF VmOK
<1>2. /\ \A p \in PoolIds : Agrees(v, p, Cardinality(Rest(s, p)), exiting) /\ IsFiniteSet(Borrowed(p))
      /\ Steady(vm, v, G)
  BY FinalizeAgrees
<1>3. ASSUME NEW p \in PoolIds, p = v.registry[k], v.pool[p].cache # <<>>, vm' = Reuse(v, p),
             sock' = [sock EXCEPT ![s] = Borrower(k, Head(v.pool[p].cache), p)]
      PROVE  CountsOK'
  <2>1. v.pool[p] # None /\ v.pool[p].key = k /\ Listed(v, p)
    BY <1>1, <1>3 DEF VmOK, RegistryOK, Listed
  <2> PICK c, x, w : c = Head(v.pool[p].cache) /\ x = Borrower(k, c, p) /\ w = Reuse(v, p)
    OBVIOUS
  <2>2. c \in Conns
    <3>1. c \in Idle(v, p)
      BY <1>1, <1>3, <2>1, ReuseKeeps
    <3> QED BY <1>1, <2>1, <3>1, PoolTypes, ToSetFacts
  <2>3. x.conn = c /\ x.reused = TRUE /\ x.pool = p
    BY DEF Borrower, Wanting, Closed
  <2>4. PICK n \in Nat : n = Cardinality(Rest(s, p))
    BY <1>2, RestFacts
  <2>5. PICK m \in Nat : m = n + 1
    OBVIOUS
  <2>6. /\ Agrees(w, p, m, exiting) /\ \A q \in PoolIds \ {p} : Aside(v, w, q)
        /\ Steady(v, w, G) /\ w.conn[c].home = w.pool[p].key
    <3>1. Agrees(v, p, n, exiting)
      BY <1>2, <2>4
    <3>2. VmOK(v, G) /\ Listed(v, p) /\ v.pool[p].cache # <<>> /\ v.pool[p].key = k
      BY <1>1, <1>3, <2>1
    <3> HIDE DEF G
    <3>3. /\ Agrees(Reuse(v, p), p, m, exiting)
          /\ \A q \in PoolIds \ {p} : Aside(v, Reuse(v, p), q)
          /\ Steady(v, Reuse(v, p), G)
      BY <2>5, <3>1, <3>2, ReuseAgrees
    <3>4. Reuse(v, p).conn[Head(v.pool[p].cache)].home = v.pool[p].key
          /\ Reuse(v, p).pool[p].key = v.pool[p].key
      BY <2>5, <3>1, <3>2, ReuseAgrees
    <3> QED BY <3>3, <3>4
  <2>7. /\ Borrows(x, p) /\ \A q \in PoolIds \ {p} : ~Borrows(x, q)
        /\ sock' = [sock EXCEPT ![s] = x] /\ SocketsOK
    BY <1>3, <2>2, <2>3 DEF Borrows, Owned
  <2>8. /\ Cardinality(Borrowed(p)') = m
        /\ \A q \in PoolIds \ {p} : Cardinality(Borrowed(q)') = Cardinality(Rest(s, q))
    BY <1>2, <2>4, <2>5, <2>7, RestStep
  <2>9. \A q \in PoolIds : Agrees(w, q, Cardinality(Borrowed(q)'), exiting')
    <3>1. \A q \in PoolIds \ {p} : Agrees(w, q, Cardinality(Rest(s, q)), exiting)
      BY <1>2, <2>6, AsideAgrees
    <3> QED BY <1>1, <2>6, <2>8, <3>1
  <2>10. Steady(vm, w, G)
    BY <1>2, <2>6, SteadyTwice
  <2>11. \A q \in PoolIds : Borrows(x, q) => w.conn[x.conn].home = w.pool[q].key
    BY <2>3, <2>6, <2>7
  <2>12. Recount(s, x, w)
    BY <1>3, <2>7, <2>9, <2>10, <2>11 DEF Recount
  <2> QED BY <2>12, CountsStep
<1>4. ASSUME vm' = v,
             sock' = [sock EXCEPT ![s] = [Wanting(k) EXCEPT !.waiting = "connecting"]]
      PROVE  CountsOK'
  <2> PICK x : x = [Wanting(k) EXCEPT !.waiting = "connecting"]
    OBVIOUS
  <2>1. x.conn = None
    BY WantingFacts
  <2> QED BY <1>1, <1>2, <1>4, <2>1, CountsLetGo
<1> QED BY <1>1, <1>3, <1>4 DEF Connecting

LEMMA CallCounts ==
    ASSUME Owned, CountsOK, NEW s \in Sockets,
           \/ \E k \in Keys : ConnectRefused(s, k)
           \/ \E c \in Conns : Connected(s, c)
           \/ ConnectFailed(s) \/ Wait(s) \/ WaitDone(s) \/ KillWaiting(s) \/ Close(s) \/ Destroy(s)
    PROVE  CountsOK'
<1> PICK u : u = sock[s]
  OBVIOUS
<1>1. SocketOK(u) /\ u \in Socket /\ vm \in VM /\ VmOK(vm, Held) /\ sock \in [Sockets -> Socket]
  BY OwnedFacts DEF Owned, SocketsOK
<1>2. ASSUME NEW k \in Keys, ConnectRefused(s, k) PROVE CountsOK'
  <2> PICK x : x = [u EXCEPT !.key = k]
    OBVIOUS
  <2>1. sock' = [sock EXCEPT ![s] = x] /\ vm' = vm /\ exiting' = exiting
    BY <1>1, <1>2 DEF ConnectRefused
  <2>2. x.conn = u.conn /\ x.reused = u.reused /\ x.pool = u.pool
    BY <1>1 DEF Socket
  <2> QED BY <2>1, <2>2, Unchanged, CountsRetold
<1>3. ASSUME NEW c \in Conns, Connected(s, c) PROVE CountsOK'
  <2> PICK x, d : /\ x = [u EXCEPT !.conn = c, !.waiting = "no"]
                  /\ d = [home |-> u.target, hot |-> FALSE, timer |-> FALSE]
    OBVIOUS
  <2> PICK w : w = [vm EXCEPT !.conn[c] = d]
    OBVIOUS
  <2>1. sock' = [sock EXCEPT ![s] = x] /\ vm' = w /\ exiting' = exiting /\ vm.conn[c] = None
    BY <1>1, <1>3 DEF Connected
  <2>2. u.conn = None /\ ~u.reused
    BY <1>1, <1>3 DEF Connected, SocketOK
  <2>3. x.reused = u.reused
    BY <1>1 DEF Socket
  <2>4. \A p \in PoolIds : ~Borrows(u, p) /\ ~Borrows(x, p)
    BY <2>2, <2>3 DEF Borrows
  <2>5. /\ w.pool = vm.pool /\ w.registry = vm.registry
        /\ \A e \in Conns \ {c} : w.conn[e] = vm.conn[e]
    BY <1>1 DEF VM
  <2>6. c \notin Held /\ Held \subseteq Conns
        /\ \A p \in PoolIds : \A e \in Idle(vm, p) : e \in Conns /\ e # c
    <3>1. ASSUME NEW p \in PoolIds, vm.pool[p] # None PROVE Idle(vm, p) \subseteq Conns
      BY <1>1, <3>1, PoolTypes, ToSetFacts
    <3> QED BY <1>1, <2>1, <3>1 DEF VmOK, InOnePlace, Idle
  <2>7. \A p \in PoolIds : Aside(vm, w, p)
    BY <2>5, <2>6 DEF Aside
  <2>8. Steady(vm, w, Held \ {sock[s].conn})
    BY <2>5, <2>6 DEF Steady
  <2>9. ASSUME NEW p \in PoolIds PROVE Agrees(w, p, Cardinality(Borrowed(p)'), exiting')
    <3>1. SocketsOK /\ IsFiniteSet(Borrowed(p)) /\ Agrees(vm, p, Cardinality(Borrowed(p)), exiting)
      BY DEF Owned, CountsOK
    <3>2. Cardinality(Borrowed(p)') = Cardinality(Rest(s, p))
      BY <2>1, <2>4, <3>1, RestStep
    <3>3. Cardinality(Borrowed(p)) = Cardinality(Rest(s, p))
      BY <2>4, <3>1, RestFacts
    <3> QED BY <2>1, <2>7, <3>1, <3>2, <3>3, AsideAgrees
  <2>10. Recount(s, x, w)
    BY <2>1, <2>4, <2>8, <2>9 DEF Recount
  <2> QED BY <2>10, CountsStep
<1>4. CASE ConnectFailed(s)
  <2>1. sock' = [sock EXCEPT ![s] = Closed] /\ vm' = vm /\ exiting' = exiting
    BY <1>4 DEF ConnectFailed
  <2>2. u.conn = None
    BY <1>1, <1>4 DEF ConnectFailed, SocketOK
  <2>3. vm = Finalize(vm, u)
    BY <2>2 DEF Finalize
  <2>4. /\ \A p \in PoolIds : Agrees(vm, p, Cardinality(Rest(s, p)), exiting)
        /\ Steady(vm, vm, Held \ {u.conn})
    BY <2>3, FinalizeAgrees
  <2> QED BY <2>1, <2>4, ClosedFacts, CountsLetGo
<1>5. CASE Wait(s)
  <2> PICK x : x = [u EXCEPT !.waiting = "io"]
    OBVIOUS
  <2>1. sock' = [sock EXCEPT ![s] = x] /\ vm' = vm /\ exiting' = exiting
    BY <1>5 DEF Wait
  <2>2. x.conn = u.conn /\ x.reused = u.reused /\ x.pool = u.pool
    BY <1>1 DEF Socket
  <2> QED BY <2>1, <2>2, Unchanged, CountsRetold
<1>6. CASE WaitDone(s)
  <2>1. \E x : /\ x.conn = u.conn /\ x.reused = u.reused /\ x.pool = u.pool
               /\ sock' = [sock EXCEPT ![s] = x]
    <3> DEFINE x == [u EXCEPT !.waiting = "no"]
               y == [u EXCEPT !.waiting = "no", !.half = TRUE]
    <3>1. /\ x.conn = u.conn /\ x.reused = u.reused /\ x.pool = u.pool
          /\ y.conn = u.conn /\ y.reused = u.reused /\ y.pool = u.pool
      BY <1>1 DEF Socket
    <3>2. sock' = [sock EXCEPT ![s] = x] \/ sock' = [sock EXCEPT ![s] = y]
      BY <1>1, <1>6 DEF WaitDone
    <3> HIDE DEF x, y
    <3> QED BY <3>1, <3>2
  <2>2. (\A p \in PoolIds : Aside(vm, vm', p)) /\ Steady(vm, vm', Held) /\ exiting' = exiting
    <3>1. u.conn # None /\ u.conn \in Conns
      BY <1>1, <1>6, OwnedFacts DEF WaitDone, SocketOK
    <3>2. vm.conn[u.conn] # None
      <4>1. u.conn \in Held
        BY <3>1 DEF Held
      <4> QED BY <1>1, <3>1, <4>1 DEF VmOK, InOnePlace
    <3>3. vm' = vm \/ vm' = [vm EXCEPT !.conn[u.conn].hot = FALSE]
      BY <1>6 DEF WaitDone
    <3>4. CASE vm' = vm
      BY <1>6, <3>4, Unchanged DEF WaitDone
    <3>5. CASE vm' = [vm EXCEPT !.conn[u.conn].hot = FALSE]
      <4>1. Flagged(vm, vm')
        BY <1>1, <3>1, <3>2, <3>5, HotFacts
      <4> QED BY <1>1, <1>6, <4>1, FlaggedAside DEF WaitDone
    <3> QED BY <3>3, <3>4, <3>5
  <2> QED BY <2>1, <2>2, CountsRetold
<1>7. CASE KillWaiting(s) \/ Close(s) \/ Destroy(s)
  <2>1. /\ \E x : x.conn = None /\ sock' = [sock EXCEPT ![s] = x]
        /\ vm' = Finalize(vm, u) /\ exiting' = exiting
    BY <1>7, ClosedFacts DEF KillWaiting, Close, Destroy
  <2>2. /\ \A p \in PoolIds : Agrees(Finalize(vm, u), p, Cardinality(Rest(s, p)), exiting)
        /\ Steady(vm, Finalize(vm, u), Held \ {u.conn})
    BY FinalizeAgrees
  <2> QED BY <2>1, <2>2, CountsLetGo
<1> QED BY <1>2, <1>3, <1>4, <1>5, <1>6, <1>7

\* The pool a connection is filed in counts right, new or not, and the connection
\* comes from there if it was borrowed.
Ready(s, p, v) ==
    /\ p \in PoolIds /\ Listed(v, p)
    /\ v.pool[p].active = Len(v.pool[p].cache) + Cardinality(Borrowed(p))
    /\ \A c \in Idle(v, p) : v.conn[c].home = v.pool[p].key
    /\ v.conn[sock[s].conn].home = v.pool[p].key
    /\ \A q \in PoolIds \ {p} : Agrees(v, q, Cardinality(Borrowed(q)), exiting)
    /\ \A q \in PoolIds : Borrows(sock[s], q) <=> sock[s].reused /\ q = p
    /\ Steady(vm, v, Held \ {sock[s].conn})

LEMMA KeyPoolReady ==
    ASSUME Owned, CountsOK, NEW s \in Sockets, sock[s].conn # None, NEW k \in Keys,
           vm.conn[sock[s].conn].home = k, NEW size \in Sizes, NEW p, NEW v,
           KeyPool(k, size, p, v)
    PROVE  Ready(s, p, v)
<1> PICK u : u = sock[s]
  OBVIOUS
<1>1. p \in PoolIds /\ v.pool[p] # None /\ v.pool[p].key = k /\ v.registry[k] = p /\ Listed(v, p)
  BY DEF KeyPool, Listed
<1>2. VmOK(vm, Held) /\ vm \in VM /\ SocketOK(u)
  BY OwnedFacts
<1>3. \A q \in PoolIds : /\ IsFiniteSet(Borrowed(q))
                         /\ Agrees(vm, q, Cardinality(Borrowed(q)), exiting)
  BY DEF CountsOK
<1>4. \A q \in PoolIds : Borrows(u, q) => vm.registry[k] = q /\ u.reused
  BY LenderListed DEF Listed, Borrows
<1>5. u.reused => \E q \in PoolIds : Borrows(u, q)
  BY <1>2 DEF SocketOK, Borrows
<1>6. CASE v = vm
  <2>1. \A q \in PoolIds : Borrows(u, q) <=> u.reused /\ q = p
    BY <1>1, <1>4, <1>5, <1>6
  <2>2. Agrees(v, p, Cardinality(Borrowed(p)), exiting)
    BY <1>1, <1>3, <1>6
  <2>3. Steady(vm, v, Held \ {u.conn})
    BY <1>6, Unchanged
  <2> QED BY <1>1, <1>3, <1>6, <2>1, <2>2, <2>3 DEF Agrees, Ready
<1>7. CASE vm.pool[p] = None /\ vm.registry[k] = None /\ v = WithPool(vm, p, k, size)
  <2>1. /\ \A q \in PoolIds \ {p} : Aside(vm, v, q)
        /\ \A G : Steady(vm, v, G)
        /\ v.pool[p].active = 0 /\ v.pool[p].cache = <<>>
    BY <1>1, <1>2, <1>7, NewPoolAside
  <2>2. v.conn = vm.conn
    BY <1>1, <1>2, <1>7, NewPoolFacts
  <2>3. Cardinality(Borrowed(p)) = 0
    <3>1. ~Listed(vm, p)
      BY <1>7 DEF Listed
    <3> QED BY <1>1, <1>3, <3>1 DEF Agrees
  <2>4. Idle(v, p) = {} /\ Len(v.pool[p].cache) = 0
    BY <2>1 DEF Idle, ToSet
  <2>5. \A q \in PoolIds : Borrows(u, q) <=> u.reused /\ q = p
    BY <1>4, <1>5, <1>7
  <2>6. \A q \in PoolIds \ {p} : Agrees(v, q, Cardinality(Borrowed(q)), exiting)
    BY <1>3, <2>1, AsideAgrees
  <2>7. v.pool[p].active = Len(v.pool[p].cache) + Cardinality(Borrowed(p))
    BY <2>1, <2>3, <2>4
  <2> QED BY <1>1, <2>1, <2>2, <2>4, <2>5, <2>6, <2>7 DEF Ready
<1> QED BY <1>6, <1>7 DEF KeyPool

LEMMA SetKeepaliveCounts ==
    ASSUME Owned, CountsOK, NEW s \in Sockets, NEW timer \in BOOLEAN, NEW size \in Sizes,
           SetKeepalive(s, timer, size), ~misfiled'
    PROVE  CountsOK'
<1> PICK u, k : u = sock[s] /\ k = sock[s].key
  OBVIOUS
<1> PICK x : x = exiting
  OBVIOUS
<1>1. /\ u.conn # None /\ u.conn \in Held /\ k \in Keys /\ vm.conn[u.conn].home = k
      /\ sock' = [sock EXCEPT ![s] = Closed] /\ exiting' = x
  BY SetKeepaliveFacts
<1> PICK p \in PoolIds : \E v : KeptIn(u, timer, size, p, v)
  BY SetKeepaliveFacts
<1>2. PICK v :
         /\ KeyPool(k, size, p, v) /\ VmOK(v, Held)
         /\ \/ vm' = File(v, p, u, timer)
            \/ vm' = CloseHandler(File(v, p, u, timer), p, u.conn)
  BY DEF KeptIn
<1> DEFINE G == Held \ {u.conn}
<1>3. /\ Listed(v, p)
      /\ v.pool[p].active = Len(v.pool[p].cache) + Cardinality(Borrowed(p))
      /\ \A c \in Idle(v, p) : v.conn[c].home = v.pool[p].key
      /\ v.conn[u.conn].home = v.pool[p].key
      /\ \A q \in PoolIds \ {p} : Agrees(v, q, Cardinality(Borrowed(q)), x)
      /\ \A q \in PoolIds : Borrows(u, q) <=> u.reused /\ q = p
      /\ Steady(vm, v, G)
  <2>1. Ready(s, p, v)
    BY <1>1, <1>2, KeyPoolReady
  <2> QED BY <2>1 DEF Ready
<1>4. \A q \in PoolIds : IsFiniteSet(Borrowed(q))
  BY DEF CountsOK
<1>5. PICK n \in Nat, m \in Nat : n = Cardinality(Borrowed(p)) /\ m = Cardinality(Rest(s, p))
  BY <1>4, RestFacts
<1>6. IF u.reused THEN n = m + 1 ELSE n = m
  BY <1>3, <1>4, <1>5, RestFacts
<1>7. \A q \in PoolIds \ {p} : Agrees(v, q, Cardinality(Rest(s, q)), x)
  <2>1. \A q \in PoolIds \ {p} : Cardinality(Borrowed(q)) = Cardinality(Rest(s, q))
    BY <1>3, <1>4, RestFacts
  <2> QED BY <1>3, <2>1
<1> PICK w : w = File(v, p, u, timer)
  OBVIOUS
<1>8. /\ Agrees(w, p, m, x) /\ \A q \in PoolIds \ {p} : Aside(v, w, q)
      /\ Steady(v, w, G)
  <2>1. v.pool[p].active = Len(v.pool[p].cache) + n
    BY <1>3, <1>5
  <2>2. /\ VmOK(v, Held) /\ u.conn \in Held /\ Listed(v, p)
        /\ \A c \in Idle(v, p) : v.conn[c].home = v.pool[p].key
        /\ v.conn[u.conn].home = v.pool[p].key
    BY <1>1, <1>2, <1>3
  <2> HIDE DEF G
  <2>3. /\ Agrees(File(v, p, u, timer), p, m, x)
        /\ \A q \in PoolIds \ {p} : Aside(v, File(v, p, u, timer), q)
        /\ Steady(v, File(v, p, u, timer), Held \ {u.conn})
    BY <1>6, <2>1, <2>2, FileAgrees
  <2> QED BY <2>3 DEF G
<1>9. /\ \A q \in PoolIds : Agrees(w, q, Cardinality(Rest(s, q)), x)
      /\ Steady(vm, w, G)
  <2>1. Steady(vm, w, G)
    BY <1>3, <1>8, SteadyTwice
  <2> QED BY <1>5, <1>7, <1>8, <2>1, AsideAgrees
<1>10. CASE vm' = w
  BY <1>1, <1>9, <1>10, ClosedFacts, CountsLetGo
<1>11. CASE vm' = CloseHandler(w, p, u.conn)
  <2> PICK t : t = CloseHandler(w, p, u.conn)
    OBVIOUS
  <2>1. VmOK(w, G) /\ u.conn \in Idle(w, p)
    BY <1>1, <1>2, <1>3, FileKeeps DEF Listed
  <2>2. /\ Agrees(t, p, m, x) /\ \A q \in PoolIds \ {p} : Aside(w, t, q)
        /\ Steady(w, t, G)
    BY <1>8, <2>1, HandlerAgrees
  <2>3. \A q \in PoolIds : Agrees(t, q, Cardinality(Rest(s, q)), x)
    BY <1>5, <1>9, <2>2, AsideAgrees
  <2>4. Steady(vm, t, G)
    BY <1>9, <2>2, SteadyTwice
  <2> QED BY <1>1, <1>11, <2>3, <2>4, ClosedFacts, CountsLetGo
<1> QED BY <1>2, <1>10, <1>11

\* No socket changes.
LEMMA CountsQuiet ==
    ASSUME CountsOK, sock' = sock, NEW w, vm' = w, \A c \in Held : w.conn[c].home = vm.conn[c].home,
           \A p \in PoolIds : Listed(vm, p) => w.pool[p].key = vm.pool[p].key,
           \A p \in PoolIds : Agrees(w, p, Cardinality(Borrowed(p)), exiting')
    PROVE  CountsOK'
<1>1. \A p \in PoolIds : Borrowed(p)' = Borrowed(p)
  BY DEF Borrowed
<1>2. \A p \in PoolIds : IsFiniteSet(Borrowed(p)')
                         /\ Agrees(vm', p, Cardinality(Borrowed(p)'), exiting')
  BY <1>1 DEF CountsOK
<1>3. ASSUME NEW s \in Sockets, NEW p \in PoolIds, Borrows(sock[s], p)
      PROVE  w.conn[sock[s].conn].home = w.pool[p].key
  <2>1. Listed(vm, p) /\ vm.conn[sock[s].conn].home = vm.pool[p].key /\ sock[s].conn \in Held
    BY <1>3, LenderListed DEF Borrows, Held
  <2> QED BY <2>1
<1> QED BY <1>2, <1>3 DEF CountsOK

LEMMA EventCounts ==
    ASSUME Owned, CountsOK, Event
    PROVE  CountsOK'
<1>1. /\ VmOK(vm, Held) /\ vm \in VM /\ exiting' = exiting /\ sock' = sock
      /\ \A p \in PoolIds : Agrees(vm, p, Cardinality(Borrowed(p)), exiting)
  BY DEF Owned, VmOK, CountsOK, Event, PeerActs, IdleEvent, ShutdownPool
<1>2. ASSUME NEW c \in Conns, PeerActs(c) PROVE CountsOK'
  <2>1. vm.conn[c] # None /\ vm' = [vm EXCEPT !.conn[c].hot = TRUE]
    BY <1>2 DEF PeerActs
  <2>2. Flagged(vm, vm')
    BY <1>1, <2>1, HotFacts
  <2>3. (\A p \in PoolIds : Aside(vm, vm', p)) /\ Steady(vm, vm', Held)
    BY <1>1, <2>2, FlaggedAside
  <2>4. \A p \in PoolIds : Agrees(vm', p, Cardinality(Borrowed(p)), exiting')
    BY <1>1, <2>3, AsideAgrees
  <2> QED BY <1>1, <2>3, <2>4, CountsQuiet DEF Steady, Listed
<1>3. ASSUME NEW c \in Conns, NEW p \in PoolIds, IdleEvent(c, p) PROVE CountsOK'
  <2>1. c \in Idle(vm, p) /\ vm' = CloseHandler(vm, p, c)
    BY <1>3, IdleInFacts DEF IdleEvent
  <2> PICK n, x : n = Cardinality(Borrowed(p)) /\ x = exiting
    OBVIOUS
  <2> PICK w : w = CloseHandler(vm, p, c)
    OBVIOUS
  <2>2. /\ Agrees(w, p, n, x) /\ \A q \in PoolIds \ {p} : Aside(vm, w, q)
        /\ Steady(vm, w, Held)
    BY <1>1, <2>1, HandlerAgrees
  <2>3. \A q \in PoolIds : Agrees(w, q, Cardinality(Borrowed(q)), exiting')
    BY <1>1, <2>2, AsideAgrees
  <2>4. \A q \in PoolIds : Listed(vm, q) => w.pool[q].key = vm.pool[q].key
    BY <2>2 DEF Steady, Listed
  <2>5. \A d \in Held : w.conn[d].home = vm.conn[d].home
    BY <2>2 DEF Steady
  <2> QED BY <1>1, <2>1, <2>3, <2>4, <2>5, CountsQuiet
<1>4. ASSUME NEW p \in PoolIds, ShutdownPool(p) PROVE CountsOK'
  <2> PICK v, w : v = vm /\ w = vm'
    OBVIOUS
  <2>1. Shut(v, p, w) /\ v.pool[p] # None /\ \A k \in Keys : v.registry[k] # p
    BY <1>1, <1>4, ShutdownFacts DEF ShutdownPool
  <2>2. ~Listed(v, p)
    BY <1>1, <2>1, PoolTypes DEF Listed
  <2>3. \A q \in PoolIds : \A c \in Idle(v, q) : c \in Conns
    <3>1. ASSUME NEW q \in PoolIds, v.pool[q] # None PROVE Idle(v, q) \subseteq Conns
      BY <1>1, <3>1, PoolTypes, ToSetFacts
    <3> QED BY <3>1 DEF Idle
  <2>4. ASSUME NEW q \in PoolIds \ {p} PROVE Aside(v, w, q)
    <3>1. \A c \in Idle(v, q) : c \notin Idle(v, p) /\ c \in Conns
      BY <1>1, <2>3 DEF VmOK, InOnePlace
    <3> QED BY <2>1, <3>1 DEF Shut, Aside
  <2>5. Agrees(w, p, Cardinality(Borrowed(p)), exiting')
    <3>1. Agrees(v, p, Cardinality(Borrowed(p)), exiting)
      BY <1>1
    <3>2. w.pool[p] = None /\ ~Listed(w, p) /\ Idle(w, p) = {}
      BY <2>1 DEF Shut, Listed, Idle
    <3> QED BY <2>2, <3>1, <3>2 DEF Agrees
  <2>6. \A q \in PoolIds : Agrees(w, q, Cardinality(Borrowed(q)), exiting')
    BY <1>1, <2>4, <2>5, AsideAgrees
  <2>7. \A c \in Held : w.conn[c].home = v.conn[c].home
    <3>1. \A c \in Held : c \in Conns /\ c \notin Idle(v, p)
      BY <1>1 DEF VmOK, InOnePlace
    <3> QED BY <2>1, <3>1 DEF Shut
  <2>8. \A q \in PoolIds : Listed(v, q) => w.pool[q].key = v.pool[q].key
    BY <2>1, <2>2 DEF Shut
  <2> QED BY <1>1, <2>6, <2>7, <2>8, CountsQuiet
<1> QED BY <1>2, <1>3, <1>4 DEF Event

\* What the exit of the worker leaves agrees with what is borrowed.
LEMMA LeftAgrees ==
    ASSUME NEW v, NEW H, VmOK(v, H), NEW w, Left(v, w), NEW p \in PoolIds, NEW n, NEW x,
           Agrees(v, p, n, x),
           \A q \in PoolIds : ~Listed(v, q) /\ v.pool[q] # None /\ v.pool[q].cache # <<>> =>
                              v.pool[q].active > Len(v.pool[q].cache)
    PROVE  Agrees(w, p, n, TRUE)
<1>1. v \in VM /\ n \in Nat
  BY DEF VmOK, Agrees
<1>2. CASE v.pool[p] = None
  <2>1. w.pool[p] = None /\ n = 0
    BY <1>2 DEF Left, Agrees, Listed
  <2> QED BY <1>1, <2>1 DEF Agrees, Listed, Idle
<1>3. CASE v.pool[p] # None
  <2> PICK k : k = v.pool[p].key
    OBVIOUS
  <2>1. PICK a \in Int, l \in Nat : /\ a = v.pool[p].active /\ l = Len(v.pool[p].cache)
                                    /\ v.pool[p].cache = <<>> <=> l = 0
    BY <1>1, <1>3, PoolTypes
  <2>2. /\ w.pool[p] # None /\ w.pool[p].key = k /\ w.pool[p].cache = <<>>
        /\ w.pool[p].active = a - l
    BY <1>3, <2>1 DEF Left
  <2>3. Idle(w, p) = {} /\ Len(w.pool[p].cache) = 0 /\ k \in Keys
    BY <1>1, <1>3, <2>2, PoolTypes DEF Idle, ToSet
  <2>4. w.registry[k] = v.registry[k] \/ w.registry[k] = None
    BY <2>3 DEF Left
  <2>5. CASE ~Listed(v, p)
    <3>1. ~Listed(w, p) /\ n = 0
      BY <1>3, <2>2, <2>4, <2>5 DEF Agrees, Listed
    <3> QED BY <1>1, <2>2, <2>3, <3>1 DEF Agrees
  <2>6. CASE Listed(v, p)
    <3>1. a = l + n /\ a > 0 /\ v.registry[k] = p
      BY <2>1, <2>6 DEF Agrees, Listed
    <3>2. CASE n = 0
      <4>1. a <= l /\ l # 0
        BY <1>1, <3>1, <3>2
      <4>2. w.registry[k] = None
        BY <1>3, <2>1, <2>3, <3>1, <4>1, ZenonT(60) DEF Left
      <4>3. ~Listed(w, p)
        BY <2>2, <4>2 DEF Listed
      <4> QED BY <1>1, <2>2, <2>3, <3>2, <4>3 DEF Agrees
    <3>3. CASE n # 0
      <4>1. a - l = n /\ a > l
        BY <1>1, <3>1, <3>3
      <4>2. ASSUME NEW q \in PoolIds, v.pool[q] # None, v.pool[q].key = k,
                   v.pool[q].cache # <<>>, v.pool[q].active > 0,
                   v.pool[q].active <= Len(v.pool[q].cache)
            PROVE  FALSE
        <5>1. q # p
          BY <2>1, <4>1, <4>2
        <5>2. ~Listed(v, q)
          BY <3>1, <4>2, <5>1 DEF Listed
        <5>3. PICK b \in Int, j \in Nat : b = v.pool[q].active /\ j = Len(v.pool[q].cache)
          BY <1>1, <4>2, PoolTypes
        <5>4. b > j /\ b <= j
          BY <4>2, <5>2, <5>3
        <5> QED BY <5>4
      <4>3. w.registry[k] = v.registry[k]
        BY <2>3, <4>2 DEF Left
      <4>4. Listed(w, p)
        BY <2>2, <3>1, <4>3 DEF Listed
      <4>5. w.pool[p].active = Len(w.pool[p].cache) + n /\ w.pool[p].active > 0
        BY <1>1, <2>2, <2>3, <3>3, <4>1
      <4> QED BY <1>1, <2>3, <4>4, <4>5 DEF Agrees
    <3> QED BY <3>2, <3>3
  <2> QED BY <2>5, <2>6
<1> QED BY <1>2, <1>3

LEMMA ExitCounts ==
    ASSUME Owned, CountsOK, BeginExit
    PROVE  CountsOK'
<1> PICK v, w : v = vm /\ w = CloseIdle(vm)
  OBVIOUS
<1>1. VmOK(v, Held) /\ v \in VM /\ vm' = w /\ sock' = sock /\ exiting' = TRUE
  BY DEF Owned, VmOK, BeginExit
<1>2. Left(v, w)
  BY <1>1, CloseIdleFacts
<1>3. \A q \in PoolIds : Agrees(v, q, Cardinality(Borrowed(q)), exiting)
  BY DEF CountsOK
<1>4. \A q \in PoolIds : ~Listed(v, q) /\ v.pool[q] # None /\ v.pool[q].cache # <<>> =>
                         v.pool[q].active > Len(v.pool[q].cache)
  BY <1>3 DEF Agrees
<1>5. \A p \in PoolIds : Agrees(w, p, Cardinality(Borrowed(p)), TRUE)
  BY <1>1, <1>2, <1>3, <1>4, LeftAgrees
<1>6. \A c \in Held : w.conn[c].home = v.conn[c].home
  <2>1. \A c \in Held : c \in Conns /\ \A q \in PoolIds : c \notin Idle(v, q)
    BY <1>1 DEF VmOK, InOnePlace
  <2> QED BY <1>2, <2>1 DEF Left
<1>7. \A p \in PoolIds : Listed(v, p) => w.pool[p].key = v.pool[p].key
  BY <1>2 DEF Left, Listed
<1> QED BY <1>1, <1>5, <1>6, <1>7, CountsQuiet

LEMMA CleanupCounts ==
    ASSUME Owned, CountsOK, CleanupConnPools
    PROVE  CountsOK'
<1> PICK v, w : v = vm /\ w = vm'
  OBVIOUS
<1>1. /\ VmOK(v, Held) /\ v \in VM /\ sock' = sock /\ exiting' = exiting /\ exiting
      /\ \A s \in Sockets : sock[s] = Closed
  BY DEF Owned, VmOK, CleanupConnPools, NoRequests
<1>2. Cleaned(v, w)
  BY <1>1, CleanupFacts
<1>3. Held = {} /\ \A p \in PoolIds : Borrowed(p) = {}
  BY <1>1, ClosedFacts DEF Held, Borrowed
<1>4. \A p \in PoolIds : Cardinality(Borrowed(p)) = 0
  BY <1>3, FS_EmptySet
<1>5. \A p \in PoolIds : Agrees(v, p, 0, exiting)
  BY <1>4 DEF CountsOK
<1>6. ASSUME NEW p \in PoolIds PROVE Agrees(w, p, 0, exiting)
  <2>1. ~Listed(w, p)
    <3>1. CASE w.pool[p] # None
      <4>1. w.pool[p].key \in Keys
        BY <1>2, <3>1, PoolTypes DEF Cleaned
      <4> QED BY <1>2, <4>1 DEF Cleaned, Listed
    <3> QED BY <3>1 DEF Listed
  <2>2. CASE (\E k \in Keys : v.registry[k] = p) /\ v.pool[p].cache # <<>>
    <3>1. v.pool[p] # None
      BY <1>1, <2>2 DEF VmOK, RegistryOK
    <3>2. PICK a \in Int, l \in Nat : a = v.pool[p].active /\ l = Len(v.pool[p].cache)
      BY <1>1, <3>1, PoolTypes
    <3>3. /\ w.pool[p] # None /\ w.pool[p].key = v.pool[p].key /\ w.pool[p].active = a
          /\ Len(w.pool[p].cache) = l - 1
          /\ ToSet(w.pool[p].cache) = ToSet(v.pool[p].cache) \ {Head(v.pool[p].cache)}
          /\ w.conn[Head(v.pool[p].cache)] = None
      BY <1>2, <2>2, <3>2 DEF Cleaned
    <3>4. a >= l
      <4>1. CASE Listed(v, p)
        <5>1. a = l + 0
          BY <1>5, <3>2, <4>1 DEF Agrees
        <5> QED BY <5>1
      <4>2. CASE ~Listed(v, p)
        <5>1. a > l
          BY <1>5, <2>2, <3>1, <3>2, <4>2 DEF Agrees
        <5> QED BY <5>1
      <4> QED BY <4>1, <4>2
    <3>5. w.pool[p].active > Len(w.pool[p].cache)
      BY <3>3, <3>4
    <3>6. \A c \in Idle(w, p) : w.conn[c].home = w.pool[p].key
      <4>1. \A c \in Idle(w, p) : c \in Idle(v, p) /\ c # Head(v.pool[p].cache)
        BY <3>1, <3>3 DEF Idle
      <4>2. \A c \in Idle(v, p) : c \in Conns /\ v.conn[c].home = v.pool[p].key
        BY <1>1, <1>5, <3>1, PoolTypes, ToSetFacts DEF Agrees
      <4>3. ASSUME NEW c \in Idle(w, p) PROVE w.conn[c] = v.conn[c]
        <5>1. c \in Conns /\ c \in Idle(w, p) /\ VmOK(w, Held)
          BY <1>1, <1>2, <4>1, <4>2, CleanedKeeps
        <5>2. w.conn[c] # None
          BY <5>1 DEF VmOK, InOnePlace
        <5> QED BY <1>2, <5>1, <5>2 DEF Cleaned
      <4> QED BY <3>3, <4>1, <4>2, <4>3
    <3> QED BY <1>1, <2>1, <3>5, <3>6 DEF Agrees
  <2>3. CASE ~((\E k \in Keys : v.registry[k] = p) /\ v.pool[p].cache # <<>>)
    <3>1. w.pool[p] = v.pool[p] /\ Idle(w, p) = Idle(v, p)
      BY <1>2, <2>3 DEF Cleaned, Idle
    <3>2. \A c \in Idle(w, p) : w.conn[c] = v.conn[c]
      <4>1. ASSUME NEW c \in Idle(w, p) PROVE c \in Conns /\ w.conn[c] # None
        <5>1. v.pool[p] # None
          BY <3>1, <4>1 DEF Idle
        <5>2. c \in Conns /\ VmOK(w, Held)
          BY <1>1, <1>2, <3>1, <4>1, <5>1, PoolTypes, ToSetFacts, CleanedKeeps
        <5> QED BY <4>1, <5>2 DEF VmOK, InOnePlace
      <4> QED BY <1>2, <4>1 DEF Cleaned
    <3>3. w.pool[p] # None /\ w.pool[p].cache # <<>> => w.pool[p].active > Len(w.pool[p].cache)
      <4>1. v.pool[p] # None /\ v.pool[p].cache # <<>> => ~Listed(v, p)
        <5>1. v.pool[p] # None => v.pool[p].key \in Keys
          BY <1>1, PoolTypes
        <5> QED BY <2>3, <5>1 DEF Listed
      <4> QED BY <1>5, <3>1, <4>1 DEF Agrees
    <3> QED BY <1>1, <1>5, <2>1, <3>1, <3>2, <3>3 DEF Agrees
  <2> QED BY <2>2, <2>3
<1>7. \A p \in PoolIds : Listed(v, p) => w.pool[p].key = v.pool[p].key
  BY <1>2 DEF Cleaned
<1>8. \A p \in PoolIds : Agrees(w, p, Cardinality(Borrowed(p)), exiting')
  BY <1>1, <1>4, <1>6
<1> QED BY <1>1, <1>3, <1>7, <1>8, CountsQuiet

\* The next worker starts from nothing.
LEMMA RespawnCounts ==
    ASSUME Owned, Respawn
    PROVE  CountsOK'
<1> PICK v, w : v = vm /\ w = vm'
  OBVIOUS
<1>1. /\ v \in VM /\ sock' = sock /\ \A s \in Sockets : sock[s] = Closed
      /\ w = [v EXCEPT !.conn = [c \in Conns |-> None]] /\ \A p \in PoolIds : v.pool[p] = None
  BY DEF Owned, VmOK, Respawn, NoRequests
<1>2. \A p \in PoolIds : w.pool[p] = None
  BY <1>1 DEF VM
<1>3. \A p \in PoolIds : Borrowed(p)' = {}
  BY <1>1, ClosedFacts DEF Borrowed
<1>4. \A p \in PoolIds : Cardinality(Borrowed(p)') = 0 /\ IsFiniteSet(Borrowed(p)')
  BY <1>3, FS_EmptySet
<1>5. \A p \in PoolIds : Agrees(w, p, 0, exiting')
  BY <1>2 DEF Agrees, Listed, Idle
<1>6. \A s \in Sockets, p \in PoolIds : ~Borrows(sock'[s], p)
  BY <1>1, ClosedFacts DEF Borrows
<1> QED BY <1>4, <1>5, <1>6 DEF CountsOK

LEMMA CountsAtStart ==
    Init => CountsOK
<1> SUFFICES ASSUME Init PROVE CountsOK
  OBVIOUS
<1>1. /\ \A s \in Sockets : sock[s] = Closed
      /\ \A p \in PoolIds : vm.pool[p] = None
  BY DEF Init
<1>2. \A p \in PoolIds : Borrowed(p) = {}
  BY <1>1, ClosedFacts DEF Borrowed
<1>3. \A p \in PoolIds : Cardinality(Borrowed(p)) = 0 /\ IsFiniteSet(Borrowed(p))
  BY <1>2, FS_EmptySet
<1>4. \A p \in PoolIds : Agrees(vm, p, 0, exiting)
  BY <1>1 DEF Agrees, Listed, Idle
<1>5. \A s \in Sockets, p \in PoolIds : ~Borrows(sock[s], p)
  BY <1>1, ClosedFacts DEF Borrows
<1> QED BY <1>3, <1>4, <1>5 DEF CountsOK

LEMMA CountsAlways ==
    Spec => [](misfiled \/ CountsOK)
<1>1. Init => misfiled \/ CountsOK
  BY CountsAtStart
<1>2. ASSUME Owned, misfiled \/ CountsOK, [Next]_vars PROVE (misfiled \/ CountsOK)'
  <2>1. CASE Respawn
    BY <1>2, <2>1, RespawnCounts
  <2>2. CASE ~Respawn /\ misfiled
    <3>1. ASSUME NEW s \in Sockets, Call(s) PROVE misfiled'
      <4>1. CASE \E k \in Keys : Connect(s, k)
        BY <2>2, <4>1 DEF Connect
      <4>2. CASE \E timer \in BOOLEAN, size \in Sizes : SetKeepalive(s, timer, size)
        <5>1. PICK timer \in BOOLEAN, size \in Sizes : SetKeepalive(s, timer, size)
          BY <4>2
        <5>2. misfiled' = (misfiled \/ vm.conn[sock[s].conn].home # sock[s].key)
          BY <5>1 DEF SetKeepalive
        <5> QED BY <2>2, <5>2
      <4>3. CASE \/ \E k \in Keys : ConnectRefused(s, k)
                 \/ \E c \in Conns : Connected(s, c)
                 \/ ConnectFailed(s) \/ Wait(s) \/ WaitDone(s) \/ KillWaiting(s) \/ Close(s) \/ Destroy(s)
        <5>1. UNCHANGED misfiled
          BY <4>3 DEF ConnectRefused, Connected, ConnectFailed, Wait, WaitDone, KillWaiting,
             Close, Destroy
        <5> QED BY <2>2, <5>1
      <4>4. \/ \E k \in Keys : Connect(s, k)
            \/ \E timer \in BOOLEAN, size \in Sizes : SetKeepalive(s, timer, size)
            \/ \E k \in Keys : ConnectRefused(s, k)
            \/ \E c \in Conns : Connected(s, c)
            \/ ConnectFailed(s) \/ Wait(s) \/ WaitDone(s) \/ KillWaiting(s) \/ Close(s) \/ Destroy(s)
        BY <3>1 DEF Call
      <4> QED BY <4>1, <4>2, <4>3, <4>4
    <3>2. CASE Event \/ BeginExit \/ CleanupConnPools \/ UNCHANGED vars
      <4>1. UNCHANGED misfiled
        BY <3>2 DEF Event, PeerActs, IdleEvent, ShutdownPool, BeginExit, CleanupConnPools, vars
      <4> QED BY <2>2, <4>1
    <3> QED BY <1>2, <2>2, <3>1, <3>2 DEF Next
  <2>3. CASE CountsOK
    <3>1. ASSUME NEW s \in Sockets, Call(s), ~misfiled' PROVE CountsOK'
      <4>1. CASE \E k \in Keys : Connect(s, k)
        BY <1>2, <2>3, <4>1, ConnectCounts
      <4>2. CASE \E timer \in BOOLEAN, size \in Sizes : SetKeepalive(s, timer, size)
        BY <1>2, <2>3, <3>1, <4>2, SetKeepaliveCounts
      <4> QED BY <1>2, <2>3, <3>1, <4>1, <4>2, CallCounts DEF Call
    <3>2. CASE UNCHANGED vars
      BY <2>3, <3>2 DEF vars, CountsOK, Borrowed
    <3> QED BY <1>2, <2>1, <2>3, <3>1, <3>2, EventCounts, ExitCounts, CleanupCounts DEF Next
  <2> QED BY <1>2, <2>1, <2>2, <2>3
<1> QED BY <1>1, <1>2, OwnedAlways, PTL DEF Spec

\* Before a connection is misfiled, the count of a pool in the registry is the
\* number of its idle connections and of those borrowed from it and it is never
\* 0, its items are all in one of its queues, and nobody borrows from a pool that
\* was dropped: that is what the comment at ngx_http_lua_socket_tcp.h:40 says.
THEOREM CountsRight == Spec => []PoolsCounted
<1>1. ASSUME Owned, misfiled \/ CountsOK PROVE PoolsCounted
  <2> SUFFICES ASSUME CountsOK, NEW p \in PoolIds PROVE Counted(p)
    BY <1>1 DEF PoolsCounted
  <2>1. /\ IsFiniteSet(Borrowed(p)) /\ Agrees(vm, p, Cardinality(Borrowed(p)), exiting)
        /\ vm \in VM /\ RegistryOK(vm)
    BY <1>1 DEF CountsOK, Owned, VmOK
  <2>2. Registered(p) <=> Listed(vm, p)
    BY DEF Registered, Listed
  <2>3. CASE Listed(vm, p)
    <3>1. vm.pool[p].key \in Keys
      BY <2>1, <2>3, PoolTypes DEF Listed
    <3>2. Len(vm.pool[p].cache) + vm.pool[p].free = vm.pool[p].size
      BY <2>1, <2>3, <3>1 DEF Listed, RegistryOK
    <3> QED BY <2>1, <2>2, <2>3, <3>2 DEF Counted, Agrees
  <2>4. CASE ~Listed(vm, p)
    <3>1. Cardinality(Borrowed(p)) = 0
      BY <2>1, <2>4 DEF Agrees
    <3>2. Borrowed(p) = {}
      BY <2>1, <3>1, FS_EmptySet
    <3> QED BY <2>2, <2>4, <3>2 DEF Counted
  <2> QED BY <2>3, <2>4
<1> QED BY <1>1, OwnedAlways, CountsAlways, PTL

----------------------------------------------------------------------------
(* Why connections are closed.                                             *)

\* Only the connections in C are open in v and not in w.
Closes(v, w, C) == \A d \in Conns : v.conn[d] # None /\ w.conn[d] = None => d \in C

LEMMA FinalizeCloses ==
    ASSUME NEW v, NEW H, VmOK(v, H), NEW u, SocketOK(u), u.conn \in H \cup {None}
    PROVE  Closes(v, Finalize(v, u), {u.conn})
<1>1. v \in VM
  BY DEF VmOK
<1>2. CASE u.conn = None
  BY <1>2 DEF Finalize, Closes
<1>3. CASE u.conn # None
  <2>1. u.conn \in Conns
    BY <1>3 DEF VmOK
  <2> PICK t : t = CloseConnection(v, u.conn)
    OBVIOUS
  <2>2. t \in VM /\ t.pool = v.pool /\ Closes(v, t, {u.conn})
    BY <1>1, <2>1, CloseConnectionFacts DEF Closes
  <2>3. CASE NeverPooled(v, u)
    BY <1>3, <2>2, <2>3 DEF Finalize
  <2>4. CASE ~NeverPooled(v, u)
    <3>1. u.pool \in PoolIds /\ t.pool[u.pool] # None
      BY <2>2, <2>4 DEF NeverPooled, SocketOK
    <3> PICK w : w = DropActive(t, u.pool)
      OBVIOUS
    <3>2. w.conn = t.conn
      BY <2>2, <3>1, DropActiveFacts DEF Dropped
    <3>3. Finalize(v, u) = w
      BY <1>3, <2>4 DEF Finalize
    <3> QED BY <2>2, <3>2, <3>3 DEF Closes
  <2> QED BY <2>3, <2>4
<1> QED BY <1>2, <1>3

LEMMA HandlerCloses ==
    ASSUME NEW v, NEW H, VmOK(v, H), NEW p \in PoolIds, NEW c \in Idle(v, p)
    PROVE  Closes(v, CloseHandler(v, p, c), {c})
<1>1. v \in VM /\ v.pool[p] # None /\ NoDup(v.pool[p].cache) /\ c \in ToSet(v.pool[p].cache)
  BY DEF VmOK, InOnePlace, Idle
<1>2. c \in Conns
  BY <1>1, PoolTypes, ToSetFacts
<1>3. Unfiled(v, p, c, CloseHandler(v, p, c))
  BY <1>1, <1>2, CloseHandlerFacts
<1> QED BY <1>3 DEF Unfiled, Closes

LEMMA ConnectCloses ==
    ASSUME Owned, NEW s \in Sockets, NEW k \in Keys, Connect(s, k)
    PROVE  Closes(vm, vm', Held)
<1> PICK u, v : u = sock[s] /\ v = Finalize(vm, sock[s])
  OBVIOUS
<1>1. VmOK(v, Held \ {u.conn}) /\ v \in VM /\ Connecting(s, k, v)
  BY OwnedFacts, ConnectFacts DEF VmOK
<1>2. Closes(vm, v, Held)
  <2>1. Closes(vm, v, {u.conn}) /\ u.conn \in Held \cup {None} /\ None \notin Conns
    BY OwnedFacts, FinalizeCloses
  <2> QED BY <2>1 DEF Closes
<1>3. ASSUME NEW p \in PoolIds, p = v.registry[k], v.pool[p].cache # <<>>, vm' = Reuse(v, p)
      PROVE  Closes(v, vm', {})
  <2>1. v.pool[p] # None
    BY <1>1, <1>3 DEF VmOK, RegistryOK
  <2>2. NoDup(v.pool[p].cache) /\ Idle(v, p) = ToSet(v.pool[p].cache)
    BY <1>1, <2>1 DEF VmOK, InOnePlace, Idle
  <2> PICK c : c = Head(v.pool[p].cache)
    OBVIOUS
  <2>3. c \in Idle(v, p)
    BY <1>1, <1>3, <2>1, ReuseKeeps
  <2>4. c \in Conns
    BY <1>1, <2>1, <2>2, <2>3, PoolTypes, ToSetFacts
  <2>5. v.conn[c] # None
    BY <1>1, <2>3, <2>4 DEF VmOK, InOnePlace
  <2> PICK w : w = Reuse(v, p)
    OBVIOUS
  <2>6. Reused(v, p, w)
    BY <1>1, <1>3, <2>1, <2>2, <2>5, ReuseFacts
  <2>7. w.conn[c] # None /\ \A d \in Conns \ {c} : w.conn[d] = v.conn[d]
    BY <2>6 DEF Reused
  <2> QED BY <1>3, <2>7 DEF Closes
<1>4. Closes(v, vm', {})
  <2>1. CASE vm' = v
    BY <2>1 DEF Closes
  <2> QED BY <1>1, <1>3, <2>1 DEF Connecting
<1> QED BY <1>2, <1>4 DEF Closes

\* The other calls, but setkeepalive.
LEMMA CallCloses ==
    ASSUME Owned, NEW s \in Sockets,
           \/ \E k \in Keys : ConnectRefused(s, k)
           \/ \E c \in Conns : Connected(s, c)
           \/ ConnectFailed(s) \/ Wait(s) \/ WaitDone(s) \/ KillWaiting(s) \/ Close(s) \/ Destroy(s)
    PROVE  Closes(vm, vm', Held)
<1> PICK u : u = sock[s]
  OBVIOUS
<1>1. /\ vm \in VM /\ VmOK(vm, Held) /\ SocketOK(u) /\ u.conn \in Held \cup {None}
      /\ None \notin Conns
  BY OwnedFacts
<1>2. CASE \E k \in Keys : ConnectRefused(s, k)
  <2>1. vm' = vm
    BY <1>2 DEF ConnectRefused
  <2> QED BY <2>1 DEF Closes
<1>3. ASSUME NEW c \in Conns, Connected(s, c) PROVE Closes(vm, vm', Held)
  <2> PICK x : x = [home |-> u.target, hot |-> FALSE, timer |-> FALSE]
    OBVIOUS
  <2>1. u.waiting = "connecting" /\ vm' = [vm EXCEPT !.conn[c] = x] /\ vm.conn[c] = None
    BY <1>3 DEF Connected
  <2>2. \A d \in Conns \ {c} : vm'.conn[d] = vm.conn[d]
    BY <1>1, <2>1 DEF VM
  <2> QED BY <2>1, <2>2 DEF Closes
<1>4. CASE ConnectFailed(s)
  <2>1. vm' = vm
    BY <1>4 DEF ConnectFailed
  <2> QED BY <2>1 DEF Closes
<1>5. CASE Wait(s) \/ WaitDone(s)
  <2>1. vm' = vm \/ vm' = [vm EXCEPT !.conn[u.conn].hot = FALSE]
    BY <1>5 DEF Wait, WaitDone
  <2>2. u.conn # None
    BY <1>1, <1>5 DEF Wait, WaitDone, SocketOK
  <2>3. u.conn \in Held /\ u.conn \in Conns /\ vm.conn[u.conn] # None
    BY <1>1, <2>2 DEF VmOK, InOnePlace
  <2>4. CASE vm' = [vm EXCEPT !.conn[u.conn].hot = FALSE]
    <3>1. Flagged(vm, vm')
      BY <1>1, <2>3, <2>4, HotFacts
    <3> QED BY <3>1 DEF Flagged, Closes
  <2>5. CASE vm' = vm
    BY <2>5 DEF Closes
  <2> QED BY <2>1, <2>4, <2>5
<1>6. CASE KillWaiting(s) \/ Close(s) \/ Destroy(s)
  <2>1. vm' = Finalize(vm, u)
    BY <1>6 DEF KillWaiting, Close, Destroy
  <2>2. Closes(vm, vm', {u.conn})
    BY <1>1, <2>1, FinalizeCloses
  <2> QED BY <1>1, <2>2 DEF Closes
<1> QED BY <1>2, <1>3, <1>4, <1>5, <1>6

\* setkeepalive makes room in a pool that is full, and the pool is not a new one.
LEMMA SetKeepaliveCloses ==
    ASSUME Owned, NEW s \in Sockets, NEW timer \in BOOLEAN, NEW size \in Sizes,
           SetKeepalive(s, timer, size), NEW c \in Conns, NEW p \in PoolIds, c \in Idle(vm, p),
           vm'.conn[c] = None
    PROVE  vm.pool[p].free = 0 /\ Last(vm.pool[p].cache) = c
<1> PICK u, k : u = sock[s] /\ k = sock[s].key
  OBVIOUS
<1>1. u.conn # None /\ u.conn \in Held /\ k \in Keys
  BY SetKeepaliveFacts
<1> PICK q \in PoolIds : \E v : KeptIn(u, timer, size, q, v)
  BY SetKeepaliveFacts
<1>2. PICK v :
         /\ KeyPool(k, size, q, v) /\ VmOK(v, Held)
         /\ \/ vm' = File(v, q, u, timer)
            \/ vm' = CloseHandler(File(v, q, u, timer), q, u.conn)
  BY DEF KeptIn
<1>3. v.pool[q] # None /\ v.registry[v.pool[q].key] = q
  BY <1>2 DEF KeyPool
<1>4. vm \in VM /\ VmOK(vm, Held) /\ vm.conn[c] # None /\ c # u.conn
  <2>1. vm \in VM /\ VmOK(vm, Held)
    BY OwnedFacts
  <2> QED BY <1>1, <2>1 DEF VmOK, InOnePlace
<1> PICK w : w = File(v, q, u, timer)
  OBVIOUS
<1>5. Filed(v, q, u, w) /\ VmOK(w, Held \ {u.conn}) /\ u.conn \in Idle(w, q)
  BY <1>1, <1>2, <1>3, FileKeeps
<1>6. w.conn[c] = None
  <2>1. CASE vm' = w
    BY <2>1
  <2>2. CASE vm' = CloseHandler(w, q, u.conn)
    <3>1. Closes(w, vm', {u.conn})
      BY <1>5, <2>2, HandlerCloses
    <3> QED BY <1>4, <3>1 DEF Closes
  <2> QED BY <1>2, <2>1, <2>2
<1>7. v.conn = vm.conn /\ (v = vm \/ v.pool[q].free # 0)
  <2>1. CASE v = vm
    BY <2>1
  <2>2. CASE v = WithPool(vm, q, k, size)
    <3>1. v.conn = vm.conn /\ v.pool[q] = NewPool(k, size)
      BY <1>1, <1>4, <2>2, NewPoolFacts
    <3>2. v.pool[q].free = size
      BY <3>1 DEF NewPool
    <3>3. size # 0
      BY Zenon
    <3> QED BY <3>1, <3>2, <3>3
  <2> QED BY <1>2, <2>1, <2>2 DEF KeyPool
<1>8. v.pool[q].free = 0 /\ c = Last(v.pool[q].cache) /\ c \in ToSet(v.pool[q].cache)
  <2>1. c \in Conns \ {u.conn} /\ v.conn[c] # None
    BY <1>4, <1>7
  <2>2. /\ v.pool[q].free # 0 => \A d \in Conns \ {u.conn} : w.conn[d] = v.conn[d]
        /\ v.pool[q].free = 0 => /\ Last(v.pool[q].cache) \in ToSet(v.pool[q].cache)
                                 /\ \A d \in Conns \ {u.conn} :
                                       w.conn[d] = IF d = Last(v.pool[q].cache) THEN None ELSE v.conn[d]
    BY <1>5 DEF Filed
  <2> QED BY <1>6, <2>1, <2>2
<1>9. v = vm
  BY <1>7, <1>8
<1>10. c \in Idle(vm, q)
  BY <1>3, <1>8, <1>9 DEF Idle
<1>11. p = q
  BY <1>4, <1>10 DEF VmOK, InOnePlace
<1> QED BY <1>8, <1>9, <1>11

\* An idle connection is closed because its time is up, its peer acted, the
\* worker exits, or its pool was full and it had been idle longest: filing a
\* connection, dropping a pool or closing another connection never closes it.
THEOREM ClosedWithReason == Spec => ClosedForCause
<1> DEFINE Cause(c, p) ==
      (IdleIn(c, p) /\ vm'.conn[c] = None)
      => \/ misfiled \/ exiting'
         \/ vm.conn[c].timer \/ vm.conn[c].hot
         \/ vm.pool[p].free = 0 /\ Last(vm.pool[p].cache) = c
<1>1. ASSUME Owned, misfiled \/ CountsOK, [Next]_vars
      PROVE  [\A c \in Conns, p \in PoolIds : Cause(c, p)]_vars
  <2> SUFFICES ASSUME Next, NEW c \in Conns, NEW p \in PoolIds, IdleIn(c, p), vm'.conn[c] = None,
                      ~misfiled, ~exiting'
               PROVE  \/ vm.conn[c].timer \/ vm.conn[c].hot
                      \/ vm.pool[p].free = 0 /\ Last(vm.pool[p].cache) = c
    BY <1>1
  <2>1. /\ c \in Idle(vm, p) /\ vm.pool[p] # None /\ vm \in VM /\ VmOK(vm, Held)
        /\ Agrees(vm, p, Cardinality(Borrowed(p)), exiting)
    BY <1>1, IdleInFacts DEF Owned, VmOK, CountsOK, IdleIn
  <2>2. vm.conn[c] # None /\ c \notin Held
    BY <2>1 DEF VmOK, InOnePlace
  <2>3. ASSUME NEW s \in Sockets, Call(s)
        PROVE  vm.pool[p].free = 0 /\ Last(vm.pool[p].cache) = c
    <3>1. CASE \E timer \in BOOLEAN, size \in Sizes : SetKeepalive(s, timer, size)
      BY <1>1, <2>1, <3>1, SetKeepaliveCloses
    <3>2. CASE ~ \E timer \in BOOLEAN, size \in Sizes : SetKeepalive(s, timer, size)
      <4>1. Closes(vm, vm', Held)
        BY <1>1, <2>3, <3>2, ConnectCloses, CallCloses DEF Call
      <4> QED BY <2>2, <4>1 DEF Closes
    <3> QED BY <3>1, <3>2
  <2>4. CASE \E d \in Conns : PeerActs(d)
    <3>1. PICK d \in Conns : vm.conn[d] # None /\ vm' = [vm EXCEPT !.conn[d].hot = TRUE]
      BY <2>4 DEF PeerActs
    <3>2. Flagged(vm, vm')
      BY <2>1, <3>1, HotFacts
    <3> QED BY <2>2, <3>2 DEF Flagged
  <2>5. CASE \E d \in Conns, q \in PoolIds : IdleEvent(d, q)
    <3>1. PICK d \in Conns, q \in PoolIds : IdleEvent(d, q)
      BY <2>5
    <3>2. d \in Idle(vm, q) /\ (vm.conn[d].timer \/ vm.conn[d].hot) /\ vm' = CloseHandler(vm, q, d)
      BY <3>1, IdleInFacts DEF IdleEvent
    <3>3. Closes(vm, vm', {d})
      BY <2>1, <3>2, HandlerCloses
    <3>4. c = d
      BY <2>2, <3>3 DEF Closes
    <3> QED BY <3>2, <3>4
  <2>6. CASE \E q \in PoolIds : ShutdownPool(q)
    <3>1. PICK q \in PoolIds : ShutdownPool(q)
      BY <2>6
    <3>2. Shut(vm, q, vm') /\ (\A k \in Keys : vm.registry[k] # q) /\ exiting' = exiting
      BY <2>1, <3>1, ShutdownFacts DEF ShutdownPool
    <3>3. c \in Idle(vm, q)
      BY <2>2, <3>2 DEF Shut
    <3>4. p = q
      BY <2>1, <3>3 DEF VmOK, InOnePlace
    <3>5. vm.pool[p].cache # <<>> /\ ~Listed(vm, p)
      BY <2>1, <3>2, <3>4, PoolTypes, ToSetFacts DEF Listed
    <3> QED BY <2>1, <3>2, <3>5 DEF Agrees
  <2>7. CASE BeginExit \/ CleanupConnPools \/ Respawn
    BY <2>1, <2>7 DEF BeginExit, CleanupConnPools, Respawn
  <2>8. Event => \/ \E d \in Conns : PeerActs(d)
                 \/ \E d \in Conns, q \in PoolIds : IdleEvent(d, q)
                 \/ \E q \in PoolIds : ShutdownPool(q)
    BY DEF Event
  <2> QED BY <2>3, <2>4, <2>5, <2>6, <2>7, <2>8 DEF Next
<1>2. ClosedForCause <=> [][\A c \in Conns, p \in PoolIds : Cause(c, p)]_vars
  BY DEF ClosedForCause
<1> HIDE DEF Cause
<1> QED BY <1>1, <1>2, OwnedAlways, CountsAlways, PTL DEF Spec
=============================================================================
