------------------------ MODULE DatabaseCacheProofs ------------------------
(* Theorems about Kong's cache, for any number of workers, calls, admin    *)
(* requests and keys, any size of the local caches and any bound on        *)
(* changes and faults. What the operations of resty.lrucache preserve, for *)
(* every size and set of keys, comes first.                                *)
EXTENDS DatabaseCache, SequenceTheorems, FiniteSetTheorems, TLAPS

\* Taking a node out of a queue that holds it once leaves all the others.
LEMMA QueueRemove ==
    ASSUME NEW S, NEW q \in Seq(S), NEW n, Distinct(q), In(q, n)
    PROVE  /\ queue_remove(q, n) \in Seq(S)
           /\ Distinct(queue_remove(q, n))
           /\ \A m : In(queue_remove(q, n), m) <=> In(q, m) /\ m # n
<1> DEFINE i == CHOOSE i \in 1..Len(q) : q[i] = n
           r == queue_remove(q, n)
<1>1. i \in 1..Len(q) /\ q[i] = n
  BY DEF In
<1>2. Len(q) \in Nat /\ i \in Nat
  BY <1>1, LenProperties
<1>3. r = SubSeq(q, 1, i - 1) \o SubSeq(q, i + 1, Len(q))
  BY DEF queue_remove, RemoveAt
<1> HIDE DEF i, r
<1>4. /\ SubSeq(q, 1, i - 1) \in Seq(S) /\ Len(SubSeq(q, 1, i - 1)) = i - 1
      /\ \A j \in 1..(i - 1) : SubSeq(q, 1, i - 1)[j] = q[j]
  <2>1. \A j \in 1..(i - 1) : q[j] \in S
    BY <1>1, <1>2
  <2> QED BY <1>1, <1>2, <2>1
<1>5. /\ SubSeq(q, i + 1, Len(q)) \in Seq(S) /\ Len(SubSeq(q, i + 1, Len(q))) = Len(q) - i
      /\ \A j \in 1..(Len(q) - i) : SubSeq(q, i + 1, Len(q))[j] = q[i + j]
  BY <1>1, <1>2
<1>6. /\ r \in Seq(S) /\ Len(r) = Len(q) - 1
      /\ \A j \in 1..(Len(q) - 1) : r[j] = IF j < i THEN q[j] ELSE q[j + 1]
  <2> DEFINE a == SubSeq(q, 1, i - 1)
             b == SubSeq(q, i + 1, Len(q))
  <2>1. a \in Seq(S) /\ Len(a) = i - 1 /\ \A j \in 1..(i - 1) : a[j] = q[j]
    BY <1>4
  <2>2. b \in Seq(S) /\ Len(b) = Len(q) - i /\ \A j \in 1..(Len(q) - i) : b[j] = q[i + j]
    BY <1>5
  <2>3. r = a \o b
    BY <1>3
  <2> HIDE DEF a, b
  <2>4. /\ a \o b \in Seq(S) /\ Len(a \o b) = Len(a) + Len(b)
        /\ \A j \in 1..(Len(a) + Len(b)) :
               (a \o b)[j] = IF j <= Len(a) THEN a[j] ELSE b[j - Len(a)]
    BY <2>1, <2>2, ConcatProperties
  <2>5. Len(a) + Len(b) = Len(q) - 1
    BY <2>1, <2>2, <1>1, <1>2
  <2>6. ASSUME NEW j \in 1..(Len(q) - 1)
        PROVE  r[j] = IF j < i THEN q[j] ELSE q[j + 1]
    <3>1. r[j] = IF j <= i - 1 THEN a[j] ELSE b[j - (i - 1)]
      BY <2>1, <2>3, <2>4, <2>5, <2>6
    <3>2. CASE j < i
      BY <3>1, <3>2, <2>1, <2>6, <1>2
    <3>3. CASE j >= i
      <4>1. j - (i - 1) \in 1..(Len(q) - i) /\ i + (j - (i - 1)) = j + 1
        BY <3>3, <2>6, <1>1, <1>2
      <4>2. b[j - (i - 1)] = q[j + 1]
        BY <4>1, <2>2
      <4> QED BY <4>2, <3>1, <3>3, <2>6, <1>2
    <3> QED BY <3>2, <3>3, <2>6, <1>2
  <2> QED BY <2>3, <2>4, <2>5, <2>6
<1>7. Distinct(r)
  BY <1>1, <1>2, <1>6 DEF Distinct
<1>8. ASSUME NEW m PROVE In(r, m) <=> In(q, m) /\ m # n
  <2>1. ASSUME In(r, m) PROVE In(q, m) /\ m # n
    <3>1. PICK j \in 1..(Len(q) - 1) : r[j] = m
      BY <2>1, <1>6 DEF In
    <3> QED BY <3>1, <1>1, <1>2, <1>6 DEF In, Distinct
  <2>2. ASSUME In(q, m), m # n PROVE In(r, m)
    <3>1. PICK j \in 1..Len(q) : q[j] = m
      BY <2>2 DEF In
    <3>2. j # i
      BY <3>1, <2>2, <1>1
    <3>3. CASE j < i
      BY <3>1, <3>3, <1>1, <1>2, <1>6 DEF In
    <3>4. CASE j > i
      <4>1. j - 1 \in 1..Len(r) /\ r[j - 1] = q[j]
        BY <3>1, <3>4, <1>1, <1>2, <1>6
      <4> QED BY <4>1, <3>1 DEF In
    <3> QED BY <3>1, <3>2, <3>3, <3>4, <1>1, <1>2
  <2> QED BY <2>1, <2>2
<1> QED BY <1>6, <1>7, <1>8 DEF r

\* A node that a queue does not hold goes to its head.
LEMMA QueueInsertHead ==
    ASSUME NEW S, NEW q \in Seq(S), NEW n \in S, Distinct(q), ~In(q, n)
    PROVE  /\ queue_insert_head(q, n) \in Seq(S)
           /\ Distinct(queue_insert_head(q, n))
           /\ \A m : In(queue_insert_head(q, n), m) <=> In(q, m) \/ m = n
<1> DEFINE r == queue_insert_head(q, n)
<1>1. Len(q) \in Nat
  BY LenProperties
<1>2. /\ r \in Seq(S) /\ Len(r) = Len(q) + 1 /\ r[1] = n
      /\ \A j \in 2..(Len(q) + 1) : r[j] = q[j - 1]
  BY <1>1 DEF queue_insert_head
<1> HIDE DEF r
<1>3. Distinct(r)
  <2>1. \A j \in 1..Len(q) : q[j] # n
    BY DEF In
  <2>2. ASSUME NEW x \in 1..Len(r), NEW y \in 1..Len(r), r[x] = r[y] PROVE x = y
    <3>1. CASE x = 1
      BY <1>1, <1>2, <2>1, <2>2, <3>1
    <3>2. CASE y = 1
      BY <1>1, <1>2, <2>1, <2>2, <3>2
    <3>3. CASE x # 1 /\ y # 1
      <4>1. x - 1 \in 1..Len(q) /\ y - 1 \in 1..Len(q) /\ q[x - 1] = q[y - 1]
        BY <1>1, <1>2, <2>2, <3>3
      <4>2. x - 1 = y - 1
        BY <4>1 DEF Distinct
      <4> QED BY <4>2, <1>1, <1>2
    <3> QED BY <3>1, <3>2, <3>3
  <2> QED BY <2>2 DEF Distinct
<1>4. ASSUME NEW m PROVE In(r, m) <=> In(q, m) \/ m = n
  <2>1. ASSUME In(q, m) PROVE In(r, m)
    <3>1. PICK j \in 1..Len(q) : q[j] = m
      BY <2>1 DEF In
    <3>2. j + 1 \in 1..Len(r) /\ r[j + 1] = m
      BY <3>1, <1>1, <1>2
    <3> QED BY <3>2 DEF In
  <2>2. In(r, n)
    BY <1>1, <1>2 DEF In
  <2>3. ASSUME In(r, m), m # n PROVE In(q, m)
    <3>1. PICK j \in 1..Len(r) : r[j] = m
      BY <2>3 DEF In
    <3>2. j - 1 \in 1..Len(q) /\ q[j - 1] = m
      BY <3>1, <2>3, <1>1, <1>2
    <3> QED BY <3>2 DEF In
  <2> QED BY <2>1, <2>2, <2>3
<1> QED BY <1>2, <1>3, <1>4 DEF r

\* ... or to its tail.
LEMMA QueueInsertTail ==
    ASSUME NEW S, NEW q \in Seq(S), NEW n \in S, Distinct(q), ~In(q, n)
    PROVE  /\ Append(q, n) \in Seq(S)
           /\ Distinct(Append(q, n))
           /\ \A m : In(Append(q, n), m) <=> In(q, m) \/ m = n
<1> DEFINE r == Append(q, n)
<1>1. Len(q) \in Nat
  BY LenProperties
<1>2. /\ r \in Seq(S) /\ Len(r) = Len(q) + 1 /\ r[Len(q) + 1] = n
      /\ \A j \in 1..Len(q) : r[j] = q[j]
  BY <1>1, AppendProperties
<1> HIDE DEF r
<1>3. Distinct(r)
  <2>1. \A j \in 1..Len(q) : q[j] # n
    BY DEF In
  <2> QED BY <1>1, <1>2, <2>1 DEF Distinct
<1>4. ASSUME NEW m PROVE In(r, m) <=> In(q, m) \/ m = n
  <2>1. ASSUME In(q, m) PROVE In(r, m)
    <3>1. PICK j \in 1..Len(q) : q[j] = m
      BY <2>1 DEF In
    <3>2. j \in 1..Len(r) /\ r[j] = m
      BY <3>1, <1>1, <1>2
    <3> QED BY <3>2 DEF In
  <2>2. In(r, n)
    BY <1>1, <1>2 DEF In
  <2>3. ASSUME In(r, m), m # n PROVE In(q, m)
    <3>1. PICK j \in 1..Len(r) : r[j] = m
      BY <2>3 DEF In
    <3>2. j \in 1..Len(q) /\ q[j] = m
      BY <3>1, <2>3, <1>1, <1>2
    <3> QED BY <3>2 DEF In
  <2> QED BY <2>1, <2>2, <2>3
<1> QED BY <1>2, <1>3, <1>4 DEF r

-----------------------------------------------------------------------------
(* The operations on a cache of values in V, none of them nil.             *)

LruOK(V, c) == c \in LruType(V) /\ LruConsistent(c)

LEMMA NewOK ==
    ASSUME NEW V PROVE LruOK(V, new)
<1>1. LruSize \in Nat /\ LruSize >= 1 /\ NoKey \notin Keys
  BY LruAssumption
<1> DEFINE f == [n \in Nodes |-> n]
<1>2. f \in Seq(Nodes) /\ Len(f) = LruSize /\ \A i \in 1..LruSize : f[i] = i
  BY <1>1 DEF Nodes
<1>3. <<>> \in Seq(Nodes) /\ Len(<<>>) = 0
  OBVIOUS
<1>4. new \in LruType(V)
  BY <1>2, <1>3 DEF new, LruType
<1> HIDE DEF f
<1>5. Distinct(f) /\ \A n \in Nodes : In(f, n)
  BY <1>1, <1>2 DEF Distinct, In, Nodes
<1>6. Distinct(<<>>) /\ \A n \in Nodes : ~In(<<>>, n)
  BY <1>1, <1>3 DEF Distinct, In
<1>7. new.free_queue = f /\ new.cache_queue = <<>>
  BY DEF new, f
<1>8. NodesKept(new)
  BY <1>5, <1>6, <1>7 DEF NodesKept
<1>9. NodesTied(new)
  BY <1>6 DEF NodesTied, new
<1>10. ValuesBounded(new)
  BY DEF ValuesBounded, new
<1> QED BY <1>4, <1>8, <1>9, <1>10 DEF LruOK, LruConsistent

\* get finds the node it moves in the queue of nodes in use.
LEMMA TouchOK ==
    ASSUME NEW V, NEW c, LruOK(V, c), NEW k \in Keys
    PROVE  LruOK(V, touch(c, k)) /\ touch(c, k).hasht = c.hasht
<1> DEFINE n == c.key2node[k]
           q == c.cache_queue
           d == [c EXCEPT !.cache_queue = queue_insert_head(queue_remove(q, n), n)]
<1>1. c \in LruType(V) /\ NodesKept(c) /\ NodesTied(c) /\ ValuesBounded(c)
  BY DEF LruOK, LruConsistent
<1>2. CASE c.hasht[k] = NoValue
  BY <1>2 DEF touch
<1>3. CASE c.hasht[k] # NoValue
  <2>1. n \in Nodes /\ c.node2key[n] = k
    BY <1>1, <1>3 DEF ValuesBounded, NodesTied, LruType
  <2>2. q \in Seq(Nodes) /\ Distinct(q) /\ In(q, n)
    BY <1>1, <2>1, LruAssumption DEF NodesTied, NodesKept, LruType
  <2>3. /\ queue_remove(q, n) \in Seq(Nodes) /\ Distinct(queue_remove(q, n))
        /\ \A m : In(queue_remove(q, n), m) <=> In(q, m) /\ m # n
    BY <2>2, QueueRemove
  <2>4. /\ d.cache_queue \in Seq(Nodes) /\ Distinct(d.cache_queue)
        /\ \A m : In(d.cache_queue, m) <=> In(q, m)
    <3> DEFINE r == queue_remove(q, n)
    <3>1. r \in Seq(Nodes) /\ Distinct(r) /\ ~In(r, n)
      BY <2>3
    <3> HIDE DEF r
    <3>2. /\ queue_insert_head(r, n) \in Seq(Nodes) /\ Distinct(queue_insert_head(r, n))
          /\ \A m : In(queue_insert_head(r, n), m) <=> In(r, m) \/ m = n
      BY <3>1, <2>1, QueueInsertHead
    <3>3. d.cache_queue = queue_insert_head(r, n)
      BY <1>1 DEF LruType, r
    <3> QED BY <3>2, <3>3, <2>2, <2>3 DEF r
  <2>5. /\ d \in LruType(V) /\ d.hasht = c.hasht /\ d.key2node = c.key2node
        /\ d.node2key = c.node2key /\ d.free_queue = c.free_queue
    BY <1>1, <2>4 DEF LruType
  <2> HIDE DEF d
  <2>6. NodesKept(d) /\ NodesTied(d) /\ ValuesBounded(d)
    BY <1>1, <2>4, <2>5 DEF NodesKept, NodesTied, ValuesBounded
  <2>7. touch(c, k) = d
    BY <1>3 DEF touch, d
  <2> QED BY <2>5, <2>6, <2>7 DEF LruOK, LruConsistent
<1> QED BY <1>2, <1>3

\* delete gives the node of the key back.
LEMMA DeleteOK ==
    ASSUME NEW V, NEW c, LruOK(V, c), NEW k \in Keys
    PROVE  /\ LruOK(V, delete(c, k))
           /\ delete(c, k).hasht = [c.hasht EXCEPT ![k] = NoValue]
<1> DEFINE n == c.key2node[k]
           d == delete(c, k)
<1>1. c \in LruType(V) /\ NodesKept(c) /\ NodesTied(c) /\ ValuesBounded(c)
  BY DEF LruOK, LruConsistent
<1>2. CASE n = NoNode
  <2>1. c.hasht[k] = NoValue
    BY <1>1, <1>2 DEF ValuesBounded
  <2>2. d = [c EXCEPT !.hasht[k] = NoValue]
    BY <1>2 DEF delete
  <2>3. [c EXCEPT !.hasht[k] = NoValue] = c /\ [c.hasht EXCEPT ![k] = NoValue] = c.hasht
    BY <2>1, <1>1 DEF LruType
  <2> QED BY <2>2, <2>3
<1>3. CASE n # NoNode
  <2>1. n \in Nodes /\ c.node2key[n] = k
    BY <1>1, <1>3 DEF NodesTied, LruType
  <2>2. /\ c.cache_queue \in Seq(Nodes) /\ Distinct(c.cache_queue) /\ In(c.cache_queue, n)
        /\ c.free_queue \in Seq(Nodes) /\ Distinct(c.free_queue) /\ ~In(c.free_queue, n)
    BY <1>1, <2>1, LruAssumption DEF NodesTied, NodesKept, LruType
  <2>3. /\ d.hasht = [c.hasht EXCEPT ![k] = NoValue]
        /\ d.key2node = [c.key2node EXCEPT ![k] = NoNode]
        /\ d.node2key = [c.node2key EXCEPT ![n] = NoKey]
        /\ d.cache_queue = queue_remove(c.cache_queue, n)
        /\ d.free_queue = Append(c.free_queue, n)
        /\ d = [ hasht |-> d.hasht, key2node |-> d.key2node, node2key |-> d.node2key,
                 free_queue |-> d.free_queue, cache_queue |-> d.cache_queue ]
    BY <1>1, <1>3 DEF delete, LruType
  <2> HIDE DEF d
  <2>4. /\ d.cache_queue \in Seq(Nodes) /\ Distinct(d.cache_queue)
        /\ \A m : In(d.cache_queue, m) <=> In(c.cache_queue, m) /\ m # n
    BY <2>2, <2>3, QueueRemove
  <2>5. /\ d.free_queue \in Seq(Nodes) /\ Distinct(d.free_queue)
        /\ \A m : In(d.free_queue, m) <=> In(c.free_queue, m) \/ m = n
    BY <2>1, <2>2, <2>3, QueueInsertTail
  <2>6. d \in LruType(V)
    <3>1. /\ d.hasht \in [Keys -> V \cup {NoValue}]
          /\ d.key2node \in [Keys -> Nodes \cup {NoNode}]
          /\ d.node2key \in [Nodes -> Keys \cup {NoKey}]
      BY <1>1, <2>1, <2>3 DEF LruType
    <3> QED BY <3>1, <2>3, <2>4, <2>5 DEF LruType
  <2>7. NodesKept(d)
    BY <1>1, <2>4, <2>5, <2>2 DEF NodesKept
  <2>8. NodesTied(d)
    <3>1. \A j \in Keys : d.key2node[j] # NoNode => d.node2key[d.key2node[j]] = j
      BY <1>1, <2>1, <2>3 DEF NodesTied, LruType
    <3>2. \A m \in Nodes : d.node2key[m] # NoKey => d.key2node[d.node2key[m]] = m
      BY <1>1, <2>1, <2>3, LruAssumption DEF NodesTied, LruType
    <3>3. \A m \in Nodes : In(d.cache_queue, m) <=> d.node2key[m] # NoKey
      BY <1>1, <2>1, <2>3, <2>4 DEF NodesTied, LruType
    <3> QED BY <3>1, <3>2, <3>3 DEF NodesTied
  <2>9. ValuesBounded(d)
    BY <1>1, <2>3 DEF ValuesBounded, LruType
  <2> QED BY <2>3, <2>6, <2>7, <2>8, <2>9 DEF LruOK, LruConsistent, d
<1> QED BY <1>2, <1>3

\* set gives the key the node it has, a free one, or the one used least
\* recently; only the key that owned that node loses its value.
LEMMA SetOK ==
    ASSUME NEW V, NoValue \notin V, NEW c, LruOK(V, c), NEW k \in Keys, NEW v \in V
    PROVE  /\ LruOK(V, set(c, k, v))
           /\ set(c, k, v).hasht[k] = v
           /\ \A j \in Keys \ {k} : set(c, k, v).hasht[j] \in {c.hasht[j], NoValue}
<1> DEFINE n == IF c.key2node[k] = NoNode THEN NodeFor(c) ELSE c.key2node[k]
           d == IF c.key2node[k] = NoNode THEN Evict(c, n) ELSE c
           e == set(c, k, v)
<1>1. c \in LruType(V) /\ NodesKept(c) /\ NodesTied(c) /\ ValuesBounded(c)
  BY DEF LruOK, LruConsistent
<1>2. /\ c.cache_queue \in Seq(Nodes) /\ Distinct(c.cache_queue) /\ Len(c.cache_queue) \in Nat
      /\ c.free_queue \in Seq(Nodes) /\ Distinct(c.free_queue) /\ Len(c.free_queue) \in Nat
  BY <1>1, LenProperties DEF NodesKept, LruType
<1>3. NoKey \notin Keys /\ NoNode \notin Nodes /\ 1 \in Nodes
  BY LruAssumption DEF Nodes, NoNode
\* The node: k's own, or one that is free, or one of another key.
<1>4. /\ n \in Nodes
      /\ \/ c.key2node[k] = n /\ c.node2key[n] = k
         \/ c.key2node[k] = NoNode /\ c.node2key[n] = NoKey
         \/ /\ c.key2node[k] = NoNode /\ c.node2key[n] \in Keys \ {k}
            /\ c.key2node[c.node2key[n]] = n
  <2>1. CASE c.key2node[k] # NoNode
    BY <2>1, <1>1 DEF NodesTied, LruType
  <2>2. CASE c.key2node[k] = NoNode /\ c.free_queue # <<>>
    <3>1. n = c.free_queue[1] /\ 1 \in 1..Len(c.free_queue)
      BY <2>2, <1>2 DEF NodeFor
    <3>2. n \in Nodes /\ In(c.free_queue, n)
      BY <3>1, <1>2 DEF In
    <3>3. c.node2key[n] = NoKey
      BY <3>2, <1>1 DEF NodesKept, NodesTied
    <3> QED BY <2>2, <3>2, <3>3
  <2>3. CASE c.key2node[k] = NoNode /\ c.free_queue = <<>>
    <3>1. ~In(c.free_queue, 1)
      BY <2>3 DEF In
    <3>2. In(c.cache_queue, 1)
      BY <3>1, <1>1, <1>3 DEF NodesKept
    <3>3. Len(c.cache_queue) \in 1..Len(c.cache_queue)
      BY <3>2, <1>2 DEF In
    <3>4. n = c.cache_queue[Len(c.cache_queue)]
      BY <2>3 DEF NodeFor, Last
    <3>5. n \in Nodes /\ In(c.cache_queue, n)
      BY <3>3, <3>4, <1>2 DEF In
    <3>6. c.node2key[n] # NoKey /\ c.node2key[n] \in Keys /\ c.key2node[c.node2key[n]] = n
      BY <3>5, <1>1 DEF NodesTied, LruType
    <3>7. c.node2key[n] # k
      BY <2>3, <3>5, <3>6, <1>3
    <3> QED BY <2>3, <3>5, <3>6, <3>7
  <2> QED BY <2>1, <2>2, <2>3
<1> HIDE DEF n
\* After the eviction no other key leads to the node.
<1>5. /\ d \in LruType(V) /\ d.node2key = c.node2key
      /\ d.free_queue = c.free_queue /\ d.cache_queue = c.cache_queue
      /\ \A j \in Keys \ {k} :
            /\ d.key2node[j] # n
            /\ \/ d.key2node[j] = c.key2node[j] /\ d.hasht[j] = c.hasht[j]
               \/ c.key2node[j] = n /\ d.key2node[j] = NoNode /\ d.hasht[j] = NoValue
  <2>1. CASE c.node2key[n] = k
    <3>1. d = c
      BY <2>1, <1>1, <1>3, <1>4 DEF Evict, LruType
    <3> QED BY <3>1, <2>1, <1>1, <1>3, <1>4 DEF NodesTied, LruType
  <2>2. CASE c.node2key[n] = NoKey
    <3>1. d = c
      BY <2>2, <1>3, <1>4 DEF Evict
    <3> QED BY <3>1, <2>2, <1>1, <1>3, <1>4 DEF NodesTied, LruType
  <2>3. CASE c.node2key[n] \in Keys \ {k}
    <3> DEFINE old == c.node2key[n]
    <3>1. d = [c EXCEPT !.hasht[old] = NoValue, !.key2node[old] = NoNode]
      BY <2>3, <1>3, <1>4 DEF Evict
    <3>2. /\ d \in LruType(V) /\ d.node2key = c.node2key
          /\ d.free_queue = c.free_queue /\ d.cache_queue = c.cache_queue
          /\ d.hasht = [c.hasht EXCEPT ![old] = NoValue]
          /\ d.key2node = [c.key2node EXCEPT ![old] = NoNode]
      <4>1. old \in Keys /\ NoNode \in Nodes \cup {NoNode}
        BY <2>3
      <4> HIDE DEF old, d
      <4>2. /\ c = [ hasht |-> c.hasht, key2node |-> c.key2node, node2key |-> c.node2key,
                     free_queue |-> c.free_queue, cache_queue |-> c.cache_queue ]
            /\ c.hasht \in [Keys -> V \cup {NoValue}]
            /\ c.key2node \in [Keys -> Nodes \cup {NoNode}]
            /\ c.node2key \in [Nodes -> Keys \cup {NoKey}]
        BY <1>1 DEF LruType
      <4>3. /\ [c.hasht EXCEPT ![old] = NoValue] \in [Keys -> V \cup {NoValue}]
            /\ [c.key2node EXCEPT ![old] = NoNode] \in [Keys -> Nodes \cup {NoNode}]
        BY <4>1, <4>2
      <4>4. d = [ hasht |-> [c.hasht EXCEPT ![old] = NoValue],
                  key2node |-> [c.key2node EXCEPT ![old] = NoNode],
                  node2key |-> c.node2key,
                  free_queue |-> c.free_queue, cache_queue |-> c.cache_queue ]
        BY <3>1, <4>2
      <4> QED BY <4>2, <4>3, <4>4, <1>2 DEF LruType
    <3>3. c.key2node[old] = n
      BY <2>3, <1>3, <1>4
    <3>4. \A j \in Keys \ {k, old} : c.key2node[j] # n
      BY <1>1, <1>3, <1>4 DEF NodesTied, LruType
    <3> QED BY <3>2, <3>3, <3>4, <2>3, <1>1, <1>3, <1>4 DEF LruType
  <2> QED BY <2>1, <2>2, <2>3, <1>1, <1>4 DEF LruType
<1> DEFINE fq == IF In(c.free_queue, n) THEN queue_remove(c.free_queue, n) ELSE c.free_queue
           cq == IF In(c.cache_queue, n) THEN queue_remove(c.cache_queue, n) ELSE c.cache_queue
<1>6. /\ fq \in Seq(Nodes) /\ Distinct(fq)
      /\ \A m : In(fq, m) <=> In(c.free_queue, m) /\ m # n
  BY <1>2, QueueRemove
<1>7. /\ cq \in Seq(Nodes) /\ Distinct(cq)
      /\ \A m : In(cq, m) <=> In(c.cache_queue, m) /\ m # n
  BY <1>2, QueueRemove
<1> HIDE DEF d
<1>8. /\ e.hasht = [d.hasht EXCEPT ![k] = v]
      /\ e.key2node = [d.key2node EXCEPT ![k] = n]
      /\ e.node2key = [c.node2key EXCEPT ![n] = k]
      /\ e.free_queue = fq
      /\ e.cache_queue = queue_insert_head(cq, n)
      /\ e = [ hasht |-> e.hasht, key2node |-> e.key2node, node2key |-> e.node2key,
               free_queue |-> e.free_queue, cache_queue |-> e.cache_queue ]
  <2>1. e = [Assign(d, k, n) EXCEPT !.hasht[k] = v]
    BY DEF set, n, d
  <2> QED BY <2>1, <1>5, ZenonT(60) DEF Assign, LruType
<1> HIDE DEF e, fq, cq
<1>9. /\ e.cache_queue \in Seq(Nodes) /\ Distinct(e.cache_queue)
      /\ \A m : In(e.cache_queue, m) <=> In(c.cache_queue, m) \/ m = n
  <2>1. ~In(cq, n)
    BY <1>7
  <2>2. /\ queue_insert_head(cq, n) \in Seq(Nodes) /\ Distinct(queue_insert_head(cq, n))
        /\ \A m : In(queue_insert_head(cq, n), m) <=> In(cq, m) \/ m = n
    BY <2>1, <1>4, <1>7, QueueInsertHead
  <2> QED BY <2>2, <1>7, <1>8
<1>10. e \in LruType(V)
  <2>1. /\ e.hasht \in [Keys -> V \cup {NoValue}]
        /\ e.key2node \in [Keys -> Nodes \cup {NoNode}]
        /\ e.node2key \in [Nodes -> Keys \cup {NoKey}]
    BY <1>1, <1>4, <1>5, <1>8 DEF LruType
  <2> QED BY <2>1, <1>6, <1>8, <1>9 DEF LruType
<1>11. NodesKept(e)
  BY <1>1, <1>4, <1>6, <1>8, <1>9 DEF NodesKept
<1>12. NodesTied(e)
  <2>1. \A m \in Nodes : c.node2key[m] = k => m = n
    BY <1>1, <1>3, <1>4 DEF NodesTied
  <2>2. ASSUME NEW j \in Keys, e.key2node[j] # NoNode
        PROVE  e.node2key[e.key2node[j]] = j
    <3>1. CASE j = k
      BY <3>1, <1>1, <1>4, <1>5, <1>8 DEF LruType
    <3>2. CASE j # k
      <4>1. e.key2node[j] = d.key2node[j] /\ d.key2node[j] # n /\ d.key2node[j] = c.key2node[j]
        BY <3>2, <2>2, <1>5, <1>8 DEF LruType
      <4>2. c.node2key[c.key2node[j]] = j /\ c.key2node[j] \in Nodes
        BY <4>1, <2>2, <1>1 DEF NodesTied, LruType
      <4> QED BY <4>1, <4>2, <1>1, <1>8 DEF LruType
    <3> QED BY <3>1, <3>2
  <2>3. ASSUME NEW m \in Nodes, e.node2key[m] # NoKey
        PROVE  e.key2node[e.node2key[m]] = m
    <3>1. CASE m = n
      BY <3>1, <1>1, <1>4, <1>5, <1>8 DEF LruType
    <3>2. CASE m # n
      <4> DEFINE j == c.node2key[m]
      <4>1. e.node2key[m] = j /\ j # NoKey /\ j \in Keys /\ c.key2node[j] = m
        BY <3>2, <2>3, <1>1, <1>8 DEF NodesTied, LruType
      <4>2. j # k
        BY <2>1, <3>2
      <4>3. d.key2node[j] = m
        BY <4>1, <4>2, <3>2, <1>5
      <4> QED BY <4>1, <4>2, <4>3, <1>5, <1>8 DEF LruType
    <3> QED BY <3>1, <3>2
  <2>4. \A m \in Nodes : In(e.cache_queue, m) <=> e.node2key[m] # NoKey
    BY <1>1, <1>3, <1>4, <1>8, <1>9 DEF NodesTied, LruType
  <2> QED BY <2>2, <2>3, <2>4 DEF NodesTied
<1>13. ValuesBounded(e)
  <2>1. ASSUME NEW j \in Keys PROVE e.hasht[j] # NoValue <=> e.key2node[j] # NoNode
    <3>1. CASE j = k
      BY <3>1, <1>3, <1>4, <1>5, <1>8 DEF LruType
    <3>2. CASE j # k
      <4>1. e.hasht[j] = d.hasht[j] /\ e.key2node[j] = d.key2node[j]
        BY <3>2, <1>5, <1>8 DEF LruType
      <4> QED BY <4>1, <3>2, <1>1, <1>5 DEF ValuesBounded
    <3> QED BY <3>1, <3>2
  <2> QED BY <2>1 DEF ValuesBounded
<1>14. e.hasht[k] = v /\ \A j \in Keys \ {k} : e.hasht[j] \in {c.hasht[j], NoValue}
  BY <1>5, <1>8 DEF LruType
<1> QED BY <1>10, <1>11, <1>12, <1>13, <1>14 DEF LruOK, LruConsistent, e

-----------------------------------------------------------------------------
(* Types, and the local caches, which need each other: where no node is    *)
(* free the type of the node that set takes rests on NodesKept.            *)

LocalOK == \A w \in Workers : LruOK(Versions, lru[w])

\* A call that has begun has a key; one that has its answer has a value.
CallsBegun ==
    \A t \in Threads : /\ thread[t].pc # "idle" => thread[t].key \in Keys
                       /\ thread[t].pc = "loaded" => thread[t].val \in Versions

\* What an update has read, and so its event, names a key.
UpdatesNamed ==
    /\ \A a \in Admins : patch[a] # NotBegun => patch[a].at \in Keys
    /\ \A e \in serf : e.type = "updated" => e.key \in Keys

TypeInv == TypeOK /\ LocalOK /\ CallsBegun /\ UpdatesNamed

\* Looking for a key finds a version or nothing, and leaves the cache sound.
LEMMA LookedOK ==
    ASSUME TypeOK, LocalOK, NEW w \in Workers, NEW k \in Keys
    PROVE  LruOK(Versions, Looked(w, k))
<1>1. LruOK(Versions, lru[w]) /\ NoValue \notin Versions
  BY CacheAssumption DEF LocalOK, Versions, Missing
<1>2. CASE peek(lru[w], k) # NoValue
  BY <1>1, <1>2, TouchOK DEF Looked
<1>3. CASE peek(lru[w], k) = NoValue /\ shm[k] # NoValue
  <2>1. shm[k] \in Versions
    BY <1>3 DEF TypeOK
  <2>2. Looked(w, k) = set(lru[w], k, shm[k])
    BY <1>3 DEF Looked
  <2> QED BY <1>1, <2>1, <2>2, SetOK
<1>4. CASE peek(lru[w], k) = NoValue /\ shm[k] = NoValue
  BY <1>1, <1>4 DEF Looked
<1> QED BY <1>2, <1>3, <1>4

\* A step that gives one worker a sound cache keeps all of them sound.
LEMMA LocalStep ==
    ASSUME TypeOK, LocalOK, NEW w \in Workers, NEW c, LruOK(Versions, c),
           lru' = [lru EXCEPT ![w] = c]
    PROVE  LocalOK' /\ lru' \in [Workers -> LruType(Versions)]
<1>1. lru \in [Workers -> LruType(Versions)]
  BY DEF TypeOK
<1>2. c \in LruType(Versions)
  BY DEF LruOK
<1>3. lru' \in [Workers -> LruType(Versions)]
  BY <1>1, <1>2
<1>4. \A x \in Workers : lru'[x] = c \/ lru'[x] = lru[x]
  BY <1>1
<1>5. \A x \in Workers : LruOK(Versions, lru'[x])
  BY <1>4 DEF LocalOK
<1>6. LocalOK'
  BY <1>5 DEF LocalOK
<1> QED BY <1>3, <1>6

LEMMA TruthIsVersion ==
    ASSUME TypeOK, NEW k \in Keys PROVE Truth(k) \in Versions
  BY CacheAssumption DEF TypeOK, Truth, Versions, Missing

LEMMA TypeInit == Init => TypeInv
<1> SUFFICES ASSUME Init PROVE TypeInv
  OBVIOUS
<1>1. 0 \in Versions /\ 1 \in Versions
  BY CacheAssumption DEF Versions, Missing
<1>2. LocalOK /\ lru \in [Workers -> LruType(Versions)]
  BY NewOK DEF Init, LocalOK, LruOK
<1>3. TypeOK
  <2>1. row \in [id : 0..MaxChanges, at : Keys \cup {NoKey}, ver : Versions]
    BY <1>1, CacheAssumption DEF Init, Absent, Versions, Missing
  <2>2. patch \in [Admins -> [id : 0..MaxChanges, at : Keys \cup {NoKey}]]
    BY CacheAssumption DEF Init, NotBegun
  <2>3. thread \in [Threads -> [ pc  : {"idle", "locking", "loading", "loaded"},
                                 key : Keys \cup {NoKey},
                                 val : Versions \cup {NoValue} ]]
    BY DEF Init, Idle
  <2> QED BY <1>1, <1>2, <2>1, <2>2, <2>3 DEF Init, TypeOK
<1>4. CallsBegun /\ UpdatesNamed
  BY DEF Init, CallsBegun, UpdatesNamed, Idle
<1> QED BY <1>2, <1>3, <1>4 DEF TypeInv

LEMMA TypeNext == TypeInv /\ [Next]_vars => TypeInv'
<1> SUFFICES ASSUME TypeInv, [Next]_vars PROVE TypeInv'
  OBVIOUS
<1> USE DEF db, events, caches, calls, vars
<1>a. TypeOK /\ LocalOK /\ CallsBegun /\ UpdatesNamed
  BY DEF TypeInv
<1>b. NoValue \notin Versions /\ Nobody \notin Threads /\ AllKeys \notin Keys \cup {NoKey}
      /\ MaxChanges \in Nat /\ Missing \in Versions /\ 0 \in 0..MaxChanges
      /\ Versions = 0..MaxChanges /\ NoKey \notin Keys
  BY CacheAssumption, LruAssumption DEF Versions, Missing
<1>c. WorkerOf \in [Threads -> Workers]
  BY CacheAssumption
<1>1. ASSUME NEW t \in Threads, NEW k \in Keys, GetOrSet(t, k) PROVE TypeInv'
  <2>1. LruOK(Versions, Looked(WorkerOf[t], k)) /\ WorkerOf[t] \in Workers
    BY <1>a, <1>c, LookedOK
  <2>2. lru' = [lru EXCEPT ![WorkerOf[t]] = Looked(WorkerOf[t], k)]
    BY <1>1 DEF GetOrSet, get
  <2>3. LocalOK' /\ lru' \in [Workers -> LruType(Versions)]
    BY <1>a, <2>1, <2>2, LocalStep
  <2>4. thread' = thread \/ thread' = [thread EXCEPT ![t] = [pc |-> "locking", key |-> k, val |-> NoValue]]
    BY <1>1 DEF GetOrSet, Idle
  <2>5. UNCHANGED <<row, patch, changes, serf, queue, shm, lock, lapsed, excused>>
    BY <1>1 DEF GetOrSet
  <2>8. thread' \in [Threads -> [ pc  : {"idle", "locking", "loading", "loaded"},
                                 key : Keys \cup {NoKey},
                                 val : Versions \cup {NoValue} ]]
    <3>1. [pc |-> "locking", key |-> k, val |-> NoValue] \in
              [ pc  : {"idle", "locking", "loading", "loaded"},
                key : Keys \cup {NoKey}, val : Versions \cup {NoValue} ]
      OBVIOUS
    <3> QED BY <1>a, <2>4, <3>1 DEF TypeOK
  <2>6. TypeOK'
    BY <1>a, <2>3, <2>5, <2>8 DEF TypeOK
  <2>7. CallsBegun' /\ UpdatesNamed'
    BY <1>a, <2>4, <2>5 DEF TypeOK, CallsBegun, UpdatesNamed
  <2> QED BY <2>3, <2>6, <2>7 DEF TypeInv
<1>2. ASSUME NEW t \in Threads, Locked(t) PROVE TypeInv'
  <2> DEFINE k == thread[t].key
  <2>1. k \in Keys
    BY <1>2, <1>a DEF Locked, CallsBegun
  <2>2. LruOK(Versions, Looked(WorkerOf[t], k)) /\ WorkerOf[t] \in Workers
    BY <1>a, <1>c, <2>1, LookedOK
  <2>3. lru' = [lru EXCEPT ![WorkerOf[t]] = Looked(WorkerOf[t], k)]
    BY <1>2 DEF Locked, get
  <2>4. LocalOK' /\ lru' \in [Workers -> LruType(Versions)]
    BY <1>a, <2>2, <2>3, LocalStep
  <2>5. \/ thread' = [thread EXCEPT ![t] = Idle] /\ lock' = lock
        \/ thread' = [thread EXCEPT ![t].pc = "loading"] /\ lock' = [lock EXCEPT ![k] = t]
    BY <1>2 DEF Locked
  <2>6. UNCHANGED <<row, patch, changes, serf, queue, shm, lapsed, excused>>
    BY <1>2 DEF Locked
  <2>9. thread \in [Threads -> [ pc  : {"idle", "locking", "loading", "loaded"},
                                 key : Keys \cup {NoKey},
                                 val : Versions \cup {NoValue} ]]
    BY <1>a DEF TypeOK
  <2>10. thread' \in [Threads -> [ pc  : {"idle", "locking", "loading", "loaded"},
                                 key : Keys \cup {NoKey},
                                 val : Versions \cup {NoValue} ]]
    BY <2>5, <2>9 DEF Idle
  <2>11. lock' \in [Keys -> Threads \cup {Nobody}]
    BY <1>a, <2>1, <2>5 DEF TypeOK
  <2>7. TypeOK'
    BY <1>a, <2>4, <2>6, <2>10, <2>11 DEF TypeOK
  <2>12. CallsBegun'
    <3>1. CASE thread' = [thread EXCEPT ![t] = Idle]
      BY <1>a, <2>9, <3>1 DEF CallsBegun, Idle
    <3>2. CASE thread' = [thread EXCEPT ![t].pc = "loading"]
      BY <1>a, <2>1, <2>9, <3>2 DEF CallsBegun
    <3> QED BY <2>5, <3>1, <3>2
  <2>8. CallsBegun' /\ UpdatesNamed'
    BY <1>a, <2>6, <2>12 DEF UpdatesNamed
  <2> QED BY <2>4, <2>7, <2>8 DEF TypeInv
<1>3. ASSUME NEW t \in Threads, Load(t) PROVE TypeInv'
  <2>1. thread[t].key \in Keys
    BY <1>3, <1>a DEF Load, CallsBegun
  <2>2. Truth(thread[t].key) \in Versions
    BY <1>a, <2>1, TruthIsVersion
  <2>3. thread' = [thread EXCEPT ![t].pc = "loaded", ![t].val = Truth(thread[t].key)]
    BY <1>3 DEF Load
  <2>4. UNCHANGED <<row, patch, changes, serf, queue, lru, shm, lock, lapsed, excused>>
    BY <1>3 DEF Load
  <2> HIDE DEF Truth
  <2>5. thread' \in [Threads -> [ pc  : {"idle", "locking", "loading", "loaded"},
                                 key : Keys \cup {NoKey},
                                 val : Versions \cup {NoValue} ]]
    <3>1. thread \in [Threads -> [ pc  : {"idle", "locking", "loading", "loaded"},
                                   key : Keys \cup {NoKey},
                                   val : Versions \cup {NoValue} ]]
      BY <1>a DEF TypeOK
    <3> QED BY <2>2, <2>3, <3>1
  <2>6. TypeOK'
    BY <1>a, <2>4, <2>5 DEF TypeOK
  <2>7. CallsBegun'
    BY <1>a, <2>1, <2>2, <2>3 DEF TypeOK, CallsBegun
  <2>8. LocalOK' /\ UpdatesNamed'
    BY <1>a, <2>4 DEF LocalOK, UpdatesNamed
  <2> QED BY <2>6, <2>7, <2>8 DEF TypeInv
<1>4. ASSUME NEW t \in Threads, LockTimeout(t) \/ LoadFails(t) \/ LoadAborts(t)
      PROVE  TypeInv'
  <2>1. thread' = [thread EXCEPT ![t] = Idle]
    BY <1>4 DEF LockTimeout, LoadFails, LoadAborts
  <2>2. lock' = lock \/ lock' = [lock EXCEPT ![thread[t].key] = Nobody]
    BY <1>4 DEF LockTimeout, LoadFails, LoadAborts, unlock
  <2>3. UNCHANGED <<row, patch, changes, serf, queue, lru, shm, lapsed, excused>>
    BY <1>4 DEF LockTimeout, LoadFails, LoadAborts
  <2>4. TypeOK'
    BY <1>a, <2>1, <2>2, <2>3 DEF TypeOK, Idle
  <2>5. CallsBegun'
    BY <1>a, <2>1 DEF TypeOK, CallsBegun, Idle
  <2>6. LocalOK' /\ UpdatesNamed'
    BY <1>a, <2>3 DEF LocalOK, UpdatesNamed
  <2> QED BY <2>4, <2>5, <2>6 DEF TypeInv
<1>5. ASSUME NEW t \in Threads, Store(t) PROVE TypeInv'
  <2> DEFINE k == thread[t].key
             w == WorkerOf[t]
  <2>1. k \in Keys /\ thread[t].val \in Versions /\ w \in Workers
    BY <1>5, <1>a, <1>c DEF Store, CallsBegun
  <2>2. LruOK(Versions, set(lru[w], k, thread[t].val))
    BY <1>a, <1>b, <2>1, SetOK DEF LocalOK
  <2>3. lru' = [lru EXCEPT ![w] = set(lru[w], k, thread[t].val)]
    BY <1>5, <1>a, <2>1 DEF Store, TypeOK
  <2>4. LocalOK' /\ lru' \in [Workers -> LruType(Versions)]
    BY <1>a, <2>1, <2>2, <2>3, LocalStep
  <2>5. /\ shm' = [shm EXCEPT ![k] = thread[t].val] \/ shm' = shm
        /\ lock' = [lock EXCEPT ![k] = Nobody]
        /\ thread' = [thread EXCEPT ![t] = Idle]
        /\ UNCHANGED <<row, patch, changes, serf, queue, lapsed, excused>>
    BY <1>5 DEF Store, unlock
  <2>6. TypeOK'
    BY <1>a, <2>1, <2>4, <2>5 DEF TypeOK, Idle
  <2>7. CallsBegun' /\ UpdatesNamed'
    BY <1>a, <2>5 DEF TypeOK, CallsBegun, UpdatesNamed, Idle
  <2> QED BY <2>4, <2>6, <2>7 DEF TypeInv
<1>6. ASSUME NEW k \in Keys, Lapse(k) \/ EvictShared(k) PROVE TypeInv'
  <2>1. /\ lock' = lock \/ lock' = [lock EXCEPT ![k] = Nobody]
        /\ shm' = shm \/ shm' = [shm EXCEPT ![k] = NoValue]
        /\ lapsed' = lapsed \/ lapsed' = lapsed \cup {k}
        /\ UNCHANGED <<row, patch, changes, serf, queue, lru, thread, excused>>
    BY <1>6 DEF Lapse, EvictShared, unlock
  <2>2. TypeOK'
    BY <1>a, <2>1 DEF TypeOK
  <2>3. LocalOK' /\ CallsBegun' /\ UpdatesNamed'
    BY <1>a, <2>1 DEF LocalOK, CallsBegun, UpdatesNamed
  <2> QED BY <2>2, <2>3 DEF TypeInv
\* Changes of the row: the event has the type of one, and names a key.
<1>7. ASSUME NEW e, NEW moved, Announce(e, moved), moved \subseteq Keys,
             e.key \in Keys, e.nr \in Versions,
             row' \in [id : 0..MaxChanges, at : Keys \cup {NoKey}, ver : Versions],
             changes' \in Versions,
             \A a \in Admins : patch'[a] \in {patch[a], NotBegun},
             patch' \in [Admins -> [id : 0..MaxChanges, at : Keys \cup {NoKey}]],
             UNCHANGED <<queue, lru, shm, lock, thread, lapsed>>
      PROVE  TypeInv'
  <2>1. serf' = serf \cup {e} \/ serf' = serf
    BY <1>7 DEF Announce
  <2>2. excused' \subseteq Keys
    BY <1>7, <1>a DEF Announce, TypeOK
  <2>3. TypeOK'
    BY <1>a, <1>7, <2>1, <2>2 DEF TypeOK
  <2>4. UpdatesNamed'
    BY <1>a, <1>7, <2>1 DEF UpdatesNamed
  <2>5. LocalOK' /\ CallsBegun'
    BY <1>a, <1>7 DEF LocalOK, CallsBegun
  <2> QED BY <2>3, <2>4, <2>5 DEF TypeInv
<1>8. ASSUME NEW k \in Keys, Insert(k) PROVE TypeInv'
  <2> DEFINE r == [id |-> changes + 1, at |-> k, ver |-> changes + 1]
             e == Event("created", r, k)
  <2>1. changes \in Versions /\ changes < MaxChanges
    BY <1>8, <1>a DEF Insert, TypeOK
  <2>2. changes + 1 \in Versions
    BY <2>1, <1>b
  <2>3. Announce(e, {k})
    BY <1>8 DEF Insert
  <2>4. e.key = k /\ e.nr = changes + 1
    BY DEF Event
  <2>5. row' = r /\ changes' = changes + 1 /\ UNCHANGED <<patch, queue, lru, shm, lock, thread, lapsed>>
    BY <1>8 DEF Insert
  <2>6. r \in [id : 0..MaxChanges, at : Keys \cup {NoKey}, ver : Versions]
    BY <2>2, <1>b
  <2> HIDE DEF r, e
  <2>7. patch' \in [Admins -> [id : 0..MaxChanges, at : Keys \cup {NoKey}]]
    BY <1>a, <2>5 DEF TypeOK
  <2> QED BY <1>7, <2>2, <2>3, <2>4, <2>5, <2>6, <2>7
<1>9. ASSUME NEW a \in Admins, BeginUpdate(a) PROVE TypeInv'
  <2>1. row.at \in Keys /\ row.id \in 0..MaxChanges
    BY <1>9, <1>a DEF BeginUpdate, TypeOK
  <2>2. /\ patch' = [patch EXCEPT ![a] = [id |-> row.id, at |-> row.at]]
        /\ UNCHANGED <<row, changes, serf, queue, lru, shm, lock, thread, lapsed, excused>>
    BY <1>9 DEF BeginUpdate
  <2>3. TypeOK'
    BY <1>a, <2>1, <2>2 DEF TypeOK
  <2>4. UpdatesNamed'
    BY <1>a, <2>1, <2>2 DEF TypeOK, UpdatesNamed
  <2>5. LocalOK' /\ CallsBegun'
    BY <1>a, <2>2 DEF LocalOK, CallsBegun
  <2> QED BY <2>3, <2>4, <2>5 DEF TypeInv
<1>10. ASSUME NEW a \in Admins, NEW k \in Keys, EndUpdate(a, k) PROVE TypeInv'
  <2>1. /\ patch' = [patch EXCEPT ![a] = NotBegun]
        /\ UNCHANGED <<queue, lru, shm, lock, thread, lapsed>>
    BY <1>10 DEF EndUpdate
  <2>2. patch' \in [Admins -> [id : 0..MaxChanges, at : Keys \cup {NoKey}]]
    BY <1>a, <1>b, <2>1 DEF TypeOK, NotBegun
  <2>3. \A b \in Admins : patch'[b] \in {patch[b], NotBegun}
    BY <1>a, <2>1 DEF TypeOK
  <2>4. CASE row.at # NoKey /\ row.id = patch[a].id
    <3> DEFINE e == Event("updated", row, patch[a].at)
    <3>1. /\ row' = [row EXCEPT !.at = k, !.ver = changes + 1]
          /\ changes' = changes + 1
          /\ Announce(e, {row.at, k})
      BY <1>10, <2>4 DEF EndUpdate
    <3>2. changes \in Versions /\ changes < MaxChanges /\ patch[a].at \in Keys /\ row.at \in Keys
      BY <1>10, <1>a, <2>4 DEF EndUpdate, TypeOK, UpdatesNamed
    <3>3. changes + 1 \in Versions
      BY <3>2, <1>b
    <3>4. row' \in [id : 0..MaxChanges, at : Keys \cup {NoKey}, ver : Versions]
      BY <1>a, <3>1, <3>3 DEF TypeOK
    <3>5. e.key = patch[a].at /\ e.nr = changes + 1
      BY DEF Event
    <3> HIDE DEF e
    <3>6. {row.at, k} \subseteq Keys
      BY <3>2
    <3> QED BY <1>7, <2>1, <2>2, <2>3, <3>1, <3>2, <3>3, <3>4, <3>5, <3>6
  <2>5. CASE ~(row.at # NoKey /\ row.id = patch[a].id)
    <3>1. UNCHANGED <<row, changes, serf, excused>>
      BY <1>10, <2>5 DEF EndUpdate
    <3>2. TypeOK'
      BY <1>a, <2>1, <2>2, <3>1 DEF TypeOK
    <3>3. LocalOK' /\ CallsBegun' /\ UpdatesNamed'
      BY <1>a, <2>1, <2>3, <3>1 DEF LocalOK, CallsBegun, UpdatesNamed
    <3> QED BY <3>2, <3>3 DEF TypeInv
  <2> QED BY <2>4, <2>5
<1>11. ASSUME Delete PROVE TypeInv'
  <2> DEFINE e == Event("deleted", row, row.at)
  <2>1. row.at \in Keys /\ changes \in Versions /\ changes < MaxChanges
    BY <1>11, <1>a DEF Delete, TypeOK
  <2>2. changes + 1 \in Versions
    BY <2>1, <1>b
  <2>3. /\ row' = Absent /\ changes' = changes + 1 /\ Announce(e, {row.at})
        /\ UNCHANGED <<patch, queue, lru, shm, lock, thread, lapsed>>
    BY <1>11 DEF Delete
  <2>4. Absent \in [id : 0..MaxChanges, at : Keys \cup {NoKey}, ver : Versions]
    BY <1>b DEF Absent
  <2>5. e.key = row.at /\ e.nr = changes + 1
    BY DEF Event
  <2> HIDE DEF e
  <2>6. patch' \in [Admins -> [id : 0..MaxChanges, at : Keys \cup {NoKey}]]
    BY <1>a, <2>3 DEF TypeOK
  <2>7. {row.at} \subseteq Keys
    BY <2>1
  <2> QED BY <1>7, <2>1, <2>2, <2>3, <2>4, <2>5, <2>6, <2>7
<1>12. ASSUME MemberEvent PROVE TypeInv'
  <2> DEFINE e == [type |-> "member", id |-> 0, key |-> AllKeys, nr |-> 0]
  <2>1. /\ serf' = serf \cup {e}
        /\ UNCHANGED <<row, patch, changes, queue, lru, shm, lock, thread, lapsed, excused>>
    BY <1>12 DEF MemberEvent
  <2>2. e.key = AllKeys /\ e.nr \in Versions /\ e.type # "updated"
    BY <1>b
  <2> HIDE DEF e
  <2>3. TypeOK'
    BY <1>a, <2>1, <2>2 DEF TypeOK
  <2>4. UpdatesNamed'
    BY <1>a, <2>1, <2>2 DEF UpdatesNamed
  <2>5. LocalOK' /\ CallsBegun'
    BY <1>a, <2>1 DEF LocalOK, CallsBegun
  <2> QED BY <2>3, <2>4, <2>5 DEF TypeInv
<1>13. ASSUME NEW e \in serf, Deliver(e) PROVE TypeInv'
  <2>1. e.key \in Keys \cup {AllKeys} /\ (e.type = "updated" => e.key \in Keys)
    BY <1>a DEF TypeOK, UpdatesNamed
  <2>2. /\ serf' \subseteq serf
        /\ UNCHANGED <<row, patch, changes, lru, shm, lock, thread, lapsed>>
    BY <1>13 DEF Deliver
  <2>3. excused' \subseteq Keys
    BY <1>13, <1>a, <2>1 DEF Deliver, Ignored, TypeOK
  <2>4. queue' \in [Workers -> Seq(Keys \cup {AllKeys})]
    <3>1. queue \in [Workers -> Seq(Keys \cup {AllKeys})]
      BY <1>a DEF TypeOK
    <3>2. \A w \in Workers : Append(queue[w], e.key) \in Seq(Keys \cup {AllKeys})
      BY <3>1, <2>1, AppendProperties
    <3>3. queue' = queue \/ queue' = [w \in Workers |-> Append(queue[w], e.key)]
      BY <1>13 DEF Deliver
    <3> QED BY <3>1, <3>2, <3>3
  <2>5. TypeOK'
    BY <1>a, <2>2, <2>3, <2>4 DEF TypeOK
  <2>6. LocalOK' /\ CallsBegun' /\ UpdatesNamed'
    BY <1>a, <2>2 DEF LocalOK, CallsBegun, UpdatesNamed
  <2> QED BY <2>5, <2>6 DEF TypeInv
\* The queue of a worker after one event.
<1>14. ASSUME NEW w \in Workers, queue[w] # <<>>
       PROVE  /\ [queue EXCEPT ![w] = Tail(queue[w])] \in [Workers -> Seq(Keys \cup {AllKeys})]
              /\ Head(queue[w]) \in Keys \cup {AllKeys}
              /\ Named(Head(queue[w])) \subseteq Keys
  <2>1. queue \in [Workers -> Seq(Keys \cup {AllKeys})]
    BY <1>a DEF TypeOK
  <2>2. /\ Tail(queue[w]) \in Seq(Keys \cup {AllKeys})
        /\ Head(queue[w]) \in Keys \cup {AllKeys}
    BY <1>14, <2>1, HeadTailProperties
  <2> QED BY <2>1, <2>2 DEF Named
<1>15. ASSUME NEW w \in Workers, HandleEvent(w) PROVE TypeInv'
  <2> DEFINE x == Head(queue[w])
  <2>1. /\ queue[w] # <<>> /\ queue' = [queue EXCEPT ![w] = Tail(queue[w])]
        /\ excused' = excused \cup (Overtaken \cap Named(x))
        /\ UNCHANGED <<row, patch, changes, serf, lock, thread, lapsed>>
    BY <1>15, <1>a DEF HandleEvent, TypeOK
  <2>2. PICK c : LruOK(Versions, c) /\ lru' = [lru EXCEPT ![w] = c]
    <3>1. CASE x = AllKeys
      <4>1. lru' = [lru EXCEPT ![w] = new]
        BY <1>15, <3>1 DEF HandleEvent, DropAll
      <4> QED BY <4>1, NewOK
    <3>2. CASE x # AllKeys
      <4>1. lru' = [lru EXCEPT ![w] = delete(lru[w], x)]
        BY <1>15, <3>2, <1>a DEF HandleEvent, Drop, TypeOK
      <4>2. x \in Keys
        BY <3>2, <2>1, <1>14
      <4>3. LruOK(Versions, delete(lru[w], x))
        BY <4>2, <1>a, DeleteOK DEF LocalOK
      <4> QED BY <4>1, <4>3
    <3> QED BY <3>1, <3>2
  <2>3. LocalOK' /\ lru' \in [Workers -> LruType(Versions)]
    BY <1>a, <2>2, LocalStep
  <2>4. shm' \in [Keys -> Versions \cup {NoValue}]
    BY <1>15, <1>a DEF HandleEvent, Drop, DropAll, TypeOK
  <2>5. queue' \in [Workers -> Seq(Keys \cup {AllKeys})] /\ excused' \subseteq Keys
    BY <1>14, <2>1, <1>a DEF TypeOK
  <2>6. TypeOK'
    BY <1>a, <2>1, <2>3, <2>4, <2>5 DEF TypeOK
  <2>7. CallsBegun' /\ UpdatesNamed'
    BY <1>a, <2>1 DEF CallsBegun, UpdatesNamed
  <2> QED BY <2>3, <2>6, <2>7 DEF TypeInv
<1>16. ASSUME NEW w \in Workers, MissEvent(w) PROVE TypeInv'
  <2>1. /\ queue[w] # <<>> /\ queue' = [queue EXCEPT ![w] = Tail(queue[w])]
        /\ excused' = excused \cup Named(Head(queue[w]))
        /\ UNCHANGED <<row, patch, changes, serf, lru, shm, lock, thread, lapsed>>
    BY <1>16, <1>a DEF MissEvent, TypeOK
  <2>2. queue' \in [Workers -> Seq(Keys \cup {AllKeys})] /\ excused' \subseteq Keys
    BY <1>14, <2>1, <1>a DEF TypeOK
  <2>3. TypeOK'
    BY <1>a, <2>1, <2>2 DEF TypeOK
  <2>4. LocalOK' /\ CallsBegun' /\ UpdatesNamed'
    BY <1>a, <2>1 DEF LocalOK, CallsBegun, UpdatesNamed
  <2> QED BY <2>3, <2>4 DEF TypeInv
<1>17. ASSUME NEW w \in Workers, Crash(w) PROVE TypeInv'
  <2>1. /\ lru' = [lru EXCEPT ![w] = new]
        /\ queue' = [queue EXCEPT ![w] = <<>>]
        /\ thread' = [t \in Threads |-> IF WorkerOf[t] = w THEN Idle ELSE thread[t]]
        /\ excused' = excused \cup UNION {Named(queue[w][i]) : i \in 1..Len(queue[w])}
        /\ UNCHANGED <<row, patch, changes, serf, shm, lock, lapsed>>
    BY <1>17 DEF Crash
  <2>2. LocalOK' /\ lru' \in [Workers -> LruType(Versions)]
    BY <1>a, <2>1, NewOK, LocalStep
  <2>3. excused' \subseteq Keys
    <3>1. \A i \in 1..Len(queue[w]) : queue[w][i] \in Keys \cup {AllKeys}
      BY <1>a DEF TypeOK
    <3> QED BY <3>1, <2>1, <1>a DEF Named, TypeOK
  <2>4. queue' \in [Workers -> Seq(Keys \cup {AllKeys})]
    BY <1>a, <2>1 DEF TypeOK
  <2>5. thread' \in [Threads -> [ pc  : {"idle", "locking", "loading", "loaded"},
                                 key : Keys \cup {NoKey},
                                 val : Versions \cup {NoValue} ]]
    BY <1>a, <2>1 DEF TypeOK, Idle
  <2>6. TypeOK'
    BY <1>a, <2>1, <2>2, <2>3, <2>4, <2>5 DEF TypeOK
  <2>7. CallsBegun' /\ UpdatesNamed'
    BY <1>a, <2>1 DEF CallsBegun, UpdatesNamed, Idle
  <2> QED BY <2>2, <2>6, <2>7 DEF TypeInv
<1>18. CASE UNCHANGED vars
  <2>1. TypeOK' /\ LocalOK' /\ CallsBegun' /\ UpdatesNamed'
    BY <1>a, <1>18 DEF TypeOK, LocalOK, CallsBegun, UpdatesNamed
  <2> QED BY <2>1 DEF TypeInv
<1> QED
  BY <1>1, <1>2, <1>3, <1>4, <1>5, <1>6, <1>8, <1>9, <1>10, <1>11, <1>12, <1>13,
     <1>15, <1>16, <1>17, <1>18 DEF Next, ThreadStep

\* Whatever calls, changes, events and faults follow each other, every
\* variable keeps its type.
THEOREM TypeCorrect == Spec => []TypeOK
<1>1. TypeInv /\ [Next]_vars => TypeInv'
  BY TypeNext
<1>2. TypeInv => TypeOK
  BY DEF TypeInv
<1> QED BY <1>1, <1>2, TypeInit, PTL DEF Spec

\* The nodes and the two tables of every local cache (resty.lrucache) stay in
\* agreement, for a cache of any size.
THEOREM LocalCachesConsistent == Spec => []LocalConsistent
<1>1. TypeInv /\ [Next]_vars => TypeInv'
  BY TypeNext
<1>2. TypeInv => LocalConsistent
  BY DEF TypeInv, LocalOK, LruOK, LocalConsistent
<1> QED BY <1>1, <1>2, TypeInit, PTL DEF Spec

-----------------------------------------------------------------------------
(* One loader. The inductive invariant ties the lock to the call: as long  *)
(* as no lock of the key lapsed under a loader, whoever is inside holds it.*)

InsideHolds ==
    \A k \in Keys \ lapsed, t \in Threads : Inside(t, k) => lock[k] = t

LoaderInv == TypeInv /\ InsideHolds

LEMMA InsideHoldsNext == LoaderInv /\ [Next]_vars => InsideHolds'
<1> SUFFICES ASSUME LoaderInv, [Next]_vars PROVE InsideHolds'
  OBVIOUS
<1> USE DEF db, events, caches, calls, vars
<1>a. TypeOK /\ CallsBegun /\ InsideHolds
  BY DEF LoaderInv, TypeInv
<1>b. /\ lock \in [Keys -> Threads \cup {Nobody}] /\ Nobody \notin Threads
      /\ thread \in [Threads -> [ pc  : {"idle", "locking", "loading", "loaded"},
                                 key : Keys \cup {NoKey},
                                 val : Versions \cup {NoValue} ]]
  BY <1>a, CacheAssumption DEF TypeOK
<1>1. ASSUME NEW t \in Threads, NEW k \in Keys, GetOrSet(t, k) PROVE InsideHolds'
  <2>1. /\ thread' = thread \/ thread' = [thread EXCEPT ![t] = [pc |-> "locking", key |-> k, val |-> NoValue]]
        /\ UNCHANGED <<lock, lapsed>>
    BY <1>1 DEF GetOrSet, Idle
  <2> QED BY <1>a, <1>b, <2>1 DEF InsideHolds, Inside
<1>2. ASSUME NEW t \in Threads, Locked(t) PROVE InsideHolds'
  <2> DEFINE k == thread[t].key
  <2>1. lock[k] = Nobody /\ lapsed' = lapsed /\ k \in Keys
    BY <1>2, <1>a DEF Locked, CallsBegun
  <2>2. CASE thread' = [thread EXCEPT ![t] = Idle] /\ lock' = lock
    BY <1>a, <1>b, <2>1, <2>2 DEF InsideHolds, Inside, Idle
  <2>3. CASE thread' = [thread EXCEPT ![t].pc = "loading"] /\ lock' = [lock EXCEPT ![k] = t]
    BY <1>a, <1>b, <2>1, <2>3 DEF InsideHolds, Inside
  <2> QED BY <1>2, <2>2, <2>3 DEF Locked
<1>3. ASSUME NEW t \in Threads, Load(t) PROVE InsideHolds'
  <2>1. /\ thread' = [thread EXCEPT ![t].pc = "loaded", ![t].val = Truth(thread[t].key)]
        /\ thread[t].pc = "loading" /\ UNCHANGED <<lock, lapsed>>
    BY <1>3 DEF Load
  <2>2. \A x \in Threads : thread'[x].key = thread[x].key
    BY <1>b, <2>1
  <2>3. \A x \in Threads, k \in Keys : Inside(x, k)' <=> Inside(x, k)
    BY <1>b, <2>1, <2>2 DEF Inside
  <2> QED BY <1>a, <2>1, <2>3 DEF InsideHolds
<1>4. ASSUME NEW t \in Threads, LockTimeout(t) \/ LoadAborts(t) PROVE InsideHolds'
  <2>1. thread' = [thread EXCEPT ![t] = Idle] /\ UNCHANGED <<lock, lapsed>>
    BY <1>4 DEF LockTimeout, LoadAborts
  <2> QED BY <1>a, <1>b, <2>1 DEF InsideHolds, Inside, Idle
\* The loader that leaves was the only one, so nobody loses a lock.
<1>5. ASSUME NEW t \in Threads, LoadFails(t) \/ Store(t) PROVE InsideHolds'
  <2> DEFINE k == thread[t].key
  <2>1. /\ thread' = [thread EXCEPT ![t] = Idle] /\ lock' = [lock EXCEPT ![k] = Nobody]
        /\ lapsed' = lapsed /\ Inside(t, k) /\ k \in Keys
    BY <1>5, <1>a DEF LoadFails, Store, unlock, Inside, CallsBegun
  <2>2. \A x \in Threads : Inside(x, k) /\ k \notin lapsed => x = t
    BY <1>a, <2>1 DEF InsideHolds
  <2> QED BY <1>a, <1>b, <2>1, <2>2 DEF InsideHolds, Inside, Idle
<1>6. ASSUME NEW k \in Keys, Lapse(k) PROVE InsideHolds'
  <2>1. /\ lock' = [lock EXCEPT ![k] = Nobody] /\ thread' = thread
        /\ \/ lapsed' = lapsed \cup {k}
           \/ lapsed' = lapsed /\ ~Inside(lock[k], k)
    BY <1>6 DEF Lapse, unlock
  <2> QED BY <1>a, <1>b, <2>1 DEF InsideHolds, Inside
<1>7. ASSUME NEW w \in Workers, Crash(w) PROVE InsideHolds'
  <2>1. /\ thread' = [t \in Threads |-> IF WorkerOf[t] = w THEN Idle ELSE thread[t]]
        /\ UNCHANGED <<lock, lapsed>>
    BY <1>7 DEF Crash
  <2> QED BY <1>a, <1>b, <2>1 DEF InsideHolds, Inside, Idle
<1>8. ASSUME UNCHANGED <<lock, thread, lapsed>> PROVE InsideHolds'
  BY <1>a, <1>8 DEF InsideHolds, Inside
<1>9. ASSUME NEW k \in Keys, EvictShared(k) \/ Insert(k) PROVE InsideHolds'
  BY <1>8, <1>9 DEF EvictShared, Insert
<1>10. ASSUME NEW a \in Admins, BeginUpdate(a) \/ \E k \in Keys : EndUpdate(a, k)
       PROVE  InsideHolds'
  BY <1>8, <1>10 DEF BeginUpdate, EndUpdate
<1>11. CASE Delete \/ MemberEvent \/ \E e \in serf : Deliver(e)
  BY <1>8, <1>11 DEF Delete, MemberEvent, Deliver
<1>12. ASSUME NEW w \in Workers, HandleEvent(w) \/ MissEvent(w) PROVE InsideHolds'
  BY <1>8, <1>12 DEF HandleEvent, MissEvent
<1>13. CASE UNCHANGED vars
  BY <1>8, <1>13
<1> QED
  BY <1>1, <1>2, <1>3, <1>4, <1>5, <1>6, <1>7, <1>9, <1>10, <1>11, <1>12, <1>13
     DEF Next, ThreadStep

\* At most one call of any number is in the database for a key, unless the
\* lock of the key ran out under one that was.
THEOREM LoadedOnce == Spec => []OneLoader
<1>1. Init => InsideHolds
  BY DEF Init, InsideHolds, Inside, Idle
<1>2. LoaderInv /\ [Next]_vars => LoaderInv'
  BY TypeNext, InsideHoldsNext DEF LoaderInv
<1>3. LoaderInv => OneLoader
  <2> SUFFICES ASSUME LoaderInv, NEW k \in Keys \ lapsed
               PROVE  Cardinality({t \in Threads : Inside(t, k)}) <= 1
    BY DEF OneLoader
  <2> DEFINE L == {t \in Threads : Inside(t, k)}
  <2>1. L \subseteq {lock[k]}
    BY DEF LoaderInv, InsideHolds
  <2>2. IsFiniteSet({lock[k]}) /\ Cardinality({lock[k]}) = 1
    BY FS_Singleton
  <2>3. Cardinality(L) <= Cardinality({lock[k]})
    BY <2>1, <2>2, FS_Subset
  <2> QED BY <2>2, <2>3
<1> QED BY <1>1, <1>2, <1>3, TypeInit, PTL DEF Spec, LoaderInv

-----------------------------------------------------------------------------
(* No silent staleness. What a loader is about to store has to be covered  *)
(* as well as what is stored: by an event for all, since set writes for    *)
(* all. The queue of the worker alone covers only the worker's own cache.  *)

CoveredAt(w, k) == k \in excused \/ Announced(k) \/ Pending(w, k)
CoveredAll(k)   == k \in excused \/ Announced(k) \/ \A w \in Workers : Pending(w, k)

Wrong(v, k) == v \notin {NoValue, Truth(k)}

LocalCovered  == \A w \in Workers, k \in Keys : Stale(w, k) => CoveredAt(w, k)
SharedCovered == \A k \in Keys : Wrong(shm[k], k) => CoveredAll(k)
LoadedCovered ==
    \A t \in Threads : thread[t].pc = "loaded" /\ thread[t].val # Truth(thread[t].key)
                           => CoveredAll(thread[t].key)

StaleInv == LocalCovered /\ SharedCovered /\ LoadedCovered

\* Looking for a key leaves every other value as it is, or drops it, and
\* gives this key the value that is found.
LEMMA LookedValues ==
    ASSUME TypeOK, LocalOK, NEW w \in Workers, NEW k \in Keys
    PROVE  /\ Looked(w, k).hasht[k] \in {lru[w].hasht[k], shm[k]}
           /\ \A j \in Keys \ {k} : Looked(w, k).hasht[j] \in {lru[w].hasht[j], NoValue}
<1>1. LruOK(Versions, lru[w]) /\ NoValue \notin Versions
  BY CacheAssumption DEF LocalOK, Versions, Missing
<1>2. CASE peek(lru[w], k) # NoValue
  <2>1. Looked(w, k) = touch(lru[w], k)
    BY <1>2 DEF Looked
  <2> QED BY <1>1, <2>1, TouchOK
<1>3. CASE peek(lru[w], k) = NoValue /\ shm[k] # NoValue
  <2>1. shm[k] \in Versions
    BY <1>3 DEF TypeOK
  <2>2. Looked(w, k) = set(lru[w], k, shm[k])
    BY <1>3 DEF Looked
  <2> QED BY <1>1, <2>1, <2>2, SetOK
<1>4. CASE peek(lru[w], k) = NoValue /\ shm[k] = NoValue
  BY <1>4 DEF Looked
<1> QED BY <1>2, <1>3, <1>4

\* While events and the row stay as they are, so does what covers a key.
LEMMA CoverKept ==
    ASSUME UNCHANGED <<row, serf, queue, excused>>
    PROVE  /\ \A k \in Keys : Truth(k)' = Truth(k) /\ (CoveredAll(k)' <=> CoveredAll(k))
           /\ \A w \in Workers, k \in Keys : CoveredAt(w, k)' <=> CoveredAt(w, k)
  BY DEF Truth, CoveredAll, CoveredAt, Announced, Pending

LEMMA CoverAllIsAt ==
    ASSUME NEW w \in Workers, NEW k, CoveredAll(k) PROVE CoveredAt(w, k)
  BY DEF CoveredAll, CoveredAt

\* A step of a call by which one worker's cache takes values that were there
\* before, or drops some.
LEMMA GetKeepsCover ==
    ASSUME TypeOK, LocalOK, StaleInv, NEW w \in Workers, NEW k \in Keys,
           lru' = [lru EXCEPT ![w] = Looked(w, k)],
           UNCHANGED <<row, serf, queue, excused, shm>>,
           \A t \in Threads : thread'[t] = thread[t] \/ thread'[t].pc # "loaded"
    PROVE  StaleInv'
<1>1. lru \in [Workers -> LruType(Versions)]
  BY DEF TypeOK
<1>2. LocalCovered'
  <2> SUFFICES ASSUME NEW x \in Workers, NEW j \in Keys, Stale(x, j)'
               PROVE  CoveredAt(x, j)'
    BY DEF LocalCovered
  <2>1. CASE x = w /\ j = k /\ lru'[x].hasht[j] = shm[k]
    <3>1. Wrong(shm[k], k)
      BY <2>1, CoverKept DEF Stale, peek, Wrong
    <3> QED BY <2>1, <3>1, CoverKept, CoverAllIsAt DEF StaleInv, SharedCovered
  <2>2. CASE lru'[x].hasht[j] = lru[x].hasht[j]
    <3>1. Stale(x, j)
      BY <2>2, CoverKept DEF Stale, peek
    <3> QED BY <3>1, CoverKept DEF StaleInv, LocalCovered
  <2>3. CASE lru'[x].hasht[j] = NoValue
    BY <2>3 DEF Stale, peek
  <2>4. lru'[x] = IF x = w THEN Looked(w, k) ELSE lru[x]
    BY <1>1
  <2> QED BY <2>1, <2>2, <2>3, <2>4, LookedValues
<1>3. SharedCovered'
  BY CoverKept DEF StaleInv, SharedCovered, Wrong
<1>4. LoadedCovered'
  <2> SUFFICES ASSUME NEW t \in Threads, thread'[t].pc = "loaded",
                      (thread[t].val # Truth(thread[t].key))'
               PROVE  CoveredAll(thread[t].key)'
    BY DEF LoadedCovered
  <2>1. thread'[t] = thread[t]
    OBVIOUS
  <2>2. Truth(thread[t].key)' = Truth(thread[t].key)
    BY <2>1 DEF Truth
  <2>3. CoveredAll(thread[t].key)
    BY <2>1, <2>2 DEF StaleInv, LoadedCovered
  <2> QED BY <2>1, <2>3 DEF CoveredAll, Announced, Pending
<1> QED BY <1>2, <1>3, <1>4 DEF StaleInv

\* A step that stores nothing, drops at will, and covers what it makes wrong.
LEMMA CoverGrows ==
    ASSUME StaleInv, UNCHANGED lru,
           \A k \in Keys : shm'[k] \in {shm[k], NoValue},
           \A t \in Threads : thread'[t] = thread[t] \/ thread'[t].pc # "loaded",
           \A t \in Threads : thread[t].pc = "loaded" => thread[t].key \in Keys,
           \A k \in Keys : Truth(k)' = Truth(k) \/ k \in excused' \/ Announced(k)',
           \A k \in Keys : CoveredAll(k) => CoveredAll(k)',
           \A w \in Workers, k \in Keys : CoveredAt(w, k) => CoveredAt(w, k)'
    PROVE  StaleInv'
<1>1. \A k \in Keys : Truth(k)' = Truth(k) \/ CoveredAll(k)'
  BY DEF CoveredAll
<1>2. \A w \in Workers, k \in Keys : Truth(k)' = Truth(k) \/ CoveredAt(w, k)'
  BY DEF CoveredAt
<1>3. LocalCovered'
  BY <1>2 DEF StaleInv, LocalCovered, Stale, peek
<1>4. SharedCovered'
  BY <1>1 DEF StaleInv, SharedCovered, Wrong
<1>5. LoadedCovered'
  BY <1>1 DEF StaleInv, LoadedCovered
<1> QED BY <1>3, <1>4, <1>5 DEF StaleInv

\* Set writes a value for all workers, and covers it as loaded.
LEMMA StoreKeepsCover ==
    ASSUME TypeInv, StaleInv, NEW t \in Threads, Store(t) PROVE StaleInv'
<1> DEFINE k == thread[t].key
           w == WorkerOf[t]
           v == thread[t].val
           c == set(lru[w], k, v)
<1>a. TypeOK /\ LocalOK /\ CallsBegun
  BY DEF TypeInv
<1>1. k \in Keys /\ v \in Versions /\ w \in Workers /\ NoValue \notin Versions
  BY <1>a, CacheAssumption DEF Store, CallsBegun, Versions, Missing
<1>2. /\ lru' = [lru EXCEPT ![w] = c]
      /\ shm' = [shm EXCEPT ![k] = v] \/ shm' = shm
      /\ thread[t].pc = "loaded" /\ thread' = [thread EXCEPT ![t] = Idle]
      /\ UNCHANGED <<row, serf, queue, excused>>
  BY <1>a, <1>1 DEF Store, TypeOK, db, events
<1>3. c.hasht[k] = v /\ \A j \in Keys \ {k} : c.hasht[j] \in {lru[w].hasht[j], NoValue}
  BY <1>a, <1>1, SetOK DEF LocalOK
<1>4. v # Truth(k) => CoveredAll(k)
  BY <1>2 DEF StaleInv, LoadedCovered
<1> HIDE DEF k, v, w, c
<1>5. LocalCovered'
  <2> SUFFICES ASSUME NEW x \in Workers, NEW j \in Keys, Stale(x, j)'
               PROVE  CoveredAt(x, j)'
    BY DEF LocalCovered
  <2>1. lru'[x] = IF x = w THEN c ELSE lru[x]
    BY <1>a, <1>2 DEF TypeOK
  <2>2. CASE x = w /\ j = k
    <3>1. v # Truth(k)
      BY <2>1, <2>2, <1>2, <1>3, CoverKept DEF Stale, peek
    <3> QED BY <3>1, <1>2, <1>4, <2>2, CoverKept, CoverAllIsAt
  <2>3. CASE lru'[x].hasht[j] = lru[x].hasht[j]
    <3>1. Stale(x, j)
      BY <2>3, <1>2, CoverKept DEF Stale, peek
    <3> QED BY <3>1, <1>2, CoverKept DEF StaleInv, LocalCovered
  <2>4. CASE lru'[x].hasht[j] = NoValue
    BY <2>4 DEF Stale, peek
  <2> QED BY <2>1, <2>2, <2>3, <2>4, <1>3
<1>6. SharedCovered'
  <2> SUFFICES ASSUME NEW j \in Keys, Wrong(shm[j], j)' PROVE CoveredAll(j)'
    BY DEF SharedCovered
  <2>1. shm'[j] = shm[j] \/ (j = k /\ shm'[j] = v)
    BY <1>a, <1>1, <1>2 DEF TypeOK
  <2>2. CASE shm'[j] = shm[j]
    <3>1. Wrong(shm[j], j)
      BY <2>2, <1>2, CoverKept DEF Wrong
    <3> QED BY <3>1, <1>2, CoverKept DEF StaleInv, SharedCovered
  <2>3. CASE j = k /\ shm'[j] = v
    <3>1. v # Truth(k)
      BY <2>3, <1>2, CoverKept DEF Wrong
    <3> QED BY <3>1, <2>3, <1>2, <1>4, CoverKept
  <2> QED BY <2>1, <2>2, <2>3
<1>7. LoadedCovered'
  <2> SUFFICES ASSUME NEW x \in Threads, thread'[x].pc = "loaded",
                      (thread[x].val # Truth(thread[x].key))'
               PROVE  CoveredAll(thread[x].key)'
    BY DEF LoadedCovered
  <2>1. thread'[x] = thread[x]
    BY <1>a, <1>2 DEF TypeOK, Idle
  <2>2. Truth(thread[x].key)' = Truth(thread[x].key)
    BY <1>2, <2>1 DEF Truth
  <2>3. CoveredAll(thread[x].key)
    BY <2>1, <2>2 DEF StaleInv, LoadedCovered
  <2> QED BY <2>1, <2>3, <1>2 DEF CoveredAll, Announced, Pending
<1> QED BY <1>5, <1>6, <1>7 DEF StaleInv

\* A worker that handles an event has neither value of the key any more, and
\* loaders that hold an older one are excused: those of other keys have their
\* event behind this one.
LEMMA HandleKeepsCover ==
    ASSUME TypeInv, StaleInv, NEW w \in Workers, HandleEvent(w) PROVE StaleInv'
<1> DEFINE x == Head(queue[w])
           K == Named(x)
<1>a. TypeOK /\ LocalOK /\ CallsBegun
  BY DEF TypeInv
<1>1. /\ queue[w] # <<>> /\ queue' = [queue EXCEPT ![w] = Tail(queue[w])]
      /\ excused' = excused \cup (Overtaken \cap K)
      /\ UNCHANGED <<row, serf, thread>>
  BY <1>a DEF HandleEvent, TypeOK, db, calls
<1>2. queue[w] \in Seq(Keys \cup {AllKeys}) /\ x \in Keys \cup {AllKeys}
  BY <1>a, <1>1 DEF TypeOK
<1>3. \A k \in Keys \ K, y \in Workers : Pending(y, k) => Pending(y, k)'
  <2> SUFFICES ASSUME NEW k \in Keys \ K, NEW y \in Workers, Pending(y, k)
               PROVE  Pending(y, k)'
    OBVIOUS
  <2>1. CASE y # w
    BY <2>1, <1>1 DEF Pending
  <2>2. CASE y = w
    <3>1. PICK i \in 1..Len(queue[w]) : queue[w][i] \in {k, AllKeys}
      BY <2>2 DEF Pending
    <3>2. x = queue[w][1]
      BY <1>1, <1>2
    <3>3. i # 1
      BY <3>1, <3>2 DEF Named
    <3>4. i - 1 \in 1..Len(Tail(queue[w])) /\ Tail(queue[w])[i - 1] = queue[w][i]
      BY <3>1, <3>3, <1>1, <1>2
    <3>5. queue'[w] = Tail(queue[w])
      BY <1>a, <1>1 DEF TypeOK
    <3> QED BY <3>1, <3>4, <3>5, <2>2 DEF Pending
  <2> QED BY <2>1, <2>2
<1>4. \A y \in Workers, k \in Keys : y # w /\ Pending(y, k) => Pending(y, k)'
  BY <1>1 DEF Pending
<1>5. \A k \in Keys : /\ Truth(k)' = Truth(k) /\ (Announced(k)' <=> Announced(k))
                      /\ k \in excused => k \in excused'
  BY <1>1 DEF Truth, Announced
\* What the handler drops, and what it leaves.
<1>6. /\ \A k \in K \cap Keys : lru'[w].hasht[k] = NoValue /\ shm'[k] = NoValue
      /\ \A k \in Keys \ K : /\ lru'[w].hasht[k] \in {lru[w].hasht[k], NoValue}
                             /\ shm'[k] = shm[k]
      /\ \A y \in Workers \ {w} : lru'[y] = lru[y]
  <2>1. CASE x = AllKeys
    <3>1. lru' = [lru EXCEPT ![w] = new] /\ shm' = [k \in Keys |-> NoValue]
      BY <2>1 DEF HandleEvent, DropAll
    <3>2. lru'[w] = new /\ \A y \in Workers \ {w} : lru'[y] = lru[y]
      BY <3>1, <1>a DEF TypeOK
    <3>3. \A k \in Keys : new.hasht[k] = NoValue
      BY DEF new
    <3>4. K = Keys
      BY <2>1 DEF Named
    <3> QED BY <3>1, <3>2, <3>3, <3>4
  <2>2. CASE x # AllKeys
    <3>1. lru' = [lru EXCEPT ![w] = delete(lru[w], x)] /\ shm' = [shm EXCEPT ![x] = NoValue]
      BY <2>2, <1>a DEF HandleEvent, Drop, TypeOK
    <3>2. lru'[w] = delete(lru[w], x) /\ \A y \in Workers \ {w} : lru'[y] = lru[y]
      BY <3>1, <1>a DEF TypeOK
    <3>3. x \in Keys /\ K = {x}
      BY <2>2, <1>2 DEF Named
    <3>4. delete(lru[w], x).hasht = [lru[w].hasht EXCEPT ![x] = NoValue]
      BY <3>3, <1>a, DeleteOK DEF LocalOK
    <3>5. lru[w].hasht \in [Keys -> Versions \cup {NoValue}]
      BY <1>a DEF LocalOK, LruOK, LruType
    <3>6. shm \in [Keys -> Versions \cup {NoValue}]
      BY <1>a DEF TypeOK
    <3> QED BY <3>1, <3>2, <3>3, <3>4, <3>5, <3>6
  <2> QED BY <2>1, <2>2
<1>7. \A k \in Keys \ K : CoveredAll(k) => CoveredAll(k)'
  <2> SUFFICES ASSUME NEW k \in Keys \ K, CoveredAll(k) PROVE CoveredAll(k)'
    OBVIOUS
  <2>1. k \in excused \/ Announced(k) \/ \A y \in Workers : Pending(y, k)
    BY DEF CoveredAll
  <2>2. CASE k \in excused
    BY <2>2, <1>5 DEF CoveredAll
  <2>3. CASE Announced(k)
    BY <2>3, <1>5 DEF CoveredAll
  <2>4. CASE \A y \in Workers : Pending(y, k)
    <3>1. \A y \in Workers : Pending(y, k)'
      BY <2>4, <1>3
    <3> QED BY <3>1 DEF CoveredAll
  <2> QED BY <2>1, <2>2, <2>3, <2>4
<1> HIDE DEF x, K
<1>8. LocalCovered'
  <2> SUFFICES ASSUME NEW y \in Workers, NEW k \in Keys, Stale(y, k)'
               PROVE  CoveredAt(y, k)'
    BY DEF LocalCovered
  <2>1. ~(y = w /\ k \in K)
    BY <1>6 DEF Stale, peek
  <2>2. Stale(y, k)
    BY <2>1, <1>5, <1>6 DEF Stale, peek
  <2>3. CoveredAt(y, k)
    BY <2>2 DEF StaleInv, LocalCovered
  <2>4. k \in excused \/ Announced(k) \/ Pending(y, k)
    BY <2>3 DEF CoveredAt
  <2>5. Pending(y, k) => Pending(y, k)'
    BY <2>1, <1>3, <1>4
  <2> QED BY <2>4, <2>5, <1>5 DEF CoveredAt
<1>9. SharedCovered'
  <2> SUFFICES ASSUME NEW k \in Keys, Wrong(shm[k], k)' PROVE CoveredAll(k)'
    BY DEF SharedCovered
  <2>1. k \notin K /\ Wrong(shm[k], k)
    BY <1>5, <1>6 DEF Wrong
  <2> QED BY <2>1, <1>7 DEF StaleInv, SharedCovered
<1>10. LoadedCovered'
  <2> SUFFICES ASSUME NEW t \in Threads, thread'[t].pc = "loaded",
                      (thread[t].val # Truth(thread[t].key))'
               PROVE  CoveredAll(thread[t].key)'
    BY DEF LoadedCovered
  <2>1. thread' = thread /\ Truth(thread[t].key)' = Truth(thread[t].key)
    BY <1>1 DEF Truth
  <2>2. /\ thread[t].pc = "loaded" /\ thread[t].val # Truth(thread[t].key)
        /\ thread[t].key \in Keys
    BY <2>1, <1>a DEF CallsBegun
  <2>3. CASE thread[t].key \in K
    <3>1. thread[t].key \in Overtaken
      BY <2>2 DEF Overtaken
    <3> QED BY <3>1, <2>1, <2>3, <1>1 DEF CoveredAll
  <2>4. CASE thread[t].key \notin K
    <3>1. CoveredAll(thread[t].key)
      BY <2>2 DEF StaleInv, LoadedCovered
    <3>2. \A k \in Keys \ K : CoveredAll(k) => CoveredAll(k)'
      BY <1>7
    <3> DEFINE k0 == thread[t].key
    <3>3. k0 \in excused \/ Announced(k0) \/ \A y \in Workers : Pending(y, k0)
      BY <3>1 DEF CoveredAll
    <3> QED BY <3>3, <2>1, <2>2, <2>4, <1>1, <1>3, <1>5 DEF CoveredAll, Announced, Pending
  <2> QED BY <2>3, <2>4
<1> QED BY <1>8, <1>9, <1>10 DEF StaleInv

LEMMA StaleNext == TypeInv /\ StaleInv /\ [Next]_vars => StaleInv'
<1> SUFFICES ASSUME TypeInv, StaleInv, [Next]_vars PROVE StaleInv'
  OBVIOUS
<1> USE DEF db, events, caches, calls, vars
<1>a. TypeOK /\ LocalOK /\ CallsBegun /\ UpdatesNamed
  BY DEF TypeInv
<1>b. thread \in [Threads -> [ pc  : {"idle", "locking", "loading", "loaded"},
                               key : Keys \cup {NoKey},
                               val : Versions \cup {NoValue} ]]
  BY <1>a DEF TypeOK
<1>c. \A t \in Threads : thread[t].pc = "loaded" => thread[t].key \in Keys
  BY <1>a DEF CallsBegun
<1>d. WorkerOf \in [Threads -> Workers]
  BY CacheAssumption
\* Steps that touch neither the row nor events, store nothing and load nothing.
<1>e. ASSUME UNCHANGED <<row, serf, queue, lru, excused>>,
             \A k \in Keys : shm'[k] \in {shm[k], NoValue},
             \A t \in Threads : thread'[t] = thread[t] \/ thread'[t].pc # "loaded"
      PROVE  StaleInv'
  <2>1. /\ \A k \in Keys : Truth(k)' = Truth(k) /\ (CoveredAll(k)' <=> CoveredAll(k))
        /\ \A w \in Workers, k \in Keys : CoveredAt(w, k)' <=> CoveredAt(w, k)
    BY <1>e, CoverKept
  <2> QED BY <1>c, <1>e, <2>1, CoverGrows
\* Steps that touch only the row and events, and cover what they make wrong.
<1>f. ASSUME UNCHANGED <<lru, shm, thread>>,
             \A k \in Keys : Truth(k)' = Truth(k) \/ k \in excused' \/ Announced(k)',
             \A k \in Keys : CoveredAll(k) => CoveredAll(k)',
             \A w \in Workers, k \in Keys : CoveredAt(w, k) => CoveredAt(w, k)'
      PROVE  StaleInv'
  BY <1>c, <1>f, CoverGrows
<1>1. ASSUME NEW t \in Threads, NEW k \in Keys, GetOrSet(t, k) PROVE StaleInv'
  <2>1. /\ lru' = [lru EXCEPT ![WorkerOf[t]] = Looked(WorkerOf[t], k)]
        /\ UNCHANGED <<row, serf, queue, excused, shm>>
        /\ thread' = thread \/ thread' = [thread EXCEPT ![t] = [pc |-> "locking", key |-> k, val |-> NoValue]]
    BY <1>1 DEF GetOrSet, get, Idle
  <2>2. \A x \in Threads : thread'[x] = thread[x] \/ thread'[x].pc # "loaded"
    BY <1>b, <2>1
  <2>3. WorkerOf[t] \in Workers
    BY <1>d
  <2> QED BY <1>a, <2>1, <2>2, <2>3, GetKeepsCover
<1>2. ASSUME NEW t \in Threads, Locked(t) PROVE StaleInv'
  <2> DEFINE k == thread[t].key
  <2>1. /\ lru' = [lru EXCEPT ![WorkerOf[t]] = Looked(WorkerOf[t], k)]
        /\ UNCHANGED <<row, serf, queue, excused, shm>>
        /\ thread' = [thread EXCEPT ![t] = Idle] \/ thread' = [thread EXCEPT ![t].pc = "loading"]
    BY <1>2 DEF Locked, get
  <2>2. \A x \in Threads : thread'[x] = thread[x] \/ thread'[x].pc # "loaded"
    BY <1>b, <2>1 DEF Idle
  <2>3. WorkerOf[t] \in Workers /\ k \in Keys
    BY <1>2, <1>a, <1>d DEF Locked, CallsBegun
  <2> QED BY <1>a, <2>1, <2>2, <2>3, GetKeepsCover
<1>3. ASSUME NEW t \in Threads, Load(t) PROVE StaleInv'
  <2>1. /\ thread' = [thread EXCEPT ![t].pc = "loaded", ![t].val = Truth(thread[t].key)]
        /\ UNCHANGED <<row, serf, queue, lru, shm, excused>>
    BY <1>3 DEF Load
  <2>2. LocalCovered' /\ SharedCovered'
    BY <2>1, CoverKept DEF StaleInv, LocalCovered, SharedCovered, Stale, peek, Wrong
  <2>3. LoadedCovered'
    <3> SUFFICES ASSUME NEW x \in Threads, thread'[x].pc = "loaded",
                        (thread[x].val # Truth(thread[x].key))'
                 PROVE  CoveredAll(thread[x].key)'
      BY DEF LoadedCovered
    <3>1. thread'[x].key = thread[x].key
      BY <1>b, <2>1
    <3>2. Truth(thread[x].key)' = Truth(thread[x].key)
      BY <2>1, <3>1 DEF Truth
    <3>3. x # t
      <4>1. thread'[t].val = Truth(thread[t].key)
        BY <1>b, <2>1
      <4> QED BY <4>1, <3>2
    <3>4. thread'[x] = thread[x]
      BY <1>b, <2>1, <3>3
    <3>5. CoveredAll(thread[x].key)
      BY <3>2, <3>4 DEF StaleInv, LoadedCovered
    <3> QED BY <3>1, <3>5, <2>1 DEF CoveredAll, Announced, Pending
  <2> QED BY <2>2, <2>3 DEF StaleInv
<1>4. ASSUME NEW t \in Threads, LockTimeout(t) \/ LoadFails(t) \/ LoadAborts(t)
      PROVE  StaleInv'
  <2>1. thread' = [thread EXCEPT ![t] = Idle] /\ UNCHANGED <<row, serf, queue, lru, shm, excused>>
    BY <1>4 DEF LockTimeout, LoadFails, LoadAborts
  <2>2. \A x \in Threads : thread'[x] = thread[x] \/ thread'[x].pc # "loaded"
    BY <1>b, <2>1 DEF Idle
  <2> QED BY <1>e, <2>1, <2>2
<1>5. ASSUME NEW t \in Threads, Store(t) PROVE StaleInv'
  BY <1>5, StoreKeepsCover
<1>6. ASSUME NEW k \in Keys, Lapse(k) \/ EvictShared(k) PROVE StaleInv'
  <2>1. /\ shm' = shm \/ shm' = [shm EXCEPT ![k] = NoValue]
        /\ UNCHANGED <<row, serf, queue, lru, thread, excused>>
    BY <1>6 DEF Lapse, EvictShared
  <2>2. \A j \in Keys : shm'[j] \in {shm[j], NoValue}
    BY <1>a, <2>1 DEF TypeOK
  <2> QED BY <1>e, <2>1, <2>2
\* A change of the row: the event names the key, or it is excused.
<1>7. ASSUME NEW e, NEW moved, Announce(e, moved),
             \A k \in Keys : Truth(k)' = Truth(k) \/ k \in moved,
             UNCHANGED <<queue, lru, shm, thread>>
      PROVE  StaleInv'
  <2>1. serf \subseteq serf' /\ excused \subseteq excused'
    BY <1>7 DEF Announce
  <2>2. \A k \in moved : k \in excused' \/ (e.key = k /\ e \in serf')
    BY <1>7 DEF Announce
  <2>3. \A k \in moved : k \in excused' \/ Announced(k)'
    BY <2>2 DEF Announced
  <2>4. \A k \in Keys : Announced(k) => Announced(k)'
    BY <2>1 DEF Announced
  <2>5. \A w \in Workers, k \in Keys : Pending(w, k)' <=> Pending(w, k)
    BY <1>7 DEF Pending
  <2>6. \A k \in Keys : CoveredAll(k) => CoveredAll(k)'
    BY <2>1, <2>4, <2>5 DEF CoveredAll
  <2>7. \A w \in Workers, k \in Keys : CoveredAt(w, k) => CoveredAt(w, k)'
    BY <2>1, <2>4, <2>5 DEF CoveredAt
  <2>8. \A k \in Keys : Truth(k)' = Truth(k) \/ k \in excused' \/ Announced(k)'
    BY <1>7, <2>3
  <2> QED BY <1>f, <1>7, <2>6, <2>7, <2>8
<1>8. ASSUME NEW k \in Keys, Insert(k) PROVE StaleInv'
  <2>1. \A j \in Keys : Truth(j)' = Truth(j) \/ j \in {k}
    BY <1>8, LruAssumption DEF Insert, Truth
  <2> QED BY <1>7, <1>8, <2>1 DEF Insert
<1>9. ASSUME NEW a \in Admins, BeginUpdate(a) PROVE StaleInv'
  BY <1>e, <1>9 DEF BeginUpdate
<1>10. ASSUME NEW a \in Admins, NEW k \in Keys, EndUpdate(a, k) PROVE StaleInv'
  <2>1. CASE row.at # NoKey /\ row.id = patch[a].id
    <3>1. /\ row' = [row EXCEPT !.at = k, !.ver = changes + 1]
          /\ Announce(Event("updated", row, patch[a].at), {row.at, k})
          /\ UNCHANGED <<queue, lru, shm, thread>>
      BY <1>10, <2>1 DEF EndUpdate
    <3>2. row'.at = k
      BY <1>a, <3>1 DEF TypeOK
    <3>3. \A j \in Keys : Truth(j)' = Truth(j) \/ j \in {row.at, k}
      BY <3>2 DEF Truth
    <3> QED BY <1>7, <3>1, <3>3
  <2>2. CASE ~(row.at # NoKey /\ row.id = patch[a].id)
    <3>1. UNCHANGED <<row, serf, queue, lru, shm, thread, excused>>
      BY <1>10, <2>2 DEF EndUpdate
    <3> QED BY <1>e, <3>1
  <2> QED BY <2>1, <2>2
<1>11. ASSUME Delete PROVE StaleInv'
  <2>1. \A j \in Keys : Truth(j)' = Truth(j) \/ j \in {row.at}
    BY <1>11, LruAssumption DEF Delete, Truth, Absent
  <2> QED BY <1>7, <1>11, <2>1 DEF Delete
<1>12. ASSUME MemberEvent PROVE StaleInv'
  <2>1. serf \subseteq serf' /\ UNCHANGED <<row, queue, lru, shm, thread, excused>>
    BY <1>12 DEF MemberEvent
  <2>2. \A k \in Keys : Announced(k) => Announced(k)'
    BY <2>1 DEF Announced
  <2>3. \A k \in Keys : Truth(k)' = Truth(k)
    BY <2>1 DEF Truth
  <2>4. \A k \in Keys : CoveredAll(k) => CoveredAll(k)'
    BY <2>1, <2>2 DEF CoveredAll, Pending
  <2>5. \A w \in Workers, k \in Keys : CoveredAt(w, k) => CoveredAt(w, k)'
    BY <2>1, <2>2 DEF CoveredAt, Pending
  <2> QED BY <1>f, <2>1, <2>3, <2>4, <2>5
\* An event that reaches the node is at every worker then, or was ignored.
<1>13. ASSUME NEW e \in serf, Deliver(e) PROVE StaleInv'
  <2>1. serf' = serf \ {e} /\ UNCHANGED <<row, lru, shm, thread>>
    BY <1>13 DEF Deliver
  <2>2. \A k \in Keys : Truth(k)' = Truth(k)
    BY <2>1 DEF Truth
  <2>3. excused \subseteq excused'
    BY <1>13 DEF Deliver
  <2>4. \A w \in Workers, k \in Keys : Pending(w, k) => Pending(w, k)'
    <3>1. CASE queue' = queue
      BY <3>1 DEF Pending
    <3>2. CASE queue' = [w \in Workers |-> Append(queue[w], e.key)]
      <4> SUFFICES ASSUME NEW w \in Workers, NEW k \in Keys, Pending(w, k) PROVE Pending(w, k)'
        OBVIOUS
      <4>1. PICK i \in 1..Len(queue[w]) : queue[w][i] \in {k, AllKeys}
        BY DEF Pending
      <4>2. queue[w] \in Seq(Keys \cup {AllKeys}) /\ e.key \in Keys \cup {AllKeys}
        BY <1>a DEF TypeOK
      <4>3. i \in 1..Len(Append(queue[w], e.key)) /\ Append(queue[w], e.key)[i] = queue[w][i]
        BY <4>1, <4>2
      <4>4. queue'[w] = Append(queue[w], e.key)
        BY <3>2
      <4> QED BY <4>1, <4>3, <4>4 DEF Pending
    <3> QED BY <3>1, <3>2, <1>13 DEF Deliver
  <2>5. ASSUME NEW k \in Keys, Announced(k)
        PROVE  k \in excused' \/ Announced(k)' \/ \A w \in Workers : Pending(w, k)'
    <3>1. PICK f \in serf : f.key \in {k, AllKeys}
      BY <2>5 DEF Announced
    <3>2. CASE f # e
      BY <2>1, <3>1, <3>2 DEF Announced
    <3>3. CASE f = e /\ Ignored(e)
      <4>1. e.key \in Keys /\ e.key = k
        BY <3>1, <3>3, <1>a, CacheAssumption DEF Ignored, UpdatesNamed
      <4> QED BY <4>1, <3>3, <1>13 DEF Deliver
    <3>4. CASE f = e /\ ~Ignored(e)
      <4>1. queue' = [w \in Workers |-> Append(queue[w], e.key)]
        BY <3>4, <1>13 DEF Deliver
      <4>2. ASSUME NEW w \in Workers PROVE Pending(w, k)'
        <5>1. queue[w] \in Seq(Keys \cup {AllKeys}) /\ e.key \in Keys \cup {AllKeys}
          BY <1>a DEF TypeOK
        <5>2. /\ Len(queue[w]) + 1 \in 1..Len(Append(queue[w], e.key))
              /\ Append(queue[w], e.key)[Len(queue[w]) + 1] = e.key
          BY <5>1
        <5>3. queue'[w] = Append(queue[w], e.key)
          BY <4>1
        <5> QED BY <5>2, <5>3, <3>1, <3>4 DEF Pending
      <4> QED BY <4>2
    <3> QED BY <3>2, <3>3, <3>4
  <2>6. \A k \in Keys : CoveredAll(k) => CoveredAll(k)'
    BY <2>3, <2>4, <2>5 DEF CoveredAll
  <2>7. \A w \in Workers, k \in Keys : CoveredAt(w, k) => CoveredAt(w, k)'
    BY <2>3, <2>4, <2>5 DEF CoveredAt
  <2> QED BY <1>f, <2>1, <2>2, <2>6, <2>7
<1>14. ASSUME NEW w \in Workers, HandleEvent(w) PROVE StaleInv'
  BY <1>14, HandleKeepsCover
\* What a worker misses is excused.
<1>15. ASSUME NEW w \in Workers, MissEvent(w) PROVE StaleInv'
  <2>1. /\ queue[w] # <<>> /\ queue' = [queue EXCEPT ![w] = Tail(queue[w])]
        /\ excused' = excused \cup Named(Head(queue[w]))
        /\ UNCHANGED <<row, serf, lru, shm, thread>>
    BY <1>15, <1>a DEF MissEvent, TypeOK
  <2>2. \A k \in Keys : Truth(k)' = Truth(k) /\ (Announced(k)' <=> Announced(k))
    BY <2>1 DEF Truth, Announced
  <2>3. ASSUME NEW y \in Workers, NEW k \in Keys, Pending(y, k)
        PROVE  k \in excused' \/ Pending(y, k)'
    <3>1. CASE y # w
      BY <2>1, <2>3, <3>1 DEF Pending
    <3>2. CASE y = w
      <4>1. PICK i \in 1..Len(queue[w]) : queue[w][i] \in {k, AllKeys}
        BY <2>3, <3>2 DEF Pending
      <4>2. queue[w] \in Seq(Keys \cup {AllKeys})
        BY <1>a DEF TypeOK
      <4>3. CASE i = 1
        <5>1. Head(queue[w]) \in {k, AllKeys}
          BY <4>1, <4>2, <4>3, <2>1
        <5> QED BY <5>1, <2>1 DEF Named
      <4>4. CASE i # 1
        <5>1. i - 1 \in 1..Len(Tail(queue[w])) /\ Tail(queue[w])[i - 1] = queue[w][i]
          BY <4>1, <4>2, <4>4, <2>1
        <5>2. queue'[w] = Tail(queue[w])
          BY <1>a, <2>1 DEF TypeOK
        <5> QED BY <4>1, <5>1, <5>2, <3>2 DEF Pending
      <4> QED BY <4>3, <4>4
    <3> QED BY <3>1, <3>2
  <2>4. \A k \in Keys : CoveredAll(k) => CoveredAll(k)'
    <3> SUFFICES ASSUME NEW k \in Keys, CoveredAll(k) PROVE CoveredAll(k)'
      OBVIOUS
    <3>1. k \in excused \/ Announced(k) \/ \A y \in Workers : Pending(y, k)
      BY DEF CoveredAll
    <3>2. k \in excused => k \in excused'
      BY <2>1
    <3>3. (\A y \in Workers : Pending(y, k)) => k \in excused' \/ \A y \in Workers : Pending(y, k)'
      BY <2>3
    <3> QED BY <3>1, <3>2, <3>3, <2>2 DEF CoveredAll
  <2>5. \A y \in Workers, k \in Keys : CoveredAt(y, k) => CoveredAt(y, k)'
    BY <2>1, <2>2, <2>3 DEF CoveredAt
  <2> QED BY <1>f, <2>1, <2>2, <2>4, <2>5
\* A new worker has an empty cache, and the events of the old one are excused.
<1>16. ASSUME NEW w \in Workers, Crash(w) PROVE StaleInv'
  <2>1. /\ lru' = [lru EXCEPT ![w] = new] /\ queue' = [queue EXCEPT ![w] = <<>>]
        /\ thread' = [t \in Threads |-> IF WorkerOf[t] = w THEN Idle ELSE thread[t]]
        /\ excused' = excused \cup UNION {Named(queue[w][i]) : i \in 1..Len(queue[w])}
        /\ UNCHANGED <<row, serf, shm>>
    BY <1>16 DEF Crash
  <2>2. \A k \in Keys : Truth(k)' = Truth(k) /\ (Announced(k)' <=> Announced(k))
    BY <2>1 DEF Truth, Announced
  <2>3. \A k \in Keys : Pending(w, k) => k \in excused'
    <3> SUFFICES ASSUME NEW k \in Keys, Pending(w, k) PROVE k \in excused'
      OBVIOUS
    <3>1. PICK i \in 1..Len(queue[w]) : queue[w][i] \in {k, AllKeys}
      BY DEF Pending
    <3>2. k \in Named(queue[w][i])
      BY <3>1 DEF Named
    <3> QED BY <3>2, <2>1
  <2>4. \A y \in Workers, k \in Keys : y # w /\ Pending(y, k) => Pending(y, k)'
    BY <2>1 DEF Pending
  <2>5. ASSUME NEW k \in Keys, CoveredAll(k) PROVE CoveredAll(k)'
    <3>1. k \in excused \/ Announced(k) \/ \A y \in Workers : Pending(y, k)
      BY <2>5 DEF CoveredAll
    <3>2. k \in excused \/ (\A y \in Workers : Pending(y, k)) => k \in excused'
      BY <2>1, <2>3
    <3> QED BY <3>1, <3>2, <2>2 DEF CoveredAll
  <2>6. LocalCovered'
    <3> SUFFICES ASSUME NEW y \in Workers, NEW k \in Keys, Stale(y, k)' PROVE CoveredAt(y, k)'
      BY DEF LocalCovered
    <3>1. y # w
      <4>1. lru'[w].hasht[k] = NoValue
        BY <1>a, <2>1 DEF TypeOK, new
      <4> QED BY <4>1 DEF Stale, peek
    <3>2. Stale(y, k)
      BY <3>1, <2>1, <2>2 DEF Stale, peek
    <3>3. k \in excused \/ Announced(k) \/ Pending(y, k)
      BY <3>2 DEF StaleInv, LocalCovered, CoveredAt
    <3>4. k \in excused => k \in excused'
      BY <2>1
    <3> QED BY <3>1, <3>3, <3>4, <2>2, <2>4 DEF CoveredAt
  <2>7. SharedCovered'
    BY <2>1, <2>2, <2>5 DEF StaleInv, SharedCovered, Wrong
  <2>8. LoadedCovered'
    <3> SUFFICES ASSUME NEW t \in Threads, thread'[t].pc = "loaded",
                        (thread[t].val # Truth(thread[t].key))'
                 PROVE  CoveredAll(thread[t].key)'
      BY DEF LoadedCovered
    <3>1. thread'[t] = thread[t]
      BY <2>1 DEF Idle
    <3>2. Truth(thread[t].key)' = Truth(thread[t].key)
      BY <2>1, <3>1 DEF Truth
    <3> DEFINE k == thread[t].key
    <3>3. k \in Keys /\ CoveredAll(k)
      BY <1>c, <3>1, <3>2 DEF StaleInv, LoadedCovered
    <3>4. k \in excused \/ Announced(k) \/ \A y \in Workers : Pending(y, k)
      BY <3>3 DEF CoveredAll
    <3>5. k \in excused \/ (\A y \in Workers : Pending(y, k)) => k \in excused'
      BY <2>1, <2>3, <3>3
    <3>6. thread'[t].key \in excused' \/ \E e \in serf' : e.key \in {thread'[t].key, AllKeys}
      BY <3>1, <3>4, <3>5, <2>1 DEF Announced
    <3> QED BY <3>6 DEF CoveredAll, Announced
  <2> QED BY <2>6, <2>7, <2>8 DEF StaleInv
<1>17. CASE UNCHANGED vars
  BY <1>e, <1>17
<1> QED
  BY <1>1, <1>2, <1>3, <1>4, <1>5, <1>6, <1>8, <1>9, <1>10, <1>11, <1>12, <1>13,
     <1>14, <1>15, <1>16, <1>17 DEF Next, ThreadStep

\* No cached value is wrong without an event on its way that will correct it,
\* unless its key is excused.
THEOREM NothingSilentlyStale == Spec => []NoSilentStaleness
<1>1. Init => StaleInv
  <2> SUFFICES ASSUME Init PROVE StaleInv
    OBVIOUS
  <2>1. \A w \in Workers, k \in Keys : lru[w].hasht[k] = NoValue
    BY DEF Init, new
  <2> QED BY <2>1 DEF Init, Idle, StaleInv, LocalCovered, SharedCovered, LoadedCovered,
                      Stale, peek, Wrong
<1>2. TypeInv /\ StaleInv /\ [Next]_vars => TypeInv' /\ StaleInv'
  BY TypeNext, StaleNext
<1>3. StaleInv => NoSilentStaleness
  BY DEF StaleInv, LocalCovered, SharedCovered, NoSilentStaleness, Wrong,
         CoveredAt, CoveredAll
<1> QED BY <1>1, <1>2, <1>3, TypeInit, PTL DEF Spec
=============================================================================
