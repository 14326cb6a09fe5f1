------------------------------ MODULE LruCache ------------------------------
(* resty.lrucache, as operators on one cache: a hash of values, two tables *)
(* that tie keys to queue nodes in both directions, and two queues between *)
(* which a fixed number of nodes moves. Nodes are numbers; the pointers of *)
(* a queue are the order of a sequence. The expiry of a node is left out:  *)
(* the Kong cache sets none.                                               *)
EXTENDS Integers, Sequences, SequencesExt

CONSTANTS LruSize, Keys, NoKey, NoValue

ASSUME LruAssumption == LruSize \in Nat \ {0} /\ NoKey \notin Keys

Nodes  == 1..LruSize
NoNode == 0

In(q, n)    == \E i \in 1..Len(q) : q[i] = n
Distinct(q) == \A i, j \in 1..Len(q) : q[i] = q[j] => i = j

-----------------------------------------------------------------------------

queue_remove(q, n) ==
    LET i == CHOOSE i \in 1..Len(q) : q[i] = n IN RemoveAt(q, i)

queue_insert_head(q, n) == <<n>> \o q

\* Mutant: the header of the queue taken for its first node.
newMutant == [ hasht       |-> [k \in Keys |-> NoValue],
               key2node    |-> [k \in Keys |-> NoNode],
               node2key    |-> [n \in Nodes |-> NoKey],
               free_queue  |-> [n \in Nodes |-> n - 1],
               cache_queue |-> <<>> ]

new == [ hasht       |-> [k \in Keys |-> NoValue],
         key2node    |-> [k \in Keys |-> NoNode],
         node2key    |-> [n \in Nodes |-> NoKey],
         free_queue  |-> [n \in Nodes |-> n],
         cache_queue |-> <<>> ]

\* What get returns; touch is what it does to the cache.
peek(c, k) == c.hasht[k]

touch(c, k) ==
    IF c.hasht[k] = NoValue
    THEN c
    ELSE [c EXCEPT !.cache_queue = queue_insert_head(queue_remove(@, c.key2node[k]),
                                                     c.key2node[k])]

delete(c, k) ==
    LET n == c.key2node[k]
    IN  IF n = NoNode
        THEN [c EXCEPT !.hasht[k] = NoValue]
        ELSE [c EXCEPT !.hasht[k]    = NoValue,
                       !.key2node[k] = NoNode,
                       !.node2key[n] = NoKey,
                       !.cache_queue = queue_remove(@, n),
                       !.free_queue  = Append(@, n)]

\* The node that k gets: a free one, or that of the key used least recently.
NodeFor(c) == IF c.free_queue = <<>> THEN Last(c.cache_queue) ELSE Head(c.free_queue)

\* Mutant: the key keeps its way to the node.
EvictMutant(c, n) ==
    LET old == c.node2key[n]
    IN  IF old \in Keys THEN [c EXCEPT !.hasht[old] = NoValue] ELSE c

\* The key that loses node n, where there is one, loses its value too.
Evict(c, n) ==
    LET old == c.node2key[n]
    IN  IF old \in Keys
        THEN [c EXCEPT !.hasht[old] = NoValue, !.key2node[old] = NoNode]
        ELSE c

\* Node n, in whatever queue, becomes k's and the most recently used.
Assign(c, k, n) ==
    [c EXCEPT !.key2node[k] = n,
              !.node2key[n] = k,
              !.free_queue  = IF In(@, n) THEN queue_remove(@, n) ELSE @,
              !.cache_queue = queue_insert_head(IF In(@, n) THEN queue_remove(@, n) ELSE @, n)]

set(c, k, v) ==
    LET n == IF c.key2node[k] = NoNode THEN NodeFor(c) ELSE c.key2node[k]
        d == IF c.key2node[k] = NoNode THEN Evict(c, n) ELSE c
    IN  [Assign(d, k, n) EXCEPT !.hasht[k] = v]

-----------------------------------------------------------------------------

\* No node occurs twice in a queue, and each is in one of the two.
NodesKept(c) ==
    /\ Distinct(c.free_queue) /\ Distinct(c.cache_queue)
    /\ \A n \in Nodes : In(c.free_queue, n) <=> ~In(c.cache_queue, n)

\* The two tables are inverse to each other, and hold the nodes in use.
NodesTied(c) ==
    /\ \A k \in Keys : c.key2node[k] # NoNode => c.node2key[c.key2node[k]] = k
    /\ \A n \in Nodes : c.node2key[n] # NoKey => c.key2node[c.node2key[n]] = n
    /\ \A n \in Nodes : In(c.cache_queue, n) <=> c.node2key[n] # NoKey

\* A value is there exactly for the keys that have a node: the node that get
\* takes out of its queue is in it, and no value escapes the limit of size.
ValuesBounded(c) == \A k \in Keys : c.hasht[k] # NoValue <=> c.key2node[k] # NoNode

LruConsistent(c) == NodesKept(c) /\ NodesTied(c) /\ ValuesBounded(c)

LruType(Values) ==
    [ hasht       : [Keys -> Values \cup {NoValue}],
      key2node    : [Keys -> Nodes \cup {NoNode}],
      node2key    : [Nodes -> Keys \cup {NoKey}],
      free_queue  : Seq(Nodes),
      cache_queue : Seq(Nodes) ]
=============================================================================
