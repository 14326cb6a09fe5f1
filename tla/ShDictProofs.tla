---------------------------- MODULE ShDictProofs ----------------------------
(* Theorems about a lua_shared_dict zone, for any sets of keys and values,  *)
(* any pool, clock and bounds.                                             *)
EXTENDS ShDict, SequenceTheorems, FiniteSetTheorems, WellFoundedInduction, TLAPS

-----------------------------------------------------------------------------
(* The LRU queue: a sequence that holds no key twice.                      *)

Queue(q) == q \in Seq(Keys) /\ IsInjective(q)

\* The queue without k, whether k is in it or not.
Off(q, k) == IF k \in ToSet(q) THEN ngx_queue_remove(q, k) ELSE q

\* Removing k closes the gap at its place.
LEMMA RemoveAtPlace ==
    ASSUME NEW q, NEW i, Queue(q), i \in 1..Len(q)
    PROVE  LET r == ngx_queue_remove(q, q[i]) IN
           /\ r \in Seq(Keys) /\ Len(r) = Len(q) - 1
           /\ \A j \in 1..(Len(q) - 1) : r[j] = IF j < i THEN q[j] ELSE q[j + 1]
<1>1. /\ q \in Seq(Keys) /\ Len(q) \in Nat /\ DOMAIN q = 1..Len(q)
      /\ i \in Nat /\ 1 <= i /\ i <= Len(q)
  BY DEF Queue
<1>2. (CHOOSE j \in DOMAIN q : q[j] = q[i]) = i
  <2>1. \A j \in DOMAIN q : q[j] = q[i] <=> j = i
    BY <1>1 DEF Queue, IsInjective
  <2> DEFINE c == CHOOSE j \in DOMAIN q : q[j] = q[i]
  <2>2. c \in DOMAIN q /\ q[c] = q[i]
    BY <1>1
  <2> QED BY <2>1, <2>2
<1> DEFINE a == SubSeq(q, 1, i - 1)
           b == SubSeq(q, i + 1, Len(q))
           r == ngx_queue_remove(q, q[i])
<1>3. r = a \o b
  BY <1>2 DEF ngx_queue_remove, RemoveAt
<1>4. a \in Seq(Keys) /\ Len(a) = i - 1 /\ \A j \in 1..(i - 1) : a[j] = q[j]
  <2>1. \A j \in 1..(i - 1) : q[j] \in Keys
    BY <1>1
  <2> QED BY <1>1, <2>1
<1>5. b \in Seq(Keys) /\ Len(b) = Len(q) - i /\ \A j \in 1..(Len(q) - i) : b[j] = q[i + j]
  <2>1. q \in Seq(Keys) /\ Len(q) \in Nat /\ i \in Nat
    BY <1>1
  <2> QED BY <2>1
<1> HIDE DEF a, b, r
<1>6. /\ a \o b \in Seq(Keys) /\ Len(a \o b) = Len(a) + Len(b)
      /\ \A j \in 1..(Len(a) + Len(b)) :
             (a \o b)[j] = IF j <= Len(a) THEN a[j] ELSE b[j - Len(a)]
  BY <1>4, <1>5, ConcatProperties
<1>7. Len(a) + Len(b) = Len(q) - 1
  BY <1>1, <1>4, <1>5
<1>8. ASSUME NEW j \in 1..(Len(q) - 1)
      PROVE  r[j] = IF j < i THEN q[j] ELSE q[j + 1]
  <2>1. r[j] = IF j <= i - 1 THEN a[j] ELSE b[j - (i - 1)]
    BY <1>3, <1>4, <1>6, <1>7
  <2>2. CASE j < i
    BY <2>1, <2>2, <1>1, <1>4
  <2>3. CASE j >= i
    <3>1. j - (i - 1) \in 1..(Len(q) - i) /\ i + (j - (i - 1)) = j + 1
      BY <1>1, <2>3
    <3> QED BY <3>1, <2>1, <2>3, <1>1, <1>5
  <2> QED BY <2>2, <2>3, <1>1
<1> QED BY <1>3, <1>6, <1>7, <1>8 DEF r

\* It leaves a queue of the others.
LEMMA RemoveKeeps ==
    ASSUME NEW q, NEW k, Queue(q), k \in ToSet(q)
    PROVE  Queue(ngx_queue_remove(q, k)) /\ ToSet(ngx_queue_remove(q, k)) = ToSet(q) \ {k}
<1>1. q \in Seq(Keys) /\ Len(q) \in Nat /\ DOMAIN q = 1..Len(q)
  BY DEF Queue
<1>2. PICK i \in 1..Len(q) : q[i] = k
  BY <1>1 DEF ToSet
<1> DEFINE r == ngx_queue_remove(q, k)
<1>3. /\ r \in Seq(Keys) /\ Len(r) = Len(q) - 1
      /\ \A j \in 1..(Len(q) - 1) : r[j] = IF j < i THEN q[j] ELSE q[j + 1]
  BY <1>2, RemoveAtPlace
<1> HIDE DEF r
<1>4. DOMAIN r = 1..(Len(q) - 1)
  BY <1>3
<1>5. \A m, n \in DOMAIN q : q[m] = q[n] => m = n
  BY DEF Queue, IsInjective
<1>6. IsInjective(r)
  <2> SUFFICES ASSUME NEW m \in 1..(Len(q) - 1), NEW n \in 1..(Len(q) - 1), r[m] = r[n]
               PROVE  m = n
    BY <1>4 DEF IsInjective
  <2>1. \A x \in 1..(Len(q) - 1) : x \in DOMAIN q /\ x + 1 \in DOMAIN q
    BY <1>1
  <2>2. \A x \in 1..(Len(q) - 1) : /\ x < i => r[x] = q[x]
                                   /\ x >= i => r[x] = q[x + 1]
    BY <1>1, <1>3
  <2>3. CASE m < i /\ n < i
    BY <2>1, <2>2, <2>3, <1>5
  <2>4. CASE m < i /\ n >= i
    <3>1. q[m] = q[n + 1]
      BY <1>1, <2>2, <2>4
    <3>2. m = n + 1
      BY <3>1, <2>1, <1>5
    <3> QED BY <3>2, <2>4, <1>1
  <2>5. CASE m >= i /\ n < i
    <3>1. q[m + 1] = q[n]
      BY <1>1, <2>2, <2>5
    <3>2. m + 1 = n
      BY <3>1, <2>1, <1>5
    <3> QED BY <3>2, <2>5, <1>1
  <2>6. CASE m >= i /\ n >= i
    <3>1. q[m + 1] = q[n + 1]
      BY <1>1, <2>2, <2>6
    <3>2. m + 1 = n + 1
      BY <3>1, <2>1, <1>5
    <3> QED BY <3>2, <1>1
  <2> QED BY <2>3, <2>4, <2>5, <2>6, <1>1
<1>7. ToSet(r) \subseteq ToSet(q) \ {k}
  <2> SUFFICES ASSUME NEW m \in 1..(Len(q) - 1)
               PROVE  r[m] \in ToSet(q) \ {k}
    BY <1>4 DEF ToSet
  <2>1. m \in DOMAIN q /\ m + 1 \in DOMAIN q /\ i \in DOMAIN q
    BY <1>1
  <2>2. r[m] = IF m < i THEN q[m] ELSE q[m + 1]
    BY <1>3
  <2>3. r[m] # k
    BY <1>1, <1>2, <1>5, <2>1, <2>2
  <2> QED BY <2>1, <2>2, <2>3 DEF ToSet
<1>8. ToSet(q) \ {k} \subseteq ToSet(r)
  <2> SUFFICES ASSUME NEW m \in DOMAIN q, q[m] # k
               PROVE  q[m] \in ToSet(r)
    BY DEF ToSet
  <2>1. CASE m < i
    <3>1. m \in 1..(Len(q) - 1) /\ r[m] = q[m]
      BY <1>1, <1>3, <2>1
    <3> QED BY <3>1, <1>4 DEF ToSet
  <2>2. CASE m > i
    <3>1. m - 1 \in 1..(Len(q) - 1) /\ r[m - 1] = q[m]
      BY <1>1, <1>3, <2>2
    <3> QED BY <3>1, <1>4 DEF ToSet
  <2> QED BY <1>1, <1>2, <2>1, <2>2
<1> QED BY <1>3, <1>6, <1>7, <1>8 DEF Queue, r

\* A key that was not in the queue enters at the head.
LEMMA HeadKeeps ==
    ASSUME NEW q, NEW k \in Keys, Queue(q), k \notin ToSet(q)
    PROVE  /\ Queue(<<k>> \o q) /\ ToSet(<<k>> \o q) = ToSet(q) \cup {k}
           /\ ngx_queue_remove(<<k>> \o q, k) = q
<1> DEFINE r == <<k>> \o q
<1>1. q \in Seq(Keys) /\ Len(q) \in Nat /\ DOMAIN q = 1..Len(q)
  BY DEF Queue
<1>2. /\ r \in Seq(Keys) /\ Len(r) = Len(q) + 1 /\ DOMAIN r = 1..(Len(q) + 1)
      /\ r[1] = k /\ \A j \in 1..Len(q) : r[j + 1] = q[j]
  <2>1. <<k>> \in Seq(Keys) /\ Len(<<k>>) = 1 /\ <<k>>[1] = k
    OBVIOUS
  <2> QED BY <1>1, <2>1, ConcatProperties
<1> HIDE DEF r
<1>3. \A j \in 1..Len(q) : q[j] # k
  BY <1>1 DEF ToSet
<1>4. IsInjective(r)
  <2> SUFFICES ASSUME NEW m \in 1..(Len(q) + 1), NEW n \in 1..(Len(q) + 1), r[m] = r[n]
               PROVE  m = n
    BY <1>2 DEF IsInjective
  <2>1. \A x \in 1..(Len(q) + 1) : x # 1 => x - 1 \in 1..Len(q) /\ r[x] = q[x - 1]
    <3> TAKE x \in 1..(Len(q) + 1)
    <3>1. x # 1 => x - 1 \in 1..Len(q) /\ (x - 1) + 1 = x
      BY <1>1
    <3> QED BY <3>1, <1>2
  <2>2. CASE m = 1 \/ n = 1
    BY <2>1, <2>2, <1>2, <1>3
  <2>3. CASE m # 1 /\ n # 1
    <3>1. m - 1 = n - 1
      BY <2>1, <2>3, <1>1 DEF Queue, IsInjective
    <3> QED BY <3>1, <1>1
  <2> QED BY <2>2, <2>3
<1>5. ToSet(r) = ToSet(q) \cup {k}
  <2>1. \A j \in DOMAIN r : j = 1 \/ (j - 1 \in DOMAIN q /\ r[j] = q[j - 1])
    <3> TAKE j \in DOMAIN r
    <3>1. j # 1 => j - 1 \in 1..Len(q) /\ (j - 1) + 1 = j
      BY <1>1, <1>2
    <3> QED BY <3>1, <1>1, <1>2
  <2>2. \A j \in DOMAIN q : j + 1 \in DOMAIN r /\ r[j + 1] = q[j]
    BY <1>1, <1>2
  <2>3. 1 \in DOMAIN r
    BY <1>1, <1>2
  <2>4. ToSet(r) \subseteq ToSet(q) \cup {k}
    BY <2>1, <1>2 DEF ToSet
  <2>5. \A j \in DOMAIN q : q[j] \in ToSet(r)
    BY <2>2 DEF ToSet
  <2>6. k \in ToSet(r)
    BY <2>3, <1>2 DEF ToSet
  <2> QED BY <2>4, <2>5, <2>6 DEF ToSet
<1>6. ngx_queue_remove(r, k) = q
  <2> DEFINE s == ngx_queue_remove(r, k)
  <2>1. Queue(r) /\ 1 \in 1..Len(r) /\ r[1] = k
    BY <1>1, <1>2, <1>4 DEF Queue
  <2>2. /\ s \in Seq(Keys) /\ Len(s) = Len(r) - 1
        /\ \A j \in 1..(Len(r) - 1) : s[j] = IF j < 1 THEN r[j] ELSE r[j + 1]
    BY <2>1, RemoveAtPlace
  <2> HIDE DEF s
  <2>3. Len(s) = Len(q) /\ \A j \in 1..Len(q) : s[j] = q[j]
    BY <2>2, <1>1, <1>2
  <2>4. s = q
    BY <2>2, <2>3, <1>1, SeqEqual
  <2> QED BY <2>4 DEF s
<1> QED BY <1>2, <1>4, <1>5, <1>6 DEF r, Queue

\* Taking k out gives the queue off k.
LEMMA OffKeeps ==
    ASSUME NEW q, NEW k, Queue(q)
    PROVE  Queue(Off(q, k)) /\ ToSet(Off(q, k)) = ToSet(q) \ {k}
<1>1. CASE k \in ToSet(q)
  BY <1>1, RemoveKeeps DEF Off
<1>2. CASE k \notin ToSet(q)
  BY <1>2 DEF Off
<1> QED BY <1>1, <1>2

\* Off k it stays when k leaves or comes back to the head.
LEMMA OffMoved ==
    ASSUME NEW q, NEW k \in Keys, Queue(q)
    PROVE  /\ Off(Off(q, k), k) = Off(q, k)
           /\ Queue(<<k>> \o Off(q, k))
           /\ ToSet(<<k>> \o Off(q, k)) = ToSet(q) \cup {k}
           /\ Off(<<k>> \o Off(q, k), k) = Off(q, k)
<1> DEFINE p == Off(q, k)
<1>1. Queue(p) /\ ToSet(p) = ToSet(q) \ {k}
  BY OffKeeps
<1> HIDE DEF p
<1>2. k \notin ToSet(p)
  BY <1>1
<1>3. Off(p, k) = p
  BY <1>2 DEF Off
<1>4. /\ Queue(<<k>> \o p) /\ ToSet(<<k>> \o p) = ToSet(p) \cup {k}
      /\ ngx_queue_remove(<<k>> \o p, k) = p
  BY <1>1, <1>2, HeadKeeps
<1>5. Off(<<k>> \o p, k) = p
  BY <1>4 DEF Off
<1> QED BY <1>1, <1>3, <1>4, <1>5 DEF p

\* p is the beginning of q.
Start(p, q) == Len(p) <= Len(q) /\ \A j \in 1..Len(p) : p[j] = q[j]

LEMMA StartTransitive ==
    ASSUME NEW p, NEW q, NEW r, Queue(p), Queue(q), Queue(r), Start(p, q), Start(q, r)
    PROVE  Start(p, r)
<1>1. Len(p) \in Nat /\ Len(q) \in Nat /\ Len(r) \in Nat
  BY DEF Queue
<1>2. \A j \in 1..Len(p) : j \in 1..Len(q)
  BY <1>1 DEF Start
<1> QED BY <1>1, <1>2 DEF Start

\* When the tail of the queue leaves, the rest is a beginning; so it is off k.
LEMMA TailLeaves ==
    ASSUME NEW q, NEW k, Queue(q), q # <<>>
    PROVE  /\ Last(q) \in ToSet(q)
           /\ Start(Off(ngx_queue_remove(q, Last(q)), k), Off(q, k))
<1> DEFINE n == Len(q)
           r == ngx_queue_remove(q, Last(q))
<1>1. q \in Seq(Keys) /\ n \in Nat /\ n \in 1..n /\ Last(q) = q[n]
  BY DEF Queue, Last
<1>2. Last(q) \in ToSet(q)
  BY <1>1 DEF ToSet
<1>3. Queue(r) /\ ToSet(r) = ToSet(q) \ {Last(q)}
  BY <1>2, RemoveKeeps
<1>4. /\ Len(r) = n - 1
      /\ \A j \in 1..(n - 1) : r[j] = IF j < n THEN q[j] ELSE q[j + 1]
  BY <1>1, RemoveAtPlace
<1>5. \A j \in 1..(n - 1) : r[j] = q[j]
  BY <1>1, <1>4
<1> HIDE DEF r
<1>6. CASE Last(q) = k
  <2>1. Off(r, k) = r /\ Off(q, k) = r
    BY <1>2, <1>3, <1>6 DEF Off, r
  <2> QED BY <2>1, <1>1, <1>2, <1>4 DEF Start, r
<1>7. CASE Last(q) # k /\ k \notin ToSet(q)
  <2>1. Off(r, k) = r /\ Off(q, k) = q
    BY <1>3, <1>7 DEF Off
  <2>2. Start(r, q)
    BY <1>1, <1>4, <1>5 DEF Start
  <2> QED BY <2>1, <2>2, <1>2 DEF r
<1>8. CASE Last(q) # k /\ k \in ToSet(q)
  <2>1. PICK i \in DOMAIN q : q[i] = k
    BY <1>8 DEF ToSet
  <2>2. i \in 1..n /\ i # n
    BY <2>1, <1>1, <1>8
  <2>3. i \in 1..(n - 1)
    BY <2>2, <1>1
  <2>4. r[i] = k /\ i \in 1..Len(r)
    BY <2>1, <2>3, <1>4, <1>5
  <2> DEFINE a == ngx_queue_remove(r, k)
             b == ngx_queue_remove(q, k)
  <2>5. Len(a) = Len(r) - 1 /\ \A j \in 1..(Len(r) - 1) : a[j] = IF j < i THEN r[j] ELSE r[j + 1]
    BY <2>4, <1>3, RemoveAtPlace
  <2>6. Len(b) = n - 1 /\ \A j \in 1..(n - 1) : b[j] = IF j < i THEN q[j] ELSE q[j + 1]
    BY <2>1, <2>2, RemoveAtPlace
  <2> HIDE DEF a, b
  <2>7. Len(a) = n - 2
    BY <2>5, <1>1, <1>4
  <2>8. ASSUME NEW j \in 1..(n - 2)
        PROVE  a[j] = b[j]
    <3>1. j \in 1..(n - 1) /\ j + 1 \in 1..(n - 1) /\ j \in 1..(Len(r) - 1)
      BY <1>1, <1>4
    <3>2. r[j] = q[j] /\ r[j + 1] = q[j + 1]
      BY <3>1, <1>5
    <3>3. a[j] = IF j < i THEN r[j] ELSE r[j + 1]
      BY <3>1, <2>5
    <3>4. b[j] = IF j < i THEN q[j] ELSE q[j + 1]
      BY <3>1, <2>6
    <3> QED BY <3>2, <3>3, <3>4
  <2>9. Start(a, b)
    BY <2>6, <2>7, <2>8, <1>1 DEF Start
  <2>10. k \in ToSet(r)
    BY <1>3, <1>8
  <2>11. Off(r, k) = a /\ Off(q, k) = b
    BY <2>10, <1>8 DEF Off, a, b
  <2> QED BY <2>9, <2>11, <1>2 DEF r
<1> QED BY <1>6, <1>7, <1>8

\* Where the queue off k has lost a key, it has lost all that came after it.
LEMMA StartKeepsOrder ==
    ASSUME NEW p, NEW q, NEW k, NEW i, NEW j,
           Queue(p), Queue(q), Start(Off(p, k), Off(q, k)),
           i \in 1..Len(q), j \in i..Len(q), q[i] # k, q[j] # k, q[j] \in ToSet(p)
    PROVE  q[i] \in ToSet(p)
<1> DEFINE a == Off(p, k)
           b == Off(q, k)
<1>1. Queue(a) /\ ToSet(a) = ToSet(p) \ {k} /\ Queue(b)
  BY OffKeeps
<1>2. Len(q) \in Nat /\ q \in Seq(Keys) /\ i \in Nat /\ j \in Nat /\ i <= j /\ j <= Len(q)
  BY DEF Queue
<1>3. \E x, y \in 1..Len(b) : x <= y /\ b[x] = q[i] /\ b[y] = q[j]
  <2>1. CASE k \notin ToSet(q)
    <3>1. b = q
      BY <2>1 DEF Off
    <3>2. i \in 1..Len(q) /\ j \in 1..Len(q)
      BY <1>2
    <3> QED BY <3>1, <3>2, <1>2
  <2>2. CASE k \in ToSet(q)
    <3>1. PICK m \in DOMAIN q : q[m] = k
      BY <2>2 DEF ToSet
    <3>2. m \in 1..Len(q) /\ m # i /\ m # j
      BY <3>1, <1>2
    <3>3. b = ngx_queue_remove(q, q[m])
      BY <2>2, <3>1 DEF Off
    <3>4. /\ Len(b) = Len(q) - 1
          /\ \A x \in 1..(Len(q) - 1) : b[x] = IF x < m THEN q[x] ELSE q[x + 1]
      BY <3>2, <3>3, RemoveAtPlace
    <3> HIDE DEF b
    <3>5. \A z \in 1..Len(q) : z < m => z \in 1..(Len(q) - 1) /\ b[z] = q[z]
      BY <3>2, <3>4, <1>2
    <3>6. \A z \in 1..Len(q) : z > m => z - 1 \in 1..(Len(q) - 1) /\ b[z - 1] = q[z]
      <4> TAKE z \in 1..Len(q)
      <4> HAVE z > m
      <4>1. z - 1 \in 1..(Len(q) - 1) /\ ~(z - 1 < m) /\ z - 1 + 1 = z
        BY <3>2, <1>2
      <4> QED BY <4>1, <3>4
    <3>7. CASE i < m /\ j < m
      <4>1. i \in 1..Len(b) /\ j \in 1..Len(b) /\ b[i] = q[i] /\ b[j] = q[j]
        BY <3>4, <3>5, <3>7, <1>2
      <4> QED BY <4>1, <1>2
    <3>8. CASE i < m /\ j > m
      <4>1. i \in 1..Len(b) /\ j - 1 \in 1..Len(b) /\ b[i] = q[i] /\ b[j - 1] = q[j]
        BY <3>4, <3>5, <3>6, <3>8, <1>2
      <4>2. i <= j - 1
        BY <3>2, <3>8, <1>2
      <4> QED BY <4>1, <4>2
    <3>9. CASE i > m /\ j > m
      <4>1. i - 1 \in 1..Len(b) /\ j - 1 \in 1..Len(b) /\ b[i - 1] = q[i] /\ b[j - 1] = q[j]
        BY <3>4, <3>6, <3>9, <1>2
      <4>2. i - 1 <= j - 1
        BY <1>2
      <4> QED BY <4>1, <4>2
    <3>10. ~(i > m /\ j < m)
      BY <3>2, <1>2
    <3> QED BY <3>2, <3>7, <3>8, <3>9, <3>10, <1>2
  <2> QED BY <2>1, <2>2
<1> HIDE DEF a, b
<1>4. PICK x \in 1..Len(b), y \in 1..Len(b) : x <= y /\ b[x] = q[i] /\ b[y] = q[j]
  BY <1>3
<1>5. Len(a) \in Nat /\ Len(b) \in Nat /\ DOMAIN a = 1..Len(a) /\ DOMAIN b = 1..Len(b)
  BY <1>1 DEF Queue
<1>6. PICK z \in 1..Len(a) : a[z] = q[j]
  <2>1. q[j] \in ToSet(a)
    BY <1>1
  <2> QED BY <2>1, <1>5 DEF ToSet
<1>7. z \in 1..Len(b) /\ b[z] = q[j] /\ \A w \in 1..Len(a) : a[w] = b[w]
  BY <1>5, <1>6 DEF Start, a, b
<1>8. z = y
  BY <1>1, <1>4, <1>5, <1>7 DEF Queue, IsInjective
<1>9. x \in 1..Len(a)
  BY <1>4, <1>5, <1>6, <1>8
<1>10. a[x] = q[i]
  BY <1>4, <1>7, <1>9
<1>11. q[i] \in ToSet(a)
  BY <1>5, <1>9, <1>10 DEF ToSet
<1> QED BY <1>1, <1>11

-----------------------------------------------------------------------------
(* The elements of a list.                                                 *)

\* The sizes of the beginnings of s, as ItemsSize adds them up.
Sizes(s, f) ==
    f = [i \in 0..Len(s) |-> IF i = 0 THEN 0 ELSE f[i - 1] + ElementSize(s[i])]

\* A set of numbers that holds 0, and n + 1 with n, holds them all.
LEMMA AllNumbers ==
    ASSUME NEW P, 0 \in P, \A n \in Nat : n \in P => n + 1 \in P
    PROVE  Nat \subseteq P
<1> SUFFICES ASSUME Nat \ P # {}
             PROVE  FALSE
  OBVIOUS
<1> DEFINE R == OpToRel(<, Nat)
<1>1. PICK m \in Nat \ P : \A n \in Nat \ P : ~(<<n, m>> \in R)
  <2>1. IsWellFoundedOn(R, Nat)
    BY NatLessThanWellFounded
  <2> HIDE DEF R
  <2> QED BY <2>1, WFMin
<1>2. \A n \in Nat \ P : ~(n < m)
  BY <1>1 DEF OpToRel
<1>3. m # 0
  BY <1>1
<1>4. m - 1 \in Nat /\ m - 1 < m /\ (m - 1) + 1 = m
  BY <1>3
<1>5. m - 1 \in P
  BY <1>2, <1>4
<1> QED BY <1>1, <1>4, <1>5

\* The recursion of ItemsSize is well defined: there is a function that adds element by element.
LEMMA SizesExist ==
    ASSUME NEW s \in Seq(Elements)
    PROVE  \E f : Sizes(s, f) /\ ItemsSize(s) = f[Len(s)]
<1> DEFINE Part(n) == \E f : f = [i \in 0..n |-> IF i = 0 THEN 0 ELSE f[i - 1] + ElementSize(s[i])]
<1>1. Part(0)
  <2> DEFINE f == [i \in 0..0 |-> 0]
  <2>1. f = [i \in 0..0 |-> IF i = 0 THEN 0 ELSE f[i - 1] + ElementSize(s[i])]
    OBVIOUS
  <2> QED BY <2>1
<1>2. ASSUME NEW n \in Nat, Part(n)
      PROVE  Part(n + 1)
  <2>1. PICK f : f = [i \in 0..n |-> IF i = 0 THEN 0 ELSE f[i - 1] + ElementSize(s[i])]
    BY <1>2
  <2> DEFINE e(i) == ElementSize(s[i])
             g == [i \in 0..(n + 1) |-> IF i = n + 1 THEN f[n] + e(n + 1) ELSE f[i]]
  <2>2. \A i \in 0..n : f[i] = IF i = 0 THEN 0 ELSE f[i - 1] + e(i)
    BY <2>1
  <2> HIDE DEF e
  <2>3. \A i \in 0..(n + 1) : g[i] = IF i = 0 THEN 0 ELSE g[i - 1] + e(i)
    <3> TAKE i \in 0..(n + 1)
    <3>1. CASE i = n + 1
      <4>1. i # 0 /\ i - 1 = n /\ n \in 0..(n + 1) /\ n # n + 1
        BY <3>1
      <4> QED BY <3>1, <4>1
    <3>2. CASE i # n + 1 /\ i # 0
      <4>1. i \in 0..n /\ i - 1 \in 0..(n + 1) /\ i - 1 # n + 1
        BY <3>2
      <4> QED BY <3>2, <4>1, <2>2
    <3>3. CASE i = 0
      <4>1. i # n + 1 /\ i \in 0..n
        BY <3>3
      <4> QED BY <3>3, <4>1, <2>2
    <3> QED BY <3>1, <3>2, <3>3
  <2>4. g = [i \in 0..(n + 1) |-> IF i = 0 THEN 0 ELSE g[i - 1] + e(i)]
    BY <2>3
  <2> HIDE DEF g
  <2> QED BY <2>4 DEF e
<1> HIDE DEF Part
<1>3. \A n \in Nat : Part(n)
  <2> DEFINE P == {n \in Nat : Part(n)}
  <2>1. 0 \in P /\ \A n \in Nat : n \in P => n + 1 \in P
    BY <1>1, <1>2
  <2> HIDE DEF P
  <2>2. Nat \subseteq P
    BY <2>1, AllNumbers
  <2> QED BY <2>2 DEF P
<1> DEFINE c == CHOOSE f : f = [i \in 0..Len(s) |-> IF i = 0 THEN 0 ELSE f[i - 1] + ElementSize(s[i])]
<1>4. Len(s) \in Nat
  OBVIOUS
<1>5. \E f : Sizes(s, f) /\ ItemsSize(s) = f[Len(s)]
  <2>1. Part(Len(s))
    BY <1>3, <1>4
  <2>2. Sizes(s, c)
    BY <2>1 DEF Sizes, Part
  <2>3. ItemsSize(s) = c[Len(s)]
    BY DEF ItemsSize
  <2> HIDE DEF c
  <2> QED BY <2>2, <2>3
<1> QED BY <1>5

LEMMA ElementSizeNat ==
    ASSUME NEW v \in Elements
    PROVE  ElementSize(v) \in Nat
BY ShDictAssumption DEF ElementSize

\* u holds s from place d + 1 on.
Holds(u, s, d) == Len(s) + d <= Len(u) /\ \A i \in 1..Len(s) : u[i + d] = s[i]

\* There its sizes grow as those of s.
LEMMA SizesAgree ==
    ASSUME NEW s \in Seq(Elements), NEW u \in Seq(Elements), NEW f, NEW g, NEW d \in Nat,
           Sizes(s, f), Sizes(u, g), Holds(u, s, d)
    PROVE  \A i \in 0..Len(s) : f[i] \in Nat /\ g[d] + f[i] = g[i + d]
<1> DEFINE P == {n \in Nat : n <= Len(s) => f[n] \in Nat /\ g[d] + f[n] = g[n + d]}
<1>1. /\ Len(s) \in Nat /\ Len(u) \in Nat /\ Len(s) + d <= Len(u)
      /\ \A i \in 1..Len(s) : u[i + d] = s[i]
  BY DEF Holds
<1>2. \A i \in 0..Len(s) : f[i] = IF i = 0 THEN 0 ELSE f[i - 1] + ElementSize(s[i])
  BY DEF Sizes
<1>3. \A i \in 0..Len(u) : g[i] = IF i = 0 THEN 0 ELSE g[i - 1] + ElementSize(u[i])
  BY DEF Sizes
<1>4. \A i \in 0..Len(u) : g[i] \in Nat
  <2> DEFINE Q == {n \in Nat : n <= Len(u) => g[n] \in Nat}
  <2>1. 0 \in Q
    BY <1>1, <1>3
  <2>2. ASSUME NEW n \in Nat, n \in Q
        PROVE  n + 1 \in Q
    <3> SUFFICES ASSUME n + 1 <= Len(u)
                 PROVE  g[n + 1] \in Nat
      OBVIOUS
    <3>1. n + 1 \in 1..Len(u) /\ n + 1 \in 0..Len(u) /\ n + 1 # 0 /\ n + 1 - 1 = n /\ n <= Len(u)
      BY <1>1
    <3>2. ElementSize(u[n + 1]) \in Nat
      BY <3>1, ElementSizeNat, ElementOfSeq
    <3>3. g[n + 1] = g[n] + ElementSize(u[n + 1])
      BY <3>1, <1>3
    <3>4. g[n] \in Nat
      BY <3>1, <2>2
    <3> QED BY <3>2, <3>3, <3>4
  <2> HIDE DEF Q
  <2>3. Nat \subseteq Q
    BY <2>1, <2>2, AllNumbers
  <2> QED BY <2>3, <1>1 DEF Q
<1>5. 0 \in P
  <2>1. f[0] = 0 /\ d \in 0..Len(u)
    BY <1>1, <1>2
  <2> QED BY <2>1, <1>4
<1>6. ASSUME NEW n \in Nat, n \in P
      PROVE  n + 1 \in P
  <2> SUFFICES ASSUME n + 1 <= Len(s)
               PROVE  f[n + 1] \in Nat /\ g[d] + f[n + 1] = g[n + 1 + d]
    OBVIOUS
  <2>1. n + 1 \in 1..Len(s) /\ n + 1 \in 0..Len(s) /\ n + 1 # 0 /\ n + 1 - 1 = n /\ n <= Len(s)
    BY <1>1
  <2>2. n + 1 + d \in 0..Len(u) /\ n + 1 + d # 0 /\ n + 1 + d - 1 = n + d /\ d \in 0..Len(u)
    BY <1>1, <2>1
  <2> DEFINE e == ElementSize(s[n + 1])
  <2>3. e \in Nat
    BY <2>1, ElementSizeNat, ElementOfSeq
  <2>4. f[n + 1] = f[n] + e
    BY <2>1, <1>2
  <2>5. g[n + 1 + d] = g[n + d] + e
    <3>1. u[n + 1 + d] = s[n + 1]
      BY <2>1, <1>1
    <3> QED BY <3>1, <2>2, <1>3
  <2>6. f[n] \in Nat /\ g[d] + f[n] = g[n + d] /\ g[d] \in Nat
    BY <1>6, <2>1, <2>2, <1>4
  <2> HIDE DEF e
  <2> QED BY <2>3, <2>4, <2>5, <2>6
<1> HIDE DEF P
<1>7. Nat \subseteq P
  BY <1>5, <1>6, AllNumbers
<1> QED BY <1>7, <1>1 DEF P

\* An empty list takes no memory; others a natural number of units.
LEMMA ItemsSizeNat ==
    ASSUME NEW s \in Seq(Elements)
    PROVE  ItemsSize(s) \in Nat /\ ItemsSize(<<>>) = 0
<1>1. ASSUME NEW u \in Seq(Elements)
      PROVE  ItemsSize(u) \in Nat /\ (u = <<>> => ItemsSize(u) = 0)
  <2>1. PICK f : Sizes(u, f) /\ ItemsSize(u) = f[Len(u)]
    BY SizesExist
  <2>2. Len(u) \in Nat /\ Holds(u, u, 0)
    BY DEF Holds
  <2>3. \A i \in 0..Len(u) : f[i] \in Nat
    BY <2>1, <2>2, SizesAgree
  <2>4. f[0] = 0
    BY <2>1, <2>2 DEF Sizes
  <2> QED BY <2>1, <2>2, <2>3, <2>4
<1>2. <<>> \in Seq(Elements)
  OBVIOUS
<1> QED BY <1>1, <1>2

\* An element more at the right, or at the left.
LEMMA ItemsSizeMore ==
    ASSUME NEW s \in Seq(Elements), NEW v \in Elements
    PROVE  /\ ItemsSize(Append(s, v)) = ItemsSize(s) + ElementSize(v)
           /\ ItemsSize(<<v>> \o s) = ItemsSize(s) + ElementSize(v)
<1>1. PICK f : Sizes(s, f) /\ ItemsSize(s) = f[Len(s)]
  BY SizesExist
<1>2. Len(s) \in Nat /\ Len(s) \in 0..Len(s)
  OBVIOUS
<1>3. ElementSize(v) \in Nat
  BY ElementSizeNat
<1>4. ItemsSize(Append(s, v)) = ItemsSize(s) + ElementSize(v)
  <2> DEFINE u == Append(s, v)
  <2>1. /\ u \in Seq(Elements) /\ Len(u) = Len(s) + 1 /\ u[Len(s) + 1] = v
        /\ \A i \in 1..Len(s) : u[i] = s[i]
    OBVIOUS
  <2> HIDE DEF u
  <2>2. PICK g : Sizes(u, g) /\ ItemsSize(u) = g[Len(u)]
    BY <2>1, SizesExist
  <2>3. Len(s) + 0 <= Len(u) /\ \A i \in 1..Len(s) : u[i + 0] = s[i]
    BY <1>2, <2>1
  <2>4. \A i \in 0..Len(s) : f[i] \in Nat /\ g[0] + f[i] = g[i + 0]
    <3>1. Holds(u, s, 0)
      BY <2>1, <2>3 DEF Holds
    <3> QED BY <3>1, <1>1, <2>1, <2>2, SizesAgree
  <2>5. \A i \in 0..Len(u) : g[i] = IF i = 0 THEN 0 ELSE g[i - 1] + ElementSize(u[i])
    BY <2>2 DEF Sizes
  <2>6. g[0] = 0 /\ g[Len(s) + 1] = g[Len(s)] + ElementSize(v)
    <3>1. 0 \in 0..Len(u) /\ Len(s) + 1 \in 0..Len(u) /\ Len(s) + 1 # 0 /\ Len(s) + 1 - 1 = Len(s)
      BY <1>2, <2>1
    <3> QED BY <3>1, <2>1, <2>5
  <2>7. f[Len(s)] = g[Len(s)]
    BY <1>2, <2>4, <2>6
  <2>8. ItemsSize(u) = ItemsSize(s) + ElementSize(v)
    BY <1>1, <2>1, <2>2, <2>6, <2>7
  <2> QED BY <2>8 DEF u
<1>5. ItemsSize(<<v>> \o s) = ItemsSize(s) + ElementSize(v)
  <2> DEFINE u == <<v>> \o s
  <2>1. /\ u \in Seq(Elements) /\ Len(u) = Len(s) + 1 /\ u[1] = v
        /\ \A i \in 1..Len(s) : u[i + 1] = s[i]
    <3>1. <<v>> \in Seq(Elements) /\ Len(<<v>>) = 1 /\ <<v>>[1] = v
      OBVIOUS
    <3> QED BY <3>1, ConcatProperties
  <2> HIDE DEF u
  <2>2. PICK g : Sizes(u, g) /\ ItemsSize(u) = g[Len(u)]
    BY <2>1, SizesExist
  <2>3. Len(s) + 1 <= Len(u)
    BY <1>2, <2>1
  <2>4. \A i \in 0..Len(s) : f[i] \in Nat /\ g[1] + f[i] = g[i + 1]
    <3>1. Holds(u, s, 1)
      BY <2>1, <2>3 DEF Holds
    <3> QED BY <3>1, <1>1, <2>1, <2>2, SizesAgree
  <2>5. g[1] = ElementSize(v)
    <3>1. \A i \in 0..Len(u) : g[i] = IF i = 0 THEN 0 ELSE g[i - 1] + ElementSize(u[i])
      BY <2>2 DEF Sizes
    <3>2. 0 \in 0..Len(u) /\ 1 \in 0..Len(u)
      BY <1>2, <2>1
    <3>3. g[0] = 0 /\ g[1] = g[0] + ElementSize(v)
      BY <3>1, <3>2, <2>1
    <3> QED BY <3>3, <1>3
  <2>6. f[Len(s)] \in Nat /\ g[1] + f[Len(s)] = g[Len(s) + 1]
    BY <1>2, <2>4
  <2>7. ItemsSize(u) = ItemsSize(s) + ElementSize(v)
    BY <1>1, <1>3, <2>1, <2>2, <2>5, <2>6
  <2> QED BY <2>7 DEF u
<1> QED BY <1>4, <1>5

\* An element less at the left, or at the right.
LEMMA ItemsSizeLess ==
    ASSUME NEW s \in Seq(Elements), s # <<>>
    PROVE  /\ Tail(s) \in Seq(Elements) /\ Head(s) \in Elements
           /\ ItemsSize(s) = ItemsSize(Tail(s)) + ElementSize(Head(s))
           /\ Front(s) \in Seq(Elements) /\ Last(s) \in Elements
           /\ ItemsSize(s) = ItemsSize(Front(s)) + ElementSize(Last(s))
<1>1. Tail(s) \in Seq(Elements) /\ Head(s) \in Elements /\ s = <<Head(s)>> \o Tail(s)
  OBVIOUS
<1>2. Front(s) \in Seq(Elements) /\ Last(s) \in Elements /\ s = Append(Front(s), Last(s))
  <2>1. PICK u \in Seq(Elements), v \in Elements : s = Append(u, v)
    BY SequenceEmptyOrAppend
  <2>2. Len(s) = Len(u) + 1 /\ s[Len(u) + 1] = v /\ \A i \in 1..Len(u) : s[i] = u[i]
    BY <2>1
  <2>3. Last(s) = v
    BY <2>2 DEF Last
  <2>4. Front(s) = SubSeq(s, 1, Len(u))
    BY <2>2 DEF Front
  <2>5. SubSeq(s, 1, Len(u)) = u
    BY <2>1, <2>2, SubSeqProperties, SeqEqual
  <2> QED BY <2>1, <2>3, <2>4, <2>5
<1>3. ItemsSize(<<Head(s)>> \o Tail(s)) = ItemsSize(Tail(s)) + ElementSize(Head(s))
  BY <1>1, ItemsSizeMore
<1>4. ItemsSize(Append(Front(s), Last(s))) = ItemsSize(Front(s)) + ElementSize(Last(s))
  BY <1>2, ItemsSizeMore
<1> QED BY <1>1, <1>2, <1>3, <1>4

-----------------------------------------------------------------------------
(* The sum of a function over its domain.                                  *)

One(s) == CHOOSE x \in s : TRUE

\* The sums of f over the subsets of its domain, as SumFunction builds them.
Sums(f, sum) ==
    sum = [s \in SUBSET DOMAIN f |-> IF s = {} THEN 0 ELSE f[One(s)] + sum[s \ {One(s)}]]

\* What CHOOSE takes out of a finite set leaves one element less.
LEMMA OneOf ==
    ASSUME NEW s, IsFiniteSet(s), s # {}
    PROVE  /\ One(s) \in s /\ IsFiniteSet(s \ {One(s)})
           /\ Cardinality(s) \in Nat \ {0}
           /\ \A x \in s : Cardinality(s \ {x}) = Cardinality(s) - 1
<1>1. One(s) \in s
  BY DEF One
<1>2. \A x \in s : IsFiniteSet(s \ {x}) /\ Cardinality(s \ {x}) = Cardinality(s) - 1
  BY FS_RemoveElement
<1>3. Cardinality(s) \in Nat
  BY FS_CardinalityType
<1>4. Cardinality(s) # 0
  BY FS_EmptySet
<1> QED BY <1>1, <1>2, <1>3, <1>4

\* SumFunction is well defined: there is a function on the subsets of the domain that adds
\* one value at a time.
LEMMA SumsExist ==
    ASSUME NEW f, IsFiniteSet(DOMAIN f)
    PROVE  \E sum : Sums(f, sum) /\ SumFunction(f) = sum[DOMAIN f]
<1> DEFINE D == DOMAIN f
           Right(g, s) == g[s] = IF s = {} THEN 0 ELSE f[One(s)] + g[s \ {One(s)}]
           P == {n \in Nat : \E g : \A s \in SUBSET D : Cardinality(s) <= n => Right(g, s)}
<1>1. \A s \in SUBSET D : IsFiniteSet(s) /\ Cardinality(s) \in Nat
  BY FS_Subset, FS_CardinalityType
<1>2. 0 \in P
  <2> DEFINE g == [s \in SUBSET D |-> 0]
  <2>1. ASSUME NEW s \in SUBSET D, Cardinality(s) <= 0
        PROVE  Right(g, s)
    <3>1. Cardinality(s) = 0
      BY <1>1, <2>1
    <3>2. s = {}
      BY <1>1, <3>1, FS_EmptySet
    <3> QED BY <3>2
  <2> HIDE DEF g, Right
  <2> QED BY <2>1
<1>3. ASSUME NEW n \in Nat, n \in P
      PROVE  n + 1 \in P
  <2>1. PICK g : \A s \in SUBSET D : Cardinality(s) <= n => Right(g, s)
    BY <1>3
  <2> DEFINE h == [s \in SUBSET D |-> IF Cardinality(s) <= n THEN g[s]
                                      ELSE f[One(s)] + g[s \ {One(s)}]]
  <2>2. ASSUME NEW s \in SUBSET D, Cardinality(s) <= n + 1
        PROVE  Right(h, s)
    <3>1. CASE s = {}
      <4>1. Cardinality(s) <= n
        BY <3>1, FS_EmptySet
      <4>2. h[s] = g[s]
        BY <4>1
      <4>3. g[s] = 0
        BY <2>1, <3>1, <4>1
      <4> QED BY <3>1, <4>2, <4>3
    <3>2. CASE s # {}
      <4> DEFINE r == s \ {One(s)}
      <4>1. One(s) \in s /\ Cardinality(r) = Cardinality(s) - 1 /\ Cardinality(s) \in Nat
        BY <1>1, <3>2, OneOf
      <4>2. r \in SUBSET D /\ Cardinality(r) <= n
        BY <2>2, <4>1
      <4> HIDE DEF r
      <4>3. h[r] = g[r]
        BY <4>2
      <4>4. CASE Cardinality(s) <= n
        <5>1. h[s] = g[s] /\ Right(g, s)
          BY <2>1, <4>4
        <5> QED BY <3>2, <4>3, <5>1 DEF r
      <4>5. CASE ~(Cardinality(s) <= n)
        BY <3>2, <4>3, <4>5 DEF r
      <4> QED BY <4>4, <4>5
    <3> QED BY <3>1, <3>2
  <2> HIDE DEF h, Right
  <2> QED BY <2>2
<1> HIDE DEF P
<1>4. Cardinality(D) \in P
  BY <1>1, <1>2, <1>3, AllNumbers
<1>5. PICK g : \A s \in SUBSET D : Cardinality(s) <= Cardinality(D) => Right(g, s)
  BY <1>4 DEF P
<1>6. \A s \in SUBSET D : Right(g, s)
  <2> TAKE s \in SUBSET D
  <2>1. Cardinality(s) <= Cardinality(D)
    BY FS_Subset
  <2> QED BY <1>5, <2>1
<1> DEFINE sum == [s \in SUBSET D |-> g[s]]
<1>7. Sums(f, sum)
  <2>1. \A s \in SUBSET D : sum[s] = IF s = {} THEN 0 ELSE f[One(s)] + sum[s \ {One(s)}]
    <3> TAKE s \in SUBSET D
    <3>1. s \ {One(s)} \in SUBSET D
      OBVIOUS
    <3>2. sum[s] = g[s] /\ sum[s \ {One(s)}] = g[s \ {One(s)}]
      BY <3>1
    <3>3. Right(g, s)
      BY <1>6
    <3> HIDE DEF sum
    <3> QED BY <3>2, <3>3
  <2>2. sum = [s \in SUBSET D |-> sum[s]]
    OBVIOUS
  <2> HIDE DEF sum
  <2> QED BY <2>1, <2>2 DEF Sums
<1> HIDE DEF sum
<1> DEFINE c == CHOOSE u : Sums(f, u)
<1>8. Sums(f, c)
  BY <1>7
<1>9. SumFunction(f) = c[DOMAIN f]
  BY Zenon DEF SumFunction, SumFunctionOnSet, FoldFunctionOnSet, MapThenFoldSet, Sums, One
<1> HIDE DEF c
<1> QED BY <1>8, <1>9

\* Each element of a set has its share in the sum, whatever order they are taken in.
LEMMA SumsSplit ==
    ASSUME NEW f, NEW sum, IsFiniteSet(DOMAIN f), Sums(f, sum), \A x \in DOMAIN f : f[x] \in Nat
    PROVE  \A s \in SUBSET DOMAIN f :
              sum[s] \in Nat /\ \A y \in s : sum[s] = f[y] + sum[s \ {y}]
<1> DEFINE D == DOMAIN f
           Split(s) == sum[s] \in Nat /\ \A y \in s : sum[s] = f[y] + sum[s \ {y}]
           P == {n \in Nat : \A s \in SUBSET D : Cardinality(s) <= n => Split(s)}
<1>1. \A s \in SUBSET D : IsFiniteSet(s) /\ Cardinality(s) \in Nat
  BY FS_Subset, FS_CardinalityType
<1>2. \A s \in SUBSET D : sum[s] = IF s = {} THEN 0 ELSE f[One(s)] + sum[s \ {One(s)}]
  BY DEF Sums
<1>3. 0 \in P
  <2> SUFFICES ASSUME NEW s \in SUBSET D, Cardinality(s) <= 0
               PROVE  Split(s)
    OBVIOUS
  <2>0. Cardinality(s) = 0
    BY <1>1
  <2>1. s = {}
    BY <2>0, <1>1, FS_EmptySet
  <2>2. sum[s] = 0
    BY <1>2, <2>1
  <2> QED BY <2>1, <2>2
<1>4. ASSUME NEW n \in Nat, n \in P
      PROVE  n + 1 \in P
  <2> SUFFICES ASSUME NEW s \in SUBSET D, Cardinality(s) = n + 1
               PROVE  Split(s)
    <3>1. \A s \in SUBSET D : Cardinality(s) <= n + 1 => Cardinality(s) <= n \/ Cardinality(s) = n + 1
      BY <1>1
    <3> HIDE DEF Split
    <3> QED BY <3>1, <1>4
  <2> DEFINE x == One(s)
             r == s \ {x}
  <2>1. s # {} /\ IsFiniteSet(s)
    <3>1. Cardinality(s) # 0
      OBVIOUS
    <3> QED BY <3>1, <1>1, FS_EmptySet
  <2>2. x \in s /\ \A y \in s : Cardinality(s \ {y}) = n
    <3>1. x \in s /\ \A y \in s : Cardinality(s \ {y}) = Cardinality(s) - 1
      BY <2>1, OneOf
    <3>2. Cardinality(s) - 1 = n
      OBVIOUS
    <3> QED BY <3>1, <3>2
  <2>3. \A y \in s : Split(s \ {y})
    <3> TAKE y \in s
    <3>1. Cardinality(s \ {y}) = n /\ s \ {y} \in SUBSET D
      BY <2>2
    <3> HIDE DEF Split
    <3> QED BY <3>1, <1>4
  <2>4. sum[s] = f[x] + sum[r]
    BY <1>2, <2>1
  <2>5. sum[r] \in Nat /\ f[x] \in Nat
    BY <2>2, <2>3
  <2>6. ASSUME NEW y \in s
        PROVE  sum[s] = f[y] + sum[s \ {y}]
    <3>1. CASE y = x
      BY <2>4, <3>1
    <3>2. CASE y # x
      <4> DEFINE b == s \ {x, y}
      <4>1. y \in r /\ r \ {y} = b
        BY <3>2
      <4>2. sum[r] = f[y] + sum[b]
        BY <4>1, <2>2, <2>3
      <4>3. x \in s \ {y} /\ (s \ {y}) \ {x} = b
        BY <3>2, <2>2
      <4>4. sum[s \ {y}] = f[x] + sum[b]
        BY <4>3, <2>3
      <4>5. sum[b] \in Nat
        <5>1. b \subseteq r /\ r \in SUBSET D /\ b \in SUBSET D
          OBVIOUS
        <5>2. IsFiniteSet(r) /\ Cardinality(r) = n
          BY <5>1, <1>1, <2>2
        <5>3. Cardinality(b) <= n
          BY <5>1, <5>2, FS_Subset
        <5>4. Split(b)
          BY <5>1, <5>3, <1>4
        <5> QED BY <5>4
      <4>6. f[y] \in Nat
        OBVIOUS
      <4> HIDE DEF b, r, x
      <4> QED BY <4>2, <4>4, <4>5, <4>6, <2>4, <2>5
    <3> QED BY <3>1, <3>2
  <2>7. sum[s] \in Nat
    BY <2>4, <2>5
  <2> QED BY <2>6, <2>7
<1> HIDE DEF P
<1>5. Nat \subseteq P
  BY <1>3, <1>4, AllNumbers
<1>6. \A s \in SUBSET D : Cardinality(s) \in P /\ Cardinality(s) <= Cardinality(s)
  BY <1>1, <1>5
<1>7. \A s \in SUBSET D : Split(s)
  <2> HIDE DEF Split
  <2> QED BY <1>6 DEF P
<1> QED BY <1>7

\* Two functions that agree on a set have the same sum over it.
LEMMA SumsAgree ==
    ASSUME NEW f, NEW g, NEW sum, NEW tot,
           IsFiniteSet(DOMAIN f), Sums(f, sum), Sums(g, tot),
           NEW s, s \subseteq DOMAIN f, s \subseteq DOMAIN g, \A x \in s : f[x] = g[x]
    PROVE  sum[s] = tot[s]
<1> DEFINE P == {n \in Nat : \A u \in SUBSET s : Cardinality(u) = n => sum[u] = tot[u]}
<1>1. \A u \in SUBSET s : IsFiniteSet(u) /\ Cardinality(u) \in Nat
  <2> TAKE u \in SUBSET s
  <2>1. u \subseteq DOMAIN f
    OBVIOUS
  <2> QED BY <2>1, FS_Subset, FS_CardinalityType
<1>2. \A u \in SUBSET s : /\ sum[u] = IF u = {} THEN 0 ELSE f[One(u)] + sum[u \ {One(u)}]
                          /\ tot[u] = IF u = {} THEN 0 ELSE g[One(u)] + tot[u \ {One(u)}]
  BY DEF Sums
<1>3. 0 \in P
  <2> SUFFICES ASSUME NEW u \in SUBSET s, Cardinality(u) = 0
               PROVE  sum[u] = tot[u]
    OBVIOUS
  <2>1. u = {}
    BY <1>1, FS_EmptySet
  <2> QED BY <1>2, <2>1
<1>4. ASSUME NEW n \in Nat, n \in P
      PROVE  n + 1 \in P
  <2> SUFFICES ASSUME NEW u \in SUBSET s, Cardinality(u) = n + 1
               PROVE  sum[u] = tot[u]
    OBVIOUS
  <2>1. u # {} /\ IsFiniteSet(u)
    <3>1. Cardinality(u) # 0
      OBVIOUS
    <3> QED BY <3>1, <1>1, FS_EmptySet
  <2> DEFINE x == One(u)
  <2>2. x \in u /\ \A y \in u : Cardinality(u \ {y}) = Cardinality(u) - 1
    BY <2>1, OneOf
  <2>3. Cardinality(u) - 1 = n
    OBVIOUS
  <2>4. u \ {x} \in SUBSET s /\ Cardinality(u \ {x}) = n
    BY <2>2, <2>3
  <2>5. sum[u \ {x}] = tot[u \ {x}]
    BY <2>4, <1>4
  <2>6. f[x] = g[x]
    BY <2>2
  <2>7. sum[u] = f[x] + sum[u \ {x}] /\ tot[u] = g[x] + tot[u \ {x}]
    BY <2>1, <1>2
  <2> QED BY <2>5, <2>6, <2>7
<1> HIDE DEF P
<1>5. Nat \subseteq P
  BY <1>3, <1>4, AllNumbers
<1> QED BY <1>1, <1>5 DEF P

Share(f, k) == IF k \in DOMAIN f THEN f[k] ELSE 0

\* The sum without the share of k.
LEMMA SumRest ==
    ASSUME NEW f, NEW sum, IsFiniteSet(DOMAIN f), \A x \in DOMAIN f : f[x] \in Nat, NEW k,
           Sums(f, sum), SumFunction(f) = sum[DOMAIN f]
    PROVE  /\ sum[DOMAIN f \ {k}] \in Nat /\ Share(f, k) \in Nat
           /\ SumFunction(f) = Share(f, k) + sum[DOMAIN f \ {k}]
<1> DEFINE D == DOMAIN f
<1>1. \A s \in SUBSET D : sum[s] \in Nat /\ \A y \in s : sum[s] = f[y] + sum[s \ {y}]
  BY SumsSplit
<1>2. D \in SUBSET D /\ D \ {k} \in SUBSET D
  OBVIOUS
<1>3. sum[D \ {k}] \in Nat
  BY <1>1, <1>2
<1>4. CASE k \in D
  BY <1>1, <1>2, <1>3, <1>4 DEF Share
<1>5. CASE k \notin D
  <2>1. D \ {k} = D
    BY <1>5
  <2> QED BY <1>3, <1>5, <2>1 DEF Share
<1> QED BY <1>4, <1>5

\* A function that changes at k only changes its sum by what its share changes.
LEMMA SumOff ==
    ASSUME NEW f, NEW g, NEW k, IsFiniteSet(DOMAIN f), IsFiniteSet(DOMAIN g),
           \A x \in DOMAIN f : f[x] \in Nat, \A x \in DOMAIN g : g[x] \in Nat,
           DOMAIN f \ {k} = DOMAIN g \ {k}, \A x \in DOMAIN f \ {k} : f[x] = g[x]
    PROVE  /\ Share(f, k) \in Nat /\ Share(g, k) \in Nat
           /\ SumFunction(f) \in Nat /\ SumFunction(g) \in Nat
           /\ SumFunction(f) - Share(f, k) = SumFunction(g) - Share(g, k)
           /\ SumFunction(f) >= Share(f, k)
<1>1. PICK sum : Sums(f, sum) /\ SumFunction(f) = sum[DOMAIN f]
  BY SumsExist
<1>2. PICK tot : Sums(g, tot) /\ SumFunction(g) = tot[DOMAIN g]
  BY SumsExist
<1> DEFINE s == DOMAIN f \ {k}
<1>3. sum[s] \in Nat /\ Share(f, k) \in Nat /\ SumFunction(f) = Share(f, k) + sum[s]
  BY <1>1, SumRest
<1>4. tot[s] \in Nat /\ Share(g, k) \in Nat /\ SumFunction(g) = Share(g, k) + tot[s]
  <2>1. s = DOMAIN g \ {k}
    OBVIOUS
  <2>2. /\ tot[DOMAIN g \ {k}] \in Nat /\ Share(g, k) \in Nat
        /\ SumFunction(g) = Share(g, k) + tot[DOMAIN g \ {k}]
    BY <1>2, SumRest
  <2> QED BY <2>1, <2>2
<1>5. sum[s] = tot[s]
  <2>1. s \subseteq DOMAIN f /\ s \subseteq DOMAIN g /\ \A x \in s : f[x] = g[x]
    OBVIOUS
  <2> HIDE DEF s
  <2> QED BY <1>1, <1>2, <2>1, SumsAgree
<1> HIDE DEF s
<1> QED BY <1>3, <1>4, <1>5

LEMMA SumOfNone ==
    ASSUME NEW f, DOMAIN f = {}
    PROVE  SumFunction(f) = 0
<1>1. IsFiniteSet(DOMAIN f)
  BY FS_EmptySet
<1>2. PICK sum : Sums(f, sum) /\ SumFunction(f) = sum[DOMAIN f]
  BY <1>1, SumsExist
<1> QED BY <1>2 DEF Sums

-----------------------------------------------------------------------------
(* Zones.                                                                  *)

\* A list may have fewer elements than value_len says, never more: where Reset
\* frees them it keeps the length, and no other path changes only one of the two.
NodeWell(nd) ==
    /\ DOMAIN nd = {"type", "data", "value_len", "items", "expires"}
    /\ NodeOK(nd)
    /\ nd.type = "number" => nd.value_len = NumLen
    /\ nd.type = "list" => nd.data = 0 /\ Len(nd.items) <= nd.value_len

Used(nd) == NodeSize(nd) + ItemsSize(nd.items)

Weights(z) == [k \in DOMAIN z.node |-> Used(z.node[k])]

ZoneShape(z) == DOMAIN z = {"lru", "node", "free"}

\* The queue holds the keys of the tree, each once.
Indexed(z) == Queue(z.lru) /\ ToSet(z.lru) = DOMAIN z.node

NodesWell(z) == \A k \in DOMAIN z.node : NodeWell(z.node[k])

\* Every unit of the pool is free or in use, once.
Accounted(z) == z.free \in Nat /\ z.free + SumFunction(Weights(z)) = Capacity

Well(z) == ZoneShape(z) /\ Indexed(z) /\ NodesWell(z) /\ Accounted(z)

LEMMA UsedNat ==
    ASSUME NEW nd, NodeWell(nd)
    PROVE  Used(nd) \in Nat /\ NodeSize(nd) \in Nat /\ ItemsSize(nd.items) \in Nat
<1>1. nd.items \in Seq(Elements) /\ nd.value_len \in Nat
  BY DEF NodeWell, NodeOK
<1>2. ItemsSize(nd.items) \in Nat
  BY <1>1, ItemsSizeNat
<1>3. NodeSize(nd) \in Nat
  BY <1>1 DEF NodeSize
<1> QED BY <1>2, <1>3 DEF Used

\* A queue is finite.
LEMMA QueueFinite ==
    ASSUME NEW q, Queue(q)
    PROVE  IsFiniteSet(ToSet(q)) /\ ToSet(q) \subseteq Keys
<1>1. q \in Seq(Keys) /\ Len(q) \in Nat /\ DOMAIN q = 1..Len(q)
  BY DEF Queue
<1>2. IsFiniteSet(1..Len(q))
  BY <1>1, FS_Interval
<1>3. ToSet(q) = {q[i] : i \in 1..Len(q)}
  BY <1>1 DEF ToSet
<1>4. IsFiniteSet({q[i] : i \in 1..Len(q)})
  <2> DEFINE T == {q[i] : i \in 1..Len(q)}
             f == [i \in 1..Len(q) |-> q[i]]
  <2>1. f \in Surjection(1..Len(q), T)
    BY DEF Surjection
  <2> HIDE DEF f, T
  <2>2. IsFiniteSet(T)
    BY <1>2, <2>1, FS_Surjection DEF ExistsSurjection
  <2> QED BY <2>2 DEF T
<1> QED BY <1>1, <1>3, <1>4

\* What may change in a zone when only the entry of k does: k's place in the
\* queue, its node, and the free units by what the node takes.
Weight(z, k) == IF k \in DOMAIN z.node THEN Used(z.node[k]) ELSE 0

SameBut(z, y, k) ==
    /\ DOMAIN y.node \ {k} = DOMAIN z.node \ {k}
    /\ \A x \in DOMAIN z.node \ {k} : y.node[x] = z.node[x]

Turns(z, y, k) ==
    /\ ZoneShape(y) /\ Indexed(y) /\ SameBut(z, y, k)
    /\ Off(y.lru, k) = Off(z.lru, k)
    /\ y.free = z.free + Weight(z, k) - Weight(y, k)

\* A zone that differs from a sound one only at k is sound, if its node of k is and memory
\* is not overdrawn.
LEMMA TurnsWell ==
    ASSUME NEW z, NEW y, NEW k, Well(z), Turns(z, y, k),
           k \in DOMAIN y.node => NodeWell(y.node[k]), y.free >= 0
    PROVE  Well(y)
<1>1. ZoneShape(y) /\ Indexed(y) /\ SameBut(z, y, k) /\ y.free = z.free + Weight(z, k) - Weight(y, k)
  BY DEF Turns
<1>2. NodesWell(y)
  BY <1>1 DEF NodesWell, SameBut, Well
<1>3. NodesWell(z) /\ Indexed(z) /\ Accounted(z)
  BY DEF Well
<1> DEFINE f == Weights(z)
           g == Weights(y)
<1>4. DOMAIN f = DOMAIN z.node /\ DOMAIN g = DOMAIN y.node
  BY DEF Weights
<1>5. IsFiniteSet(DOMAIN f) /\ IsFiniteSet(DOMAIN g)
  BY <1>1, <1>3, <1>4, QueueFinite DEF Indexed
<1>6. \A x \in DOMAIN f : f[x] = Used(z.node[x])
  BY DEF Weights
<1>7. \A x \in DOMAIN g : g[x] = Used(y.node[x])
  BY DEF Weights
<1> HIDE DEF f, g
<1>8. \A x \in DOMAIN f : f[x] \in Nat
  BY <1>3, <1>4, <1>6, UsedNat DEF NodesWell
<1>9. \A x \in DOMAIN g : g[x] \in Nat
  BY <1>2, <1>4, <1>7, UsedNat DEF NodesWell
<1>10. DOMAIN f \ {k} = DOMAIN g \ {k} /\ \A x \in DOMAIN f \ {k} : f[x] = g[x]
  BY <1>1, <1>4, <1>6, <1>7 DEF SameBut
<1>11. /\ Share(f, k) \in Nat /\ Share(g, k) \in Nat
       /\ SumFunction(f) \in Nat /\ SumFunction(g) \in Nat
       /\ SumFunction(f) - Share(f, k) = SumFunction(g) - Share(g, k)
  BY <1>5, <1>8, <1>9, <1>10, SumOff
<1>12. Share(f, k) = Weight(z, k) /\ Share(g, k) = Weight(y, k)
  BY <1>4, <1>6, <1>7 DEF Share, Weight
<1>13. z.free \in Nat /\ z.free + SumFunction(f) = Capacity
  BY <1>3 DEF Accounted, f
<1>14. y.free \in Nat /\ y.free + SumFunction(g) = Capacity
  BY <1>1, <1>11, <1>12, <1>13
<1>15. Accounted(y)
  BY <1>14 DEF Accounted, g
<1> QED BY <1>1, <1>2, <1>15 DEF Well

-----------------------------------------------------------------------------
(* The pieces of the operations.                                           *)

\* Where k is taken out, Unlink and RemoveEntry only differ in the free units.
Leaves(z, y, k) ==
    /\ ZoneShape(y) /\ y.lru = ngx_queue_remove(z.lru, k)
    /\ DOMAIN y.node = DOMAIN z.node \ {k}
    /\ \A x \in DOMAIN y.node : y.node[x] = z.node[x]

\* ngx_queue_remove, ngx_rbtree_delete and ngx_slab_free take out one entry.
LEMMA UnlinkLeaves ==
    ASSUME NEW z, NEW k
    PROVE  /\ Leaves(z, Unlink(z, k), k)
           /\ Unlink(z, k).free = z.free + NodeSize(z.node[k])
BY DEF Unlink, Leaves, ZoneShape, Restrict

LEMMA FreeItemsFields ==
    ASSUME NEW z, NEW k, ZoneShape(z)
    PROVE  /\ ZoneShape(FreeItems(z, k))
           /\ FreeItems(z, k).lru = z.lru /\ FreeItems(z, k).node = z.node
           /\ FreeItems(z, k).free = z.free + ItemsSize(z.node[k].items)
BY DEF FreeItems, ZoneShape

\* The same with the elements of a list freed before.
LEMMA RemoveEntryLeaves ==
    ASSUME NEW z, NEW k, ZoneShape(z)
    PROVE  /\ Leaves(z, RemoveEntry(z, k), k)
           /\ RemoveEntry(z, k).free = z.free + ItemsSize(z.node[k].items) + NodeSize(z.node[k])
<1> DEFINE y == FreeItems(z, k)
<1>1. y.lru = z.lru /\ y.node = z.node /\ y.free = z.free + ItemsSize(z.node[k].items)
  BY FreeItemsFields
<1>2. Leaves(y, Unlink(y, k), k) /\ Unlink(y, k).free = y.free + NodeSize(y.node[k])
  BY UnlinkLeaves
<1>3. RemoveEntry(z, k) = Unlink(y, k)
  BY DEF RemoveEntry
<1> HIDE DEF y
<1> QED BY <1>1, <1>2, <1>3 DEF Leaves

\* Taking out an entry with all its memory touches nothing else.
LEMMA LeavesTurns ==
    ASSUME NEW z, NEW y, NEW k, Well(z), Leaves(z, y, k), k \in DOMAIN z.node,
           y.free = z.free + Used(z.node[k])
    PROVE  Turns(z, y, k) /\ Well(y) /\ k \notin DOMAIN y.node /\ y.free >= z.free
<1>1. Indexed(z) /\ NodesWell(z) /\ Accounted(z)
  BY DEF Well
<1>2. Used(z.node[k]) \in Nat /\ z.free \in Nat
  BY <1>1, UsedNat DEF NodesWell, Accounted
<1>3. Queue(z.lru) /\ k \in ToSet(z.lru)
  BY <1>1 DEF Indexed
<1>4. Queue(y.lru) /\ ToSet(y.lru) = ToSet(z.lru) \ {k}
  BY <1>3, RemoveKeeps DEF Leaves
<1>5. Off(y.lru, k) = Off(z.lru, k)
  <2>1. Off(y.lru, k) = y.lru
    BY <1>4 DEF Off
  <2>2. Off(z.lru, k) = ngx_queue_remove(z.lru, k)
    BY <1>3 DEF Off
  <2> QED BY <2>1, <2>2 DEF Leaves
<1>6. Indexed(y) /\ SameBut(z, y, k) /\ ZoneShape(y) /\ k \notin DOMAIN y.node
  BY <1>1, <1>4 DEF Indexed, SameBut, Leaves
<1>7. Weight(z, k) = Used(z.node[k]) /\ Weight(y, k) = 0
  BY <1>6 DEF Weight
<1>8. y.free = z.free + Weight(z, k) - Weight(y, k) /\ y.free >= z.free
  BY <1>2, <1>7
<1>9. Turns(z, y, k)
  BY <1>5, <1>6, <1>8 DEF Turns
<1>10. y.free >= 0
  BY <1>2
<1> QED BY <1>6, <1>8, <1>9, <1>10, TurnsWell

LEMMA RemoveEntryWell ==
    ASSUME NEW z, NEW k, Well(z), k \in DOMAIN z.node
    PROVE  /\ Turns(z, RemoveEntry(z, k), k) /\ Well(RemoveEntry(z, k))
           /\ Leaves(z, RemoveEntry(z, k), k) /\ k \notin DOMAIN RemoveEntry(z, k).node
<1> DEFINE y == RemoveEntry(z, k)
<1>1. Leaves(z, y, k) /\ y.free = z.free + ItemsSize(z.node[k].items) + NodeSize(z.node[k])
  BY RemoveEntryLeaves DEF Well
<1>2. NodeWell(z.node[k]) /\ z.free \in Nat
  BY DEF Well, NodesWell, Accounted
<1>3. ItemsSize(z.node[k].items) \in Nat /\ NodeSize(z.node[k]) \in Nat
  BY <1>2, UsedNat
<1> HIDE DEF y
<1>4. y.free = z.free + Used(z.node[k])
  BY <1>1, <1>2, <1>3 DEF Used
<1>5. Turns(z, y, k) /\ Well(y) /\ k \notin DOMAIN y.node
  BY <1>1, <1>4, LeavesTurns
<1> QED BY <1>1, <1>5 DEF y

\* A node may be unlinked alone where it is no list, or its list is empty.
LEMMA UnlinkWell ==
    ASSUME NEW z, NEW k, Well(z), k \in DOMAIN z.node, z.node[k].items = <<>>
    PROVE  /\ Turns(z, Unlink(z, k), k) /\ Well(Unlink(z, k))
           /\ Leaves(z, Unlink(z, k), k) /\ k \notin DOMAIN Unlink(z, k).node
<1> DEFINE y == Unlink(z, k)
<1>1. Leaves(z, y, k) /\ y.free = z.free + NodeSize(z.node[k])
  BY UnlinkLeaves
<1>2. NodeWell(z.node[k])
  BY DEF Well, NodesWell
<1>3. NodeSize(z.node[k]) \in Nat
  BY <1>2, UsedNat
<1>4. ItemsSize(z.node[k].items) = 0
  <2>1. <<>> \in Seq(Elements)
    OBVIOUS
  <2>2. ItemsSize(<<>>) = 0
    BY <2>1, ItemsSizeNat
  <2> QED BY <2>2
<1> HIDE DEF y
<1>5. y.free = z.free + Used(z.node[k])
  BY <1>1, <1>3, <1>4 DEF Used
<1>6. Turns(z, y, k) /\ Well(y) /\ k \notin DOMAIN y.node
  BY <1>1, <1>5, LeavesTurns
<1> QED BY <1>1, <1>6 DEF y

\* Where k stays, its node may become another one, and it may move to the head.
Stays(z, y, k, nd) ==
    /\ ZoneShape(y)
    /\ y.lru = z.lru \/ y.lru = <<k>> \o ngx_queue_remove(z.lru, k)
    /\ DOMAIN y.node = DOMAIN z.node /\ y.node[k] = nd
    /\ \A x \in DOMAIN z.node \ {k} : y.node[x] = z.node[x]

\* Overwriting a node in place touches nothing else.
LEMMA StaysTurns ==
    ASSUME NEW z, NEW y, NEW k, NEW nd, Well(z), Stays(z, y, k, nd), k \in DOMAIN z.node,
           NodeWell(nd), y.free = z.free + Used(z.node[k]) - Used(nd), y.free >= 0
    PROVE  Turns(z, y, k) /\ Well(y)
<1>1. Indexed(z)
  BY DEF Well
<1>2. Queue(z.lru) /\ k \in ToSet(z.lru) /\ k \in Keys
  BY <1>1, QueueFinite DEF Indexed
<1>3. Off(z.lru, k) = ngx_queue_remove(z.lru, k)
  BY <1>2 DEF Off
<1>4. Queue(y.lru) /\ ToSet(y.lru) = ToSet(z.lru) /\ Off(y.lru, k) = Off(z.lru, k)
  <2>1. CASE y.lru = z.lru
    BY <1>2, <2>1
  <2>2. CASE y.lru = <<k>> \o Off(z.lru, k)
    <3>1. /\ Queue(<<k>> \o Off(z.lru, k)) /\ ToSet(<<k>> \o Off(z.lru, k)) = ToSet(z.lru) \cup {k}
          /\ Off(<<k>> \o Off(z.lru, k), k) = Off(z.lru, k)
      BY <1>2, OffMoved
    <3>2. ToSet(z.lru) \cup {k} = ToSet(z.lru)
      BY <1>2
    <3> QED BY <2>2, <3>1, <3>2
  <2> QED BY <2>1, <2>2, <1>3 DEF Stays
<1>5. Indexed(y) /\ SameBut(z, y, k) /\ k \in DOMAIN y.node /\ y.node[k] = nd /\ ZoneShape(y)
  BY <1>1, <1>4 DEF Indexed, SameBut, Stays
<1>6. Weight(z, k) = Used(z.node[k]) /\ Weight(y, k) = Used(nd)
  BY <1>5 DEF Weight
<1>7. Turns(z, y, k)
  BY <1>4, <1>5, <1>6 DEF Turns
<1> QED BY <1>5, <1>7, TurnsWell

LEMMA MoveToHeadWell ==
    ASSUME NEW z, NEW k, Well(z), k \in DOMAIN z.node
    PROVE  /\ Turns(z, MoveToHead(z, k), k) /\ Well(MoveToHead(z, k))
           /\ MoveToHead(z, k).node = z.node /\ MoveToHead(z, k).free = z.free
<1> DEFINE y == MoveToHead(z, k)
<1>1. ZoneShape(y) /\ y.lru = <<k>> \o ngx_queue_remove(z.lru, k) /\ y.node = z.node /\ y.free = z.free
  BY DEF MoveToHead, Well, ZoneShape
<1> HIDE DEF y
<1>2. NodeWell(z.node[k]) /\ z.free \in Nat
  BY DEF Well, NodesWell, Accounted
<1>3. Stays(z, y, k, z.node[k])
  BY <1>1 DEF Stays
<1>4. Used(z.node[k]) \in Nat
  BY <1>2, UsedNat
<1>5. y.free = z.free + Used(z.node[k]) - Used(z.node[k]) /\ y.free >= 0
  BY <1>1, <1>2, <1>4
<1>6. Turns(z, y, k) /\ Well(y)
  BY <1>1, <1>2, <1>3, <1>5, StaysTurns
<1> QED BY <1>1, <1>6 DEF y

\* Overwriting in place: a node as large as the old one.
LEMMA UpdateWell ==
    ASSUME NEW z, NEW k, NEW nd, Well(z), k \in DOMAIN z.node, NodeWell(nd),
           Used(nd) = Used(z.node[k])
    PROVE  /\ Turns(z, Update(z, k, nd), k) /\ Well(Update(z, k, nd))
           /\ k \in DOMAIN Update(z, k, nd).node /\ Update(z, k, nd).node[k] = nd
<1> DEFINE y == Update(z, k, nd)
           m == MoveToHead(z, k)
<1>1. /\ ZoneShape(m) /\ m.lru = <<k>> \o ngx_queue_remove(z.lru, k)
      /\ m.node = z.node /\ m.free = z.free
  BY DEF MoveToHead, Well, ZoneShape
<1>2. y = [m EXCEPT !.node[k] = nd]
  BY DEF Update
<1> HIDE DEF m, y
<1>3. ZoneShape(y) /\ y.lru = m.lru /\ y.node = [m.node EXCEPT ![k] = nd] /\ y.free = m.free
  BY <1>1, <1>2 DEF ZoneShape
<1>4. Stays(z, y, k, nd)
  BY <1>1, <1>3 DEF Stays
<1>5. z.free \in Nat /\ Used(nd) \in Nat
  BY UsedNat DEF Well, Accounted
<1>6. y.free = z.free + Used(z.node[k]) - Used(nd) /\ y.free >= 0
  BY <1>1, <1>3, <1>5
<1>7. Turns(z, y, k) /\ Well(y)
  BY <1>4, <1>6, StaysTurns
<1> QED BY <1>4, <1>7 DEF y, Stays

\* A new node without elements, where there is room for it.
LEMMA LinkWell ==
    ASSUME NEW z, NEW k \in Keys, NEW nd, Well(z), k \notin DOMAIN z.node, NodeWell(nd),
           nd.items = <<>>, Fits(z, NodeSize(nd))
    PROVE  /\ Turns(z, Link(z, k, nd), k) /\ Well(Link(z, k, nd))
           /\ k \in DOMAIN Link(z, k, nd).node /\ Link(z, k, nd).node[k] = nd
           /\ Link(z, k, nd).free = z.free - NodeSize(nd)
<1> DEFINE y == Link(z, k, nd)
<1>1. /\ ZoneShape(y) /\ y.lru = <<k>> \o z.lru /\ y.free = z.free - NodeSize(nd)
      /\ DOMAIN y.node = DOMAIN z.node \cup {k} /\ y.node[k] = nd
      /\ \A x \in DOMAIN z.node : y.node[x] = z.node[x]
  BY DEF Link, ZoneShape
<1> HIDE DEF y
<1>2. Queue(z.lru) /\ k \notin ToSet(z.lru) /\ ToSet(z.lru) = DOMAIN z.node
  BY DEF Well, Indexed
<1>3. Queue(<<k>> \o z.lru) /\ ToSet(<<k>> \o z.lru) = ToSet(z.lru) \cup {k}
  BY <1>2, HeadKeeps
<1>4. ngx_queue_remove(<<k>> \o z.lru, k) = z.lru
  BY <1>2, HeadKeeps
<1>5. Off(y.lru, k) = Off(z.lru, k)
  <2>1. k \in ToSet(y.lru)
    BY <1>1, <1>3
  <2>2. Off(y.lru, k) = z.lru
    BY <2>1, <1>1, <1>4 DEF Off
  <2>3. Off(z.lru, k) = z.lru
    BY <1>2 DEF Off
  <2> QED BY <2>2, <2>3
<1>6. Indexed(y) /\ SameBut(z, y, k)
  BY <1>1, <1>2, <1>3 DEF Indexed, SameBut
<1>7. ItemsSize(nd.items) = 0
  <2>1. <<>> \in Seq(Elements)
    OBVIOUS
  <2>2. ItemsSize(<<>>) = 0
    BY <2>1, ItemsSizeNat
  <2> QED BY <2>2
<1>8. NodeSize(nd) \in Nat /\ z.free \in Nat
  BY UsedNat DEF Well, Accounted
<1>9. Weight(z, k) = 0 /\ Weight(y, k) = NodeSize(nd)
  BY <1>1, <1>7, <1>8 DEF Weight, Used
<1>10. y.free = z.free + Weight(z, k) - Weight(y, k) /\ y.free >= 0
  BY <1>1, <1>8, <1>9 DEF Fits
<1>11. Turns(z, y, k)
  BY <1>1, <1>5, <1>6, <1>10 DEF Turns
<1>12. Well(y)
  BY <1>1, <1>10, <1>11, TurnsWell
<1> QED BY <1>1, <1>11, <1>12 DEF y

\* Reviving an expired list: its elements are freed, its length is not reset.
LEMMA ResetWell ==
    ASSUME NEW z, NEW k, Well(z), k \in DOMAIN z.node, z.node[k].type = "list"
    PROVE  /\ Turns(z, Reset(z, k), k) /\ Well(Reset(z, k))
           /\ k \in DOMAIN Reset(z, k).node
           /\ Reset(z, k).node[k].type = "list"
           /\ Reset(z, k).node[k].value_len = z.node[k].value_len
           /\ Reset(z, k).node[k].items = <<>>
<1> DEFINE y == Reset(z, k)
           f == FreeItems(z, k)
           m == MoveToHead(f, k)
           nd == [z.node[k] EXCEPT !.items = <<>>, !.expires = 0]
<1>1. /\ ZoneShape(f) /\ f.lru = z.lru /\ f.node = z.node
      /\ f.free = z.free + ItemsSize(z.node[k].items)
  BY FreeItemsFields DEF Well
<1> HIDE DEF f
<1>2. ZoneShape(m) /\ m.lru = <<k>> \o ngx_queue_remove(z.lru, k) /\ m.node = z.node /\ m.free = f.free
  BY <1>1 DEF MoveToHead, ZoneShape
<1>3. y = [m EXCEPT !.node[k].items = <<>>, !.node[k].expires = 0]
  BY DEF Reset, f
<1>4. NodeWell(z.node[k])
  BY DEF Well, NodesWell
<1>5. /\ DOMAIN nd = {"type", "data", "value_len", "items", "expires"}
      /\ nd.type = z.node[k].type /\ nd.data = z.node[k].data /\ nd.value_len = z.node[k].value_len
      /\ nd.items = <<>> /\ nd.expires = 0
  BY <1>4 DEF NodeWell
<1> HIDE DEF m, y
<1>6. /\ ZoneShape(y) /\ y.lru = m.lru /\ y.free = m.free
      /\ DOMAIN y.node = DOMAIN m.node /\ y.node[k] = nd
      /\ \A x \in DOMAIN m.node \ {k} : y.node[x] = m.node[x]
  BY <1>2, <1>3 DEF ZoneShape
<1> HIDE DEF nd
<1>7. Stays(z, y, k, nd)
  BY <1>2, <1>6 DEF Stays
<1>8. NodeWell(nd)
  BY <1>4, <1>5 DEF NodeWell, NodeOK
<1>9. ItemsSize(z.node[k].items) \in Nat /\ NodeSize(z.node[k]) \in Nat /\ NodeSize(nd) = NodeSize(z.node[k])
  BY <1>4, <1>5, UsedNat DEF NodeSize
<1>10. ItemsSize(nd.items) = 0
  <2>1. <<>> \in Seq(Elements)
    OBVIOUS
  <2>2. ItemsSize(<<>>) = 0
    BY <2>1, ItemsSizeNat
  <2> QED BY <2>2, <1>5
<1>11. z.free \in Nat
  BY DEF Well, Accounted
<1>12. y.free = z.free + Used(z.node[k]) - Used(nd) /\ y.free >= 0
  BY <1>1, <1>2, <1>6, <1>9, <1>10, <1>11 DEF Used
<1>13. Turns(z, y, k) /\ Well(y)
  BY <1>7, <1>8, <1>12, StaysTurns
<1> QED BY <1>2, <1>5, <1>6, <1>13 DEF y

LEMMA WeightNat ==
    ASSUME NEW z, NEW k, Well(z)
    PROVE  Weight(z, k) \in Nat /\ z.free \in Nat
BY UsedNat DEF Weight, Well, NodesWell, Accounted

LEMMA TurnsTransitive ==
    ASSUME NEW z, NEW y, NEW x, NEW k, Well(z), Well(y), Well(x), Turns(z, y, k), Turns(y, x, k)
    PROVE  Turns(z, x, k)
<1>1. /\ Weight(z, k) \in Nat /\ z.free \in Nat
      /\ Weight(y, k) \in Nat /\ y.free \in Nat
      /\ Weight(x, k) \in Nat /\ x.free \in Nat
  BY WeightNat
<1>2. x.free = z.free + Weight(z, k) - Weight(x, k)
  <2>1. y.free = z.free + Weight(z, k) - Weight(y, k) /\ x.free = y.free + Weight(y, k) - Weight(x, k)
    BY DEF Turns
  <2> QED BY <1>1, <2>1
<1>3. SameBut(z, x, k)
  BY DEF Turns, SameBut
<1> QED BY <1>2, <1>3 DEF Turns

\* One element more in a list that has room for it.
LEMMA PushNodeWell ==
    ASSUME NEW z, NEW k, NEW v \in Elements, NEW side, Well(z), k \in DOMAIN z.node,
           z.node[k].type = "list", Fits(z, ElementSize(v))
    PROVE  LET y == PushNode(z, k, v, side) IN
           /\ Turns(z, y, k) /\ Well(y) /\ k \in DOMAIN y.node
           /\ y.node[k].type = "list" /\ y.node[k].data = 0
           /\ y.node[k].items = Pushed(z.node[k].items, v, side)
           /\ y.node[k].value_len = z.node[k].value_len + 1
           /\ y.node[k].expires = z.node[k].expires
<1> DEFINE y == PushNode(z, k, v, side)
           old == z.node[k]
           items == Pushed(old.items, v, side)
           nd == [old EXCEPT !.items = items, !.value_len = @ + 1]
<1>1. NodeWell(old) /\ z.free \in Nat /\ ZoneShape(z)
  BY DEF Well, NodesWell, Accounted
<1>2. old.items \in Seq(Elements) /\ old.value_len \in Nat /\ Len(old.items) <= old.value_len /\ old.data = 0
  BY <1>1 DEF NodeWell, NodeOK
<1>3. items \in Seq(Elements) /\ Len(items) = Len(old.items) + 1
  <2>1. <<v>> \o old.items \in Seq(Elements) /\ Len(<<v>> \o old.items) = Len(old.items) + 1
    BY <1>2
  <2>2. Append(old.items, v) \in Seq(Elements) /\ Len(Append(old.items, v)) = Len(old.items) + 1
    BY <1>2
  <2> QED BY <2>1, <2>2 DEF Pushed
<1>4. ItemsSize(items) = ItemsSize(old.items) + ElementSize(v)
  BY <1>2, ItemsSizeMore DEF Pushed
<1> HIDE DEF items
<1>5. y = [z EXCEPT !.free = @ - ElementSize(v), !.node[k].items = items, !.node[k].value_len = @ + 1]
  BY DEF PushNode, items
<1>6. /\ DOMAIN nd = {"type", "data", "value_len", "items", "expires"}
      /\ nd.type = old.type /\ nd.data = old.data /\ nd.value_len = old.value_len + 1
      /\ nd.items = items /\ nd.expires = old.expires
  BY <1>1 DEF NodeWell
<1> HIDE DEF y
<1>7. /\ ZoneShape(y) /\ y.lru = z.lru /\ y.free = z.free - ElementSize(v)
      /\ DOMAIN y.node = DOMAIN z.node /\ y.node[k] = nd
      /\ \A x \in DOMAIN z.node \ {k} : y.node[x] = z.node[x]
  BY <1>1, <1>5 DEF ZoneShape
<1> HIDE DEF nd
<1>8. Stays(z, y, k, nd)
  BY <1>7 DEF Stays
<1>9. Len(old.items) \in Nat /\ Len(items) <= nd.value_len
  BY <1>2, <1>3, <1>6
<1>10. NodeWell(nd)
  BY <1>1, <1>2, <1>3, <1>6, <1>9 DEF NodeWell, NodeOK
<1>11. NodeSize(nd) = 2 /\ NodeSize(old) = 2
  BY <1>6 DEF NodeSize
<1>12. ItemsSize(old.items) \in Nat /\ ElementSize(v) \in Nat
  BY <1>2, ItemsSizeNat, ElementSizeNat
<1>13. Used(nd) = Used(old) + ElementSize(v) /\ Used(old) \in Nat
  BY <1>4, <1>6, <1>11, <1>12 DEF Used
<1>14. y.free = z.free + Used(old) - Used(nd) /\ y.free >= 0
  BY <1>1, <1>7, <1>12, <1>13 DEF Fits
<1>15. Turns(z, y, k) /\ Well(y)
  BY <1>8, <1>10, <1>14, StaysTurns
<1> QED BY <1>2, <1>6, <1>7, <1>15 DEF y, items

\* One element less: the node goes when the length says it was the last.
LEMMA ShrinkListWell ==
    ASSUME NEW z, NEW k, Well(z), k \in DOMAIN z.node, z.node[k].type = "list",
           Len(z.node[k].items) < z.node[k].value_len
    PROVE  LET y == ShrinkList(z, k) IN
           /\ Turns(z, y, k) /\ Well(y)
           /\ k \notin DOMAIN y.node <=> z.node[k].value_len = 1
           /\ k \in DOMAIN y.node =>
                /\ y.node[k].type = "list" /\ y.node[k].data = 0
                /\ y.node[k].items = z.node[k].items
                /\ y.node[k].value_len = z.node[k].value_len - 1 /\ y.node[k].value_len > 0
                /\ y.node[k].expires = z.node[k].expires
<1> DEFINE y == ShrinkList(z, k)
           old == z.node[k]
<1>1. NodeWell(old) /\ z.free \in Nat /\ ZoneShape(z)
  BY DEF Well, NodesWell, Accounted
<1>2. /\ old.items \in Seq(Elements) /\ old.value_len \in Nat /\ old.data = 0
      /\ Len(old.items) \in Nat /\ Len(old.items) < old.value_len
  BY <1>1 DEF NodeWell, NodeOK
<1>3. CASE old.value_len = 1
  <2>1. Len(old.items) = 0
    BY <1>2, <1>3
  <2>2. old.items = <<>>
    BY <2>1, <1>2
  <2>3. y = Unlink(z, k)
    BY <1>3 DEF ShrinkList
  <2> HIDE DEF y
  <2>4. Turns(z, y, k) /\ Well(y) /\ k \notin DOMAIN y.node
    BY <2>2, <2>3, UnlinkWell
  <2> QED BY <2>4, <1>3 DEF y
<1>4. CASE old.value_len # 1
  <2> DEFINE m == MoveToHead(z, k)
             nd == [old EXCEPT !.value_len = @ - 1]
  <2>1. ZoneShape(m) /\ m.lru = <<k>> \o ngx_queue_remove(z.lru, k) /\ m.node = z.node /\ m.free = z.free
    BY <1>1 DEF MoveToHead, ZoneShape
  <2>2. y = [m EXCEPT !.node[k].value_len = @ - 1]
    BY <1>4 DEF ShrinkList
  <2>3. /\ DOMAIN nd = {"type", "data", "value_len", "items", "expires"}
        /\ nd.type = old.type /\ nd.data = old.data /\ nd.value_len = old.value_len - 1
        /\ nd.items = old.items /\ nd.expires = old.expires
    BY <1>1 DEF NodeWell
  <2> HIDE DEF m, y
  <2>4. /\ ZoneShape(y) /\ y.lru = m.lru /\ y.free = m.free
        /\ DOMAIN y.node = DOMAIN m.node /\ y.node[k] = nd
        /\ \A x \in DOMAIN m.node \ {k} : y.node[x] = m.node[x]
    BY <2>1, <2>2 DEF ZoneShape
  <2> HIDE DEF nd
  <2>5. Stays(z, y, k, nd)
    BY <2>1, <2>4 DEF Stays
  <2>6. nd.value_len \in Nat /\ nd.value_len > 0 /\ Len(nd.items) <= nd.value_len
    BY <1>2, <1>4, <2>3
  <2>7. NodeWell(nd)
    BY <1>1, <1>2, <2>3, <2>6 DEF NodeWell, NodeOK
  <2>8. Used(nd) = Used(old) /\ Used(old) \in Nat
    BY <1>1, <2>3, UsedNat DEF Used, NodeSize
  <2>9. y.free = z.free + Used(old) - Used(nd) /\ y.free >= 0
    BY <1>1, <2>1, <2>4, <2>8
  <2>10. Turns(z, y, k) /\ Well(y)
    BY <2>5, <2>7, <2>9, StaysTurns
  <2> QED BY <1>2, <1>4, <2>1, <2>3, <2>4, <2>6, <2>10 DEF y
<1> QED BY <1>3, <1>4

\* pop frees one element, and the node with the last one as value_len counts them.
LEMMA PopNodeWell ==
    ASSUME NEW z, NEW k, NEW side, Well(z), k \in DOMAIN z.node, z.node[k].type = "list",
           z.node[k].items # <<>>
    PROVE  LET y == PopNode(z, k, side)
               rest == IF side = "left" THEN Tail(z.node[k].items) ELSE Front(z.node[k].items) IN
           /\ Turns(z, y, k) /\ Well(y)
           /\ k \notin DOMAIN y.node <=> z.node[k].value_len = 1
           /\ k \in DOMAIN y.node =>
                /\ y.node[k].type = "list" /\ y.node[k].data = 0
                /\ y.node[k].items = rest
                /\ y.node[k].value_len = z.node[k].value_len - 1 /\ y.node[k].value_len > 0
                /\ y.node[k].expires = z.node[k].expires
<1> DEFINE old == z.node[k]
           v == IF side = "left" THEN Head(old.items) ELSE Last(old.items)
           rest == IF side = "left" THEN Tail(old.items) ELSE Front(old.items)
           m == [z EXCEPT !.free = @ + ElementSize(v), !.node[k].items = rest]
           y == PopNode(z, k, side)
<1>1. NodeWell(old) /\ z.free \in Nat /\ ZoneShape(z)
  BY DEF Well, NodesWell, Accounted
<1>2. /\ old.items \in Seq(Elements) /\ old.value_len \in Nat /\ old.data = 0
      /\ Len(old.items) \in Nat /\ Len(old.items) <= old.value_len
  BY <1>1 DEF NodeWell, NodeOK
<1>3. rest \in Seq(Elements) /\ v \in Elements /\ ItemsSize(old.items) = ItemsSize(rest) + ElementSize(v)
  BY <1>2, ItemsSizeLess
<1>4. Len(rest) = Len(old.items) - 1
  <2>1. Len(Tail(old.items)) = Len(old.items) - 1
    BY <1>2
  <2>2. Len(Front(old.items)) = Len(old.items) - 1
    <3>1. Len(old.items) > 0
      BY <1>2
    <3> QED BY <1>2, <3>1 DEF Front
  <2> QED BY <2>1, <2>2
<1>5. y = ShrinkList(m, k)
  BY DEF PopNode
<1> DEFINE nd == [old EXCEPT !.items = rest]
<1> HIDE DEF v, rest, y
<1>6. /\ DOMAIN nd = {"type", "data", "value_len", "items", "expires"}
      /\ nd.type = old.type /\ nd.data = old.data /\ nd.value_len = old.value_len
      /\ nd.items = rest /\ nd.expires = old.expires
  BY <1>1 DEF NodeWell
<1>7. /\ ZoneShape(m) /\ m.lru = z.lru /\ m.free = z.free + ElementSize(v)
      /\ DOMAIN m.node = DOMAIN z.node /\ m.node[k] = nd
      /\ \A x \in DOMAIN z.node \ {k} : m.node[x] = z.node[x]
  BY <1>1 DEF ZoneShape
<1> HIDE DEF m, nd
<1>8. Stays(z, m, k, nd)
  BY <1>7 DEF Stays
<1>9. Len(nd.items) < nd.value_len /\ Len(nd.items) <= nd.value_len
  BY <1>2, <1>4, <1>6
<1>10. NodeWell(nd)
  BY <1>1, <1>2, <1>3, <1>6, <1>9 DEF NodeWell, NodeOK
<1>11. NodeSize(nd) = 2 /\ NodeSize(old) = 2
  BY <1>6 DEF NodeSize
<1>12. ItemsSize(rest) \in Nat /\ ElementSize(v) \in Nat
  BY <1>3, ItemsSizeNat, ElementSizeNat
<1>13. Used(old) = Used(nd) + ElementSize(v) /\ Used(nd) \in Nat
  BY <1>3, <1>6, <1>11, <1>12 DEF Used
<1>14. m.free = z.free + Used(old) - Used(nd) /\ m.free >= 0
  BY <1>1, <1>7, <1>12, <1>13
<1>15. Turns(z, m, k) /\ Well(m)
  BY <1>8, <1>10, <1>14, StaysTurns
<1>16. k \in DOMAIN m.node /\ m.node[k].type = "list" /\ Len(m.node[k].items) < m.node[k].value_len
  BY <1>6, <1>7, <1>9
<1>17. /\ Turns(m, y, k) /\ Well(y)
       /\ k \notin DOMAIN y.node <=> m.node[k].value_len = 1
       /\ k \in DOMAIN y.node =>
                /\ y.node[k].type = "list" /\ y.node[k].data = 0
                /\ y.node[k].items = m.node[k].items
                /\ y.node[k].value_len = m.node[k].value_len - 1 /\ y.node[k].value_len > 0
                /\ y.node[k].expires = m.node[k].expires
  BY <1>5, <1>15, <1>16, ShrinkListWell
<1>18. Turns(z, y, k)
  BY <1>15, <1>17, TurnsTransitive
<1> QED BY <1>6, <1>7, <1>17, <1>18 DEF y, rest

-----------------------------------------------------------------------------
(* Expiry and eviction: entries leave at the tail of the queue.            *)

Drops(z, y) ==
    /\ Well(y) /\ DOMAIN y.node \subseteq DOMAIN z.node
    /\ \A x \in DOMAIN y.node : y.node[x] = z.node[x]
    /\ \A k \in Keys : Start(Off(y.lru, k), Off(z.lru, k))

DropsDue(z, y, t) ==
    Drops(z, y) /\ \A x \in DOMAIN z.node \ DOMAIN y.node : Due(z.node[x], t)

LEMMA WellQueue ==
    ASSUME NEW z, NEW k, Well(z)
    PROVE  Queue(z.lru) /\ Queue(Off(z.lru, k)) /\ ToSet(z.lru) = DOMAIN z.node /\ DOMAIN z.node \subseteq Keys
BY OffKeeps, QueueFinite DEF Well, Indexed

\* Doing nothing drops nothing.
LEMMA DropsSelf ==
    ASSUME NEW z, Well(z), NEW t
    PROVE  DropsDue(z, z, t)
<1>1. \A k \in Keys : Len(Off(z.lru, k)) \in Nat
  BY WellQueue DEF Queue
<1> QED BY <1>1 DEF DropsDue, Drops, Start

LEMMA DropsTransitive ==
    ASSUME NEW z, NEW y, NEW x, Well(z), Drops(z, y), Drops(y, x)
    PROVE  Drops(z, x)
<1>1. Well(y) /\ Well(x)
  BY DEF Drops
<1>2. ASSUME NEW k \in Keys
      PROVE  Start(Off(x.lru, k), Off(z.lru, k))
  <2>1. Queue(Off(z.lru, k)) /\ Queue(Off(y.lru, k)) /\ Queue(Off(x.lru, k))
    BY <1>1, WellQueue
  <2>2. Start(Off(x.lru, k), Off(y.lru, k)) /\ Start(Off(y.lru, k), Off(z.lru, k))
    BY DEF Drops
  <2> QED BY <2>1, <2>2, StartTransitive
<1> QED BY <1>1, <1>2 DEF Drops

LEMMA DropsDueTransitive ==
    ASSUME NEW z, NEW y, NEW x, NEW t, Well(z), DropsDue(z, y, t), DropsDue(y, x, t)
    PROVE  DropsDue(z, x, t)
<1>1. Drops(z, x)
  BY DropsTransitive DEF DropsDue
<1>2. \A e \in DOMAIN z.node \ DOMAIN x.node : Due(z.node[e], t)
  BY DEF DropsDue, Drops
<1> QED BY <1>1, <1>2 DEF DropsDue

\* Removing the entry at the tail.
LEMMA TailDropped ==
    ASSUME NEW z, Well(z), z.lru # <<>>
    PROVE  /\ Last(z.lru) \in DOMAIN z.node
           /\ Drops(z, RemoveEntry(z, Last(z.lru)))
           /\ DOMAIN RemoveEntry(z, Last(z.lru)).node = DOMAIN z.node \ {Last(z.lru)}
<1> DEFINE e == Last(z.lru)
           y == RemoveEntry(z, e)
<1>1. Queue(z.lru) /\ ToSet(z.lru) = DOMAIN z.node
  BY WellQueue
<1>2. \A k : Last(z.lru) \in ToSet(z.lru) /\ Start(Off(ngx_queue_remove(z.lru, e), k), Off(z.lru, k))
  BY <1>1, TailLeaves
<1>3. e \in DOMAIN z.node
  BY <1>1, <1>2
<1> HIDE DEF e
<1>4. Well(y) /\ Leaves(z, y, e)
  BY <1>3, RemoveEntryWell
<1> HIDE DEF y
<1>5. Drops(z, y)
  BY <1>2, <1>4 DEF Drops, Leaves
<1> QED BY <1>3, <1>4, <1>5 DEF e, y, Leaves

\* A turn of ngx_http_lua_shdict_expire drops at most the oldest entry, and only if it has expired.
LEMMA ExpireDueDrops ==
    ASSUME NEW z, NEW t, Well(z)
    PROVE  DropsDue(z, ExpireDue(z, t), t)
<1>1. CASE z.lru # <<>> /\ Due(z.node[Last(z.lru)], t)
  <2> DEFINE y == RemoveEntry(z, Last(z.lru))
  <2>1. ExpireDue(z, t) = y
    BY <1>1 DEF ExpireDue
  <2>2. Drops(z, y) /\ DOMAIN y.node = DOMAIN z.node \ {Last(z.lru)}
    BY <1>1, TailDropped
  <2> HIDE DEF y
  <2>3. DropsDue(z, y, t)
    BY <1>1, <2>2 DEF DropsDue
  <2> QED BY <2>1, <2>3
<1>2. CASE ~(z.lru # <<>> /\ Due(z.node[Last(z.lru)], t))
  <2>1. ExpireDue(z, t) = z
    BY <1>2 DEF ExpireDue
  <2> QED BY <2>1, DropsSelf
<1> QED BY <1>1, <1>2

LEMMA Expire1Drops ==
    ASSUME NEW z, NEW t, Well(z)
    PROVE  DropsDue(z, Expire1(z, t), t) /\ Well(Expire1(z, t))
<1> DEFINE y == ExpireDue(z, t)
<1>1. DropsDue(z, y, t)
  BY ExpireDueDrops
<1>2. Well(y)
  BY <1>1 DEF DropsDue, Drops
<1> HIDE DEF y
<1>3. DropsDue(y, ExpireDue(y, t), t)
  BY <1>2, ExpireDueDrops
<1>4. DropsDue(z, ExpireDue(y, t), t)
  BY <1>1, <1>3, DropsDueTransitive
<1> QED BY <1>4 DEF Expire1, y, DropsDue, Drops

LEMMA Expire0Drops ==
    ASSUME NEW z, NEW t, Well(z)
    PROVE  Drops(z, Expire0(z, t)) /\ Well(Expire0(z, t))
<1> DEFINE y == ExpireOldest(z)
<1>1. Drops(z, y)
  <2>1. CASE z.lru # <<>>
    BY <2>1, TailDropped DEF ExpireOldest, Oldest
  <2>2. CASE z.lru = <<>>
    <3>1. y = z
      BY <2>2 DEF ExpireOldest
    <3>2. DropsDue(z, z, t)
      BY DropsSelf
    <3> HIDE DEF y
    <3> QED BY <3>1, <3>2 DEF DropsDue
  <2> QED BY <2>1, <2>2
<1>2. Well(y)
  BY <1>1 DEF Drops
<1> HIDE DEF y
<1>3. DropsDue(y, Expire1(y, t), t)
  BY <1>2, Expire1Drops
<1>4. Drops(z, Expire1(y, t))
  BY <1>1, <1>3, DropsTransitive DEF DropsDue
<1> QED BY <1>4 DEF Expire1, Expire0, y, Drops

\* The eviction loop, round by round.
Rooms(z, n, t, d, room) ==
    room = [i \in 0..d |->
              IF i = 0 THEN z
              ELSE IF Fits(room[i - 1], n) \/ room[i - 1].lru = <<>> THEN room[i - 1]
                   ELSE Expire0(room[i - 1], t)]

\* The recursion of MakeRoom is well defined.
LEMMA RoomsExist ==
    ASSUME NEW z, NEW n, NEW t
    PROVE  \E room : Rooms(z, n, t, EvictRounds, room) /\ MakeRoom(z, n, t) = room[EvictRounds]
<1> DEFINE P == {d \in Nat : \E room : Rooms(z, n, t, d, room)}
           Next1(y) == IF Fits(y, n) \/ y.lru = <<>> THEN y ELSE Expire0(y, t)
<1>1. 0 \in P
  <2> DEFINE f == [i \in 0..0 |-> z]
  <2>1. f = [i \in 0..0 |-> IF i = 0 THEN z ELSE Next1(f[i - 1])]
    OBVIOUS
  <2> QED BY <2>1 DEF Rooms
<1>2. ASSUME NEW d \in Nat, d \in P
      PROVE  d + 1 \in P
  <2>1. PICK f : Rooms(z, n, t, d, f)
    BY <1>2
  <2> DEFINE g == [i \in 0..(d + 1) |-> IF i = d + 1 THEN Next1(f[d]) ELSE f[i]]
  <2>2. \A i \in 0..d : f[i] = IF i = 0 THEN z ELSE Next1(f[i - 1])
    BY <2>1 DEF Rooms
  <2> HIDE DEF Next1
  <2>3. \A i \in 0..(d + 1) : g[i] = IF i = 0 THEN z ELSE Next1(g[i - 1])
    <3> TAKE i \in 0..(d + 1)
    <3>1. CASE i = d + 1
      <4>1. i # 0 /\ i - 1 = d /\ d \in 0..(d + 1) /\ d # d + 1
        BY <3>1
      <4> QED BY <3>1, <4>1
    <3>2. CASE i # d + 1 /\ i # 0
      <4>1. i \in 0..d /\ i - 1 \in 0..(d + 1) /\ i - 1 # d + 1
        BY <3>2
      <4> QED BY <3>2, <4>1, <2>2
    <3>3. CASE i = 0
      <4>1. i # d + 1 /\ i \in 0..d
        BY <3>3
      <4> QED BY <3>3, <4>1, <2>2
    <3> QED BY <3>1, <3>2, <3>3
  <2>4. g = [i \in 0..(d + 1) |-> IF i = 0 THEN z ELSE Next1(g[i - 1])]
    BY <2>3
  <2> HIDE DEF g
  <2>5. Rooms(z, n, t, d + 1, g)
    BY <2>4 DEF Rooms, Next1
  <2> QED BY <2>5
<1> HIDE DEF P
<1>3. EvictRounds \in P
  <2>1. Nat \subseteq P
    BY <1>1, <1>2, AllNumbers
  <2> QED BY <2>1 DEF EvictRounds
<1> DEFINE c == CHOOSE room : Rooms(z, n, t, EvictRounds, room)
<1>4. Rooms(z, n, t, EvictRounds, c)
  BY <1>3 DEF P
<1>5. MakeRoom(z, n, t) = c[EvictRounds]
  BY Zenon DEF MakeRoom, Rooms
<1> HIDE DEF c
<1> QED BY <1>4, <1>5

\* The eviction loop of store and incr drops entries from the tail only and keeps the zone sound.
LEMMA MakeRoomDrops ==
    ASSUME NEW z, NEW n, NEW t, Well(z)
    PROVE  Drops(z, MakeRoom(z, n, t)) /\ Well(MakeRoom(z, n, t))
<1>1. PICK room : Rooms(z, n, t, EvictRounds, room) /\ MakeRoom(z, n, t) = room[EvictRounds]
  BY RoomsExist
<1> DEFINE P == {d \in Nat : d <= EvictRounds => Drops(z, room[d])}
           Next1(y) == IF Fits(y, n) \/ y.lru = <<>> THEN y ELSE Expire0(y, t)
<1>2. EvictRounds \in Nat
  BY DEF EvictRounds
<1>3. \A i \in 0..EvictRounds : room[i] = IF i = 0 THEN z ELSE Next1(room[i - 1])
  BY <1>1 DEF Rooms
<1>4. 0 \in P
  <2>1. room[0] = z
    BY <1>2, <1>3
  <2>2. DropsDue(z, z, t)
    BY DropsSelf
  <2> QED BY <2>1, <2>2 DEF DropsDue
<1>5. ASSUME NEW d \in Nat, d \in P
      PROVE  d + 1 \in P
  <2> SUFFICES ASSUME d + 1 <= EvictRounds
               PROVE  Drops(z, room[d + 1])
    OBVIOUS
  <2> DEFINE y == room[d]
  <2>1. d + 1 \in 0..EvictRounds /\ d + 1 # 0 /\ d + 1 - 1 = d /\ d <= EvictRounds
    BY <1>2
  <2>2. room[d + 1] = Next1(y)
    BY <2>1, <1>3
  <2>3. Drops(z, y) /\ Well(y)
    BY <2>1, <1>5 DEF Drops
  <2> HIDE DEF y
  <2>4. Drops(y, Expire0(y, t))
    BY <2>3, Expire0Drops
  <2>5. Drops(z, Expire0(y, t))
    BY <2>3, <2>4, DropsTransitive
  <2> QED BY <2>2, <2>3, <2>5
<1> HIDE DEF P
<1>6. Nat \subseteq P
  BY <1>4, <1>5, AllNumbers
<1>7. Drops(z, room[EvictRounds])
  BY <1>2, <1>6 DEF P
<1> QED BY <1>1, <1>7 DEF Drops

-----------------------------------------------------------------------------
(* What an operation on k does to the zone.                                *)

\* The others keep their nodes and their order, though the tail may go.
Others(z, y, k) ==
    /\ Start(Off(y.lru, k), Off(z.lru, k))
    /\ DOMAIN y.node \ {k} \subseteq DOMAIN z.node
    /\ \A x \in DOMAIN y.node \ {k} : y.node[x] = z.node[x]

\* Of the others only expired ones go.
OnlyDue(z, y, k, t) == \A x \in DOMAIN z.node \ {k} : x \notin DOMAIN y.node => Due(z.node[x], t)

Passes(z, y, k, t) == Well(y) /\ Others(z, y, k) /\ OnlyDue(z, y, k, t)

\* Who drops entries from the tail respects the order of the others.
LEMMA DropsOthers ==
    ASSUME NEW z, NEW y, NEW k \in Keys, Drops(z, y)
    PROVE  Others(z, y, k)
BY DEF Drops, Others

\* Reclaiming expired entries is allowed to every operation.
LEMMA DropsDuePasses ==
    ASSUME NEW z, NEW y, NEW k \in Keys, NEW t, DropsDue(z, y, t)
    PROVE  Passes(z, y, k, t)
BY DropsOthers DEF DropsDue, Drops, Passes, OnlyDue

\* So is anything done to the operation's own entry.
LEMMA TurnsPasses ==
    ASSUME NEW z, NEW y, NEW k, NEW t, Well(z), Well(y), Turns(z, y, k)
    PROVE  Passes(z, y, k, t)
<1>1. Off(y.lru, k) = Off(z.lru, k) /\ SameBut(z, y, k)
  BY DEF Turns
<1>2. Len(Off(z.lru, k)) \in Nat
  BY WellQueue DEF Queue
<1>3. Start(Off(y.lru, k), Off(z.lru, k))
  BY <1>1, <1>2 DEF Start
<1>4. Others(z, y, k) /\ OnlyDue(z, y, k, t)
  BY <1>1, <1>3 DEF Others, OnlyDue, SameBut
<1> QED BY <1>4 DEF Passes

\* What two steps of an operation leave of the others, both together leave.
LEMMA OthersTransitive ==
    ASSUME NEW z, NEW y, NEW x, NEW k, Well(z), Well(y), Well(x), Others(z, y, k), Others(y, x, k)
    PROVE  Others(z, x, k)
<1>1. Queue(Off(z.lru, k)) /\ Queue(Off(y.lru, k)) /\ Queue(Off(x.lru, k))
  BY WellQueue
<1>2. Start(Off(x.lru, k), Off(z.lru, k))
  BY <1>1, StartTransitive DEF Others
<1>3. \A e \in DOMAIN x.node \ {k} : e \in DOMAIN y.node \ {k} /\ e \in DOMAIN z.node
  BY DEF Others
<1> QED BY <1>2, <1>3 DEF Others

LEMMA PassesTransitive ==
    ASSUME NEW z, NEW y, NEW x, NEW k, NEW t, Well(z), Passes(z, y, k, t), Passes(y, x, k, t)
    PROVE  Passes(z, x, k, t)
<1>1. Well(y) /\ Well(x) /\ Others(z, y, k) /\ Others(y, x, k)
  BY DEF Passes
<1>2. Others(z, x, k)
  BY <1>1, OthersTransitive
<1>3. OnlyDue(z, x, k, t)
  BY DEF Passes, OnlyDue, Others
<1> QED BY <1>1, <1>2, <1>3 DEF Passes

LEMMA TurnsSelf ==
    ASSUME NEW z, NEW k, Well(z)
    PROVE  Turns(z, z, k)
<1>1. Weight(z, k) \in Nat /\ z.free \in Nat
  BY WeightNat
<1>2. z.free = z.free + Weight(z, k) - Weight(z, k)
  BY <1>1
<1> QED BY <1>2 DEF Turns, SameBut, Well

LEMMA LookedWell ==
    ASSUME NEW z, NEW k, Well(z)
    PROVE  /\ Turns(z, Looked(z, k), k) /\ Well(Looked(z, k))
           /\ Looked(z, k).node = z.node /\ Looked(z, k).free = z.free
<1>1. CASE k \in DOMAIN z.node
  BY <1>1, MoveToHeadWell DEF Looked
<1>2. CASE k \notin DOMAIN z.node
  BY <1>2, TurnsSelf DEF Looked
<1> QED BY <1>1, <1>2

LEMMA RemoveIfPresentWell ==
    ASSUME NEW z, NEW k, Well(z)
    PROVE  /\ Turns(z, RemoveIfPresent(z, k), k) /\ Well(RemoveIfPresent(z, k))
           /\ k \notin DOMAIN RemoveIfPresent(z, k).node
<1>1. CASE k \in DOMAIN z.node
  BY <1>1, RemoveEntryWell DEF RemoveIfPresent
<1>2. CASE k \notin DOMAIN z.node
  BY <1>2, TurnsSelf DEF RemoveIfPresent
<1> QED BY <1>1, <1>2

\* The beginning of an operation only reclaims and moves k to the head.
LEMMA EnteredPasses ==
    ASSUME Well(sh), NEW k \in Keys, NEW t
    PROVE  /\ Well(Entered(k, t)) /\ Passes(sh, Entered(k, t), k, t)
           /\ DropsDue(sh, Expire1(sh, t), t) /\ Entered(k, t).node = Expire1(sh, t).node
<1> DEFINE z == Expire1(sh, t)
           e == Looked(z, k)
<1>1. DropsDue(sh, z, t) /\ Well(z)
  BY Expire1Drops
<1> HIDE DEF z
<1>2. Turns(z, e, k) /\ Well(e) /\ e.node = z.node
  BY <1>1, LookedWell
<1> HIDE DEF e
<1>3. Passes(sh, z, k, t) /\ Passes(z, e, k, t)
  BY <1>1, <1>2, DropsDuePasses, TurnsPasses
<1>4. Passes(sh, e, k, t)
  BY <1>3, PassesTransitive
<1> QED BY <1>1, <1>2, <1>4 DEF e, z, Entered

\* What set, add, replace and incr come to: the new node is there or no k is;
\* another entry goes only if the operation may evict and says it did.
Stored(op, z, y, k, nd, t, safe, val) ==
    /\ Well(y) /\ Others(z, y, k)
    /\ k \in DOMAIN y.node => y.node[k] = nd
    /\ \E f \in BOOLEAN :
          /\ safe => ~f
          /\ f \/ DOMAIN z.node \ {k} \subseteq DOMAIN y.node
          /\ \/ k \in DOMAIN y.node /\ Reply(op, k, t, "ok", val, f)
             \/ k \notin DOMAIN y.node /\ Reply(op, k, t, "no memory", <<>>, f)

\* From the label insert on: k gets its node, or memory ran out.
LEMMA InsertStored ==
    ASSUME NEW op, NEW z, NEW k \in Keys, NEW nd, NEW t, NEW safe \in BOOLEAN, NEW val,
           Well(z), k \notin DOMAIN z.node, NodeWell(nd), nd.items = <<>>,
           Insert(op, z, k, nd, t, safe, val)
    PROVE  Stored(op, z, sh', k, nd, t, safe, val)
<1> DEFINE m == IF safe THEN z ELSE MakeRoom(z, NodeSize(nd), t)
           f == m # z
<1>1. Drops(z, m) /\ Well(m) /\ (safe => m = z)
  <2>1. CASE safe
    <3>1. DropsDue(z, z, t)
      BY DropsSelf
    <3> QED BY <2>1, <3>1 DEF DropsDue
  <2>2. CASE ~safe
    BY <2>2, MakeRoomDrops
  <2> QED BY <2>1, <2>2
<1>2. \/ Fits(m, NodeSize(nd)) /\ sh' = Link(m, k, nd) /\ Reply(op, k, t, "ok", val, f)
      \/ sh' = m /\ Reply(op, k, t, "no memory", <<>>, f)
  BY DEF Insert
<1>3. f \in BOOLEAN /\ (safe => ~f)
  BY <1>1
<1>4. f \/ DOMAIN z.node \ {k} \subseteq DOMAIN m.node
  OBVIOUS
<1> HIDE DEF m
<1>5. Others(z, m, k) /\ k \notin DOMAIN m.node
  BY <1>1, DropsOthers DEF Drops
<1>6. CASE Fits(m, NodeSize(nd)) /\ sh' = Link(m, k, nd) /\ Reply(op, k, t, "ok", val, f)
  <2> DEFINE y == Link(m, k, nd)
  <2>1. Turns(m, y, k) /\ Well(y) /\ k \in DOMAIN y.node /\ y.node[k] = nd
    BY <1>1, <1>5, <1>6, LinkWell
  <2> HIDE DEF y
  <2>2. Others(m, y, k) /\ SameBut(m, y, k)
    BY <1>1, <2>1, TurnsPasses DEF Passes, Turns
  <2>3. Others(z, y, k)
    BY <1>1, <1>5, <2>1, <2>2, OthersTransitive
  <2>4. f \/ DOMAIN z.node \ {k} \subseteq DOMAIN y.node
    BY <1>4, <2>2 DEF SameBut
  <2> HIDE DEF f
  <2>5. Stored(op, z, y, k, nd, t, safe, val)
    BY <1>3, <1>6, <2>1, <2>3, <2>4 DEF Stored
  <2> QED BY <1>6, <2>5 DEF y
<1>7. CASE sh' = m /\ Reply(op, k, t, "no memory", <<>>, f)
  <2> HIDE DEF f
  <2>1. Stored(op, z, m, k, nd, t, safe, val)
    BY <1>1, <1>3, <1>4, <1>5, <1>7 DEF Stored
  <2> QED BY <1>7, <2>1
<1> HIDE DEF f
<1> QED BY <1>2, <1>6, <1>7

\* From the label replace on, whether the old node is reused or removed.
LEMMA PutStored ==
    ASSUME NEW op, NEW z, NEW k \in Keys, NEW nd, NEW t, NEW safe \in BOOLEAN, NEW val,
           Well(z), NodeWell(nd), nd.type # "list", Put(op, z, k, nd, t, safe, val)
    PROVE  Stored(op, z, sh', k, nd, t, safe, val)
<1>1. nd.items = <<>>
  BY DEF NodeWell, NodeOK
<1>2. CASE Reusable(z, k, nd.value_len) /\ sh' = Update(z, k, nd) /\ Return(op, k, t, val)
  <2>1. k \in DOMAIN z.node /\ z.node[k].type # "list" /\ z.node[k].value_len = nd.value_len
    BY <1>2 DEF Reusable
  <2>2. NodeWell(z.node[k])
    BY <2>1 DEF Well, NodesWell
  <2>3. z.node[k].items = <<>>
    BY <2>1, <2>2 DEF NodeWell, NodeOK
  <2>4. Used(nd) = Used(z.node[k])
    BY <1>1, <2>1, <2>3 DEF Used, NodeSize
  <2> DEFINE y == Update(z, k, nd)
  <2>5. Turns(z, y, k) /\ Well(y) /\ k \in DOMAIN y.node /\ y.node[k] = nd
    BY <2>1, <2>4, UpdateWell
  <2> HIDE DEF y
  <2>6. Others(z, y, k) /\ DOMAIN z.node \ {k} \subseteq DOMAIN y.node
    BY <2>5, TurnsPasses DEF Passes, Turns, SameBut
  <2>7. Reply(op, k, t, "ok", val, FALSE)
    BY <1>2 DEF Return
  <2>8. Stored(op, z, y, k, nd, t, safe, val)
    BY <2>5, <2>6, <2>7 DEF Stored
  <2> QED BY <1>2, <2>8 DEF y
<1>3. CASE Insert(op, RemoveIfPresent(z, k), k, nd, t, safe, val)
  <2> DEFINE r == RemoveIfPresent(z, k)
  <2>1. Turns(z, r, k) /\ Well(r) /\ k \notin DOMAIN r.node
    BY RemoveIfPresentWell
  <2> HIDE DEF r
  <2>2. Insert(op, r, k, nd, t, safe, val)
    BY <1>3 DEF r
  <2>3. Stored(op, r, sh', k, nd, t, safe, val)
    BY <1>1, <2>1, <2>2, InsertStored
  <2>4. Others(z, r, k) /\ DOMAIN r.node \ {k} = DOMAIN z.node \ {k}
    BY <2>1, TurnsPasses DEF Passes, Turns, SameBut
  <2>5. Others(z, sh', k)
    BY <2>1, <2>3, <2>4, OthersTransitive DEF Stored
  <2> QED BY <2>3, <2>4, <2>5 DEF Stored
<1> QED BY <1>2, <1>3 DEF Put

\* No empty list under k, and no list at all unless there is something to push.
Settles(z, k) ==
    k \in DOMAIN z.node /\ z.node[k].type = "list" => z.node[k].value_len > 0 /\ Elements # {}

Settled(z) == \A k \in DOMAIN z.node : Settles(z, k)

\* What every operation on k does, told of its step.
KeyDone(k, t) ==
    /\ Well(sh') /\ Others(sh, sh', k) /\ Settles(sh', k)
    /\ reply'.key = k /\ reply'.at = t /\ reply'.forcible \in BOOLEAN /\ UNCHANGED now
    /\ \/ OnlyDue(sh, sh', k, t)
       \/ reply'.forcible /\ reply'.op \in {"set", "add", "replace", "incr"}

\* What the three results of lookup say.
LEMMA RcFound ==
    ASSUME NEW z, NEW k, NEW t
    PROVE  /\ Rc(z, k, t) \in {"OK", "DONE", "DECLINED"}
           /\ Rc(z, k, t) = "DECLINED" <=> k \notin DOMAIN z.node
           /\ Rc(z, k, t) = "OK" <=>
                k \in DOMAIN z.node /\ (z.node[k].expires = 0 \/ ~(z.node[k].expires < t))
BY DEF Rc

LEMMA ReplyFields ==
    ASSUME NEW op, NEW k, NEW t, NEW res, NEW val, NEW f, Reply(op, k, t, res, val, f)
    PROVE  /\ reply'.op = op /\ reply'.key = k /\ reply'.at = t
           /\ reply'.res = res /\ reply'.val = val /\ reply'.forcible = f
           /\ UNCHANGED now /\ t \in Clocks
BY DEF Reply

\* Reclaiming and looking up leave no list without elements.
LEMMA EnteredSettled ==
    ASSUME Well(sh), Settled(sh), NEW k \in Keys, NEW t
    PROVE  Settled(Entered(k, t))
<1>1. DropsDue(sh, Expire1(sh, t), t) /\ Entered(k, t).node = Expire1(sh, t).node
  BY EnteredPasses
<1> QED BY <1>1 DEF DropsDue, Drops, Settled, Settles

\* Operations that leave the zone as they found it after the lookup.
LEMMA OnlyEnteredDone ==
    ASSUME Well(sh), Settled(sh), NEW k \in Keys, NEW t, sh' = Entered(k, t),
           NEW op, NEW res, NEW val, Reply(op, k, t, res, val, FALSE)
    PROVE  KeyDone(k, t)
<1>1. Passes(sh, sh', k, t) /\ Settled(sh')
  BY EnteredPasses, EnteredSettled
<1>2. Settles(sh', k)
  BY <1>1 DEF Settled, Settles
<1>3. reply'.key = k /\ reply'.at = t /\ reply'.forcible = FALSE /\ UNCHANGED now
  BY DEF Reply
<1> QED BY <1>1, <1>2, <1>3 DEF KeyDone, Passes

\* Operations that after the lookup change the entry of k only.
LEMMA TurnsDone ==
    ASSUME Well(sh), NEW k \in Keys, NEW t, NEW y, Turns(Entered(k, t), y, k), Well(y),
           Settles(y, k), sh' = y, NEW op, NEW res, NEW val, Reply(op, k, t, res, val, FALSE)
    PROVE  KeyDone(k, t)
<1> DEFINE z == Entered(k, t)
<1>1. Passes(sh, z, k, t) /\ Well(z)
  BY EnteredPasses
<1> HIDE DEF z
<1>2. Passes(z, y, k, t)
  BY <1>1, TurnsPasses DEF z
<1>3. Passes(sh, y, k, t)
  BY <1>1, <1>2, PassesTransitive
<1>4. reply'.key = k /\ reply'.at = t /\ reply'.forcible = FALSE /\ UNCHANGED now
  BY DEF Reply
<1>5. Passes(sh, sh', k, t) /\ Settles(sh', k)
  BY <1>3
<1> QED BY <1>4, <1>5 DEF KeyDone, Passes

\* A store does to the zone no more than KeyDone allows.
LEMMA StoredDone ==
    ASSUME Well(sh), NEW k \in Keys, NEW t, NEW op, NEW nd, NEW safe \in BOOLEAN, NEW val,
           Stored(op, Entered(k, t), sh', k, nd, t, safe, val), nd.type # "list",
           safe \/ op \in {"set", "add", "replace", "incr"}
    PROVE  KeyDone(k, t)
<1> DEFINE z == Entered(k, t)
<1>1. Passes(sh, z, k, t) /\ Well(z)
  BY EnteredPasses
<1> HIDE DEF z
<1>2. Stored(op, z, sh', k, nd, t, safe, val)
  BY DEF z
<1>3. Well(sh') /\ Others(z, sh', k) /\ Settles(sh', k)
  BY <1>2 DEF Stored, Settles
<1>4. Others(sh, sh', k)
  BY <1>1, <1>3, OthersTransitive DEF Passes
<1>5. PICK f \in BOOLEAN :
          /\ safe => ~f
          /\ f \/ DOMAIN z.node \ {k} \subseteq DOMAIN sh'.node
          /\ Reply(op, k, t, "ok", val, f) \/ Reply(op, k, t, "no memory", <<>>, f)
  BY <1>2 DEF Stored
<1>6. reply'.op = op /\ reply'.key = k /\ reply'.at = t /\ reply'.forcible = f /\ UNCHANGED now
  BY <1>5, ReplyFields
<1>7. CASE f
  BY <1>3, <1>4, <1>5, <1>6, <1>7 DEF KeyDone
<1>8. CASE ~f
  <2>1. DOMAIN z.node \ {k} \subseteq DOMAIN sh'.node
    BY <1>5, <1>8
  <2>2. OnlyDue(sh, sh', k, t)
    BY <1>1, <2>1 DEF Passes, OnlyDue
  <2> QED BY <1>3, <1>4, <1>6, <2>2 DEF KeyDone
<1> QED BY <1>7, <1>8

\* The nodes that set, add, replace and incr make.
LEMMA ScalarNodeWell ==
    ASSUME NEW v, NEW d \in Nat, v.type \in {"number", "string"}, v.len \in Nat \ {0},
           v.type = "number" => v.len = NumLen
    PROVE  NodeWell(ScalarNode(v, d)) /\ ScalarNode(v, d).type # "list"
BY DEF NodeWell, NodeOK, ScalarNode

LEMMA NewNodeWell ==
    ASSUME NEW v \in Scalars, NEW e \in ExpTimes, NEW t \in Nat
    PROVE  NodeWell(NewNode(v, e, t)) /\ NewNode(v, e, t).type # "list"
<1>1. Deadline(t, e) \in Nat
  BY ShDictAssumption DEF Deadline
<1>2. v.type \in {"number", "string"} /\ v.len \in Nat \ {0} /\ (v.type = "number" => v.len = NumLen)
  BY ShDictAssumption
<1> QED BY <1>1, <1>2, ScalarNodeWell DEF NewNode

LEMMA NumberNodeWell ==
    ASSUME NEW n
    PROVE  NodeWell(ScalarNode(Number(n), 0)) /\ ScalarNode(Number(n), 0).type # "list"
<1> DEFINE v == Number(n)
<1>1. v.type = "number" /\ v.len = NumLen /\ NumLen \in Nat \ {0} /\ 0 \in Nat
  BY DEF Number, NumLen
<1> HIDE DEF v
<1>2. NodeWell(ScalarNode(v, 0)) /\ ScalarNode(v, 0).type # "list"
  BY <1>1, ScalarNodeWell
<1> QED BY <1>2 DEF v

-----------------------------------------------------------------------------
(* The operations on a key, one by one.                                    *)

LEMMA StoreOpsDone ==
    ASSUME Well(sh), Settled(sh), NEW k \in Keys, NEW t \in Nat, NEW v \in Scalars, NEW e \in ExpTimes,
           \/ Set(k, v, e, t) \/ SafeSet(k, v, e, t) \/ Replace(k, v, e, t)
           \/ Add("add", FALSE, k, v, e, t) \/ Add("safe_add", TRUE, k, v, e, t)
    PROVE  KeyDone(k, t)
<1> DEFINE nd == NewNode(v, e, t)
           z == Entered(k, t)
<1>1. NodeWell(nd) /\ nd.type # "list"
  BY NewNodeWell
<1>2. Well(z)
  BY EnteredPasses
<1> HIDE DEF nd, z
<1>3. ASSUME NEW op, NEW safe \in BOOLEAN, Put(op, z, k, nd, t, safe, <<>>),
             safe \/ op \in {"set", "add", "replace", "incr"}
      PROVE  KeyDone(k, t)
  <2>1. Stored(op, z, sh', k, nd, t, safe, <<>>)
    BY <1>1, <1>2, <1>3, PutStored
  <2> QED BY <1>1, <1>3, <2>1, StoredDone DEF z
<1>4. ASSUME NEW op, NEW res, sh' = z, Reply(op, k, t, res, <<>>, FALSE)
      PROVE  KeyDone(k, t)
  BY <1>4, OnlyEnteredDone DEF z
<1>5. CASE Set(k, v, e, t)
  BY <1>3, <1>5 DEF Set, z, nd
<1>6. CASE SafeSet(k, v, e, t)
  BY <1>3, <1>6 DEF SafeSet, z, nd
<1>7. CASE Replace(k, v, e, t)
  <2>1. Put("replace", z, k, nd, t, FALSE, <<>>) \/ (sh' = z /\ Reply("replace", k, t, "not found", <<>>, FALSE))
    BY <1>7 DEF Replace, Fail, z, nd
  <2> QED BY <1>3, <1>4, <2>1
<1>8. ASSUME NEW op, NEW safe \in BOOLEAN, Add(op, safe, k, v, e, t), safe \/ op = "add"
      PROVE  KeyDone(k, t)
  <2>1. Put(op, z, k, nd, t, safe, <<>>) \/ (sh' = z /\ Reply(op, k, t, "exists", <<>>, FALSE))
    BY <1>8 DEF Add, Fail, z, nd
  <2> QED BY <1>3, <1>4, <1>8, <2>1
<1> QED BY <1>5, <1>6, <1>7, <1>8

LEMMA DeleteDone ==
    ASSUME Well(sh), NEW k \in Keys, NEW t, Delete(k, t)
    PROVE  KeyDone(k, t)
<1> DEFINE z == Entered(k, t)
           y == RemoveIfPresent(z, k)
<1>1. Well(z)
  BY EnteredPasses
<1>2. Turns(z, y, k) /\ Well(y) /\ k \notin DOMAIN y.node
  BY <1>1, RemoveIfPresentWell
<1>3. sh' = y /\ Reply("delete", k, t, "ok", <<>>, FALSE)
  BY DEF Delete, Return
<1> HIDE DEF y, z
<1>4. Settles(y, k)
  BY <1>2 DEF Settles
<1> QED BY <1>2, <1>3, <1>4, TurnsDone DEF z

LEMMA GetDone ==
    ASSUME Well(sh), Settled(sh), NEW k \in Keys, NEW t, Get(k, t)
    PROVE  KeyDone(k, t)
<1>1. \E res, val : Reply("get", k, t, res, val, FALSE)
  BY DEF Get, Return, Fail
<1>2. sh' = Entered(k, t)
  BY DEF Get
<1> QED BY <1>1, <1>2, OnlyEnteredDone

LEMMA LLenDone ==
    ASSUME Well(sh), Settled(sh), NEW k \in Keys, NEW t, LLen(k, t)
    PROVE  KeyDone(k, t)
<1>1. \E res, val : Reply("llen", k, t, res, val, FALSE)
  BY DEF LLen, Return, Fail
<1>2. sh' = Entered(k, t)
  BY DEF LLen
<1> QED BY <1>1, <1>2, OnlyEnteredDone

LEMMA GetStaleDone ==
    ASSUME Well(sh), Settled(sh), NEW k \in Keys, NEW t, GetStale(k, t)
    PROVE  KeyDone(k, t)
<1> DEFINE y == Looked(sh, k)
<1>1. PICK res, val : Reply("get_stale", k, t, res, val, FALSE)
  BY DEF GetStale, Return, Fail
<1>2. sh' = y
  BY DEF GetStale
<1>3. Turns(sh, y, k) /\ Well(y) /\ y.node = sh.node
  BY LookedWell
<1> HIDE DEF y
<1>4. Passes(sh, sh', k, t)
  BY <1>2, <1>3, TurnsPasses
<1>5. Settles(sh', k)
  BY <1>2, <1>3 DEF Settled, Settles
<1>6. reply'.key = k /\ reply'.at = t /\ reply'.forcible = FALSE /\ UNCHANGED now
  BY <1>1, ReplyFields
<1> QED BY <1>4, <1>5, <1>6 DEF KeyDone, Passes

LEMMA IncrDone ==
    ASSUME Well(sh), Settled(sh), NEW k \in Keys, NEW t, NEW n, NEW init, Incr(k, n, init, t)
    PROVE  KeyDone(k, t)
<1> DEFINE z == Entered(k, t)
           old == z.node[k]
           nd == [old EXCEPT !.data = @ + n]
           new == ScalarNode(Number(n + init[1]), 0)
<1>1. Well(z)
  BY EnteredPasses
<1>2. ASSUME NEW res, sh' = z, Reply("incr", k, t, res, <<>>, FALSE)
      PROVE  KeyDone(k, t)
  BY <1>2, OnlyEnteredDone
<1>3. ASSUME Rc(z, k, t) = "OK", old.type = "number", sh' = Update(z, k, nd),
             NEW val, Reply("incr", k, t, "ok", val, FALSE)
      PROVE  KeyDone(k, t)
  <2>1. k \in DOMAIN z.node
    BY <1>3, RcFound
  <2>2. NodeWell(old)
    BY <1>1, <2>1 DEF Well, NodesWell
  <2>3. /\ DOMAIN nd = {"type", "data", "value_len", "items", "expires"}
        /\ nd.type = old.type /\ nd.value_len = old.value_len
        /\ nd.items = old.items /\ nd.expires = old.expires
    BY <2>2 DEF NodeWell
  <2> HIDE DEF nd, z
  <2>4. NodeWell(nd) /\ Used(nd) = Used(old)
    BY <1>3, <2>2, <2>3 DEF NodeWell, NodeOK, Used, NodeSize
  <2> DEFINE y == Update(z, k, nd)
  <2>5. Turns(z, y, k) /\ Well(y) /\ y.node[k] = nd
    BY <1>1, <2>1, <2>4, UpdateWell
  <2>6. Settles(y, k)
    BY <1>3, <2>3, <2>5 DEF Settles
  <2> HIDE DEF y
  <2> QED BY <1>3, <2>5, <2>6, TurnsDone DEF y, z
<1>4. ASSUME NEW val, Put("incr", z, k, new, t, FALSE, val)
      PROVE  KeyDone(k, t)
  <2>1. NodeWell(new) /\ new.type # "list"
    BY NumberNodeWell
  <2> HIDE DEF new, z
  <2>2. Stored("incr", z, sh', k, new, t, FALSE, val)
    BY <1>1, <1>4, <2>1, PutStored
  <2> QED BY <2>1, <2>2, StoredDone DEF z
<1>5. CASE IncrLive(k, n, t)
  <2>1. \/ sh' = z /\ Reply("incr", k, t, "not a number", <<>>, FALSE)
        \/ /\ Rc(z, k, t) = "OK" /\ old.type = "number" /\ sh' = Update(z, k, nd)
           /\ Reply("incr", k, t, "ok", <<Number(old.data + n)>>, FALSE)
    BY <1>5 DEF IncrLive, Fail, Return
  <2> QED BY <1>2, <1>3, <2>1
<1>6. CASE IncrDead(k, n, init, t)
  <2>1. \/ sh' = z /\ Reply("incr", k, t, "not found", <<>>, FALSE)
        \/ Put("incr", z, k, new, t, FALSE, <<Number(n + init[1])>>)
    BY <1>6 DEF IncrDead, Fail
  <2> QED BY <1>2, <1>4, <2>1
<1> QED BY <1>5, <1>6 DEF Incr

Revives(z, k, t) == Rc(z, k, t) # "OK" /\ k \in DOMAIN z.node /\ z.node[k].type = "list"

\* Before push adds its element there is a list under k: the live one, the
\* revived one, a new one, or none for want of memory.
LEMMA ListReadyWell ==
    ASSUME NEW z, NEW k \in Keys, NEW t, Well(z), Rc(z, k, t) = "OK" => z.node[k].type = "list"
    PROVE  LET y == ListReady(z, k, t) IN
           /\ Turns(z, y, k) /\ Well(y)
           /\ k \in DOMAIN y.node => y.node[k].type = "list"
           /\ Rc(z, k, t) = "OK" => y.node = z.node /\ k \in DOMAIN y.node
           /\ Rc(z, k, t) # "OK" /\ ~Revives(z, k, t) /\ k \in DOMAIN y.node => y.node[k] = ListNode
           /\ Revives(z, k, t) =>
                k \in DOMAIN y.node /\ y.node[k].items = <<>> /\ y.node[k].value_len = z.node[k].value_len
<1> DEFINE y == ListReady(z, k, t)
<1>1. CASE Rc(z, k, t) = "OK"
  <2>1. y = MoveToHead(z, k)
    BY <1>1 DEF ListReady
  <2>2. k \in DOMAIN z.node
    BY <1>1, RcFound
  <2> HIDE DEF y
  <2>3. Turns(z, y, k) /\ Well(y) /\ y.node = z.node
    BY <2>1, <2>2, MoveToHeadWell
  <2> QED BY <1>1, <2>2, <2>3 DEF y, Revives
<1>2. CASE Revives(z, k, t)
  <2>1. y = Reset(z, k) /\ k \in DOMAIN z.node /\ z.node[k].type = "list" /\ Rc(z, k, t) # "OK"
    BY <1>2 DEF ListReady, Revives
  <2> HIDE DEF y
  <2>2. /\ Turns(z, y, k) /\ Well(y) /\ k \in DOMAIN y.node /\ y.node[k].type = "list"
        /\ y.node[k].items = <<>> /\ y.node[k].value_len = z.node[k].value_len
    BY <2>1, ResetWell
  <2> QED BY <1>2, <2>1, <2>2 DEF y
<1>3. CASE Rc(z, k, t) # "OK" /\ ~Revives(z, k, t)
  <2> DEFINE r == RemoveIfPresent(z, k)
  <2>1. y = IF Fits(r, NodeSize(ListNode)) THEN Link(r, k, ListNode) ELSE r
    BY <1>3 DEF ListReady, Revives
  <2>2. Turns(z, r, k) /\ Well(r) /\ k \notin DOMAIN r.node
    BY RemoveIfPresentWell
  <2> HIDE DEF y, r
  <2>3. NodeWell(ListNode) /\ ListNode.items = <<>> /\ ListNode.type = "list"
    BY DEF NodeWell, NodeOK, ListNode
  <2>4. CASE Fits(r, NodeSize(ListNode))
    <3>1. y = Link(r, k, ListNode)
      BY <2>1, <2>4
    <3>2. Turns(r, y, k) /\ Well(y) /\ y.node[k] = ListNode
      BY <2>2, <2>3, <2>4, <3>1, LinkWell
    <3>3. Turns(z, y, k)
      BY <2>2, <3>2, TurnsTransitive
    <3> QED BY <1>3, <2>3, <3>2, <3>3 DEF y
  <2>5. CASE ~Fits(r, NodeSize(ListNode))
    <3>1. y = r
      BY <2>1, <2>5
    <3> QED BY <1>3, <2>2, <3>1 DEF y
  <2> QED BY <2>4, <2>5
<1> QED BY <1>1, <1>2, <1>3 DEF Revives

LEMMA DropEmptyWell ==
    ASSUME NEW z, NEW k, Well(z), k \in DOMAIN z.node, z.node[k].type = "list", Elements # {}
    PROVE  LET y == DropEmpty(z, k) IN
           /\ Turns(z, y, k) /\ Well(y) /\ Settles(y, k)
           /\ IF z.node[k].value_len = 0 THEN k \notin DOMAIN y.node ELSE y = z
<1> DEFINE y == DropEmpty(z, k)
<1>1. NodeWell(z.node[k])
  BY DEF Well, NodesWell
<1>2. /\ z.node[k].items \in Seq(Elements) /\ z.node[k].value_len \in Nat
      /\ Len(z.node[k].items) \in Nat /\ Len(z.node[k].items) <= z.node[k].value_len
  BY <1>1 DEF NodeWell, NodeOK
<1>3. CASE z.node[k].value_len = 0
  <2>1. Len(z.node[k].items) = 0
    BY <1>2, <1>3
  <2>2. z.node[k].items = <<>>
    BY <1>2, <2>1
  <2>3. y = Unlink(z, k)
    BY <1>3 DEF DropEmpty
  <2> HIDE DEF y
  <2>4. Turns(z, y, k) /\ Well(y) /\ k \notin DOMAIN y.node
    BY <2>2, <2>3, UnlinkWell
  <2> QED BY <1>3, <2>4 DEF Settles, y
<1>4. CASE z.node[k].value_len # 0
  <2>1. y = z
    BY <1>4 DEF DropEmpty
  <2>2. Turns(z, z, k)
    BY TurnsSelf
  <2>3. Settles(z, k)
    BY <1>2, <1>4 DEF Settles
  <2> HIDE DEF y
  <2> QED BY <1>4, <2>1, <2>2, <2>3 DEF y
<1> QED BY <1>3, <1>4

\* push keeps the zone sound whether it revives a list, starts one or runs out of memory.
LEMMA PushDone ==
    ASSUME Well(sh), Settled(sh), NEW k \in Keys, NEW t, NEW v \in Elements, NEW side, Push(k, v, side, t)
    PROVE  KeyDone(k, t)
<1> DEFINE z == Entered(k, t)
           y == ListReady(z, k, t)
<1>1. Well(z)
  BY EnteredPasses
<1>2. CASE sh' = z /\ Fail("push", k, t, "value not a list")
  <2>1. Reply("push", k, t, "value not a list", <<>>, FALSE)
    BY <1>2 DEF Fail
  <2> QED BY <1>2, <2>1, OnlyEnteredDone
<1>3. CASE /\ Rc(z, k, t) = "OK" => z.node[k].type = "list"
           /\ k \in DOMAIN y.node /\ Fits(y, ElementSize(v))
           /\ sh' = PushNode(y, k, v, side)
           /\ Return("push", k, t, <<Number(y.node[k].value_len + 1)>>)
  <2> HIDE DEF z
  <2>1. Turns(z, y, k) /\ Well(y) /\ y.node[k].type = "list"
    BY <1>1, <1>3, ListReadyWell
  <2> HIDE DEF y
  <2> DEFINE x == PushNode(y, k, v, side)
  <2>2. Turns(y, x, k) /\ Well(x) /\ x.node[k].value_len = y.node[k].value_len + 1
    BY <1>3, <2>1, PushNodeWell
  <2>3. Reply("push", k, t, "ok", <<Number(y.node[k].value_len + 1)>>, FALSE) /\ sh' = x
    BY <1>3 DEF Return
  <2> HIDE DEF x
  <2>4. y.node[k].value_len \in Nat
    BY <1>3, <2>1 DEF Well, NodesWell, NodeWell, NodeOK
  <2>5. Settles(x, k)
    BY <2>2, <2>4 DEF Settles
  <2>6. Turns(z, x, k)
    BY <1>1, <2>1, <2>2, TurnsTransitive
  <2> QED BY <2>2, <2>3, <2>5, <2>6, TurnsDone DEF z
<1>4. CASE /\ Rc(z, k, t) = "OK" => z.node[k].type = "list"
           /\ sh' = IF k \in DOMAIN y.node THEN DropEmpty(y, k) ELSE y
           /\ Fail("push", k, t, "no memory")
  <2> HIDE DEF z
  <2>1. Turns(z, y, k) /\ Well(y) /\ (k \in DOMAIN y.node => y.node[k].type = "list")
    BY <1>1, <1>4, ListReadyWell
  <2> HIDE DEF y
  <2> DEFINE x == IF k \in DOMAIN y.node THEN DropEmpty(y, k) ELSE y
  <2>2. Turns(y, x, k) /\ Well(x) /\ Settles(x, k)
    <3>1. CASE k \in DOMAIN y.node
      BY <2>1, <3>1, DropEmptyWell
    <3>2. CASE k \notin DOMAIN y.node
      BY <2>1, <3>2, TurnsSelf DEF Settles
    <3> QED BY <3>1, <3>2
  <2>3. Reply("push", k, t, "no memory", <<>>, FALSE) /\ sh' = x
    BY <1>4 DEF Fail
  <2> HIDE DEF x
  <2>4. Turns(z, x, k)
    BY <1>1, <2>1, <2>2, TurnsTransitive
  <2> QED BY <2>2, <2>3, <2>4, TurnsDone DEF z
<1> QED BY <1>2, <1>3, <1>4 DEF Push

LEMMA PopDone ==
    ASSUME Well(sh), Settled(sh), NEW k \in Keys, NEW t, NEW side, Pop(k, side, t)
    PROVE  KeyDone(k, t)
<1> DEFINE z == Entered(k, t)
<1>1. Well(z) /\ Settled(z)
  BY EnteredPasses, EnteredSettled
<1>2. ASSUME sh' = z, NEW res, Reply("pop", k, t, res, <<>>, FALSE)
      PROVE  KeyDone(k, t)
  BY <1>2, OnlyEnteredDone
<1>3. ASSUME Rc(z, k, t) = "OK", z.node[k].type = "list", z.node[k].items # <<>>,
             sh' = PopNode(z, k, side), NEW val, Reply("pop", k, t, "ok", val, FALSE)
      PROVE  KeyDone(k, t)
  <2>1. k \in DOMAIN z.node
    BY <1>3, RcFound
  <2> DEFINE y == PopNode(z, k, side)
  <2> HIDE DEF z
  <2>a. Elements # {}
    BY <1>1, <1>3, <2>1 DEF Settled, Settles
  <2>2. Turns(z, y, k) /\ Well(y) /\ (k \in DOMAIN y.node => y.node[k].value_len > 0)
    BY <1>1, <1>3, <2>1, PopNodeWell
  <2> HIDE DEF y
  <2>3. Settles(y, k)
    BY <2>2, <2>a DEF Settles
  <2> QED BY <1>3, <2>2, <2>3, TurnsDone DEF y, z
<1>4. \/ sh' = z /\ \E res : Reply("pop", k, t, res, <<>>, FALSE)
      \/ /\ Rc(z, k, t) = "OK" /\ z.node[k].type = "list" /\ z.node[k].items # <<>>
         /\ sh' = PopNode(z, k, side)
         /\ \E val : Reply("pop", k, t, "ok", val, FALSE)
  BY DEF Pop, Return, Fail
<1> QED BY <1>2, <1>3, <1>4

\* pop of the list head itself keeps the zone sound.
LEMMA PopHollowDone ==
    ASSUME Well(sh), Settled(sh), NEW k \in Keys, NEW t, PopHollow(k, t)
    PROVE  KeyDone(k, t)
<1> DEFINE z == Entered(k, t)
           y == ShrinkList(z, k)
<1>1. Well(z) /\ Settled(z)
  BY EnteredPasses, EnteredSettled
<1>2. CASE sh' = z /\ Fail("pop", k, t, "bad list node value type")
  <2>1. Reply("pop", k, t, "bad list node value type", <<>>, FALSE)
    BY <1>2 DEF Fail
  <2> QED BY <1>2, <2>1, OnlyEnteredDone
<1>3. CASE sh' = y /\ Fail("pop", k, t, "garbage")
  <2>1. Rc(z, k, t) = "OK" /\ z.node[k].type = "list" /\ z.node[k].items = <<>>
    BY DEF PopHollow
  <2> HIDE DEF z
  <2>2. k \in DOMAIN z.node
    BY <2>1, RcFound
  <2>a. Elements # {}
    BY <1>1, <2>1, <2>2 DEF Settled, Settles
  <2>3. Len(z.node[k].items) < z.node[k].value_len
    <3>1. Len(<<>>) = 0
      OBVIOUS
    <3> QED BY <1>1, <2>1, <2>2, <3>1 DEF Settled, Settles
  <2>4. Turns(z, y, k) /\ Well(y) /\ (k \in DOMAIN y.node => y.node[k].value_len > 0)
    BY <1>1, <2>1, <2>2, <2>3, ShrinkListWell
  <2>5. Reply("pop", k, t, "garbage", <<>>, FALSE)
    BY <1>3 DEF Fail
  <2> HIDE DEF y
  <2>6. Settles(y, k)
    BY <2>4, <2>a DEF Settles
  <2> QED BY <1>3, <2>4, <2>5, <2>6, TurnsDone DEF z
<1> QED BY <1>2, <1>3 DEF PopHollow

\* Whatever is called on k: the zone stays sound, k is settled, the others keep their order.
LEMMA KeyOpDone ==
    ASSUME Well(sh), Settled(sh), NEW k \in Keys, NEW t \in Nat, KeyOp(k, t)
    PROVE  KeyDone(k, t)
<1>1. CASE \E v \in Scalars, e \in ExpTimes :
              \/ Set(k, v, e, t) \/ SafeSet(k, v, e, t) \/ Replace(k, v, e, t)
              \/ Add("add", FALSE, k, v, e, t) \/ Add("safe_add", TRUE, k, v, e, t)
  BY <1>1, StoreOpsDone
<1>2. CASE \E v \in Elements, side \in {"left", "right"} : Push(k, v, side, t)
  BY <1>2, PushDone
<1>3. CASE \E side \in {"left", "right"} : Pop(k, side, t)
  BY <1>3, PopDone
<1>4. CASE \E n \in Increments, init \in {<<>>, <<0>>} : Incr(k, n, init, t)
  BY <1>4, IncrDone
<1>5. CASE Delete(k, t) \/ Get(k, t) \/ GetStale(k, t)
  BY <1>5, DeleteDone, GetDone, GetStaleDone
<1>6. CASE PopHollow(k, t) \/ LLen(k, t)
  BY <1>6, PopHollowDone, LLenDone
<1> QED BY <1>1, <1>2, <1>3, <1>4, <1>5, <1>6 DEF KeyOp

-----------------------------------------------------------------------------
(* The operations on the whole zone.                                       *)

\* Every entry of the zone is met once on the way from the tail.
LEMMA AgedAll ==
    ASSUME Well(sh)
    PROVE  /\ Len(sh.lru) \in Nat
           /\ \A i \in 1..Len(sh.lru) : Aged(i) \in DOMAIN sh.node
           /\ \A i, j \in 1..Len(sh.lru) : Aged(i) = Aged(j) => i = j
           /\ \A x \in DOMAIN sh.node : \E i \in 1..Len(sh.lru) : x = Aged(i)
<1> DEFINE q == sh.lru
<1>1. Queue(q) /\ ToSet(q) = DOMAIN sh.node
  BY DEF Well, Indexed
<1>2. \A i : Aged(i) = q[Len(q) + 1 - i]
  BY DEF Aged
<1> HIDE DEF q
<1>3. q \in Seq(Keys) /\ Len(q) \in Nat /\ DOMAIN q = 1..Len(q)
  BY <1>1 DEF Queue
<1>4. \A i \in 1..Len(q) : Len(q) + 1 - i \in 1..Len(q)
  BY <1>3
<1>5. \A i \in 1..Len(q) : Aged(i) \in DOMAIN sh.node
  BY <1>1, <1>2, <1>3, <1>4 DEF ToSet
<1>6. ASSUME NEW i \in 1..Len(q), NEW j \in 1..Len(q), Aged(i) = Aged(j)
      PROVE  i = j
  <2> DEFINE a == Len(q) + 1 - i
             b == Len(q) + 1 - j
  <2>1. a \in DOMAIN q /\ b \in DOMAIN q /\ q[a] = q[b]
    BY <1>2, <1>3, <1>4, <1>6
  <2> HIDE DEF a, b
  <2>2. a = b
    BY <1>1, <2>1 DEF Queue, IsInjective
  <2> QED BY <1>3, <2>2 DEF a, b
<1>7. ASSUME NEW x \in DOMAIN sh.node
      PROVE  \E i \in 1..Len(q) : x = Aged(i)
  <2>1. PICK j \in DOMAIN q : q[j] = x
    BY <1>1 DEF ToSet
  <2>2. j \in Nat /\ 1 <= j /\ j <= Len(q)
    BY <1>3, <2>1
  <2> DEFINE i == Len(q) + 1 - j
  <2>3. i \in 1..Len(q) /\ Len(q) + 1 - i = j
    BY <1>3, <2>2
  <2>4. Aged(i) = x
    BY <1>2, <2>1, <2>3
  <2> QED BY <2>3, <2>4
<1> QED BY <1>3, <1>5, <1>6, <1>7 DEF q

\* The walk of flush_expired, entry by entry.
WalkStep(n, t, w, i) ==
    IF Due(sh.node[Aged(i)], t) /\ (n = 0 \/ w.freed < n)
    THEN [zone |-> RemoveEntry(w.zone, Aged(i)), freed |-> w.freed + 1] ELSE w

Walks(n, t, d, walk) ==
    walk = [i \in 0..d |-> IF i = 0 THEN [zone |-> sh, freed |-> 0] ELSE WalkStep(n, t, walk[i - 1], i)]

\* The recursion of FlushExpired is well defined.
LEMMA WalksExist ==
    ASSUME NEW n, NEW t, Len(sh.lru) \in Nat, FlushExpired(n, t)
    PROVE  \E walk : /\ Walks(n, t, Len(sh.lru), walk)
                     /\ sh' = walk[Len(sh.lru)].zone
                     /\ Return("flush_expired", "none", t, <<Number(walk[Len(sh.lru)].freed)>>)
<1> DEFINE P == {d \in Nat : \E walk : Walks(n, t, d, walk)}
           z == [zone |-> sh, freed |-> 0]
<1>1. 0 \in P
  <2> DEFINE f == [i \in 0..0 |-> z]
  <2>1. f = [i \in 0..0 |-> IF i = 0 THEN z ELSE WalkStep(n, t, f[i - 1], i)]
    OBVIOUS
  <2> QED BY <2>1 DEF Walks
<1>2. ASSUME NEW d \in Nat, d \in P
      PROVE  d + 1 \in P
  <2>1. PICK f : Walks(n, t, d, f)
    BY <1>2
  <2> DEFINE g == [i \in 0..(d + 1) |-> IF i = d + 1 THEN WalkStep(n, t, f[d], i) ELSE f[i]]
  <2>2. \A i \in 0..d : f[i] = IF i = 0 THEN z ELSE WalkStep(n, t, f[i - 1], i)
    BY <2>1 DEF Walks
  <2> HIDE DEF z
  <2>3. \A i \in 0..(d + 1) : g[i] = IF i = 0 THEN z ELSE WalkStep(n, t, g[i - 1], i)
    <3> TAKE i \in 0..(d + 1)
    <3>1. CASE i = d + 1
      <4>1. i # 0 /\ i - 1 = d /\ d \in 0..(d + 1) /\ d # d + 1
        BY <3>1
      <4> QED BY <3>1, <4>1
    <3>2. CASE i # d + 1 /\ i # 0
      <4>1. i \in 0..d /\ i - 1 \in 0..(d + 1) /\ i - 1 # d + 1
        BY <3>2
      <4> QED BY <3>2, <4>1, <2>2
    <3>3. CASE i = 0
      <4>1. i # d + 1 /\ i \in 0..d
        BY <3>3
      <4> QED BY <3>3, <4>1, <2>2
    <3> QED BY <3>1, <3>2, <3>3
  <2>4. g = [i \in 0..(d + 1) |-> IF i = 0 THEN z ELSE WalkStep(n, t, g[i - 1], i)]
    BY <2>3
  <2> HIDE DEF g
  <2>5. Walks(n, t, d + 1, g)
    BY <2>4 DEF Walks, z
  <2> QED BY <2>5
<1> HIDE DEF P
<1>3. Len(sh.lru) \in P
  <2>1. Nat \subseteq P
    BY <1>1, <1>2, AllNumbers
  <2> QED BY <2>1
<1> DEFINE c == CHOOSE walk : Walks(n, t, Len(sh.lru), walk)
<1>4. Walks(n, t, Len(sh.lru), c)
  BY <1>3 DEF P
<1>5. /\ sh' = c[Len(sh.lru)].zone
      /\ Return("flush_expired", "none", t, <<Number(c[Len(sh.lru)].freed)>>)
  BY Zenon DEF FlushExpired, Walks, WalkStep
<1> HIDE DEF c
<1> QED BY <1>4, <1>5

\* What is left and what has been freed after i entries of the walk.
Freed(z) == DOMAIN sh.node \ DOMAIN z.node

Walked(n, t, i, w) ==
    /\ Well(w.zone) /\ DOMAIN w.zone.node \subseteq DOMAIN sh.node
    /\ \A x \in DOMAIN w.zone.node : w.zone.node[x] = sh.node[x]
    /\ IsFiniteSet(Freed(w.zone)) /\ w.freed = Cardinality(Freed(w.zone)) /\ w.freed \in Nat
    /\ n # 0 => w.freed <= n
    /\ \A x \in Freed(w.zone) : Due(sh.node[x], t) /\ \E j \in 1..i : x = Aged(j)
    /\ \A j \in 1..i : Due(sh.node[Aged(j)], t) => Aged(j) \in Freed(w.zone) \/ (n # 0 /\ w.freed >= n)

\* One entry on, flush_expired has freed what it should of those it has passed.
LEMMA WalkStepKeeps ==
    ASSUME Well(sh), NEW n \in Nat, NEW t, NEW i \in Nat, i + 1 <= Len(sh.lru),
           NEW w, Walked(n, t, i, w)
    PROVE  Walked(n, t, i + 1, WalkStep(n, t, w, i + 1))
<1> DEFINE a == Aged(i + 1)
           z == w.zone
           y == RemoveEntry(z, a)
           v == [zone |-> y, freed |-> w.freed + 1]
<1>1. i + 1 \in 1..Len(sh.lru) /\ \A j \in 1..i : j \in 1..Len(sh.lru) /\ j # i + 1 /\ j \in 1..(i + 1)
  BY AgedAll
<1>2. a \in DOMAIN sh.node /\ \A j \in 1..i : Aged(j) # a
  BY <1>1, AgedAll
<1>3. \A j \in 1..(i + 1) : j \in 1..i \/ j = i + 1
  OBVIOUS
<1>4. CASE Due(sh.node[a], t) /\ (n = 0 \/ w.freed < n)
  <2>1. a \notin Freed(z) /\ a \in DOMAIN z.node /\ Well(z)
    BY <1>2 DEF Walked, Freed
  <2>2. Leaves(z, y, a) /\ Well(y)
    BY <2>1, RemoveEntryWell
  <2>3. WalkStep(n, t, w, i + 1) = v /\ v.zone = y /\ v.freed = w.freed + 1
    BY <1>4 DEF WalkStep
  <2> HIDE DEF y, v
  <2>4. Freed(y) = Freed(z) \cup {a}
    BY <1>2, <2>2 DEF Leaves, Freed
  <2>5. IsFiniteSet(Freed(z)) /\ w.freed = Cardinality(Freed(z)) /\ w.freed \in Nat
    BY DEF Walked
  <2>6. IsFiniteSet(Freed(y)) /\ w.freed + 1 = Cardinality(Freed(y))
    BY <2>1, <2>4, <2>5, FS_AddElement
  <2>7. n # 0 => w.freed + 1 <= n
    BY <1>4, <2>5
  <2>8. /\ DOMAIN y.node \subseteq DOMAIN sh.node
        /\ \A x \in DOMAIN y.node : y.node[x] = sh.node[x]
    BY <2>2 DEF Leaves, Walked
  <2>9. i + 1 \in 1..(i + 1)
    OBVIOUS
  <2>10. \A x \in Freed(y) : Due(sh.node[x], t) /\ \E j \in 1..(i + 1) : x = Aged(j)
    <3> TAKE x \in Freed(y)
    <3>1. CASE x = a
      BY <1>4, <2>9, <3>1
    <3>2. CASE x \in Freed(z)
      <4>1. Due(sh.node[x], t) /\ \E j \in 1..i : x = Aged(j)
        BY <3>2 DEF Walked
      <4> QED BY <4>1, <1>1
    <3> QED BY <3>1, <3>2, <2>4
  <2>11. ASSUME NEW j \in 1..(i + 1), Due(sh.node[Aged(j)], t)
         PROVE  Aged(j) \in Freed(y) \/ (n # 0 /\ w.freed + 1 >= n)
    <3>1. CASE j = i + 1
      BY <3>1, <2>4
    <3>2. CASE j \in 1..i
      <4>1. Aged(j) \in Freed(z) \/ (n # 0 /\ w.freed >= n)
        BY <3>2, <2>11 DEF Walked
      <4> QED BY <4>1, <2>4, <2>5
    <3> QED BY <1>3, <3>1, <3>2
  <2>12. w.freed + 1 \in Nat
    BY <2>5
  <2>13. Walked(n, t, i + 1, v)
    BY <2>2, <2>3, <2>6, <2>7, <2>8, <2>10, <2>11, <2>12 DEF Walked
  <2> QED BY <2>3, <2>13
<1>5. CASE ~(Due(sh.node[a], t) /\ (n = 0 \/ w.freed < n))
  <2>1. WalkStep(n, t, w, i + 1) = w
    BY <1>5 DEF WalkStep
  <2>2. w.freed \in Nat
    BY DEF Walked
  <2>3. \A x \in Freed(z) : Due(sh.node[x], t) /\ \E j \in 1..(i + 1) : x = Aged(j)
    BY <1>1 DEF Walked
  <2>4. ASSUME NEW j \in 1..(i + 1), Due(sh.node[Aged(j)], t)
        PROVE  Aged(j) \in Freed(z) \/ (n # 0 /\ w.freed >= n)
    <3>1. CASE j = i + 1
      BY <1>5, <2>2, <2>4, <3>1
    <3>2. CASE j \in 1..i
      BY <3>2, <2>4 DEF Walked
    <3> QED BY <1>3, <3>1, <3>2
  <2>5. Walked(n, t, i + 1, w)
    BY <2>3, <2>4 DEF Walked
  <2> QED BY <2>1, <2>5
<1> QED BY <1>4, <1>5

\* flush_expired ends with the zone it should and the number of entries freed.
LEMMA FlushExpiredDone ==
    ASSUME Well(sh), NEW n \in Nat, NEW t, FlushExpired(n, t)
    PROVE  \E freed \in Nat :
              /\ Walked(n, t, Len(sh.lru), [zone |-> sh', freed |-> freed])
              /\ Return("flush_expired", "none", t, <<Number(freed)>>)
<1> DEFINE d == Len(sh.lru)
<1>1. d \in Nat
  BY AgedAll
<1>2. PICK walk : /\ Walks(n, t, d, walk) /\ sh' = walk[d].zone
                  /\ Return("flush_expired", "none", t, <<Number(walk[d].freed)>>)
  BY <1>1, WalksExist
<1> DEFINE start == [zone |-> sh, freed |-> 0]
           P == {i \in Nat : i <= d => Walked(n, t, i, walk[i])}
<1>3. \A i \in 0..d : walk[i] = IF i = 0 THEN start ELSE WalkStep(n, t, walk[i - 1], i)
  BY <1>2 DEF Walks
<1>4. 0 \in P
  <2>1. walk[0] = start
    BY <1>1, <1>3
  <2>2. start.zone = sh /\ start.freed = 0
    OBVIOUS
  <2> HIDE DEF start
  <2>3. Freed(sh) = {}
    BY DEF Freed
  <2>4. IsFiniteSet(Freed(sh)) /\ Cardinality(Freed(sh)) = 0
    BY <2>3, FS_EmptySet
  <2>5. Walked(n, t, 0, start)
    BY <2>2, <2>3, <2>4 DEF Walked
  <2> QED BY <2>1, <2>5
<1>5. ASSUME NEW i \in Nat, i \in P
      PROVE  i + 1 \in P
  <2> SUFFICES ASSUME i + 1 <= d
               PROVE  Walked(n, t, i + 1, walk[i + 1])
    OBVIOUS
  <2>1. i + 1 \in 0..d /\ i + 1 # 0 /\ (i + 1) - 1 = i /\ i <= d
    BY <1>1
  <2>2. walk[i + 1] = WalkStep(n, t, walk[i], i + 1)
    BY <1>3, <2>1
  <2>3. Walked(n, t, i, walk[i])
    BY <1>5, <2>1
  <2> QED BY <2>2, <2>3, WalkStepKeeps
<1> HIDE DEF P
<1>6. Nat \subseteq P
  BY <1>4, <1>5, AllNumbers
<1>7. Walked(n, t, d, walk[d])
  BY <1>1, <1>6 DEF P
<1> DEFINE freed == walk[d].freed
           end == [zone |-> sh', freed |-> freed]
<1>8. end.zone = walk[d].zone /\ end.freed = walk[d].freed
  BY <1>2
<1>9. freed \in Nat
  BY <1>7 DEF Walked
<1> HIDE DEF end, d, freed
<1>10. Walked(n, t, d, end)
  BY <1>7, <1>8 DEF Walked
<1> QED BY <1>2, <1>9, <1>10 DEF end, d, freed

\* flush_all changes no entry's size or place, only when it expires.
Marked == [k \in DOMAIN sh.node |-> [sh.node[k] EXCEPT !.expires = 1]]

LEMMA FlushAllDone ==
    ASSUME Well(sh), NEW t, FlushAll(t)
    PROVE  LET m == [sh EXCEPT !.node = Marked] IN
           /\ Well(m) /\ Drops(m, sh') /\ DOMAIN m.node = DOMAIN sh.node
           /\ \A k \in DOMAIN sh.node :
                m.node[k] = [sh.node[k] EXCEPT !.expires = 1]
           /\ Return("flush_all", "none", t, <<>>)
<1> DEFINE m == [sh EXCEPT !.node = Marked]
<1>1. ZoneShape(sh) /\ Indexed(sh) /\ NodesWell(sh) /\ Accounted(sh)
  BY DEF Well
<1>2. ZoneShape(m) /\ m.lru = sh.lru /\ m.free = sh.free /\ m.node = Marked
  BY <1>1 DEF ZoneShape
<1>3. DOMAIN Marked = DOMAIN sh.node /\ \A k \in DOMAIN sh.node : Marked[k] = [sh.node[k] EXCEPT !.expires = 1]
  BY DEF Marked
<1>4. sh' = Expire0(m, t) /\ Return("flush_all", "none", t, <<>>)
  BY DEF FlushAll, Marked
<1> HIDE DEF m
<1>5. ASSUME NEW k \in DOMAIN sh.node
      PROVE  NodeWell(Marked[k]) /\ Used(Marked[k]) = Used(sh.node[k])
  <2> DEFINE old == sh.node[k]
             nd == [old EXCEPT !.expires = 1]
  <2>1. NodeWell(old)
    BY <1>1 DEF NodesWell
  <2>2. /\ DOMAIN nd = {"type", "data", "value_len", "items", "expires"}
        /\ nd.type = old.type /\ nd.data = old.data /\ nd.value_len = old.value_len
        /\ nd.items = old.items /\ nd.expires = 1
    BY <2>1 DEF NodeWell
  <2>3. Marked[k] = nd
    BY <1>3
  <2> HIDE DEF nd, old
  <2>4. NodeWell(nd) /\ Used(nd) = Used(old)
    BY <2>1, <2>2 DEF NodeWell, NodeOK, Used, NodeSize
  <2> QED BY <2>3, <2>4 DEF old
<1>6. Weights(m) = Weights(sh)
  BY <1>2, <1>3, <1>5 DEF Weights
<1>7. Well(m)
  BY <1>1, <1>2, <1>3, <1>5, <1>6 DEF Well, Indexed, NodesWell, Accounted
<1>8. Drops(m, sh')
  BY <1>4, <1>7, Expire0Drops
<1> QED BY <1>2, <1>3, <1>4, <1>7, <1>8 DEF m

\* What the operations on the whole zone do: entries leave, whole; but for
\* flush_all only expired ones do.
ZoneDone(t) ==
    /\ Well(sh') /\ Settled(sh') /\ DOMAIN sh'.node \subseteq DOMAIN sh.node
    /\ reply'.key = "none" /\ reply'.at = t /\ reply'.forcible = FALSE /\ UNCHANGED now
    /\ reply'.op = "flush_all" \/ \A x \in Freed(sh') : Due(sh.node[x], t)

LEMMA ZoneOpDone ==
    ASSUME Well(sh), Settled(sh), NEW t, ZoneOp(t)
    PROVE  ZoneDone(t)
<1>1. ASSUME NEW op, NEW val, Return(op, "none", t, val)
      PROVE  /\ reply'.key = "none" /\ reply'.at = t /\ reply'.forcible = FALSE
             /\ UNCHANGED now /\ reply'.op = op
  BY <1>1, ReplyFields DEF Return
<1>2. CASE FlushAll(t)
  <2> DEFINE m == [sh EXCEPT !.node = Marked]
  <2>1. /\ Drops(m, sh') /\ DOMAIN m.node = DOMAIN sh.node
        /\ \A k \in DOMAIN sh.node : m.node[k] = [sh.node[k] EXCEPT !.expires = 1]
        /\ Return("flush_all", "none", t, <<>>)
    BY <1>2, FlushAllDone
  <2> HIDE DEF m
  <2>2. ASSUME NEW k \in DOMAIN sh'.node
        PROVE  k \in DOMAIN sh.node /\ Settles(sh', k)
    <3>1. k \in DOMAIN sh.node /\ sh'.node[k] = m.node[k]
      BY <2>1 DEF Drops
    <3>2. NodeWell(sh.node[k]) /\ Settles(sh, k)
      BY <3>1 DEF Well, NodesWell, Settled
    <3>3. sh'.node[k].type = sh.node[k].type /\ sh'.node[k].value_len = sh.node[k].value_len
      BY <2>1, <3>1, <3>2 DEF NodeWell
    <3> QED BY <3>1, <3>2, <3>3 DEF Settles
  <2>3. Well(sh')
    BY <2>1 DEF Drops
  <2> QED BY <1>1, <2>1, <2>2, <2>3 DEF ZoneDone, Settled
<1>3. CASE GetKeys(t)
  <2>1. sh' = sh /\ \E val : Return("get_keys", "none", t, val)
    BY <1>3 DEF GetKeys
  <2>2. Freed(sh') = {}
    BY <2>1 DEF Freed
  <2> QED BY <1>1, <2>1, <2>2 DEF ZoneDone
<1>4. ASSUME NEW n \in {0, 1}, FlushExpired(n, t)
      PROVE  ZoneDone(t)
  <2>1. n \in Nat
    OBVIOUS
  <2>2. PICK freed \in Nat : /\ Walked(n, t, Len(sh.lru), [zone |-> sh', freed |-> freed])
                             /\ Return("flush_expired", "none", t, <<Number(freed)>>)
    BY <1>4, <2>1, FlushExpiredDone
  <2>3. /\ Well(sh') /\ DOMAIN sh'.node \subseteq DOMAIN sh.node
        /\ \A x \in DOMAIN sh'.node : sh'.node[x] = sh.node[x]
        /\ \A x \in Freed(sh') : Due(sh.node[x], t)
    BY <2>2 DEF Walked
  <2>4. Settled(sh')
    BY <2>3 DEF Settled, Settles
  <2> QED BY <1>1, <2>2, <2>3, <2>4 DEF ZoneDone
<1> QED BY <1>2, <1>3, <1>4 DEF ZoneOp

-----------------------------------------------------------------------------
(* The inductive invariant and the theorems.                               *)

ZoneInv ==
    /\ Well(sh) /\ Settled(sh)
    /\ now \in StartTime..MaxTime /\ reply.forcible \in BOOLEAN

LEMMA InitZone ==
    Init => ZoneInv
<1> SUFFICES ASSUME Init
             PROVE  ZoneInv
  OBVIOUS
<1>1. /\ ZoneShape(sh) /\ sh.lru = <<>> /\ sh.node = <<>> /\ sh.free = Capacity
      /\ now = StartTime /\ reply.forcible = FALSE
  BY DEF Init, ZoneShape
<1>2. DOMAIN sh.node = {}
  <2>1. Len(<<>>) = 0 /\ DOMAIN <<>> = 1..Len(<<>>)
    OBVIOUS
  <2> QED BY <1>1, <2>1
<1>3. Indexed(sh)
  <2>1. <<>> \in Seq(Keys) /\ Len(<<>>) = 0 /\ DOMAIN <<>> = {}
    OBVIOUS
  <2>2. IsInjective(<<>>) /\ ToSet(<<>>) = {}
    BY <2>1 DEF IsInjective, ToSet
  <2> QED BY <1>1, <1>2, <2>1, <2>2 DEF Indexed, Queue
<1>4. NodesWell(sh) /\ Settled(sh)
  BY <1>2 DEF NodesWell, Settled
<1>5. Accounted(sh)
  <2> DEFINE f == Weights(sh)
  <2>1. DOMAIN f = {}
    BY <1>2 DEF Weights
  <2> HIDE DEF f
  <2>2. SumFunction(f) = 0
    BY <2>1, SumOfNone
  <2> QED BY <1>1, <2>2, ShDictAssumption DEF Accounted, f
<1>6. now \in StartTime..MaxTime
  BY <1>1, ShDictAssumption DEF StartTime
<1> QED BY <1>1, <1>3, <1>4, <1>5, <1>6 DEF ZoneInv, Well

LEMMA KeyOpSettled ==
    ASSUME Settled(sh), NEW k, NEW t, KeyDone(k, t)
    PROVE  Settled(sh')
<1> SUFFICES ASSUME NEW x \in DOMAIN sh'.node
             PROVE  Settles(sh', x)
  BY DEF Settled
<1>1. CASE x = k
  BY <1>1 DEF KeyDone
<1>2. CASE x # k
  BY <1>2 DEF KeyDone, Others, Settled, Settles
<1> QED BY <1>1, <1>2

\* The inductive step: every operation starts from and leaves a sound zone.
LEMMA ZoneInvKept ==
    ZoneInv /\ [Next]_vars => ZoneInv'
<1> SUFFICES ASSUME ZoneInv, [Next]_vars
             PROVE  ZoneInv'
  OBVIOUS
<1>1. ASSUME Well(sh'), Settled(sh'), now' \in StartTime..MaxTime, reply'.forcible \in BOOLEAN
      PROVE  ZoneInv'
  BY <1>1 DEF ZoneInv, Well, ZoneShape, Indexed, NodesWell, Accounted, Weights, Settled, Settles
<1>2. CASE UNCHANGED vars
  BY <1>1, <1>2 DEF vars, ZoneInv
<1>3. CASE Tick
  <2>1. now' \in StartTime..MaxTime
    BY <1>3, ShDictAssumption DEF Tick, ZoneInv, StartTime
  <2> QED BY <1>1, <1>3, <2>1 DEF Tick, ZoneInv
<1>4. ASSUME NEW t \in StartTime..MaxTime, ZoneOp(t)
      PROVE  ZoneInv'
  <2>1. ZoneDone(t)
    BY <1>4, ZoneOpDone DEF ZoneInv
  <2> QED BY <1>1, <2>1 DEF ZoneDone, ZoneInv
<1>5. ASSUME NEW t \in StartTime..MaxTime, NEW k \in Keys, KeyOp(k, t)
      PROVE  ZoneInv'
  <2>1. t \in Nat
    BY ShDictAssumption DEF StartTime
  <2>2. KeyDone(k, t)
    BY <1>5, <2>1, KeyOpDone DEF ZoneInv
  <2>3. Settled(sh')
    BY <2>2, KeyOpSettled DEF ZoneInv
  <2> QED BY <1>1, <2>2, <2>3 DEF KeyDone, ZoneInv
<1> QED BY <1>2, <1>3, <1>4, <1>5 DEF Next

\* The invariant the theorems rest on.
LEMMA ZoneAlways ==
    Spec => []ZoneInv
<1>1. Init => ZoneInv
  BY InitZone
<1>2. ZoneInv /\ [Next]_vars => ZoneInv'
  BY ZoneInvKept
<1> QED BY <1>1, <1>2, PTL DEF Spec

\* The zone, the clock and the reply keep their types; in particular the pool
\* never has less than nothing free nor more than it started with.
THEOREM TypeCorrect == Spec => []TypeOK
<1>1. ZoneInv => TypeOK
  <2> SUFFICES ASSUME ZoneInv
               PROVE  TypeOK
    OBVIOUS
  <2>1. Indexed(sh) /\ NodesWell(sh) /\ Accounted(sh)
    BY DEF ZoneInv, Well
  <2>2. sh.lru \in Seq(Keys) /\ DOMAIN sh.node \subseteq Keys /\ IsFiniteSet(DOMAIN sh.node)
    BY <2>1, QueueFinite DEF Indexed, Queue
  <2>3. \A k \in DOMAIN sh.node : NodeOK(sh.node[k])
    BY <2>1 DEF NodesWell, NodeWell
  <2>4. sh.free \in 0..Capacity
    <3> DEFINE f == Weights(sh)
    <3>1. DOMAIN f = DOMAIN sh.node /\ \A k \in DOMAIN f : f[k] \in Nat
      BY <2>1, UsedNat DEF Weights, NodesWell
    <3> HIDE DEF f
    <3>2. SumFunction(f) \in Nat
      BY <2>2, <3>1, SumOff
    <3>3. sh.free \in Nat /\ sh.free + SumFunction(f) = Capacity
      BY <2>1 DEF Accounted, f
    <3> QED BY <3>2, <3>3, ShDictAssumption
  <2> QED BY <2>2, <2>3, <2>4 DEF TypeOK, ZoneInv
<1> QED BY <1>1, ZoneAlways, PTL

\* Whatever is stored, revived, popped, reclaimed, evicted or flushed, the queue
\* and the tree hold the same entries and every unit of the pool is either free
\* or in use, once.
THEOREM ZoneKept == Spec => []ZoneConsistent
<1>1. ZoneInv => ZoneConsistent
  <2> SUFFICES ASSUME ZoneInv
               PROVE  ZoneConsistent
    OBVIOUS
  <2>1. IsInjective(sh.lru) /\ ToSet(sh.lru) = DOMAIN sh.node
    BY DEF ZoneInv, Well, Indexed, Queue
  <2>2. Weights(sh) = [k \in DOMAIN sh.node |-> Footprint(k)]
    BY DEF Weights, Footprint, Used
  <2>3. sh.free + SumFunction(Weights(sh)) = Capacity
    BY DEF ZoneInv, Well, Accounted
  <2> QED BY <2>1, <2>2, <2>3 DEF ZoneConsistent
<1> QED BY <1>1, ZoneAlways, PTL

\* A list whose length says it is empty is never left under a key: not by a push
\* that ran out of memory, nor by the pop of the last element.
THEOREM NoListEmpty == Spec => []NoEmptyList
<1>1. ZoneInv => NoEmptyList
  BY DEF ZoneInv, NoEmptyList, Settled, Settles
<1> QED BY <1>1, ZoneAlways, PTL

\* The step behind EvictsOldestOnly: entries go from the tail of the queue.
LEMMA OldestGo ==
    ASSUME Well(sh), NEW k \in Keys, NEW t, KeyDone(k, t),
           NEW i \in DOMAIN sh.lru, sh.lru[i] # k, ~Due(sh.node[sh.lru[i]], t),
           sh.lru[i] \notin DOMAIN sh'.node
    PROVE  /\ reply'.forcible /\ reply'.op \in {"set", "add", "replace", "incr"}
           /\ \A j \in i..Len(sh.lru) : sh.lru[j] # k => sh.lru[j] \notin DOMAIN sh'.node
<1> DEFINE q == sh.lru
           p == sh'.lru
<1>1. Queue(q) /\ ToSet(q) = DOMAIN sh.node
  BY WellQueue
<1>2. Queue(p) /\ ToSet(p) = DOMAIN sh'.node
  BY DEF KeyDone, Well, Indexed
<1>3. Start(Off(p, k), Off(q, k))
  BY DEF KeyDone, Others
<1>4. sh.lru[i] \in DOMAIN sh.node
  BY <1>1 DEF ToSet
<1>5. ~OnlyDue(sh, sh', k, t)
  BY <1>4 DEF OnlyDue
<1>6. reply'.forcible /\ reply'.op \in {"set", "add", "replace", "incr"}
  BY <1>5 DEF KeyDone
<1>7. i \in 1..Len(q)
  BY <1>1 DEF Queue
<1> HIDE DEF p
<1>8. ASSUME NEW j \in i..Len(q), q[j] # k
      PROVE  q[j] \notin DOMAIN sh'.node
  <2>1. q[j] \in ToSet(p) => q[i] \in ToSet(p)
    BY <1>1, <1>2, <1>3, <1>7, <1>8, StartKeepsOrder
  <2> QED BY <1>2, <2>1
<1> QED BY <1>6, <1>8

\* An entry that has not expired and that the operation does not name goes only
\* where memory ran out, the operation may evict and says it did, and then all
\* entries behind it in the queue have gone before it.
THEOREM EvictsOldest == Spec => EvictsOldestOnly
<1> DEFINE Oldest1 ==
             \A i \in DOMAIN sh.lru :
                LET k == sh.lru[i] IN
                (/\ reply'.op # "flush_all" /\ reply'.key # k
                 /\ Valid(k, reply'.at) /\ k \notin DOMAIN sh'.node)
                => /\ reply'.forcible
                   /\ reply'.op \in {"set", "add", "replace", "incr"}
                   /\ \A j \in i..Len(sh.lru) :
                         sh.lru[j] # reply'.key => sh.lru[j] \notin DOMAIN sh'.node
<1>1. ASSUME ZoneInv, [Next]_vars
      PROVE  Oldest1
  <2> SUFFICES ASSUME NEW i \in DOMAIN sh.lru, reply'.op # "flush_all", reply'.key # sh.lru[i],
                      Valid(sh.lru[i], reply'.at), sh.lru[i] \notin DOMAIN sh'.node
               PROVE  /\ reply'.forcible
                      /\ reply'.op \in {"set", "add", "replace", "incr"}
                      /\ \A j \in i..Len(sh.lru) :
                            sh.lru[j] # reply'.key => sh.lru[j] \notin DOMAIN sh'.node
    OBVIOUS
  <2>1. Well(sh) /\ Settled(sh)
    BY <1>1 DEF ZoneInv
  <2>2. sh.lru[i] \in DOMAIN sh.node /\ ~Due(sh.node[sh.lru[i]], reply'.at)
    BY DEF Valid
  <2>3. sh' # sh
    BY <2>2
  <2>4. ~(UNCHANGED vars \/ Tick)
    BY <2>3 DEF vars, Tick
  <2>5. ASSUME NEW t, ZoneOp(t)
        PROVE  FALSE
    <3>1. ZoneDone(t)
      BY <2>1, <2>5, ZoneOpDone
    <3>2. sh.lru[i] \in Freed(sh') /\ reply'.at = t
      BY <2>2, <3>1 DEF Freed, ZoneDone
    <3> QED BY <2>2, <3>1, <3>2 DEF ZoneDone
  <2>6. PICK t \in StartTime..MaxTime, k \in Keys : KeyOp(k, t)
    BY <1>1, <2>4, <2>5 DEF Next
  <2>7. t \in Nat
    BY ShDictAssumption DEF StartTime
  <2>8. KeyDone(k, t)
    BY <2>1, <2>6, <2>7, KeyOpDone
  <2>9. reply'.key = k /\ reply'.at = t
    BY <2>8 DEF KeyDone
  <2> QED BY <2>1, <2>2, <2>8, <2>9, OldestGo
<1> QED BY <1>1, ZoneAlways, PTL DEF Spec, EvictsOldestOnly

-----------------------------------------------------------------------------
(* The zone implements the map with expiring entries.                      *)

\* The length of every list is the number of its elements.  Only a push on an
\* expired list breaks it, and MCShDictLength shows that one.
Counted(z) ==
    \A k \in DOMAIN z.node : z.node[k].type = "list" => z.node[k].value_len = Len(z.node[k].items)

ListsCounted == Counted(sh)

\* The map a zone stands for.
AbsNode(nd) ==
    Entry([type |-> nd.type, data |-> nd.data, items |-> nd.items,
           len |-> IF nd.type = "list" THEN Len(nd.items) ELSE nd.value_len],
          nd.expires)

Abs(z) == [k \in DOMAIN z.node |-> AbsNode(z.node[k])]

LEMMA ContentsAbs ==
    Contents = Abs(sh) /\ Contents' = Abs(sh')
BY DEF Contents, Abs, AbsNode

LEMMA AbsFields ==
    ASSUME NEW nd
    PROVE  /\ AbsNode(nd).expires = nd.expires
           /\ AbsNode(nd).value.type = nd.type /\ AbsNode(nd).value.data = nd.data
           /\ AbsNode(nd).value.items = nd.items
           /\ AbsNode(nd).value.len = IF nd.type = "list" THEN Len(nd.items) ELSE nd.value_len
BY DEF AbsNode, Entry

\* The operators of the map, told in terms of zones.
LEMMA MapOperators ==
    ASSUME NEW s, NEW k, NEW t, NEW D, NEW v, NEW d
    PROVE  /\ Map!Live(s, k, t) <=> Live(s, k, t)
           /\ Map!Reclaimable(s, t) = Reclaimable(s, t)
           /\ Map!Without(s, D) = Without(s, D)
           /\ Map!With(s, k, v, d) = With(s, k, v, d)
BY DEF Map!Live, Live, Map!Reclaimable, Reclaimable, Map!Without, Without, Map!With, With,
       Map!Entry, Entry, Map!Restrict, Restrict

\* lookup finds in the zone what the map takes for live.
LEMMA AbsLive ==
    ASSUME NEW z, NEW k, NEW t \in Nat, Well(z)
    PROVE  Map!Live(Abs(z), k, t) <=> Rc(z, k, t) = "OK"
<1>1. CASE k \in DOMAIN z.node
  <2>1. z.node[k].expires \in Nat
    BY <1>1 DEF Well, NodesWell, NodeWell, NodeOK
  <2>2. k \in DOMAIN Abs(z) /\ Abs(z)[k].expires = z.node[k].expires
    BY <1>1, AbsFields DEF Abs
  <2> QED BY <1>1, <2>1, <2>2, MapOperators DEF Live, Rc
<1>2. CASE k \notin DOMAIN z.node
  BY <1>2, MapOperators DEF Live, Rc, Abs
<1> QED BY <1>1, <1>2

\* A zone without the entries in D.
LEMMA AbsDropped ==
    ASSUME NEW z, NEW y, NEW D, DOMAIN y.node = DOMAIN z.node \ D,
           \A x \in DOMAIN y.node : y.node[x] = z.node[x]
    PROVE  Abs(y) = Map!Without(Abs(z), D)
<1>1. DOMAIN Abs(z) \ D = DOMAIN y.node
  BY DEF Abs
<1>2. \A x \in DOMAIN y.node : Abs(z)[x] = AbsNode(y.node[x])
  BY DEF Abs
<1>3. Without(Abs(z), D) = [x \in DOMAIN y.node |-> Abs(z)[x]]
  BY <1>1 DEF Without, Restrict
<1>4. Abs(y) = Without(Abs(z), D)
  BY <1>2, <1>3 DEF Abs
<1> QED BY <1>4, MapOperators

\* What the zone may reclaim, the map may let go.
LEMMA AbsDue ==
    ASSUME NEW z, NEW D, D \subseteq DOMAIN z.node, NEW t, \A x \in D : Due(z.node[x], t)
    PROVE  D \subseteq Map!Reclaimable(Abs(z), t)
<1>1. \A x \in DOMAIN z.node : x \in DOMAIN Abs(z) /\ Abs(z)[x].expires = z.node[x].expires
  BY AbsFields DEF Abs
<1> QED BY <1>1, MapOperators DEF Due, Reclaimable

\* The entry of k is gone, or becomes v with expiry d.
LEMMA AbsGone ==
    ASSUME NEW z, NEW y, NEW k, SameBut(z, y, k), k \notin DOMAIN y.node
    PROVE  Abs(y) = Map!Without(Abs(z), {k})
<1>1. DOMAIN y.node = DOMAIN z.node \ {k}
  BY DEF SameBut
<1>2. \A x \in DOMAIN y.node : y.node[x] = z.node[x]
  BY <1>1 DEF SameBut
<1> QED BY <1>1, <1>2, AbsDropped

Becomes(y, k, v, d) == k \in DOMAIN y.node /\ AbsNode(y.node[k]) = Entry(v, d)

\* Setting the node of k sets the entry of k in the map.
LEMMA AbsSet ==
    ASSUME NEW z, NEW y, NEW k, NEW v, NEW d, SameBut(z, y, k), Becomes(y, k, v, d)
    PROVE  Abs(y) = Map!With(Abs(z), k, v, d)
<1>1. DOMAIN y.node \ {k} = DOMAIN z.node \ {k} /\ \A x \in DOMAIN z.node \ {k} : y.node[x] = z.node[x]
  BY DEF SameBut
<1>2. k \in DOMAIN y.node /\ AbsNode(y.node[k]) = Entry(v, d)
  BY DEF Becomes
<1>3. DOMAIN y.node = DOMAIN Abs(z) \cup {k}
  BY <1>1, <1>2 DEF Abs
<1>4. \A x \in DOMAIN y.node : AbsNode(y.node[x]) = IF x = k THEN Entry(v, d) ELSE Abs(z)[x]
  BY <1>1, <1>2 DEF Abs
<1>5. Abs(y) = With(Abs(z), k, v, d)
  BY <1>3, <1>4 DEF Abs, With
<1> QED BY <1>5, MapOperators

\* Every outcome of a store is one of the map's: stored, refused, others gone if forcible.
LEMMA StoredStores ==
    ASSUME NEW op, NEW z, NEW k, NEW nd, NEW t, NEW safe \in BOOLEAN, NEW val, NEW v, NEW d,
           Stored(op, z, sh', k, nd, t, safe, val), AbsNode(nd) = Entry(Map!Scalar(v), d)
    PROVE  Map!Store(op, Abs(z), k, v, d, t, safe, val)
<1> DEFINE y == sh'
           E == (DOMAIN z.node \ {k}) \ DOMAIN y.node
           m == [node |-> [x \in DOMAIN z.node \ E |-> z.node[x]]]
<1>1. /\ DOMAIN y.node \ {k} \subseteq DOMAIN z.node
      /\ \A x \in DOMAIN y.node \ {k} : y.node[x] = z.node[x]
      /\ k \in DOMAIN y.node => y.node[k] = nd
  BY DEF Stored, Others
<1>2. PICK f \in BOOLEAN :
          /\ safe => ~f
          /\ f \/ DOMAIN z.node \ {k} \subseteq DOMAIN y.node
          /\ \/ k \in DOMAIN y.node /\ Reply(op, k, t, "ok", val, f)
             \/ k \notin DOMAIN y.node /\ Reply(op, k, t, "no memory", <<>>, f)
  BY DEF Stored
<1>3. E \in IF safe THEN {{}} ELSE SUBSET (DOMAIN Abs(z) \ {k})
  BY <1>2 DEF Abs
<1>4. (E # {} => f) /\ (safe => ~f)
  BY <1>2
<1>5. CASE k \in DOMAIN y.node /\ Reply(op, k, t, "ok", val, f)
  <2>1. DOMAIN m.node = DOMAIN z.node \ E /\ \A x \in DOMAIN m.node : m.node[x] = z.node[x]
    OBVIOUS
  <2> HIDE DEF m
  <2>2. Abs(m) = Map!Without(Abs(z), E)
    BY <2>1, AbsDropped
  <2>3. SameBut(m, y, k)
    BY <1>1, <2>1 DEF SameBut
  <2>a. Becomes(y, k, Map!Scalar(v), d)
    BY <1>1, <1>5 DEF Becomes
  <2>4. Abs(y) = Map!With(Abs(m), k, Map!Scalar(v), d)
    BY <2>3, <2>a, AbsSet
  <2>5. Map!Reply(op, k, t, "ok", val, f)
    BY <1>5 DEF Reply, Map!Reply
  <2>6. Contents' = Map!With(Map!Without(Abs(z), E), k, Map!Scalar(v), d)
    BY <2>2, <2>4, ContentsAbs
  <2> HIDE DEF E, y
  <2> QED BY <1>3, <1>4, <2>5, <2>6 DEF Map!Store
<1>6. CASE k \notin DOMAIN y.node /\ Reply(op, k, t, "no memory", <<>>, f)
  <2>1. DOMAIN y.node = DOMAIN z.node \ (E \cup {k}) /\ \A x \in DOMAIN y.node : y.node[x] = z.node[x]
    BY <1>1, <1>6
  <2> DEFINE D == E \cup {k}
  <2> HIDE DEF y, m, D
  <2>2. Abs(y) = Map!Without(Abs(z), D)
    BY <2>1, AbsDropped DEF D
  <2>3. Contents' = Map!Without(Abs(z), E \cup {k})
    BY <2>2, ContentsAbs DEF y, D
  <2>4. Map!Reply(op, k, t, "no memory", <<>>, f)
    BY <1>6 DEF Reply, Map!Reply
  <2> HIDE DEF E
  <2> QED BY <1>3, <1>4, <2>3, <2>4 DEF Map!Store
<1> QED BY <1>2, <1>5, <1>6

\* What the lookup at the beginning of an operation comes to in the map: some
\* reclaimable entries have vanished.
LEMMA EnteredAbs ==
    ASSUME Well(sh), NEW k \in Keys, NEW t \in Nat
    PROVE  \E D \in SUBSET Map!Reclaimable(Contents, t) :
              /\ Abs(Entered(k, t)) = Map!Without(Contents, D)
              /\ Map!Live(Map!Without(Contents, D), k, t) <=> Rc(Entered(k, t), k, t) = "OK"
<1> DEFINE z == Expire1(sh, t)
           e == Entered(k, t)
           D == DOMAIN sh.node \ DOMAIN z.node
<1>1. DropsDue(sh, z, t) /\ e.node = z.node /\ Well(e)
  BY EnteredPasses
<1> HIDE DEF z, e
<1>2. /\ DOMAIN z.node \subseteq DOMAIN sh.node
      /\ \A x \in DOMAIN z.node : z.node[x] = sh.node[x]
      /\ \A x \in D : Due(sh.node[x], t)
  BY <1>1 DEF DropsDue, Drops
<1>3. DOMAIN e.node = DOMAIN sh.node \ D /\ D \subseteq DOMAIN sh.node
  BY <1>1, <1>2
<1> HIDE DEF D
<1>4. Abs(e) = Map!Without(Abs(sh), D)
  BY <1>1, <1>2, <1>3, AbsDropped
<1>5. D \subseteq Map!Reclaimable(Abs(sh), t)
  BY <1>2, <1>3, AbsDue
<1>6. Map!Live(Abs(e), k, t) <=> Rc(e, k, t) = "OK"
  BY <1>1, AbsLive
<1> QED BY <1>4, <1>5, <1>6, ContentsAbs DEF e

\* An operation that fails or answers and changes nothing but what it entered to.
LEMMA MapReplies ==
    ASSUME NEW op, NEW k, NEW t, NEW res, NEW val, NEW f, Reply(op, k, t, res, val, f)
    PROVE  Map!Reply(op, k, t, res, val, f)
BY DEF Reply, Map!Reply

\* A call that only answers maps to one that only answers.
LEMMA MapStays ==
    ASSUME NEW op, NEW k, NEW t, NEW s, Contents' = s
    PROVE  /\ \A err : Fail(op, k, t, err) => Map!Fail(op, s, k, t, err)
           /\ \A val : Return(op, k, t, val) => Map!Return(op, s, k, t, val)
BY MapReplies DEF Fail, Return, Map!Fail, Map!Return

LEMMA StoreOpsMapped ==
    ASSUME Well(sh), NEW k \in Keys, NEW t \in Nat, NEW v \in Scalars, NEW e \in ExpTimes,
           \/ Set(k, v, e, t) \/ SafeSet(k, v, e, t) \/ Replace(k, v, e, t)
           \/ Add("add", FALSE, k, v, e, t) \/ Add("safe_add", TRUE, k, v, e, t)
    PROVE  Map!StoreOp(Abs(Entered(k, t)), k, v, e, t)
<1> DEFINE z == Entered(k, t)
           nd == NewNode(v, e, t)
           d == Map!Deadline(t, e)
           s == Abs(z)
<1>1. NodeWell(nd) /\ nd.type # "list"
  BY NewNodeWell
<1>2. Well(z) /\ (Map!Live(s, k, t) <=> Rc(z, k, t) = "OK")
  BY EnteredPasses, AbsLive
<1>3. AbsNode(nd) = Entry(Map!Scalar(v), d)
  <2>1. v.type # "list"
    BY <1>1 DEF NewNode, ScalarNode
  <2> QED BY <2>1 DEF NewNode, ScalarNode, AbsNode, Map!Scalar, Deadline, Map!Deadline
<1> HIDE DEF z, nd, d, s
<1>4. ASSUME NEW op, NEW safe \in BOOLEAN, Put(op, z, k, nd, t, safe, <<>>)
      PROVE  Map!Store(op, s, k, v, d, t, safe, <<>>)
  <2>1. Stored(op, z, sh', k, nd, t, safe, <<>>)
    BY <1>1, <1>2, <1>4, PutStored
  <2> QED BY <1>3, <2>1, StoredStores DEF s
<1>5. sh' = z => Contents' = s
  BY ContentsAbs DEF s
<1>6. CASE Set(k, v, e, t)
  <2>1. Put("set", z, k, nd, t, FALSE, <<>>)
    BY <1>6 DEF Set, z, nd
  <2>2. Map!Store("set", s, k, v, d, t, FALSE, <<>>)
    BY <1>4, <2>1
  <2> QED BY <2>2 DEF Map!StoreOp, d, s, z
<1>7. CASE SafeSet(k, v, e, t)
  <2>1. Put("safe_set", z, k, nd, t, TRUE, <<>>)
    BY <1>7 DEF SafeSet, z, nd
  <2>2. Map!Store("safe_set", s, k, v, d, t, TRUE, <<>>)
    BY <1>4, <2>1
  <2> QED BY <2>2 DEF Map!StoreOp, d, s, z
<1>8. CASE Replace(k, v, e, t)
  <2>1. CASE Rc(z, k, t) # "OK" /\ sh' = z /\ Fail("replace", k, t, "not found")
    <3>1. ~Map!Live(s, k, t) /\ Map!Fail("replace", s, k, t, "not found")
      BY <1>2, <1>5, <2>1, MapStays
    <3> QED BY <3>1 DEF Map!StoreOp, s, z
  <2>2. CASE Rc(z, k, t) = "OK" /\ Put("replace", z, k, nd, t, FALSE, <<>>)
    <3>1. Map!Live(s, k, t) /\ Map!Store("replace", s, k, v, d, t, FALSE, <<>>)
      BY <1>2, <1>4, <2>2
    <3> QED BY <3>1 DEF Map!StoreOp, d, s, z
  <2> QED BY <1>8, <2>1, <2>2 DEF Replace, z, nd
<1>9. ASSUME NEW op \in {"add", "safe_add"}, NEW safe \in BOOLEAN, safe <=> op = "safe_add",
             Add(op, safe, k, v, e, t)
      PROVE  Map!StoreOp(Abs(Entered(k, t)), k, v, e, t)
  <2>1. CASE Rc(z, k, t) = "OK" /\ sh' = z /\ Fail(op, k, t, "exists")
    <3>1. Map!Live(s, k, t) /\ Map!Fail(op, s, k, t, "exists")
      BY <1>2, <1>5, <2>1, MapStays
    <3> QED BY <3>1 DEF Map!StoreOp, s, z
  <2>2. CASE Rc(z, k, t) # "OK" /\ Put(op, z, k, nd, t, safe, <<>>)
    <3>1. ~Map!Live(s, k, t) /\ Map!Store(op, s, k, v, d, t, safe, <<>>)
      BY <1>2, <1>4, <2>2
    <3>2. (op = "add" /\ safe = FALSE) \/ (op = "safe_add" /\ safe = TRUE)
      BY <1>9
    <3> QED BY <3>1, <3>2 DEF Map!StoreOp, d, s, z
  <2> QED BY <1>9, <2>1, <2>2 DEF Add, z, nd
<1> QED BY <1>6, <1>7, <1>8, <1>9

LEMMA DeleteMapped ==
    ASSUME Well(sh), NEW k \in Keys, NEW t \in Nat, Delete(k, t)
    PROVE  Map!DeleteOp(Abs(Entered(k, t)), k, t)
<1> DEFINE z == Entered(k, t)
           y == RemoveIfPresent(z, k)
<1>1. Well(z)
  BY EnteredPasses
<1>2. SameBut(z, y, k) /\ k \notin DOMAIN y.node
  BY <1>1, RemoveIfPresentWell DEF Turns
<1>3. sh' = y /\ Return("delete", k, t, <<>>)
  BY DEF Delete
<1> HIDE DEF z, y
<1>4. Contents' = Map!Without(Abs(z), {k})
  BY <1>2, <1>3, AbsGone, ContentsAbs
<1>5. Map!Return("delete", Map!Without(Abs(z), {k}), k, t, <<>>)
  BY <1>3, <1>4, MapStays
<1> QED BY <1>5 DEF Map!DeleteOp, z

\* What the map holds under a key that is there.
LEMMA AbsAt ==
    ASSUME NEW z, NEW k \in DOMAIN z.node
    PROVE  LET nd == z.node[k]
               v == Abs(z)[k].value IN
           /\ k \in DOMAIN Abs(z) /\ Abs(z)[k].expires = nd.expires
           /\ Map!IsList(v) <=> nd.type = "list"
           /\ nd.type # "list" => Map!Value(v) = Value(nd)
           /\ v.type = nd.type /\ v.data = nd.data /\ v.items = nd.items
BY AbsFields DEF Abs, Map!IsList, Map!Value, Value

LEMMA GetMapped ==
    ASSUME Well(sh), NEW k \in Keys, NEW t \in Nat, Get(k, t)
    PROVE  Map!ReadOp(Abs(Entered(k, t)), k, t)
<1> DEFINE z == Entered(k, t)
           s == Abs(z)
           nd == z.node[k]
           v == s[k].value
<1>1. Well(z) /\ (Map!Live(s, k, t) <=> Rc(z, k, t) = "OK")
  BY EnteredPasses, AbsLive
<1>2. sh' = z
  BY DEF Get
<1>3. Contents' = s
  BY <1>2, ContentsAbs
<1>4. CASE Rc(z, k, t) # "OK" /\ Return("get", k, t, <<>>)
  <2> HIDE DEF s
  <2>1. ~Map!Live(s, k, t) /\ Map!Return("get", s, k, t, <<>>)
    BY <1>1, <1>3, <1>4, MapStays
  <2> QED BY <2>1 DEF Map!ReadOp, s
<1>5. CASE Rc(z, k, t) = "OK" /\ nd.type = "list" /\ Fail("get", k, t, "value is a list")
  <2>1. k \in DOMAIN z.node
    BY <1>5, RcFound
  <2>2. Map!IsList(v)
    BY <1>5, <2>1, AbsAt
  <2> HIDE DEF s
  <2>3. Map!Live(s, k, t) /\ Map!Fail("get", s, k, t, "value is a list")
    BY <1>1, <1>3, <1>5, MapStays
  <2> QED BY <2>2, <2>3 DEF Map!ReadOp, s
<1>6. CASE Rc(z, k, t) = "OK" /\ nd.type # "list" /\ Return("get", k, t, <<Value(nd)>>)
  <2>1. k \in DOMAIN z.node
    BY <1>6, RcFound
  <2>2. ~Map!IsList(v) /\ Map!Value(v) = Value(nd)
    BY <1>6, <2>1, AbsAt
  <2> HIDE DEF s
  <2>3. Map!Live(s, k, t) /\ Map!Return("get", s, k, t, <<Map!Value(v)>>)
    BY <1>1, <1>3, <1>6, <2>2, MapStays
  <2> QED BY <2>2, <2>3 DEF Map!ReadOp, s
<1> QED BY <1>4, <1>5, <1>6 DEF Get

\* Reclaiming and looking up change the length of no list.
LEMMA EnteredCounted ==
    ASSUME Well(sh), Counted(sh), NEW k \in Keys, NEW t
    PROVE  Counted(Entered(k, t))
<1>1. DropsDue(sh, Expire1(sh, t), t) /\ Entered(k, t).node = Expire1(sh, t).node
  BY EnteredPasses
<1> QED BY <1>1 DEF DropsDue, Drops, Counted

LEMMA LLenMapped ==
    ASSUME Well(sh), Counted(sh), NEW k \in Keys, NEW t \in Nat, LLen(k, t)
    PROVE  Map!ReadOp(Abs(Entered(k, t)), k, t)
<1> DEFINE z == Entered(k, t)
           s == Abs(z)
           nd == z.node[k]
           v == s[k].value
<1>1. Well(z) /\ (Map!Live(s, k, t) <=> Rc(z, k, t) = "OK") /\ Counted(z)
  BY EnteredPasses, AbsLive, EnteredCounted
<1>2. sh' = z
  BY DEF LLen
<1>3. Contents' = s
  BY <1>2, ContentsAbs
<1>4. \A n : Number(n) = Map!Number(n)
  BY DEF Number, Map!Number, NumLen
<1>5. CASE Rc(z, k, t) # "OK" /\ Return("llen", k, t, <<Number(0)>>)
  <2> HIDE DEF s
  <2>1. ~Map!Live(s, k, t) /\ Map!Return("llen", s, k, t, <<Map!Number(0)>>)
    BY <1>1, <1>3, <1>4, <1>5, MapStays
  <2> QED BY <2>1 DEF Map!ReadOp, s
<1>6. CASE Rc(z, k, t) = "OK" /\ nd.type # "list" /\ Fail("llen", k, t, "value not a list")
  <2>1. k \in DOMAIN z.node
    BY <1>6, RcFound
  <2>2. ~Map!IsList(v)
    BY <1>6, <2>1, AbsAt
  <2> HIDE DEF s
  <2>3. Map!Live(s, k, t) /\ Map!Fail("llen", s, k, t, "value not a list")
    BY <1>1, <1>3, <1>6, MapStays
  <2> QED BY <2>2, <2>3 DEF Map!ReadOp, s
<1>7. CASE Rc(z, k, t) = "OK" /\ nd.type = "list" /\ Return("llen", k, t, <<Number(nd.value_len)>>)
  <2>1. k \in DOMAIN z.node
    BY <1>7, RcFound
  <2>2. Map!IsList(v) /\ v.items = nd.items /\ nd.value_len = Len(nd.items)
    BY <1>1, <1>7, <2>1, AbsAt DEF Counted
  <2>3. Number(nd.value_len) = Map!Number(Len(v.items))
    BY <1>4, <2>2
  <2> HIDE DEF s
  <2>4. Map!Live(s, k, t) /\ Map!Return("llen", s, k, t, <<Map!Number(Len(v.items))>>)
    BY <1>1, <1>3, <1>7, <2>3, MapStays
  <2> QED BY <2>2, <2>4 DEF Map!ReadOp, s
<1> QED BY <1>5, <1>6, <1>7 DEF LLen

\* get_stale reclaims nothing: it reads the map as it is.
LEMMA GetStaleMapped ==
    ASSUME Well(sh), NEW k \in Keys, NEW t \in Nat, GetStale(k, t)
    PROVE  Map!ReadOp(Abs(sh), k, t)
<1> DEFINE z == Looked(sh, k)
           s == Abs(sh)
           nd == sh.node[k]
           v == s[k].value
           rc == Rc(sh, k, t)
<1>1. Well(sh) /\ (Map!Live(s, k, t) <=> rc = "OK")
  BY AbsLive
<1>2. sh' = z /\ z.node = sh.node
  BY LookedWell DEF GetStale
<1>3. Contents' = s
  BY <1>2, ContentsAbs DEF Abs
<1>4. Rc(z, k, t) = rc
  BY <1>2 DEF Rc
<1>5. rc \in {"OK", "DONE", "DECLINED"} /\ (rc = "DECLINED" <=> k \notin DOMAIN sh.node)
  BY RcFound
<1>6. DOMAIN s = DOMAIN sh.node
  BY DEF Abs
<1>7. CASE rc = "DECLINED" /\ Return("get_stale", k, t, <<>>)
  <2> HIDE DEF s, rc
  <2>1. ~Map!Live(s, k, t) /\ k \notin DOMAIN s /\ Map!Return("get_stale", s, k, t, <<>>)
    BY <1>1, <1>3, <1>5, <1>6, <1>7, MapStays
  <2> QED BY <2>1 DEF Map!ReadOp, s
<1>8. CASE rc # "DECLINED" /\ nd.type = "list" /\ Fail("get_stale", k, t, "value is a list")
  <2>1. k \in DOMAIN s /\ Map!IsList(v)
    BY <1>5, <1>8, AbsAt
  <2> HIDE DEF s, rc
  <2>2. Map!Fail("get_stale", s, k, t, "value is a list")
    BY <1>3, <1>8, MapStays
  <2> QED BY <2>1, <2>2 DEF Map!ReadOp, s
<1>9. CASE /\ rc # "DECLINED" /\ nd.type # "list"
           /\ Reply("get_stale", k, t, IF rc = "DONE" THEN "stale" ELSE "ok", <<Value(nd)>>, FALSE)
  <2>1. k \in DOMAIN s /\ ~Map!IsList(v) /\ Map!Value(v) = Value(nd)
    BY <1>5, <1>9, AbsAt
  <2> HIDE DEF s, rc
  <2>2. CASE rc = "DONE"
    <3>1. Map!Reply("get_stale", k, t, "stale", <<Map!Value(v)>>, FALSE) /\ ~Map!Live(s, k, t)
      BY <1>1, <1>9, <2>1, <2>2, MapReplies
    <3> QED BY <1>3, <2>1, <3>1 DEF Map!ReadOp, s
  <2>3. CASE rc = "OK"
    <3>1. Map!Reply("get_stale", k, t, "ok", <<Map!Value(v)>>, FALSE) /\ Map!Live(s, k, t)
      BY <1>1, <1>9, <2>1, <2>3, MapReplies
    <3>2. Map!Return("get_stale", s, k, t, <<Map!Value(v)>>)
      BY <1>3, <3>1 DEF Map!Return
    <3> QED BY <2>1, <3>1, <3>2 DEF Map!ReadOp, s
  <2> QED BY <1>5, <1>9, <2>2, <2>3
<1> QED BY <1>2, <1>4, <1>7, <1>8, <1>9 DEF GetStale

LEMMA IncrMapped ==
    ASSUME Well(sh), NEW k \in Keys, NEW t \in Nat, NEW n \in Increments, NEW init,
           init # <<>> => init[1] = 0, Incr(k, n, init, t)
    PROVE  Map!IncrOp(Abs(Entered(k, t)), k, n, t)
<1> DEFINE z == Entered(k, t)
           s == Abs(z)
           old == z.node[k]
           v == s[k].value
           nd == [old EXCEPT !.data = @ + n]
           new == ScalarNode(Number(n + init[1]), 0)
<1>1. Well(z) /\ (Map!Live(s, k, t) <=> Rc(z, k, t) = "OK")
  BY EnteredPasses, AbsLive
<1>2. \A i : Number(i) = Map!Number(i)
  BY DEF Number, Map!Number, NumLen
<1>3. sh' = z => Contents' = s
  BY ContentsAbs
<1>4. CASE Rc(z, k, t) = "OK" /\ old.type # "number" /\ sh' = z /\ Fail("incr", k, t, "not a number")
  <2>1. k \in DOMAIN z.node
    BY <1>4, RcFound
  <2>2. v.type # "number"
    BY <1>4, <2>1, AbsAt
  <2> HIDE DEF s
  <2>3. Map!Live(s, k, t) /\ Map!Fail("incr", s, k, t, "not a number")
    BY <1>1, <1>3, <1>4, MapStays
  <2> QED BY <2>2, <2>3 DEF Map!IncrOp, s
<1>5. CASE /\ Rc(z, k, t) = "OK" /\ old.type = "number" /\ sh' = Update(z, k, nd)
           /\ Return("incr", k, t, <<Number(old.data + n)>>)
  <2>1. k \in DOMAIN z.node
    BY <1>5, RcFound
  <2>2. NodeWell(old) /\ v.type = "number" /\ v.data = old.data /\ s[k].expires = old.expires
    BY <1>1, <1>5, <2>1, AbsAt DEF Well, NodesWell
  <2>3. /\ DOMAIN nd = {"type", "data", "value_len", "items", "expires"}
        /\ nd.type = "number" /\ nd.data = old.data + n /\ nd.value_len = NumLen
        /\ nd.items = <<>> /\ nd.expires = old.expires
    BY <1>5, <2>2 DEF NodeWell, NodeOK
  <2> DEFINE sum == Map!Number(v.data + n)
             y == Update(z, k, nd)
  <2>4. AbsNode(nd) = Entry(Map!Scalar(sum), s[k].expires)
    BY <2>2, <2>3 DEF AbsNode, Map!Scalar, Map!Number, NumLen
  <2>5. NodeWell(nd) /\ Used(nd) = Used(old)
    BY <1>5, <2>2, <2>3 DEF NodeWell, NodeOK, Used, NodeSize
  <2> HIDE DEF nd
  <2>6. SameBut(z, y, k) /\ k \in DOMAIN y.node /\ y.node[k] = nd
    BY <1>1, <2>1, <2>5, UpdateWell DEF Turns
  <2>7. sh' = y /\ Return("incr", k, t, <<sum>>)
    BY <1>2, <1>5, <2>2
  <2> HIDE DEF y, z, sum
  <2>a. Becomes(y, k, Map!Scalar(sum), s[k].expires)
    BY <2>4, <2>6 DEF Becomes
  <2>b. Abs(y) = Map!With(s, k, Map!Scalar(sum), s[k].expires)
    BY <2>6, <2>a, AbsSet
  <2> HIDE DEF s
  <2>8. Contents' = Map!With(s, k, Map!Scalar(sum), s[k].expires)
    BY <2>7, <2>b, ContentsAbs
  <2> DEFINE w == Map!With(s, k, Map!Scalar(sum), s[k].expires)
  <2> HIDE DEF w
  <2>9. Map!Return("incr", w, k, t, <<sum>>)
    BY <2>7, <2>8, MapStays DEF w
  <2> QED BY <1>1, <1>5, <2>2, <2>9 DEF Map!IncrOp, s, z, sum, w
<1>6. CASE Rc(z, k, t) # "OK" /\ sh' = z /\ Fail("incr", k, t, "not found")
  <2> HIDE DEF s
  <2>1. ~Map!Live(s, k, t) /\ Map!Fail("incr", s, k, t, "not found")
    BY <1>1, <1>3, <1>6, MapStays
  <2> QED BY <2>1 DEF Map!IncrOp, s
<1>7. CASE /\ Rc(z, k, t) # "OK" /\ init # <<>>
           /\ Put("incr", z, k, new, t, FALSE, <<Number(n + init[1])>>)
  <2>1. init[1] = 0 /\ n + init[1] = n
    BY <1>7, ShDictAssumption
  <2>2. NodeWell(new) /\ new.type # "list"
    BY NumberNodeWell
  <2>3. AbsNode(new) = Entry(Map!Scalar(Map!Number(n)), 0)
    BY <1>2, <2>1 DEF ScalarNode, AbsNode, Map!Scalar, Map!Number
  <2>4. <<Number(n + init[1])>> = <<Map!Number(n)>>
    BY <1>2, <2>1
  <2> HIDE DEF new, z
  <2>5. Stored("incr", z, sh', k, new, t, FALSE, <<Map!Number(n)>>)
    BY <1>1, <1>7, <2>2, <2>4, PutStored
  <2>6. Map!Store("incr", s, k, Map!Number(n), 0, t, FALSE, <<Map!Number(n)>>)
    BY <2>3, <2>5, StoredStores
  <2> QED BY <1>1, <1>7, <2>6 DEF Map!IncrOp, z
<1> QED BY <1>4, <1>5, <1>6, <1>7 DEF Incr, IncrLive, IncrDead

\* lpush and rpush add to the list of the map, start one, or run out of memory.
LEMMA PushMapped ==
    ASSUME Well(sh), Settled(sh), Counted(sh'), NEW k \in Keys, NEW t \in Nat, NEW v \in Elements,
           NEW side \in {"left", "right"}, Push(k, v, side, t)
    PROVE  Map!PushOp(Abs(Entered(k, t)), k, v, t)
<1> DEFINE z == Entered(k, t)
           s == Abs(z)
           y == ListReady(z, k, t)
           live == Map!Live(s, k, t)
           old == IF live THEN s[k].value.items ELSE <<>>
           d == IF live THEN s[k].expires ELSE 0
<1>1. Well(z) /\ (live <=> Rc(z, k, t) = "OK") /\ Settled(z)
  BY EnteredPasses, AbsLive, EnteredSettled
<1>2. Rc(z, k, t) = "OK" => k \in DOMAIN z.node
  BY RcFound
<1>3. CASE Rc(z, k, t) = "OK" /\ z.node[k].type # "list" /\ sh' = z /\ Fail("push", k, t, "value not a list")
  <2>1. ~Map!IsList(s[k].value)
    BY <1>2, <1>3, AbsAt
  <2>2. Contents' = s
    BY <1>3, ContentsAbs
  <2> HIDE DEF s
  <2>3. live /\ Map!Fail("push", s, k, t, "value not a list")
    BY <1>1, <1>3, <2>2, MapStays
  <2> QED BY <2>1, <2>3 DEF Map!PushOp, s
<1>4. ASSUME Rc(z, k, t) = "OK" => z.node[k].type = "list"
      PROVE  /\ Turns(z, y, k) /\ Well(y)
             /\ live => y.node = z.node /\ k \in DOMAIN y.node
             /\ k \in DOMAIN y.node => y.node[k].type = "list"
             /\ ~live /\ ~Revives(z, k, t) /\ k \in DOMAIN y.node => y.node[k] = ListNode
             /\ Revives(z, k, t) =>
                  k \in DOMAIN y.node /\ y.node[k].items = <<>> /\ y.node[k].value_len > 0
             /\ ~(live /\ ~Map!IsList(s[k].value))
  <2>1. Revives(z, k, t) => z.node[k].value_len > 0
    BY <1>1 DEF Revives, Settled, Settles
  <2>2. live => Map!IsList(s[k].value)
    BY <1>1, <1>2, <1>4, AbsAt
  <2>3. /\ Turns(z, y, k) /\ Well(y)
        /\ k \in DOMAIN y.node => y.node[k].type = "list"
        /\ Rc(z, k, t) = "OK" => y.node = z.node /\ k \in DOMAIN y.node
        /\ Rc(z, k, t) # "OK" /\ ~Revives(z, k, t) /\ k \in DOMAIN y.node => y.node[k] = ListNode
        /\ Revives(z, k, t) =>
             k \in DOMAIN y.node /\ y.node[k].items = <<>> /\ y.node[k].value_len = z.node[k].value_len
    <3> HIDE DEF z
    <3> QED BY <1>1, <1>4, ListReadyWell
  <2> HIDE DEF y, live, z, s
  <2> QED BY <1>1, <2>1, <2>2, <2>3
<1>5. CASE /\ Rc(z, k, t) = "OK" => z.node[k].type = "list"
           /\ k \in DOMAIN y.node /\ Fits(y, ElementSize(v))
           /\ sh' = PushNode(y, k, v, side)
           /\ Return("push", k, t, <<Number(y.node[k].value_len + 1)>>)
  <2> DEFINE x == PushNode(y, k, v, side)
             nd == x.node[k]
             items == Pushed(y.node[k].items, v, side)
  <2>1. live => /\ y.node[k] = z.node[k] /\ old = z.node[k].items /\ d = z.node[k].expires
    BY <1>1, <1>2, <1>4, <1>5, AbsAt
  <2> HIDE DEF y, s, z
  <2>2. Turns(z, y, k) /\ Well(y) /\ y.node[k].type = "list"
    BY <1>4, <1>5
  <2>3. /\ Turns(y, x, k) /\ Well(x) /\ k \in DOMAIN x.node
        /\ nd.type = "list" /\ nd.data = 0 /\ nd.items = items
        /\ nd.value_len = y.node[k].value_len + 1 /\ nd.expires = y.node[k].expires
    BY <1>5, <2>2, PushNodeWell
  <2>4. sh' = x
    BY <1>5
  <2> HIDE DEF x, items
  <2>5. nd.value_len = Len(items)
    BY <2>3, <2>4 DEF Counted
  <2>6. ~Revives(z, k, t)
    <3> SUFFICES ASSUME Revives(z, k, t)
                 PROVE  FALSE
      OBVIOUS
    <3>1. y.node[k].items = <<>> /\ y.node[k].value_len > 0 /\ y.node[k].value_len \in Nat
      BY <1>4, <1>5, <2>2 DEF Well, NodesWell, NodeWell, NodeOK
    <3>2. Len(<<v>> \o <<>>) = 1 /\ Len(Append(<<>>, v)) = 1
      OBVIOUS
    <3>3. Len(items) = 1
      BY <3>1, <3>2 DEF items, Pushed
    <3> QED BY <2>3, <2>5, <3>1, <3>3
  <2>7. y.node[k].items = old /\ y.node[k].expires = d
    <3>1. CASE live
      BY <2>1, <3>1
    <3>2. CASE ~live
      BY <1>4, <1>5, <2>6, <3>2 DEF ListNode
    <3> QED BY <3>1, <3>2
  <2> HIDE DEF live, old, d
  <2>8. items \in {<<v>> \o old, Append(old, v)}
    BY <2>7 DEF items, Pushed
  <2>9. AbsNode(nd) = Entry(Map!List(items), d)
    BY <2>3, <2>7 DEF AbsNode, Map!List
  <2>10. SameBut(z, x, k)
    <3>1. Turns(z, x, k)
      BY <1>1, <2>2, <2>3, TurnsTransitive
    <3> QED BY <3>1 DEF Turns
  <2> DEFINE w == Map!With(s, k, Map!List(items), d)
  <2>a. Becomes(x, k, Map!List(items), d)
    BY <2>3, <2>9 DEF Becomes
  <2>11. Abs(x) = w
    BY <2>10, <2>a, AbsSet DEF s
  <2>12. Return("push", k, t, <<Map!Number(Len(items))>>)
    <3>1. Number(y.node[k].value_len + 1) = Map!Number(Len(items))
      BY <2>3, <2>5 DEF Number, Map!Number, NumLen
    <3> QED BY <1>5, <3>1
  <2>13. Contents' = w
    BY <2>4, <2>11, ContentsAbs
  <2> HIDE DEF w, nd
  <2>14. Map!Return("push", w, k, t, <<Map!Number(Len(items))>>)
    BY <2>12, <2>13, MapStays
  <2>15. Map!Return("push", Map!With(s, k, Map!List(items), d), k, t, <<Map!Number(Len(items))>>)
    BY <2>14 DEF w
  <2>16. \E its \in {<<v>> \o old, Append(old, v)} :
           Map!Return("push", Map!With(s, k, Map!List(its), d), k, t, <<Map!Number(Len(its))>>)
    BY <2>8, <2>15
  <2>17. ~(live /\ ~Map!IsList(s[k].value))
    BY <1>4, <1>5
  <2> QED BY <2>16, <2>17 DEF Map!PushOp, live, old, d, s, z
<1>6. CASE /\ Rc(z, k, t) = "OK" => z.node[k].type = "list"
           /\ sh' = IF k \in DOMAIN y.node THEN DropEmpty(y, k) ELSE y
           /\ Fail("push", k, t, "no memory")
  <2> DEFINE x == IF k \in DOMAIN y.node THEN DropEmpty(y, k) ELSE y
             r == IF live THEN s ELSE Map!Without(s, {k})
  <2>1. live => y.node = z.node /\ k \in DOMAIN y.node /\ y.node[k].value_len # 0
    <3>1. live => k \in DOMAIN z.node /\ z.node[k].type = "list"
      BY <1>1, <1>2, <1>6
    <3>2. live => y.node = z.node
      BY <1>4, <1>6
    <3> HIDE DEF live, y, z
    <3>3. live => z.node[k].value_len \in Nat /\ z.node[k].value_len > 0
      BY <1>1, <3>1 DEF Settled, Settles, Well, NodesWell, NodeWell, NodeOK
    <3> QED BY <3>1, <3>2, <3>3
  <2>a. ~live /\ ~Revives(z, k, t) /\ k \in DOMAIN y.node => y.node[k].value_len = 0
    <3>1. ~live /\ ~Revives(z, k, t) /\ k \in DOMAIN y.node => y.node[k] = ListNode
      BY <1>4, <1>6
    <3> QED BY <3>1 DEF ListNode
  <2> HIDE DEF y, s, z
  <2>2. Turns(z, y, k) /\ Well(y) /\ (k \in DOMAIN y.node => y.node[k].type = "list")
    BY <1>4, <1>6
  <2>3. /\ Turns(y, x, k) /\ Well(x)
        /\ k \in DOMAIN y.node /\ y.node[k].value_len # 0 => x = y
        /\ k \in DOMAIN y.node /\ y.node[k].value_len = 0 => k \notin DOMAIN x.node
        /\ k \notin DOMAIN y.node => x = y
    <3>1. CASE k \in DOMAIN y.node
      BY <2>2, <3>1, DropEmptyWell
    <3>2. CASE k \notin DOMAIN y.node
      BY <2>2, <3>2, TurnsSelf
    <3> QED BY <3>1, <3>2
  <2>4. sh' = x
    BY <1>6
  <2> HIDE DEF x
  <2>5. SameBut(z, x, k)
    <3>1. Turns(z, x, k)
      BY <1>1, <2>2, <2>3, TurnsTransitive
    <3> QED BY <3>1 DEF Turns
  <2>6. ~Revives(z, k, t)
    <3> SUFFICES ASSUME Revives(z, k, t)
                 PROVE  FALSE
      OBVIOUS
    <3>1. k \in DOMAIN y.node /\ y.node[k].items = <<>> /\ y.node[k].value_len > 0
      BY <1>4, <1>6
    <3>2. x = y /\ y.node[k].type = "list"
      BY <2>2, <2>3, <3>1
    <3>3. y.node[k].value_len = Len(<<>>)
      BY <2>4, <3>1, <3>2 DEF Counted
    <3>4. Len(<<>>) = 0
      OBVIOUS
    <3> QED BY <3>1, <3>3, <3>4
  <2>7. CASE live
    <3>1. x = y /\ y.node = z.node
      BY <2>1, <2>3, <2>7
    <3>2. Abs(x) = s
      BY <3>1 DEF Abs, s
    <3>3. Contents' = s
      BY <2>4, <3>2, ContentsAbs
    <3>4. Map!Fail("push", s, k, t, "no memory")
      BY <1>6, <3>3, MapStays
    <3> HIDE DEF live
    <3>5. live /\ Map!IsList(s[k].value)
      BY <1>4, <1>6, <2>7
    <3> QED BY <3>4, <3>5 DEF Map!PushOp, live, s, z
  <2>8. CASE ~live
    <3>1. k \notin DOMAIN x.node
      BY <2>3, <2>6, <2>8, <2>a
    <3> DEFINE w == Map!Without(s, {k})
    <3>2. Abs(x) = w
      BY <2>5, <3>1, AbsGone DEF s
    <3>3. Contents' = w
      BY <2>4, <3>2, ContentsAbs
    <3> HIDE DEF w
    <3>4. Map!Fail("push", w, k, t, "no memory")
      BY <1>6, <3>3, MapStays
    <3> QED BY <2>8, <3>4 DEF Map!PushOp, live, s, z, w
  <2> QED BY <2>7, <2>8
<1> QED BY <1>3, <1>5, <1>6 DEF Push

\* lpop and rpop take from the list of the map, and the key goes with the last element.
LEMMA PopMapped ==
    ASSUME Well(sh), Settled(sh), Counted(sh), NEW k \in Keys, NEW t \in Nat, NEW side, Pop(k, side, t)
    PROVE  Map!PopOp(Abs(Entered(k, t)), k, t)
<1> DEFINE z == Entered(k, t)
           s == Abs(z)
           nd == z.node[k]
           live == Map!Live(s, k, t)
<1>1. Well(z) /\ (live <=> Rc(z, k, t) = "OK") /\ Counted(z)
  BY EnteredPasses, AbsLive, EnteredCounted
<1>2. Rc(z, k, t) = "OK" => k \in DOMAIN z.node
  BY RcFound
<1>3. sh' = z => Contents' = s
  BY ContentsAbs
<1>4. CASE Rc(z, k, t) # "OK" /\ sh' = z /\ Return("pop", k, t, <<>>)
  <2> HIDE DEF s
  <2>1. ~live /\ Map!Return("pop", s, k, t, <<>>)
    BY <1>1, <1>3, <1>4, MapStays
  <2> QED BY <2>1 DEF Map!PopOp, s
<1>5. CASE Rc(z, k, t) = "OK" /\ nd.type # "list" /\ sh' = z /\ Fail("pop", k, t, "value not a list")
  <2>1. ~Map!IsList(s[k].value)
    BY <1>2, <1>5, AbsAt
  <2> HIDE DEF s
  <2>2. live /\ Map!Fail("pop", s, k, t, "value not a list")
    BY <1>1, <1>3, <1>5, MapStays
  <2> QED BY <2>1, <2>2 DEF Map!PopOp, s
<1>6. CASE /\ Rc(z, k, t) = "OK" /\ nd.type = "list" /\ nd.items # <<>>
           /\ sh' = PopNode(z, k, side)
           /\ Return("pop", k, t, <<IF side = "left" THEN Head(nd.items) ELSE Last(nd.items)>>)
  <2> DEFINE items == s[k].value.items
             d == s[k].expires
             e == IF side = "left" THEN Head(items) ELSE Last(items)
             rest == IF side = "left" THEN Tail(items) ELSE Front(items)
             y == PopNode(z, k, side)
  <2>1. /\ k \in DOMAIN z.node /\ Map!IsList(s[k].value) /\ items = nd.items /\ d = nd.expires
        /\ nd.value_len = Len(items)
    BY <1>1, <1>2, <1>6, AbsAt DEF Counted
  <2>2. items \in Seq(Elements) /\ items # <<>>
    BY <1>1, <1>6, <2>1 DEF Well, NodesWell, NodeWell, NodeOK
  <2> HIDE DEF z, s
  <2>3. /\ Turns(z, y, k) /\ Well(y)
        /\ k \notin DOMAIN y.node <=> nd.value_len = 1
        /\ k \in DOMAIN y.node =>
             /\ y.node[k].type = "list" /\ y.node[k].data = 0
             /\ y.node[k].items = rest /\ y.node[k].expires = d
    <3> DEFINE left == IF side = "left" THEN Tail(z.node[k].items) ELSE Front(z.node[k].items)
    <3>1. /\ Turns(z, y, k) /\ Well(y)
          /\ k \notin DOMAIN y.node <=> z.node[k].value_len = 1
          /\ k \in DOMAIN y.node =>
               /\ y.node[k].type = "list" /\ y.node[k].data = 0
               /\ y.node[k].items = left /\ y.node[k].expires = z.node[k].expires
      BY <1>1, <1>6, <2>1, PopNodeWell
    <3>2. left = rest
      BY <2>1
    <3> HIDE DEF left, rest, y, items, d
    <3> QED BY <2>1, <3>1, <3>2
  <2>4. sh' = y /\ Return("pop", k, t, <<e>>) /\ live
    BY <1>1, <1>6, <2>1
  <2> HIDE DEF items, d, y, live, nd
  <2>5. rest = <<>> <=> nd.value_len = 1
    <3>1. Len(items) \in Nat /\ Len(items) # 0
      BY <2>2
    <3>2. Tail(items) \in Seq(Elements) /\ Len(Tail(items)) = Len(items) - 1
      BY <2>2
    <3>3. Front(items) \in Seq(Elements)
      BY <2>2, ItemsSizeLess
    <3>4. Len(Front(items)) = Len(items) - 1
      <4> DEFINE n == Len(items) - 1
      <4>1. n \in Nat /\ \A i \in 1..n : items[i] \in Elements
        BY <2>2, <3>1
      <4>2. Front(items) = SubSeq(items, 1, n)
        BY DEF Front
      <4> HIDE DEF n
      <4>3. Len(SubSeq(items, 1, n)) = n
        BY <4>1, <2>2, <3>1
      <4> QED BY <4>2, <4>3 DEF n
    <3>5. rest \in Seq(Elements) /\ Len(rest) = Len(items) - 1
      BY <3>2, <3>3, <3>4
    <3> HIDE DEF rest
    <3>6. rest = <<>> <=> Len(rest) = 0
      BY <3>5
    <3> QED BY <2>1, <3>1, <3>5, <3>6
  <2> DEFINE w == IF rest = <<>> THEN Map!Without(s, {k}) ELSE Map!With(s, k, Map!List(rest), d)
  <2>6. Abs(y) = w
    <3> HIDE DEF rest
    <3>1. SameBut(z, y, k)
      BY <2>3 DEF Turns
    <3>2. CASE rest = <<>>
      <4>1. k \notin DOMAIN y.node
        BY <2>3, <2>5, <3>2
      <4> QED BY <3>1, <3>2, <4>1, AbsGone DEF s
    <3>3. CASE rest # <<>>
      <4>1. k \in DOMAIN y.node /\ AbsNode(y.node[k]) = Entry(Map!List(rest), d)
        BY <2>3, <2>5, <3>3 DEF AbsNode, Map!List
      <4>2. Becomes(y, k, Map!List(rest), d)
        BY <4>1 DEF Becomes
      <4>3. Abs(y) = Map!With(s, k, Map!List(rest), d)
        BY <3>1, <4>2, AbsSet DEF s
      <4> QED BY <3>3, <4>3
    <3> QED BY <3>2, <3>3
  <2>7. Contents' = w
    BY <2>4, <2>6, ContentsAbs
  <2> HIDE DEF w
  <2>8. Map!Return("pop", w, k, t, <<e>>)
    BY <2>4, <2>7, MapStays
  <2>9. Map!IsList(s[k].value) /\ items # <<>>
    BY <2>1, <2>2
  <2>10. \/ /\ side = "left"
            /\ Map!Return("pop", IF Tail(items) = <<>> THEN Map!Without(s, {k})
                                 ELSE Map!With(s, k, Map!List(Tail(items)), d), k, t, <<Head(items)>>)
         \/ /\ side # "left"
            /\ Map!Return("pop", IF Front(items) = <<>> THEN Map!Without(s, {k})
                                 ELSE Map!With(s, k, Map!List(Front(items)), d), k, t, <<Last(items)>>)
    BY <2>8 DEF w
  <2>11. Map!Last(items) = Last(items) /\ Map!Front(items) = Front(items)
    BY DEF Map!Last, Last, Map!Front, Front
  <2> QED BY <2>4, <2>9, <2>10, <2>11 DEF Map!PopOp, items, d, live, s, z
<1> QED BY <1>4, <1>5, <1>6 DEF Pop

\* What PopHollow stands for is a list whose length is not that of its elements.
LEMMA NothingHollow ==
    ASSUME Well(sh), Settled(sh), Counted(sh), NEW k \in Keys, NEW t
    PROVE  ~PopHollow(k, t)
<1> SUFFICES ASSUME PopHollow(k, t)
             PROVE  FALSE
  OBVIOUS
<1> DEFINE z == Entered(k, t)
<1>1. Settled(z) /\ Counted(z)
  BY EnteredSettled, EnteredCounted
<1>2. Rc(z, k, t) = "OK" /\ z.node[k].type = "list" /\ z.node[k].items = <<>>
  BY DEF PopHollow
<1> HIDE DEF z
<1>3. k \in DOMAIN z.node
  BY <1>2, RcFound
<1>4. z.node[k].value_len > 0 /\ z.node[k].value_len = Len(<<>>)
  BY <1>1, <1>2, <1>3 DEF Settled, Settles, Counted
<1>5. Len(<<>>) = 0
  OBVIOUS
<1> QED BY <1>4, <1>5

\* Every operation on a key is one on the map: some expired entries vanish, and
\* then it happens.
LEMMA KeyOpMapped ==
    ASSUME Well(sh), Settled(sh), Counted(sh), Counted(sh'), NEW k \in Keys, NEW t \in Nat, KeyOp(k, t)
    PROVE  t \in Clocks /\ Map!Operation(t) /\ UNCHANGED now
<1>1. reply'.at = t /\ UNCHANGED now
  BY KeyOpDone DEF KeyDone
<1> DEFINE Does(s) ==
             \/ \E v \in Scalars, e \in ExpTimes : Map!StoreOp(s, k, v, e, t)
             \/ \E v \in Elements : Map!PushOp(s, k, v, t)
             \/ Map!ReadOp(s, k, t) \/ Map!DeleteOp(s, k, t) \/ Map!PopOp(s, k, t)
             \/ \E n \in Increments : Map!IncrOp(s, k, n, t)
<1>2. ASSUME NEW D \in SUBSET Map!Reclaimable(Contents, t), Does(Map!Without(Contents, D))
      PROVE  Map!Operation(t)
  BY <1>2 DEF Map!Operation
<1>3. ASSUME GetStale(k, t)
      PROVE  Map!Operation(t)
  <2>1. Map!ReadOp(Abs(sh), k, t)
    BY <1>3, GetStaleMapped
  <2>2. Abs(sh) = Map!Without(Abs(sh), {})
    BY AbsDropped
  <2> DEFINE s == Map!Without(Contents, {})
  <2>3. s = Abs(sh)
    BY <2>2, ContentsAbs
  <2> HIDE DEF s
  <2>4. Map!ReadOp(s, k, t)
    BY <2>1, <2>3
  <2> QED BY <1>2, <2>4 DEF s
<1>4. ASSUME ~GetStale(k, t)
      PROVE  Does(Abs(Entered(k, t)))
  <2>1. CASE \E v \in Scalars, e \in ExpTimes :
               \/ Set(k, v, e, t) \/ SafeSet(k, v, e, t) \/ Replace(k, v, e, t)
               \/ Add("add", FALSE, k, v, e, t) \/ Add("safe_add", TRUE, k, v, e, t)
    BY <2>1, StoreOpsMapped
  <2>2. CASE \E v \in Elements, side \in {"left", "right"} : Push(k, v, side, t)
    BY <2>2, PushMapped
  <2>3. CASE \E side \in {"left", "right"} : Pop(k, side, t)
    BY <2>3, PopMapped
  <2>4. CASE \E n \in Increments, init \in {<<>>, <<0>>} : Incr(k, n, init, t)
    BY <2>4, IncrMapped
  <2>5. CASE Delete(k, t)
    BY <2>5, DeleteMapped
  <2>6. CASE Get(k, t)
    BY <2>6, GetMapped
  <2>7. CASE LLen(k, t)
    BY <2>7, LLenMapped
  <2>8. ~PopHollow(k, t)
    BY NothingHollow
  <2> QED BY <1>4, <2>1, <2>2, <2>3, <2>4, <2>5, <2>6, <2>7, <2>8 DEF KeyOp
<1>5. Map!Operation(t)
  <2>1. PICK D \in SUBSET Map!Reclaimable(Contents, t) :
          Abs(Entered(k, t)) = Map!Without(Contents, D)
    BY EnteredAbs
  <2> DEFINE s == Abs(Entered(k, t))
  <2>2. ~GetStale(k, t) => Does(s)
    BY <1>4
  <2> HIDE DEF s, Does
  <2>3. ~GetStale(k, t) => Does(Map!Without(Contents, D))
    BY <2>1, <2>2 DEF s
  <2> QED BY <1>2, <1>3, <2>3
<1>6. t \in Clocks
  <2>1. ASSUME NEW op, NEW z, NEW nd, NEW safe, NEW val, Put(op, z, k, nd, t, safe, val)
        PROVE  t \in Clocks
    BY <2>1 DEF Put, Insert, Return, Reply
  <2>2. ASSUME NEW op, NEW val, Return(op, k, t, val)
        PROVE  t \in Clocks
    BY <2>2 DEF Return, Reply
  <2>3. ASSUME NEW op, NEW err, Fail(op, k, t, err)
        PROVE  t \in Clocks
    BY <2>3 DEF Fail, Reply
  <2>4. ASSUME NEW v, NEW e,
               \/ Set(k, v, e, t) \/ SafeSet(k, v, e, t) \/ Replace(k, v, e, t)
               \/ Add("add", FALSE, k, v, e, t) \/ Add("safe_add", TRUE, k, v, e, t)
        PROVE  t \in Clocks
    BY <2>1, <2>3, <2>4 DEF Set, SafeSet, Replace, Add
  <2>5. ASSUME NEW v, NEW side, Push(k, v, side, t)
        PROVE  t \in Clocks
    BY <2>2, <2>3, <2>5 DEF Push
  <2>6. ASSUME NEW side, Pop(k, side, t)
        PROVE  t \in Clocks
    BY <2>2, <2>3, <2>6 DEF Pop
  <2>7. ASSUME NEW n, NEW init, Incr(k, n, init, t)
        PROVE  t \in Clocks
    BY <2>1, <2>2, <2>3, <2>7 DEF Incr, IncrLive, IncrDead
  <2>8. Delete(k, t) \/ Get(k, t) \/ PopHollow(k, t) \/ LLen(k, t) => t \in Clocks
    BY <2>2, <2>3 DEF Delete, Get, PopHollow, LLen
  <2>9. GetStale(k, t) => t \in Clocks
    BY <2>2, <2>3 DEF GetStale, Reply
  <2> QED BY <2>4, <2>5, <2>6, <2>7, <2>8, <2>9 DEF KeyOp
<1> QED BY <1>1, <1>5, <1>6

\* flush_all: every entry that is left has become an expired one.
LEMMA FlushAllMapped ==
    ASSUME Well(sh), NEW t, FlushAll(t)
    PROVE  Map!FlushOp(t)
<1> DEFINE m == [sh EXCEPT !.node = Marked]
           kept == DOMAIN sh'.node
           c == Contents
           w == [k \in kept |-> [c[k] EXCEPT !.expires = 1]]
<1>1. /\ Well(m) /\ Drops(m, sh') /\ DOMAIN m.node = DOMAIN sh.node
      /\ \A k \in DOMAIN sh.node : m.node[k] = [sh.node[k] EXCEPT !.expires = 1]
      /\ Return("flush_all", "none", t, <<>>)
  BY FlushAllDone
<1> HIDE DEF m
<1>2. kept \subseteq DOMAIN sh.node
  BY <1>1 DEF Drops
<1>3. c = Abs(sh) /\ Contents' = Abs(sh')
  BY ContentsAbs
<1>4. ASSUME NEW k \in kept
      PROVE  AbsNode(sh'.node[k]) = [c[k] EXCEPT !.expires = 1]
  <2> DEFINE old == sh.node[k]
             nd == [old EXCEPT !.expires = 1]
  <2>1. NodeWell(old)
    BY <1>2 DEF Well, NodesWell
  <2>2. sh'.node[k] = nd
    BY <1>1, <1>2 DEF Drops
  <2>3. /\ nd.type = old.type /\ nd.data = old.data /\ nd.value_len = old.value_len
        /\ nd.items = old.items /\ nd.expires = 1
    BY <2>1 DEF NodeWell
  <2>4. c[k] = AbsNode(old)
    BY <1>2, <1>3 DEF Abs
  <2> HIDE DEF nd, old, c
  <2>5. AbsNode(nd) = [AbsNode(old) EXCEPT !.expires = 1]
    BY <2>3 DEF AbsNode, Entry
  <2> QED BY <2>2, <2>4, <2>5
<1>5. Abs(sh') = w
  BY <1>4 DEF Abs
<1>6. kept \in SUBSET DOMAIN c
  BY <1>2, <1>3 DEF Abs
<1>7. Map!Reply("flush_all", "none", t, "ok", <<>>, FALSE)
  BY <1>1, MapReplies DEF Return
<1>8. \E kk \in SUBSET DOMAIN Contents :
         Contents' = [k \in kk |-> [Contents[k] EXCEPT !.expires = 1]]
  BY <1>3, <1>5, <1>6
<1> QED BY <1>7, <1>8 DEF Map!FlushOp

\* flush_expired: all expired entries, or the one it is allowed, or none there is.
LEMMA MapCardinality ==
    ASSUME NEW S
    PROVE  Map!Cardinality(S) = Cardinality(S)
BY DEF Map!Cardinality, Cardinality

\* flush_expired drops expired entries and says how many.
LEMMA FlushExpiredMapped ==
    ASSUME Well(sh), NEW n \in {0, 1}, NEW t, FlushExpired(n, t)
    PROVE  Map!FlushOp(t)
<1> DEFINE D == Freed(sh')
           R == Map!Reclaimable(Contents, t)
<1>1. n \in Nat
  OBVIOUS
<1>2. PICK freed \in Nat : /\ Walked(n, t, Len(sh.lru), [zone |-> sh', freed |-> freed])
                           /\ Return("flush_expired", "none", t, <<Number(freed)>>)
  BY <1>1, FlushExpiredDone
<1>3. /\ DOMAIN sh'.node \subseteq DOMAIN sh.node
      /\ \A x \in DOMAIN sh'.node : sh'.node[x] = sh.node[x]
      /\ IsFiniteSet(D) /\ freed = Cardinality(D)
      /\ n # 0 => freed <= n
      /\ \A x \in D : Due(sh.node[x], t)
      /\ \A j \in 1..Len(sh.lru) : Due(sh.node[Aged(j)], t) => Aged(j) \in D \/ (n # 0 /\ freed >= n)
  BY <1>2 DEF Walked
<1>4. DOMAIN sh'.node = DOMAIN sh.node \ D /\ D \subseteq DOMAIN sh.node
  BY <1>3 DEF Freed
<1> HIDE DEF D
<1>5. Abs(sh') = Map!Without(Abs(sh), D)
  BY <1>3, <1>4, AbsDropped
<1>6. D \subseteq R
  BY <1>3, <1>4, AbsDue, ContentsAbs
<1>7. \A x \in R : x \in DOMAIN sh.node /\ Due(sh.node[x], t)
  <2>1. \A x \in DOMAIN sh.node : Contents[x].expires = sh.node[x].expires
    BY AbsFields, ContentsAbs DEF Abs
  <2>2. R = Reclaimable(Contents, t) /\ DOMAIN Contents = DOMAIN sh.node
    BY MapOperators, ContentsAbs DEF Abs
  <2> QED BY <2>1, <2>2 DEF Reclaimable, Due
<1>8. D = R \/ Cardinality(D) = 1
  <2>1. CASE n # 0 /\ freed >= n
    BY <1>3, <2>1
  <2>2. CASE ~(n # 0 /\ freed >= n)
    <3>1. \A x \in R : x \in D
      BY <1>3, <1>7, <2>2, AgedAll
    <3> QED BY <1>6, <3>1
  <2> QED BY <2>1, <2>2
<1> DEFINE w == Map!Without(Contents, D)
<1>9. Contents' = w
  BY <1>5, ContentsAbs
<1>10. <<Number(freed)>> = <<Map!Number(Map!Cardinality(D))>>
  BY <1>3, MapCardinality DEF Number, Map!Number, NumLen
<1> HIDE DEF w, R
<1>11. Map!Return("flush_expired", w, "none", t, <<Map!Number(Map!Cardinality(D))>>)
  BY <1>2, <1>9, <1>10, MapStays
<1>12. \E DD \in SUBSET R : /\ DD = R \/ Map!Cardinality(DD) = 1
                            /\ Map!Return("flush_expired", Map!Without(Contents, DD), "none", t,
                                          <<Map!Number(Map!Cardinality(DD))>>)
  BY <1>6, <1>8, <1>11, MapCardinality DEF w
<1> QED BY <1>12 DEF Map!FlushOp, R

\* A key more at the end of a queue; the number of keys in it.
LEMMA AppendKeeps ==
    ASSUME NEW q, Queue(q), NEW k \in Keys, k \notin ToSet(q)
    PROVE  Queue(Append(q, k)) /\ ToSet(Append(q, k)) = ToSet(q) \cup {k}
<1> DEFINE p == Append(q, k)
<1>1. q \in Seq(Keys) /\ Len(q) \in Nat /\ DOMAIN q = 1..Len(q)
  BY DEF Queue
<1>2. /\ p \in Seq(Keys) /\ Len(p) = Len(q) + 1 /\ p[Len(q) + 1] = k
      /\ DOMAIN p = 1..(Len(q) + 1) /\ \A i \in 1..Len(q) : p[i] = q[i]
  BY <1>1
<1> HIDE DEF p
<1>3. \A i \in DOMAIN p : i \in DOMAIN q \/ i = Len(q) + 1
  BY <1>1, <1>2
<1>4. \A i \in DOMAIN q : p[i] = q[i] /\ i \in DOMAIN p
  BY <1>1, <1>2
<1>5. Len(q) + 1 \in DOMAIN p
  BY <1>1, <1>2
<1>6. ToSet(p) = ToSet(q) \cup {k}
  BY <1>2, <1>3, <1>4, <1>5 DEF ToSet
<1>7. IsInjective(p)
  <2> SUFFICES ASSUME NEW i \in DOMAIN p, NEW j \in DOMAIN p, p[i] = p[j]
               PROVE  i = j
    BY DEF IsInjective
  <2>1. \A x \in DOMAIN q : p[x] # k
    BY <1>4 DEF ToSet
  <2>2. \A x, y \in DOMAIN q : q[x] = q[y] => x = y
    BY DEF Queue, IsInjective
  <2> HIDE DEF Queue
  <2> QED BY <1>2, <1>3, <1>4, <2>1, <2>2
<1> QED BY <1>2, <1>6, <1>7 DEF Queue, p

\* A queue without repetition is as long as its set is large.
LEMMA QueueCounts ==
    ASSUME NEW q, Queue(q)
    PROVE  IsFiniteSet(ToSet(q)) /\ Cardinality(ToSet(q)) = Len(q)
<1> DEFINE n == Len(q)
           S == ToSet(q)
<1>1. q \in Seq(Keys) /\ n \in Nat /\ DOMAIN q = 1..n
  BY DEF Queue
<1>2. q \in [1..n -> S] /\ \A x \in S : \E i \in 1..n : q[i] = x
  BY <1>1 DEF ToSet
<1>3. \A i, j \in 1..n : q[i] = q[j] => i = j
  BY <1>1 DEF Queue, IsInjective
<1> HIDE DEF n, S
<1>4. q \in Bijection(1..n, S)
  BY <1>2, <1>3 DEF Bijection, Injection, Surjection, IsInjective
<1>5. ExistsBijection(1..n, S)
  BY <1>4 DEF ExistsBijection
<1>6. Cardinality(S) = n
  BY <1>1, <1>5, FS_CountingElements
<1> QED BY <1>6, QueueFinite DEF n, S

\* The walk of get_keys, entry by entry.
Lists(t, d, keys) ==
    keys = [i \in 0..d |->
              IF i = 0 THEN <<>>
              ELSE IF Due(sh.node[Aged(i)], t) THEN keys[i - 1] ELSE Append(keys[i - 1], Aged(i))]

\* The recursion of GetKeys is well defined.
LEMMA ListsExist ==
    ASSUME NEW t, Len(sh.lru) \in Nat, GetKeys(t)
    PROVE  \E keys : Lists(t, Len(sh.lru), keys) /\ Return("get_keys", "none", t, keys[Len(sh.lru)])
<1> DEFINE P == {d \in Nat : \E keys : Lists(t, d, keys)}
           Next1(y, i) == IF Due(sh.node[Aged(i)], t) THEN y ELSE Append(y, Aged(i))
           none == <<>>
<1>1. 0 \in P
  <2> DEFINE f == [i \in 0..0 |-> <<>>]
  <2>1. f = [i \in 0..0 |-> IF i = 0 THEN <<>> ELSE Next1(f[i - 1], i)]
    OBVIOUS
  <2> QED BY <2>1 DEF Lists
<1>2. ASSUME NEW d \in Nat, d \in P
      PROVE  d + 1 \in P
  <2>1. PICK f : Lists(t, d, f)
    BY <1>2
  <2> DEFINE g == [i \in 0..(d + 1) |-> IF i = d + 1 THEN Next1(f[d], i) ELSE f[i]]
  <2>2. \A i \in 0..d : f[i] = IF i = 0 THEN none ELSE Next1(f[i - 1], i)
    BY <2>1 DEF Lists
  <2> HIDE DEF Next1, none
  <2>3. \A i \in 0..(d + 1) : g[i] = IF i = 0 THEN none ELSE Next1(g[i - 1], i)
    <3> TAKE i \in 0..(d + 1)
    <3>1. CASE i = d + 1
      <4>1. i # 0 /\ i - 1 = d /\ d \in 0..(d + 1) /\ d # d + 1
        BY <3>1
      <4> QED BY <3>1, <4>1
    <3>2. CASE i # d + 1 /\ i # 0
      <4>1. i \in 0..d /\ i - 1 \in 0..(d + 1) /\ i - 1 # d + 1
        BY <3>2
      <4> QED BY <3>2, <4>1, <2>2
    <3>3. CASE i = 0
      <4>1. i # d + 1 /\ i \in 0..d
        BY <3>3
      <4> QED BY <3>3, <4>1, <2>2
    <3> QED BY <3>1, <3>2, <3>3
  <2>4. g = [i \in 0..(d + 1) |-> IF i = 0 THEN none ELSE Next1(g[i - 1], i)]
    BY <2>3
  <2> HIDE DEF g
  <2>5. Lists(t, d + 1, g)
    BY <2>4 DEF Lists, Next1, none
  <2> QED BY <2>5
<1> HIDE DEF P
<1>3. Len(sh.lru) \in P
  <2>1. Nat \subseteq P
    BY <1>1, <1>2, AllNumbers
  <2> QED BY <2>1
<1> DEFINE c == CHOOSE keys : Lists(t, Len(sh.lru), keys)
<1>4. Lists(t, Len(sh.lru), c)
  BY <1>3 DEF P
<1>5. Return("get_keys", "none", t, c[Len(sh.lru)])
  BY Zenon DEF GetKeys, Lists
<1> HIDE DEF c
<1> QED BY <1>4, <1>5

\* The keys listed after i entries of the walk.
Listed(t, i, s) ==
    /\ Queue(s)
    /\ \A x \in ToSet(s) : ~Due(sh.node[x], t) /\ \E j \in 1..i : x = Aged(j)
    /\ \A j \in 1..i : ~Due(sh.node[Aged(j)], t) => Aged(j) \in ToSet(s)

\* One entry on, get_keys has listed those that have not expired, each once.
LEMMA ListStepKeeps ==
    ASSUME Well(sh), NEW t, NEW i \in Nat, i + 1 <= Len(sh.lru), NEW s, Listed(t, i, s)
    PROVE  Listed(t, i + 1, IF Due(sh.node[Aged(i + 1)], t) THEN s ELSE Append(s, Aged(i + 1)))
<1> DEFINE a == Aged(i + 1)
           p == Append(s, a)
<1>1. i + 1 \in 1..Len(sh.lru) /\ \A j \in 1..i : j \in 1..Len(sh.lru) /\ j # i + 1 /\ j \in 1..(i + 1)
  BY AgedAll
<1>2. a \in DOMAIN sh.node /\ \A j \in 1..i : Aged(j) # a
  BY <1>1, AgedAll
<1>3. \A j \in 1..(i + 1) : j \in 1..i \/ j = i + 1
  OBVIOUS
<1>4. i + 1 \in 1..(i + 1)
  OBVIOUS
<1>5. a \in Keys /\ a \notin ToSet(s)
  BY <1>2, WellQueue DEF Listed
<1>6. Queue(p) /\ ToSet(p) = ToSet(s) \cup {a}
  BY <1>5, AppendKeeps DEF Listed
<1>7. CASE Due(sh.node[a], t)
  <2>1. Listed(t, i + 1, s)
    BY <1>1, <1>3, <1>7 DEF Listed
  <2> QED BY <1>7, <2>1
<1>8. CASE ~Due(sh.node[a], t)
  <2> HIDE DEF p
  <2>1. \A x \in ToSet(p) : ~Due(sh.node[x], t) /\ \E j \in 1..(i + 1) : x = Aged(j)
    BY <1>1, <1>4, <1>6, <1>8 DEF Listed
  <2>2. \A j \in 1..(i + 1) : ~Due(sh.node[Aged(j)], t) => Aged(j) \in ToSet(p)
    BY <1>3, <1>6 DEF Listed
  <2>3. Listed(t, i + 1, p)
    BY <1>6, <2>1, <2>2 DEF Listed
  <2> QED BY <1>8, <2>3 DEF p
<1> QED BY <1>7, <1>8

\* get_keys names the entries that have not expired, and changes nothing.
LEMMA GetKeysMapped ==
    ASSUME Well(sh), NEW t, GetKeys(t)
    PROVE  Map!FlushOp(t)
<1> DEFINE d == Len(sh.lru)
           S == DOMAIN Contents \ Map!Reclaimable(Contents, t)
<1>1. d \in Nat
  BY AgedAll
<1>2. PICK keys : Lists(t, d, keys) /\ Return("get_keys", "none", t, keys[d])
  BY <1>1, ListsExist
<1> DEFINE P == {i \in Nat : i <= d => Listed(t, i, keys[i])}
           none == <<>>
<1>3. \A i \in 0..d : keys[i] = IF i = 0 THEN none
                                ELSE IF Due(sh.node[Aged(i)], t) THEN keys[i - 1]
                                     ELSE Append(keys[i - 1], Aged(i))
  BY <1>2 DEF Lists
<1>4. 0 \in P
  <2>1. keys[0] = none
    BY <1>1, <1>3
  <2>2. Queue(none) /\ ToSet(none) = {}
    <3>1. <<>> \in Seq(Keys) /\ DOMAIN <<>> = {}
      OBVIOUS
    <3> QED BY <3>1 DEF Queue, IsInjective, ToSet
  <2> HIDE DEF none
  <2>3. Listed(t, 0, none)
    BY <2>2 DEF Listed
  <2> QED BY <2>1, <2>3
<1>5. ASSUME NEW i \in Nat, i \in P
      PROVE  i + 1 \in P
  <2> SUFFICES ASSUME i + 1 <= d
               PROVE  Listed(t, i + 1, keys[i + 1])
    OBVIOUS
  <2>1. i + 1 \in 0..d /\ i + 1 # 0 /\ (i + 1) - 1 = i /\ i <= d
    BY <1>1
  <2>2. keys[i + 1] = IF Due(sh.node[Aged(i + 1)], t) THEN keys[i] ELSE Append(keys[i], Aged(i + 1))
    BY <1>3, <2>1
  <2>3. Listed(t, i, keys[i])
    BY <1>5, <2>1
  <2> QED BY <2>2, <2>3, ListStepKeeps
<1> HIDE DEF P
<1>6. Nat \subseteq P
  BY <1>4, <1>5, AllNumbers
<1> DEFINE s == keys[d]
<1>7. Listed(t, d, s)
  BY <1>1, <1>6 DEF P
<1> HIDE DEF s
<1>8. \A x : x \in S <=> x \in DOMAIN sh.node /\ ~Due(sh.node[x], t)
  <2>1. \A x \in DOMAIN sh.node : Contents[x].expires = sh.node[x].expires
    BY AbsFields, ContentsAbs DEF Abs
  <2>2. Map!Reclaimable(Contents, t) = Reclaimable(Contents, t) /\ DOMAIN Contents = DOMAIN sh.node
    BY MapOperators, ContentsAbs DEF Abs
  <2> QED BY <2>1, <2>2 DEF Reclaimable, Due
<1> HIDE DEF S
<1>9. ToSet(s) = S
  <2>1. \A x \in ToSet(s) : x \in S
    BY <1>1, <1>7, <1>8, AgedAll DEF Listed
  <2>2. \A x \in S : x \in ToSet(s)
    BY <1>1, <1>7, <1>8, AgedAll DEF Listed
  <2> QED BY <2>1, <2>2
<1>10. Queue(s) /\ Cardinality(S) = Len(s)
  BY <1>7, <1>9, QueueCounts DEF Listed
<1>11. s \in Map!SetToSeqs(S)
  <2>1. s \in Seq(Keys) /\ Len(s) \in Nat /\ DOMAIN s = 1..Len(s)
    BY <1>10 DEF Queue
  <2> DEFINE n == Len(s)
  <2>2. s \in [1..n -> S] /\ \A i, j \in 1..n : i # j => s[i] # s[j]
    BY <1>9, <1>10, <2>1 DEF ToSet, Queue, IsInjective
  <2> HIDE DEF n
  <2>3. Map!Cardinality(S) = n
    BY <1>10, MapCardinality DEF n
  <2> QED BY <2>2, <2>3 DEF Map!SetToSeqs
<1>12. Contents' = Contents
  <2>1. sh' = sh
    BY DEF GetKeys
  <2> QED BY <2>1, ContentsAbs
<1>13. Map!Return("get_keys", Contents, "none", t, s)
  <2> DEFINE c == Contents
  <2>1. Contents' = c
    BY <1>12
  <2> HIDE DEF c
  <2>2. Map!Return("get_keys", c, "none", t, s)
    BY <1>2, <2>1, MapStays DEF s
  <2> QED BY <2>2 DEF c
<1> QED BY <1>11, <1>13 DEF Map!FlushOp, S

\* Every step of the zone is one of the map or changes nothing in it.
LEMMA StepMapped ==
    ASSUME ZoneInv, Counted(sh), Counted(sh'), [Next]_vars
    PROVE  [Map!Next]_(Map!vars)
<1>1. Well(sh) /\ Settled(sh)
  BY DEF ZoneInv
<1>2. ASSUME sh' = sh
      PROVE  Contents' = Contents
  BY <1>2, ContentsAbs
<1>3. CASE UNCHANGED vars
  BY <1>2, <1>3 DEF vars, Map!vars
<1>4. CASE Tick
  BY <1>2, <1>4 DEF Tick, Map!Tick, Map!Next
<1>5. ASSUME NEW t \in StartTime..MaxTime, ZoneOp(t)
      PROVE  Map!Next
  <2>1. Map!FlushOp(t)
    BY <1>1, <1>5, FlushAllMapped, GetKeysMapped, FlushExpiredMapped DEF ZoneOp
  <2>2. UNCHANGED now
    BY <1>1, <1>5, ZoneOpDone DEF ZoneDone
  <2>3. t \in Clocks
    <3>1. \E op, kk, res, val, f : Reply(op, kk, t, res, val, f)
      BY <1>5 DEF ZoneOp, FlushAll, FlushExpired, GetKeys, Return
    <3> QED BY <3>1, ReplyFields
  <2>4. Map!Operation(t)
    BY <2>1 DEF Map!Operation
  <2> QED BY <2>2, <2>3, <2>4 DEF Map!Next, Clocks
<1>6. ASSUME NEW t \in StartTime..MaxTime, NEW k \in Keys, KeyOp(k, t)
      PROVE  Map!Next
  <2>1. t \in Nat
    BY ShDictAssumption DEF StartTime
  <2>2. t \in Clocks /\ Map!Operation(t) /\ UNCHANGED now
    BY <1>1, <1>6, <2>1, KeyOpMapped
  <2> QED BY <2>2 DEF Map!Next, Clocks
<1> QED BY <1>3, <1>4, <1>5, <1>6 DEF Next

\* The zone does what its documentation says of a map with expiring entries, as
\* long as the length of no list is wrong: the revived list is the only way in
\* which it does anything else.
THEOREM MapImplemented == Spec /\ []ListsCounted => ImplementsMap
<1>1. Init => Map!Init
  <2> SUFFICES ASSUME Init
               PROVE  Map!Init
    OBVIOUS
  <2>1. DOMAIN sh.node = {}
    <3>1. Len(<<>>) = 0 /\ DOMAIN <<>> = 1..Len(<<>>)
      OBVIOUS
    <3> QED BY <3>1 DEF Init
  <2>2. DOMAIN Contents = {}
    BY <2>1 DEF Contents
  <2> QED BY <2>2 DEF Init, Map!Init, StartTime
<1>2. ZoneInv /\ ListsCounted /\ ListsCounted' /\ [Next]_vars => [Map!Next]_(Map!vars)
  <2> SUFFICES ASSUME ZoneInv, ListsCounted, ListsCounted', [Next]_vars
               PROVE  [Map!Next]_(Map!vars)
    OBVIOUS
  <2>1. Counted(sh) /\ Counted(sh')
    BY DEF ListsCounted, Counted
  <2> QED BY <2>1, StepMapped
<1> QED BY <1>1, <1>2, ZoneAlways, PTL DEF Spec, ImplementsMap, Map!Spec

\* A zone nobody pushes to has no lists: it is such a map without exception.
THEOREM MapWithoutLists == Elements = {} => (Spec => ImplementsMap)
<1> SUFFICES ASSUME Elements = {}
             PROVE  Spec => ImplementsMap
  OBVIOUS
<1>1. ZoneInv => ListsCounted
  BY DEF ZoneInv, Settled, Settles, ListsCounted, Counted
<1> QED BY <1>1, ZoneAlways, MapImplemented, PTL
=============================================================================
