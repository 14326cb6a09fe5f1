------------------------- MODULE LightThreadsProofs -------------------------
(***************************************************************************)
(* Theorems about LightThreads.tla, for any user threads and coroutines:   *)
(* types, the count of user threads, the chains of resumed coroutines,     *)
(* what wakes each thread, and that a request ends with its threads.       *)
(***************************************************************************)
EXTENDS LightThreads, FiniteSetTheorems, WellFoundedInduction, TLAPS

USE LightThreadsAssumption

Rec == [status : Statuses, parent : Threads \cup {None}, ref : BOOLEAN, waited : BOOLEAN,
        timer : BOOLEAN, at : Places, on : SUBSET Uthreads]

Types ==
    /\ co \in [Threads -> Rec]
    /\ cur \in Threads \cup {None}
    /\ uthreads \in Int
    /\ posted \in Seq(Threads)
    /\ zombies \in [Threads -> Seq(Uthreads)]
    /\ onAbort \in Uthreads \cup {None}
    /\ ended \in BOOLEAN /\ misled \in BOOLEAN

\* The invariant, as predicates of the threads c, of the one k that runs, of the
\* posts q and the zombies z: each thread is marked as its code's place wants,
\* and is posted once if that is what it waits for.
Active(x) == x.status \in {"running", "normal"}

OnceIn(t, q) == \E i \in 1..Len(q) : \A j \in 1..Len(q) : q[j] = t <=> j = i
NotIn(t, q) == \A j \in 1..Len(q) : q[j] # t

Awaits(x) == x.status = "running" /\ x.at \in {"spawn", "yield"}

Fits(x, runs) ==
    /\ x.timer <=> x.status = "running" /\ x.at = "sleep"
    /\ (x.status = "running" /\ x.at = "lua") <=> runs
    /\ x.status = "running" => x.at \in {"lua", "sleep", "spawn", "yield", "wait"}
    /\ x.status = "normal" => x.at = "resume"
    /\ x.at = "wait" => x.status \notin {"none", "suspended"}

PostsOK(x, t, q) == IF Awaits(x) THEN OnceIn(t, q) ELSE x.status = "dead" \/ NotIn(t, q)

\* Which threads are anchored.
AnchoredThread(x, suspended) ==
    /\ x.ref <=> x.status \notin {"none", "dead"}
    /\ x.status = "suspended" => suspended

AnchoredEntry(x) == (x.ref <=> x.status # "dead") /\ x.status \in {"running", "normal", "dead"}

Anchored(x, t, a) ==
    /\ t = Entry => AnchoredEntry(x)
    /\ t \in Uthreads => AnchoredThread(x, t = a)
    /\ t \in Coros => ~x.ref /\ x.status # "zombie"

Local(x, t, k, q, a) == Fits(x, k = t) /\ PostsOK(x, t, q) /\ Anchored(x, t, a)

\* Coroutines and who resumed them.
Riding(c, t, x) == Active(c[x]) /\ c[x].parent = t

Resumes(c) ==
    /\ \A t \in Threads : c[t].status = "normal" =>
          \E x \in Coros : Riding(c, t, x) /\ \A y \in Coros : Riding(c, t, y) => y = x
    /\ \A x \in Coros : Active(c[x]) =>
          c[x].parent \in Threads /\ c[c[x].parent].status \in {"normal", "dead"}

\* A thread in ngx.thread.wait has a child that will resume it.
WaitsFor(c, t, u) == Active(c[u]) /\ c[u].waited /\ c[u].parent = t
InWait(x) == x.status = "running" /\ x.at = "wait"
Waits(c) == \A t \in Threads : InWait(c[t]) => \E u \in c[t].on : WaitsFor(c, t, u)

\* User threads and who created them.
Children(c) ==
    \A u \in Uthreads : c[u].status # "none" =>
        c[u].parent \in Threads /\ c[u].parent # u /\ c[c[u].parent].status # "none"

Corpses(c, z) == \A t \in Threads : \A u \in ToSet(z[t]) : c[u].status \in {"zombie", "dead"}

\* Nobody is his own ancestor, among user threads or in a chain of coroutines.
RanksThreads(c, f) ==
    \A u \in Uthreads :
        c[u].status # "none" /\ c[u].parent \in Uthreads => f[c[u].parent] < f[u]
RanksCoros(c, g) == \A x \in Coros : Active(c[x]) => g[c[x].parent] < g[x]

Ranked(c) ==
    \E N \in Nat : \E f \in [Uthreads -> 0..N], g \in [Threads -> 0..N] :
        RanksThreads(c, f) /\ RanksCoros(c, g)

Someone(c) == \E t \in Threads : c[t].status \in {"running", "normal", "zombie"}

Live(c, k, q, z, a) ==
    /\ \A t \in Threads : Local(c[t], t, k, q, a)
    /\ Resumes(c) /\ Waits(c) /\ Children(c) /\ Corpses(c, z) /\ Ranked(c) /\ Someone(c)

\* What is left of a request.
Finished(c) ==
    /\ \A t \in Threads \ Coros : ~c[t].timer
    /\ \A u \in Uthreads : c[u].status \in {"none", "dead"} /\ ~c[u].ref

CountedIn(c) == {u \in Uthreads : c[u].ref /\ c[u].status # "suspended"}

Sound ==
    /\ uthreads = Cardinality(CountedIn(co))
    /\ IF ended THEN Finished(co) ELSE Live(co, cur, posted, zombies, onAbort)

----------------------------------------------------------------------------
(* Sequences, sets and ranks.                                              *)

LEMMA ToSetSeq ==
    ASSUME NEW S, NEW s \in Seq(S)
    PROVE  /\ ToSet(s) \subseteq S
           /\ \A x : x \in ToSet(s) <=> \E i \in 1..Len(s) : s[i] = x
           /\ \A x \in S : Append(s, x) \in Seq(S) /\ ToSet(Append(s, x)) = ToSet(s) \cup {x}
<1>1. ASSUME NEW r \in Seq(S), NEW x PROVE x \in ToSet(r) <=> \E i \in 1..Len(r) : r[i] = x
  BY DEF ToSet
<1>2. ASSUME NEW x \in S
      PROVE  Append(s, x) \in Seq(S) /\ ToSet(Append(s, x)) = ToSet(s) \cup {x}
  <2> PICK r : r = Append(s, x)
    OBVIOUS
  <2>1. /\ r \in Seq(S) /\ Len(s) \in Nat /\ Len(r) = Len(s) + 1 /\ r[Len(s) + 1] = x
        /\ \A i \in 1..Len(s) : r[i] = s[i]
    OBVIOUS
  <2>2. 1..Len(r) = (1..Len(s)) \cup {Len(s) + 1}
    BY <2>1
  <2>3. \A y : (\E i \in 1..Len(r) : r[i] = y) <=> (\E i \in 1..Len(s) : s[i] = y) \/ y = x
    BY <2>1, <2>2
  <2>4. \A y : (y \in ToSet(r) <=> \E i \in 1..Len(r) : r[i] = y)
               /\ (y \in ToSet(s) <=> \E i \in 1..Len(s) : s[i] = y)
    BY <1>1, <2>1
  <2>5. ToSet(r) = ToSet(s) \cup {x}
    BY <2>3, <2>4
  <2> QED BY <2>1, <2>5
<1>3. ToSet(s) \subseteq S
  BY <1>1
<1> QED BY <1>1, <1>2, <1>3

LEMMA AppendPosts ==
    ASSUME NEW q \in Seq(Threads), NEW t \in Threads, NEW x \in Threads
    PROVE  /\ x # t => /\ OnceIn(x, q) => OnceIn(x, Append(q, t))
                       /\ NotIn(x, q) => NotIn(x, Append(q, t))
           /\ NotIn(t, q) => OnceIn(t, Append(q, t))
<1> PICK r : r = Append(q, t)
  OBVIOUS
<1>1. /\ Len(q) \in Nat /\ Len(r) = Len(q) + 1 /\ r[Len(q) + 1] = t
      /\ \A i \in 1..Len(q) : r[i] = q[i]
  OBVIOUS
<1>2. 1..Len(r) = (1..Len(q)) \cup {Len(q) + 1} /\ Len(q) + 1 \notin 1..Len(q)
  BY <1>1
<1>3. ASSUME x # t, OnceIn(x, q) PROVE OnceIn(x, r)
  <2>1. PICK i \in 1..Len(q) : \A j \in 1..Len(q) : q[j] = x <=> j = i
    BY <1>3 DEF OnceIn
  <2>2. \A j \in 1..Len(r) : r[j] = x <=> j = i
    BY <1>1, <1>2, <1>3, <2>1
  <2> QED BY <1>2, <2>1, <2>2 DEF OnceIn
<1>4. x # t /\ NotIn(x, q) => NotIn(x, r)
  BY <1>1, <1>2 DEF NotIn
<1>5. ASSUME NotIn(t, q) PROVE OnceIn(t, r)
  <2>1. \A j \in 1..Len(r) : r[j] = t <=> j = Len(q) + 1
    BY <1>1, <1>2, <1>5 DEF NotIn
  <2>2. Len(q) + 1 \in 1..Len(r)
    BY <1>2
  <2> QED BY <2>1, <2>2 DEF OnceIn
<1> QED BY <1>3, <1>4, <1>5

LEMMA TailPosts ==
    ASSUME NEW q \in Seq(Threads), q # <<>>, NEW x \in Threads
    PROVE  /\ Tail(q) \in Seq(Threads) /\ Head(q) \in Threads
           /\ x # Head(q) => /\ OnceIn(x, q) => OnceIn(x, Tail(q))
                             /\ NotIn(x, q) => NotIn(x, Tail(q))
           /\ OnceIn(Head(q), q) => NotIn(Head(q), Tail(q))
           /\ ~NotIn(Head(q), q)
<1> PICK r, t : r = Tail(q) /\ t = Head(q)
  OBVIOUS
<1>1. /\ Len(q) \in Nat /\ Len(q) > 0 /\ r \in Seq(Threads) /\ t \in Threads
      /\ Len(r) = Len(q) - 1 /\ t = q[1] /\ \A i \in 1..Len(r) : r[i] = q[i + 1]
  OBVIOUS
<1>2. ASSUME x # t, OnceIn(x, q) PROVE OnceIn(x, r)
  <2>1. PICK i \in 1..Len(q) : \A j \in 1..Len(q) : q[j] = x <=> j = i
    BY <1>2 DEF OnceIn
  <2>2. i # 1
    BY <1>1, <1>2, <2>1
  <2>3. PICK h \in 1..Len(r) : h = i - 1
    BY <1>1, <2>1, <2>2
  <2>4. \A j \in 1..Len(r) : r[j] = x <=> j = h
    BY <1>1, <2>1, <2>3
  <2> QED BY <2>3, <2>4 DEF OnceIn
<1>3. x # t /\ NotIn(x, q) => NotIn(x, r)
  BY <1>1 DEF NotIn
<1>4. OnceIn(t, q) => NotIn(t, r)
  BY <1>1 DEF OnceIn, NotIn
<1>5. ~NotIn(t, q)
  BY <1>1 DEF NotIn
<1> QED BY <1>1, <1>2, <1>3, <1>4, <1>5

\* The greatest and the least of bounded numbers.
LEMMA Extremes ==
    ASSUME NEW N \in Nat, NEW W, W # {}, NEW f, \A u \in W : f[u] \in 0..N
    PROVE  /\ \E m \in W : \A u \in W : f[u] <= f[m]
           /\ \E m \in W : \A u \in W : f[m] <= f[u]
<1>1. IsWellFoundedOn(OpToRel(<, Nat), Nat)
  BY NatLessThanWellFounded
<1>2. ASSUME NEW T, T \subseteq Nat, T # {} PROVE \E x \in T : \A y \in T : x <= y
  <2>1. PICK x \in T : \A y \in T : ~(<<y, x>> \in OpToRel(<, Nat))
    BY <1>1, <1>2, WFMin
  <2>2. \A y \in T : ~(y < x)
    BY <1>2, <2>1 DEF OpToRel
  <2> QED BY <1>2, <2>2
<1>3. \E m \in W : \A u \in W : f[m] <= f[u]
  <2> DEFINE T == {f[u] : u \in W}
  <2>1. T \subseteq Nat /\ T # {}
    OBVIOUS
  <2>2. PICK x \in T : \A y \in T : x <= y
    BY <1>2, <2>1
  <2> QED BY <2>2
<1>4. \E m \in W : \A u \in W : f[u] <= f[m]
  <2> DEFINE T == {N - f[u] : u \in W}
  <2>1. T \subseteq Nat /\ T # {}
    OBVIOUS
  <2>2. PICK x \in T : \A y \in T : x <= y
    BY <1>2, <2>1
  <2>3. PICK m \in W : x = N - f[m]
    BY <2>2
  <2>4. \A u \in W : N - f[m] <= N - f[u]
    BY <2>2, <2>3
  <2> QED BY <2>4
<1> QED BY <1>3, <1>4

----------------------------------------------------------------------------
(* What a step from the threads c to the threads d may change, and keep.   *)

\* The coroutines that run or have resumed others, and who resumed whom.
SameChains(c, d) ==
    /\ \A x \in Coros : Active(d[x]) <=> Active(c[x])
    /\ \A x \in Coros : Active(c[x]) => d[x].parent = c[x].parent
    /\ \A t \in Threads : d[t].status = "normal" => c[t].status = "normal"
    /\ \A t \in Threads : c[t].status \in {"normal", "dead"} => d[t].status \in {"normal", "dead"}

LEMMA SameChainsKeep ==
    ASSUME NEW c, NEW d, Resumes(c), SameChains(c, d)
    PROVE  /\ Resumes(d)
           /\ \A g : RanksCoros(c, g) => RanksCoros(d, g)
<1>1. \A t \in Threads, x \in Coros : Riding(d, t, x) <=> Riding(c, t, x)
  BY DEF Riding, SameChains
<1>2. \A x \in Coros : Active(d[x]) =>
         d[x].parent \in Threads /\ d[d[x].parent].status \in {"normal", "dead"}
  BY DEF Resumes, SameChains
<1>3. \A t \in Threads : d[t].status = "normal" =>
         \E x \in Coros : Riding(d, t, x) /\ \A y \in Coros : Riding(d, t, y) => y = x
  <2> SUFFICES ASSUME NEW t \in Threads, d[t].status = "normal"
               PROVE  \E x \in Coros : Riding(d, t, x) /\ \A y \in Coros : Riding(d, t, y) => y = x
    OBVIOUS
  <2>1. c[t].status = "normal"
    BY DEF SameChains
  <2>2. PICK x \in Coros : Riding(c, t, x) /\ \A y \in Coros : Riding(c, t, y) => y = x
    BY <2>1 DEF Resumes
  <2> QED BY <1>1, <2>2
<1>4. \A g : RanksCoros(c, g) => RanksCoros(d, g)
  BY DEF RanksCoros, SameChains
<1> QED BY <1>2, <1>3, <1>4 DEF Resumes

\* Who created whom, when no thread is created, or the thread u by t.
SameParents(c, d) ==
    /\ \A v \in Uthreads : c[v].status # "none" => d[v].parent = c[v].parent
    /\ \A x \in Threads : c[x].status # "none" => d[x].status # "none"

Born(c, d, t, u) ==
    /\ c[u].status = "none" /\ c[t].status # "none" /\ d[u].parent = t
    /\ \A v \in Uthreads \ {u} : d[v].status # "none" => c[v].status # "none"

NoneBorn(c, d) == \A v \in Uthreads : d[v].status # "none" => c[v].status # "none"

LEMMA SameParentsKeep ==
    ASSUME NEW c, NEW d, Children(c), SameParents(c, d), NoneBorn(c, d)
    PROVE  Children(d) /\ \A f : RanksThreads(c, f) => RanksThreads(d, f)
  BY DEF Children, SameParents, NoneBorn, RanksThreads

LEMMA BornKeeps ==
    ASSUME NEW c, NEW d, Children(c), SameParents(c, d), NEW t \in Threads, NEW u \in Uthreads,
           Born(c, d, t, u)
    PROVE  /\ Children(d)
           /\ \A N \in Nat : \A f \in [Uthreads -> 0..N] : RanksThreads(c, f) =>
                 \E e \in [Uthreads -> 0..(N + 1)] : RanksThreads(d, e)
<1>1. t # u
  BY DEF Born
<1>2. Children(d)
  <2> SUFFICES ASSUME NEW v \in Uthreads, d[v].status # "none"
               PROVE  d[v].parent \in Threads /\ d[v].parent # v /\ d[d[v].parent].status # "none"
    BY DEF Children
  <2>1. CASE v = u
    BY <1>1, <2>1 DEF Born, SameParents
  <2>2. CASE v # u
    BY <2>2 DEF Born, SameParents, Children
  <2> QED BY <2>1, <2>2
<1>3. ASSUME NEW N \in Nat, NEW f \in [Uthreads -> 0..N], RanksThreads(c, f)
      PROVE  \E e \in [Uthreads -> 0..(N + 1)] : RanksThreads(d, e)
  <2> DEFINE e == [f EXCEPT ![u] = N + 1]
  <2>1. /\ e \in [Uthreads -> 0..(N + 1)] /\ e[u] = N + 1
        /\ \A v \in Uthreads \ {u} : e[v] = f[v] /\ f[v] \in 0..N
    OBVIOUS
  <2> HIDE DEF e
  <2>2. ASSUME NEW v \in Uthreads, d[v].status # "none", d[v].parent \in Uthreads
        PROVE  e[d[v].parent] < e[v]
    <3>1. CASE v = u
      BY <1>1, <2>1, <2>2, <3>1 DEF Born
    <3>2. CASE v # u
      <4>1. /\ c[v].status # "none" /\ d[v].parent = c[v].parent
            /\ c[c[v].parent].status # "none"
        BY <2>2, <3>2 DEF Born, SameParents, Children
      <4>2. d[v].parent # u
        BY <4>1 DEF Born
      <4>3. f[c[v].parent] < f[v]
        BY <1>3, <2>2, <4>1 DEF RanksThreads
      <4> QED BY <2>1, <2>2, <3>2, <4>1, <4>2, <4>3
    <3> QED BY <3>1, <3>2
  <2>3. RanksThreads(d, e)
    BY <2>2 DEF RanksThreads
  <2> QED BY <2>1, <2>3
<1> QED BY <1>2, <1>3

\* Those who wait for children still do, or nobody else does.
SameWaits(c, d) ==
    \A t \in Threads : InWait(d[t]) =>
        /\ InWait(c[t]) /\ d[t].on = c[t].on
        /\ \A u \in c[t].on : WaitsFor(c, t, u) => WaitsFor(d, t, u)

LEMMA SameWaitsKeep ==
    ASSUME NEW c, NEW d, Waits(c), SameWaits(c, d)
    PROVE  Waits(d)
  BY DEF Waits, SameWaits

\* No zombie comes back to life.
SameCorpses(c, d) ==
    \A u \in Uthreads : c[u].status \in {"zombie", "dead"} => d[u].status \in {"zombie", "dead"}

LEMMA SameCorpsesKeep ==
    ASSUME NEW c, NEW d, NEW z \in [Threads -> Seq(Uthreads)], Corpses(c, z), SameCorpses(c, d)
    PROVE  /\ Corpses(d, z)
           /\ \A t \in Threads : Corpses(d, [z EXCEPT ![t] = <<>>])
           /\ \A t \in Threads, u \in Uthreads :
                 d[u].status = "zombie" => Corpses(d, [z EXCEPT ![t] = Append(@, u)])
<1>1. ASSUME NEW t \in Threads PROVE ToSet(z[t]) \subseteq Uthreads
  BY ToSetSeq
<1>2. Corpses(d, z)
  BY <1>1 DEF Corpses, SameCorpses
<1>3. ASSUME NEW t \in Threads PROVE Corpses(d, [z EXCEPT ![t] = <<>>])
  <2>1. ToSet(<<>>) = {}
    BY DEF ToSet
  <2> QED BY <1>2, <2>1 DEF Corpses
<1>4. ASSUME NEW t \in Threads, NEW u \in Uthreads, d[u].status = "zombie"
      PROVE  Corpses(d, [z EXCEPT ![t] = Append(@, u)])
  <2>1. ToSet(Append(z[t], u)) = ToSet(z[t]) \cup {u}
    BY ToSetSeq
  <2> PICK y : y = [z EXCEPT ![t] = Append(@, u)]
    OBVIOUS
  <2>2. y[t] = Append(z[t], u) /\ \A x \in Threads \ {t} : y[x] = z[x]
    OBVIOUS
  <2>3. Corpses(d, y)
    BY <1>2, <1>4, <2>1, <2>2 DEF Corpses
  <2> QED BY <2>3
<1> QED BY <1>2, <1>3, <1>4

\* All of it, for a step that creates no thread and resumes no coroutine.
Calm(c, d) ==
    SameChains(c, d) /\ SameParents(c, d) /\ NoneBorn(c, d) /\ SameWaits(c, d) /\ SameCorpses(c, d)

LEMMA CalmKeeps ==
    ASSUME NEW c, NEW d, Calm(c, d), Resumes(c), Waits(c), Children(c), Ranked(c)
    PROVE  Resumes(d) /\ Waits(d) /\ Children(d) /\ Ranked(d)
<1>1. Resumes(d) /\ \A g : RanksCoros(c, g) => RanksCoros(d, g)
  BY SameChainsKeep DEF Calm
<1>2. Children(d) /\ \A f : RanksThreads(c, f) => RanksThreads(d, f)
  BY SameParentsKeep DEF Calm
<1>3. Waits(d)
  BY SameWaitsKeep DEF Calm
<1>4. PICK N \in Nat : \E f \in [Uthreads -> 0..N], g \in [Threads -> 0..N] :
         RanksThreads(c, f) /\ RanksCoros(c, g)
  BY DEF Ranked
<1>5. Ranked(d)
  BY <1>1, <1>2, <1>4 DEF Ranked
<1> QED BY <1>1, <1>2, <1>3, <1>5

\* The same for one thread, and for those whom it may wake.
ChainThread(x, y, t) ==
    /\ t \in Coros => /\ Active(y) <=> Active(x)
                      /\ Active(x) => y.parent = x.parent
    /\ y.status = "normal" => x.status = "normal"
    /\ x.status \in {"normal", "dead"} => y.status \in {"normal", "dead"}

TreeThread(x, y, t) ==
    /\ x.status # "none" => y.status # "none"
    /\ t \in Uthreads => /\ x.status # "none" => y.parent = x.parent
                         /\ x.status \in {"zombie", "dead"} => y.status \in {"zombie", "dead"}

Unborn(x, y, t) == t \in Uthreads /\ y.status # "none" => x.status # "none"

WaitThread(x, y) == InWait(y) => InWait(x) /\ y.on = x.on

Wakers(c, d, u) ==
    Active(c[u]) /\ c[u].waited /\ (\E t \in Threads : t = c[u].parent /\ InWait(d[t]))
    => Active(d[u]) /\ d[u].waited

LEMMA ChainsFrom ==
    ASSUME NEW c, NEW d, NEW X, \A x \in Threads \ X : d[x] = c[x],
           \A x \in Threads \cap X : ChainThread(c[x], d[x], x)
    PROVE  SameChains(c, d)
<1>1. Coros \subseteq Threads
  BY DEF Threads
<1>2. ASSUME NEW x \in Threads PROVE ChainThread(c[x], d[x], x)
  <2>1. CASE x \notin X
    BY <2>1 DEF ChainThread
  <2> QED BY <2>1
<1> QED BY <1>1, <1>2 DEF ChainThread, SameChains

LEMMA TreeFrom ==
    ASSUME NEW c, NEW d, NEW X, \A x \in Threads \ X : d[x] = c[x],
           \A x \in Threads \cap X : TreeThread(c[x], d[x], x)
    PROVE  SameParents(c, d) /\ SameCorpses(c, d)
<1>1. Uthreads \subseteq Threads
  BY DEF Threads
<1>2. ASSUME NEW x \in Threads PROVE TreeThread(c[x], d[x], x)
  <2>1. CASE x \notin X
    BY <2>1 DEF TreeThread
  <2> QED BY <2>1
<1> QED BY <1>1, <1>2 DEF TreeThread, SameParents, SameCorpses

LEMMA WaitsFrom ==
    ASSUME NEW c \in [Threads -> Rec], NEW d, NEW X, \A x \in Threads \ X : d[x] = c[x],
           SameParents(c, d), \A x \in Threads \cap X : WaitThread(c[x], d[x]),
           \A u \in Uthreads \cap X : Wakers(c, d, u)
    PROVE  SameWaits(c, d)
<1>1. Uthreads \subseteq Threads
  BY DEF Threads
<1>2. ASSUME NEW x \in Threads PROVE WaitThread(c[x], d[x])
  <2>1. CASE x \notin X
    BY <2>1 DEF WaitThread
  <2> QED BY <2>1
<1>3. ASSUME NEW t \in Threads, InWait(d[t]), NEW u \in c[t].on, WaitsFor(c, t, u)
      PROVE  WaitsFor(d, t, u)
  <2>1. u \in Uthreads
    BY DEF Rec
  <2>2. Active(c[u]) /\ c[u].waited /\ c[u].parent = t
    BY <1>3 DEF WaitsFor
  <2>3. d[u].parent = t
    BY <2>1, <2>2 DEF SameParents, Active
  <2>4. Active(d[u]) /\ d[u].waited
    <3>1. CASE u \in X
      BY <1>3, <2>1, <2>2, <3>1 DEF Wakers
    <3>2. CASE u \notin X
      BY <1>1, <2>1, <2>2, <3>2
    <3> QED BY <3>1, <3>2
  <2> QED BY <2>3, <2>4 DEF WaitsFor
<1> QED BY <1>2, <1>3 DEF SameWaits, WaitThread

\* Threads outside X keep their records, and none of them runs before or after.
Aside(c, d, k, l, q, r, a, b, X) ==
    /\ \A x \in Threads \ X : d[x] = c[x]
    /\ k \in X \cup {None} /\ l \in X \cup {None}
    /\ \A x \in Threads \ X : PostsOK(c[x], x, q) => PostsOK(c[x], x, r)
    /\ \A u \in Uthreads \ X : u = b <=> u = a

LEMMA Bystanders ==
    ASSUME NEW c, NEW d, NEW k, NEW l, NEW q, NEW r, NEW a, NEW b, NEW X,
           Aside(c, d, k, l, q, r, a, b, X), \A t \in Threads : Local(c[t], t, k, q, a),
           \A t \in Threads \cap X : Local(d[t], t, l, r, b)
    PROVE  \A t \in Threads : Local(d[t], t, l, r, b)
<1> SUFFICES ASSUME NEW t \in Threads \ X PROVE Local(d[t], t, l, r, b)
  OBVIOUS
<1> PICK x : x = c[t]
  OBVIOUS
<1>1. /\ d[t] = x /\ k # t /\ l # t
      /\ PostsOK(x, t, q) => PostsOK(x, t, r)
      /\ t \in Uthreads => (t = b <=> t = a)
  BY DEF Aside, Threads
<1>2. Fits(x, k = t) /\ PostsOK(x, t, q) /\ Anchored(x, t, a)
  BY DEF Local
<1>3. Fits(x, l = t)
  BY <1>1, <1>2 DEF Fits
<1>4. Anchored(x, t, b)
  BY <1>1, <1>2 DEF Anchored, AnchoredThread
<1>5. Local(x, t, l, r, b)
  BY <1>1, <1>2, <1>3, <1>4 DEF Local
<1> QED BY <1>1, <1>5

\* A step that resumes no coroutine, creates no thread and makes nobody wait.
CalmThread(x, y, t) ==
    ChainThread(x, y, t) /\ TreeThread(x, y, t) /\ Unborn(x, y, t) /\ WaitThread(x, y)

LEMMA Advance ==
    ASSUME NEW c, NEW d, NEW k, NEW l, NEW q, NEW r, NEW z, NEW y, NEW a, NEW b, NEW X,
           c \in [Threads -> Rec], Live(c, k, q, z, a), Aside(c, d, k, l, q, r, a, b, X),
           \A t \in Threads \cap X : Local(d[t], t, l, r, b),
           \A x \in Threads \cap X : CalmThread(c[x], d[x], x),
           \A u \in Uthreads \cap X : Wakers(c, d, u),
           Corpses(d, y), Someone(d)
    PROVE  Live(d, l, r, y, b)
<1>1. \A t \in Threads : Local(c[t], t, k, q, a)
  BY DEF Live
<1>2. \A t \in Threads : Local(d[t], t, l, r, b)
  BY <1>1, Bystanders
<1>3. \A x \in Threads \ X : d[x] = c[x]
  BY DEF Aside
<1>4. SameChains(c, d)
  BY <1>3, ChainsFrom DEF CalmThread
<1>5. SameParents(c, d) /\ SameCorpses(c, d)
  BY <1>3, TreeFrom DEF CalmThread
<1>6. SameWaits(c, d)
  BY <1>3, <1>5, WaitsFrom DEF CalmThread
<1>7. NoneBorn(c, d)
  BY <1>3 DEF NoneBorn, CalmThread, Unborn, Threads
<1>8. Resumes(c) /\ Waits(c) /\ Children(c) /\ Ranked(c)
  BY DEF Live
<1>9. Resumes(d) /\ Waits(d) /\ Children(d) /\ Ranked(d)
  BY <1>4, <1>5, <1>6, <1>7, <1>8, CalmKeeps DEF Calm
<1> QED BY <1>2, <1>9 DEF Live

----------------------------------------------------------------------------
(* The pieces of the scheduler.                                            *)

Unset(x) == [x EXCEPT !.timer = FALSE]
Buried(x) == [x EXCEPT !.ref = FALSE, !.status = "dead"]
Back(x) == [x EXCEPT !.at = "lua", !.on = {}]
Marked(x, s) == [x EXCEPT !.status = s]
Moved(x, l) == [x EXCEPT !.at = l]
Expected(x) == [x EXCEPT !.waited = TRUE]
Returned(x) == [x EXCEPT !.waited = FALSE]

\* The records x and y differ in nothing but the status, the place and what it
\* waits for.
Kin(x, y) == y.parent = x.parent /\ y.ref = x.ref /\ y.waited = x.waited /\ y.timer = x.timer

LEMMA UnsetFacts ==
    ASSUME NEW x \in Rec
    PROVE  /\ Unset(x) \in Rec /\ ~Unset(x).timer /\ Unset(x).status = x.status
           /\ Unset(x).at = x.at /\ Unset(x).on = x.on /\ Unset(x).ref = x.ref
           /\ Unset(x).parent = x.parent /\ Unset(x).waited = x.waited
  BY DEF Rec, Unset

LEMMA BuriedFacts ==
    ASSUME NEW x \in Rec
    PROVE  /\ Buried(x) \in Rec /\ Buried(x).timer = x.timer /\ Buried(x).status = "dead"
           /\ Buried(x).at = x.at /\ Buried(x).on = x.on /\ ~Buried(x).ref
           /\ Buried(x).parent = x.parent /\ Buried(x).waited = x.waited
  BY DEF Rec, Buried, Statuses

LEMMA BackFacts ==
    ASSUME NEW x \in Rec
    PROVE  /\ Back(x) \in Rec /\ Back(x).at = "lua" /\ Back(x).on = {}
           /\ Back(x).status = x.status /\ Kin(x, Back(x))
  BY DEF Rec, Back, Kin, Places

LEMMA MarkedFacts ==
    ASSUME NEW x \in Rec, NEW s \in Statuses
    PROVE  /\ Marked(x, s) \in Rec /\ Marked(x, s).at = x.at /\ Marked(x, s).on = x.on
           /\ Marked(x, s).status = s /\ Kin(x, Marked(x, s))
  BY DEF Rec, Marked, Kin

LEMMA MovedFacts ==
    ASSUME NEW x \in Rec, NEW l \in Places
    PROVE  /\ Moved(x, l) \in Rec /\ Moved(x, l).at = l /\ Moved(x, l).on = x.on
           /\ Moved(x, l).status = x.status /\ Kin(x, Moved(x, l))
  BY DEF Rec, Moved, Kin

LEMMA WaitedFacts ==
    ASSUME NEW x \in Rec, NEW y \in {Expected(x), Returned(x)}
    PROVE  /\ y \in Rec /\ y.at = x.at /\ y.on = x.on /\ y.status = x.status
           /\ y.parent = x.parent /\ y.ref = x.ref /\ y.timer = x.timer
           /\ Expected(x).waited /\ ~Returned(x).waited
  BY DEF Rec, Expected, Returned

\* One thread has another record.
LEMMA PutFacts ==
    ASSUME NEW c \in [Threads -> Rec], NEW t \in Threads, NEW x \in Rec
    PROVE  LET d == [c EXCEPT ![t] = x] IN
           d \in [Threads -> Rec] /\ d[t] = x /\ \A y \in Threads \ {t} : d[y] = c[y]
  OBVIOUS

LEMMA PieceFacts ==
    ASSUME NEW c \in [Threads -> Rec], NEW t \in Threads
    PROVE  /\ CleanupPending(c, t) = [c EXCEPT ![t] = Unset(c[t])]
           /\ Resumed(c, t) = [c EXCEPT ![t] = Back(c[t])]
           /\ SetRunning(c, t) = [c EXCEPT ![t] = Marked(c[t], "running")]
           /\ [c EXCEPT ![t].waited = FALSE] = [c EXCEPT ![t] = Returned(c[t])]
<1>1. CleanupPending(c, t) = [c EXCEPT ![t] = Unset(c[t])]
  BY DEF CleanupPending, Unset
<1>2. Resumed(c, t) = [c EXCEPT ![t] = Back(c[t])]
  BY DEF Resumed, Back
<1>3. SetRunning(c, t) = [c EXCEPT ![t] = Marked(c[t], "running")]
  BY DEF SetRunning, Marked
<1>4. [c EXCEPT ![t].waited = FALSE] = [c EXCEPT ![t] = Returned(c[t])]
  BY DEF Returned
<1> QED BY <1>1, <1>2, <1>3, <1>4

\* Threads are deleted, or flagged.
Deletes(c, d, ts) == d = Del(c, ts)
Flags(c, d, ws) == d = Flag(c, ws)

LEMMA DelFacts ==
    ASSUME NEW c, NEW d, NEW ts, c \in [Threads -> Rec], Deletes(c, d, ts)
    PROVE  /\ d \in [Threads -> Rec]
           /\ \A t \in Threads : d[t] = IF t \in ts /\ c[t].ref THEN Buried(c[t]) ELSE c[t]
<1>1. \A t \in Threads : d[t] = IF t \in ts /\ c[t].ref THEN Buried(c[t]) ELSE c[t]
  BY DEF Deletes, Del, Buried
<1>2. \A t \in Threads : Buried(c[t]) \in Rec /\ c[t] \in Rec
  BY BuriedFacts
<1>3. \A t \in Threads : d[t] \in Rec
  BY <1>1, <1>2
<1>4. d = [t \in Threads |-> d[t]]
  BY DEF Deletes, Del
<1> QED BY <1>1, <1>3, <1>4

LEMMA FlagFacts ==
    ASSUME NEW c, NEW d, NEW ws, c \in [Threads -> Rec], Flags(c, d, ws)
    PROVE  /\ d \in [Threads -> Rec]
           /\ \A t \in Threads : d[t] = IF t \in ws THEN Expected(c[t]) ELSE c[t]
<1>1. \A t \in Threads : d[t] = IF t \in ws THEN Expected(c[t]) ELSE c[t]
  BY DEF Flags, Flag, Expected
<1>2. \A t \in Threads : Expected(c[t]) \in Rec /\ c[t] \in Rec
  BY WaitedFacts
<1>3. \A t \in Threads : d[t] \in Rec
  BY <1>1, <1>2
<1>4. d = [t \in Threads |-> d[t]]
  BY DEF Flags, Flag
<1> QED BY <1>1, <1>3, <1>4

----------------------------------------------------------------------------
(* The count.                                                              *)

LEMMA CountFacts ==
    ASSUME NEW c, NEW d
    PROVE  /\ IsFiniteSet(CountedIn(c)) /\ Cardinality(CountedIn(c)) \in Nat
           /\ \A u \in CountedIn(c) : CountedIn(d) = CountedIn(c) \ {u} =>
                 Cardinality(CountedIn(d)) = Cardinality(CountedIn(c)) - 1
           /\ \A u : u \notin CountedIn(c) /\ CountedIn(d) = CountedIn(c) \cup {u} =>
                 Cardinality(CountedIn(d)) = Cardinality(CountedIn(c)) + 1
           /\ \A R : R \subseteq CountedIn(c) =>
                 /\ IsFiniteSet(R) /\ Cardinality(R) \in Nat
                 /\ CountedIn(d) = CountedIn(c) \ R =>
                       Cardinality(CountedIn(d)) = Cardinality(CountedIn(c)) - Cardinality(R)
<1>1. ASSUME NEW e PROVE IsFiniteSet(CountedIn(e)) /\ Cardinality(CountedIn(e)) \in Nat
  <2>1. CountedIn(e) \in SUBSET Uthreads
    BY DEF CountedIn
  <2> QED BY <2>1, FS_Subset, FS_CardinalityType
<1> PICK S, T : S = CountedIn(c) /\ T = CountedIn(d)
  OBVIOUS
<1>2. IsFiniteSet(S) /\ Cardinality(S) \in Nat /\ IsFiniteSet(T) /\ Cardinality(T) \in Nat
  BY <1>1
<1>3. \A u \in S : T = S \ {u} => Cardinality(T) = Cardinality(S) - 1
  BY <1>2, FS_RemoveElement
<1>4. \A u : u \notin S /\ T = S \cup {u} => Cardinality(T) = Cardinality(S) + 1
  BY <1>2, FS_AddElement
<1>5. ASSUME NEW R, R \subseteq S
      PROVE  /\ IsFiniteSet(R) /\ Cardinality(R) \in Nat
             /\ T = S \ R => Cardinality(T) = Cardinality(S) - Cardinality(R)
  <2>1. IsFiniteSet(R) /\ Cardinality(R) \in Nat
    BY <1>2, <1>5, FS_Subset, FS_CardinalityType
  <2>2. ASSUME T = S \ R PROVE Cardinality(T) = Cardinality(S) - Cardinality(R)
    <3>1. T \cup R = S /\ T \cap R = {}
      BY <1>5, <2>2
    <3>2. Cardinality(T \cup R) = Cardinality(T) + Cardinality(R) - Cardinality(T \cap R)
      BY <1>2, <2>1, FS_Union
    <3>3. Cardinality(T \cap R) = 0
      BY <3>1, FS_EmptySet
    <3>4. Cardinality(S) = Cardinality(T) + Cardinality(R) - 0
      BY <3>1, <3>2, <3>3
    <3> QED BY <1>2, <2>1, <3>4
  <2> QED BY <2>1, <2>2
<1> QED BY <1>2, <1>3, <1>4, <1>5

\* A step that creates a thread.
LEMMA Bears ==
    ASSUME NEW c, NEW d, NEW k, NEW l, NEW q, NEW r, NEW z, NEW y, NEW a, NEW b, NEW X,
           NEW p \in Threads, NEW v \in Uthreads,
           c \in [Threads -> Rec], Live(c, k, q, z, a), Aside(c, d, k, l, q, r, a, b, X),
           \A t \in Threads \cap X : Local(d[t], t, l, r, b),
           \A x \in Threads \cap X : /\ ChainThread(c[x], d[x], x) /\ TreeThread(c[x], d[x], x)
                                     /\ WaitThread(c[x], d[x]),
           \A u \in Uthreads \cap X : Wakers(c, d, u),
           Born(c, d, p, v), Corpses(d, y), Someone(d)
    PROVE  Live(d, l, r, y, b)
<1>1. \A t \in Threads : Local(c[t], t, k, q, a)
  BY DEF Live
<1>2. \A t \in Threads : Local(d[t], t, l, r, b)
  BY <1>1, Bystanders
<1>3. \A x \in Threads \ X : d[x] = c[x]
  BY DEF Aside
<1>4. SameChains(c, d)
  BY <1>3, ChainsFrom
<1>5. SameParents(c, d)
  BY <1>3, TreeFrom
<1>6. SameWaits(c, d)
  BY <1>3, <1>5, WaitsFrom
<1>7. Resumes(c) /\ Waits(c) /\ Children(c) /\ Ranked(c)
  BY DEF Live
<1>8. Waits(d)
  BY <1>6, <1>7, SameWaitsKeep
<1>9. Resumes(d) /\ \A g : RanksCoros(c, g) => RanksCoros(d, g)
  BY <1>4, <1>7, SameChainsKeep
<1>10. /\ Children(d)
       /\ \A N \in Nat : \A f \in [Uthreads -> 0..N] : RanksThreads(c, f) =>
             \E e \in [Uthreads -> 0..(N + 1)] : RanksThreads(d, e)
  BY <1>5, <1>7, BornKeeps
<1>11. Ranked(d)
  <2>1. PICK N \in Nat : \E f \in [Uthreads -> 0..N], g \in [Threads -> 0..N] :
           RanksThreads(c, f) /\ RanksCoros(c, g)
    BY <1>7 DEF Ranked
  <2>2. PICK f \in [Uthreads -> 0..N], g \in [Threads -> 0..N] :
           RanksThreads(c, f) /\ RanksCoros(c, g)
    BY <2>1
  <2>3. PICK M \in Nat : M = N + 1
    OBVIOUS
  <2>4. PICK e \in [Uthreads -> 0..M] : RanksThreads(d, e)
    BY <1>10, <2>2, <2>3
  <2>5. g \in [Threads -> 0..M]
    BY <2>3
  <2>6. RanksCoros(d, g)
    BY <1>9, <2>2
  <2> QED BY <2>4, <2>5, <2>6 DEF Ranked
<1> QED BY <1>2, <1>8, <1>9, <1>10, <1>11 DEF Live

\* Threads are flagged as waited for.
LEMMA FlagKeeps ==
    ASSUME NEW c, NEW d, NEW k, NEW q, NEW z, NEW a, NEW ws,
           Live(c, k, q, z, a), Flags(c, d, ws), c \in [Threads -> Rec],
           z \in [Threads -> Seq(Uthreads)], k \in Threads \cup {None}
    PROVE  d \in [Threads -> Rec] /\ Live(d, k, q, z, a) /\ CountedIn(d) = CountedIn(c)
<1> PICK X : X = Threads
  OBVIOUS
<1>1. /\ d \in [Threads -> Rec]
      /\ \A t \in Threads : d[t] = IF t \in ws THEN Expected(c[t]) ELSE c[t]
  BY FlagFacts
<1>2. ASSUME NEW t \in Threads
      PROVE  /\ d[t].status = c[t].status /\ d[t].parent = c[t].parent /\ d[t].ref = c[t].ref
             /\ d[t].timer = c[t].timer /\ d[t].at = c[t].at /\ d[t].on = c[t].on
             /\ c[t].waited => d[t].waited
  <2>1. c[t] \in Rec
    OBVIOUS
  <2>2. CASE t \in ws
    <3>1. d[t] = Expected(c[t])
      BY <1>1, <2>2
    <3> QED BY <2>1, <3>1, WaitedFacts
  <2>3. CASE t \notin ws
    BY <1>1, <2>3
  <2> QED BY <2>2, <2>3
<1>3. /\ \A t \in Threads : Local(c[t], t, k, q, a)
      /\ Corpses(c, z) /\ Someone(c)
  BY DEF Live
<1>4. \A t \in Threads \cap X : Local(d[t], t, k, q, a)
  BY <1>2, <1>3 DEF Local, Fits, PostsOK, Awaits, Anchored, AnchoredEntry, AnchoredThread
<1>5. \A t \in Threads \cap X : CalmThread(c[t], d[t], t)
  BY <1>2 DEF CalmThread, ChainThread, TreeThread, Unborn, WaitThread, Active, InWait
<1>6. \A u \in Uthreads \cap X : Wakers(c, d, u)
  BY <1>2 DEF Wakers, Active
<1>7. SameCorpses(c, d)
  BY <1>2 DEF SameCorpses, Threads
<1>8. Corpses(d, z)
  BY <1>3, <1>7, SameCorpsesKeep
<1>9. Someone(d)
  BY <1>2, <1>3 DEF Someone
<1>10. Aside(c, d, k, k, q, q, a, a, X)
  BY DEF Aside, Threads
<1>11. Live(d, k, q, z, a)
  BY <1>4, <1>5, <1>6, <1>8, <1>9, <1>10, Advance
<1>12. CountedIn(d) = CountedIn(c)
  BY <1>2 DEF CountedIn, Threads
<1> QED BY <1>1, <1>11, <1>12

\* Zombies are freed while another thread runs.
Zombies(c, R) == R \subseteq Uthreads /\ \A u \in R : c[u].status = "zombie"

Reapable(c, k, q, z, a) ==
    /\ c \in [Threads -> Rec] /\ z \in [Threads -> Seq(Uthreads)] /\ k \in Threads
    /\ Live(c, k, q, z, a)

Reaps(c, d, k, q, z, a, R) ==
    /\ d \in [Threads -> Rec] /\ Live(d, k, q, z, a)
    /\ \A t \in Threads \ R : d[t] = c[t]
    /\ R \subseteq CountedIn(c) /\ CountedIn(d) = CountedIn(c) \ R

LEMMA ReapKeeps ==
    ASSUME NEW c, NEW d, NEW k, NEW q, NEW z, NEW a, NEW R,
           Reapable(c, k, q, z, a), Zombies(c, R), Deletes(c, d, R)
    PROVE  Reaps(c, d, k, q, z, a, R)
<1>0. /\ c \in [Threads -> Rec] /\ z \in [Threads -> Seq(Uthreads)] /\ k \in Threads
      /\ Live(c, k, q, z, a)
  BY DEF Reapable
<1>1. /\ d \in [Threads -> Rec]
      /\ \A t \in Threads : d[t] = IF t \in R /\ c[t].ref THEN Buried(c[t]) ELSE c[t]
  BY <1>0, DelFacts
<1>2. /\ \A t \in Threads : Local(c[t], t, k, q, a)
      /\ Corpses(c, z) /\ Uthreads \subseteq Threads
  BY <1>0 DEF Live, Threads
<1>3. ASSUME NEW u \in R
      PROVE  /\ u \in Uthreads /\ u \notin Coros /\ u # Entry
             /\ c[u].status = "zombie" /\ c[u].ref /\ ~c[u].timer
             /\ d[u].status = "dead" /\ ~d[u].ref /\ ~d[u].timer /\ d[u].parent = c[u].parent
  <2>1. u \in Uthreads /\ u \notin Coros /\ u # Entry /\ c[u].status = "zombie" /\ c[u] \in Rec
    BY <1>0, <1>2, <1>3 DEF Zombies, Threads
  <2>2. Fits(c[u], k = u) /\ Anchored(c[u], u, a)
    BY <1>2, <2>1 DEF Local
  <2>3. c[u].ref /\ ~c[u].timer
    BY <2>1, <2>2 DEF Fits, Anchored, AnchoredThread
  <2>4. d[u] = Buried(c[u])
    BY <1>1, <1>2, <2>1, <2>3
  <2> QED BY <2>1, <2>3, <2>4, BuriedFacts
<1>4. \A t \in Threads \ R : d[t] = c[t]
  BY <1>1
<1>5. k \notin R
  <2>1. Fits(c[k], k = k)
    BY <1>0, <1>2 DEF Local
  <2> QED BY <1>3, <2>1 DEF Fits
<1>6. \A t \in Threads \cap (R \cup {k}) : Local(d[t], t, k, q, a)
  <2>1. Local(d[k], k, k, q, a)
    BY <1>0, <1>2, <1>4, <1>5
  <2>2. ASSUME NEW t \in R PROVE Local(d[t], t, k, q, a)
    BY <1>3, <1>5 DEF Local, Fits, PostsOK, Awaits, Anchored, AnchoredThread
  <2> QED BY <2>1, <2>2
<1>7. \A t \in Threads \cap (R \cup {k}) : CalmThread(c[t], d[t], t)
  <2>1. CalmThread(c[k], d[k], k)
    BY <1>0, <1>4, <1>5 DEF CalmThread, ChainThread, TreeThread, Unborn, WaitThread
  <2>2. ASSUME NEW t \in R PROVE CalmThread(c[t], d[t], t)
    BY <1>3 DEF CalmThread, ChainThread, TreeThread, Unborn, WaitThread, InWait
  <2> QED BY <2>1, <2>2
<1>8. \A u \in Uthreads \cap (R \cup {k}) : Wakers(c, d, u)
  <2>1. Wakers(c, d, k)
    BY <1>0, <1>4, <1>5 DEF Wakers
  <2>2. ASSUME NEW u \in R PROVE Wakers(c, d, u)
    BY <1>3 DEF Wakers, Active
  <2> QED BY <2>1, <2>2
<1>9. Corpses(d, z)
  <2>1. SameCorpses(c, d)
    BY <1>2, <1>3, <1>4 DEF SameCorpses
  <2> QED BY <1>0, <1>2, <2>1, SameCorpsesKeep
<1>10. Someone(d)
  <2>1. Fits(c[k], k = k)
    BY <1>0, <1>2 DEF Local
  <2> QED BY <1>0, <1>4, <1>5, <2>1 DEF Someone, Fits
<1>11. Aside(c, d, k, k, q, q, a, a, R \cup {k})
  BY <1>0, <1>4 DEF Aside
<1>12. Live(d, k, q, z, a)
  BY <1>0, <1>6, <1>7, <1>8, <1>9, <1>10, <1>11, Advance
<1>13. R \subseteq CountedIn(c)
  BY <1>3 DEF CountedIn
<1>14. CountedIn(d) = CountedIn(c) \ R
  BY <1>2, <1>3, <1>4 DEF CountedIn
<1> QED BY <1>1, <1>4, <1>12, <1>13, <1>14 DEF Reaps

----------------------------------------------------------------------------
(* Calls.                                                                  *)

IInv == Types /\ (misled \/ Sound)

\* The request goes on: what a step must show.
Goes ==
    /\ co' \in [Threads -> Rec] /\ cur' \in Threads \cup {None} /\ uthreads' \in Int
    /\ posted' \in Seq(Threads) /\ zombies' \in [Threads -> Seq(Uthreads)]
    /\ onAbort' \in Uthreads \cup {None} /\ ended' = FALSE /\ misled' \in BOOLEAN
    /\ \/ misled'
       \/ /\ uthreads' = Cardinality(CountedIn(co'))
          /\ Live(co', cur', posted', zombies', onAbort')

LEMMA GoesOn ==
    Goes => IInv'
  BY DEF Goes, IInv, Types, Sound

\* The state before a step of the request.
LEMMA Before ==
    ASSUME IInv, ~misled, ~ended
    PROVE  /\ co \in [Threads -> Rec] /\ cur \in Threads \cup {None} /\ posted \in Seq(Threads)
           /\ zombies \in [Threads -> Seq(Uthreads)] /\ onAbort \in Uthreads \cup {None}
           /\ uthreads = Cardinality(CountedIn(co)) /\ uthreads \in Nat
           /\ Live(co, cur, posted, zombies, onAbort) /\ Corpses(co, zombies)
           /\ Resumes(co) /\ Waits(co) /\ Children(co) /\ Ranked(co)
           /\ None \notin Threads /\ Entry \in Threads /\ misled \in BOOLEAN
           /\ Uthreads \subseteq Threads /\ Coros \subseteq Threads
           /\ \A t \in Threads : /\ co[t] \in Rec /\ Fits(co[t], cur = t)
                                 /\ PostsOK(co[t], t, posted) /\ Anchored(co[t], t, onAbort)
<1>1. Types /\ uthreads = Cardinality(CountedIn(co)) /\ Live(co, cur, posted, zombies, onAbort)
  BY DEF IInv, Sound
<1>2. uthreads \in Nat
  BY <1>1, CountFacts
<1>3. None \notin Threads /\ Entry \in Threads /\ Uthreads \subseteq Threads /\ Coros \subseteq Threads
  BY DEF Threads
<1>4. /\ Corpses(co, zombies) /\ Resumes(co) /\ Waits(co) /\ Children(co) /\ Ranked(co)
      /\ \A t \in Threads : /\ Fits(co[t], cur = t)
                            /\ PostsOK(co[t], t, posted) /\ Anchored(co[t], t, onAbort)
  BY <1>1 DEF Live, Local
<1>5. \A t \in Threads : co[t] \in Rec
  BY <1>1 DEF Types
<1> QED BY <1>1, <1>2, <1>3, <1>4, <1>5 DEF Types

\* The thread that runs.
LEMMA Running ==
    ASSUME IInv, ~misled, NEW t \in Threads, Runs(t)
    PROVE  /\ ~ended /\ cur = t /\ co[t].status = "running" /\ co[t].at = "lua"
           /\ ~co[t].timer /\ NotIn(t, posted)
<1>1. ~ended /\ cur = t
  BY DEF Runs
<1>2. Fits(co[t], TRUE) /\ PostsOK(co[t], t, posted)
  BY <1>1, Before
<1> QED BY <1>1, <1>2 DEF Fits, PostsOK, Awaits

\* Only the thread t changes, and neither its status nor what is anchored: it
\* leaves the processor, or comes back.
Passes(t, x, l, q) ==
    /\ co' = [co EXCEPT ![t] = x] /\ x \in Rec
    /\ x.status = co[t].status /\ x.parent = co[t].parent /\ x.ref = co[t].ref
    /\ x.waited = co[t].waited
    /\ cur' = l /\ l \in {t, None} /\ posted' = q /\ q \in Seq(Threads)
    /\ \A y \in Threads \ {t} : PostsOK(co[y], y, posted) => PostsOK(co[y], y, q)
    /\ PostsOK(x, t, q) /\ Fits(x, l = t) /\ ~InWait(x)
    /\ UNCHANGED <<uthreads, zombies, onAbort, ended>> /\ misled' \in BOOLEAN

LEMMA PassesKeeps ==
    ASSUME IInv, ~misled, ~ended, NEW t \in Threads, co[t].status = "running",
           cur \in {t, None}, NEW x, NEW l, NEW q, Passes(t, x, l, q)
    PROVE  Goes
<1> PICK c, d : c = co /\ d = co'
  OBVIOUS
<1> PICK z, a : z = zombies /\ a = onAbort
  OBVIOUS
<1> PICK k, p : k = cur /\ p = posted
  OBVIOUS
<1>1. /\ c \in [Threads -> Rec] /\ x \in Rec /\ d = [c EXCEPT ![t] = x]
      /\ x.status = "running" /\ x.parent = c[t].parent /\ x.ref = c[t].ref /\ x.waited = c[t].waited
      /\ c[t].status = "running"
  BY Before DEF Passes
<1>2. d \in [Threads -> Rec] /\ d[t] = x /\ \A y \in Threads \ {t} : d[y] = c[y]
  BY <1>1, PutFacts
<1>3. Local(x, t, l, q, a)
  <2>1. Anchored(c[t], t, a)
    BY Before
  <2>2. Anchored(x, t, a)
    BY <1>1, <2>1 DEF Anchored, AnchoredEntry, AnchoredThread
  <2> QED BY <2>2 DEF Passes, Local
<1>4. CalmThread(c[t], x, t)
  BY <1>1 DEF CalmThread, ChainThread, TreeThread, Unborn, WaitThread, Active, Passes
<1>5. t \in Uthreads => Wakers(c, d, t)
  BY <1>1, <1>2 DEF Wakers, Active
<1>6. Someone(d)
  BY <1>1, <1>2 DEF Someone
<1>7. Corpses(d, z)
  <2>1. Corpses(c, z) /\ z \in [Threads -> Seq(Uthreads)]
    BY Before
  <2>2. SameCorpses(c, d)
    BY <1>1, <1>2, Before DEF SameCorpses
  <2> QED BY <2>1, <2>2, SameCorpsesKeep
<1>8. Aside(c, d, k, l, p, q, a, a, {t})
  BY <1>2 DEF Aside, Passes
<1>9. Live(d, l, q, z, a)
  <2>1. Live(c, k, p, z, a)
    BY Before
  <2>2. \A y \in Threads \cap {t} : Local(d[y], y, l, q, a)
    BY <1>2, <1>3
  <2>3. \A y \in Threads \cap {t} : CalmThread(c[y], d[y], y)
    BY <1>2, <1>4
  <2>4. \A u \in Uthreads \cap {t} : Wakers(c, d, u)
    BY <1>5
  <2>5. c \in [Threads -> Rec]
    BY <1>1
  <2> QED BY <1>6, <1>7, <1>8, <2>1, <2>2, <2>3, <2>4, <2>5, Advance
<1>10. CountedIn(d) = CountedIn(c)
  <2>1. \A u \in Uthreads : d[u].ref = c[u].ref /\ d[u].status = c[u].status
    BY <1>1, <1>2, Before
  <2> QED BY <2>1 DEF CountedIn
<1>11. /\ cur' = l /\ posted' = q /\ zombies' = z /\ onAbort' = a /\ ended' = FALSE
       /\ uthreads' = uthreads /\ misled' \in BOOLEAN /\ l \in Threads \cup {None}
       /\ q \in Seq(Threads)
  BY DEF Passes
<1>12. uthreads' \in Int /\ z \in [Threads -> Seq(Uthreads)] /\ a \in Uthreads \cup {None}
       /\ uthreads' = Cardinality(CountedIn(d))
  BY <1>10, <1>11, Before
<1> QED BY <1>2, <1>9, <1>11, <1>12 DEF Goes

LEMMA SleepGoes ==
    ASSUME IInv, ~misled, NEW t \in Threads, Sleep(t)
    PROVE  Goes
<1>1. /\ ~ended /\ cur = t /\ co[t].status = "running" /\ NotIn(t, posted)
      /\ co[t] \in Rec /\ co \in [Threads -> Rec] /\ posted \in Seq(Threads) /\ None \notin Threads
      /\ misled \in BOOLEAN
  BY Running, Before DEF Sleep
<1> PICK x : x = [co[t] EXCEPT !.timer = TRUE, !.at = "sleep"]
  OBVIOUS
<1>2. /\ x \in Rec /\ x.timer = TRUE /\ x.at = "sleep" /\ x.status = "running"
      /\ x.parent = co[t].parent /\ x.ref = co[t].ref /\ x.waited = co[t].waited
  BY <1>1 DEF Rec, Places
<1>3. co' = [co EXCEPT ![t] = x]
  BY <1>1 DEF Sleep
<1>4. PostsOK(x, t, posted) /\ Fits(x, None = t) /\ ~InWait(x)
  BY <1>1, <1>2 DEF PostsOK, Awaits, Fits, InWait
<1>5. Passes(t, x, None, posted)
  BY <1>1, <1>2, <1>3, <1>4 DEF Sleep, Passes
<1> QED BY <1>1, <1>5, PassesKeeps

LEMMA YieldThreadGoes ==
    ASSUME IInv, ~misled, NEW t \in Threads, YieldThread(t)
    PROVE  Goes
<1>1. /\ ~ended /\ cur = t /\ co[t].status = "running" /\ NotIn(t, posted) /\ ~co[t].timer
      /\ co[t] \in Rec /\ co \in [Threads -> Rec] /\ posted \in Seq(Threads) /\ None \notin Threads
      /\ misled \in BOOLEAN
  BY Running, Before DEF YieldThread
<1> PICK x, q : x = Moved(co[t], "yield") /\ q = Append(posted, t)
  OBVIOUS
<1>2. /\ x \in Rec /\ ~x.timer /\ x.at = "yield" /\ x.status = "running"
      /\ x.parent = co[t].parent /\ x.ref = co[t].ref /\ x.waited = co[t].waited
  <2>1. "yield" \in Places
    BY DEF Places
  <2>2. Kin(co[t], x) /\ x \in Rec /\ x.at = "yield" /\ x.status = co[t].status
    BY <1>1, <2>1, MovedFacts
  <2> QED BY <1>1, <2>2 DEF Kin
<1>3. co' = [co EXCEPT ![t] = x]
  BY <1>1 DEF YieldThread, Moved
<1>4. q \in Seq(Threads) /\ OnceIn(t, q)
  BY <1>1, AppendPosts
<1>5. \A y \in Threads \ {t} : PostsOK(co[y], y, posted) => PostsOK(co[y], y, q)
  BY <1>1, AppendPosts DEF PostsOK
<1>6. PostsOK(x, t, q) /\ Fits(x, None = t) /\ ~InWait(x)
  BY <1>1, <1>2, <1>4 DEF PostsOK, Awaits, Fits, InWait
<1>7. Passes(t, x, None, q)
  BY <1>1, <1>2, <1>3, <1>4, <1>5, <1>6 DEF YieldThread, Passes, Post
<1> QED BY <1>1, <1>7, PassesKeeps

\* A thread that is off the processor comes back to it.
LEMMA BackGoes ==
    ASSUME IInv, ~misled, ~ended, cur = None, NEW t \in Threads, co[t].status = "running",
           NEW w \in {co[t], Unset(co[t])}, ~w.timer, NEW q \in Seq(Threads), NotIn(t, q),
           \A y \in Threads \ {t} : PostsOK(co[y], y, posted) => PostsOK(co[y], y, q),
           co' = [co EXCEPT ![t] = Back(w)], cur' = t, posted' = q,
           UNCHANGED <<uthreads, zombies, onAbort, ended>>, misled' \in BOOLEAN
    PROVE  Goes
<1>1. co[t] \in Rec
  BY Before
<1>2. /\ w \in Rec /\ w.status = "running" /\ w.parent = co[t].parent /\ w.ref = co[t].ref
      /\ w.waited = co[t].waited
  BY <1>1, UnsetFacts
<1> PICK x : x = Back(w)
  OBVIOUS
<1>3. /\ x \in Rec /\ x.at = "lua" /\ x.status = "running" /\ Kin(w, x)
  BY <1>2, BackFacts
<1>4. /\ x.timer = w.timer /\ x.parent = co[t].parent /\ x.ref = co[t].ref
      /\ x.waited = co[t].waited
  BY <1>2, <1>3 DEF Kin
<1>5. PostsOK(x, t, q) /\ Fits(x, TRUE) /\ ~InWait(x)
  BY <1>3, <1>4 DEF PostsOK, Awaits, Fits, InWait
<1>6. Passes(t, x, t, q)
  BY <1>3, <1>4, <1>5 DEF Passes
<1> QED BY <1>6, PassesKeeps

LEMMA RunPostedGoes ==
    ASSUME IInv, ~misled, RunPosted
    PROVE  Goes
<1> PICK t, q : t = Head(posted) /\ q = Tail(posted)
  OBVIOUS
<1>1. /\ cur = None /\ ~ended /\ posted # <<>> /\ posted' = q
      /\ UNCHANGED <<uthreads, zombies, onAbort, ended>>
      /\ posted \in Seq(Threads) /\ co \in [Threads -> Rec]
  BY Before DEF RunPosted
<1>2. t \in Threads /\ q \in Seq(Threads) /\ ~NotIn(t, posted)
  BY <1>1, TailPosts
<1>3. ASSUME NEW y \in Threads \ {t}, PostsOK(co[y], y, posted) PROVE PostsOK(co[y], y, q)
  BY <1>1, <1>3, TailPosts DEF PostsOK
<1>4. /\ PostsOK(co[t], t, posted) /\ Fits(co[t], FALSE) /\ co[t] \in Rec
      /\ None \notin Threads
  <2>1. (None = t) = FALSE
    BY <1>2, Before, <1>1
  <2> QED BY <1>1, <1>2, <2>1, Before
<1>5. CASE co[t].status = "running"
  <2>1. Awaits(co[t]) /\ OnceIn(t, posted)
    BY <1>2, <1>4, <1>5 DEF PostsOK
  <2>2. NotIn(t, q) /\ ~co[t].timer
    BY <1>1, <1>4, <2>1, TailPosts DEF Fits, Awaits
  <2>3. co' = [co EXCEPT ![t] = Back(co[t])] /\ cur' = t /\ misled' \in BOOLEAN
    BY <1>1, <1>2, <1>5, PieceFacts DEF RunPosted
  <2> QED BY <1>1, <1>2, <1>3, <1>5, <2>2, <2>3, BackGoes
<1>6. CASE co[t].status # "running"
  <2>1. co[t].status = "dead"
    BY <1>2, <1>4, <1>6 DEF PostsOK, Awaits
  <2>2. UNCHANGED <<co, cur, misled>>
    BY <1>6 DEF RunPosted
  <2>3. PostsOK(co[t], t, q)
    BY <2>1 DEF PostsOK, Awaits
  <2>4. \A x \in Threads : PostsOK(co[x], x, posted) => PostsOK(co[x], x, q)
    BY <1>3, <2>3
  <2>5. Live(co, cur, posted, zombies, onAbort)
    BY <1>1, Before
  <2>6. Live(co, cur, q, zombies, onAbort)
    BY <2>4, <2>5 DEF Live, Local
  <2>7. uthreads = Cardinality(CountedIn(co)) /\ Types
    BY <1>1, Before DEF IInv
  <2> QED BY <1>1, <1>2, <2>2, <2>6, <2>7 DEF Goes, Types
<1> QED BY <1>5, <1>6

LEMMA SleepHandlerGoes ==
    ASSUME IInv, ~misled, NEW t \in Threads, SleepHandler(t)
    PROVE  Goes
<1>1. /\ cur = None /\ ~ended /\ posted = <<>> /\ cur' = t /\ co[t].timer
      /\ UNCHANGED <<uthreads, posted, zombies, onAbort, ended>> /\ misled' \in BOOLEAN
  BY DEF SleepHandler, InEventLoop
<1>2. co \in [Threads -> Rec] /\ co[t] \in Rec /\ Fits(co[t], cur = t) /\ posted \in Seq(Threads)
  BY <1>1, Before
<1>3. co[t].status = "running"
  BY <1>1, <1>2 DEF Fits
<1> PICK w : w = Unset(co[t])
  OBVIOUS
<1>4. ~w.timer /\ w \in Rec
  BY <1>2, UnsetFacts
<1>5. co' = [co EXCEPT ![t] = Back(w)]
  <2>1. CleanupPending(co, t) = [co EXCEPT ![t] = w]
    BY <1>2, PieceFacts
  <2> PICK d : d = [co EXCEPT ![t] = w]
    OBVIOUS
  <2>2. d \in [Threads -> Rec] /\ d[t] = w
    BY <1>2, <1>4
  <2>3. co' = Resumed(d, t)
    BY <2>1 DEF SleepHandler, CleanupPending
  <2>4. co' = [d EXCEPT ![t] = Back(w)]
    BY <2>2, <2>3, PieceFacts
  <2> QED BY <1>2, <2>4
<1>6. NotIn(t, posted)
  BY <1>1 DEF NotIn
<1> QED BY <1>1, <1>2, <1>3, <1>4, <1>5, <1>6, BackGoes

LEMMA SpawnGoes ==
    ASSUME IInv, ~misled, NEW t \in Threads, NEW u \in Uthreads, Spawn(t, u)
    PROVE  Goes
<1> PICK c, d, q, p : c = co /\ d = co' /\ q = posted /\ p = Append(posted, t)
  OBVIOUS
<1> PICK z, a, k : z = zombies /\ a = onAbort /\ k = cur
  OBVIOUS
<1> PICK x, y : x = Moved(c[t], "spawn") /\ y = [Started EXCEPT !.parent = t]
  OBVIOUS
<1>1. /\ c \in [Threads -> Rec] /\ q \in Seq(Threads) /\ z \in [Threads -> Seq(Uthreads)]
      /\ a \in Uthreads \cup {None} /\ u \in Threads /\ c[t] \in Rec
      /\ uthreads = Cardinality(CountedIn(c)) /\ uthreads \in Nat
      /\ k = t /\ c[t].status = "running" /\ ~c[t].timer /\ NotIn(t, q) /\ ~ended
      /\ c[u].status = "none" /\ u # t /\ u \notin Coros /\ u # Entry
  BY Running, Before DEF Spawn
<1>2. /\ x \in Rec /\ x.at = "spawn" /\ x.status = "running" /\ ~x.timer
      /\ x.parent = c[t].parent /\ x.ref = c[t].ref /\ x.waited = c[t].waited
  <2>1. "spawn" \in Places
    BY DEF Places
  <2>2. Kin(c[t], x) /\ x \in Rec /\ x.at = "spawn" /\ x.status = c[t].status
    BY <1>1, <2>1, MovedFacts
  <2> QED BY <1>1, <2>2 DEF Kin
<1>3. /\ y \in Rec /\ y.at = "lua" /\ y.status = "running" /\ ~y.timer /\ y.ref /\ y.parent = t
  BY DEF Started, Absent, Rec, Statuses, Places
<1>4. /\ d \in [Threads -> Rec] /\ d[t] = x /\ d[u] = y
      /\ \A v \in Threads \ {t, u} : d[v] = c[v]
  <2>1. d = [co EXCEPT ![u] = y, ![t].at = "spawn"]
    BY DEF Spawn
  <2>2. d = [[c EXCEPT ![u] = y] EXCEPT ![t] = x]
    BY <1>1, <2>1 DEF Moved
  <2>3. PICK w \in [Threads -> Rec] :
           w[u] = y /\ (\A v \in Threads \ {u} : w[v] = c[v]) /\ d = [w EXCEPT ![t] = x]
    <3>1. LET w == [c EXCEPT ![u] = y] IN
          w \in [Threads -> Rec] /\ w[u] = y /\ \A v \in Threads \ {u} : w[v] = c[v]
      BY <1>1, <1>3, PutFacts
    <3> QED BY <2>2, <3>1
  <2>4. d \in [Threads -> Rec] /\ d[t] = x /\ \A v \in Threads \ {t} : d[v] = w[v]
    BY <1>2, <2>3, PutFacts
  <2> QED BY <1>1, <2>3, <2>4
<1>5. p \in Seq(Threads) /\ OnceIn(t, p) /\ \A v \in Threads \ {t} : NotIn(v, q) => NotIn(v, p)
  BY <1>1, AppendPosts
<1>6. \A v \in Threads \ {t} : PostsOK(c[v], v, q) => PostsOK(c[v], v, p)
  BY <1>1, AppendPosts DEF PostsOK
<1>7. \A v \in Threads \cap {t, u} : Local(d[v], v, u, p, a)
  <2>1. Anchored(c[t], t, a) /\ PostsOK(c[u], u, q)
    BY <1>1, Before
  <2>2. Anchored(x, t, a)
    BY <1>1, <1>2, <2>1 DEF Anchored, AnchoredEntry, AnchoredThread
  <2>3. Local(x, t, u, p, a)
    BY <1>1, <1>2, <1>5, <2>2 DEF Local, Fits, PostsOK, Awaits
  <2>4. NotIn(u, p)
    BY <1>1, <1>5, <2>1 DEF PostsOK, Awaits
  <2>5. Local(y, u, u, p, a)
    BY <1>1, <1>3, <2>4 DEF Local, Fits, PostsOK, Awaits, Anchored, AnchoredThread
  <2> QED BY <1>4, <2>3, <2>5
<1>8. \A v \in Threads \cap {t, u} :
         ChainThread(c[v], d[v], v) /\ TreeThread(c[v], d[v], v) /\ WaitThread(c[v], d[v])
  <2>1. ChainThread(c[t], x, t) /\ TreeThread(c[t], x, t) /\ WaitThread(c[t], x)
    BY <1>1, <1>2 DEF ChainThread, TreeThread, WaitThread, Active, InWait
  <2>2. ChainThread(c[u], y, u) /\ TreeThread(c[u], y, u) /\ WaitThread(c[u], y)
    BY <1>1, <1>3 DEF ChainThread, TreeThread, WaitThread, InWait
  <2> QED BY <1>4, <2>1, <2>2
<1>9. \A v \in Uthreads \cap {t, u} : Wakers(c, d, v)
  BY <1>1, <1>2, <1>4 DEF Wakers, Active
<1>10. Born(c, d, t, u)
  BY <1>1, <1>3, <1>4 DEF Born, Threads
<1>11. Aside(c, d, k, u, q, p, a, a, {t, u})
  BY <1>1, <1>4, <1>6 DEF Aside
<1>12. Corpses(d, z)
  <2>1. SameCorpses(c, d)
    BY <1>1, <1>4 DEF SameCorpses, Threads
  <2> QED BY <1>1, <2>1, Before, SameCorpsesKeep
<1>13. Someone(d)
  BY <1>1, <1>3, <1>4 DEF Someone
<1>14. Live(c, k, q, z, a)
  BY <1>1, Before
<1>15. Live(d, u, p, z, a)
  <2>1. c \in [Threads -> Rec]
    BY <1>1
  <2> QED BY <1>7, <1>8, <1>9, <1>10, <1>11, <1>12, <1>13, <1>14, <2>1, Bears
<1>16. uthreads' = Cardinality(CountedIn(d)) /\ uthreads' \in Int
  <2>1. Anchored(c[u], u, a)
    BY <1>1, Before
  <2>2. u \notin CountedIn(c)
    BY <1>1, <2>1 DEF CountedIn, Anchored, AnchoredThread
  <2>3. CountedIn(d) = CountedIn(c) \cup {u}
    <3>1. \A v \in Uthreads \ {u} : d[v].ref = c[v].ref /\ d[v].status = c[v].status
      BY <1>1, <1>2, <1>4 DEF Threads
    <3>2. d[u].ref /\ d[u].status # "suspended"
      BY <1>3, <1>4
    <3> QED BY <3>1, <3>2 DEF CountedIn
  <2>4. Cardinality(CountedIn(d)) = Cardinality(CountedIn(c)) + 1
    BY <2>2, <2>3, CountFacts
  <2>5. uthreads' = uthreads + 1
    BY DEF Spawn
  <2> QED BY <1>1, <2>4, <2>5
<1>17. /\ cur' = u /\ posted' = p /\ zombies' = z /\ onAbort' = a /\ ended' = FALSE
       /\ misled' \in BOOLEAN
  BY <1>1, Before DEF Spawn, Post
<1> QED BY <1>1, <1>4, <1>5, <1>15, <1>16, <1>17 DEF Goes

LEMMA RegisterAbortGoes ==
    ASSUME IInv, ~misled, NEW t \in Threads, NEW u \in Uthreads, RegisterAbort(t, u)
    PROVE  Goes
<1> PICK c, d, q, z : c = co /\ d = co' /\ q = posted /\ z = zombies
  OBVIOUS
<1> PICK a, k, y : a = onAbort /\ k = cur
                   /\ y = [Absent EXCEPT !.status = "suspended", !.ref = TRUE, !.parent = t]
  OBVIOUS
<1>1. /\ c \in [Threads -> Rec] /\ q \in Seq(Threads) /\ z \in [Threads -> Seq(Uthreads)]
      /\ u \in Threads /\ c[t] \in Rec /\ None \notin Threads /\ misled \in BOOLEAN
      /\ uthreads = Cardinality(CountedIn(c)) /\ uthreads \in Nat
      /\ k = t /\ c[t].status = "running" /\ ~ended
      /\ c[u].status = "none" /\ u # t /\ u \notin Coros /\ u # Entry /\ a = None
      /\ Uthreads \subseteq Threads
  BY Running, Before DEF RegisterAbort
<1>2. /\ y \in Rec /\ y.at = "start" /\ y.status = "suspended" /\ ~y.timer /\ y.ref /\ y.parent = t
  BY DEF Absent, Rec, Statuses, Places
<1>3. d \in [Threads -> Rec] /\ d[u] = y /\ \A v \in Threads \ {u} : d[v] = c[v]
  <2>1. d = [c EXCEPT ![u] = y]
    BY DEF RegisterAbort
  <2> QED BY <1>1, <1>2, <2>1, PutFacts
<1>4. \A v \in Threads \cap {t, u} : Local(d[v], v, k, q, u)
  <2>1. /\ Fits(c[t], k = t) /\ PostsOK(c[t], t, q) /\ Anchored(c[t], t, a)
        /\ PostsOK(c[u], u, q)
    BY <1>1, Before
  <2>2. Anchored(c[t], t, u)
    BY <1>1, <2>1 DEF Anchored, AnchoredEntry, AnchoredThread
  <2>3. Local(c[t], t, k, q, u)
    BY <2>1, <2>2 DEF Local
  <2>4. NotIn(u, q)
    BY <1>1, <2>1 DEF PostsOK, Awaits
  <2>5. Local(y, u, k, q, u)
    BY <1>1, <1>2, <2>4 DEF Local, Fits, PostsOK, Awaits, Anchored, AnchoredThread
  <2> QED BY <1>1, <1>3, <2>3, <2>5
<1>5. \A v \in Threads \cap {t, u} :
         ChainThread(c[v], d[v], v) /\ TreeThread(c[v], d[v], v) /\ WaitThread(c[v], d[v])
  <2>1. ChainThread(c[t], c[t], t) /\ TreeThread(c[t], c[t], t) /\ WaitThread(c[t], c[t])
    BY DEF ChainThread, TreeThread, WaitThread
  <2>2. ChainThread(c[u], y, u) /\ TreeThread(c[u], y, u) /\ WaitThread(c[u], y)
    BY <1>1, <1>2 DEF ChainThread, TreeThread, WaitThread, InWait
  <2>3. d[t] = c[t] /\ d[u] = y
    BY <1>1, <1>3
  <2> QED BY <2>1, <2>2, <2>3
<1>6. \A v \in Uthreads \cap {t, u} : Wakers(c, d, v)
  BY <1>1, <1>3 DEF Wakers, Active
<1>7. Born(c, d, t, u)
  BY <1>1, <1>2, <1>3 DEF Born
<1>8. Aside(c, d, k, k, q, q, a, u, {t, u})
  BY <1>1, <1>3 DEF Aside
<1>9. Corpses(d, z)
  <2>1. SameCorpses(c, d)
    BY <1>1, <1>3 DEF SameCorpses
  <2> QED BY <1>1, <2>1, Before, SameCorpsesKeep
<1>10. Someone(d)
  BY <1>1, <1>3 DEF Someone
<1>11. Live(d, k, q, z, u)
  <2>1. c \in [Threads -> Rec] /\ Live(c, k, q, z, a)
    BY <1>1, Before
  <2> QED BY <1>4, <1>5, <1>6, <1>7, <1>8, <1>9, <1>10, <2>1, Bears
<1>12. CountedIn(d) = CountedIn(c)
  <2>1. Anchored(c[u], u, a)
    BY <1>1, Before
  <2>2. u \notin CountedIn(c)
    BY <1>1, <2>1 DEF CountedIn, Anchored, AnchoredThread
  <2>3. (\A v \in Uthreads \ {u} : d[v] = c[v]) /\ d[u].status = "suspended"
    BY <1>1, <1>2, <1>3
  <2> QED BY <2>2, <2>3 DEF CountedIn
<1>13. /\ cur' = k /\ posted' = q /\ zombies' = z /\ onAbort' = u /\ ended' = FALSE
       /\ misled' \in BOOLEAN /\ uthreads' = uthreads /\ k \in Threads
  BY <1>1 DEF RegisterAbort
<1> QED BY <1>1, <1>3, <1>11, <1>12, <1>13 DEF Goes

LEMMA CreateGoes ==
    ASSUME IInv, ~misled, NEW t \in Threads, NEW x \in Coros, Create(t, x)
    PROVE  Goes
<1> PICK c, d, q, z : c = co /\ d = co' /\ q = posted /\ z = zombies
  OBVIOUS
<1> PICK a, k, y : a = onAbort /\ k = cur /\ y = Marked(c[x], "suspended")
  OBVIOUS
<1>1. /\ c \in [Threads -> Rec] /\ q \in Seq(Threads) /\ z \in [Threads -> Seq(Uthreads)]
      /\ x \in Threads /\ c[x] \in Rec /\ misled \in BOOLEAN
      /\ uthreads = Cardinality(CountedIn(c)) /\ uthreads \in Nat
      /\ k = t /\ c[t].status = "running" /\ ~ended
      /\ c[x].status = "none" /\ x # t /\ x \notin Uthreads /\ x # Entry
      /\ Uthreads \subseteq Threads /\ a \in Uthreads \cup {None}
  BY Running, Before DEF Create
<1>2. Fits(c[x], FALSE) /\ PostsOK(c[x], x, q) /\ Anchored(c[x], x, a)
  <2>1. (cur = x) = FALSE
    BY <1>1
  <2> QED BY <1>1, <2>1, Before
<1>3. /\ y \in Rec /\ y.status = "suspended" /\ ~y.timer /\ ~y.ref /\ y.at # "wait"
  <2>1. "suspended" \in Statuses
    BY DEF Statuses
  <2>2. y \in Rec /\ y.status = "suspended" /\ y.at = c[x].at /\ Kin(c[x], y)
    BY <1>1, <2>1, MarkedFacts
  <2> QED BY <1>1, <1>2, <2>2 DEF Kin, Fits, Anchored
<1>4. d \in [Threads -> Rec] /\ d[x] = y /\ \A v \in Threads \ {x} : d[v] = c[v]
  <2>1. d = [c EXCEPT ![x] = y]
    BY DEF Create, Marked
  <2> QED BY <1>1, <1>3, <2>1, PutFacts
<1>5. \A v \in Threads \cap {t, x} : Local(d[v], v, k, q, a)
  <2>1. Local(c[t], t, k, q, a)
    BY <1>1, Before DEF Local
  <2>2. NotIn(x, q)
    BY <1>1, <1>2 DEF PostsOK, Awaits
  <2>3. Local(y, x, k, q, a)
    BY <1>1, <1>3, <2>2 DEF Local, Fits, PostsOK, Awaits, Anchored
  <2> QED BY <1>1, <1>4, <2>1, <2>3
<1>6. \A v \in Threads \cap {t, x} : CalmThread(c[v], d[v], v)
  BY <1>1, <1>3, <1>4 DEF CalmThread, ChainThread, TreeThread, Unborn, WaitThread, Active, InWait
<1>7. \A v \in Uthreads \cap {t, x} : Wakers(c, d, v)
  BY <1>1, <1>4 DEF Wakers
<1>8. Aside(c, d, k, k, q, q, a, a, {t, x})
  BY <1>1, <1>4 DEF Aside
<1>9. Corpses(d, z)
  <2>1. SameCorpses(c, d)
    BY <1>1, <1>4 DEF SameCorpses
  <2> QED BY <1>1, <2>1, Before, SameCorpsesKeep
<1>10. Someone(d)
  BY <1>1, <1>4 DEF Someone
<1>11. Live(d, k, q, z, a)
  <2>1. c \in [Threads -> Rec] /\ Live(c, k, q, z, a)
    BY <1>1, Before
  <2> QED BY <1>5, <1>6, <1>7, <1>8, <1>9, <1>10, <2>1, Advance
<1>12. CountedIn(d) = CountedIn(c)
  BY <1>1, <1>4 DEF CountedIn
<1>13. /\ cur' = k /\ posted' = q /\ zombies' = z /\ onAbort' = a /\ ended' = FALSE
       /\ misled' \in BOOLEAN /\ uthreads' = uthreads /\ k \in Threads
  BY <1>1 DEF Create
<1> QED BY <1>1, <1>4, <1>11, <1>12, <1>13 DEF Goes

LEMMA KillGoes ==
    ASSUME IInv, ~misled, NEW t \in Threads, NEW u \in Uthreads, Kill(t, u)
    PROVE  Goes
<1> PICK c, d, q, z : c = co /\ d = co' /\ q = posted /\ z = zombies
  OBVIOUS
<1> PICK a, k, y : a = onAbort /\ k = cur /\ y = Buried(Unset(c[u]))
  OBVIOUS
<1>1. /\ c \in [Threads -> Rec] /\ q \in Seq(Threads) /\ z \in [Threads -> Seq(Uthreads)]
      /\ u \in Threads /\ c[u] \in Rec /\ misled \in BOOLEAN
      /\ uthreads = Cardinality(CountedIn(c)) /\ uthreads \in Nat
      /\ k = t /\ c[t].status = "running" /\ c[t].at = "lua" /\ ~ended
      /\ c[u].parent = t /\ c[u].status \notin {"none", "suspended", "dead"}
      /\ u \notin Coros /\ u # Entry
      /\ Uthreads \subseteq Threads /\ a \in Uthreads \cup {None}
  BY Running, Before DEF Kill, IsChild, Killable, Known
<1>2. u # t
  BY <1>1, Before DEF Children
<1>3. c[u].ref /\ Fits(c[u], FALSE)
  <2>1. (cur = u) = FALSE
    BY <1>1, <1>2
  <2>2. Anchored(c[u], u, a) /\ Fits(c[u], FALSE)
    BY <1>1, <2>1, Before
  <2> QED BY <1>1, <2>2 DEF Anchored, AnchoredThread
<1>4. /\ y \in Rec /\ y.status = "dead" /\ ~y.timer /\ ~y.ref /\ y.parent = t
  <2>1. Unset(c[u]) \in Rec /\ ~Unset(c[u]).timer /\ Unset(c[u]).parent = t
    BY <1>1, UnsetFacts
  <2> QED BY <2>1, BuriedFacts
<1>5. d \in [Threads -> Rec] /\ d[u] = y /\ \A v \in Threads \ {u} : d[v] = c[v]
  <2> DEFINE e == IF co[u].status = "zombie" THEN co ELSE CleanupPending(co, u)
  <2>1. d = Del(e, {u})
    BY DEF Kill
  <2>2. e = [c EXCEPT ![u] = Unset(c[u])]
    <3>1. CASE c[u].status = "zombie"
      <4>1. ~c[u].timer
        BY <1>3, <3>1 DEF Fits
      <4>2. Unset(c[u]) = c[u]
        BY <1>1, <4>1 DEF Unset, Rec
      <4> QED BY <1>1, <3>1, <4>2
    <3>2. CASE c[u].status # "zombie"
      BY <1>1, <3>2, PieceFacts
    <3> QED BY <3>1, <3>2
  <2> HIDE DEF e
  <2>3. Unset(c[u]) \in Rec /\ Unset(c[u]).ref = c[u].ref
    BY <1>1, UnsetFacts
  <2>4. /\ e \in [Threads -> Rec] /\ e[u] = Unset(c[u]) /\ e[u].ref
        /\ \A v \in Threads \ {u} : e[v] = c[v]
    BY <1>1, <1>3, <2>2, <2>3
  <2>5. Deletes(e, d, {u})
    BY <2>1 DEF Deletes
  <2>6. /\ d \in [Threads -> Rec]
        /\ \A v \in Threads : d[v] = IF v \in {u} /\ e[v].ref THEN Buried(e[v]) ELSE e[v]
    BY <2>4, <2>5, DelFacts
  <2> QED BY <1>1, <2>4, <2>6
<1>6. \A v \in Threads \cap {t, u} : Local(d[v], v, k, q, a)
  <2>1. Local(c[t], t, k, q, a)
    BY <1>1, Before DEF Local
  <2>2. Local(y, u, k, q, a)
    BY <1>1, <1>2, <1>4 DEF Local, Fits, PostsOK, Awaits, Anchored, AnchoredThread
  <2> QED BY <1>2, <1>5, <2>1, <2>2
<1>7. \A v \in Threads \cap {t, u} : CalmThread(c[v], d[v], v)
  BY <1>1, <1>4, <1>5 DEF CalmThread, ChainThread, TreeThread, Unborn, WaitThread, Active, InWait
<1>8. \A v \in Uthreads \cap {t, u} : Wakers(c, d, v)
  <2>1. d[t] = c[t]
    BY <1>2, <1>5
  <2> QED BY <1>1, <2>1 DEF Wakers, InWait
<1>9. Aside(c, d, k, k, q, q, a, a, {t, u})
  BY <1>1, <1>5 DEF Aside
<1>10. Corpses(d, z)
  <2>1. SameCorpses(c, d)
    BY <1>1, <1>4, <1>5 DEF SameCorpses
  <2> QED BY <1>1, <2>1, Before, SameCorpsesKeep
<1>11. Someone(d)
  BY <1>1, <1>2, <1>5 DEF Someone
<1>12. Live(d, k, q, z, a)
  <2>1. c \in [Threads -> Rec] /\ Live(c, k, q, z, a)
    BY <1>1, Before
  <2> QED BY <1>6, <1>7, <1>8, <1>9, <1>10, <1>11, <2>1, Advance
<1>13. uthreads' = Cardinality(CountedIn(d)) /\ uthreads' \in Int
  <2>1. u \in CountedIn(c)
    BY <1>1, <1>3 DEF CountedIn
  <2>2. CountedIn(d) = CountedIn(c) \ {u}
    BY <1>1, <1>4, <1>5 DEF CountedIn
  <2>3. Cardinality(CountedIn(d)) = Cardinality(CountedIn(c)) - 1
    BY <2>1, <2>2, CountFacts
  <2>4. uthreads' = uthreads - 1
    BY DEF Kill
  <2> QED BY <1>1, <2>3, <2>4
<1>14. /\ cur' = k /\ posted' = q /\ zombies' = z /\ onAbort' = a /\ ended' = FALSE
       /\ misled' \in BOOLEAN /\ k \in Threads
  BY <1>1 DEF Kill
<1> QED BY <1>1, <1>5, <1>12, <1>13, <1>14 DEF Goes

LEMMA ResumeGoes ==
    ASSUME IInv, ~misled, NEW t \in Threads, NEW x \in Coros, Resume(t, x)
    PROVE  Goes
<1> PICK c, d, q, z : c = co /\ d = co' /\ q = posted /\ z = zombies
  OBVIOUS
<1> PICK a, k : a = onAbort /\ k = cur
  OBVIOUS
<1>1. /\ c \in [Threads -> Rec] /\ q \in Seq(Threads) /\ z \in [Threads -> Seq(Uthreads)]
      /\ x \in Threads /\ c[x] \in Rec /\ c[t] \in Rec /\ misled \in BOOLEAN
      /\ uthreads = Cardinality(CountedIn(c)) /\ uthreads \in Nat
      /\ k = t /\ c[t].status = "running" /\ c[t].at = "lua" /\ ~c[t].timer /\ NotIn(t, q)
      /\ ~ended /\ c[x].status = "suspended"
      /\ x \notin Uthreads /\ x # Entry /\ x # t
      /\ Uthreads \subseteq Threads /\ a \in Uthreads \cup {None} /\ Coros \subseteq Threads
  BY Running, Before DEF Resume
<1>2. /\ Anchored(c[t], t, a) /\ Anchored(c[x], x, a) /\ NotIn(x, q) /\ Fits(c[x], FALSE)
  <2>1. (cur = x) = FALSE
    BY <1>1
  <2>2. PostsOK(c[x], x, q) /\ Fits(c[x], FALSE) /\ Anchored(c[t], t, a) /\ Anchored(c[x], x, a)
    BY <1>1, <2>1, Before
  <2> QED BY <1>1, <2>2 DEF PostsOK, Awaits
<1>3. /\ d \in [Threads -> Rec] /\ \A v \in Threads \ {t, x} : d[v] = c[v]
      /\ d[t].status = "normal" /\ d[t].at = "resume" /\ ~d[t].timer /\ d[t].ref = c[t].ref
      /\ d[t].parent = c[t].parent /\ d[t].waited = c[t].waited
      /\ d[x].status = "running" /\ d[x].at = "lua" /\ ~d[x].timer /\ ~d[x].ref
      /\ d[x].parent = t
  <2> PICK y : y = [c[t] EXCEPT !.status = "normal", !.at = "resume"]
    OBVIOUS
  <2> PICK w : w = [c[x] EXCEPT !.status = "running", !.parent = t, !.at = "lua", !.on = {}]
    OBVIOUS
  <2>1. /\ y \in Rec /\ y.status = "normal" /\ y.at = "resume" /\ ~y.timer /\ y.ref = c[t].ref
        /\ y.parent = c[t].parent /\ y.waited = c[t].waited
    BY <1>1 DEF Rec, Statuses, Places
  <2>2. ~c[x].timer /\ ~c[x].ref
    BY <1>1, <1>2 DEF Fits, Anchored
  <2>3. /\ w \in Rec /\ w.status = "running" /\ w.at = "lua" /\ ~w.timer /\ ~w.ref /\ w.parent = t
    BY <1>1, <2>2 DEF Rec, Statuses, Places
  <2>4. d = Resumed([co EXCEPT ![t].status = "normal", ![t].at = "resume",
                              ![x].status = "running", ![x].parent = t], x)
    BY DEF Resume
  <2>5. d = [c EXCEPT ![t].status = "normal", ![t].at = "resume", ![x].status = "running",
                      ![x].parent = t, ![x].at = "lua", ![x].on = {}]
    BY <2>4 DEF Resumed
  <2>6. d[t] = y /\ d[x] = w /\ (\A v \in Threads \ {t, x} : d[v] = c[v]) /\ DOMAIN d = Threads
    BY <1>1, <2>5
  <2>7. d = [v \in Threads |-> d[v]]
    BY <1>1, <2>5
  <2>8. ASSUME NEW v \in Threads PROVE d[v] \in Rec
    <3>1. c[v] \in Rec
      BY <1>1
    <3> QED BY <2>1, <2>3, <2>6, <3>1
  <2>9. d \in [Threads -> Rec]
    BY <2>7, <2>8
  <2> QED BY <2>1, <2>3, <2>6, <2>9
<1>4. \A v \in Threads \ {x} :
         /\ Active(d[v]) <=> Active(c[v])
         /\ d[v].parent = c[v].parent /\ d[v].ref = c[v].ref /\ d[v].waited = c[v].waited
         /\ d[v].status = "suspended" <=> c[v].status = "suspended"
  <2>1. /\ Active(d[t]) /\ Active(c[t])
        /\ d[t].status # "suspended" /\ c[t].status # "suspended"
    BY <1>1, <1>3 DEF Active
  <2>2. \A v \in Threads \ {t, x} : d[v] = c[v]
    BY <1>3
  <2>3. d[t].parent = c[t].parent /\ d[t].ref = c[t].ref /\ d[t].waited = c[t].waited
    BY <1>3
  <2> QED BY <2>1, <2>2, <2>3
<1>5. \A v \in Threads \cap {t, x} : Local(d[v], v, x, q, a)
  <2>1. Local(d[t], t, x, q, a)
    BY <1>1, <1>2, <1>3
       DEF Local, Fits, PostsOK, Awaits, Anchored, AnchoredEntry, AnchoredThread
  <2>2. Local(d[x], x, x, q, a)
    BY <1>1, <1>2, <1>3 DEF Local, Fits, PostsOK, Awaits, Anchored
  <2> QED BY <2>1, <2>2
<1>6. \A v \in Threads : Local(d[v], v, x, q, a)
  <2>1. Aside(c, d, k, x, q, q, a, a, {t, x})
    BY <1>1, <1>3 DEF Aside
  <2>2. \A v \in Threads : Local(c[v], v, k, q, a)
    BY <1>1, Before DEF Local
  <2> QED BY <1>5, <2>1, <2>2, Bystanders
<1>7. Resumes(c) /\ Waits(c) /\ Children(c) /\ Ranked(c) /\ Corpses(c, z)
  BY <1>1, Before
<1>8. Resumes(d)
  <2>1. ASSUME NEW y \in Coros, Active(c[y])
        PROVE  c[y].parent \in Threads \ {t, x} /\ Active(d[y]) /\ d[y].parent = c[y].parent
    <3>1. y # x
      BY <1>1, <2>1 DEF Active
    <3>2. c[y].parent \in Threads \ {t, x}
      BY <1>1, <1>7, <2>1 DEF Resumes
    <3> QED BY <1>1, <1>4, <2>1, <3>1, <3>2
  <2>2. \A y \in Coros \ {x} : Active(d[y]) => Active(c[y])
    BY <1>1, <1>4
  <2>3. \A y \in Coros : Riding(d, t, y) <=> y = x
    <3>1. ASSUME NEW y \in Coros, Riding(d, t, y), y # x PROVE FALSE
      <4>1. Active(d[y]) /\ d[y].parent = t
        BY <3>1 DEF Riding
      <4>2. Active(c[y])
        BY <2>2, <3>1, <4>1
      <4>3. d[y].parent # t
        BY <2>1, <4>2
      <4> QED BY <4>1, <4>3
    <3>2. Riding(d, t, x)
      BY <1>3 DEF Riding, Active
    <3> QED BY <3>1, <3>2
  <2>4. ASSUME NEW v \in Threads \ {t, x}
        PROVE  \A y \in Coros : Riding(d, v, y) <=> Riding(c, v, y)
    <3>1. \A y \in Coros \ {x} : Active(d[y]) <=> Active(c[y])
      BY <1>1, <1>4
    <3>2. \A y \in Coros \ {x} : d[y].parent = c[y].parent
      BY <1>1, <1>4
    <3>3. ~Riding(d, v, x) /\ ~Riding(c, v, x)
      BY <1>1, <1>3, <2>4 DEF Riding, Active
    <3> QED BY <3>1, <3>2, <3>3 DEF Riding
  <2>5. ASSUME NEW v \in Threads, d[v].status = "normal"
        PROVE  \E y \in Coros : Riding(d, v, y) /\ \A w \in Coros : Riding(d, v, w) => w = y
    <3>1. CASE v = t
      BY <2>3, <3>1
    <3>2. CASE v # t
      <4>1. v # x /\ c[v].status = "normal"
        BY <1>3, <2>5, <3>2
      <4> QED BY <1>7, <2>4, <3>2, <4>1 DEF Resumes
    <3> QED BY <3>1, <3>2
  <2>6. ASSUME NEW y \in Coros, Active(d[y])
        PROVE  d[y].parent \in Threads /\ d[d[y].parent].status \in {"normal", "dead"}
    <3>1. CASE y = x
      BY <1>3, <3>1
    <3>2. CASE y # x
      <4>1. /\ c[y].parent \in Threads \ {t, x} /\ d[y].parent = c[y].parent
            /\ c[c[y].parent].status \in {"normal", "dead"}
        BY <1>7, <2>1, <2>2, <2>6, <3>2 DEF Resumes
      <4> QED BY <1>3, <4>1
    <3> QED BY <3>1, <3>2
  <2> QED BY <2>5, <2>6 DEF Resumes
<1>9. SameParents(c, d) /\ SameCorpses(c, d) /\ NoneBorn(c, d)
  <2>1. \A v \in Threads \ {t, x} : d[v] = c[v]
    BY <1>3
  <2>2. \A v \in Uthreads : d[v].parent = c[v].parent
    BY <1>1, <1>4
  <2>3. c[t].status = "running" /\ d[t].status = "normal" /\ d[x].status = "running"
    BY <1>1, <1>3
  <2> QED BY <1>1, <2>1, <2>2, <2>3 DEF SameParents, SameCorpses, NoneBorn
<1>10. Waits(d)
  <2>1. \A v \in Threads \ {t, x} : d[v] = c[v]
    BY <1>3
  <2>2. \A v \in Threads \cap {t, x} : WaitThread(c[v], d[v])
    BY <1>3 DEF WaitThread, InWait
  <2>3. \A v \in Uthreads \cap {t, x} : Wakers(c, d, v)
    BY <1>1, <1>3 DEF Wakers, Active
  <2>4. SameParents(c, d) /\ c \in [Threads -> Rec]
    BY <1>1, <1>9
  <2>5. SameWaits(c, d)
    BY <2>1, <2>2, <2>3, <2>4, WaitsFrom
  <2> QED BY <1>7, <2>5, SameWaitsKeep
<1>11. Ranked(d)
  <2>1. PICK N \in Nat : \E f \in [Uthreads -> 0..N], g \in [Threads -> 0..N] :
           RanksThreads(c, f) /\ RanksCoros(c, g)
    BY <1>7 DEF Ranked
  <2>2. PICK f \in [Uthreads -> 0..N], g \in [Threads -> 0..N] :
           RanksThreads(c, f) /\ RanksCoros(c, g)
    BY <2>1
  <2>3. RanksThreads(d, f)
    BY <1>7, <1>9, <2>2, SameParentsKeep
  <2> PICK M, h : M = N + 1 /\ h = [g EXCEPT ![x] = N + 1]
    OBVIOUS
  <2>4. /\ M \in Nat /\ f \in [Uthreads -> 0..M] /\ h \in [Threads -> 0..M] /\ h[x] = N + 1
        /\ \A v \in Threads \ {x} : h[v] = g[v] /\ g[v] \in 0..N
    BY <1>1
  <2>5. RanksCoros(d, h)
    <3> SUFFICES ASSUME NEW y \in Coros, Active(d[y]) PROVE h[d[y].parent] < h[y]
      BY DEF RanksCoros
    <3>1. CASE y = x
      BY <1>1, <1>3, <2>4, <3>1
    <3>2. CASE y # x
      <4>1. Active(c[y])
        BY <1>1, <1>4, <3>2
      <4>2. c[y].parent \in Threads \ {t, x}
        BY <1>1, <1>7, <4>1 DEF Resumes
      <4>3. d[y].parent = c[y].parent
        BY <1>1, <1>4, <3>2
      <4>4. g[c[y].parent] < g[y]
        BY <2>2, <4>1 DEF RanksCoros
      <4> QED BY <1>1, <2>4, <3>2, <4>2, <4>3, <4>4
    <3> QED BY <3>1, <3>2
  <2> QED BY <2>3, <2>4, <2>5 DEF Ranked
<1>12. Children(d)
  BY <1>7, <1>9, SameParentsKeep
<1>13. Corpses(d, z)
  BY <1>1, <1>7, <1>9, SameCorpsesKeep
<1>14. Someone(d)
  BY <1>3 DEF Someone
<1>15. Live(d, x, q, z, a)
  BY <1>6, <1>8, <1>10, <1>11, <1>12, <1>13, <1>14 DEF Live
<1>16. CountedIn(d) = CountedIn(c)
  <2>1. \A v \in Uthreads :
           d[v].ref = c[v].ref /\ (d[v].status = "suspended" <=> c[v].status = "suspended")
    BY <1>1, <1>4
  <2> QED BY <2>1 DEF CountedIn
<1>17. /\ cur' = x /\ posted' = q /\ zombies' = z /\ onAbort' = a /\ ended' = FALSE
       /\ misled' \in BOOLEAN /\ uthreads' = uthreads
  BY <1>1 DEF Resume
<1> QED BY <1>1, <1>3, <1>15, <1>16, <1>17 DEF Goes

\* ngx.thread.wait: it sets flags, and returns at once or yields.
LEMMA FlagGoes ==
    ASSUME IInv, ~misled, ~ended, NEW ws
    PROVE  LET e == Flag(co, ws) IN
           /\ e \in [Threads -> Rec] /\ Live(e, cur, posted, zombies, onAbort)
           /\ CountedIn(e) = CountedIn(co)
           /\ \A v \in Threads : e[v] = IF v \in ws THEN Expected(co[v]) ELSE co[v]
<1> PICK c, k, q, z, a : c = co /\ k = cur /\ q = posted /\ z = zombies /\ a = onAbort
  OBVIOUS
<1>1. /\ c \in [Threads -> Rec] /\ z \in [Threads -> Seq(Uthreads)] /\ k \in Threads \cup {None}
      /\ Live(c, k, q, z, a)
  BY Before
<1> PICK e : e = Flag(c, ws)
  OBVIOUS
<1>2. Flags(c, e, ws)
  BY DEF Flags
<1>3. \A v \in Threads : e[v] = IF v \in ws THEN Expected(c[v]) ELSE c[v]
  BY <1>1, <1>2, FlagFacts
<1>4. e \in [Threads -> Rec] /\ Live(e, k, q, z, a) /\ CountedIn(e) = CountedIn(c)
  BY <1>1, <1>2, FlagKeeps
<1> QED BY <1>3, <1>4

WaitCall(t, us) ==
    /\ us \in Seq(Uthreads) /\ us # <<>> /\ \A i \in DOMAIN us : Known(us[i])
    /\ UNCHANGED <<posted, zombies, onAbort, ended, misled>>

\* It flags ws, and frees the zombie u or nobody.
Flagging(ws) ==
    /\ co' = Flag(co, ws) /\ uthreads' = uthreads
    /\ UNCHANGED <<cur, posted, zombies, onAbort, ended, misled>>

Reaping(ws, u) ==
    /\ co[u].status = "zombie" /\ co' = Del(Flag(co, ws), {u}) /\ uthreads' = uthreads - 1
    /\ UNCHANGED <<cur, posted, zombies, onAbort, ended, misled>>

Only(R, u) == R = {u}

LEMMA FlaggingGoes ==
    ASSUME IInv, ~misled, ~ended, NEW ws, Flagging(ws)
    PROVE  Goes
<1>1. /\ co' \in [Threads -> Rec] /\ Live(co', cur, posted, zombies, onAbort)
      /\ CountedIn(co') = CountedIn(co)
  BY FlagGoes DEF Flagging
<1>2. /\ uthreads' = Cardinality(CountedIn(co)) /\ uthreads' \in Int
      /\ UNCHANGED <<cur, posted, zombies, onAbort, ended, misled>>
  BY Before DEF Flagging
<1> QED BY <1>1, <1>2, Before DEF Goes

LEMMA ReapingGoes ==
    ASSUME IInv, ~misled, NEW t \in Threads, Runs(t), NEW ws, NEW u \in Uthreads, Reaping(ws, u)
    PROVE  Goes
<1> PICK c, d, e : c = co /\ d = co' /\ e = Flag(co, ws)
  OBVIOUS
<1> PICK k, q, z, a : k = cur /\ q = posted /\ z = zombies /\ a = onAbort
  OBVIOUS
<1> PICK R : Only(R, u)
  BY DEF Only
<1>1. /\ k = t /\ ~ended /\ z \in [Threads -> Seq(Uthreads)] /\ c \in [Threads -> Rec]
      /\ uthreads = Cardinality(CountedIn(c)) /\ uthreads \in Nat /\ u \in Threads
      /\ q \in Seq(Threads) /\ a \in Uthreads \cup {None} /\ misled \in BOOLEAN
  BY Running, Before
<1>2. /\ e \in [Threads -> Rec] /\ Live(e, k, q, z, a) /\ CountedIn(e) = CountedIn(c)
      /\ \A v \in Threads : e[v] = IF v \in ws THEN Expected(c[v]) ELSE c[v]
  BY <1>1, FlagGoes
<1>3. e[u].status = "zombie"
  <2>1. c[u] \in Rec /\ c[u].status = "zombie"
    BY <1>1 DEF Reaping
  <2>2. Expected(c[u]).status = c[u].status
    BY <2>1, WaitedFacts
  <2> QED BY <1>1, <1>2, <2>1, <2>2
<1>4. Zombies(e, R) /\ Deletes(e, d, R)
  BY <1>3 DEF Zombies, Deletes, Reaping, Only
<1>5. /\ d \in [Threads -> Rec] /\ Live(d, k, q, z, a)
      /\ R \subseteq CountedIn(e) /\ CountedIn(d) = CountedIn(e) \ R
  <2>1. Reapable(e, k, q, z, a)
    BY <1>1, <1>2 DEF Reapable
  <2>2. Reaps(e, d, k, q, z, a, R)
    BY <1>4, <2>1, ReapKeeps
  <2> QED BY <2>2 DEF Reaps
<1>6. Cardinality(CountedIn(d)) = Cardinality(CountedIn(c)) - 1
  <2>1. u \in CountedIn(c) /\ CountedIn(d) = CountedIn(c) \ {u}
    BY <1>2, <1>5 DEF Only
  <2> QED BY <2>1, CountFacts
<1>7. uthreads' = Cardinality(CountedIn(d)) /\ uthreads' \in Int
  BY <1>1, <1>6 DEF Reaping
<1>8. /\ cur' \in Threads \cup {None} /\ posted' \in Seq(Threads)
      /\ zombies' \in [Threads -> Seq(Uthreads)] /\ onAbort' \in Uthreads \cup {None}
      /\ ended' = FALSE /\ misled' \in BOOLEAN /\ Live(co', cur', posted', zombies', onAbort')
  <2>1. cur' = k /\ posted' = q /\ zombies' = z /\ onAbort' = a /\ ended' = ended /\ misled' = misled
    BY DEF Reaping
  <2> QED BY <1>1, <1>5, <2>1
<1> QED BY <1>5, <1>7, <1>8 DEF Goes

LEMMA WaitReturnsGoes ==
    ASSUME IInv, ~misled, NEW t \in Threads, NEW us, WaitCall(t, us), Runs(t),
           NEW i, i \in DOMAIN us, WaitReturns(t, us, i)
    PROVE  Goes
<1>1. CASE IsChild(t, us[i]) /\ co[us[i]].status = "zombie"
  <2>1. Reaping(Flagged(us, i), us[i]) /\ us[i] \in Uthreads
    BY <1>1 DEF WaitReturns, WaitCall, Reaping, IsChild
  <2> QED BY <2>1, ReapingGoes
<1>2. CASE ~(IsChild(t, us[i]) /\ co[us[i]].status = "zombie")
  <2>1. Flagging(Flagged(us, i)) /\ ~ended
    BY <1>2 DEF WaitReturns, WaitCall, Flagging, Runs
  <2> QED BY <2>1, FlaggingGoes
<1> QED BY <1>1, <1>2

AllFlagged(us, ws) == ws = Flagged(us, Len(us) + 1)

LEMMA WaitYieldsGoes ==
    ASSUME IInv, ~misled, NEW t \in Threads, NEW us, WaitCall(t, us), Runs(t),
           WaitYields(t, us)
    PROVE  Goes
<1> PICK ws : AllFlagged(us, ws)
  BY DEF AllFlagged
<1> PICK c, d, q, z : c = co /\ d = co' /\ q = posted /\ z = zombies
  OBVIOUS
<1> PICK a, k, e : a = onAbort /\ k = cur /\ e = Flag(c, ws)
  OBVIOUS
<1>1. /\ c \in [Threads -> Rec] /\ q \in Seq(Threads) /\ z \in [Threads -> Seq(Uthreads)]
      /\ misled \in BOOLEAN /\ uthreads = Cardinality(CountedIn(c)) /\ uthreads \in Nat
      /\ k = t /\ ~ended /\ a \in Uthreads \cup {None}
      /\ Uthreads \subseteq Threads /\ None \notin Threads
      /\ c[t].status = "running" /\ c[t].at = "lua" /\ ~c[t].timer /\ NotIn(t, q)
  BY Running, Before
<1>2. /\ e \in [Threads -> Rec] /\ Live(e, k, q, z, a) /\ CountedIn(e) = CountedIn(c)
      /\ \A v \in Threads : e[v] = IF v \in ws THEN Expected(c[v]) ELSE c[v]
  BY <1>1, FlagGoes
<1>3. /\ ws \subseteq Uthreads
      /\ \A u \in ws : c[u].parent = t /\ c[u].status # "dead"
  <2>1. \A j \in 1..Len(us) : us[j] \in Uthreads /\ IsChild(t, us[j])
    BY DEF WaitYields, EndsLoop, WaitCall
  <2>2. ws = {us[j] : j \in {h \in 1..Len(us) : co[us[h]].status # "dead"}}
    BY DEF Flagged, AllFlagged
  <2> QED BY <2>1, <2>2 DEF IsChild
<1>4. t \notin ws
  <2>1. Children(c)
    BY <1>1, Before
  <2> QED BY <1>1, <1>3, <2>1 DEF Children
<1>5. PICK u \in ws : Active(c[u])
  <2> PICK n : n = Len(us)
    OBVIOUS
  <2>1. n \in 1..Len(us) /\ n \in DOMAIN us
    BY DEF WaitCall
  <2>2. ~EndsLoop(t, us, n) /\ Known(us[n])
    BY <2>1 DEF WaitYields, WaitCall
  <2>3. us[n] \in Uthreads /\ us[n] \in Threads
    BY <1>1, <2>1 DEF WaitCall
  <2>4. co[us[n]].status \notin {"zombie", "dead", "none", "suspended"}
    BY <2>2 DEF EndsLoop, Known
  <2>5. co[us[n]].status \in Statuses
    BY <1>1, <2>3 DEF Rec
  <2>6. Active(c[us[n]])
    BY <2>4, <2>5 DEF Statuses, Active
  <2>7. us[n] \in ws
    <3>1. ws = {us[j] : j \in {h \in 1..Len(us) : co[us[h]].status # "dead"}}
      BY DEF Flagged, AllFlagged
    <3> QED BY <2>1, <2>4, <3>1
  <2> QED BY <2>6, <2>7
<1> PICK x : x = [c[t] EXCEPT !.at = "wait", !.on = ws]
  OBVIOUS
<1>6. /\ x \in Rec /\ x.at = "wait" /\ x.on = ws /\ x.status = "running" /\ ~x.timer
      /\ x.parent = c[t].parent /\ x.ref = c[t].ref /\ x.waited = c[t].waited
  <2>1. c[t] \in Rec
    BY <1>1
  <2> QED BY <1>1, <1>3, <2>1 DEF Rec, Places
<1>7. /\ d \in [Threads -> Rec] /\ d[t] = x /\ \A v \in Threads \ {t} : d[v] = e[v]
      /\ e[t] = c[t]
  <2>1. PICK w \in [Threads -> Rec] :
           w[t] = x /\ (\A v \in Threads \ {t} : w[v] = c[v]) /\ Flags(w, d, ws)
    <3>1. /\ [c EXCEPT ![t] = x] \in [Threads -> Rec] /\ [c EXCEPT ![t] = x][t] = x
          /\ \A v \in Threads \ {t} : [c EXCEPT ![t] = x][v] = c[v]
      BY <1>1, <1>6
    <3>2. d = Flag([co EXCEPT ![t].at = "wait", ![t].on = ws], ws)
      BY DEF WaitYields, AllFlagged
    <3>3. [c EXCEPT ![t] = x] = [co EXCEPT ![t].at = "wait", ![t].on = ws]
      BY <1>1
    <3> QED BY <3>1, <3>2, <3>3 DEF Flags
  <2>2. Flags(w, d, ws)
    BY <2>1
  <2>3. /\ d \in [Threads -> Rec]
        /\ \A v \in Threads : d[v] = IF v \in ws THEN Expected(w[v]) ELSE w[v]
    BY <2>2, FlagFacts
  <2> QED BY <1>2, <1>4, <2>1, <2>3
<1>8. /\ \A v \in Threads : Local(e[v], v, k, q, a)
      /\ Resumes(e) /\ Waits(e) /\ Children(e) /\ Corpses(e, z) /\ Ranked(e)
  BY <1>2 DEF Live
<1>9. \A v \in Threads \cap {t} : Local(d[v], v, None, q, a)
  <2>1. Anchored(c[t], t, a)
    BY <1>1, Before
  <2>2. Anchored(x, t, a)
    BY <1>6, <2>1 DEF Anchored, AnchoredEntry, AnchoredThread
  <2>3. Fits(x, None = t)
    BY <1>1, <1>6 DEF Fits
  <2>4. Local(x, t, None, q, a)
    BY <1>1, <1>6, <2>2, <2>3 DEF Local, PostsOK, Awaits
  <2> QED BY <1>7, <2>4
<1>10. \A v \in Threads : Local(d[v], v, None, q, a)
  <2>1. Aside(e, d, k, None, q, q, a, a, {t})
    BY <1>1, <1>7 DEF Aside
  <2> QED BY <1>8, <1>9, <2>1, Bystanders
<1>11. /\ \A v \in Threads \cap {t} : ChainThread(e[v], d[v], v) /\ TreeThread(e[v], d[v], v)
       /\ \A v \in Threads \ {t} : d[v] = e[v]
  <2>1. ChainThread(c[t], x, t) /\ TreeThread(c[t], x, t)
    BY <1>1, <1>6 DEF ChainThread, TreeThread, Active
  <2> QED BY <1>7, <2>1
<1>12. SameChains(e, d)
  BY <1>11, ChainsFrom
<1>13. SameParents(e, d) /\ SameCorpses(e, d)
  BY <1>11, TreeFrom
<1>14. NoneBorn(e, d)
  BY <1>1, <1>7 DEF NoneBorn
<1>15. Resumes(d) /\ \A g : RanksCoros(e, g) => RanksCoros(d, g)
  BY <1>8, <1>12, SameChainsKeep
<1>16. Children(d) /\ \A f : RanksThreads(e, f) => RanksThreads(d, f)
  BY <1>8, <1>13, <1>14, SameParentsKeep
<1>17. Ranked(d)
  BY <1>8, <1>15, <1>16 DEF Ranked
<1>18. Corpses(d, z)
  BY <1>1, <1>8, <1>13, SameCorpsesKeep
<1>19. Someone(d)
  BY <1>6, <1>7 DEF Someone
<1>20. Waits(d)
  <2>1. ASSUME NEW v \in Threads
        PROVE  /\ d[v].status = e[v].status /\ d[v].waited = e[v].waited
               /\ d[v].parent = e[v].parent
    <3>1. d[v] = IF v = t THEN x ELSE e[v]
      BY <1>7
    <3> QED BY <1>1, <1>6, <1>7, <3>1
  <2>2. WaitsFor(d, t, u)
    <3>1. u \in Threads \ {t} /\ c[u] \in Rec
      BY <1>1, <1>3, <1>4
    <3>2. d[u] = Expected(c[u])
      <4>1. e[u] = Expected(c[u])
        BY <1>2, <3>1
      <4> QED BY <1>7, <3>1, <4>1
    <3> QED BY <1>3, <1>5, <3>1, <3>2, WaitedFacts DEF WaitsFor, Active
  <2>3. ASSUME NEW v \in Threads \ {t}, InWait(d[v])
        PROVE  \E y \in d[v].on : WaitsFor(d, v, y)
    <3>1. d[v] = e[v]
      BY <1>7
    <3>2. PICK y \in e[v].on : WaitsFor(e, v, y)
      BY <1>8, <2>3, <3>1 DEF Waits
    <3>3. y \in Threads
      BY <1>1, <1>2 DEF Rec
    <3> QED BY <2>1, <3>1, <3>2, <3>3 DEF WaitsFor, Active
  <2>4. \E y \in d[t].on : WaitsFor(d, t, y)
    BY <1>6, <1>7, <2>2
  <2> QED BY <2>3, <2>4 DEF Waits
<1>21. Live(d, None, q, z, a)
  BY <1>10, <1>15, <1>16, <1>17, <1>18, <1>19, <1>20 DEF Live
<1>22. CountedIn(d) = CountedIn(c)
  <2>1. ASSUME NEW v \in Uthreads PROVE d[v].ref = e[v].ref /\ d[v].status = e[v].status
    <3>1. v \in Threads /\ d[v] = IF v = t THEN x ELSE e[v]
      BY <1>1, <1>7
    <3> QED BY <1>1, <1>6, <1>7, <3>1
  <2>2. CountedIn(d) = CountedIn(e)
    BY <2>1 DEF CountedIn
  <2> QED BY <1>2, <2>2
<1>23. /\ cur' = None /\ posted' = q /\ zombies' = z /\ onAbort' = a /\ ended' = FALSE
       /\ misled' \in BOOLEAN /\ uthreads' = uthreads
  BY <1>1 DEF WaitYields, WaitCall
<1> QED BY <1>1, <1>7, <1>21, <1>22, <1>23 DEF Goes

LEMMA ThreadWaitGoes ==
    ASSUME IInv, ~misled, NEW t \in Threads, NEW us \in SeqOf(Uthreads, MaxArgs) \ {<<>>},
           ThreadWait(t, us)
    PROVE  Goes
<1>1. us \in Seq(Uthreads) /\ us # <<>>
  BY DEF SeqOf
<1>2. /\ Runs(t) /\ WaitCall(t, us)
      /\ (\E i \in DOMAIN us : WaitReturns(t, us, i)) \/ WaitYields(t, us)
  BY <1>1 DEF ThreadWait, WaitCall
<1> QED BY <1>1, <1>2, WaitReturnsGoes, WaitYieldsGoes

----------------------------------------------------------------------------
(* The end of a request, and its start.                                    *)

\* Whoever is alive is visited: the rest has nothing left.
Stoppable(c) ==
    /\ \A u \in Uthreads : /\ c[u].status \notin {"none", "dead"} => c[u].ref
                           /\ c[u].status = "suspended" => u = onAbort
    /\ \A t \in Threads \ Coros : c[t].timer => c[t].ref

LEMMA FinalizeKeeps ==
    ASSUME NEW c, NEW n, c \in [Threads -> Rec], n = Cardinality(CountedIn(c)), Stoppable(c),
           FinalizeThreads(c, n), misled' \in BOOLEAN
    PROVE  IInv'
<1> PICK d : d = co'
  OBVIOUS
<1>1. /\ \A t \in Threads : d[t] = IF c[t].ref THEN [c[t] EXCEPT !.timer = FALSE, !.ref = FALSE,
                                                                !.status = "dead"]
                                   ELSE c[t]
      /\ d = [t \in Threads |-> d[t]]
  BY DEF FinalizeThreads
<1>2. ASSUME NEW t \in Threads
      PROVE  /\ d[t] \in Rec
             /\ c[t].ref => ~d[t].timer /\ ~d[t].ref /\ d[t].status = "dead"
             /\ ~c[t].ref => d[t] = c[t]
  <2>1. c[t] \in Rec
    OBVIOUS
  <2>2. CASE c[t].ref
    <3>1. d[t] = [c[t] EXCEPT !.timer = FALSE, !.ref = FALSE, !.status = "dead"]
      BY <1>1, <2>2
    <3> PICK x : x = Unset(c[t])
      OBVIOUS
    <3>2. x \in Rec /\ ~x.timer
      BY <2>1, UnsetFacts
    <3>3. d[t] = Buried(x)
      BY <2>1, <3>1 DEF Buried, Unset, Rec
    <3>4. /\ Buried(x) \in Rec /\ ~Buried(x).timer /\ ~Buried(x).ref
          /\ Buried(x).status = "dead"
      BY <3>2, BuriedFacts
    <3> QED BY <2>2, <3>3, <3>4
  <2>3. CASE ~c[t].ref
    BY <1>1, <2>1, <2>3
  <2> QED BY <2>2, <2>3
<1>3. d \in [Threads -> Rec]
  BY <1>1, <1>2
<1>4. Counted(c) = CountedIn(c)
  BY DEF Counted, CountedIn, Stoppable
<1>5. Finished(d)
  <2>1. \A t \in Threads \ Coros : ~d[t].timer
    BY <1>2 DEF Stoppable
  <2>2. ASSUME NEW u \in Uthreads PROVE d[u].status \in {"none", "dead"} /\ ~d[u].ref
    <3>1. u \in Threads
      BY DEF Threads
    <3> QED BY <1>2, <3>1 DEF Stoppable
  <2> QED BY <2>1, <2>2 DEF Finished
<1>6. uthreads' = 0
  <2>1. Cardinality(CountedIn(c)) \in Nat
    BY CountFacts
  <2>2. uthreads' = n - Cardinality(CountedIn(c))
    BY <1>4 DEF FinalizeThreads
  <2> QED BY <2>1, <2>2
<1>7. Cardinality(CountedIn(d)) = 0
  <2>1. CountedIn(d) = {}
    BY <1>5 DEF Finished, CountedIn
  <2> QED BY <2>1, FS_EmptySet
<1>8. Types'
  <2>1. /\ cur' = None /\ posted' = <<>> /\ zombies' = [t \in Threads |-> <<>>]
        /\ onAbort' = None /\ ended' = TRUE
    BY DEF FinalizeThreads
  <2> QED BY <1>3, <1>6, <2>1 DEF Types
<1>9. Sound'
  <2>1. ended' = TRUE
    BY DEF FinalizeThreads
  <2> QED BY <1>5, <1>6, <1>7, <2>1 DEF Sound
<1> QED BY <1>8, <1>9 DEF IInv

LEMMA Fresh ==
    ASSUME NEW c, c = [t \in Threads |-> IF t = Entry THEN Started ELSE Absent]
    PROVE  /\ c \in [Threads -> Rec] /\ CountedIn(c) = {}
           /\ Live(c, Entry, <<>>, [t \in Threads |-> <<>>], None)
<1> PICK z : z = [t \in Threads |-> <<>>]
  OBVIOUS
<1>1. /\ Started \in Rec /\ Started.status = "running" /\ Started.ref /\ ~Started.timer
      /\ Started.at = "lua"
      /\ Absent \in Rec /\ Absent.status = "none" /\ ~Absent.ref /\ ~Absent.timer
      /\ Absent.at = "start"
  BY DEF Started, Absent, Rec, Statuses, Places
<1>2. /\ Entry \in Threads /\ Entry \notin Uthreads /\ Entry \notin Coros
      /\ Uthreads \subseteq Threads /\ Coros \subseteq Threads
  BY DEF Threads
<1>3. /\ c[Entry] = Started /\ \A t \in Threads \ {Entry} : c[t] = Absent
      /\ c \in [Threads -> Rec]
  BY <1>1, <1>2
<1>4. ASSUME NEW t \in Threads PROVE Local(c[t], t, Entry, <<>>, None)
  <2>1. NotIn(t, <<>>)
    BY DEF NotIn
  <2> QED BY <1>1, <1>2, <1>3, <2>1
          DEF Local, Fits, PostsOK, Awaits, Anchored, AnchoredEntry, AnchoredThread
<1>5. /\ \A u \in Uthreads : c[u].status = "none" /\ ~c[u].ref
      /\ \A x \in Coros : c[x].status = "none"
  BY <1>1, <1>2, <1>3
<1>6. Resumes(c) /\ Children(c) /\ Someone(c)
  BY <1>1, <1>2, <1>3, <1>5 DEF Resumes, Children, Someone, Active
<1>7. Waits(c)
  BY <1>1, <1>3 DEF Waits, InWait
<1>8. Corpses(c, z)
  <2>1. ToSet(<<>>) = {}
    BY DEF ToSet
  <2> QED BY <2>1 DEF Corpses
<1>9. Ranked(c)
  <2> DEFINE f == [u \in Uthreads |-> 0]
             g == [t \in Threads |-> 0]
  <2>1. f \in [Uthreads -> 0..0] /\ g \in [Threads -> 0..0] /\ 0 \in Nat
    OBVIOUS
  <2>2. RanksThreads(c, f) /\ RanksCoros(c, g)
    BY <1>5 DEF RanksThreads, RanksCoros, Active
  <2> QED BY <2>1, <2>2 DEF Ranked
<1>10. Live(c, Entry, <<>>, z, None)
  BY <1>4, <1>6, <1>7, <1>8, <1>9 DEF Live
<1>11. CountedIn(c) = {}
  BY <1>5 DEF CountedIn
<1> QED BY <1>3, <1>10, <1>11

LEMMA InitHolds ==
    Init => IInv
<1> SUFFICES ASSUME Init PROVE IInv
  OBVIOUS
<1>1. /\ co \in [Threads -> Rec] /\ CountedIn(co) = {}
      /\ Live(co, Entry, <<>>, [t \in Threads |-> <<>>], None)
  BY Fresh DEF Init
<1>2. Cardinality(CountedIn(co)) = 0
  BY <1>1, FS_EmptySet
<1>3. Types
  <2>1. [t \in Threads |-> <<>>] \in [Threads -> Seq(Uthreads)] /\ <<>> \in Seq(Threads)
    OBVIOUS
  <2>2. Entry \in Threads
    BY DEF Threads
  <2>3. cur \in Threads /\ uthreads \in Int /\ onAbort = None
    BY <2>2 DEF Init
  <2>4. zombies \in [Threads -> Seq(Uthreads)]
    BY <2>1 DEF Init
  <2>5. posted \in Seq(Threads)
    BY <2>1 DEF Init
  <2>6. ended \in BOOLEAN /\ misled \in BOOLEAN
    BY DEF Init
  <2> QED BY <1>1, <2>3, <2>4, <2>5, <2>6 DEF Types
<1>4. Sound
  BY <1>1, <1>2 DEF Init, Sound
<1> QED BY <1>3, <1>4 DEF IInv

LEMMA NextRequestKeeps ==
    NextRequest => IInv'
<1> SUFFICES ASSUME NextRequest PROVE IInv'
  OBVIOUS
<1>1. /\ co' \in [Threads -> Rec] /\ CountedIn(co') = {}
      /\ Live(co', Entry, <<>>, [t \in Threads |-> <<>>], None)
  BY Fresh DEF NextRequest
<1>2. Cardinality(CountedIn(co')) = 0
  BY <1>1, FS_EmptySet
<1>3. Types'
  <2>1. [t \in Threads |-> <<>>] \in [Threads -> Seq(Uthreads)] /\ <<>> \in Seq(Threads)
    OBVIOUS
  <2>2. Entry \in Threads
    BY DEF Threads
  <2>3. cur' \in Threads /\ uthreads' \in Int /\ onAbort' = None
    BY <2>2 DEF NextRequest
  <2>4. zombies' \in [Threads -> Seq(Uthreads)]
    BY <2>1 DEF NextRequest
  <2>5. posted' \in Seq(Threads)
    BY <2>1 DEF NextRequest
  <2>6. ended' \in BOOLEAN /\ misled' \in BOOLEAN
    BY DEF NextRequest
  <2> QED BY <1>1, <2>3, <2>4, <2>5, <2>6 DEF Types
<1>4. Sound'
  BY <1>1, <1>2 DEF NextRequest, Sound
<1> QED BY <1>3, <1>4 DEF IInv

LEMMA ExitKeeps ==
    ASSUME IInv, ~misled, NEW t \in Threads, Exit(t)
    PROVE  IInv'
<1> PICK c, d : c = co /\ d = [co EXCEPT ![t].timer = FALSE, ![t].status = "dead"]
  OBVIOUS
<1>1. /\ ~ended /\ c \in [Threads -> Rec] /\ c[t].status = "running" /\ misled \in BOOLEAN
      /\ uthreads = Cardinality(CountedIn(c))
      /\ Uthreads \subseteq Threads /\ Entry \notin Uthreads
      /\ \A v \in Threads : c[v] \in Rec /\ Fits(c[v], cur = v) /\ Anchored(c[v], v, onAbort)
  BY Running, Before DEF Exit
<1> PICK y : y = [c[t] EXCEPT !.timer = FALSE, !.status = "dead"]
  OBVIOUS
<1>2. y \in Rec /\ ~y.timer /\ y.status = "dead" /\ y.ref = c[t].ref
  BY <1>1 DEF Rec, Statuses
<1>3. d \in [Threads -> Rec] /\ d[t] = y /\ \A v \in Threads \ {t} : d[v] = c[v]
  <2>1. d = [c EXCEPT ![t] = y]
    BY <1>1
  <2> QED BY <1>1, <1>2, <2>1, PutFacts
<1>4. Stoppable(d)
  <2>1. ASSUME NEW u \in Uthreads
        PROVE  /\ d[u].status \notin {"none", "dead"} => d[u].ref
               /\ d[u].status = "suspended" => u = onAbort
    BY <1>1, <1>2, <1>3, <2>1 DEF Anchored, AnchoredThread
  <2>2. ASSUME NEW v \in Threads \ Coros, d[v].timer PROVE d[v].ref
    <3>1. v # t /\ d[v] = c[v]
      BY <1>2, <1>3, <2>2
    <3>2. c[v].status = "running" /\ (v = Entry \/ v \in Uthreads)
      BY <1>1, <2>2, <3>1 DEF Fits, Threads
    <3> QED BY <1>1, <3>1, <3>2 DEF Anchored, AnchoredThread, AnchoredEntry
  <2> QED BY <2>1, <2>2 DEF Stoppable
<1>5. uthreads = Cardinality(CountedIn(d))
  <2>1. ASSUME NEW u \in Uthreads
        PROVE  d[u].ref = c[u].ref /\ (d[u].status = "suspended" <=> c[u].status = "suspended")
    BY <1>1, <1>2, <1>3
  <2>2. CountedIn(d) = CountedIn(c)
    BY <2>1 DEF CountedIn
  <2> QED BY <1>1, <2>2
<1>6. FinalizeThreads(d, uthreads) /\ misled' \in BOOLEAN
  BY <1>1 DEF Exit
<1> QED BY <1>3, <1>4, <1>5, <1>6, FinalizeKeeps

\* The client is gone: the abort thread runs, or the request is over.
LEMMA ClientGoneKeeps ==
    ASSUME IInv, ~misled, ClientGone
    PROVE  IInv'
<1> PICK c, d, q, z : c = co /\ d = co' /\ q = posted /\ z = zombies
  OBVIOUS
<1> PICK a, k : a = onAbort /\ k = cur
  OBVIOUS
<1>1. k = None /\ ~ended
  BY DEF ClientGone, InEventLoop
<1>2. /\ c \in [Threads -> Rec] /\ misled \in BOOLEAN /\ a \in Uthreads \cup {None}
      /\ q \in Seq(Threads) /\ z \in [Threads -> Seq(Uthreads)]
      /\ uthreads = Cardinality(CountedIn(c)) /\ uthreads \in Nat
      /\ Uthreads \subseteq Threads /\ Entry \notin Uthreads /\ None \notin Threads
      /\ \A v \in Threads : /\ c[v] \in Rec /\ Fits(c[v], k = v) /\ PostsOK(c[v], v, q)
                            /\ Anchored(c[v], v, a)
      /\ Live(c, k, q, z, a)
  BY <1>1, Before
<1>3. CASE a = None
  <2>1. \A u \in Uthreads : /\ c[u].status \notin {"none", "dead"} => c[u].ref
                            /\ c[u].status = "suspended" => u = a
    BY <1>2 DEF Anchored, AnchoredThread
  <2>2. ASSUME NEW v \in Threads \ Coros, c[v].timer PROVE c[v].ref
    <3>1. c[v].status = "running" /\ (v = Entry \/ v \in Uthreads)
      BY <1>2, <2>2 DEF Fits, Threads
    <3> QED BY <1>2, <3>1 DEF Anchored, AnchoredThread, AnchoredEntry
  <2>3. Stoppable(c)
    BY <2>1, <2>2 DEF Stoppable
  <2>4. FinalizeThreads(c, uthreads) /\ misled' \in BOOLEAN
    BY <1>2, <1>3 DEF ClientGone
  <2> QED BY <1>2, <2>3, <2>4, FinalizeKeeps
<1>4. CASE a # None
  <2> PICK u : u = a
    OBVIOUS
  <2>1. /\ u \in Uthreads /\ u \in Threads /\ u \notin Coros /\ u # Entry
        /\ c[u].status = "suspended" /\ c[u] \in Rec
        /\ uthreads' = uthreads + 1 /\ cur' = u
        /\ UNCHANGED <<posted, zombies, onAbort, ended, misled>>
    BY <1>2, <1>4 DEF ClientGone
  <2> PICK x, y : x = Marked(c[u], "running") /\ y = Back(x)
    OBVIOUS
  <2>2. x \in Rec /\ x.status = "running" /\ Kin(c[u], x)
    <3>1. "running" \in Statuses
      BY DEF Statuses
    <3> QED BY <2>1, <3>1, MarkedFacts
  <2>3. y \in Rec /\ y.status = "running" /\ y.at = "lua" /\ Kin(x, y)
    BY <2>2, BackFacts
  <2>4. ~c[u].timer /\ c[u].ref /\ NotIn(u, q)
    BY <1>2, <2>1 DEF Fits, PostsOK, Awaits, Anchored, AnchoredThread
  <2>5. ~y.timer /\ y.ref /\ y.parent = c[u].parent
    BY <2>2, <2>3, <2>4 DEF Kin
  <2>6. d \in [Threads -> Rec] /\ d[u] = y /\ \A v \in Threads \ {u} : d[v] = c[v]
    <3>1. d = Resumed([c EXCEPT ![u].status = "running"], u)
      BY <1>4 DEF ClientGone
    <3>2. [c EXCEPT ![u].status = "running"] = [c EXCEPT ![u] = x]
      BY <1>2 DEF Marked
    <3>3. d = [[c EXCEPT ![u] = x] EXCEPT ![u] = y]
      <4> PICK e : e = [c EXCEPT ![u] = x]
        OBVIOUS
      <4>1. e \in [Threads -> Rec] /\ e[u] = x
        BY <1>2, <2>1, <2>2, PutFacts
      <4>2. Resumed(e, u) = [e EXCEPT ![u] = Back(e[u])]
        BY DEF Resumed, Back
      <4> QED BY <3>1, <3>2, <4>1, <4>2
    <3>4. d = [c EXCEPT ![u] = y]
      BY <1>2, <2>1, <3>3
    <3> QED BY <1>2, <2>1, <2>3, <3>4, PutFacts
  <2>7. \A v \in Threads \cap {u} : Local(d[v], v, u, q, a)
    <3>1. Local(y, u, u, q, a)
      BY <2>1, <2>3, <2>4, <2>5
         DEF Local, Fits, PostsOK, Awaits, Anchored, AnchoredThread
    <3> QED BY <2>6, <3>1
  <2>8. \A v \in Threads \cap {u} : CalmThread(c[v], d[v], v)
    BY <2>1, <2>3, <2>5, <2>6
       DEF CalmThread, ChainThread, TreeThread, Unborn, WaitThread, Active, InWait
  <2>9. \A v \in Uthreads \cap {u} : Wakers(c, d, v)
    BY <2>1 DEF Wakers, Active
  <2>10. Aside(c, d, k, u, q, q, a, a, {u})
    BY <1>1, <2>6 DEF Aside
  <2>11. Corpses(d, z)
    <3>1. SameCorpses(c, d)
      BY <1>2, <2>1, <2>6 DEF SameCorpses
    <3>2. Corpses(c, z)
      BY <1>2 DEF Live
    <3> QED BY <1>2, <3>1, <3>2, SameCorpsesKeep
  <2>12. Someone(d)
    BY <2>1, <2>3, <2>6 DEF Someone
  <2>13. Live(d, u, q, z, a)
    <3>1. c \in [Threads -> Rec] /\ Live(c, k, q, z, a)
      BY <1>2
    <3> QED BY <2>7, <2>8, <2>9, <2>10, <2>11, <2>12, <3>1, Advance
  <2>14. uthreads' = Cardinality(CountedIn(d)) /\ uthreads' \in Int
    <3>1. u \notin CountedIn(c)
      BY <2>1 DEF CountedIn
    <3>2. CountedIn(d) = CountedIn(c) \cup {u}
      BY <1>2, <2>1, <2>3, <2>5, <2>6 DEF CountedIn
    <3>3. Cardinality(CountedIn(d)) = Cardinality(CountedIn(c)) + 1
      BY <3>1, <3>2, CountFacts
    <3> QED BY <1>2, <2>1, <3>3
  <2>15. Goes
    BY <1>1, <1>2, <2>1, <2>6, <2>13, <2>14 DEF Goes
  <2> QED BY <2>15, GoesOn
<1> QED BY <1>3, <1>4

----------------------------------------------------------------------------
(* Control goes back to the thread that resumed a coroutine.               *)

\* The thread p goes on.
Hands(e, d, p) == d = Resumed(SetRunning(e, p), p)

LEMMA HandsFacts ==
    ASSUME NEW e, NEW d, NEW p, e \in [Threads -> Rec], p \in Threads, Hands(e, d, p)
    PROVE  /\ d \in [Threads -> Rec] /\ d[p].status = "running" /\ d[p].at = "lua"
           /\ Kin(e[p], d[p]) /\ \A v \in Threads \ {p} : d[v] = e[v]
<1> PICK m : m = Marked(e[p], "running")
  OBVIOUS
<1>1. m \in Rec /\ m.status = "running" /\ Kin(e[p], m)
  <2>1. "running" \in Statuses /\ e[p] \in Rec
    BY DEF Statuses
  <2> QED BY <2>1, MarkedFacts
<1>2. Back(m) \in Rec /\ Back(m).at = "lua" /\ Back(m).status = "running" /\ Kin(m, Back(m))
  BY <1>1, BackFacts
<1>3. Kin(e[p], Back(m))
  BY <1>1, <1>2 DEF Kin
<1>4. d = [e EXCEPT ![p] = Back(m)]
  <2>1. SetRunning(e, p) = [e EXCEPT ![p] = m]
    BY DEF SetRunning, Marked
  <2> PICK f : f = [e EXCEPT ![p] = m]
    OBVIOUS
  <2>2. f \in [Threads -> Rec] /\ f[p] = m
    BY <1>1, PutFacts
  <2>3. Resumed(f, p) = [f EXCEPT ![p] = Back(f[p])]
    BY DEF Resumed, Back
  <2>4. d = Resumed(SetRunning(e, p), p)
    BY DEF Hands
  <2> QED BY <2>1, <2>2, <2>3, <2>4
<1>5. d \in [Threads -> Rec] /\ d[p] = Back(m) /\ \A v \in Threads \ {p} : d[v] = e[v]
  BY <1>2, <1>4, PutFacts
<1> QED BY <1>2, <1>3, <1>5

\* The coroutine x, in c, is done or suspended as the record y says, in d; the
\* thread p that resumed it runs.
Returns(c, d, x, y, p) ==
    /\ c \in [Threads -> Rec] /\ d \in [Threads -> Rec] /\ x \in Coros /\ p \in Threads
    /\ c[x].status = "running" /\ c[x].parent = p /\ c[p].status = "normal"
    /\ d[x] = y /\ y.status \in {"suspended", "dead"} /\ ~y.timer /\ ~y.ref /\ y.at # "wait"
    /\ d[p].status = "running" /\ d[p].at = "lua" /\ Kin(c[p], d[p])
    /\ \A v \in Threads \ {x, p} : d[v] = c[v]

LEMMA ReturnsKeeps ==
    ASSUME NEW c, NEW d, NEW x, NEW y, NEW p, NEW q, NEW z, NEW w, NEW a,
           Returns(c, d, x, y, p), Live(c, x, q, z, a), Corpses(d, w)
    PROVE  Live(d, p, q, w, a) /\ CountedIn(d) = CountedIn(c)
<1>1. /\ c \in [Threads -> Rec] /\ d \in [Threads -> Rec] /\ x \in Coros /\ p \in Threads
      /\ c[x].status = "running" /\ c[x].parent = p /\ c[p].status = "normal"
      /\ d[x] = y /\ y.status \in {"suspended", "dead"} /\ ~y.timer /\ ~y.ref /\ y.at # "wait"
      /\ d[p].status = "running" /\ d[p].at = "lua" /\ Kin(c[p], d[p])
      /\ \A v \in Threads \ {x, p} : d[v] = c[v]
      /\ x \in Threads /\ x \notin Uthreads /\ x # Entry /\ x # p
      /\ Uthreads \subseteq Threads /\ Coros \subseteq Threads
  BY DEF Returns, Threads
<1>2. /\ d[p].parent = c[p].parent /\ d[p].ref = c[p].ref /\ d[p].waited = c[p].waited
      /\ d[p].timer = c[p].timer
  BY <1>1 DEF Kin
<1>3. /\ \A t \in Threads : Local(c[t], t, x, q, a)
      /\ Resumes(c) /\ Waits(c) /\ Children(c) /\ Ranked(c)
  BY DEF Live
<1>4. \A v \in Threads \cap {x, p} : Local(d[v], v, p, q, a)
  <2>1. /\ NotIn(x, q) /\ NotIn(p, q) /\ ~c[p].timer /\ Anchored(c[p], p, a)
    BY <1>1, <1>3 DEF Local, PostsOK, Awaits, Fits
  <2>2. Local(d[x], x, p, q, a)
    BY <1>1, <2>1 DEF Local, Fits, PostsOK, Awaits, Anchored
  <2>3. Anchored(d[p], p, a)
    BY <1>1, <1>2, <2>1 DEF Anchored, AnchoredEntry, AnchoredThread
  <2>4. Local(d[p], p, p, q, a)
    BY <1>1, <1>2, <2>1, <2>3 DEF Local, Fits, PostsOK, Awaits
  <2> QED BY <2>2, <2>4
<1>5. \A v \in Threads : Local(d[v], v, p, q, a)
  <2>1. Aside(c, d, x, p, q, q, a, a, {x, p})
    BY <1>1 DEF Aside
  <2> QED BY <1>3, <1>4, <2>1, Bystanders
<1>6. ASSUME NEW v \in Coros, Active(d[v])
      PROVE  v # x /\ Active(c[v]) /\ d[v].parent = c[v].parent /\ c[v].parent \notin {x, p}
  <2>1. v # x
    BY <1>1, <1>6 DEF Active
  <2>2. Active(c[v]) /\ d[v].parent = c[v].parent
    BY <1>1, <1>2, <1>6, <2>1 DEF Active
  <2>3. c[v].parent # x
    BY <1>1, <1>3, <2>2 DEF Resumes
  <2>4. c[v].parent # p
    <3>1. PICK s \in Coros : Riding(c, p, s) /\ \A r \in Coros : Riding(c, p, r) => r = s
      BY <1>1, <1>3 DEF Resumes
    <3>2. Riding(c, p, x)
      BY <1>1 DEF Riding, Active
    <3>3. c[v].parent = p => Riding(c, p, v)
      BY <2>2 DEF Riding
    <3> QED BY <1>1, <2>1, <3>1, <3>2, <3>3
  <2> QED BY <2>1, <2>2, <2>3, <2>4
<1>7. Resumes(d)
  <2>1. ASSUME NEW t \in Threads, d[t].status = "normal"
        PROVE  \E v \in Coros : Riding(d, t, v) /\ \A r \in Coros : Riding(d, t, r) => r = v
    <3>1. t # x /\ t # p /\ c[t].status = "normal"
      BY <1>1, <2>1
    <3>2. PICK v \in Coros : Riding(c, t, v) /\ \A r \in Coros : Riding(c, t, r) => r = v
      BY <1>3, <3>1 DEF Resumes
    <3>3. \A r \in Coros : Riding(d, t, r) => Riding(c, t, r)
      BY <1>6 DEF Riding
    <3>4. Riding(d, t, v)
      <4>1. Active(c[v]) /\ c[v].parent = t
        BY <3>2 DEF Riding
      <4>2. v # x
        BY <1>1, <3>1, <4>1
      <4>3. Active(d[v]) /\ d[v].parent = t
        BY <1>1, <1>2, <4>1, <4>2 DEF Active
      <4> QED BY <4>3 DEF Riding
    <3> QED BY <3>2, <3>3, <3>4
  <2>2. ASSUME NEW v \in Coros, Active(d[v])
        PROVE  d[v].parent \in Threads /\ d[d[v].parent].status \in {"normal", "dead"}
    <3>1. /\ Active(c[v]) /\ d[v].parent = c[v].parent /\ c[v].parent \notin {x, p}
      BY <1>6, <2>2
    <3>2. c[v].parent \in Threads /\ c[c[v].parent].status \in {"normal", "dead"}
      BY <1>3, <3>1 DEF Resumes
    <3> QED BY <1>1, <3>1, <3>2
  <2> QED BY <2>1, <2>2 DEF Resumes
<1>8. SameParents(c, d) /\ NoneBorn(c, d)
  BY <1>1, <1>2 DEF SameParents, NoneBorn
<1>9. Waits(d)
  <2>1. \A v \in Threads \ {x, p} : d[v] = c[v]
    BY <1>1
  <2>2. \A v \in Threads \cap {x, p} : WaitThread(c[v], d[v])
    BY <1>1 DEF WaitThread, InWait
  <2>3. \A v \in Uthreads \cap {x, p} : Wakers(c, d, v)
    BY <1>1, <1>2 DEF Wakers, Active
  <2>4. SameParents(c, d) /\ c \in [Threads -> Rec]
    BY <1>1, <1>8
  <2>5. SameWaits(c, d)
    BY <2>1, <2>2, <2>3, <2>4, WaitsFrom
  <2> QED BY <1>3, <2>5, SameWaitsKeep
<1>10. Children(d) /\ \A f : RanksThreads(c, f) => RanksThreads(d, f)
  BY <1>3, <1>8, SameParentsKeep
<1>11. Ranked(d)
  <2>1. \A g : RanksCoros(c, g) => RanksCoros(d, g)
    BY <1>6 DEF RanksCoros
  <2> QED BY <1>3, <1>10, <2>1 DEF Ranked
<1>12. Someone(d)
  BY <1>1 DEF Someone
<1>13. Live(d, p, q, w, a)
  BY <1>5, <1>7, <1>9, <1>10, <1>11, <1>12 DEF Live
<1>14. CountedIn(d) = CountedIn(c)
  <2>1. ASSUME NEW v \in Uthreads
        PROVE  d[v].ref = c[v].ref /\ (d[v].status = "suspended" <=> c[v].status = "suspended")
    BY <1>1, <1>2
  <2> QED BY <2>1 DEF CountedIn
<1> QED BY <1>13, <1>14

\* The thread t that runs ends: c has its zombies freed, d has it dead as well.
AfterReap(c, t, n) ==
    /\ c \in [Threads -> Rec] /\ Live(c, t, posted, zombies, onAbort) /\ c[t] = co[t]
    /\ uthreads - n = Cardinality(CountedIn(c)) /\ uthreads - n \in Nat
    /\ \A v \in Threads : c[v] = co[v] \/ (co[v].status = "zombie" /\ c[v].status = "dead")

Ended(c, d, t) ==
    /\ d \in [Threads -> Rec] /\ \A v \in Threads \ {t} : d[v] = c[v]
    /\ d[t].status = "dead" /\ ~d[t].timer /\ d[t].at = "over"
    /\ d[t].parent = c[t].parent /\ d[t].waited = c[t].waited

LEMMA ReapGoes ==
    ASSUME IInv, ~misled, NEW t \in Threads, Runs(t), NEW ok, NEW c,
           Deletes(co, c, Reaped(t, ok))
    PROVE  /\ AfterReap(c, t, Cardinality(Reaped(t, ok)))
           /\ t \notin Reaped(t, ok) /\ Reaped(t, ok) \subseteq Uthreads
           /\ \A v \in Threads \ Reaped(t, ok) : c[v] = co[v]
<1> PICK R : R = Reaped(t, ok)
  OBVIOUS
<1> PICK b, k, q, z, a : b = co /\ k = cur /\ q = posted /\ z = zombies /\ a = onAbort
  OBVIOUS
<1>1. /\ b \in [Threads -> Rec] /\ z \in [Threads -> Seq(Uthreads)] /\ k = t
      /\ Live(b, k, q, z, a) /\ Corpses(b, z) /\ b[t].status = "running"
      /\ uthreads = Cardinality(CountedIn(b)) /\ uthreads \in Nat
  BY Running, Before
<1>2. Zombies(b, R)
  <2>1. \A u \in R : u \in ToSet(z[t]) /\ b[u].ref
    BY DEF Reaped
  <2>2. ToSet(z[t]) \subseteq Uthreads
    <3>1. z[t] \in Seq(Uthreads)
      BY <1>1
    <3> QED BY <3>1, ToSetSeq
  <2>3. ASSUME NEW u \in R PROVE u \in Uthreads /\ b[u].status = "zombie"
    <3>1. u \in Uthreads /\ u \in Threads
      BY <2>1, <2>2 DEF Threads
    <3>2. b[u].status \in {"zombie", "dead"}
      BY <1>1, <2>1 DEF Corpses
    <3>3. Anchored(b[u], u, a)
      BY <1>1, <3>1 DEF Live, Local
    <3> QED BY <2>1, <3>1, <3>2, <3>3 DEF Anchored, AnchoredThread
  <2> QED BY <2>3 DEF Zombies
<1>3. /\ c \in [Threads -> Rec] /\ Live(c, k, q, z, a) /\ \A v \in Threads \ R : c[v] = b[v]
      /\ R \subseteq CountedIn(b) /\ CountedIn(c) = CountedIn(b) \ R
  <2>1. Deletes(b, c, R) /\ Reapable(b, k, q, z, a)
    BY <1>1 DEF Reapable
  <2>2. Reaps(b, c, k, q, z, a, R)
    BY <1>2, <2>1, ReapKeeps
  <2> QED BY <2>2 DEF Reaps
<1>4. \A v \in R : v \in Uthreads /\ b[v].status = "zombie"
  BY <1>2 DEF Zombies
<1>5. \A v \in Threads \cap R : c[v].status = "dead"
  <2>1. \A v \in Threads : c[v] = IF v \in R /\ b[v].ref THEN Buried(b[v]) ELSE b[v]
    <3>1. Deletes(b, c, R)
      OBVIOUS
    <3> QED BY <1>1, <3>1, DelFacts
  <2>2. \A v \in R : b[v].ref
    BY <1>3 DEF CountedIn
  <2>3. \A v \in Threads : Buried(b[v]).status = "dead"
    BY <1>1, BuriedFacts
  <2> QED BY <2>1, <2>2, <2>3
<1>6. Cardinality(CountedIn(c)) = Cardinality(CountedIn(b)) - Cardinality(R)
      /\ Cardinality(R) \in Nat /\ Cardinality(CountedIn(c)) \in Nat
  BY <1>3, CountFacts
<1>7. t \notin R
  BY <1>1, <1>4
<1>8. uthreads - Cardinality(R) = Cardinality(CountedIn(c)) /\ uthreads - Cardinality(R) \in Nat
  <2>1. uthreads = Cardinality(CountedIn(b)) /\ uthreads \in Nat
    BY <1>1
  <2> QED BY <1>6, <2>1
<1>9. \A v \in Threads : c[v] = b[v] \/ (b[v].status = "zombie" /\ c[v].status = "dead")
  BY <1>3, <1>4, <1>5
<1>10. AfterReap(c, t, Cardinality(R))
  BY <1>1, <1>3, <1>7, <1>8, <1>9 DEF AfterReap
<1> QED BY <1>3, <1>4, <1>7, <1>10

LEMMA EndFacts ==
    ASSUME IInv, ~misled, NEW t \in Threads, Runs(t), NEW ok
    PROVE  \E c : /\ AfterReap(c, t, Cardinality(Reaped(t, ok)))
                  /\ \A d : Deletes(Over(t), d, Reaped(t, ok)) =>
                        Ended(c, d, t) /\ d[t].ref = c[t].ref
                  /\ \A d : Deletes(Over(t), d, Reaped(t, ok) \cup {t}) =>
                        Ended(c, d, t) /\ ~d[t].ref
<1> PICK R : R = Reaped(t, ok)
  OBVIOUS
<1> PICK c : c = Del(co, R)
  OBVIOUS
<1>1. Deletes(co, c, R) /\ co \in [Threads -> Rec]
  BY Running, Before DEF Deletes
<1>2. /\ AfterReap(c, t, Cardinality(R)) /\ t \notin R
      /\ \A v \in Threads \ R : c[v] = co[v]
  BY <1>1, ReapGoes
<1>3. \A v \in Threads : c[v] = IF v \in R /\ co[v].ref THEN Buried(co[v]) ELSE co[v]
  BY <1>1, DelFacts
<1> PICK o : o = Over(t)
  OBVIOUS
<1>4. PICK y \in Rec : /\ y.status = "dead" /\ ~y.timer /\ y.at = "over"
                       /\ y.parent = co[t].parent /\ y.waited = co[t].waited
                       /\ y.ref = co[t].ref /\ o = [co EXCEPT ![t] = y]
  <2>1. co[t] \in Rec
    BY <1>1
  <2> PICK x : x = [co[t] EXCEPT !.timer = FALSE, !.status = "dead", !.at = "over"]
    OBVIOUS
  <2>2. /\ x \in Rec /\ x.status = "dead" /\ ~x.timer /\ x.at = "over"
        /\ x.parent = co[t].parent /\ x.waited = co[t].waited /\ x.ref = co[t].ref
    BY <2>1 DEF Rec, Statuses, Places
  <2>3. o = [co EXCEPT ![t] = x]
    BY <1>1 DEF Over, CleanupPending
  <2> QED BY <2>2, <2>3
<1>5. o \in [Threads -> Rec] /\ o[t] = y /\ \A v \in Threads \ {t} : o[v] = co[v]
  BY <1>1, <1>4, PutFacts
<1>6. ASSUME NEW d, Deletes(o, d, R) PROVE Ended(c, d, t) /\ d[t].ref = c[t].ref
  <2>1. /\ d \in [Threads -> Rec]
        /\ \A v \in Threads : d[v] = IF v \in R /\ o[v].ref THEN Buried(o[v]) ELSE o[v]
    <3>1. o \in [Threads -> Rec]
      BY <1>5
    <3> QED BY <1>6, <3>1, DelFacts
  <2>2. \A v \in Threads \ {t} : d[v] = c[v]
    BY <1>3, <1>5, <2>1
  <2>3. d[t] = y /\ c[t] = co[t]
    BY <1>2, <1>5, <2>1
  <2> QED BY <1>4, <2>1, <2>2, <2>3 DEF Ended
<1>7. ASSUME NEW d, Deletes(o, d, R \cup {t}) PROVE Ended(c, d, t) /\ ~d[t].ref
  <2> PICK S : S = R \cup {t}
    OBVIOUS
  <2>1. /\ d \in [Threads -> Rec]
        /\ \A v \in Threads : d[v] = IF v \in S /\ o[v].ref THEN Buried(o[v]) ELSE o[v]
    <3>1. o \in [Threads -> Rec] /\ Deletes(o, d, S)
      BY <1>5, <1>7
    <3> QED BY <3>1, DelFacts
  <2>2. \A v \in Threads \ {t} : d[v] = c[v]
    BY <1>3, <1>5, <2>1
  <2>3. d[t] = (IF y.ref THEN Buried(y) ELSE y) /\ c[t] = co[t]
    BY <1>2, <1>5, <2>1
  <2>4. /\ d[t].status = "dead" /\ ~d[t].timer /\ d[t].at = "over" /\ ~d[t].ref
        /\ d[t].parent = c[t].parent /\ d[t].waited = c[t].waited
    BY <1>4, <2>3, BuriedFacts
  <2> QED BY <2>1, <2>2, <2>4 DEF Ended
<1> QED BY <1>2, <1>6, <1>7

\* The coroutine x that runs stops, in e, and the thread that resumed it goes on.
Stops(c, e, x, n) ==
    /\ AfterReap(c, x, n) /\ e \in [Threads -> Rec] /\ \A v \in Threads \ {x} : e[v] = c[v]
    /\ e[x].status \in {"suspended", "dead"} /\ ~e[x].timer /\ ~e[x].ref /\ e[x].at # "wait"

LEMMA BackToGoes ==
    ASSUME NEW c, NEW e, NEW x, NEW n, NEW w, IInv, ~misled, x \in Coros, Runs(x),
           Stops(c, e, x, n), BackTo(e, co[x].parent), uthreads' = uthreads - n, zombies' = w,
           w \in [Threads -> Seq(Uthreads)], SameCorpses(c, co') => Corpses(co', w),
           UNCHANGED <<posted, onAbort, ended>>
    PROVE  Goes
<1> PICK p, d : p = co[x].parent /\ d = co'
  OBVIOUS
<1> PICK q, a : q = posted /\ a = onAbort
  OBVIOUS
<1>1. x \in Threads /\ x # Entry /\ x \notin Uthreads
  BY DEF Threads
<1>2. /\ co \in [Threads -> Rec] /\ co[x].status = "running" /\ ~ended /\ misled \in BOOLEAN
      /\ q \in Seq(Threads) /\ a \in Uthreads \cup {None}
      /\ \A v \in Threads : Fits(co[v], cur = v)
      /\ Resumes(co)
  BY <1>1, Running, Before
<1>3. p \in Threads /\ co[p].status \in {"normal", "dead"} /\ p # x
  BY <1>2 DEF Resumes, Active
<1>4. /\ c \in [Threads -> Rec] /\ Live(c, x, q, zombies, a) /\ c[x] = co[x] /\ c[p] = co[p]
      /\ e \in [Threads -> Rec] /\ e[p] = c[p] /\ \A v \in Threads \ {x} : e[v] = c[v]
  BY <1>3 DEF Stops, AfterReap
<1>5. Hands(e, d, p)
  BY DEF BackTo, Hands
<1>6. /\ d \in [Threads -> Rec] /\ d[p].status = "running" /\ d[p].at = "lua"
      /\ Kin(c[p], d[p]) /\ \A v \in Threads \ {p} : d[v] = e[v]
  <2>1. e \in [Threads -> Rec] /\ e[p] = c[p]
    BY <1>4
  <2> QED BY <1>3, <1>5, <2>1, HandsFacts
<1>7. cur' = p /\ misled' = (misled \/ ~Alive(p) \/ co[p].at # "resume")
  BY DEF BackTo
<1>8. uthreads - n = Cardinality(CountedIn(c)) /\ uthreads - n \in Nat
  BY DEF Stops, AfterReap
<1>9. /\ d \in [Threads -> Rec] /\ cur' \in Threads \cup {None} /\ uthreads' \in Int
      /\ posted' \in Seq(Threads) /\ zombies' \in [Threads -> Seq(Uthreads)]
      /\ onAbort' \in Uthreads \cup {None} /\ ended' = FALSE /\ misled' \in BOOLEAN
  <2>1. uthreads' \in Int
    BY <1>8
  <2>2. misled' \in BOOLEAN
    BY <1>7
  <2> QED BY <1>2, <1>3, <1>6, <1>7, <2>1, <2>2
<1>10. CASE misled'
  BY <1>9, <1>10 DEF Goes
<1>11. CASE ~misled'
  <2>1. co[p].status = "normal"
    BY <1>3, <1>7, <1>11 DEF Alive
  <2>2. Returns(c, d, x, e[x], p)
    <3>1. /\ e[x].status \in {"suspended", "dead"} /\ ~e[x].timer /\ ~e[x].ref
          /\ e[x].at # "wait"
      BY DEF Stops
    <3>2. d[x] = e[x] /\ \A v \in Threads \ {x, p} : d[v] = c[v]
      BY <1>1, <1>3, <1>4, <1>6
    <3> QED BY <1>2, <1>3, <1>4, <1>6, <2>1, <3>1, <3>2 DEF Returns
  <2>3. Live(d, p, q, w, a) /\ CountedIn(d) = CountedIn(c)
    <3> PICK y2, z : y2 = e[x] /\ z = zombies
      OBVIOUS
    <3>1. Returns(c, d, x, y2, p) /\ Live(c, x, q, z, a)
      BY <1>4, <2>2
    <3>2. SameCorpses(c, d)
      BY <2>2, <1>1, <1>3 DEF Returns, SameCorpses, Threads
    <3>3. Corpses(d, w)
      BY <3>2
    <3> QED BY <3>1, <3>3, ReturnsKeeps
  <2>4. uthreads' = Cardinality(CountedIn(d))
    BY <1>8, <2>3
  <2>5. cur' = p /\ posted' = q /\ zombies' = w /\ onAbort' = a
    BY <1>7
  <2> QED BY <1>9, <2>3, <2>4, <2>5 DEF Goes
<1> QED BY <1>10, <1>11

LEMMA YieldCoroGoes ==
    ASSUME IInv, ~misled, NEW x, YieldCoro(x)
    PROVE  Goes
<1>1. x \in Coros /\ Runs(x) /\ x \in Threads
  BY DEF YieldCoro, Threads
<1>2. /\ co \in [Threads -> Rec] /\ zombies \in [Threads -> Seq(Uthreads)] /\ ~ended
      /\ co[x].status = "running" /\ ~co[x].timer /\ cur = x
      /\ Anchored(co[x], x, onAbort) /\ Corpses(co, zombies)
      /\ uthreads = Cardinality(CountedIn(co)) /\ uthreads \in Nat
      /\ Live(co, cur, posted, zombies, onAbort)
  BY <1>1, Running, Before
<1> PICK y : y = [co[x] EXCEPT !.status = "suspended", !.at = "yielded"]
  OBVIOUS
<1>3. y \in Rec /\ y.status = "suspended" /\ y.at = "yielded" /\ ~y.timer /\ ~y.ref
  <2>1. ~co[x].timer /\ ~co[x].ref /\ co[x] \in Rec
    BY <1>1, <1>2 DEF Anchored
  <2>2. "suspended" \in Statuses /\ "yielded" \in Places
    BY DEF Statuses, Places
  <2> QED BY <2>1, <2>2 DEF Rec
<1>4. PICK e : e = [co EXCEPT ![x] = y]
  OBVIOUS
<1>5. e \in [Threads -> Rec] /\ e[x] = y /\ \A v \in Threads \ {x} : e[v] = co[v]
  BY <1>1, <1>2, <1>3, <1>4, PutFacts
<1>6. PICK n : n = 0
  OBVIOUS
<1>7. uthreads - n = uthreads
  BY <1>2, <1>6
<1>8. AfterReap(co, x, n)
  BY <1>2, <1>7 DEF AfterReap
<1>9. Stops(co, e, x, n)
  BY <1>3, <1>5, <1>8 DEF Stops
<1>10. BackTo(e, co[x].parent)
  <2>1. [co EXCEPT ![x].status = "suspended", ![x].at = "yielded"] = e
    BY <1>2, <1>4
  <2> QED BY <2>1 DEF YieldCoro
<1>11. SameCorpses(co, co') => Corpses(co', zombies)
  BY <1>2, SameCorpsesKeep
<1>12. /\ uthreads' = uthreads - n /\ zombies' = zombies
       /\ UNCHANGED <<posted, onAbort, ended>>
  BY <1>7 DEF YieldCoro
<1> QED BY <1>1, <1>2, <1>9, <1>10, <1>11, <1>12, BackToGoes

LEMMA EndCoroGoes ==
    ASSUME IInv, ~misled, NEW x, NEW ok, EndCoro(x, ok)
    PROVE  Goes
<1>1. x \in Coros /\ Runs(x) /\ x \in Threads
  BY DEF EndCoro, Threads
<1>2. /\ zombies \in [Threads -> Seq(Uthreads)] /\ ~ended
      /\ Anchored(co[x], x, onAbort)
  BY <1>1, Running, Before
<1> PICK n : n = Cardinality(Reaped(x, ok))
  OBVIOUS
<1>3. PICK c : /\ AfterReap(c, x, n)
               /\ \A d : Deletes(Over(x), d, Reaped(x, ok)) =>
                     Ended(c, d, x) /\ d[x].ref = c[x].ref
  BY <1>1, EndFacts
<1> PICK e : e = Del(Over(x), Reaped(x, ok))
  OBVIOUS
<1>4. Ended(c, e, x) /\ ~e[x].ref
  <2>1. Deletes(Over(x), e, Reaped(x, ok))
    BY DEF Deletes
  <2>2. ~c[x].ref
    BY <1>1, <1>2, <1>3 DEF AfterReap, Anchored
  <2> QED BY <1>3, <2>1, <2>2
<1>5. Stops(c, e, x, n)
  BY <1>3, <1>4 DEF Stops, Ended
<1> PICK w : w = zombies'
  OBVIOUS
<1>6. w = zombies \/ w = [zombies EXCEPT ![x] = <<>>]
  <2>1. w = [zombies EXCEPT ![x] = IF ok THEN <<>> ELSE @]
    BY DEF EndCoro
  <2>2. CASE ok
    BY <2>1, <2>2
  <2>3. CASE ~ok
    <3>1. w = [zombies EXCEPT ![x] = zombies[x]]
      BY <2>1, <2>3
    <3> QED BY <1>1, <1>2, <3>1
  <2> QED BY <2>2, <2>3
<1>7. w \in [Threads -> Seq(Uthreads)]
  <2> PICK r : r = <<>>
    OBVIOUS
  <2>1. r \in Seq(Uthreads)
    OBVIOUS
  <2>2. w = zombies \/ w = [zombies EXCEPT ![x] = r]
    BY <1>6
  <2> HIDE <1>6
  <2> QED BY <1>1, <1>2, <2>1, <2>2
<1>8. SameCorpses(c, co') => Corpses(co', w)
  <2>1. Corpses(c, zombies)
    BY <1>3 DEF AfterReap, Live
  <2> QED BY <1>1, <1>2, <1>6, <2>1, SameCorpsesKeep
<1>9. BackTo(e, co[x].parent) /\ uthreads' = uthreads - n /\ UNCHANGED <<posted, onAbort, ended>>
  BY DEF EndCoro
<1> QED BY <1>1, <1>5, <1>7, <1>8, <1>9, BackToGoes

----------------------------------------------------------------------------
(* A light thread ends.                                                    *)

\* Its zombies are forgotten if it ended well.
Frees(z, w, x, ok) == w = [z EXCEPT ![x] = IF ok THEN <<>> ELSE @]

LEMMA FreesFacts ==
    ASSUME NEW c, NEW z, NEW w, NEW x, NEW ok, z \in [Threads -> Seq(Uthreads)], x \in Threads,
           Frees(z, w, x, ok), Corpses(c, z)
    PROVE  /\ w \in [Threads -> Seq(Uthreads)]
           /\ \A d : SameCorpses(c, d) => Corpses(d, w)
<1>1. CASE ok
  <2>1. w = [z EXCEPT ![x] = <<>>]
    BY <1>1 DEF Frees
  <2>2. \A d : SameCorpses(c, d) => Corpses(d, w)
    BY <2>1, SameCorpsesKeep
  <2> PICK r : r = <<>>
    OBVIOUS
  <2>3. r \in Seq(Uthreads) /\ w = [z EXCEPT ![x] = r]
    BY <2>1
  <2> HIDE <2>1
  <2>4. w \in [Threads -> Seq(Uthreads)]
    BY <2>3
  <2> QED BY <2>2, <2>4
<1>2. CASE ~ok
  <2>1. w = [z EXCEPT ![x] = z[x]]
    BY <1>2 DEF Frees
  <2>2. w = z
    BY <2>1
  <2> QED BY <2>2, SameCorpsesKeep
<1> QED BY <1>1, <1>2

\* The light thread u that runs, in c, is dead or a zombie in e.
Leaves(c, e, u) ==
    /\ c \in [Threads -> Rec] /\ e \in [Threads -> Rec] /\ u \in Threads \ Coros
    /\ c[u].status = "running" /\ c[u].at = "lua" /\ e[u].at = "over" /\ ~e[u].timer
    /\ e[u].parent = c[u].parent
    /\ \/ e[u].status = "dead" /\ ~e[u].ref
       \/ e[u].status = "zombie" /\ e[u].ref /\ u \in Uthreads
    /\ \A v \in Threads \ {u} : e[v] = c[v]

LEMMA LeavesKeeps ==
    ASSUME NEW c, NEW e, NEW u, NEW q, NEW z, NEW w, NEW a,
           Leaves(c, e, u), Live(c, u, q, z, a), u \in Uthreads => Wakers(c, e, u),
           Corpses(e, w), Someone(e)
    PROVE  Live(e, None, q, w, a)
<1> PICK y : y = e[u]
  OBVIOUS
<1>1. /\ c \in [Threads -> Rec] /\ e[u] = y /\ u \in Threads /\ u \notin Coros
      /\ c[u].status = "running" /\ c[u].at = "lua" /\ y.at = "over" /\ ~y.timer
      /\ y.parent = c[u].parent /\ (y.status = "dead" \/ y.status = "zombie")
      /\ (y.ref <=> y.status # "dead") /\ (y.ref => u \in Uthreads)
      /\ \A v \in Threads \ {u} : e[v] = c[v]
      /\ None \notin Threads /\ Entry \notin Uthreads
  BY DEF Leaves, Threads
<1>2. PostsOK(c[u], u, q) /\ Anchored(c[u], u, a)
  BY <1>1 DEF Live, Local
<1>3. Local(y, u, None, q, a)
  <2>1. NotIn(u, q)
    BY <1>1, <1>2 DEF PostsOK, Awaits
  <2>2. Fits(y, None = u)
    BY <1>1 DEF Fits
  <2>3. Anchored(y, u, a)
    BY <1>1 DEF Anchored, AnchoredThread, AnchoredEntry
  <2> QED BY <1>1, <2>1, <2>2, <2>3 DEF Local, PostsOK, Awaits
<1>4. \A v \in Threads \cap {u} : Local(e[v], v, None, q, a)
  BY <1>1, <1>3
<1>5. \A v \in Threads \cap {u} : CalmThread(c[v], e[v], v)
  BY <1>1 DEF CalmThread, ChainThread, TreeThread, Unborn, WaitThread, InWait
<1>6. \A v \in Uthreads \cap {u} : Wakers(c, e, v)
  OBVIOUS
<1>7. Aside(c, e, u, None, q, q, a, a, {u})
  BY <1>1 DEF Aside
<1>8. c \in [Threads -> Rec]
  BY <1>1
<1> QED BY <1>4, <1>5, <1>6, <1>7, <1>8, Advance

LEMMA LeavesFacts ==
    ASSUME NEW c, NEW e, NEW u, NEW q, NEW z, NEW a, Leaves(c, e, u), Live(c, u, q, z, a)
    PROVE  /\ SameCorpses(c, e)
           /\ u \notin Uthreads \/ e[u].status = "zombie" =>
                 Cardinality(CountedIn(e)) = Cardinality(CountedIn(c))
           /\ u \in Uthreads /\ e[u].status = "dead" =>
                 Cardinality(CountedIn(e)) = Cardinality(CountedIn(c)) - 1
           /\ Cardinality(CountedIn(e)) # 0 => Someone(e)
<1>1. SameCorpses(c, e)
  BY DEF Leaves, SameCorpses, Threads
<1>2. \A v \in Uthreads : v # u => e[v] = c[v]
  BY DEF Leaves, Threads
<1>3. \A v \in Uthreads : e[v] \in Rec /\ (e[v].ref => e[v].status \notin {"none", "dead"})
  <2>1. \A v \in Uthreads : Anchored(c[v], v, a) /\ v \in Threads
    BY DEF Live, Local, Threads
  <2>2. e[u].ref => e[u].status = "zombie"
    BY DEF Leaves
  <2> QED BY <1>2, <2>1, <2>2 DEF Anchored, AnchoredThread, Leaves
<1>4. u \in Uthreads => c[u].ref
  <2>1. u \in Threads => Anchored(c[u], u, a)
    BY DEF Live, Local
  <2> QED BY <2>1 DEF Leaves, Anchored, AnchoredThread
<1>5. ASSUME u \notin Uthreads \/ e[u].status = "zombie"
      PROVE  Cardinality(CountedIn(e)) = Cardinality(CountedIn(c))
  <2>1. ASSUME NEW v \in Uthreads
        PROVE  e[v].ref /\ e[v].status # "suspended" <=> c[v].ref /\ c[v].status # "suspended"
    BY <1>2, <1>4, <1>5 DEF Leaves
  <2>2. CountedIn(e) = CountedIn(c)
    BY <2>1 DEF CountedIn
  <2> QED BY <2>2
<1>6. ASSUME u \in Uthreads, e[u].status = "dead"
      PROVE  Cardinality(CountedIn(e)) = Cardinality(CountedIn(c)) - 1
  <2>1. u \in CountedIn(c)
    BY <1>4, <1>6 DEF Leaves, CountedIn
  <2>2. CountedIn(e) = CountedIn(c) \ {u}
    BY <1>2, <1>6 DEF Leaves, CountedIn
  <2> QED BY <2>1, <2>2, CountFacts
<1>7. ASSUME ~Someone(e) PROVE Cardinality(CountedIn(e)) = 0
  <2>1. ASSUME NEW v \in CountedIn(e) PROVE FALSE
    <3>1. v \in Uthreads /\ v \in Threads /\ e[v].ref /\ e[v].status # "suspended"
      BY <2>1 DEF CountedIn, Threads
    <3>2. e[v].status \in Statuses /\ e[v].status \notin {"none", "dead"}
      BY <1>3, <3>1 DEF Rec
    <3> QED BY <1>7, <3>1, <3>2 DEF Someone, Statuses
  <2>2. CountedIn(e) = {}
    BY <2>1
  <2> QED BY <2>2, FS_EmptySet
<1> QED BY <1>1, <1>5, <1>6, <1>7

\* An alive parent that does not wait for it gets a zombie.
LEMMA EndZombieGoes ==
    ASSUME IInv, ~misled, NEW u, NEW ok, EndZombie(u, ok)
    PROVE  Goes
<1> PICK d, q, z, a : d = co' /\ q = posted /\ z = zombies /\ a = onAbort
  OBVIOUS
<1>1. u \in Uthreads /\ Runs(u) /\ u \in Threads /\ u \notin Coros /\ ~co[u].waited
  BY DEF EndZombie, Threads
<1>2. /\ z \in [Threads -> Seq(Uthreads)] /\ q \in Seq(Threads) /\ a \in Uthreads \cup {None}
      /\ ~ended /\ co[u].status = "running" /\ co[u].at = "lua" /\ misled \in BOOLEAN
      /\ Anchored(co[u], u, a)
  BY <1>1, Running, Before
<1>3. co[u].ref
  BY <1>1, <1>2 DEF Anchored, AnchoredThread
<1> PICK n, p : n = Cardinality(Reaped(u, ok)) /\ p = co[u].parent
  OBVIOUS
<1>4. p \in Threads /\ p # u
  BY <1>1, <1>2, Running, Before DEF Children
<1>5. PICK c : /\ AfterReap(c, u, n)
               /\ \A e : Deletes(Over(u), e, Reaped(u, ok)) => Ended(c, e, u) /\ e[u].ref = c[u].ref
  BY <1>1, EndFacts
<1> PICK e : e = Del(Over(u), Reaped(u, ok))
  OBVIOUS
<1>6. Ended(c, e, u) /\ e[u].ref = c[u].ref
  <2>1. Deletes(Over(u), e, Reaped(u, ok))
    BY DEF Deletes
  <2> QED BY <1>5, <2>1
<1>7. /\ c \in [Threads -> Rec] /\ Live(c, u, q, z, a) /\ c[u] = co[u]
      /\ uthreads - n = Cardinality(CountedIn(c)) /\ uthreads - n \in Nat /\ Corpses(c, z)
  BY <1>5 DEF AfterReap, Live
<1> PICK y : y = Marked(e[u], "zombie")
  OBVIOUS
<1>8. y \in Rec /\ y.status = "zombie" /\ Kin(e[u], y) /\ y.at = e[u].at
  <2>1. "zombie" \in Statuses /\ e[u] \in Rec
    BY <1>1, <1>6 DEF Ended, Statuses
  <2> QED BY <2>1, MarkedFacts
<1>9. d \in [Threads -> Rec] /\ d[u] = y /\ \A v \in Threads \ {u} : d[v] = e[v]
  <2>1. d = [e EXCEPT ![u] = y]
    BY DEF EndZombie, Marked
  <2>2. e \in [Threads -> Rec]
    BY <1>6 DEF Ended
  <2> QED BY <1>1, <1>8, <2>1, <2>2, PutFacts
<1>10. Leaves(c, d, u)
  BY <1>1, <1>2, <1>3, <1>6, <1>7, <1>8, <1>9 DEF Leaves, Ended, Kin
<1>11. /\ SameCorpses(c, d)
       /\ Cardinality(CountedIn(d)) = Cardinality(CountedIn(c))
  <2>1. d[u].status = "zombie"
    BY <1>8, <1>9
  <2> QED BY <1>7, <1>10, <2>1, LeavesFacts
<1> PICK r : r = zombies'
  OBVIOUS
<1>12. PICK w : Frees(z, w, u, ok)
  BY DEF Frees
<1>13. w \in [Threads -> Seq(Uthreads)] /\ Corpses(d, w)
  BY <1>1, <1>2, <1>7, <1>11, <1>12, FreesFacts
<1>14. r \in [Threads -> Seq(Uthreads)] /\ Corpses(d, r)
  <2>1. r = [w EXCEPT ![p] = Append(@, u)]
    <3>1. r = [z EXCEPT ![u] = IF ok THEN <<>> ELSE @, ![p] = Append(@, u)]
      BY DEF EndZombie
    <3>2. w = [z EXCEPT ![u] = IF ok THEN <<>> ELSE @]
      BY <1>12 DEF Frees
    <3> QED BY <1>1, <1>2, <1>4, <3>1, <3>2
  <2>2. w[p] \in Seq(Uthreads)
    BY <1>4, <1>13
  <2> PICK s : s = Append(w[p], u)
    OBVIOUS
  <2>3. s \in Seq(Uthreads)
    BY <1>1, <2>2
  <2>4. r = [w EXCEPT ![p] = s]
    BY <2>1
  <2>5. r \in [Threads -> Seq(Uthreads)]
    BY <1>4, <1>13, <2>3, <2>4
  <2>6. SameCorpses(d, d) /\ d[u].status = "zombie"
    BY <1>8, <1>9 DEF SameCorpses
  <2>7. Corpses(d, [w EXCEPT ![p] = Append(@, u)])
    BY <1>1, <1>4, <1>13, <2>6, SameCorpsesKeep
  <2> QED BY <2>1, <2>5, <2>7
<1>15. Live(d, None, q, r, a)
  <2>1. Someone(d)
    BY <1>1, <1>8, <1>9 DEF Someone
  <2>2. Wakers(c, d, u)
    BY <1>1, <1>7 DEF Wakers
  <2> QED BY <1>7, <1>10, <1>14, <2>1, <2>2, LeavesKeeps
<1>16. /\ cur' = None /\ uthreads' = uthreads - n
       /\ UNCHANGED <<posted, onAbort, ended, misled>>
  BY DEF EndZombie
<1>17. uthreads' = Cardinality(CountedIn(d)) /\ uthreads' \in Int
  BY <1>7, <1>11, <1>16
<1> QED BY <1>2, <1>9, <1>14, <1>15, <1>16, <1>17 DEF Goes

\* A parent that waits for it, or is taken to, goes on.
Unflags(e, f, u) == f = [e EXCEPT ![u].waited = FALSE]

LEMMA EndWaitedGoes ==
    ASSUME IInv, ~misled, NEW u, NEW ok, EndWaited(u, ok)
    PROVE  Goes
<1> PICK d, q, z, a : d = co' /\ q = posted /\ z = zombies /\ a = onAbort
  OBVIOUS
<1> PICK n, p : n = Cardinality(Reaped(u, ok)) /\ p = co[u].parent
  OBVIOUS
<1>1. u \in Uthreads /\ Runs(u) /\ u \in Threads /\ u \notin Coros /\ u # Entry /\ Alive(p)
  BY DEF EndWaited, Threads
<1>2. /\ z \in [Threads -> Seq(Uthreads)] /\ q \in Seq(Threads) /\ a \in Uthreads \cup {None}
      /\ ~ended /\ co[u].status = "running" /\ co[u].at = "lua" /\ misled \in BOOLEAN
      /\ cur = u /\ Anchored(co[u], u, a) /\ Uthreads \subseteq Threads
  BY <1>1, Running, Before
<1>3. p \in Threads /\ p # u /\ co[p].status # "none"
  BY <1>1, <1>2, Running, Before DEF Children
<1>4. PICK c : /\ AfterReap(c, u, n)
               /\ \A e : Deletes(Over(u), e, Reaped(u, ok) \cup {u}) =>
                     Ended(c, e, u) /\ ~e[u].ref
  BY <1>1, EndFacts
<1> PICK e : e = Del(Over(u), Reaped(u, ok) \cup {u})
  OBVIOUS
<1>5. Ended(c, e, u) /\ ~e[u].ref
  <2>1. Deletes(Over(u), e, Reaped(u, ok) \cup {u})
    BY DEF Deletes
  <2> QED BY <1>4, <2>1
<1>6. /\ c \in [Threads -> Rec] /\ Live(c, u, q, z, a) /\ c[u] = co[u] /\ c[p] = co[p]
      /\ uthreads - n = Cardinality(CountedIn(c)) /\ uthreads - n \in Nat /\ Corpses(c, z)
  BY <1>1, <1>3, <1>4 DEF AfterReap, Live, Alive
<1>7. /\ e \in [Threads -> Rec] /\ e[p] = c[p] /\ \A v \in Threads \ {u} : e[v] = c[v]
      /\ e[u].status = "dead" /\ ~e[u].timer /\ ~e[u].ref /\ e[u].at = "over"
      /\ e[u].parent = c[u].parent
  BY <1>3, <1>5 DEF Ended
<1> PICK f : Unflags(e, f, u)
  BY DEF Unflags
<1> PICK x : x = f[u]
  OBVIOUS
<1>8. /\ f \in [Threads -> Rec] /\ f[u] = Returned(e[u]) /\ \A v \in Threads \ {u} : f[v] = e[v]
  <2>1. f = [e EXCEPT ![u] = Returned(e[u])]
    BY DEF Unflags, Returned
  <2>2. Returned(e[u]) \in Rec
    BY <1>1, <1>7, WaitedFacts
  <2> QED BY <1>1, <1>7, <2>1, <2>2, PutFacts
<1>9. /\ f \in [Threads -> Rec] /\ f[p] = c[p] /\ \A v \in Threads \ {u, p} : f[v] = c[v]
      /\ x \in Rec /\ x.status = "dead" /\ ~x.timer /\ ~x.ref /\ x.at = "over"
      /\ x.parent = c[u].parent
  <2>1. e[u] \in Rec
    BY <1>1, <1>7
  <2>2. /\ x \in Rec /\ x.status = "dead" /\ ~x.timer /\ ~x.ref /\ x.at = "over"
        /\ x.parent = c[u].parent
    BY <1>7, <1>8, <2>1, WaitedFacts
  <2> QED BY <1>3, <1>7, <1>8, <2>2
<1>10. /\ d \in [Threads -> Rec] /\ d[p].status = "running" /\ d[p].at = "lua"
       /\ Kin(f[p], d[p]) /\ \A v \in Threads \ {p} : d[v] = f[v]
  <2>1. Hands(f, d, p)
    BY DEF EndWaited, Hands, Unflags
  <2> QED BY <1>3, <1>9, <2>1, HandsFacts
<1> PICK y : y = d[p]
  OBVIOUS
<1>11. /\ d[u] = x /\ d[p] = y /\ \A v \in Threads \ {u, p} : d[v] = c[v]
       /\ y \in Rec /\ y.at = "lua" /\ y.status = "running" /\ Kin(c[p], y)
  BY <1>1, <1>3, <1>9, <1>10
<1>12. /\ cur' = p /\ uthreads' = uthreads - n - 1
       /\ misled' = (misled \/ co[p].at # "wait" \/ u \notin co[p].on)
       /\ UNCHANGED <<posted, onAbort, ended>>
  BY DEF EndWaited
<1> PICK w : w = zombies'
  OBVIOUS
<1>13. Frees(z, w, u, ok)
  BY DEF EndWaited, Frees
<1>14. SameCorpses(c, d)
  BY <1>1, <1>2, <1>3, <1>6, <1>9, <1>11 DEF SameCorpses, Alive
<1>15. w \in [Threads -> Seq(Uthreads)] /\ Corpses(d, w)
  BY <1>1, <1>2, <1>6, <1>13, <1>14, FreesFacts
<1>16. /\ d \in [Threads -> Rec] /\ cur' \in Threads \cup {None} /\ uthreads' \in Int
       /\ posted' \in Seq(Threads) /\ w \in [Threads -> Seq(Uthreads)]
       /\ onAbort' \in Uthreads \cup {None} /\ ended' = FALSE /\ misled' \in BOOLEAN
  <2>1. uthreads' \in Int
    BY <1>6, <1>12
  <2>2. misled' \in BOOLEAN
    BY <1>12
  <2> QED BY <1>2, <1>3, <1>10, <1>12, <1>15, <2>1, <2>2
<1>17. CASE misled'
  BY <1>16, <1>17 DEF Goes
<1>18. CASE ~misled'
  <2>1. c[p].at = "wait" /\ c[p].status = "running"
    <3>1. co[p].at = "wait"
      BY <1>12, <1>18
    <3>2. Fits(c[p], u = p) /\ c[p].status \in Statuses
      BY <1>3, <1>6 DEF Live, Local, Rec
    <3> QED BY <1>1, <1>3, <1>6, <3>1, <3>2 DEF Fits, Alive, Statuses
  <2>2. NotIn(p, q) /\ NotIn(u, q) /\ Anchored(c[p], p, a) /\ ~c[p].timer
    <3>1. /\ Fits(c[p], u = p) /\ PostsOK(c[p], p, q) /\ Anchored(c[p], p, a)
          /\ PostsOK(c[u], u, q)
      BY <1>1, <1>3, <1>6 DEF Live, Local
    <3> QED BY <1>2, <1>6, <2>1, <3>1 DEF Fits, PostsOK, Awaits
  <2>3. \A v \in Threads \cap {u, p} : Local(d[v], v, p, q, a)
    <3>1. Local(x, u, p, q, a)
      BY <1>1, <1>3, <1>9, <2>2 DEF Local, Fits, PostsOK, Awaits, Anchored, AnchoredThread
    <3>2. Anchored(y, p, a) /\ ~y.timer
      BY <1>11, <2>1, <2>2 DEF Kin, Anchored, AnchoredThread, AnchoredEntry
    <3>3. Local(y, p, p, q, a)
      BY <1>11, <2>2, <3>2 DEF Local, Fits, PostsOK, Awaits
    <3> QED BY <1>11, <3>1, <3>3
  <2>4. \A v \in Threads \cap {u, p} : CalmThread(c[v], d[v], v)
    <3>1. CalmThread(c[u], x, u)
      BY <1>1, <1>2, <1>6, <1>9
         DEF CalmThread, ChainThread, TreeThread, Unborn, WaitThread, InWait
    <3>2. CalmThread(c[p], y, p)
      BY <1>11, <2>1
         DEF Kin, CalmThread, ChainThread, TreeThread, Unborn, WaitThread, InWait, Active
    <3> QED BY <1>11, <3>1, <3>2
  <2>5. \A v \in Uthreads \cap {u, p} : Wakers(c, d, v)
    <3>1. Wakers(c, d, u)
      BY <1>6, <1>11 DEF Wakers, InWait
    <3>2. Wakers(c, d, p)
      BY <1>11 DEF Wakers, Active, Kin
    <3> QED BY <3>1, <3>2
  <2>6. Aside(c, d, u, p, q, q, a, a, {u, p})
    BY <1>11 DEF Aside
  <2>7. Someone(d)
    BY <1>3, <1>11 DEF Someone
  <2>8. Live(d, p, q, w, a)
    <3>1. c \in [Threads -> Rec] /\ Live(c, u, q, z, a) /\ Corpses(d, w)
      BY <1>6, <1>15
    <3> QED BY <2>3, <2>4, <2>5, <2>6, <2>7, <3>1, Advance
  <2>9. uthreads' = Cardinality(CountedIn(d))
    <3>1. c[u].ref
      BY <1>1, <1>2, <1>6 DEF Anchored, AnchoredThread
    <3>2. u \in CountedIn(c)
      BY <1>1, <1>2, <1>6, <3>1 DEF CountedIn
    <3>3. y.ref = c[p].ref /\ y.status # "suspended" /\ c[p].status # "suspended"
      BY <1>11, <2>1 DEF Kin
    <3>4. ASSUME NEW v \in Uthreads
          PROVE  d[v].ref /\ d[v].status # "suspended"
                 <=> v # u /\ c[v].ref /\ c[v].status # "suspended"
      <4>1. CASE v = u
        BY <1>9, <1>11, <4>1
      <4>2. CASE v = p
        BY <1>3, <1>11, <3>3, <4>2
      <4>3. CASE v \notin {u, p}
        BY <1>2, <1>11, <4>3
      <4> QED BY <4>1, <4>2, <4>3
    <3>5. CountedIn(d) = CountedIn(c) \ {u}
      BY <3>4 DEF CountedIn
    <3>6. Cardinality(CountedIn(d)) = Cardinality(CountedIn(c)) - 1
      BY <3>2, <3>5, CountFacts
    <3> QED BY <1>6, <1>12, <3>6
  <2> QED BY <1>12, <1>16, <2>8, <2>9 DEF Goes
<1> QED BY <1>17, <1>18

\* The request may be over when the light thread u that ran is dead.
LEMMA StoppableAfter ==
    ASSUME NEW c, NEW e, NEW u, NEW q, NEW z, Leaves(c, e, u), e[u].status = "dead",
           Live(c, u, q, z, onAbort)
    PROVE  Stoppable(e)
<1>1. /\ c \in [Threads -> Rec] /\ ~e[u].timer
      /\ \A v \in Threads \ {u} : e[v] = c[v]
      /\ Uthreads \subseteq Threads
      /\ \A v \in Threads : Fits(c[v], u = v) /\ Anchored(c[v], v, onAbort)
  BY DEF Leaves, Live, Local, Threads
<1>2. ASSUME NEW v \in Uthreads
      PROVE  /\ e[v].status \notin {"none", "dead"} => e[v].ref
             /\ e[v].status = "suspended" => v = onAbort
  <2>1. CASE v = u
    BY <2>1
  <2>2. CASE v # u
    BY <1>1, <2>2 DEF Anchored, AnchoredThread
  <2> QED BY <2>1, <2>2
<1>3. ASSUME NEW v \in Threads \ Coros, e[v].timer PROVE e[v].ref
  <2>1. v # u /\ e[v] = c[v]
    BY <1>1, <1>3
  <2>2. c[v].status = "running" /\ (v = Entry \/ v \in Uthreads)
    BY <1>1, <1>3, <2>1 DEF Fits, Threads
  <2> QED BY <1>1, <2>1, <2>2 DEF Anchored, AnchoredThread, AnchoredEntry
<1> QED BY <1>2, <1>3 DEF Stoppable

\* Nobody waits for it: the request is over if it was the last one.
LEMMA EndDetachedKeeps ==
    ASSUME IInv, ~misled, NEW u, NEW ok, EndDetached(u, ok)
    PROVE  IInv'
<1> PICK q, z, a : q = posted /\ z = zombies /\ a = onAbort
  OBVIOUS
<1> PICK n, p : n = Cardinality(Reaped(u, ok)) /\ p = co[u].parent
  OBVIOUS
<1>1. u \in Uthreads /\ Runs(u) /\ u \in Threads /\ u \notin Coros /\ u # Entry /\ ~Alive(p)
  BY DEF EndDetached, Threads
<1>2. /\ z \in [Threads -> Seq(Uthreads)] /\ q \in Seq(Threads) /\ a \in Uthreads \cup {None}
      /\ ~ended /\ co[u].status = "running" /\ co[u].at = "lua" /\ misled \in BOOLEAN
      /\ Anchored(co[Entry], Entry, a) /\ Entry \in Threads
  BY <1>1, Running, Before
<1>3. p \in Threads /\ p # u
  BY <1>1, <1>2, Running, Before DEF Children
<1>4. PICK c : /\ AfterReap(c, u, n)
               /\ \A e : Deletes(Over(u), e, Reaped(u, ok) \cup {u}) =>
                     Ended(c, e, u) /\ ~e[u].ref
  BY <1>1, EndFacts
<1> PICK e : Deletes(Over(u), e, Reaped(u, ok) \cup {u})
  BY DEF Deletes
<1>5. Ended(c, e, u) /\ ~e[u].ref
  BY <1>4
<1>6. /\ c \in [Threads -> Rec] /\ Live(c, u, q, z, a) /\ c[u] = co[u]
      /\ uthreads - n = Cardinality(CountedIn(c)) /\ uthreads - n \in Nat /\ Corpses(c, z)
      /\ \A v \in Threads : c[v] = co[v] \/ (co[v].status = "zombie" /\ c[v].status = "dead")
  BY <1>4 DEF AfterReap, Live
<1>7. Leaves(c, e, u) /\ e[u].status = "dead"
  BY <1>1, <1>2, <1>5, <1>6 DEF Leaves, Ended
<1>8. /\ SameCorpses(c, e) /\ Cardinality(CountedIn(e)) = Cardinality(CountedIn(c)) - 1
      /\ Cardinality(CountedIn(e)) # 0 => Someone(e)
  BY <1>1, <1>6, <1>7, LeavesFacts
<1>9. uthreads - n - 1 = Cardinality(CountedIn(e)) /\ uthreads - n - 1 \in Int
  BY <1>6, <1>8
<1>10. misled' = misled
  BY DEF EndDetached
<1>11. CASE AllOver(uthreads - n - 1)
  <2>1. FinalizeThreads(e, uthreads - n - 1)
    BY <1>11 DEF EndDetached, Deletes
  <2>2. Stoppable(e)
    BY <1>6, <1>7, StoppableAfter
  <2>3. e \in [Threads -> Rec] /\ misled' \in BOOLEAN
    BY <1>2, <1>7, <1>10 DEF Leaves
  <2> PICK m : m = uthreads - n - 1
    OBVIOUS
  <2>4. FinalizeThreads(e, m) /\ m = Cardinality(CountedIn(e))
    BY <1>9, <2>1
  <2> QED BY <2>2, <2>3, <2>4, FinalizeKeeps
<1>12. CASE ~AllOver(uthreads - n - 1)
  <2> PICK d, w : d = co' /\ w = zombies'
    OBVIOUS
  <2>1. /\ d = e /\ uthreads' = uthreads - n - 1 /\ cur' = None
        /\ Frees(z, w, u, ok) /\ UNCHANGED <<posted, onAbort, ended>>
    BY <1>12 DEF EndDetached, Frees, Deletes
  <2>2. w \in [Threads -> Seq(Uthreads)] /\ Corpses(e, w)
    BY <1>1, <1>2, <1>6, <1>8, <2>1, FreesFacts
  <2>3. Someone(e)
    <3>1. CASE co[Entry].ref
      <4>1. co[Entry].status \in {"running", "normal"}
        BY <1>2, <3>1 DEF Anchored, AnchoredEntry
      <4>2. e[Entry] = co[Entry]
        BY <1>1, <1>2, <1>6, <1>7, <4>1 DEF Leaves
      <4> QED BY <1>2, <4>1, <4>2 DEF Someone
    <3>2. CASE ~co[Entry].ref
      <4>1. uthreads - n - 1 # 0
        BY <1>12, <3>2 DEF AllOver
      <4> QED BY <1>8, <1>9, <4>1
    <3> QED BY <3>1, <3>2
  <2>4. Wakers(c, e, u)
    <3>1. e[p] = c[p] /\ c[p].status \in {"dead", "zombie"}
      BY <1>1, <1>3, <1>6, <1>7 DEF Leaves, Alive
    <3>2. c[u].parent = p
      BY <1>6
    <3> QED BY <3>1, <3>2 DEF Wakers, InWait
  <2>5. Live(e, None, q, w, a)
    BY <1>6, <1>7, <2>2, <2>3, <2>4, LeavesKeeps
  <2>6. e \in [Threads -> Rec]
    BY <1>7 DEF Leaves
  <2>7. uthreads' = Cardinality(CountedIn(e)) /\ uthreads' \in Int
    BY <1>9, <2>1
  <2>8. Goes
    BY <1>2, <1>10, <2>1, <2>2, <2>5, <2>6, <2>7 DEF Goes
  <2> QED BY <2>8, GoesOn
<1> QED BY <1>11, <1>12

\* The entry thread ends: the request is over unless user threads are left.
LEMMA EndEntryKeeps ==
    ASSUME IInv, ~misled, NEW ok, EndEntry(ok)
    PROVE  IInv'
<1> PICK q, z, a : q = posted /\ z = zombies /\ a = onAbort
  OBVIOUS
<1> PICK n : n = Cardinality(Reaped(Entry, ok))
  OBVIOUS
<1>1. Runs(Entry) /\ Entry \in Threads /\ Entry \notin Coros /\ Entry \notin Uthreads
  BY DEF EndEntry, Threads
<1>2. /\ z \in [Threads -> Seq(Uthreads)] /\ q \in Seq(Threads) /\ a \in Uthreads \cup {None}
      /\ ~ended /\ co[Entry].status = "running" /\ co[Entry].at = "lua" /\ misled \in BOOLEAN
      /\ Anchored(co[Entry], Entry, a)
  BY <1>1, Running, Before
<1>3. PICK c : /\ AfterReap(c, Entry, n)
               /\ \A e : Deletes(Over(Entry), e, Reaped(Entry, ok)) =>
                     Ended(c, e, Entry) /\ e[Entry].ref = c[Entry].ref
  BY <1>1, EndFacts
<1> PICK e : Deletes(Over(Entry), e, Reaped(Entry, ok))
  BY DEF Deletes
<1>4. Ended(c, e, Entry) /\ e[Entry].ref = c[Entry].ref
  BY <1>3
<1>5. /\ c \in [Threads -> Rec] /\ Live(c, Entry, q, z, a) /\ c[Entry] = co[Entry]
      /\ uthreads - n = Cardinality(CountedIn(c)) /\ uthreads - n \in Nat /\ Corpses(c, z)
  BY <1>3 DEF AfterReap, Live
<1> PICK d : Deletes(e, d, {Entry})
  BY DEF Deletes
<1>6. Leaves(c, d, Entry) /\ d[Entry].status = "dead"
  <2>1. e \in [Threads -> Rec] /\ e[Entry].ref /\ \A v \in Threads \ {Entry} : e[v] = c[v]
    BY <1>2, <1>4, <1>5 DEF Ended, Anchored, AnchoredEntry
  <2>2. /\ d \in [Threads -> Rec]
        /\ \A v \in Threads : d[v] = IF v \in {Entry} /\ e[v].ref THEN Buried(e[v]) ELSE e[v]
    BY <2>1, DelFacts
  <2>3. d[Entry] = Buried(e[Entry]) /\ \A v \in Threads \ {Entry} : d[v] = c[v]
    BY <1>1, <2>1, <2>2
  <2>4. /\ d[Entry].status = "dead" /\ ~d[Entry].ref /\ ~d[Entry].timer
        /\ d[Entry].at = "over" /\ d[Entry].parent = c[Entry].parent
    <3>1. e[Entry] \in Rec
      BY <1>1, <2>1
    <3> QED BY <1>4, <2>3, <3>1, BuriedFacts DEF Ended
  <2> QED BY <1>1, <1>2, <1>5, <2>2, <2>3, <2>4 DEF Leaves
<1>7. /\ SameCorpses(c, d) /\ Cardinality(CountedIn(d)) = Cardinality(CountedIn(c))
      /\ Cardinality(CountedIn(d)) # 0 => Someone(d)
  BY <1>1, <1>5, <1>6, LeavesFacts
<1>8. misled' = misled
  BY DEF EndEntry
<1>9. CASE ok /\ uthreads - n > 0
  <2> PICK w : w = zombies'
    OBVIOUS
  <2>1. /\ co' = d /\ uthreads' = uthreads - n /\ cur' = None
        /\ Frees(z, w, Entry, ok) /\ UNCHANGED <<posted, onAbort, ended>>
    <3>1. uthreads - Cardinality(Reaped(Entry, ok)) > 0
      BY <1>9
    <3> QED BY <1>9, <3>1 DEF EndEntry, Deletes, Frees
  <2>2. w \in [Threads -> Seq(Uthreads)] /\ Corpses(d, w)
    BY <1>1, <1>2, <1>5, <1>7, <2>1, FreesFacts
  <2>3. uthreads' = Cardinality(CountedIn(d)) /\ uthreads' \in Int
    BY <1>5, <1>7, <2>1
  <2>4. Someone(d)
    <3>1. uthreads - n > 0
      BY <1>9
    <3>2. uthreads - n = Cardinality(CountedIn(c))
      BY <1>5
    <3>3. Cardinality(CountedIn(c)) > 0
      BY <3>1, <3>2
    <3> QED BY <1>7, <3>3
  <2>5. Live(d, None, q, w, a)
    BY <1>1, <1>5, <1>6, <2>2, <2>4, LeavesKeeps
  <2>6. d \in [Threads -> Rec]
    BY <1>6 DEF Leaves
  <2>7. Goes
    BY <1>2, <1>8, <2>1, <2>2, <2>3, <2>5, <2>6 DEF Goes
  <2> QED BY <2>7, GoesOn
<1>10. CASE ~(ok /\ uthreads - n > 0)
  <2>1. FinalizeThreads(IF ok THEN d ELSE e, uthreads - n)
    <3>1. ~(ok /\ uthreads - Cardinality(Reaped(Entry, ok)) > 0)
      BY <1>10
    <3> QED BY <3>1 DEF EndEntry, Deletes
  <2> PICK m : m = uthreads - n
    OBVIOUS
  <2>2. misled' \in BOOLEAN
    BY <1>2, <1>8
  <2>3. CASE ok
    <3>1. FinalizeThreads(d, m)
      BY <2>1, <2>3
    <3>2. Stoppable(d)
      BY <1>5, <1>6, StoppableAfter
    <3>3. m = Cardinality(CountedIn(d)) /\ d \in [Threads -> Rec]
      BY <1>5, <1>6, <1>7 DEF Leaves
    <3> QED BY <2>2, <3>1, <3>2, <3>3, FinalizeKeeps
  <2>4. CASE ~ok
    <3>1. FinalizeThreads(e, m)
      BY <2>1, <2>4
    <3>2. /\ e \in [Threads -> Rec] /\ ~e[Entry].timer
          /\ \A v \in Threads \ {Entry} : e[v] = d[v]
      BY <1>4, <1>6 DEF Ended, Leaves
    <3>3. Stoppable(e)
      <4>1. Stoppable(d)
        BY <1>5, <1>6, StoppableAfter
      <4> QED BY <1>1, <3>2, <4>1 DEF Stoppable, Threads
    <3>4. CountedIn(e) = CountedIn(d)
      BY <1>1, <3>2 DEF CountedIn, Threads
    <3>5. m = Cardinality(CountedIn(e))
      BY <1>5, <1>7, <3>4
    <3> QED BY <2>2, <3>1, <3>2, <3>3, <3>5, FinalizeKeeps
  <2> QED BY <2>3, <2>4
<1> QED BY <1>9, <1>10

----------------------------------------------------------------------------
(* The invariant.                                                          *)

LEMMA CallKeeps ==
    ASSUME IInv, ~misled, NEW t \in Threads, Call(t)
    PROVE  IInv'
<1>1. CASE Exit(t)
  BY <1>1, ExitKeeps
<1>2. CASE Sleep(t) \/ YieldThread(t)
  BY <1>2, SleepGoes, YieldThreadGoes, GoesOn
<1>3. CASE YieldCoro(t)
  BY <1>3, YieldCoroGoes, GoesOn
<1>4. ASSUME NEW u \in Uthreads, Spawn(t, u) \/ Kill(t, u) \/ RegisterAbort(t, u)
      PROVE  IInv'
  BY <1>4, SpawnGoes, KillGoes, RegisterAbortGoes, GoesOn
<1>5. ASSUME NEW us \in SeqOf(Uthreads, MaxArgs) \ {<<>>}, ThreadWait(t, us)
      PROVE  IInv'
  BY <1>5, ThreadWaitGoes, GoesOn
<1>6. ASSUME NEW x \in Coros, Create(t, x) \/ Resume(t, x)
      PROVE  IInv'
  BY <1>6, CreateGoes, ResumeGoes, GoesOn
<1> QED BY <1>1, <1>2, <1>3, <1>4, <1>5, <1>6 DEF Call

LEMMA EndKeeps ==
    ASSUME IInv, ~misled, NEW ok, End(ok)
    PROVE  IInv'
<1>1. CASE EndEntry(ok)
  BY <1>1, EndEntryKeeps
<1>2. ASSUME NEW u \in Uthreads, EndWaited(u, ok) \/ EndZombie(u, ok)
      PROVE  IInv'
  BY <1>2, EndWaitedGoes, EndZombieGoes, GoesOn
<1>3. ASSUME NEW u \in Uthreads, EndDetached(u, ok)
      PROVE  IInv'
  BY <1>3, EndDetachedKeeps
<1>4. ASSUME NEW x \in Coros, EndCoro(x, ok)
      PROVE  IInv'
  BY <1>4, EndCoroGoes, GoesOn
<1> QED BY <1>1, <1>2, <1>3, <1>4 DEF End

LEMMA StepKeeps ==
    IInv /\ [Next]_vars => IInv'
<1> SUFFICES ASSUME IInv, [Next]_vars PROVE IInv'
  OBVIOUS
<1>1. CASE UNCHANGED vars
  BY <1>1 DEF vars, IInv, Types, Sound
<1>2. CASE NextRequest
  BY <1>2, NextRequestKeeps
<1>3. ASSUME ~misled, NEW t \in Threads, Call(t) \/ SleepHandler(t)
      PROVE  IInv'
  BY <1>3, CallKeeps, SleepHandlerGoes, GoesOn
<1>4. ASSUME ~misled, NEW ok \in BOOLEAN, End(ok)
      PROVE  IInv'
  BY <1>4, EndKeeps
<1>5. CASE ~misled /\ (RunPosted \/ ClientGone)
  BY <1>5, RunPostedGoes, ClientGoneKeeps, GoesOn
<1> QED BY <1>1, <1>2, <1>3, <1>4, <1>5 DEF Next

LEMMA Invariant == Spec => []IInv
  BY InitHolds, StepKeeps, PTL DEF Spec

----------------------------------------------------------------------------
(* Theorems.                                                               *)

\* TypeOK, with a count that is never negative before a misled step: what
\* run_thread, wait, kill and the finalize path count down was counted.
THEOREM TypeCorrect == Spec => []TypeOK
<1>1. IInv => TypeOK
  <2> SUFFICES ASSUME IInv PROVE TypeOK
    OBVIOUS
  <2>1. misled \/ uthreads >= 0
    <3>1. ASSUME ~misled PROVE uthreads >= 0
      <4>1. Cardinality(CountedIn(co)) \in Nat
        BY CountFacts
      <4>2. uthreads = Cardinality(CountedIn(co))
        BY <3>1 DEF IInv, Sound
      <4> QED BY <4>1, <4>2
    <3> QED BY <3>1
  <2> QED BY <2>1 DEF IInv, Types, TypeOK, Rec
<1> QED BY <1>1, Invariant, PTL

\* UthreadsCounted: the count by which the request goes on is that of the user
\* threads that are anchored and started, on every path that ends a thread.
THEOREM CountKept == Spec => []UthreadsCounted
<1>1. IInv => UthreadsCounted
  <2> SUFFICES ASSUME IInv, ~misled PROVE UthreadsCounted
    BY DEF UthreadsCounted
  <2>1. uthreads = Cardinality({u \in Uthreads : co[u].ref /\ co[u].status # "suspended"})
    BY DEF IInv, Sound, CountedIn
  <2>2. ASSUME NEW u \in Uthreads PROVE co[u].ref <=> co[u].status \notin {"none", "dead"}
    <3>1. CASE ended
      BY <3>1 DEF IInv, Sound, Finished
    <3>2. CASE ~ended
      <4>1. Anchored(co[u], u, onAbort)
        BY <3>2, Before
      <4> QED BY <4>1 DEF Anchored, AnchoredThread
    <3> QED BY <3>1, <3>2
  <2> QED BY <2>1, <2>2 DEF UthreadsCounted
<1> QED BY <1>1, Invariant, PTL

\* ChainsSound: coroutine.resume, yield and the end of a coroutine keep the chain
\* from the thread that runs down to the light thread it came from.
THEOREM ChainsKept == Spec => []ChainsSound
<1>1. IInv => ChainsSound
  <2> SUFFICES ASSUME IInv, ~misled, ~ended PROVE ChainsSound
    BY DEF ChainsSound
  <2>1. /\ cur \in Threads \cup {None} /\ Resumes(co) /\ Coros \subseteq Threads
        /\ \A t \in Threads : Fits(co[t], cur = t)
    BY Before
  <2>2. cur # None => co[cur].status = "running" /\ co[cur].at = "lua"
    BY <2>1 DEF Fits
  <2>3. ASSUME NEW t \in Threads, co[t].status = "normal"
        PROVE  /\ co[t].at = "resume"
               /\ Cardinality({c \in Coros : /\ co[c].parent = t
                                             /\ co[c].status \in {"running", "normal"}}) = 1
    <3>1. co[t].at = "resume"
      BY <2>1, <2>3 DEF Fits
    <3>2. PICK x \in Coros : Riding(co, t, x) /\ \A y \in Coros : Riding(co, t, y) => y = x
      BY <2>1, <2>3 DEF Resumes
    <3>3. {c \in Coros : co[c].parent = t /\ co[c].status \in {"running", "normal"}} = {x}
      BY <3>2 DEF Riding, Active
    <3>4. Cardinality({x}) = 1
      BY FS_Singleton
    <3> QED BY <3>1, <3>3, <3>4
  <2>4. \A c \in Coros : co[c].status \in {"running", "normal"} =>
           co[co[c].parent].status \in {"normal", "dead"}
    BY <2>1 DEF Resumes, Active
  <2> QED BY <2>2, <2>3, <2>4 DEF ChainsSound
<1> QED BY <1>1, Invariant, PTL

\* WakeupPending: whoever waits has the timer, the one post or the living child
\* that resumes it, and the finalize path leaves no event behind.
THEOREM WakeupsKept == Spec => []WakeupPending
<1>1. IInv => WakeupPending
  <2> SUFFICES ASSUME IInv, ~misled PROVE WakeupPending
    BY DEF WakeupPending
  <2>1. CASE ended
    <3>1. Finished(co)
      BY <2>1 DEF IInv, Sound
    <3> QED BY <2>1, <3>1 DEF WakeupPending, Finished
  <2>2. CASE ~ended
    <3> SUFFICES ASSUME NEW t \in Threads
                 PROVE  /\ co[t].timer <=> co[t].status = "running" /\ co[t].at = "sleep"
                        /\ Awaits(co[t]) => Posts(t) = 1
                        /\ InWait(co[t]) =>
                              \E u \in co[t].on : Alive(u) /\ co[u].waited /\ co[u].parent = t
      BY <2>2 DEF WakeupPending, Awaits, InWait
    <3>1. Fits(co[t], cur = t) /\ PostsOK(co[t], t, posted) /\ Waits(co) /\ posted \in Seq(Threads)
      BY <2>2, Before
    <3>2. ASSUME Awaits(co[t]) PROVE Posts(t) = 1
      <4>1. PICK i \in 1..Len(posted) : \A j \in 1..Len(posted) : posted[j] = t <=> j = i
        BY <3>1, <3>2 DEF PostsOK, OnceIn
      <4>2. {j \in DOMAIN posted : posted[j] = t} = {i}
        BY <3>1, <4>1
      <4>3. Cardinality({i}) = 1
        BY FS_Singleton
      <4> QED BY <4>2, <4>3 DEF Posts
    <3>3. InWait(co[t]) => \E u \in co[t].on : Alive(u) /\ co[u].waited /\ co[u].parent = t
      BY <3>1 DEF Waits, WaitsFor, Active, Alive
    <3>4. co[t].timer <=> co[t].status = "running" /\ co[t].at = "sleep"
      BY <3>1 DEF Fits
    <3> QED BY <3>2, <3>3, <3>4
  <2> QED BY <2>1, <2>2
<1> QED BY <1>1, Invariant, PTL

\* No event is to come.
Idle == InEventLoop /\ \A t \in Threads : ~co[t].timer

\* Whoever runs waits for a child that runs: the youngest cannot.
LEMMA NoneRuns ==
    ASSUME IInv, ~misled, Idle, ~WaitsForItself
    PROVE  \A t \in Threads : co[t].status # "running"
<1>1. /\ cur = None /\ posted = <<>> /\ ~ended /\ \A t \in Threads : ~co[t].timer
  BY DEF Idle, InEventLoop
<1>2. /\ Waits(co) /\ Children(co) /\ Ranked(co) /\ None \notin Threads /\ Uthreads \subseteq Threads
      /\ \A t \in Threads : co[t] \in Rec /\ Fits(co[t], cur = t) /\ PostsOK(co[t], t, posted)
  BY <1>1, Before
<1>3. ASSUME NEW t \in Threads, co[t].status = "running"
      PROVE  \E u \in Uthreads : co[u].status = "running" /\ co[u].parent = t
  <2>1. co[t].at # "lua" /\ co[t].at # "sleep"
    BY <1>1, <1>2, <1>3 DEF Fits
  <2>2. ~Awaits(co[t])
    <3>1. ~OnceIn(t, <<>>)
      BY DEF OnceIn
    <3> QED BY <1>1, <1>2, <3>1 DEF PostsOK
  <2>3. InWait(co[t])
    BY <1>2, <1>3, <2>1, <2>2 DEF Fits, Awaits, InWait
  <2>4. PICK u \in co[t].on : WaitsFor(co, t, u)
    BY <1>2, <2>3 DEF Waits
  <2>5. u \in Uthreads
    BY <1>2 DEF Rec
  <2>6. co[u].status # "normal"
    BY DEF WaitsForItself
  <2> QED BY <2>4, <2>5, <2>6 DEF WaitsFor, Active
<1> DEFINE W == {u \in Uthreads : co[u].status = "running"}
<1>4. ASSUME W # {} PROVE FALSE
  <2>1. PICK N \in Nat : \E f \in [Uthreads -> 0..N] : RanksThreads(co, f)
    BY <1>2 DEF Ranked
  <2>2. PICK f \in [Uthreads -> 0..N] : RanksThreads(co, f)
    BY <2>1
  <2>3. PICK m \in W : \A u \in W : f[u] <= f[m]
    <3>1. \A u \in W : f[u] \in 0..N
      OBVIOUS
    <3> HIDE DEF W
    <3> QED BY <1>4, <3>1, Extremes
  <2>4. PICK u \in W : co[u].parent = m
    BY <1>2, <1>3
  <2>5. f[m] < f[u]
    BY <2>2, <2>4 DEF RanksThreads
  <2>6. f[u] \in 0..N /\ f[m] \in 0..N /\ f[u] <= f[m]
    BY <2>3
  <2> QED BY <2>5, <2>6
<1> QED BY <1>3, <1>4

\* Whoever resumed a coroutine has one above him: the highest runs.
LEMMA NoneNormal ==
    ASSUME IInv, ~misled, Idle, \A t \in Threads : co[t].status # "running"
    PROVE  \A t \in Threads : co[t].status # "normal"
<1>1. /\ Resumes(co) /\ Ranked(co) /\ Coros \subseteq Threads
  BY Before DEF Idle, InEventLoop
<1>2. ASSUME NEW t \in Threads, co[t].status = "normal"
      PROVE  \E x \in Coros : co[x].status = "normal" /\ co[x].parent = t
  BY <1>1, <1>2 DEF Resumes, Riding, Active
<1> DEFINE W == {x \in Coros : co[x].status = "normal"}
<1>3. ASSUME W # {} PROVE FALSE
  <2>1. PICK N \in Nat : \E g \in [Threads -> 0..N] : RanksCoros(co, g)
    BY <1>1 DEF Ranked
  <2>2. PICK g \in [Threads -> 0..N] : RanksCoros(co, g)
    BY <2>1
  <2>3. PICK m \in W : \A x \in W : g[x] <= g[m]
    <3>1. \A x \in W : g[x] \in 0..N
      BY <1>1
    <3> HIDE DEF W
    <3> QED BY <1>3, <3>1, Extremes
  <2>4. PICK x \in W : co[x].parent = m
    BY <1>1, <1>2
  <2>5. g[m] < g[x]
    BY <2>2, <2>4 DEF RanksCoros, Active
  <2>6. g[x] \in 0..N /\ g[m] \in 0..N /\ g[x] <= g[m]
    BY <1>1, <2>3
  <2> QED BY <2>5, <2>6
<1> QED BY <1>2, <1>3

\* The eldest zombie has a parent that is none.
LEMMA NoneZombie ==
    ASSUME IInv, ~misled, Idle, ~ZombieHolds,
           \A t \in Threads : co[t].status \notin {"running", "normal"}
    PROVE  \A t \in Threads : co[t].status # "zombie"
<1>1. /\ Children(co) /\ Ranked(co) /\ Uthreads \subseteq Threads
      /\ \A t \in Threads : co[t] \in Rec /\ Anchored(co[t], t, onAbort)
  BY Before DEF Idle, InEventLoop
<1>2. ASSUME NEW t \in Threads, co[t].status = "zombie" PROVE t \in Uthreads
  BY <1>1, <1>2 DEF Anchored, AnchoredEntry, Threads
<1>3. ASSUME NEW u \in Uthreads, co[u].status = "zombie"
      PROVE  co[u].parent \in Uthreads /\ co[co[u].parent].status = "zombie"
  <2>1. co[u].parent \in Threads /\ co[co[u].parent].status # "none"
    BY <1>1, <1>3 DEF Children
  <2>2. co[co[u].parent].status \notin {"suspended", "dead"}
    BY <1>3 DEF ZombieHolds
  <2>3. co[co[u].parent].status = "zombie"
    BY <1>1, <2>1, <2>2 DEF Rec, Statuses
  <2> QED BY <1>2, <2>1, <2>3
<1> DEFINE W == {u \in Uthreads : co[u].status = "zombie"}
<1>4. ASSUME W # {} PROVE FALSE
  <2>1. PICK N \in Nat : \E f \in [Uthreads -> 0..N] : RanksThreads(co, f)
    BY <1>1 DEF Ranked
  <2>2. PICK f \in [Uthreads -> 0..N] : RanksThreads(co, f)
    BY <2>1
  <2>3. PICK m \in W : \A u \in W : f[m] <= f[u]
    <3>1. \A u \in W : f[u] \in 0..N
      OBVIOUS
    <3> HIDE DEF W
    <3> QED BY <1>4, <3>1, Extremes
  <2> PICK p : p = co[m].parent
    OBVIOUS
  <2>4. p \in W
    BY <1>3
  <2>5. f[p] < f[m]
    BY <2>2, <2>4 DEF RanksThreads
  <2>6. f[p] \in 0..N /\ f[m] \in 0..N /\ f[m] <= f[p]
    BY <2>3, <2>4
  <2> QED BY <2>5, <2>6
<1> QED BY <1>2, <1>4

\* RequestEnds: while the request is not over some event is to come for it, but
\* for a zombie that nobody reaps, or threads that wait for each other.
THEOREM NoThreadLost == Spec => []RequestEnds
<1>1. IInv => RequestEnds
  <2> SUFFICES ASSUME IInv, ~misled, Idle, ~ZombieHolds, ~WaitsForItself PROVE FALSE
    BY DEF RequestEnds, Idle
  <2>1. \A t \in Threads : co[t].status \notin {"running", "normal"}
    BY NoneRuns, NoneNormal
  <2>2. \A t \in Threads : co[t].status # "zombie"
    BY <2>1, NoneZombie
  <2>3. Someone(co)
    BY Before DEF Idle, InEventLoop, Live
  <2> QED BY <2>1, <2>2, <2>3 DEF Someone
<1> QED BY <1>1, Invariant, PTL
=============================================================================
