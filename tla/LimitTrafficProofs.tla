------------------------- MODULE LimitTrafficProofs -------------------------
(***************************************************************************)
(* Proofs about LimitTraffic, for any number of requests and limiters.     *)
(* The idea is to say who is owed what on a counter: Claims(r, l) holds    *)
(* when r has been added to the counter of limiter l by a commit, and      *)
(* nothing has taken it off again or forgotten about it.  A counter is     *)
(* never below the number of claims on it, so that the reply of incr, which *)
(* incoming compares with the limit, is at least the number of requests    *)
(* that limiter has let through.                                           *)
(***************************************************************************)
EXTENDS LimitTraffic, FiniteSetTheorems, TLAPS

\* combine has committed to l before its call number a of incoming.
Before(a, l) == N < a /\ (l = N \/ l < a - N)

Claims(r, l) ==
    \/ pc[r] \in {"combine", "rejected"} /\ Before(at[r], l)
    \/ pc[r] = "rejected" /\ l = Asked(at[r])
    \/ pc[r] = "undo" /\ (l = N \/ (done[r] < l /\ l < Asked(at[r])))
    \/ pc[r] = "admitted" /\ done[r] < l

Claimants(c) == {q \in Requests \X Limiters : Claims(q[1], q[2]) /\ Counter(q[2]) = c}

(* The inductive invariant.                                                *)

Placed(r) ==
    /\ pc[r] = "none" => at[r] = 1
    /\ pc[r] \in {"none", "combine", "rejected"} => done[r] = 0
    /\ pc[r] = "rejected" => N <= at[r]
    /\ pc[r] = "undo" => N < at[r] /\ done[r] < at[r] - N
    /\ pc[r] = "admitted" => done[r] < N

Places == \A r \in Requests : Placed(r)

Backed ==
    \A c \in Counters : IsFiniteSet(Claimants(c)) /\ Cardinality(Claimants(c)) <= Number(count[c])

Unused == \A c \in Counters : (\A l \in Limiters : Counter(l) # c) => count[c] = NotFound

Kept == TypeOK /\ Places /\ Backed /\ Unused

IInv == Kept /\ WithinLimit /\ UndelayedWithinMax

\* Nobody is on the counter without a claim.
Exactly(c) == Cardinality(Claimants(c)) = Number(count[c])

Exact == crashes = 0 => \A c \in Counters : c # Counter(N) => Exactly(c)

----------------------------------------------------------------------------
(* Numbers of calls and limiters.                                          *)

LEMMA CallFacts ==
    ASSUME NEW a \in Calls
    PROVE  /\ Asked(a) \in Limiters /\ Limiters \subseteq Nat /\ Calls \subseteq Nat
           /\ N \in Nat /\ N \in Limiters /\ N \in Calls /\ 1 \in Calls
           /\ a > N => Asked(a) = a - N /\ Asked(a) < N
           /\ a <= N => Asked(a) = a
           /\ a < N => a + 1 \in Calls
           /\ a + 1 \notin Calls => a = 2 * N - 1
BY LimitTrafficAssumption DEF Asked, Limiters, Calls

LEMMA BeforeFacts ==
    ASSUME NEW a \in Calls, NEW l \in Limiters
    PROVE  (\E c \in Calls : N <= c /\ c < a /\ Asked(c) = l) <=> Before(a, l)
<1>1. N \in Nat \ {0} /\ a \in 1..(2 * N - 1) /\ l \in 1..N
  BY LimitTrafficAssumption DEF Limiters, Calls
<1>2. ASSUME NEW c \in Calls, N <= c, c < a, Asked(c) = l
      PROVE  Before(a, l)
  BY <1>1, <1>2 DEF Before, Asked, Calls
<1>3. ASSUME N < a, l = N
      PROVE  N \in Calls /\ N <= N /\ N < a /\ Asked(N) = l
  BY <1>1, <1>3 DEF Asked, Calls
<1>4. ASSUME N < a, l < a - N
      PROVE  N + l \in Calls /\ N <= N + l /\ N + l < a /\ Asked(N + l) = l
  BY <1>1, <1>4 DEF Asked, Calls
<1> QED BY <1>2, <1>3, <1>4 DEF Before

\* Whoever a limiter has let through has a claim on its counter.
LEMMA OnClaims ==
    ASSUME TypeOK, NEW r \in Requests, NEW l \in Limiters, On(r, l)
    PROVE  Claims(r, l)
BY BeforeFacts DEF TypeOK, On, Claims

LEMMA CounterFacts ==
    ASSUME NEW i \in Limiters, NEW j \in Limiters
    PROVE  Counter(i) \in Counters /\ <<DictOf[i], KeyOf[j]>> \in Counters
BY DEF Counter, Counters

LEMMA NumberFacts ==
    ASSUME TypeOK, NEW c \in Counters
    PROVE  /\ Number(count[c]) \in Nat /\ Number(NotFound) = 0
           /\ \A n \in Int : Number(n) = n
           /\ Number(count[c]) # 0 => count[c] # NotFound /\ Number(count[c]) = count[c]
BY LimitTrafficAssumption DEF TypeOK, Number

----------------------------------------------------------------------------
(* What a step does to the claims, and what that does to the counters.     *)

Others(r) ==
    \A q \in Requests \ {r} : pc'[q] = pc[q] /\ at'[q] = at[q] /\ done'[q] = done[q]

Joins(r, l) ==
    /\ Others(r) /\ ~Claims(r, l)
    /\ \A m \in Limiters : Claims(r, m)' <=> Claims(r, m) \/ m = l

Leaves(r, l) ==
    /\ Others(r) /\ Claims(r, l)
    /\ \A m \in Limiters : Claims(r, m)' <=> Claims(r, m) /\ m # l

Drops(r) == Others(r) /\ \A m \in Limiters : Claims(r, m)' => Claims(r, m)

LEMMA OtherClaims ==
    ASSUME NEW r \in Requests, Others(r), NEW q \in Requests, q # r, NEW m \in Limiters
    PROVE  Claims(q, m)' <=> Claims(q, m)
BY DEF Others, Claims, Before, Asked

LEMMA JoinFacts ==
    ASSUME NEW r \in Requests, NEW l \in Limiters, NEW c \in Counters, Joins(r, l)
    PROVE  /\ Counter(l) = c => Claimants(c)' = Claimants(c) \cup {<<r, l>>}
           /\ Counter(l) # c => Claimants(c)' = Claimants(c)
           /\ <<r, l>> \notin Claimants(c)
<1>1. \A q \in Requests, m \in Limiters : Claims(q, m)' <=> Claims(q, m) \/ (q = r /\ m = l)
  BY OtherClaims DEF Joins
<1>2. Claimants(c)' =
        {q \in Requests \X Limiters : Claims(q[1], q[2])' /\ Counter(q[2]) = c}
  BY DEF Claimants, Counter
<1>3. ~Claims(r, l)
  BY DEF Joins
<1> QED BY <1>1, <1>2, <1>3 DEF Claimants

LEMMA LeaveFacts ==
    ASSUME NEW r \in Requests, NEW l \in Limiters, NEW c \in Counters, Leaves(r, l)
    PROVE  /\ Counter(l) = c => Claimants(c)' = Claimants(c) \ {<<r, l>>}
           /\ Counter(l) # c => Claimants(c)' = Claimants(c)
           /\ Counter(l) = c => <<r, l>> \in Claimants(c)
<1>1. \A q \in Requests, m \in Limiters : Claims(q, m)' <=> Claims(q, m) /\ ~(q = r /\ m = l)
  BY OtherClaims DEF Leaves
<1>2. Claimants(c)' =
        {q \in Requests \X Limiters : Claims(q[1], q[2])' /\ Counter(q[2]) = c}
  BY DEF Claimants, Counter
<1>3. Claims(r, l)
  BY DEF Leaves
<1> QED BY <1>1, <1>2, <1>3 DEF Claimants

LEMMA DropFacts ==
    ASSUME NEW r \in Requests, NEW c \in Counters, Drops(r)
    PROVE  Claimants(c)' \subseteq Claimants(c)
<1>1. \A q \in Requests, m \in Limiters : Claims(q, m)' => Claims(q, m)
  BY OtherClaims DEF Drops
<1>2. Claimants(c)' =
        {q \in Requests \X Limiters : Claims(q[1], q[2])' /\ Counter(q[2]) = c}
  BY DEF Claimants, Counter
<1> QED BY <1>1, <1>2 DEF Claimants

Counting == count \in [Counters -> Nat \cup {NotFound}] /\ Backed /\ Unused

LEMMA JoinKeeps ==
    ASSUME TypeOK, Backed, Unused, NEW r \in Requests, NEW l \in Limiters,
           Joins(r, l), IncrInit(Counter(l), 1)
    PROVE  Counting' /\ \A c \in Counters : Exactly(c) => Exactly(c)'
<1> PICK n : n = Number(count[Counter(l)])
  OBVIOUS
<1>1. n \in Nat /\ count' = [count EXCEPT ![Counter(l)] = n + 1] /\ Counter(l) \in Counters
      /\ count \in [Counters -> Nat \cup {NotFound}]
  BY CounterFacts, NumberFacts DEF IncrInit, TypeOK
<1>2. count' \in [Counters -> Nat \cup {NotFound}]
  BY <1>1
<1>3. ASSUME NEW c \in Counters
      PROVE  IsFiniteSet(Claimants(c)') /\ Cardinality(Claimants(c)') <= Number(count[c])'
             /\ (Cardinality(Claimants(c)) = Number(count[c]) =>
                    Cardinality(Claimants(c)') = Number(count[c])')
  <2>1. IsFiniteSet(Claimants(c)) /\ Cardinality(Claimants(c)) <= Number(count[c])
        /\ Number(count[c]) \in Nat /\ Cardinality(Claimants(c)) \in Nat
    BY NumberFacts, FS_CardinalityType DEF Backed
  <2>2. CASE Counter(l) = c
    <3>1. Number(count[c])' = n + 1
      BY <1>1, <2>2, NumberFacts DEF Number
    <3>2. Claimants(c)' = Claimants(c) \cup {<<r, l>>} /\ <<r, l>> \notin Claimants(c)
      BY <2>2, JoinFacts
    <3>3. /\ IsFiniteSet(Claimants(c) \cup {<<r, l>>})
          /\ Cardinality(Claimants(c) \cup {<<r, l>>}) = Cardinality(Claimants(c)) + 1
      BY <2>1, <3>2, FS_AddElement
    <3> QED BY <1>1, <2>1, <2>2, <3>1, <3>2, <3>3
  <2>3. CASE Counter(l) # c
    <3>1. Number(count[c])' = Number(count[c])
      BY <1>1, <2>3 DEF Number
    <3> QED BY <2>1, <2>3, <3>1, JoinFacts
  <2> QED BY <2>2, <2>3
<1>4. Unused'
  BY <1>1 DEF Unused, Counter
<1> QED BY <1>2, <1>3, <1>4 DEF Counting, Backed, Exactly

\* The one place where a counter goes down: somebody with a claim is on it.
LEMMA LeaveKeeps ==
    ASSUME TypeOK, Backed, Unused, NEW r \in Requests, NEW l \in Limiters, Leaves(r, l),
           \/ IncrInit(Counter(l), -1)
           \/ Incr(Counter(l), -1)
    PROVE  Counting' /\ \A c \in Counters : Exactly(c) => Exactly(c)'
<1> PICK n : n = Number(count[Counter(l)])
  OBVIOUS
<1>1. n \in Nat /\ Counter(l) \in Counters /\ count \in [Counters -> Nat \cup {NotFound}]
  BY CounterFacts, NumberFacts DEF TypeOK
<1>2. n > 0
  <2>1. IsFiniteSet(Claimants(Counter(l))) /\ <<r, l>> \in Claimants(Counter(l))
        /\ Cardinality(Claimants(Counter(l))) <= n
    BY <1>1, LeaveFacts DEF Backed
  <2>2. Cardinality(Claimants(Counter(l))) # 0 /\ Cardinality(Claimants(Counter(l))) \in Nat
    BY <2>1, FS_EmptySet, FS_CardinalityType
  <2> QED BY <1>1, <2>1, <2>2
<1>3. count[Counter(l)] = n /\ n # NotFound
  BY <1>1, <1>2, NumberFacts
<1>4. count' = [count EXCEPT ![Counter(l)] = n - 1]
  BY <1>1, <1>3 DEF IncrInit, Incr, Number
<1>5. count' \in [Counters -> Nat \cup {NotFound}]
  BY <1>1, <1>2, <1>4
<1>6. ASSUME NEW c \in Counters
      PROVE  IsFiniteSet(Claimants(c)') /\ Cardinality(Claimants(c)') <= Number(count[c])'
             /\ (Cardinality(Claimants(c)) = Number(count[c]) =>
                    Cardinality(Claimants(c)') = Number(count[c])')
  <2>1. IsFiniteSet(Claimants(c)) /\ Cardinality(Claimants(c)) <= Number(count[c])
        /\ Number(count[c]) \in Nat /\ Cardinality(Claimants(c)) \in Nat
    BY NumberFacts, FS_CardinalityType DEF Backed
  <2>2. CASE Counter(l) = c
    <3>1. Number(count[c])' = n - 1
      BY <1>1, <1>2, <1>4, <2>2, NumberFacts DEF Number
    <3>2. Claimants(c)' = Claimants(c) \ {<<r, l>>} /\ <<r, l>> \in Claimants(c)
      BY <2>2, LeaveFacts
    <3>3. /\ IsFiniteSet(Claimants(c) \ {<<r, l>>})
          /\ Cardinality(Claimants(c) \ {<<r, l>>}) = Cardinality(Claimants(c)) - 1
      BY <2>1, <3>2, FS_RemoveElement
    <3> QED BY <1>1, <2>1, <2>2, <3>1, <3>2, <3>3
  <2>3. CASE Counter(l) # c
    <3>1. Number(count[c])' = Number(count[c])
      BY <1>1, <1>4, <2>3 DEF Number
    <3> QED BY <2>1, <2>3, <3>1, LeaveFacts
  <2> QED BY <2>2, <2>3
<1>7. Unused'
  BY <1>1, <1>4 DEF Unused, Counter
<1> QED BY <1>5, <1>6, <1>7 DEF Counting, Backed, Exactly

LEMMA DropKeeps ==
    ASSUME TypeOK, Backed, Unused, NEW r \in Requests, Drops(r), count' = count
    PROVE  Counting'
<1>1. count' \in [Counters -> Nat \cup {NotFound}] /\ Unused'
  BY DEF TypeOK, Unused, Counter
<1>2. ASSUME NEW c \in Counters
      PROVE  IsFiniteSet(Claimants(c)') /\ Cardinality(Claimants(c)') <= Number(count[c])'
  <2>1. IsFiniteSet(Claimants(c)) /\ Cardinality(Claimants(c)) <= Number(count[c])
        /\ Number(count[c]) \in Nat /\ Cardinality(Claimants(c)) \in Nat
    BY NumberFacts, FS_CardinalityType DEF Backed
  <2>2. /\ IsFiniteSet(Claimants(c)')
        /\ Cardinality(Claimants(c)') <= Cardinality(Claimants(c))
        /\ Cardinality(Claimants(c)') \in Nat
    BY <2>1, DropFacts, FS_Subset, FS_CardinalityType
  <2>3. Number(count[c])' = Number(count[c])
    BY DEF Number
  <2> QED BY <2>1, <2>2, <2>3
<1> QED BY <1>1, <1>2 DEF Counting, Backed

----------------------------------------------------------------------------
(* The steps of a request.                                                 *)

Control ==
    /\ pc \in [Requests -> {"none", "combine", "rejected", "undo", "admitted"}]
    /\ at \in [Requests -> Calls]
    /\ done \in [Requests -> 0..N]
    /\ delayed \in [Requests -> BOOLEAN]
    /\ crashes \in 0..MaxCrashes
    /\ Places

\* Nobody gets through a limiter, or loses a delay.
NoneAdmitted ==
    \A q \in Requests, l \in Limiters : On(q, l)' => On(q, l) /\ (delayed[q] => delayed'[q])

LEMMA OnFacts ==
    ASSUME TypeOK, NEW q \in Requests, NEW l \in Limiters
    PROVE  On(q, l) <=> \/ pc[q] \in {"combine", "rejected"} /\ Before(at[q], l)
                        \/ pc[q] = "admitted" /\ done[q] < l
BY BeforeFacts DEF TypeOK, On

LEMMA OnFactsNext ==
    ASSUME Control', NEW q \in Requests, NEW l \in Limiters
    PROVE  On(q, l)' <=> \/ pc'[q] \in {"combine", "rejected"} /\ Before(at'[q], l)
                         \/ pc'[q] = "admitted" /\ done'[q] < l
<1>1. at'[q] \in Calls
  BY DEF Control
<1>2. On(q, l)' <=> \/ /\ pc'[q] \in {"combine", "rejected"}
                       /\ \E c \in Calls : N <= c /\ c < at'[q] /\ Asked(c) = l
                    \/ pc'[q] = "admitted" /\ done'[q] < l
  BY DEF On, Asked
<1> QED BY <1>1, <1>2, BeforeFacts

LEMMA GoneFacts ==
    ASSUME TypeOK, Places, NEW r \in Requests, Gone(r), crashes' \in 0..MaxCrashes
    PROVE  /\ Control' /\ Others(r) /\ NoneAdmitted
           /\ \A m \in Limiters : ~Claims(r, m)'
<1>1. Others(r) /\ pc'[r] = "none" /\ at'[r] = 1 /\ done'[r] = 0
  BY DEF Gone, Others, TypeOK
<1>2. \A q \in Requests : Placed(q)'
  <2>1. Placed(r)'
    BY <1>1 DEF Placed
  <2>2. ASSUME NEW q \in Requests, q # r
        PROVE  Placed(q)'
    BY <1>1, <2>2 DEF Others, Placed, Places
  <2> QED BY <2>1, <2>2
<1>3. 1 \in Calls /\ 0 \in 0..N
  BY LimitTrafficAssumption DEF Calls
<1>4. Control'
  BY <1>2, <1>3 DEF Gone, TypeOK, Control, Places
<1>5. \A m \in Limiters : ~Claims(r, m)'
  BY <1>1 DEF Claims
<1>6. NoneAdmitted
  <2> SUFFICES ASSUME NEW q \in Requests, NEW l \in Limiters, On(q, l)'
               PROVE  On(q, l) /\ (delayed[q] => delayed'[q])
    BY DEF NoneAdmitted
  <2>1. q # r
    BY <1>1, <1>4, OnFactsNext
  <2>2. pc'[q] = pc[q] /\ at'[q] = at[q] /\ done'[q] = done[q] /\ delayed'[q] = delayed[q]
    BY <1>1, <2>1 DEF Others, Gone, TypeOK
  <2> QED BY <1>4, <2>2, OnFacts, OnFactsNext
<1> QED BY <1>1, <1>4, <1>5, <1>6

\* A step that changes only the place of r: what is left to check.
LEMMA PlaceFacts ==
    ASSUME TypeOK, Places, NEW r \in Requests,
           NEW p \in {"none", "combine", "rejected", "undo", "admitted"}, NEW a \in Calls,
           NEW d \in 0..N,
           pc' = [pc EXCEPT ![r] = p], at' = [at EXCEPT ![r] = a],
           done' = [done EXCEPT ![r] = d], delayed' \in [Requests -> BOOLEAN],
           crashes' = crashes, Placed(r)'
    PROVE  /\ Control' /\ Others(r) /\ pc'[r] = p /\ at'[r] = a /\ done'[r] = d
<1>1. Others(r) /\ pc'[r] = p /\ at'[r] = a /\ done'[r] = d
  BY DEF Others, TypeOK
<1>2. ASSUME NEW q \in Requests, q # r
      PROVE  Placed(q)'
  BY <1>1, <1>2 DEF Others, Placed, Places
<1>3. Places'
  BY <1>2 DEF Places
<1> QED BY <1>1, <1>3 DEF Control, TypeOK

\* Then nobody else gets through a limiter.
LEMMA OthersOn ==
    ASSUME TypeOK, Control', NEW r \in Requests, Others(r),
           NEW q \in Requests, q # r, NEW l \in Limiters
    PROVE  On(q, l)' <=> On(q, l)
BY OnFacts, OnFactsNext DEF Others

LEMMA QuietStep ==
    ASSUME TypeOK, Places, NEW r \in Requests,
           \/ Arrive(r)
           \/ DryRun(r)
           \/ Crash(r)
    PROVE  /\ Control' /\ Drops(r) /\ NoneAdmitted /\ count' = count
           /\ \/ crashes' > 0
              \/ crashes' = crashes /\ \A m \in Limiters : ~Claims(r, m)
<1>1. CASE Arrive(r)
  <2>1. pc[r] = "none" /\ Placed(r) /\ at[r] \in Calls
    BY <1>1 DEF Arrive, Places, TypeOK
  <2>2. /\ pc' = [pc EXCEPT ![r] = "combine"] /\ at' = [at EXCEPT ![r] = at[r]]
        /\ done' = [done EXCEPT ![r] = done[r]] /\ delayed' = delayed /\ crashes' = crashes
        /\ delayed \in [Requests -> BOOLEAN] /\ done[r] \in 0..N /\ count' = count
    BY <1>1 DEF Arrive, TypeOK
  <2>3. pc'[r] = "combine" /\ at'[r] = 1 /\ done'[r] = 0
    BY <1>1, <2>1 DEF Arrive, Placed, TypeOK
  <2>4. Placed(r)'
    BY <2>3 DEF Placed
  <2>5. Control' /\ Others(r)
    BY <2>1, <2>2, <2>4, PlaceFacts
  <2>6. \A m \in Limiters : ~Before(1, m)
    BY LimitTrafficAssumption DEF Before, Limiters
  <2>7. \A m \in Limiters : ~Claims(r, m)' /\ ~On(r, m)'
    BY <2>3, <2>5, <2>6, OnFactsNext DEF Claims, Before
  <2>8. Drops(r)
    BY <2>5, <2>7 DEF Drops
  <2>9. \A m \in Limiters : ~Claims(r, m)
    BY <2>1 DEF Claims
  <2> QED BY <2>2, <2>5, <2>7, <2>8, <2>9, OthersOn DEF NoneAdmitted
<1>2. CASE DryRun(r) /\ pc[r] = "combine" /\ at[r] < N /\ at' = [at EXCEPT ![r] = at[r] + 1]
           /\ UNCHANGED <<pc, done, delayed, crashes, count>>
  <2>1. Placed(r) /\ at[r] \in Calls /\ at[r] + 1 \in Calls /\ at[r] \in Nat /\ N \in Nat
    BY <1>2, CallFacts DEF Places, TypeOK
  <2>2. /\ pc' = [pc EXCEPT ![r] = "combine"] /\ at' = [at EXCEPT ![r] = at[r] + 1]
        /\ done' = [done EXCEPT ![r] = done[r]] /\ delayed' = delayed /\ crashes' = crashes
        /\ delayed \in [Requests -> BOOLEAN] /\ done[r] \in 0..N /\ count' = count
    BY <1>2 DEF TypeOK
  <2>3. pc'[r] = "combine" /\ at'[r] = at[r] + 1 /\ done'[r] = 0
    BY <1>2, <2>1 DEF Placed, TypeOK
  <2>4. Placed(r)'
    BY <2>3 DEF Placed
  <2>5. Control' /\ Others(r)
    BY <2>1, <2>2, <2>4, PlaceFacts
  <2>6. \A m \in Limiters : ~Before(at[r] + 1, m)
    BY <1>2, <2>1 DEF Before
  <2>7. \A m \in Limiters : ~Claims(r, m)' /\ ~On(r, m)'
    BY <2>3, <2>5, <2>6, OnFactsNext DEF Claims, Before
  <2>8. Drops(r)
    BY <2>5, <2>7 DEF Drops
  <2>9. \A m \in Limiters : ~Claims(r, m)
    BY <1>2, <2>1 DEF Claims, Before
  <2> QED BY <2>2, <2>5, <2>7, <2>8, <2>9, OthersOn DEF NoneAdmitted
<1>3. CASE /\ Gone(r) /\ crashes' \in 0..MaxCrashes /\ count' = count
           /\ \/ crashes' > 0
              \/ crashes' = crashes /\ \A m \in Limiters : ~Claims(r, m)
  BY <1>3, GoneFacts DEF Drops
<1>4. CASE DryRun(r)
  <2>1. pc[r] = "combine" /\ at[r] < N /\ at[r] \in Nat /\ N \in Nat
    BY <1>4, CallFacts DEF DryRun, TypeOK
  <2>2. \A m \in Limiters : ~Claims(r, m)
    BY <2>1 DEF Claims, Before
  <2> QED BY <1>2, <1>3, <1>4, <2>2 DEF DryRun, TypeOK
<1>5. CASE Crash(r)
  BY <1>3, <1>5, LimitTrafficAssumption DEF Crash, TypeOK
<1> QED BY <1>1, <1>4, <1>5

\* The limiter a commit is about, and what it is told.
Answer(r) == Number(count[Counter(Asked(at[r]))]) + 1

\* A commit puts the request on one more counter.
LEMMA CommitStep ==
    ASSUME TypeOK, Places, NEW r \in Requests, Commit(r)
    PROVE  /\ crashes' = crashes /\ Control' /\ Joins(r, Asked(at[r])) /\ IncrInit(Counter(Asked(at[r])), 1)
           /\ \A q \in Requests, l \in Limiters :
                 On(q, l)' /\ ~On(q, l) =>
                    /\ q = r /\ l = Asked(at[r]) /\ Answer(r) <= Max[l] + Burst[l]
                    /\ ~delayed'[r] => Answer(r) <= Max[l]
           /\ \A q \in Requests : delayed[q] => delayed'[q]
<1> PICK i \in Limiters : i = Asked(at[r])
  BY CallFacts DEF TypeOK
<1>0. Answer(r) \in Nat
  <2>1. Counter(Asked(at[r])) \in Counters
    BY CounterFacts
  <2>2. Number(count[Counter(Asked(at[r]))]) \in Nat
    BY <2>1, NumberFacts
  <2> QED BY <2>2 DEF Answer
<1> PICK conn \in Nat : conn = Answer(r)
  BY <1>0
<1>1. /\ pc[r] = "combine" /\ N <= at[r] /\ at[r] \in Calls /\ at[r] \in Nat /\ N \in Nat \ {0}
      /\ done[r] = 0 /\ crashes' = crashes /\ done' = [done EXCEPT ![r] = 0]
      /\ IncrInit(Counter(i), 1) /\ Max[i] \in Nat /\ Burst[i] \in Nat
  BY LimitTrafficAssumption, CallFacts DEF Commit, Places, Placed, TypeOK
<1>2. (at[r] = N /\ i = N) \/ (at[r] > N /\ i = at[r] - N /\ i < N)
  BY <1>1, CallFacts
<1>3. /\ \A m \in Limiters : Claims(r, m) <=> Before(at[r], m)
      /\ \A m \in Limiters : On(r, m) <=> Before(at[r], m)
      /\ ~Before(at[r], i)
  BY <1>1, <1>2, OnFacts DEF Claims, Before, Limiters
<1>4. CASE /\ Over(i, conn) /\ pc' = [pc EXCEPT ![r] = "rejected"]
           /\ at' = at /\ delayed' = delayed
  <2>1. pc'[r] = "rejected" /\ at'[r] = at[r] /\ done'[r] = 0
    BY <1>1, <1>4 DEF TypeOK
  <2>2. /\ pc' = [pc EXCEPT ![r] = "rejected"] /\ at' = [at EXCEPT ![r] = at[r]]
        /\ delayed' \in [Requests -> BOOLEAN] /\ 0 \in 0..N /\ Placed(r)'
    BY <1>1, <1>4, <2>1 DEF TypeOK, Placed
  <2>3. Control' /\ Others(r)
    BY <1>1, <2>2, PlaceFacts
  <2>4. \A m \in Limiters : Claims(r, m)' <=> Before(at[r], m) \/ m = i
    BY <2>1 DEF Claims, Before, Asked
  <2>5. \A m \in Limiters : On(r, m)' <=> On(r, m)
    BY <1>3, <2>1, <2>3, OnFactsNext
  <2>6. Joins(r, i)
    BY <1>3, <2>3, <2>4 DEF Joins
  <2> QED BY <1>1, <1>4, <2>3, <2>5, <2>6, OthersOn
<1>5. CASE /\ ~Over(i, conn) /\ delayed' = [delayed EXCEPT ![r] = Slower(@, conn, i)]
           /\ IF at[r] + 1 \in Calls
              THEN at' = [at EXCEPT ![r] = @ + 1] /\ pc' = pc
              ELSE at' = [at EXCEPT ![r] = 1] /\ pc' = [pc EXCEPT ![r] = "admitted"]
  <2>1. /\ conn <= Max[i] + Burst[i]
        /\ ~delayed'[r] => conn <= Max[i]
        /\ \A q \in Requests : delayed[q] => delayed'[q]
        /\ delayed' \in [Requests -> BOOLEAN]
    <3>1. conn <= Max[i] + Burst[i]
      BY <1>1, <1>5 DEF Over
    <3>2. delayed' = [delayed EXCEPT ![r] = delayed[r] \/ conn > Max[i]]
      BY <1>5 DEF Slower
    <3>3. delayed \in [Requests -> BOOLEAN]
      BY DEF TypeOK
    <3>4. delayed' \in [Requests -> BOOLEAN] /\ (delayed'[r] <=> delayed[r] \/ conn > Max[i])
      BY <3>2, <3>3
    <3>5. \A q \in Requests : delayed[q] => delayed'[q]
      BY <3>2, <3>3
    <3> QED BY <1>1, <3>1, <3>4, <3>5
  <2>2. CASE at[r] + 1 \in Calls
    <3>1. pc'[r] = "combine" /\ at'[r] = at[r] + 1 /\ done'[r] = 0
      BY <1>1, <1>5, <2>2 DEF TypeOK
    <3>2. /\ pc' = [pc EXCEPT ![r] = "combine"] /\ at' = [at EXCEPT ![r] = at[r] + 1]
          /\ 0 \in 0..N /\ Placed(r)'
      BY <1>1, <1>5, <2>2, <3>1 DEF TypeOK, Placed
    <3>3. Control' /\ Others(r)
      BY <1>1, <2>1, <2>2, <3>2, PlaceFacts
    <3>4. \A m \in Limiters : Before(at[r] + 1, m) <=> Before(at[r], m) \/ m = i
      BY <1>1, <1>2 DEF Before, Limiters
    <3>5. \A m \in Limiters : Claims(r, m)' <=> Before(at[r], m) \/ m = i
      BY <3>1, <3>4 DEF Claims, Before
    <3>6. \A m \in Limiters : On(r, m)' <=> On(r, m) \/ m = i
      BY <1>3, <3>1, <3>3, <3>4, OnFactsNext
    <3>7. Joins(r, i)
      BY <1>3, <3>3, <3>5 DEF Joins
    <3> QED BY <1>1, <2>1, <3>3, <3>6, <3>7, OthersOn
  <2>3. CASE at[r] + 1 \notin Calls
    <3>1. pc'[r] = "admitted" /\ at'[r] = 1 /\ done'[r] = 0
      BY <1>1, <1>5, <2>3 DEF TypeOK
    <3>2. /\ pc' = [pc EXCEPT ![r] = "admitted"] /\ at' = [at EXCEPT ![r] = 1]
          /\ 0 \in 0..N /\ 1 \in Calls /\ Placed(r)'
      BY <1>1, <1>5, <2>3, <3>1, CallFacts DEF TypeOK, Placed
    <3>3. Control' /\ Others(r)
      BY <1>1, <2>1, <3>2, PlaceFacts
    <3>4. at[r] = 2 * N - 1
      BY <1>1, <2>3, CallFacts
    <3>5. \A m \in Limiters : 0 < m /\ (Before(at[r], m) \/ m = i)
      BY <1>1, <1>2, <3>4 DEF Before, Limiters
    <3>6. \A m \in Limiters : Claims(r, m)' <=> Before(at[r], m) \/ m = i
      BY <3>1, <3>5 DEF Claims
    <3>7. \A m \in Limiters : On(r, m)' <=> On(r, m) \/ m = i
      BY <1>3, <3>1, <3>3, <3>5, OnFactsNext
    <3>8. Joins(r, i)
      BY <1>3, <3>3, <3>6 DEF Joins
    <3> QED BY <1>1, <2>1, <3>3, <3>7, <3>8, OthersOn
  <2> QED BY <2>2, <2>3
<1> QED BY <1>1, <1>4, <1>5 DEF Commit, Answer

\* A rejection takes the request off the counter its commit was about.
LEMMA RejectStep ==
    ASSUME TypeOK, Places, NEW r \in Requests, Reject(r)
    PROVE  /\ crashes' = crashes /\ Control' /\ NoneAdmitted
           /\ Leaves(r, Asked(at[r])) /\ IncrInit(Counter(Asked(at[r])), -1)
<1> PICK i \in Limiters : i = Asked(at[r])
  BY CallFacts DEF TypeOK
<1>1. /\ pc[r] = "rejected" /\ N <= at[r] /\ at[r] \in Calls /\ at[r] \in Nat /\ N \in Nat \ {0}
      /\ done[r] = 0 /\ crashes' = crashes /\ IncrInit(Counter(i), -1)
  BY LimitTrafficAssumption, CallFacts DEF Reject, Withdraw, Places, Placed, TypeOK
<1>2. (at[r] = N /\ i = N) \/ (at[r] > N /\ i = at[r] - N /\ i < N)
  BY <1>1, CallFacts
<1>3. \A m \in Limiters : Claims(r, m) <=> Before(at[r], m) \/ m = i
  BY <1>1 DEF Claims
<1>4. CASE at[r] > N /\ pc' = [pc EXCEPT ![r] = "undo"] /\ UNCHANGED <<at, done, delayed>>
  <2>1. pc'[r] = "undo" /\ at'[r] = at[r] /\ done'[r] = 0
    BY <1>1, <1>4 DEF TypeOK
  <2>2. /\ pc' = [pc EXCEPT ![r] = "undo"] /\ at' = [at EXCEPT ![r] = at[r]]
        /\ done' = [done EXCEPT ![r] = 0] /\ delayed' \in [Requests -> BOOLEAN]
        /\ 0 \in 0..N /\ Placed(r)'
    BY <1>1, <1>4, <2>1 DEF TypeOK, Placed
  <2>3. Control' /\ Others(r)
    BY <1>1, <2>2, PlaceFacts
  <2>4. \A m \in Limiters : (Before(at[r], m) \/ m = i) /\ m # i <=> m = N \/ (0 < m /\ m < i)
    BY <1>1, <1>2, <1>4 DEF Before, Limiters
  <2>5. \A m \in Limiters : Claims(r, m)' <=> m = N \/ (0 < m /\ m < i)
    BY <2>1 DEF Claims, Asked
  <2>6. Leaves(r, i)
    BY <1>3, <2>3, <2>4, <2>5 DEF Leaves
  <2>7. \A m \in Limiters : ~On(r, m)'
    BY <2>1, <2>3, OnFactsNext
  <2> QED BY <1>1, <1>4, <2>3, <2>6, <2>7, OthersOn DEF NoneAdmitted
<1>5. CASE ~(at[r] > N) /\ Gone(r)
  <2>1. crashes' \in 0..MaxCrashes
    BY <1>1 DEF TypeOK
  <2>2. Control' /\ NoneAdmitted /\ Others(r) /\ \A m \in Limiters : ~Claims(r, m)'
    BY <1>5, <2>1, GoneFacts
  <2>3. \A m \in Limiters : ~Before(at[r], m)
    BY <1>1, <1>5 DEF Before
  <2> QED BY <1>1, <1>3, <2>2, <2>3 DEF Leaves
<1> QED BY <1>4, <1>5 DEF Reject

\* A request that is over takes itself off one counter after the other.
LEMMA LeaveStep ==
    ASSUME TypeOK, Places, NEW r \in Requests, Leave(r)
    PROVE  /\ crashes' = crashes /\ Control' /\ NoneAdmitted
           /\ \E l \in Limiters : Leaves(r, l) /\ Incr(Counter(l), -1)
<1>1. /\ pc[r] = "admitted" /\ done[r] < N /\ done[r] \in 0..N /\ at[r] \in Calls
      /\ N \in Nat \ {0} /\ crashes' = crashes
  BY LimitTrafficAssumption DEF Leave, Places, Placed, TypeOK
<1> PICK j \in Limiters : j = done[r] + 1
  BY <1>1 DEF Limiters
<1>2. Incr(Counter(j), -1)
  BY DEF Leave
<1>3. \A m \in Limiters : Claims(r, m) <=> done[r] < m
  BY <1>1 DEF Claims
<1>4. CASE j < N /\ done' = [done EXCEPT ![r] = j] /\ UNCHANGED <<pc, at, delayed>>
  <2>1. pc'[r] = "admitted" /\ at'[r] = at[r] /\ done'[r] = j
    BY <1>1, <1>4 DEF TypeOK
  <2>2. /\ pc' = [pc EXCEPT ![r] = "admitted"] /\ at' = [at EXCEPT ![r] = at[r]]
        /\ done' = [done EXCEPT ![r] = j] /\ delayed' \in [Requests -> BOOLEAN]
        /\ j \in 0..N /\ Placed(r)'
    BY <1>1, <1>4, <2>1 DEF TypeOK, Placed, Limiters
  <2>3. Control' /\ Others(r)
    BY <1>1, <2>2, PlaceFacts
  <2>4. \A m \in Limiters : done[r] < m /\ m # j <=> j < m
    BY <1>1 DEF Limiters
  <2>5. \A m \in Limiters : Claims(r, m)' <=> j < m
    BY <2>1 DEF Claims
  <2>6. Leaves(r, j)
    BY <1>1, <1>3, <2>3, <2>4, <2>5 DEF Leaves
  <2>7. \A m \in Limiters : (On(r, m)' <=> j < m) /\ (On(r, m) <=> done[r] < m)
    BY <1>1, <2>1, <2>3, OnFacts, OnFactsNext
  <2> QED BY <1>1, <1>2, <1>4, <2>3, <2>4, <2>6, <2>7, OthersOn DEF NoneAdmitted
<1>5. CASE ~(j < N) /\ Gone(r)
  <2>1. crashes' \in 0..MaxCrashes
    BY <1>1 DEF TypeOK
  <2>2. Control' /\ NoneAdmitted /\ Others(r) /\ \A m \in Limiters : ~Claims(r, m)'
    BY <1>5, <2>1, GoneFacts
  <2>3. \A m \in Limiters : done[r] < m <=> m = j
    BY <1>1, <1>5 DEF Limiters
  <2> QED BY <1>1, <1>2, <1>3, <2>2, <2>3 DEF Leaves
<1> QED BY <1>4, <1>5 DEF Leave

\* So does one that combine rejected in its second pass, as far as the limiter that
\* rejected it; what it left on the last limiter is forgotten in the end.
LEMMA UndoStep ==
    ASSUME TypeOK, Places, NEW r \in Requests, Undo(r)
    PROVE  /\ crashes' = crashes /\ Control' /\ NoneAdmitted
           /\ \/ \E i \in 1..(N - 1) : \E j \in 1..(i - 1) :
                    Leaves(r, j) /\ Incr(<<DictOf[i], KeyOf[j]>>, -1)
              \/ /\ Drops(r) /\ count' = count
                 /\ \A m \in Limiters : Claims(r, m) => m = N
<1>1. /\ pc[r] = "undo" /\ N < at[r] /\ done[r] < at[r] - N /\ done[r] \in 0..N
      /\ at[r] \in Calls /\ at[r] \in Nat /\ N \in Nat \ {0} /\ crashes' = crashes
  BY LimitTrafficAssumption, CallFacts DEF Undo, Places, Placed, TypeOK
<1> PICK i \in 1..(N - 1) : i = Asked(at[r])
  <2>1. Asked(at[r]) = at[r] - N /\ Asked(at[r]) < N
    BY <1>1, CallFacts
  <2> QED BY <1>1, <2>1
<1>2. i = at[r] - N
  BY <1>1, CallFacts
<1> PICK j \in Limiters : j = done[r] + 1
  BY <1>1, <1>2 DEF Limiters
<1>3. \A m \in Limiters : Claims(r, m) <=> m = N \/ (done[r] < m /\ m < i)
  BY <1>1 DEF Claims
<1>4. CASE /\ j \in 1..(i - 1) /\ Incr(<<DictOf[i], KeyOf[j]>>, -1)
           /\ done' = [done EXCEPT ![r] = j] /\ UNCHANGED <<pc, at, delayed>>
  <2>1. pc'[r] = "undo" /\ at'[r] = at[r] /\ done'[r] = j
    BY <1>1, <1>4 DEF TypeOK
  <2>2. /\ pc' = [pc EXCEPT ![r] = "undo"] /\ at' = [at EXCEPT ![r] = at[r]]
        /\ done' = [done EXCEPT ![r] = j] /\ delayed' \in [Requests -> BOOLEAN]
        /\ j \in 0..N /\ Placed(r)'
    BY <1>1, <1>2, <1>4, <2>1 DEF TypeOK, Placed, Limiters
  <2>3. Control' /\ Others(r)
    BY <1>1, <2>2, PlaceFacts
  <2>4. \A m \in Limiters : (m = N \/ (done[r] < m /\ m < i)) /\ m # j <=>
                            m = N \/ (j < m /\ m < i)
    BY <1>1, <1>4 DEF Limiters
  <2>5. \A m \in Limiters : Claims(r, m)' <=> m = N \/ (j < m /\ m < i)
    BY <2>1 DEF Claims, Asked
  <2>6. Leaves(r, j)
    BY <1>1, <1>3, <1>4, <2>3, <2>4, <2>5 DEF Leaves
  <2>7. \A m \in Limiters : ~On(r, m)'
    BY <2>1, <2>3, OnFactsNext
  <2> QED BY <1>1, <1>4, <2>3, <2>6, <2>7, OthersOn DEF NoneAdmitted
<1>5. CASE j \notin 1..(i - 1) /\ Gone(r) /\ count' = count
  <2>1. crashes' \in 0..MaxCrashes
    BY <1>1 DEF TypeOK
  <2>2. Control' /\ NoneAdmitted /\ Others(r) /\ \A m \in Limiters : ~Claims(r, m)'
    BY <1>5, <2>1, GoneFacts
  <2>3. \A m \in Limiters : ~(done[r] < m /\ m < i)
    BY <1>1, <1>5 DEF Limiters
  <2> QED BY <1>1, <1>3, <1>5, <2>2, <2>3 DEF Drops
<1> QED BY <1>4, <1>5 DEF Undo, Undone

----------------------------------------------------------------------------
(* Every step keeps the invariant.                                         *)

\* What incoming was told bounds those the limiter has let through.
LEMMA UsersFacts ==
    ASSUME TypeOK, Backed, NEW l \in Limiters
    PROVE  /\ IsFiniteSet({q \in Requests : On(q, l)})
           /\ Cardinality({q \in Requests : On(q, l)}) <= Number(count[Counter(l)])
           /\ Cardinality({q \in Requests : On(q, l)}) \in Nat
<1> DEFINE U == {q \in Requests : On(q, l)}
           C == Claimants(Counter(l))
           f == [q \in U |-> <<q, l>>]
<1>1. IsFiniteSet(C) /\ Cardinality(C) <= Number(count[Counter(l)])
      /\ Number(count[Counter(l)]) \in Nat
  BY CounterFacts, NumberFacts DEF Backed
<1>2. \A q \in U : <<q, l>> \in C
  BY OnClaims DEF Claimants
<1>3. f \in Injection(U, C)
  BY <1>2 DEF Injection, IsInjective
<1> HIDE DEF U, C, f
<1>4. IsFiniteSet(U) /\ Cardinality(U) <= Cardinality(C)
  BY <1>1, <1>3, FS_Injection
<1>5. Cardinality(U) \in Nat /\ Cardinality(C) \in Nat
  BY <1>1, <1>4, FS_CardinalityType
<1>6. Cardinality(U) <= Number(count[Counter(l)])
  BY <1>1, <1>4, <1>5
<1> QED BY <1>4, <1>5, <1>6 DEF U

LEMMA SubsetFacts ==
    ASSUME NEW S, NEW T, IsFiniteSet(S), T \subseteq S, NEW n \in Int, Cardinality(S) <= n
    PROVE  Cardinality(T) <= n
<1>1. Cardinality(T) <= Cardinality(S) /\ IsFiniteSet(T)
  BY FS_Subset
<1>2. Cardinality(T) \in Nat /\ Cardinality(S) \in Nat
  BY <1>1, FS_CardinalityType
<1> QED BY <1>1, <1>2

LEMMA OneMore ==
    ASSUME NEW S, NEW T, NEW x, IsFiniteSet(S), T \subseteq S \cup {x},
           NEW n \in Nat, Cardinality(S) <= n
    PROVE  Cardinality(T) <= n + 1
<1>1. /\ IsFiniteSet(S \cup {x})
      /\ Cardinality(S \cup {x}) = IF x \in S THEN Cardinality(S) ELSE Cardinality(S) + 1
  BY FS_AddElement
<1>2. Cardinality(S) \in Nat
  BY FS_CardinalityType
<1>3. Cardinality(S \cup {x}) <= n + 1
  BY <1>1, <1>2
<1> QED BY <1>1, <1>3, SubsetFacts

Limits == WithinLimit /\ UndelayedWithinMax

LEMMA LimitsKept ==
    ASSUME TypeOK, Backed, Limits, NoneAdmitted
    PROVE  Limits'
<1>1. ASSUME NEW l \in Limiters
      PROVE  /\ Cardinality({q \in Requests : On(q, l)'}) <= Max[l] + Burst[l]
             /\ Cardinality({q \in Requests : On(q, l)' /\ ~delayed'[q]}) <= Max[l]
  <2> DEFINE U == {q \in Requests : On(q, l)}
             V == {q \in Requests : On(q, l) /\ ~delayed[q]}
             W == {q \in Requests : On(q, l)'}
             X == {q \in Requests : On(q, l)' /\ ~delayed'[q]}
  <2>1. Cardinality(U) <= Max[l] + Burst[l] /\ Cardinality(V) <= Max[l]
    BY DEF Limits, WithinLimit, UndelayedWithinMax
  <2>2. W \subseteq U /\ X \subseteq V /\ V \subseteq U
    BY DEF NoneAdmitted
  <2>3. IsFiniteSet(U)
    BY UsersFacts
  <2>4. Max[l] \in Int /\ Max[l] + Burst[l] \in Int
    BY LimitTrafficAssumption
  <2> HIDE DEF U, V, W, X
  <2>5. IsFiniteSet(V)
    BY <2>2, <2>3, FS_Subset
  <2>6. Cardinality(W) <= Max[l] + Burst[l]
    BY <2>1, <2>2, <2>3, <2>4, SubsetFacts
  <2>7. Cardinality(X) <= Max[l]
    BY <2>1, <2>2, <2>4, <2>5, SubsetFacts
  <2> QED BY <2>6, <2>7 DEF W, X
<1> QED BY <1>1 DEF Limits, WithinLimit, UndelayedWithinMax

LEMMA CommitLimits ==
    ASSUME TypeOK, Places, Backed, Limits, NEW r \in Requests, Commit(r)
    PROVE  Limits'
<1>1. /\ \A q \in Requests, l \in Limiters :
            On(q, l)' /\ ~On(q, l) =>
               /\ q = r /\ l = Asked(at[r]) /\ Answer(r) <= Max[l] + Burst[l]
               /\ ~delayed'[r] => Answer(r) <= Max[l]
      /\ \A q \in Requests : delayed[q] => delayed'[q]
  BY CommitStep
<1>2. ASSUME NEW l \in Limiters
      PROVE  /\ Cardinality({q \in Requests : On(q, l)'}) <= Max[l] + Burst[l]
             /\ Cardinality({q \in Requests : On(q, l)' /\ ~delayed'[q]}) <= Max[l]
  <2> DEFINE U == {q \in Requests : On(q, l)}
             V == {q \in Requests : On(q, l) /\ ~delayed[q]}
             W == {q \in Requests : On(q, l)'}
             X == {q \in Requests : On(q, l)' /\ ~delayed'[q]}
  <2>1. Cardinality(U) <= Max[l] + Burst[l] /\ Cardinality(V) <= Max[l]
    BY DEF Limits, WithinLimit, UndelayedWithinMax
  <2>2. IsFiniteSet(U) /\ Cardinality(U) <= Number(count[Counter(l)])
    BY UsersFacts
  <2>3. Max[l] \in Int /\ Max[l] + Burst[l] \in Int
    BY LimitTrafficAssumption
  <2>4. Number(count[Counter(l)]) \in Nat
    BY CounterFacts, NumberFacts
  <2>5. V \subseteq U /\ X \subseteq W /\ W \subseteq U \cup {r}
    BY <1>1
  <2>6. W \subseteq U \/ (/\ l = Asked(at[r]) /\ Answer(r) <= Max[l] + Burst[l]
                          /\ ~delayed'[r] => Answer(r) <= Max[l])
    BY <1>1
  <2>7. X \subseteq V \/ (l = Asked(at[r]) /\ Answer(r) <= Max[l])
    BY <1>1
  <2> HIDE DEF U, V, W, X
  <2>8. IsFiniteSet(V) /\ IsFiniteSet(W)
    BY <2>2, <2>5, FS_Subset, FS_AddElement
  <2>9. Cardinality(W) <= Number(count[Counter(l)]) + 1
    BY <2>2, <2>4, <2>5, OneMore
  <2>10. Cardinality(W) \in Nat /\ (l = Asked(at[r]) => Cardinality(W) <= Answer(r))
    BY <2>8, <2>9, FS_CardinalityType DEF Answer
  <2>11. Cardinality(W) <= Max[l] + Burst[l]
    <3>1. CASE W \subseteq U
      BY <2>1, <2>2, <2>3, <3>1, SubsetFacts
    <3>2. CASE l = Asked(at[r]) /\ Answer(r) <= Max[l] + Burst[l]
      BY <2>3, <2>4, <2>10, <3>2 DEF Answer
    <3> QED BY <2>6, <3>1, <3>2
  <2>12. Cardinality(X) <= Max[l]
    <3>1. CASE X \subseteq V
      BY <2>1, <2>3, <2>8, <3>1, SubsetFacts
    <3>2. CASE l = Asked(at[r]) /\ Answer(r) <= Max[l]
      <4>1. Cardinality(W) <= Max[l]
        BY <2>3, <2>4, <2>10, <3>2 DEF Answer
      <4> QED BY <2>3, <2>5, <2>8, <4>1, SubsetFacts
    <3> QED BY <2>7, <3>1, <3>2
  <2> QED BY <2>11, <2>12 DEF W, X
<1> QED BY <1>2 DEF Limits, WithinLimit, UndelayedWithinMax

LEMMA TypesFrom ==
    ASSUME Control', Counting'
    PROVE  Kept'
BY DEF Control, Counting, Kept, TypeOK

LEMMA StepIInv ==
    ASSUME UndoApart, IInv, [Next]_vars
    PROVE  IInv'
<1>1. Kept /\ Limits /\ TypeOK /\ Places /\ Backed /\ Unused
  BY DEF IInv, Kept, Limits
<1>2. ASSUME NEW r \in Requests, Arrive(r) \/ DryRun(r) \/ Crash(r)
      PROVE  Kept' /\ Limits'
  <2>1. Control' /\ Drops(r) /\ NoneAdmitted /\ count' = count
    BY <1>1, <1>2, QuietStep
  <2> QED BY <1>1, <2>1, DropKeeps, TypesFrom, LimitsKept
<1>3. ASSUME NEW r \in Requests, Commit(r)
      PROVE  Kept' /\ Limits'
  <2>1. /\ Control' /\ Joins(r, Asked(at[r])) /\ IncrInit(Counter(Asked(at[r])), 1)
        /\ Asked(at[r]) \in Limiters
    BY <1>1, <1>3, CommitStep, CallFacts DEF TypeOK
  <2>2. Counting'
    BY <1>1, <2>1, JoinKeeps
  <2> QED BY <1>1, <1>3, <2>1, <2>2, TypesFrom, CommitLimits
<1>4. ASSUME NEW r \in Requests, Reject(r)
      PROVE  Kept' /\ Limits'
  <2>1. /\ Control' /\ NoneAdmitted
        /\ Leaves(r, Asked(at[r])) /\ IncrInit(Counter(Asked(at[r])), -1)
        /\ Asked(at[r]) \in Limiters
    BY <1>1, <1>4, RejectStep, CallFacts DEF TypeOK
  <2>2. Counting'
    BY <1>1, <2>1, LeaveKeeps
  <2> QED BY <1>1, <2>1, <2>2, TypesFrom, LimitsKept
<1>5. ASSUME NEW r \in Requests, Leave(r)
      PROVE  Kept' /\ Limits'
  <2>1. Control' /\ NoneAdmitted
    BY <1>1, <1>5, LeaveStep
  <2>2. PICK l \in Limiters : Leaves(r, l) /\ Incr(Counter(l), -1)
    BY <1>1, <1>5, LeaveStep
  <2>3. Counting'
    BY <1>1, <2>2, LeaveKeeps
  <2> QED BY <1>1, <2>1, <2>3, TypesFrom, LimitsKept
<1>6. ASSUME NEW r \in Requests, Undo(r)
      PROVE  Kept' /\ Limits'
  <2>1. Control' /\ NoneAdmitted
    BY <1>1, <1>6, UndoStep
  <2>2. ASSUME NEW i \in 1..(N - 1), NEW j \in 1..(i - 1), Leaves(r, j),
               Incr(<<DictOf[i], KeyOf[j]>>, -1)
        PROVE  Counting'
    <3>1. i \in Limiters /\ j \in Limiters
      BY LimitTrafficAssumption DEF Limiters
    <3>2. CASE <<DictOf[i], KeyOf[j]>> = Counter(j)
      BY <1>1, <2>2, <3>1, <3>2, LeaveKeeps
    <3>3. CASE <<DictOf[i], KeyOf[j]>> # Counter(j)
      <4>1. \A l \in Limiters : Counter(l) # <<DictOf[i], KeyOf[j]>>
        BY <3>3 DEF UndoApart, Undone
      <4>2. count[<<DictOf[i], KeyOf[j]>>] = NotFound
        BY <1>1, <3>1, <4>1, CounterFacts DEF Unused
      <4>3. count' = count
        BY <1>1, <2>2, <4>2 DEF Incr, TypeOK
      <4>4. Drops(r)
        BY <2>2 DEF Leaves, Drops
      <4> QED BY <1>1, <4>3, <4>4, DropKeeps
    <3> QED BY <3>2, <3>3
  <2>3. Counting'
    BY <1>1, <1>6, <2>2, UndoStep, DropKeeps
  <2> QED BY <1>1, <2>1, <2>3, TypesFrom, LimitsKept
<1>7. ASSUME UNCHANGED vars
      PROVE  Kept' /\ Limits'
  <2>1. TypeOK' /\ Places'
    BY <1>1, <1>7 DEF vars, TypeOK, Places, Placed
  <2>2. \A q \in Requests, l \in Limiters : (Claims(q, l)' <=> Claims(q, l)) /\ (On(q, l)' <=> On(q, l))
    BY <1>7 DEF vars, Claims, On, Before, Asked
  <2>3. \A c \in Counters : Claimants(c)' = Claimants(c) /\ Number(count[c])' = Number(count[c])
    BY <1>7, <2>2 DEF vars, Claimants, Counter, Number
  <2>4. Backed' /\ Unused'
    BY <1>1, <1>7, <2>3 DEF vars, Backed, Unused, Counter
  <2>5. delayed' = delayed
    BY <1>7 DEF vars
  <2>6. NoneAdmitted
    BY <2>2, <2>5 DEF NoneAdmitted
  <2> QED BY <1>1, <2>1, <2>4, <2>6, LimitsKept DEF Kept
<1>8. Kept' /\ Limits'
  <2>1. CASE Next
    <3>1. PICK r \in Requests : Step(r)
      BY <2>1 DEF Next
    <3> QED BY <1>2, <1>3, <1>4, <1>5, <1>6, <3>1 DEF Step
  <2> QED BY <1>7, <2>1
<1> QED BY <1>8 DEF IInv, Limits

LEMMA InitIInv ==
    ASSUME Init
    PROVE  IInv
<1>1. TypeOK /\ Places
  BY LimitTrafficAssumption DEF Init, TypeOK, Places, Placed, Calls
<1>2. \A q \in Requests, l \in Limiters : ~Claims(q, l) /\ ~On(q, l)
  BY DEF Init, Claims, On
<1>3. \A c \in Counters : Claimants(c) = {}
  BY <1>2 DEF Claimants
<1>4. Backed /\ Unused
  <2>1. \A c \in Counters : count[c] = NotFound /\ Number(count[c]) = 0
    BY DEF Init, Number
  <2> QED BY <1>3, <2>1, FS_EmptySet DEF Backed, Unused
<1>5. ASSUME NEW l \in Limiters
      PROVE  /\ Cardinality({q \in Requests : On(q, l)}) <= Max[l] + Burst[l]
             /\ Cardinality({q \in Requests : On(q, l) /\ ~delayed[q]}) <= Max[l]
  <2>1. {q \in Requests : On(q, l)} = {} /\ {q \in Requests : On(q, l) /\ ~delayed[q]} = {}
    BY <1>2
  <2>2. Max[l] \in Nat /\ Burst[l] \in Nat
    BY LimitTrafficAssumption
  <2> QED BY <2>1, <2>2, FS_EmptySet
<1> QED BY <1>1, <1>4, <1>5 DEF IInv, Kept, WithinLimit, UndelayedWithinMax

\* The inductive invariant.
THEOREM Invariant ==
    ASSUME UndoApart
    PROVE  Spec => []IInv
<1>1. Init => IInv
  BY InitIInv
<1>2. IInv /\ [Next]_vars => IInv'
  BY StepIInv
<1> QED BY <1>1, <1>2, PTL DEF Spec

\* No counter is ever decremented for somebody who is not on it, whatever incr
\* with and without initial value, rejections, uncommit and leaving do to it
\* between each other's steps, and whoever dies.
THEOREM TypeCorrect ==
    ASSUME UndoApart
    PROVE  Spec => []TypeOK
<1>1. IInv => TypeOK
  BY DEF IInv, Kept
<1> QED BY <1>1, Invariant, PTL

\* incoming increments before it compares, so that between the calls of other
\* workers no limiter lets more than max + burst requests through at a time.
THEOREM LimitHolds ==
    ASSUME UndoApart
    PROVE  Spec => []WithinLimit
<1>1. IInv => WithinLimit
  BY DEF IInv
<1> QED BY <1>1, Invariant, PTL

\* Of the requests a limiter has let through, no more than max were told by combine
\* to go on without a delay.
THEOREM DelayHolds ==
    ASSUME UndoApart
    PROVE  Spec => []UndelayedWithinMax
<1>1. IInv => UndelayedWithinMax
  BY DEF IInv
<1> QED BY <1>1, Invariant, PTL

----------------------------------------------------------------------------
(* What rejections leave behind.  The invariant is that, as long as nobody *)
(* crashed, the counters are exactly their claims, except for the last     *)
(* limiter's.                                                              *)

LEMMA DropExact ==
    ASSUME NEW r \in Requests, Drops(r), count' = count,
           \A m \in Limiters : Claims(r, m) => m = N,
           NEW c \in Counters, c # Counter(N), Exactly(c)
    PROVE  Exactly(c)'
<1>1. \A q \in Requests, m \in Limiters :
         Counter(m) = c => (Claims(q, m)' <=> Claims(q, m))
  BY OtherClaims DEF Drops
<1>2. Claimants(c)' =
        {q \in Requests \X Limiters : Claims(q[1], q[2])' /\ Counter(q[2]) = c}
  BY DEF Claimants, Counter
<1>3. Claimants(c)' = Claimants(c)
  BY <1>1, <1>2 DEF Claimants
<1> QED BY <1>3 DEF Exactly, Number

LEMMA StepExact ==
    ASSUME UndoHits, Kept, Exact, [Next]_vars
    PROVE  Exact'
<1>1. TypeOK /\ Places /\ Backed /\ Unused /\ crashes \in Nat
  BY LimitTrafficAssumption DEF Kept, TypeOK
<1>2. ASSUME crashes' = crashes, NEW c \in Counters, c # Counter(N), crashes' = 0
      PROVE  Exactly(c)
  BY <1>2 DEF Exact
<1> SUFFICES ASSUME crashes' = 0, NEW c \in Counters, c # Counter(N)
             PROVE  Exactly(c)'
  BY DEF Exact, Counter
<1>3. ASSUME NEW r \in Requests, Arrive(r) \/ DryRun(r) \/ Crash(r)
      PROVE  Exactly(c)'
  <2>1. Drops(r) /\ count' = count /\ crashes' = crashes /\ \A m \in Limiters : ~Claims(r, m)
    BY <1>1, <1>3, QuietStep
  <2> QED BY <1>2, <2>1, DropExact
<1>4. ASSUME NEW r \in Requests, Commit(r)
      PROVE  Exactly(c)'
  <2>1. /\ Joins(r, Asked(at[r])) /\ IncrInit(Counter(Asked(at[r])), 1) /\ crashes' = crashes
        /\ Asked(at[r]) \in Limiters
    BY <1>1, <1>4, CommitStep, CallFacts DEF TypeOK
  <2> QED BY <1>1, <1>2, <2>1, JoinKeeps
<1>5. ASSUME NEW r \in Requests, Reject(r)
      PROVE  Exactly(c)'
  <2>1. /\ Leaves(r, Asked(at[r])) /\ IncrInit(Counter(Asked(at[r])), -1) /\ crashes' = crashes
        /\ Asked(at[r]) \in Limiters
    BY <1>1, <1>5, RejectStep, CallFacts DEF TypeOK
  <2> QED BY <1>1, <1>2, <2>1, LeaveKeeps
<1>6. ASSUME NEW r \in Requests, Leave(r)
      PROVE  Exactly(c)'
  <2>1. PICK l \in Limiters : Leaves(r, l) /\ Incr(Counter(l), -1) /\ crashes' = crashes
    BY <1>1, <1>6, LeaveStep
  <2> QED BY <1>1, <1>2, <2>1, LeaveKeeps
<1>7. ASSUME NEW r \in Requests, Undo(r)
      PROVE  Exactly(c)'
  <2>1. crashes' = crashes
    BY <1>1, <1>7, UndoStep
  <2>2. ASSUME NEW i \in 1..(N - 1), NEW j \in 1..(i - 1), Leaves(r, j),
               Incr(<<DictOf[i], KeyOf[j]>>, -1)
        PROVE  Exactly(c)'
    <3>1. j \in Limiters
      BY LimitTrafficAssumption DEF Limiters
    <3>2. <<DictOf[i], KeyOf[j]>> = Counter(j)
      BY DEF UndoHits, Undone
    <3>3. Incr(Counter(j), -1)
      BY <2>2, <3>2
    <3> QED BY <1>1, <1>2, <2>1, <2>2, <3>1, <3>3, LeaveKeeps
  <2> QED BY <1>1, <1>2, <1>7, <2>1, <2>2, UndoStep, DropExact
<1>8. ASSUME UNCHANGED vars
      PROVE  Exactly(c)'
  <2>1. \A q \in Requests, l \in Limiters : Claims(q, l)' <=> Claims(q, l)
    BY <1>8 DEF vars, Claims, Before, Asked
  <2>2. Claimants(c)' = Claimants(c) /\ Number(count[c])' = Number(count[c])
    BY <1>8, <2>1 DEF vars, Claimants, Counter, Number
  <2>3. crashes' = crashes
    BY <1>8 DEF vars
  <2> QED BY <1>2, <2>2, <2>3 DEF Exactly
<1>9. CASE Next
  <2>1. PICK r \in Requests : Step(r)
    BY <1>9 DEF Next
  <2> QED BY <1>3, <1>4, <1>5, <1>6, <1>7, <2>1 DEF Step
<1> QED BY <1>8, <1>9

\* A rejected request takes back what it committed in combine's second pass, if
\* the limiters asked there share a dictionary and the last one's counter is
\* its own: without a crash, nothing stays on the others when all is over.
THEOREM OthersClean ==
    ASSUME UndoHits, LastApart
    PROVE  Spec => []OnlyLastLeaks
<1>1. UndoApart
  BY DEF UndoHits, UndoApart, Undone
<1>2. Spec => []IInv
  BY <1>1, Invariant
<1>3. Init => Exact
  <2> SUFFICES ASSUME Init, NEW c \in Counters
               PROVE  Exactly(c)
    BY DEF Exact
  <2>1. \A q \in Requests, l \in Limiters : ~Claims(q, l)
    BY DEF Init, Claims
  <2>2. Claimants(c) = {} /\ Number(count[c]) = 0
    BY <2>1 DEF Claimants, Init, Number
  <2> QED BY <2>2, FS_EmptySet DEF Exactly
<1>4. IInv /\ Exact /\ [Next]_vars => Exact'
  BY StepExact DEF IInv
<1>5. IInv /\ Exact => OnlyLastLeaks
  <2> SUFFICES ASSUME IInv, Exact, Quiet, NEW i \in 1..(N - 1)
               PROVE  ~Leaks(i)
    BY DEF OnlyLastLeaks
  <2>1. i \in Limiters
    BY LimitTrafficAssumption DEF Limiters
  <2>2. Exactly(Counter(i))
    BY <2>1, CounterFacts DEF Exact, Quiet, LastApart
  <2>3. \A q \in Requests, l \in Limiters : ~Claims(q, l)
    BY DEF Quiet, Claims
  <2>4. Claimants(Counter(i)) = {}
    BY <2>3 DEF Claimants
  <2>5. Number(count[Counter(i)]) = 0
    BY <2>2, <2>4, FS_EmptySet DEF Exactly
  <2> QED BY <2>5 DEF Leaks, Number
<1> QED BY <1>2, <1>3, <1>4, <1>5, PTL DEF Spec
=============================================================================
