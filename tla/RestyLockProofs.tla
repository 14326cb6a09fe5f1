-------------------------- MODULE RestyLockProofs --------------------------
(***************************************************************************)
(* Theorems about RestyLock.tla, for any number of objects, workers and    *)
(* keys and any settings: references are never mixed up, nobody shares a   *)
(* lock within its lease, and no call of lock waits beyond its timeout.    *)
(***************************************************************************)
EXTENDS RestyLock, FiniteSetTheorems, WellFoundedInduction, TLAPS

USE RestyLockAssumption

----------------------------------------------------------------------------
(* The memo table.  The free list is described by the sequence s of the    *)
(* freed references, most recent first: slot 0 holds s[1], slot s[1] holds *)
(* s[2], and the slot of the last one is empty.                            *)

Prev(s, i) == IF i = 1 THEN 0 ELSE s[i - 1]

Linked(m, U, n, s) ==
    /\ \A i \in 1..n : s[i] \in Refs \ U
    /\ \A i, j \in 1..n : s[i] = s[j] => i = j
    /\ \A i \in 1..n : Slot(m, Prev(s, i)) = s[i]
    /\ \A d \in DOMAIN m \ U : \E i \in 1..n : d = Prev(s, i)
    /\ U \subseteq DOMAIN m \ {0} /\ U \subseteq Refs
    /\ IsFiniteSet(DOMAIN m)

\* All slots of m are in use or on the free list; U is what is in use.
HasFreeList(m, U) ==
    \E n \in Nat : \E s \in [1..n -> Refs] : Linked(m, U, n, s)

\* What an assignment to a slot does to the slots and to the domain.
LEMMA AssignSlot ==
    ASSUME NEW m, NEW i, NEW v
    PROVE  \A j : Slot(Assign(m, i, v), j) = IF j = i THEN v ELSE Slot(m, j)
<1>1. CASE v = Nil
  BY <1>1 DEF Assign, Slot
<1>2. CASE v # Nil
  BY <1>2 DEF Assign, Slot
<1> QED BY <1>1, <1>2

LEMMA AssignDomain ==
    ASSUME NEW m, NEW i, NEW v
    PROVE  /\ v # Nil => DOMAIN Assign(m, i, v) = DOMAIN m \cup {i}
           /\ v = Nil => DOMAIN Assign(m, i, v) = DOMAIN m \ {i}
           /\ IsFiniteSet(DOMAIN m) => IsFiniteSet(DOMAIN Assign(m, i, v))
<1>1. CASE v = Nil
  <2>1. Assign(m, i, v) = [j \in DOMAIN m \ {i} |-> m[j]]
    BY <1>1 DEF Assign
  <2>2. IsFiniteSet(DOMAIN m) => IsFiniteSet(DOMAIN m \ {i})
    BY FS_RemoveElement
  <2> QED BY <1>1, <2>1, <2>2
<1>2. CASE v # Nil
  <2>1. Assign(m, i, v) = [j \in DOMAIN m \cup {i} |-> IF j = i THEN v ELSE m[j]]
    BY <1>2 DEF Assign
  <2>2. IsFiniteSet(DOMAIN m) => IsFiniteSet(DOMAIN m \cup {i})
    BY FS_AddElement
  <2> QED BY <1>2, <2>1, <2>2
<1> QED BY <1>1, <1>2

\* #m + 1 is a slot that is not taken.
LEMMA BorderFacts ==
    ASSUME NEW m, IsFiniteSet(DOMAIN m)
    PROVE  Border(m) \in Nat \ {0} /\ Border(m) \notin DOMAIN m
<1> DEFINE c == Cardinality(DOMAIN m)
           unused == (1..(c + 1)) \ DOMAIN m
<1>1. c \in Nat
  BY FS_CardinalityType
<1>2. unused # {}
  <2>1. SUFFICES ASSUME 1..(c + 1) \subseteq DOMAIN m PROVE FALSE
    OBVIOUS
  <2>2. Cardinality(1..(c + 1)) = c + 1
    BY <1>1, FS_Interval
  <2>3. Cardinality(1..(c + 1)) <= c
    BY <2>1, FS_Subset
  <2> QED BY <1>1, <2>2, <2>3
<1>3. PICK x \in unused : \A y \in unused : ~(<<y, x>> \in OpToRel(<, Nat))
  <2>1. unused \subseteq Nat
    BY <1>1
  <2> QED BY <1>2, <2>1, NatLessThanWellFounded, WFMin
<1>4. ASSUME NEW y \in unused PROVE ~(y < x)
  <2>1. SUFFICES ASSUME y < x PROVE <<y, x>> \in OpToRel(<, Nat)
    BY <1>3
  <2>2. <<y, x>> \in Nat \X Nat /\ <<y, x>>[1] = y /\ <<y, x>>[2] = x
    BY <1>1
  <2>3. OpToRel(<, Nat) = {ss \in Nat \X Nat : ss[1] < ss[2]}
    BY Zenon DEF OpToRel
  <2> QED BY <2>1, <2>2, <2>3
<1>5. x = 1 \/ x - 1 \in DOMAIN m
  <2>1. CASE x # 1
    <3>1. x - 1 \in 1..(c + 1) /\ x - 1 < x
      BY <1>1, <2>1
    <3> QED BY <1>4, <3>1
  <2> QED BY <2>1
<1>6. \E i \in 1..(c + 1) : i \notin DOMAIN m /\ (i = 1 \/ i - 1 \in DOMAIN m)
  BY <1>5
<1>7. Border(m) \in 1..(c + 1) /\ Border(m) \notin DOMAIN m
  BY <1>6 DEF Border
<1> QED BY <1>1, <1>7

\* With an empty free list slot 0 is empty, with a non-empty one it is the head.
LEMMA HeadFacts ==
    ASSUME NEW m, NEW U, NEW n \in Nat, NEW s \in [1..n -> Refs], Linked(m, U, n, s)
    PROVE  /\ n = 0 => Slot(m, 0) = Nil /\ DOMAIN m = U
           /\ n > 0 => Slot(m, 0) = s[1] /\ s[1] # Nil
           /\ n = 1 => Slot(m, s[1]) = Nil
           /\ n > 1 => Slot(m, s[1]) = s[2] /\ s[2] # Nil
<1>1. CASE n = 0
  <2>1. U \subseteq DOMAIN m \ {0} /\ \A d \in DOMAIN m \ U : \E i \in 1..n : d = Prev(s, i)
    BY DEF Linked
  <2>2. 1..n = {}
    BY <1>1
  <2>3. DOMAIN m = U
    BY <2>1, <2>2, Zenon
  <2> QED BY <1>1, <2>1, <2>3 DEF Slot
<1>2. CASE n > 0
  <2>1. Prev(s, 1) = 0 /\ 1 \in 1..n /\ s[1] \in Nat
    BY <1>2 DEF Prev, Refs
  <2>2. Slot(m, 0) = s[1] /\ s[1] # Nil
    BY <2>1 DEF Linked
  <2>3. ASSUME n = 1 PROVE Slot(m, s[1]) = Nil
    <3>1. ASSUME s[1] \in DOMAIN m PROVE FALSE
      <4>1. PICK i \in 1..n : s[1] = Prev(s, i)
        BY <2>1, <3>1 DEF Linked
      <4>2. i = 1
        BY <2>3
      <4> QED BY <1>2, <4>1, <4>2 DEF Prev, Refs
    <3> QED BY <3>1 DEF Slot
  <2>4. ASSUME n > 1 PROVE Slot(m, s[1]) = s[2] /\ s[2] # Nil
    <3>1. 2 \in 1..n /\ Prev(s, 2) = s[1] /\ s[2] \in Nat
      BY <2>4 DEF Prev, Refs
    <3> QED BY <3>1 DEF Linked
  <2> QED BY <1>2, <2>2, <2>3, <2>4
<1> QED BY <1>1, <1>2

\* ref_obj returns a reference nobody uses, and takes it off the free list.
LEMMA RefFacts ==
    ASSUME NEW m, NEW U, NEW x, HasFreeList(m, U), x # Nil
    PROVE  /\ NewRef(m) \in Refs \ U
           /\ HasFreeList(RefObj(m, x), U \cup {NewRef(m)})
           /\ Slot(RefObj(m, x), NewRef(m)) = x
           /\ \A u \in U : Slot(RefObj(m, x), u) = Slot(m, u)
<1> DEFINE r == NewRef(m)
           m2 == RefObj(m, x)
           U2 == U \cup {r}
<1>n. PICK n \in Nat : \E s \in [1..n -> Refs] : Linked(m, U, n, s)
  BY DEF HasFreeList
<1>1. PICK s \in [1..n -> Refs] : Linked(m, U, n, s)
  BY <1>n
<1>2. /\ \A i \in 1..n : s[i] \in Refs \ U
      /\ \A i, j \in 1..n : s[i] = s[j] => i = j
      /\ \A i \in 1..n : Slot(m, Prev(s, i)) = s[i]
      /\ \A d \in DOMAIN m \ U : \E i \in 1..n : d = Prev(s, i)
      /\ U \subseteq DOMAIN m \ {0} /\ U \subseteq Refs
      /\ IsFiniteSet(DOMAIN m)
  BY <1>1 DEF Linked
<1>3. CASE n = 0
  <2>1. Slot(m, 0) = Nil /\ DOMAIN m = U
    BY <1>1, <1>3, HeadFacts
  <2>2. r = Border(m) /\ m2 = Assign(m, r, x)
    BY <2>1 DEF NewRef, RefObj, PopFree, FREE_LIST_REF
  <2>3. r \in Refs /\ r \notin U
    BY <1>2, <2>1, <2>2, BorderFacts DEF Refs
  <2> HIDE DEF r, m2
  <2>4. /\ \A j : Slot(m2, j) = IF j = r THEN x ELSE Slot(m, j)
        /\ DOMAIN m2 = DOMAIN m \cup {r}
        /\ IsFiniteSet(DOMAIN m2)
    <3>1. \A j : Slot(m2, j) = IF j = r THEN x ELSE Slot(m, j)
      BY <2>2, AssignSlot
    <3> QED BY <1>2, <2>2, <3>1, AssignDomain
  <2>5. Linked(m2, U2, n, s)
    BY <1>2, <1>3, <2>1, <2>3, <2>4 DEF Linked, Refs
  <2> QED BY <1>2, <2>3, <2>4, <2>5 DEF HasFreeList, r, m2
<1>4. CASE n > 0
  <2> DEFINE m1 == Assign(m, 0, Slot(m, r))
             s2 == [i \in 1..(n - 1) |-> s[i + 1]]
  <2>1. /\ Slot(m, 0) = s[1] /\ s[1] # Nil
        /\ n = 1 => Slot(m, s[1]) = Nil
        /\ n > 1 => Slot(m, s[1]) = s[2] /\ s[2] # Nil
    BY <1>1, <1>4, HeadFacts
  <2>2. r = s[1] /\ m2 = Assign(m1, r, x)
    BY <2>1 DEF NewRef, RefObj, PopFree, FREE_LIST_REF, Slot
  <2>3. r \in Refs /\ r \notin U /\ r # 0
    BY <1>2, <1>4, <2>2 DEF Refs
  <2> HIDE DEF r, m2
  <2>4. /\ \A j : Slot(m1, j) = IF j = 0 THEN Slot(m, r) ELSE Slot(m, j)
        /\ Slot(m, r) # Nil => DOMAIN m1 = DOMAIN m \cup {0}
        /\ Slot(m, r) = Nil => DOMAIN m1 = DOMAIN m \ {0}
        /\ IsFiniteSet(DOMAIN m1)
    <3>1. \A j : Slot(m1, j) = IF j = 0 THEN Slot(m, r) ELSE Slot(m, j)
      BY AssignSlot DEF m1
    <3> QED BY <1>2, <3>1, AssignDomain DEF m1
  <2> HIDE DEF m1
  <2>5. /\ \A j : Slot(m2, j) = IF j = r THEN x ELSE Slot(m1, j)
        /\ DOMAIN m2 = DOMAIN m1 \cup {r}
        /\ IsFiniteSet(DOMAIN m2)
    <3>1. \A j : Slot(m2, j) = IF j = r THEN x ELSE Slot(m1, j)
      BY <2>2, AssignSlot
    <3>2. DOMAIN m2 = DOMAIN m1 \cup {r}
      BY <2>2, AssignDomain
    <3>3. IsFiniteSet(DOMAIN m2)
      BY <2>2, <2>4, AssignDomain
    <3> QED BY <3>1, <3>2, <3>3
  <2>6. n - 1 \in Nat /\ s2 \in [1..(n - 1) -> Refs] /\ \A i \in 1..(n - 1) : s2[i] = s[i + 1]
    BY <1>4
  <2> HIDE DEF s2
  <2>7. \A i \in 1..(n - 1) : s2[i] \in Refs \ U2
    BY <1>2, <1>4, <2>2, <2>6
  <2>8. \A i, j \in 1..(n - 1) : s2[i] = s2[j] => i = j
    <3>1. SUFFICES ASSUME NEW i \in 1..(n - 1), NEW j \in 1..(n - 1), s2[i] = s2[j]
                   PROVE  i = j
      OBVIOUS
    <3>2. i + 1 \in 1..n /\ j + 1 \in 1..n /\ s[i + 1] = s[j + 1]
      BY <2>6, <3>1
    <3> QED BY <1>2, <3>2
  <2>9. ASSUME NEW i \in 1..(n - 1) PROVE Slot(m2, Prev(s2, i)) = s2[i]
    <3>1. CASE i = 1
      BY <2>1, <2>2, <2>3, <2>4, <2>5, <2>6, <3>1 DEF Prev
    <3>2. CASE i > 1
      <4>1. i \in 1..n /\ i + 1 \in 1..n /\ i - 1 \in 1..(n - 1) /\ Prev(s2, i) = s[i]
            /\ Prev(s, i + 1) = s[i]
        BY <2>6, <3>2 DEF Prev
      <4>2. s[i] # r /\ s[i] # 0
        BY <1>2, <1>4, <2>2, <3>2, <4>1 DEF Refs
      <4> QED BY <1>2, <2>4, <2>5, <2>6, <4>1, <4>2
    <3> QED BY <3>1, <3>2
  <2>10. ASSUME NEW d \in DOMAIN m2 \ U2 PROVE \E i \in 1..(n - 1) : d = Prev(s2, i)
    <3>1. CASE d = 0
      <4>1. n > 1
        BY <1>4, <2>1, <2>2, <2>3, <2>4, <2>5, <3>1
      <4> QED BY <3>1, <4>1 DEF Prev
    <3>2. CASE d # 0
      <4>1. d # r /\ d \in DOMAIN m \ U
        BY <2>4, <2>5, <3>2
      <4>2. PICK i \in 1..n : d = Prev(s, i)
        BY <1>2, <4>1
      <4>3. i # 1 /\ i # 2
        BY <2>2, <3>2, <4>1, <4>2 DEF Prev
      <4>4. i - 1 \in 1..(n - 1) /\ i - 2 \in 1..(n - 1) /\ i - 1 # 1
        BY <4>3
      <4>5. Prev(s2, i - 1) = s2[i - 2] /\ s2[i - 2] = s[i - 1] /\ Prev(s, i) = s[i - 1]
        BY <2>6, <4>3, <4>4 DEF Prev
      <4> QED BY <4>2, <4>4, <4>5
    <3> QED BY <3>1, <3>2
  <2>11. U2 \subseteq DOMAIN m2 \ {0} /\ U2 \subseteq Refs
    BY <1>2, <2>3, <2>4, <2>5
  <2>12. Linked(m2, U2, n - 1, s2)
    BY <2>5, <2>7, <2>8, <2>9, <2>10, <2>11 DEF Linked
  <2>13. HasFreeList(m2, U2)
    BY <2>6, <2>12 DEF HasFreeList
  <2>14. \A u \in U : u # r /\ u # 0
    BY <1>2, <2>3 DEF Refs
  <2> QED BY <2>3, <2>4, <2>5, <2>13, <2>14 DEF r, m2
<1> QED BY <1>3, <1>4

\* The other references keep their values.
LEMMA RefKeeps ==
    ASSUME NEW m, NEW U, HasFreeList(m, U), NEW x, x # Nil, NEW u \in U
    PROVE  Slot(RefObj(m, x), u) = Slot(m, u)
<1>1. HasFreeList(RefObj(m, x), U \cup {NewRef(m)})
  BY RefFacts
<1> QED BY <1>1, RefFacts

\* unref_obj puts a reference in use on the free list.
LEMMA UnrefFacts ==
    ASSUME NEW m, NEW U, HasFreeList(m, U), NEW r \in U
    PROVE  /\ HasFreeList(UnrefObj(m, r), U \ {r})
           /\ \A u \in U \ {r} : Slot(UnrefObj(m, r), u) = Slot(m, u)
<1> DEFINE m1 == Assign(m, r, Slot(m, 0))
           m2 == UnrefObj(m, r)
           U2 == U \ {r}
<1>n. PICK n \in Nat : \E s \in [1..n -> Refs] : Linked(m, U, n, s)
  BY DEF HasFreeList
<1>s. PICK s \in [1..n -> Refs] : Linked(m, U, n, s)
  BY <1>n
<1> DEFINE s2 == [i \in 1..(n + 1) |-> IF i = 1 THEN r ELSE s[i - 1]]
<1>1. /\ \A i \in 1..n : s[i] \in Refs \ U
      /\ \A i, j \in 1..n : s[i] = s[j] => i = j
      /\ \A i \in 1..n : Slot(m, Prev(s, i)) = s[i]
      /\ \A d \in DOMAIN m \ U : \E i \in 1..n : d = Prev(s, i)
      /\ U \subseteq DOMAIN m \ {0} /\ U \subseteq Refs
      /\ IsFiniteSet(DOMAIN m)
  BY <1>s DEF Linked
<1>2. /\ n = 0 => Slot(m, 0) = Nil
      /\ n > 0 => Slot(m, 0) = s[1] /\ s[1] # Nil
  BY <1>s, HeadFacts
<1>3. r \in Refs /\ r # 0 /\ r # Nil
  BY <1>1 DEF Refs
<1>4. m2 = Assign(m1, 0, r)
  BY DEF UnrefObj, FREE_LIST_REF
<1> HIDE DEF m2
<1>5. \A j : Slot(m1, j) = IF j = r THEN Slot(m, 0) ELSE Slot(m, j)
  BY AssignSlot DEF m1
<1>6. IsFiniteSet(DOMAIN m1)
  BY <1>1, AssignDomain DEF m1
<1>7. /\ Slot(m, 0) # Nil => DOMAIN m1 = DOMAIN m \cup {r}
      /\ Slot(m, 0) = Nil => DOMAIN m1 = DOMAIN m \ {r}
  BY AssignDomain DEF m1
<1> HIDE DEF m1
<1>8. \A j : Slot(m2, j) = IF j = 0 THEN r ELSE Slot(m1, j)
  BY <1>4, AssignSlot
<1>9. IsFiniteSet(DOMAIN m2)
  BY <1>4, <1>6, AssignDomain
<1>10. DOMAIN m2 = DOMAIN m1 \cup {0}
  BY <1>3, <1>4, AssignDomain
<1>11. /\ n + 1 \in Nat /\ s2 \in [1..(n + 1) -> Refs]
       /\ s2[1] = r /\ \A i \in 2..(n + 1) : s2[i] = s[i - 1]
  BY <1>3
<1> HIDE DEF s2
<1>12. \A i \in 1..(n + 1) : s2[i] \in Refs \ U2
  BY <1>1, <1>11, <1>3
<1>13. ASSUME NEW i \in 1..(n + 1), NEW j \in 1..(n + 1), s2[i] = s2[j] PROVE i = j
  <2>1. CASE i = 1 \/ j = 1
    BY <1>1, <1>11, <1>13, <2>1
  <2>2. CASE i # 1 /\ j # 1
    <3>1. i - 1 \in 1..n /\ j - 1 \in 1..n /\ s[i - 1] = s[j - 1]
      BY <1>11, <1>13, <2>2
    <3> QED BY <1>1, <3>1
  <2> QED BY <2>1, <2>2
<1>14. ASSUME NEW i \in 1..(n + 1) PROVE Slot(m2, Prev(s2, i)) = s2[i]
  <2>1. CASE i = 1
    BY <1>8, <1>11, <2>1 DEF Prev
  <2>2. CASE i = 2
    BY <1>2, <1>3, <1>5, <1>8, <1>11, <2>2 DEF Prev
  <2>3. CASE i > 2
    <3>1. i - 1 \in 2..n /\ i - 2 \in 1..n
      BY <2>3
    <3>2. Prev(s2, i) = s[i - 2] /\ Prev(s, i - 1) = s[i - 2] /\ s2[i] = s[i - 1]
      BY <1>11, <2>3, <3>1 DEF Prev
    <3>3. s[i - 2] # r /\ s[i - 2] # 0
      BY <1>1, <3>1 DEF Refs
    <3> QED BY <1>1, <1>5, <1>8, <3>1, <3>2, <3>3
  <2> QED BY <2>1, <2>2, <2>3
<1>15. ASSUME NEW d \in DOMAIN m2 \ U2 PROVE \E i \in 1..(n + 1) : d = Prev(s2, i)
  <2>1. CASE d = 0
    BY <2>1 DEF Prev
  <2>2. CASE d = r
    <3>1. n > 0
      BY <1>2, <1>3, <1>7, <1>10, <2>2
    <3>2. 2 \in 1..(n + 1) /\ Prev(s2, 2) = s2[1]
      BY <3>1 DEF Prev
    <3> QED BY <1>11, <2>2, <3>2
  <2>3. CASE d # 0 /\ d # r
    <3>1. d \in DOMAIN m \ U
      BY <1>7, <1>10, <2>3
    <3>2. PICK i \in 1..n : d = Prev(s, i)
      BY <1>1, <3>1
    <3>3. i # 1 /\ i + 1 \in 1..(n + 1) /\ i \in 2..(n + 1)
      BY <2>3, <3>2 DEF Prev
    <3>4. Prev(s2, i + 1) = s2[i] /\ s2[i] = s[i - 1] /\ Prev(s, i) = s[i - 1]
      BY <1>11, <3>3 DEF Prev
    <3> QED BY <3>2, <3>3, <3>4
  <2> QED BY <2>1, <2>2, <2>3
<1>16. U2 \subseteq DOMAIN m2 \ {0} /\ U2 \subseteq Refs
  BY <1>1, <1>7, <1>10
<1>17. Linked(m2, U2, n + 1, s2)
  BY <1>9, <1>12, <1>13, <1>14, <1>15, <1>16 DEF Linked
<1>18. HasFreeList(m2, U2)
  BY <1>11, <1>17 DEF HasFreeList
<1>19. \A u \in U2 : Slot(m2, u) = Slot(m, u)
  BY <1>1, <1>5, <1>8 DEF Refs
<1> QED BY <1>18, <1>19 DEF m2

----------------------------------------------------------------------------
(* The inductive invariant.                                                *)

\* The references the live objects of worker w hold.
InUse(w) ==
    {r \in Refs : \E o \in Objects :
        /\ pc[o] # "none" /\ WorkerOf[o] = w
        /\ r = dict_id[o] \/ (key_id[o] > 0 /\ r = key_id[o])}

FreeLists == \A w \in Workers : HasFreeList(memo[w], InUse(w))

\* A lock is held between two calls only, and on a key.
HeldBetweenCalls ==
    \A o \in Objects :
        /\ pc[o] # "idle" => key_id[o] = 0
        /\ pc[o] = "sleeping" => key[o] \in Keys
        /\ key_id[o] > 0 => key[o] \in Keys

\* The entry of a lock lasts at least as long as its holder's lease.
LeaseBacked ==
    misused \/ evicted \/
    \A o \in Objects : (key_id[o] > 0 /\ lease[o] > 0) =>
        key[o] \in DOMAIN store /\ store[key[o]] >= lease[o]

\* Two locks within their leases are on different keys.
Alone ==
    misused \/ evicted \/
    \A o, p \in Objects :
        (key_id[o] > 0 /\ key_id[p] > 0 /\ key[o] = key[p] /\ lease[o] > 0 /\ lease[p] > 0)
        => o = p

\* What a call of lock has slept and what it has left make its timeout, and
\* only its first pause can be longer than that.
Waiting ==
    \A o \in Objects : pc[o] = "sleeping" =>
        /\ wait[o].elapsed + wait[o].left = conf[o].timeout
        /\ \/ wait[o].step <= wait[o].left
           \/ wait[o].elapsed = 0 /\ wait[o].step = conf[o].step

Memos == DOMAIN memo = Workers /\ FreeLists /\ MemoConsistent

IInv == CallsTyped /\ StoreTyped /\ HeldBetweenCalls /\ Memos
        /\ LeaseBacked /\ Alone /\ Waiting

----------------------------------------------------------------------------
(* Types.                                                                  *)

LEMMA SettingsFacts ==
    ASSUME NEW opt \in Options
    PROVE  Settings(opt) \in Conf
<1> DEFINE e == Default(opt.exptime, DefaultExptime)
           t == IF opt.timeout = Nil THEN DefaultTimeout ELSE Lesser(opt.timeout, e)
           p == IF opt.step = Nil THEN DefaultStep
                ELSE IF opt.timeout = Nil THEN opt.step ELSE Lesser(opt.step, t)
<1>1. e \in Nat \ {0}
  BY DEF Default
<1>2. t \in Nat
  BY <1>1 DEF Lesser
<1>3. p \in Nat
  BY <1>2 DEF Lesser
<1>4. Settings(opt) = [timeout |-> t, exptime |-> e, step |-> p]
  BY DEF Settings
<1> QED BY <1>1, <1>2, <1>3, <1>4 DEF Conf

\* The pause after one of step with left to go.
LEMMA NextStepFacts ==
    ASSUME NEW step \in Nat, NEW left \in Int, left > 0
    PROVE  NextStep(step, left) \in Nat /\ NextStep(step, left) <= left
<1>1. step * Ratio \in Int
  OBVIOUS
<1> QED BY <1>1 DEF NextStep, Lesser, Greater

\* What is in a table whose used slots hold keys or the dictionary.
LEMMA TableTyped ==
    ASSUME NEW m, NEW U, HasFreeList(m, U), \A u \in U : Slot(m, u) \in Keys \cup {Dict}
    PROVE  /\ DOMAIN m \subseteq Nat
           /\ \A i \in DOMAIN m : m[i] \in Keys \cup {Dict} \cup Refs
<1>n. PICK n \in Nat : \E s \in [1..n -> Refs] : Linked(m, U, n, s)
  BY DEF HasFreeList
<1>s. PICK s \in [1..n -> Refs] : Linked(m, U, n, s)
  BY <1>n
<1>1. ASSUME NEW d \in DOMAIN m PROVE d \in Nat /\ m[d] \in Keys \cup {Dict} \cup Refs
  <2>1. m[d] = Slot(m, d)
    BY DEF Slot
  <2>2. CASE d \in U
    <3>1. U \subseteq Refs
      BY <1>s DEF Linked
    <3> QED BY <2>1, <2>2, <3>1 DEF Refs
  <2>3. CASE d \notin U
    <3>1. PICK i \in 1..n : d = Prev(s, i)
      BY <1>s, <2>3 DEF Linked
    <3>2. Slot(m, d) = s[i] /\ s[i] \in Refs
      BY <1>s, <3>1 DEF Linked
    <3>3. d \in Nat
      BY <3>1 DEF Prev, Refs
    <3> QED BY <2>1, <3>2, <3>3
  <2> QED BY <2>2, <2>3
<1> QED BY <1>1

\* The references of an object are in use, and their slots hold what they stand
\* for.
LEMMA InUseFacts ==
    ASSUME IInv
    PROVE  /\ \A o \in Objects : pc[o] # "none" => dict_id[o] \in InUse(WorkerOf[o])
           /\ \A o \in Objects : key_id[o] > 0 => key_id[o] \in InUse(WorkerOf[o])
           /\ \A w \in Workers : \A u \in InUse(w) : Slot(memo[w], u) \in Keys \cup {Dict}
<1>1. ASSUME NEW o \in Objects, pc[o] # "none" PROVE dict_id[o] \in InUse(WorkerOf[o])
  BY <1>1 DEF IInv, CallsTyped, InUse
<1>2. ASSUME NEW o \in Objects, key_id[o] > 0 PROVE key_id[o] \in InUse(WorkerOf[o])
  BY <1>2 DEF IInv, CallsTyped, HeldBetweenCalls, InUse, Refs
<1>3. ASSUME NEW w \in Workers, NEW u \in InUse(w)
      PROVE  Slot(memo[w], u) \in Keys \cup {Dict}
  BY DEF IInv, Memos, MemoConsistent, HeldBetweenCalls, InUse
<1> QED BY <1>1, <1>2, <1>3

LEMMA InvariantTyped == IInv => TypeOK
<1> SUFFICES ASSUME IInv PROVE MemoTyped
  BY DEF IInv, Memos, TypeOK
<1>1. \A w \in Workers : HasFreeList(memo[w], InUse(w))
  BY DEF IInv, Memos, FreeLists
<1> QED BY <1>1, InUseFacts, TableTyped DEF MemoTyped

\* A reference an object is given.
LEMMA NewRefFacts ==
    ASSUME IInv, NEW w \in Workers
    PROVE  NewRef(memo[w]) \in Refs
<1>1. HasFreeList(memo[w], InUse(w))
  BY DEF IInv, Memos, FreeLists
<1>2. Dict # Nil
  OBVIOUS
<1> QED BY <1>1, <1>2, RefFacts

\* add keeps the store typed.
LEMMA AddTyped ==
    ASSUME StoreTyped, evicted \in BOOLEAN, NEW k \in Keys, NEW e \in Nat, Add(k, e)
    PROVE  StoreTyped' /\ evicted' \in BOOLEAN
<1>1. CASE store' = Put(store, k, e) /\ UNCHANGED evicted
  BY <1>1 DEF StoreTyped, Put
<1>2. CASE \E x \in DOMAIN store \ {k} : store' = Put(Drop(store, x), k, e) /\ evicted' = TRUE
  BY <1>2 DEF StoreTyped, Put, Drop
<1> QED BY <1>1, <1>2 DEF Add

LEMMA TypedStep ==
    ASSUME IInv, [Next]_vars
    PROVE  CallsTyped' /\ StoreTyped' /\ DOMAIN memo' = Workers
<1> USE DEF CallsTyped
<1>0. CallsTyped /\ StoreTyped /\ DOMAIN memo = Workers
  BY DEF IInv, Memos
<1>1. ASSUME NEW o \in Objects, NEW opt \in Options, New(o, opt)
      PROVE  CallsTyped' /\ StoreTyped' /\ DOMAIN memo' = Workers
  <2>1. Settings(opt) \in Conf /\ NewRef(memo[WorkerOf[o]]) \in Refs
    BY SettingsFacts, NewRefFacts
  <2>2. CallsTyped'
    BY <1>0, <1>1, <2>1 DEF New, Refs
  <2> QED BY <1>0, <1>1, <2>2 DEF New, StoreTyped
<1>2. ASSUME NEW o \in Objects, NEW k \in Keys, pc[o] # "none", Acquire(o, k)
      PROVE  CallsTyped' /\ StoreTyped' /\ DOMAIN memo' = Workers
  <2>1. NewRef(memo[WorkerOf[o]]) \in Refs
    BY NewRefFacts
  <2>2. conf[o].exptime \in Nat
    BY <1>0, <1>2 DEF Conf
  <2>3. StoreTyped' /\ evicted' \in BOOLEAN
    BY <1>0, <1>2, <2>2, AddTyped DEF Acquire
  <2>4. CallsTyped'
    BY <1>0, <1>2, <2>1, <2>2, <2>3 DEF Acquire, Refs, NoWait
  <2> QED BY <1>0, <1>2, <2>3, <2>4 DEF Acquire
<1>3. ASSUME NEW o \in Objects, NEW k \in Keys, LockAtOnce(o, k)
      PROVE  CallsTyped' /\ StoreTyped' /\ DOMAIN memo' = Workers
  BY <1>2, <1>3 DEF LockAtOnce
<1>4. ASSUME NEW o \in Objects, NEW k \in Keys, LockBusy(o, k)
      PROVE  CallsTyped' /\ StoreTyped' /\ DOMAIN memo' = Workers
  <2>1. conf[o].timeout \in Nat /\ conf[o].step \in Nat
    BY <1>0, <1>4 DEF LockBusy, Conf
  <2>2. CallsTyped'
    BY <1>0, <1>4, <2>1 DEF LockBusy
  <2> QED BY <1>0, <1>4, <2>2 DEF LockBusy, StoreTyped
<1>5. ASSUME NEW o \in Objects, WakeBusy(o)
      PROVE  CallsTyped' /\ StoreTyped' /\ DOMAIN memo' = Workers
  <2> DEFINE left == wait[o].left - wait[o].step
             step == NextStep(wait[o].step, left)
  <2>1. left \in Int /\ wait[o].step \in Nat /\ wait[o].elapsed + wait[o].step \in Nat
    BY <1>0
  <2>2. left > 0 => step \in Nat
    BY <2>1, NextStepFacts
  <2>3. wait' \in [Objects -> [left : Nat, step : Nat, elapsed : Nat, nap : Nat]]
    <3>1. CASE wait' = [wait EXCEPT ![o] = NoWait]
      BY <1>0, <3>1 DEF NoWait
    <3>2. CASE left > 0 /\ wait' = [wait EXCEPT ![o] =
                  [left |-> left, step |-> step, nap |-> step,
                   elapsed |-> wait[o].elapsed + wait[o].step]]
      <4> HIDE DEF left, step
      <4> QED BY <1>0, <2>1, <2>2, <3>2
    <3> QED BY <1>5, <3>1, <3>2 DEF WakeBusy
  <2>4. pc' \in [Objects -> {"none", "idle", "sleeping"}]
        /\ \A q \in Objects : pc'[q] # "none" => pc[q] # "none"
    BY <1>0, <1>5 DEF WakeBusy
  <2>5. CallsTyped'
    BY <1>0, <1>5, <2>3, <2>4 DEF WakeBusy
  <2> QED BY <1>0, <1>5, <2>5 DEF WakeBusy, StoreTyped
<1>6. ASSUME NEW o \in Objects, WakeFree(o)
      PROVE  CallsTyped' /\ StoreTyped' /\ DOMAIN memo' = Workers
  <2>1. key[o] \in Keys
    BY <1>6 DEF WakeFree, IInv, HeldBetweenCalls
  <2> QED BY <1>2, <1>6, <2>1 DEF WakeFree
<1>7. ASSUME NEW o \in Objects, AddFails(o) \/ Abandon(o)
      PROVE  CallsTyped' /\ StoreTyped' /\ DOMAIN memo' = Workers
  <2>1. /\ pc' = [pc EXCEPT ![o] = "idle"] /\ pc[o] = "sleeping"
        /\ wait' = [wait EXCEPT ![o] = NoWait]
        /\ UNCHANGED <<store, memo, conf, dict_id, key_id, key, lease, misused, evicted>>
    BY <1>7 DEF AddFails, Abandon
  <2>2. CallsTyped'
    BY <1>0, <2>1 DEF NoWait
  <2> QED BY <1>0, <2>1, <2>2 DEF StoreTyped
<1>8. ASSUME NEW o \in Objects, Unlock(o)
      PROVE  CallsTyped' /\ StoreTyped' /\ DOMAIN memo' = Workers
  <2>1. CallsTyped'
    BY <1>0, <1>8 DEF Unlock, Release
  <2> QED BY <1>0, <1>8, <2>1 DEF Unlock, Release, Drop, StoreTyped
<1>9. ASSUME NEW o \in Objects, Expire(o)
      PROVE  CallsTyped' /\ StoreTyped' /\ DOMAIN memo' = Workers
  <2>1. PICK time \in ExpireTimes \cup {conf[o].exptime} :
            store' = Put(store, key[o], time) /\ lease' = [lease EXCEPT ![o] = time]
    BY <1>9 DEF Expire
  <2>2. time \in Nat /\ key[o] \in Keys
    BY <1>0, <1>9 DEF Expire, Conf, Busy, StoreTyped
  <2>3. CallsTyped'
    BY <1>0, <1>9, <2>1, <2>2 DEF Expire, callVars
  <2>4. StoreTyped'
    BY <1>0, <2>1, <2>2 DEF StoreTyped, Put
  <2> QED BY <1>0, <1>9, <2>3, <2>4 DEF Expire
<1>10. ASSUME NEW o \in Objects, Collect(o)
       PROVE  CallsTyped' /\ StoreTyped' /\ DOMAIN memo' = Workers
  <2>1. CASE Release(o, memo[WorkerOf[o]])
    <3>1. CallsTyped'
      BY <1>0, <1>10, <2>1 DEF Collect, Release
    <3>2. StoreTyped'
      BY <1>0, <2>1 DEF Release, Drop, StoreTyped
    <3> QED BY <1>0, <1>10, <3>1, <3>2 DEF Collect
  <2>2. CASE UNCHANGED <<store, key_id, lease, misused>>
    <3>1. CallsTyped'
      BY <1>0, <1>10, <2>2 DEF Collect
    <3> QED BY <1>0, <1>10, <2>2, <3>1 DEF Collect, StoreTyped
  <2> QED BY <1>10, <2>1, <2>2 DEF Collect
<1>11. ASSUME NEW w \in Workers, Crash(w)
       PROVE  CallsTyped' /\ StoreTyped' /\ DOMAIN memo' = Workers
  <2>1. CallsTyped'
    BY <1>0, <1>11 DEF Crash, NoWait
  <2> QED BY <1>0, <1>11, <2>1 DEF Crash, StoreTyped
<1>12. ASSUME Tick PROVE CallsTyped' /\ StoreTyped' /\ DOMAIN memo' = Workers
  <2>1. wait' \in [Objects -> [left : Nat, step : Nat, elapsed : Nat, nap : Nat]]
    <3>1. wait \in [Objects -> [left : Nat, step : Nat, elapsed : Nat, nap : Nat]]
      BY <1>0
    <3>2. wait' = [o \in Objects |-> [wait[o] EXCEPT !.nap = Greater(@ - 1, 0)]]
      BY <1>12 DEF Tick
    <3>3. \A n \in Nat : Greater(n - 1, 0) \in Nat
      BY DEF Greater
    <3> QED BY <3>1, <3>2, <3>3
  <2>2. lease' \in [Objects -> Nat]
    BY <1>0, <1>12 DEF Tick, Greater
  <2>3. CallsTyped'
    BY <1>0, <1>12, <2>1, <2>2 DEF Tick
  <2>4. StoreTyped'
    BY <1>0, <1>12 DEF Tick, Aged, StoreTyped
  <2> QED BY <1>0, <1>12, <2>3, <2>4 DEF Tick
<1>13. ASSUME UNCHANGED vars PROVE CallsTyped' /\ StoreTyped' /\ DOMAIN memo' = Workers
  BY <1>0, <1>13 DEF vars, StoreTyped
<1> QED BY <1>1, <1>3, <1>4, <1>5, <1>6, <1>7, <1>8, <1>9, <1>10, <1>11, <1>12, <1>13
        DEF Next, Step, Wake

----------------------------------------------------------------------------
(* The memo tables.                                                        *)

\* Steps that make, move and forget no reference.
LEMMA MemosKept ==
    ASSUME IInv, UNCHANGED <<memo, dict_id, key_id>>,
           \A o \in Objects : pc'[o] # "none" <=> pc[o] # "none",
           \A o \in Objects : key_id[o] > 0 => key'[o] = key[o]
    PROVE  Memos'
<1>1. \A w \in Workers : InUse(w)' = InUse(w)
  BY DEF InUse
<1>2. FreeLists'
  BY <1>1 DEF IInv, Memos, FreeLists
<1>3. MemoConsistent'
  BY DEF IInv, Memos, MemoConsistent
<1> QED BY <1>2, <1>3 DEF IInv, Memos

\* Of a new object, that holds nothing yet.
LEMMA NewMemos ==
    ASSUME IInv, NEW o \in Objects, NEW opt \in Options, New(o, opt)
    PROVE  Memos'
<1> DEFINE w == WorkerOf[o]
           m == memo[w]
           r == NewRef(m)
           m2 == RefObj(m, Dict)
<1>1. CallsTyped /\ DOMAIN memo = Workers /\ w \in Workers /\ key_id[o] = 0
  BY DEF IInv, Memos, New, CallsTyped, HeldBetweenCalls
<1>2. HasFreeList(m, InUse(w)) /\ Dict # Nil
  BY <1>1 DEF IInv, Memos, FreeLists
<1>3. /\ r \in Refs \ InUse(w)
      /\ HasFreeList(m2, InUse(w) \cup {r})
      /\ Slot(m2, r) = Dict
      /\ \A u \in InUse(w) : Slot(m2, u) = Slot(m, u)
  BY <1>2, RefFacts
<1>4. /\ memo'[w] = m2 /\ DOMAIN memo' = Workers
      /\ \A x \in Workers \ {w} : memo'[x] = memo[x]
  BY <1>1 DEF New
<1>5. /\ dict_id' = [dict_id EXCEPT ![o] = r]
      /\ pc' = [pc EXCEPT ![o] = "idle"] /\ pc[o] = "none"
      /\ UNCHANGED <<key_id, key>>
  BY DEF New
<1> HIDE DEF m2, r
<1>6. InUse(w)' = InUse(w) \cup {r}
  BY <1>1, <1>3, <1>5 DEF CallsTyped, InUse
<1>7. \A x \in Workers \ {w} : InUse(x)' = InUse(x)
  BY <1>1, <1>5 DEF CallsTyped, InUse
<1>8. FreeLists'
  <2>1. HasFreeList(memo'[w], InUse(w)')
    BY <1>3, <1>4, <1>6
  <2>2. ASSUME NEW x \in Workers \ {w} PROVE HasFreeList(memo'[x], InUse(x)')
    <3>1. HasFreeList(memo[x], InUse(x)) /\ InUse(x)' = InUse(x) /\ memo'[x] = memo[x]
      BY <1>4, <1>7 DEF IInv, Memos, FreeLists
    <3> QED BY <3>1
  <2>3. \A x \in Workers : HasFreeList(memo'[x], InUse(x)')
    BY <2>1, <2>2
  <2> QED BY <2>3 DEF FreeLists
<1>9. MemoConsistent'
  <2>1. ASSUME NEW p \in Objects, pc'[p] # "none"
        PROVE  /\ Slot(memo'[WorkerOf[p]], dict_id'[p]) = Dict
               /\ key_id'[p] > 0 => Slot(memo'[WorkerOf[p]], key_id'[p]) = key'[p]
    <3>1. CASE p = o
      BY <1>1, <1>3, <1>4, <1>5, <3>1 DEF CallsTyped
    <3>2. CASE p # o
      <4>1. /\ pc[p] # "none" /\ WorkerOf[p] \in Workers
            /\ dict_id'[p] = dict_id[p] /\ key_id'[p] = key_id[p] /\ key'[p] = key[p]
        BY <1>1, <1>5, <2>1, <3>2 DEF CallsTyped
      <4>2. /\ Slot(memo[WorkerOf[p]], dict_id[p]) = Dict
            /\ key_id[p] > 0 => Slot(memo[WorkerOf[p]], key_id[p]) = key[p]
        BY <4>1 DEF IInv, Memos, MemoConsistent
      <4>3. /\ dict_id[p] \in InUse(WorkerOf[p])
            /\ key_id[p] > 0 => key_id[p] \in InUse(WorkerOf[p])
        BY <4>1, InUseFacts
      <4> QED BY <1>3, <1>4, <4>1, <4>2, <4>3
    <3> QED BY <3>1, <3>2
  <2>2. ASSUME NEW p \in Objects, pc'[p] # "none", NEW q \in Objects \ {p},
               pc'[q] # "none", WorkerOf[q] = WorkerOf[p]
        PROVE  dict_id'[q] # dict_id'[p] /\ (key_id'[p] > 0 => key_id'[q] # key_id'[p])
    <3>1. CASE p # o /\ q # o
      BY <1>1, <1>5, <2>2, <3>1 DEF CallsTyped, IInv, Memos, MemoConsistent
    <3>2. CASE p = o
      <4>1. pc[q] # "none" /\ dict_id'[q] = dict_id[q] /\ dict_id'[p] = r
        BY <1>1, <1>5, <2>2, <3>2 DEF CallsTyped
      <4> QED BY <1>1, <1>3, <1>5, <2>2, <3>2, <4>1, InUseFacts
    <3>3. CASE q = o
      <4>1. pc[p] # "none" /\ dict_id'[p] = dict_id[p] /\ dict_id'[q] = r
        BY <1>1, <1>5, <2>2, <3>3 DEF CallsTyped
      <4> QED BY <1>1, <1>3, <1>5, <2>2, <3>3, <4>1, InUseFacts
    <3> QED BY <3>1, <3>2, <3>3
  <2> QED BY <2>1, <2>2 DEF MemoConsistent
<1> QED BY <1>4, <1>8, <1>9 DEF Memos

\* Of the reference to a key just locked.
LEMMA AcquireMemos ==
    ASSUME IInv, NEW o \in Objects, NEW k \in Keys,
           pc[o] # "none", key_id[o] = 0, Acquire(o, k)
    PROVE  Memos'
<1> DEFINE w == WorkerOf[o]
           m == memo[w]
           r == NewRef(m)
           m2 == RefObj(m, k)
<1>1. CallsTyped /\ DOMAIN memo = Workers /\ w \in Workers
  BY DEF IInv, Memos
<1>2. HasFreeList(m, InUse(w)) /\ k # Nil
  BY <1>1 DEF IInv, Memos, FreeLists
<1>3. /\ r \in Refs \ InUse(w)
      /\ HasFreeList(m2, InUse(w) \cup {r})
      /\ Slot(m2, r) = k
      /\ \A u \in InUse(w) : Slot(m2, u) = Slot(m, u)
  <2>1. r \in Refs \ InUse(w)
    BY <1>2, RefFacts, ZenonT(60)
  <2>2. HasFreeList(m2, InUse(w) \cup {r})
    BY <1>2, RefFacts, ZenonT(60)
  <2>3. Slot(m2, r) = k
    BY <1>2, RefFacts, ZenonT(60)
  <2>4. ASSUME NEW u \in InUse(w) PROVE Slot(m2, u) = Slot(m, u)
    BY <1>2, RefKeeps
  <2> QED BY <2>1, <2>2, <2>3, <2>4
<1>4. /\ memo'[w] = m2 /\ DOMAIN memo' = Workers
      /\ \A x \in Workers \ {w} : memo'[x] = memo[x]
  BY <1>1 DEF Acquire
<1>5. /\ key_id' = [key_id EXCEPT ![o] = r] /\ key' = [key EXCEPT ![o] = k]
      /\ pc' = [pc EXCEPT ![o] = "idle"]
      /\ UNCHANGED dict_id
  BY DEF Acquire
<1> HIDE DEF m2, r
<1>6. r > 0 /\ key_id'[o] = r /\ pc'[o] # "none"
      /\ \A p \in Objects \ {o} : pc'[p] = pc[p] /\ key_id'[p] = key_id[p] /\ key'[p] = key[p]
  BY <1>1, <1>3, <1>5 DEF CallsTyped, Refs
<1>7. InUse(w)' = InUse(w) \cup {r}
  BY <1>1, <1>3, <1>5, <1>6 DEF InUse
<1>8. \A x \in Workers \ {w} : InUse(x)' = InUse(x)
  BY <1>1, <1>5, <1>6 DEF InUse
<1>9. FreeLists'
  <2>1. HasFreeList(memo'[w], InUse(w)')
    BY <1>3, <1>4, <1>7
  <2>2. ASSUME NEW x \in Workers \ {w} PROVE HasFreeList(memo'[x], InUse(x)')
    <3>1. HasFreeList(memo[x], InUse(x)) /\ InUse(x)' = InUse(x) /\ memo'[x] = memo[x]
      BY <1>4, <1>8 DEF IInv, Memos, FreeLists
    <3> QED BY <3>1
  <2>3. \A x \in Workers : HasFreeList(memo'[x], InUse(x)')
    BY <2>1, <2>2
  <2> QED BY <2>3 DEF FreeLists
<1>10. MemoConsistent'
  <2>1. ASSUME NEW p \in Objects, pc'[p] # "none"
        PROVE  /\ Slot(memo'[WorkerOf[p]], dict_id'[p]) = Dict
               /\ key_id'[p] > 0 => Slot(memo'[WorkerOf[p]], key_id'[p]) = key'[p]
    <3>1. /\ pc[p] # "none" /\ WorkerOf[p] \in Workers /\ dict_id'[p] = dict_id[p]
      BY <1>1, <1>5, <1>6, <2>1
    <3>2. /\ Slot(memo[WorkerOf[p]], dict_id[p]) = Dict
          /\ key_id[p] > 0 => Slot(memo[WorkerOf[p]], key_id[p]) = key[p]
      BY <3>1 DEF IInv, Memos, MemoConsistent
    <3>3. /\ dict_id[p] \in InUse(WorkerOf[p])
          /\ key_id[p] > 0 => key_id[p] \in InUse(WorkerOf[p])
      BY <3>1, InUseFacts
    <3>4. Slot(memo'[WorkerOf[p]], dict_id'[p]) = Dict
      BY <1>3, <1>4, <3>1, <3>2, <3>3
    <3>5. CASE p = o
      BY <1>1, <1>3, <1>4, <1>5, <3>4, <3>5 DEF CallsTyped
    <3>6. CASE p # o
      BY <1>3, <1>4, <1>6, <3>1, <3>2, <3>3, <3>4, <3>6
    <3> QED BY <3>5, <3>6
  <2>2. ASSUME NEW p \in Objects, pc'[p] # "none", NEW q \in Objects \ {p},
               pc'[q] # "none", WorkerOf[q] = WorkerOf[p]
        PROVE  dict_id'[q] # dict_id'[p] /\ (key_id'[p] > 0 => key_id'[q] # key_id'[p])
    <3>1. pc[p] # "none" /\ pc[q] # "none"
      BY <1>6, <2>2
    <3>2. dict_id[q] # dict_id[p] /\ (key_id[p] > 0 => key_id[q] # key_id[p])
      BY <2>2, <3>1 DEF IInv, Memos, MemoConsistent
    <3>3. /\ key_id[p] > 0 => key_id[p] \in InUse(WorkerOf[p])
          /\ key_id[q] > 0 => key_id[q] \in InUse(WorkerOf[p])
      BY <2>2, InUseFacts
    <3> QED BY <1>3, <1>5, <1>6, <2>2, <3>2, <3>3
  <2> QED BY <2>1, <2>2 DEF MemoConsistent
<1> QED BY <1>4, <1>9, <1>10 DEF Memos

\* No reference of an object is one of another, nor both of its own the same.
LEMMA RefsApart ==
    ASSUME IInv, NEW o \in Objects, pc[o] # "none",
           NEW p \in Objects, pc[p] # "none", WorkerOf[p] = WorkerOf[o]
    PROVE  /\ p # o => dict_id[p] # dict_id[o]
           /\ p # o /\ key_id[o] > 0 => key_id[p] # key_id[o]
           /\ key_id[o] > 0 => dict_id[p] # key_id[o]
<1>1. p # o => dict_id[p] # dict_id[o] /\ (key_id[o] > 0 => key_id[p] # key_id[o])
  BY DEF IInv, Memos, MemoConsistent
<1>2. Slot(memo[WorkerOf[o]], dict_id[p]) = Dict
  BY DEF IInv, Memos, MemoConsistent
<1>3. key_id[o] > 0 => Slot(memo[WorkerOf[o]], key_id[o]) \in Keys
  BY DEF IInv, Memos, MemoConsistent, HeldBetweenCalls
<1> QED BY <1>1, <1>2, <1>3

\* Of references given back: those that stay are as they were.
LEMMA UnrefMemos ==
    ASSUME IInv, CallsTyped', NEW w \in Workers, DOMAIN memo' = Workers,
           \A x \in Workers \ {w} : memo'[x] = memo[x] /\ InUse(x)' = InUse(x),
           \A p \in Objects : pc'[p] # "none" => pc[p] # "none" /\ dict_id'[p] = dict_id[p],
           \A p \in Objects : (pc'[p] # "none" /\ key_id'[p] > 0)
                                => key_id'[p] = key_id[p] /\ key'[p] = key[p],
           HasFreeList(memo'[w], InUse(w)'),
           \A u \in InUse(w)' : Slot(memo'[w], u) = Slot(memo[w], u)
    PROVE  Memos'
<1>2. FreeLists'
  <2>2. ASSUME NEW x \in Workers \ {w} PROVE HasFreeList(memo'[x], InUse(x)')
    <3>1. HasFreeList(memo[x], InUse(x)) /\ InUse(x)' = InUse(x) /\ memo'[x] = memo[x]
      BY DEF IInv, Memos, FreeLists
    <3> QED BY <3>1
  <2>3. \A x \in Workers : HasFreeList(memo'[x], InUse(x)')
    BY <2>2
  <2> QED BY <2>3 DEF FreeLists
<1>3. ASSUME NEW p \in Objects, pc'[p] # "none"
      PROVE  /\ Slot(memo'[WorkerOf[p]], dict_id'[p]) = Dict
             /\ key_id'[p] > 0 => Slot(memo'[WorkerOf[p]], key_id'[p]) = key'[p]
  <2>1. /\ Slot(memo[WorkerOf[p]], dict_id[p]) = Dict
        /\ key_id[p] > 0 => Slot(memo[WorkerOf[p]], key_id[p]) = key[p]
        /\ WorkerOf[p] \in Workers
    BY <1>3 DEF IInv, Memos, MemoConsistent
  <2>2. /\ dict_id'[p] \in InUse(WorkerOf[p])'
        /\ key_id'[p] > 0 => key_id'[p] \in InUse(WorkerOf[p])'
    BY <1>3 DEF CallsTyped, InUse, Refs
  <2>3. \A u \in InUse(WorkerOf[p])' : Slot(memo'[WorkerOf[p]], u) = Slot(memo[WorkerOf[p]], u)
    BY <2>1
  <2> QED BY <1>3, <2>1, <2>2, <2>3
<1>4. ASSUME NEW p \in Objects, pc'[p] # "none", NEW q \in Objects \ {p},
             pc'[q] # "none", WorkerOf[q] = WorkerOf[p]
      PROVE  dict_id'[q] # dict_id'[p] /\ (key_id'[p] > 0 => key_id'[q] # key_id'[p])
  <2>1. pc[p] # "none" /\ pc[q] # "none" /\ dict_id'[p] = dict_id[p] /\ dict_id'[q] = dict_id[q]
    BY <1>4
  <2>2. dict_id[q] # dict_id[p] /\ (key_id[p] > 0 => key_id[q] # key_id[p])
    BY <1>4, <2>1, RefsApart
  <2> QED BY <1>4, <2>1, <2>2
<1>5. MemoConsistent'
  BY <1>3, <1>4 DEF MemoConsistent
<1> QED BY <1>2, <1>5 DEF Memos

LEMMA UnlockMemos ==
    ASSUME IInv, CallsTyped', NEW o \in Objects, Unlock(o)
    PROVE  Memos'
<1> DEFINE w == WorkerOf[o]
           m == memo[w]
           r == key_id[o]
           m2 == UnrefObj(m, r)
<1>1. CallsTyped /\ w \in Workers /\ pc[o] # "none" /\ r > 0
  BY DEF IInv, Unlock
<1>2. /\ key_id' = [key_id EXCEPT ![o] = 0] /\ memo' = [memo EXCEPT ![w] = m2]
      /\ UNCHANGED <<pc, dict_id, key>>
  BY DEF Unlock, Release
<1>3. HasFreeList(m, InUse(w)) /\ r \in InUse(w)
  BY <1>1, InUseFacts DEF IInv, Memos, FreeLists
<1>4. HasFreeList(m2, InUse(w) \ {r}) /\ \A u \in InUse(w) \ {r} : Slot(m2, u) = Slot(m, u)
  BY <1>3, UnrefFacts
<1> HIDE DEF m2
<1>5. key_id'[o] = 0 /\ \A p \in Objects \ {o} : key_id'[p] = key_id[p]
  BY <1>1, <1>2 DEF CallsTyped
<1>6. \A p \in Objects : (pc[p] # "none" /\ WorkerOf[p] = w)
                         => dict_id[p] # r /\ (p # o => key_id[p] # r)
  BY <1>1, RefsApart
<1>7. InUse(w)' = InUse(w) \ {r}
  BY <1>1, <1>2, <1>5, <1>6 DEF InUse
<1>8. \A x \in Workers \ {w} : InUse(x)' = InUse(x)
  BY <1>2, <1>5 DEF InUse
<1>9. \A p \in Objects : /\ pc'[p] # "none" => pc[p] # "none" /\ dict_id'[p] = dict_id[p]
                         /\ pc'[p] # "none" /\ key_id'[p] > 0
                            => key_id'[p] = key_id[p] /\ key'[p] = key[p]
  BY <1>2, <1>5
<1>10. /\ DOMAIN memo' = Workers /\ memo'[w] = m2
       /\ \A x \in Workers \ {w} : memo'[x] = memo[x]
  BY <1>1, <1>2 DEF IInv, Memos
<1> QED BY <1>1, <1>4, <1>7, <1>8, <1>9, <1>10, UnrefMemos

LEMMA CollectMemos ==
    ASSUME IInv, CallsTyped', NEW o \in Objects, Collect(o)
    PROVE  Memos'
<1> DEFINE w == WorkerOf[o]
           m == memo[w]
           m1 == IF key_id[o] > 0 THEN UnrefObj(m, key_id[o]) ELSE m
           m2 == UnrefObj(m1, dict_id[o])
           kept == IF key_id[o] > 0 THEN InUse(w) \ {key_id[o]} ELSE InUse(w)
<1>1. CallsTyped /\ w \in Workers /\ pc[o] # "none" /\ key_id[o] \in Nat
  BY DEF IInv, Collect, CallsTyped
<1>2. /\ pc' = [pc EXCEPT ![o] = "none"] /\ memo' = [memo EXCEPT ![w] = m2]
      /\ dict_id' = [dict_id EXCEPT ![o] = 0] /\ key' = [key EXCEPT ![o] = Nil]
      /\ key_id' = [key_id EXCEPT ![o] = 0]
  <2>1. CASE key_id[o] > 0
    BY <2>1 DEF Collect, Release
  <2>2. CASE key_id[o] = 0
    BY <1>1, <2>2 DEF Collect, CallsTyped
  <2> QED BY <1>1, <2>1, <2>2
<1>3. HasFreeList(m, InUse(w)) /\ dict_id[o] \in InUse(w)
      /\ (key_id[o] > 0 => key_id[o] \in InUse(w) /\ dict_id[o] # key_id[o])
  BY <1>1, InUseFacts, RefsApart DEF IInv, Memos, FreeLists
<1>4. HasFreeList(m1, kept) /\ \A u \in kept : Slot(m1, u) = Slot(m, u)
  BY <1>3, UnrefFacts
<1>5. dict_id[o] \in kept
  BY <1>3
<1> HIDE DEF m1, kept
<1>6. /\ HasFreeList(m2, kept \ {dict_id[o]})
      /\ \A u \in kept \ {dict_id[o]} : Slot(m2, u) = Slot(m1, u)
  <2>1. HasFreeList(m1, kept)
    BY <1>4
  <2>2. \A r \in kept : /\ HasFreeList(UnrefObj(m1, r), kept \ {r})
                        /\ \A u \in kept \ {r} : Slot(UnrefObj(m1, r), u) = Slot(m1, u)
    BY <2>1, UnrefFacts
  <2> QED BY <1>5, <2>2
<1> HIDE DEF m2
<1>7. pc'[o] = "none" /\ \A p \in Objects \ {o} :
        pc'[p] = pc[p] /\ dict_id'[p] = dict_id[p] /\ key_id'[p] = key_id[p] /\ key'[p] = key[p]
  BY <1>1, <1>2 DEF CallsTyped
<1>8. \A p \in Objects \ {o} : (pc[p] # "none" /\ WorkerOf[p] = w)
        => /\ dict_id[p] # dict_id[o] /\ (key_id[p] > 0 => dict_id[o] # key_id[p])
           /\ key_id[o] > 0 => dict_id[p] # key_id[o] /\ key_id[p] # key_id[o]
  BY <1>1, RefsApart
<1>9. InUse(w)' = kept \ {dict_id[o]}
  <2>1. ASSUME NEW x \in InUse(w)' PROVE x \in kept \ {dict_id[o]}
    <3>1. PICK p \in Objects \ {o} :
             /\ pc[p] # "none" /\ WorkerOf[p] = w
             /\ x = dict_id[p] \/ (key_id[p] > 0 /\ x = key_id[p])
      BY <1>7 DEF InUse
    <3>2. x \in InUse(w)
      BY <3>1 DEF InUse
    <3> QED BY <1>8, <3>1, <3>2 DEF kept
  <2>2. ASSUME NEW x \in kept \ {dict_id[o]} PROVE x \in InUse(w)'
    <3>1. PICK p \in Objects :
             /\ pc[p] # "none" /\ WorkerOf[p] = w
             /\ x = dict_id[p] \/ (key_id[p] > 0 /\ x = key_id[p])
      BY <2>2 DEF InUse, kept
    <3>2. p # o /\ x \in Refs
      BY <2>2, <3>1 DEF InUse, kept
    <3> QED BY <1>7, <3>1, <3>2 DEF InUse
  <2> QED BY <2>1, <2>2
<1>10. \A x \in Workers \ {w} : InUse(x)' = InUse(x)
  BY <1>7 DEF InUse
<1>11. \A u \in kept \ {dict_id[o]} : Slot(m2, u) = Slot(m, u)
  BY <1>4, <1>6
<1>12. \A p \in Objects : /\ pc'[p] # "none" => pc[p] # "none" /\ dict_id'[p] = dict_id[p]
                          /\ pc'[p] # "none" /\ key_id'[p] > 0
                             => key_id'[p] = key_id[p] /\ key'[p] = key[p]
  BY <1>7
<1>13. /\ DOMAIN memo' = Workers /\ memo'[w] = m2
       /\ \A x \in Workers \ {w} : memo'[x] = memo[x]
  BY <1>1, <1>2 DEF IInv, Memos
<1> QED BY <1>1, <1>6, <1>9, <1>10, <1>11, <1>12, <1>13, UnrefMemos

LEMMA EmptyHasFreeList == HasFreeList(Empty, {})
<1> DEFINE s == [i \in 1..0 |-> 1]
<1>1. DOMAIN Empty = {} /\ IsFiniteSet({})
  BY FS_EmptySet DEF Empty
<1>2. s \in [1..0 -> Refs]
  BY DEF Refs
<1>3. Linked(Empty, {}, 0, s)
  BY <1>1 DEF Linked
<1> QED BY <1>2, <1>3 DEF HasFreeList

LEMMA CrashMemos ==
    ASSUME IInv, CallsTyped', NEW w \in Workers, Crash(w)
    PROVE  Memos'
<1>1. memo' = [memo EXCEPT ![w] = Empty]
  BY DEF Crash
<1>2. /\ \A p \in Objects : WorkerOf[p] = w => pc'[p] = "none"
      /\ \A p \in Objects : WorkerOf[p] # w =>
            /\ pc'[p] = pc[p] /\ dict_id'[p] = dict_id[p]
            /\ key_id'[p] = key_id[p] /\ key'[p] = key[p]
  BY DEF Crash
<1>3. InUse(w)' = {}
  BY <1>2 DEF InUse
<1>4. \A x \in Workers \ {w} : InUse(x)' = InUse(x)
  BY <1>2 DEF InUse
<1>5. HasFreeList(Empty, InUse(w)')
  BY <1>3, EmptyHasFreeList
<1>6. \A p \in Objects : /\ pc'[p] # "none" => pc[p] # "none" /\ dict_id'[p] = dict_id[p]
                         /\ pc'[p] # "none" /\ key_id'[p] > 0
                            => key_id'[p] = key_id[p] /\ key'[p] = key[p]
  BY <1>2
<1>7. \A u \in InUse(w)' : Slot(Empty, u) = Slot(memo[w], u)
  BY <1>3
<1>8. /\ DOMAIN memo' = Workers /\ memo'[w] = Empty
      /\ \A x \in Workers \ {w} : memo'[x] = memo[x]
  BY <1>1 DEF IInv, Memos
<1> QED BY <1>4, <1>5, <1>6, <1>7, <1>8, UnrefMemos

LEMMA MemosStep ==
    ASSUME IInv, CallsTyped', [Next]_vars
    PROVE  Memos'
<1>0. CallsTyped /\ HeldBetweenCalls
  BY DEF IInv
<1>1. ASSUME NEW o \in Objects, NEW k \in Keys, LockAtOnce(o, k) PROVE Memos'
  BY <1>1, AcquireMemos DEF LockAtOnce
<1>2. ASSUME NEW o \in Objects, WakeFree(o) PROVE Memos'
  <2>1. key[o] \in Keys /\ key_id[o] = 0 /\ pc[o] # "none"
    BY <1>0, <1>2 DEF WakeFree, HeldBetweenCalls
  <2> QED BY <1>2, <2>1, AcquireMemos DEF WakeFree
<1>3. ASSUME NEW o \in Objects, NEW k \in Keys, LockBusy(o, k) PROVE Memos'
  BY <1>0, <1>3, MemosKept DEF LockBusy, CallsTyped
<1>4. ASSUME NEW o \in Objects, WakeBusy(o) \/ AddFails(o) \/ Abandon(o) PROVE Memos'
  <2>1. UNCHANGED <<memo, dict_id, key_id, key>> /\ pc[o] = "sleeping"
        /\ (pc' = pc \/ pc' = [pc EXCEPT ![o] = "idle"])
    BY <1>4 DEF WakeBusy, AddFails, Abandon
  <2>2. \A q \in Objects : pc'[q] # "none" <=> pc[q] # "none"
    BY <1>0, <2>1 DEF CallsTyped
  <2> QED BY <2>1, <2>2, MemosKept
<1>5. ASSUME NEW o \in Objects, Expire(o) PROVE Memos'
  BY <1>5, MemosKept DEF Expire, callVars
<1>6. ASSUME Tick \/ UNCHANGED vars PROVE Memos'
  BY <1>6, MemosKept DEF Tick, vars
<1> QED BY <1>1, <1>2, <1>3, <1>4, <1>5, <1>6, NewMemos, UnlockMemos, CollectMemos, CrashMemos
        DEF Next, Step, Wake

----------------------------------------------------------------------------
(* Who holds which lock.                                                   *)

LEMMA HeldStep ==
    ASSUME IInv, CallsTyped', [Next]_vars
    PROVE  HeldBetweenCalls'
<1> USE DEF HeldBetweenCalls
<1>0. CallsTyped /\ HeldBetweenCalls
  BY DEF IInv
<1>1. ASSUME NEW o \in Objects, NEW opt \in Options, New(o, opt) PROVE HeldBetweenCalls'
  BY <1>0, <1>1 DEF New, CallsTyped
<1>2. ASSUME NEW o \in Objects, NEW k \in Keys, Acquire(o, k) PROVE HeldBetweenCalls'
  BY <1>0, <1>2 DEF Acquire, CallsTyped
<1>3. ASSUME NEW o \in Objects, NEW k \in Keys, LockAtOnce(o, k) PROVE HeldBetweenCalls'
  BY <1>2, <1>3 DEF LockAtOnce
<1>4. ASSUME NEW o \in Objects, WakeFree(o) PROVE HeldBetweenCalls'
  BY <1>0, <1>2, <1>4 DEF WakeFree
<1>5. ASSUME NEW o \in Objects, NEW k \in Keys, LockBusy(o, k) PROVE HeldBetweenCalls'
  BY <1>0, <1>5 DEF LockBusy, CallsTyped
<1>6. ASSUME NEW o \in Objects, WakeBusy(o) \/ AddFails(o) \/ Abandon(o)
      PROVE  HeldBetweenCalls'
  <2>1. UNCHANGED <<key_id, key>> /\ pc[o] = "sleeping"
        /\ (pc' = pc \/ pc' = [pc EXCEPT ![o] = "idle"])
    BY <1>6 DEF WakeBusy, AddFails, Abandon
  <2> QED BY <1>0, <2>1 DEF CallsTyped
<1>7. ASSUME NEW o \in Objects, Unlock(o) PROVE HeldBetweenCalls'
  BY <1>0, <1>7 DEF Unlock, Release, CallsTyped
<1>8. ASSUME NEW o \in Objects, Expire(o) PROVE HeldBetweenCalls'
  BY <1>0, <1>8 DEF Expire, callVars
<1>9. ASSUME NEW o \in Objects, Collect(o) PROVE HeldBetweenCalls'
  <2>1. /\ pc' = [pc EXCEPT ![o] = "none"] /\ key' = [key EXCEPT ![o] = Nil]
        /\ key_id' = [key_id EXCEPT ![o] = 0]
    <3>1. CASE key_id[o] > 0
      BY <1>9, <3>1 DEF Collect, Release
    <3>2. CASE key_id[o] = 0
      BY <1>0, <1>9, <3>2 DEF Collect, CallsTyped
    <3> QED BY <1>0, <3>1, <3>2 DEF CallsTyped
  <2> QED BY <1>0, <2>1 DEF CallsTyped
<1>10. ASSUME NEW w \in Workers, Crash(w) PROVE HeldBetweenCalls'
  BY <1>0, <1>10 DEF Crash
<1>11. ASSUME Tick \/ UNCHANGED vars PROVE HeldBetweenCalls'
  BY <1>0, <1>11 DEF Tick, vars
<1> QED BY <1>1, <1>3, <1>4, <1>5, <1>6, <1>7, <1>8, <1>9, <1>10, <1>11 DEF Next, Step, Wake

\* Steps that take, free and age no lock.
LEMMA LeasesKept ==
    ASSUME IInv, UNCHANGED <<store, key_id, lease, misused, evicted>>,
           \A o \in Objects : key_id[o] > 0 => key'[o] = key[o]
    PROVE  LeaseBacked' /\ Alone'
BY DEF IInv, LeaseBacked, Alone

\* add takes a key only after the lease of its last holder.
LEMMA AcquireLeases ==
    ASSUME IInv, NEW o \in Objects, NEW k \in Keys, pc[o] # "none", Acquire(o, k)
    PROVE  LeaseBacked' /\ Alone'
<1>1. CASE evicted' = TRUE \/ misused
  BY <1>1 DEF LeaseBacked, Alone, Acquire
<1>2. CASE ~(evicted' = TRUE \/ misused)
  <2> DEFINE e == conf[o].exptime
  <2>1. /\ store' = Put(store, k, e) /\ evicted' = evicted /\ Free(k)
        /\ lease' = [lease EXCEPT ![o] = e] /\ key' = [key EXCEPT ![o] = k]
        /\ \A p \in Objects \ {o} : key_id'[p] = key_id[p]
    BY <1>2 DEF Acquire, Add, IInv, CallsTyped
  <2>2. e \in Nat
    BY DEF IInv, CallsTyped, Conf
  <2>3. ~misused /\ ~evicted /\ CallsTyped /\ StoreTyped
    BY <1>2, <2>1 DEF IInv, CallsTyped
  <2> HIDE DEF e
  <2>4. \A p \in Objects : key_id[p] > 0 /\ lease[p] > 0 =>
            key[p] \in DOMAIN store /\ store[key[p]] >= lease[p] /\ key[p] # k
    BY <2>1, <2>3 DEF IInv, LeaseBacked, Free, CallsTyped, StoreTyped
  <2>5. LeaseBacked'
    BY <2>1, <2>2, <2>3, <2>4 DEF LeaseBacked, Put, CallsTyped
  <2>6. Alone'
    BY <2>1, <2>3, <2>4 DEF IInv, Alone, CallsTyped
  <2> QED BY <2>5, <2>6
<1> QED BY <1>1, <1>2

\* What the reference of a held lock stands for.
LEMMA ReleasedKey ==
    ASSUME IInv, NEW o \in Objects, key_id[o] > 0
    PROVE  memo[WorkerOf[o]][key_id[o]] = key[o]
<1>1. Slot(memo[WorkerOf[o]], key_id[o]) = key[o] /\ key[o] \in Keys
  BY DEF IInv, Memos, MemoConsistent, HeldBetweenCalls
<1> QED BY <1>1 DEF Slot

LEMMA ReleaseLeases ==
    ASSUME IInv, NEW o \in Objects, key_id[o] > 0, Release(o, memo[WorkerOf[o]]),
           UNCHANGED evicted, \A p \in Objects \ {o} : key'[p] = key[p]
    PROVE  LeaseBacked' /\ Alone'
<1>1. CASE misused' \/ evicted
  BY <1>1 DEF LeaseBacked, Alone
<1>2. CASE ~(misused' \/ evicted)
  <2>1. /\ ~misused /\ ~evicted /\ lease[o] > 0
        /\ CallsTyped
    <3>1. ~misused /\ ~evicted /\ ~Stale(o)
      BY <1>2, Zenon DEF Release
    <3> QED BY <3>1 DEF Stale, IInv, CallsTyped
  <2>2. /\ store' = Drop(store, key[o])
        /\ key_id' = [key_id EXCEPT ![o] = 0] /\ lease' = [lease EXCEPT ![o] = 0]
    BY ReleasedKey DEF Release
  <2>3. \A p \in Objects \ {o} : key_id'[p] = key_id[p] /\ lease'[p] = lease[p]
    BY <2>1, <2>2 DEF CallsTyped
  <2>4. key_id'[o] = 0
    BY <2>1, <2>2 DEF CallsTyped
  <2>5. \A p \in Objects \ {o} : key_id[p] > 0 /\ lease[p] > 0 =>
            key[p] \in DOMAIN store /\ store[key[p]] >= lease[p] /\ key[p] # key[o]
    BY <2>1 DEF IInv, LeaseBacked, Alone
  <2>6. LeaseBacked'
    BY <2>2, <2>3, <2>4, <2>5 DEF LeaseBacked, Drop
  <2>7. Alone'
    BY <2>1, <2>3, <2>4 DEF IInv, Alone
  <2> QED BY <2>6, <2>7
<1> QED BY <1>1, <1>2

LEMMA ExpireLeases ==
    ASSUME IInv, NEW o \in Objects, Expire(o)
    PROVE  LeaseBacked' /\ Alone'
<1>1. CASE misused' \/ evicted
  BY <1>1 DEF LeaseBacked, Alone, Expire
<1>2. CASE ~(misused' \/ evicted)
  <2>1. /\ ~misused /\ ~evicted /\ lease[o] > 0 /\ key_id[o] > 0
        /\ CallsTyped
    <3>1. ~misused /\ ~evicted /\ ~Stale(o)
      BY <1>2, Zenon DEF Expire
    <3> QED BY <3>1 DEF Expire, Stale, IInv, CallsTyped
  <2>2. PICK time \in ExpireTimes \cup {conf[o].exptime} :
            store' = Put(store, key[o], time) /\ lease' = [lease EXCEPT ![o] = time]
    BY DEF Expire
  <2>3. time \in Nat /\ UNCHANGED <<key_id, key>>
    BY <2>1 DEF Expire, callVars, CallsTyped, Conf
  <2>4. \A p \in Objects \ {o} : key_id[p] > 0 /\ lease[p] > 0 =>
            key[p] \in DOMAIN store /\ store[key[p]] >= lease[p] /\ key[p] # key[o]
    BY <2>1 DEF IInv, LeaseBacked, Alone
  <2>5. \A p \in Objects \ {o} : lease'[p] = lease[p]
    BY <2>1, <2>2 DEF CallsTyped
  <2>6. lease'[o] = time
    BY <2>1, <2>2 DEF CallsTyped
  <2>7. LeaseBacked'
    BY <2>2, <2>3, <2>4, <2>5, <2>6 DEF LeaseBacked, Put
  <2>8. Alone'
    BY <2>1, <2>3, <2>5 DEF IInv, Alone
  <2> QED BY <2>7, <2>8
<1> QED BY <1>1, <1>2

LEMMA LeasesStep ==
    ASSUME IInv, CallsTyped', [Next]_vars
    PROVE  LeaseBacked' /\ Alone'
<1>0. CallsTyped /\ StoreTyped /\ HeldBetweenCalls
  BY DEF IInv
<1>1. ASSUME NEW o \in Objects, NEW opt \in Options, New(o, opt) PROVE LeaseBacked' /\ Alone'
  BY <1>1, LeasesKept DEF New
<1>2. ASSUME NEW o \in Objects, NEW k \in Keys, LockAtOnce(o, k)
      PROVE  LeaseBacked' /\ Alone'
  BY <1>2, AcquireLeases DEF LockAtOnce
<1>3. ASSUME NEW o \in Objects, WakeFree(o) PROVE LeaseBacked' /\ Alone'
  <2>1. key[o] \in Keys /\ pc[o] # "none"
    BY <1>0, <1>3 DEF WakeFree, HeldBetweenCalls
  <2> QED BY <1>3, <2>1, AcquireLeases DEF WakeFree
<1>4. ASSUME NEW o \in Objects, NEW k \in Keys, LockBusy(o, k) PROVE LeaseBacked' /\ Alone'
  BY <1>0, <1>4, LeasesKept DEF LockBusy, CallsTyped
<1>5. ASSUME NEW o \in Objects, WakeBusy(o) \/ AddFails(o) \/ Abandon(o)
      PROVE  LeaseBacked' /\ Alone'
  BY <1>5, LeasesKept DEF WakeBusy, AddFails, Abandon
<1>6. ASSUME NEW o \in Objects, Unlock(o) PROVE LeaseBacked' /\ Alone'
  BY <1>6, ReleaseLeases DEF Unlock
<1>7. ASSUME NEW o \in Objects, Collect(o) PROVE LeaseBacked' /\ Alone'
  <2>1. UNCHANGED evicted /\ key' = [key EXCEPT ![o] = Nil]
    BY <1>7 DEF Collect
  <2>2. CASE key_id[o] > 0
    BY <1>0, <1>7, <2>1, <2>2, ReleaseLeases DEF Collect, CallsTyped
  <2>3. CASE key_id[o] = 0
    BY <1>0, <1>7, <2>1, <2>3, LeasesKept DEF Collect, CallsTyped
  <2> QED BY <1>0, <2>2, <2>3 DEF CallsTyped
<1>8. ASSUME NEW w \in Workers, Crash(w) PROVE LeaseBacked' /\ Alone'
  <2>1. \A p \in Objects : key_id'[p] > 0 =>
            key_id'[p] = key_id[p] /\ key'[p] = key[p] /\ lease'[p] = lease[p]
    BY <1>8 DEF Crash
  <2>2. UNCHANGED <<store, misused, evicted>>
    BY <1>8 DEF Crash
  <2> QED BY <2>1, <2>2 DEF IInv, LeaseBacked, Alone
<1>9. ASSUME Tick PROVE LeaseBacked' /\ Alone'
  <2>1. \A p \in Objects : lease'[p] > 0 => lease[p] > 0 /\ lease'[p] = lease[p] - 1
    BY <1>0, <1>9 DEF Tick, Greater, CallsTyped
  <2>2. \A k \in DOMAIN store : store[k] > 0 => k \in DOMAIN store' /\ store'[k] = store[k] - 1
    BY <1>9 DEF Tick, Aged
  <2>3. UNCHANGED <<key_id, key, misused, evicted>>
    BY <1>9 DEF Tick
  <2>4. LeaseBacked'
    BY <1>0, <2>1, <2>2, <2>3 DEF IInv, LeaseBacked, CallsTyped, StoreTyped
  <2>5. Alone'
    BY <2>1, <2>3 DEF IInv, Alone
  <2> QED BY <2>4, <2>5
<1>10. ASSUME UNCHANGED vars PROVE LeaseBacked' /\ Alone'
  BY <1>10, LeasesKept DEF vars
<1> QED BY <1>1, <1>2, <1>3, <1>4, <1>5, <1>6, <1>7, <1>8, <1>9, <1>10, ExpireLeases
        DEF Next, Step, Wake

----------------------------------------------------------------------------
(* How long lock waits.                                                    *)

\* Steps after which nobody sleeps who did not sleep so before.
LEMMA WaitsKept ==
    ASSUME IInv,
           \A o \in Objects : pc'[o] = "sleeping" =>
               /\ pc[o] = "sleeping" /\ conf'[o] = conf[o]
               /\ wait'[o].elapsed = wait[o].elapsed /\ wait'[o].left = wait[o].left
               /\ wait'[o].step = wait[o].step
    PROVE  Waiting'
BY DEF IInv, Waiting

LEMMA WaitingStep ==
    ASSUME IInv, CallsTyped', [Next]_vars
    PROVE  Waiting'
<1>0. CallsTyped /\ Waiting
  BY DEF IInv
<1>1. ASSUME NEW o \in Objects, NEW k \in Keys, LockBusy(o, k) PROVE Waiting'
  <2>1. /\ wait'[o] = [left |-> conf[o].timeout, step |-> conf[o].step,
                       elapsed |-> 0, nap |-> conf[o].step]
        /\ conf'[o] = conf[o] /\ conf[o].timeout \in Nat
        /\ \A p \in Objects \ {o} : pc'[p] = pc[p] /\ wait'[p] = wait[p] /\ conf'[p] = conf[p]
    BY <1>0, <1>1 DEF LockBusy, CallsTyped, Conf
  <2> QED BY <1>0, <2>1 DEF Waiting
<1>2. ASSUME NEW o \in Objects, WakeBusy(o) PROVE Waiting'
  <2> DEFINE left == wait[o].left - wait[o].step
             step == NextStep(wait[o].step, left)
  <2>1. left \in Int /\ wait[o].step \in Nat /\ wait[o].elapsed \in Nat /\ wait[o].left \in Nat
    BY <1>0 DEF CallsTyped
  <2>2. left > 0 => step \in Nat /\ step <= left
    BY <2>1, NextStepFacts
  <2>3. \A p \in Objects \ {o} : pc'[p] = pc[p] /\ wait'[p] = wait[p] /\ conf'[p] = conf[p]
    BY <1>0, <1>2 DEF WakeBusy, CallsTyped
  <2>4. CASE left > 0 /\ wait' = [wait EXCEPT ![o] =
                [left |-> left, step |-> step, nap |-> step,
                 elapsed |-> wait[o].elapsed + wait[o].step]]
    <3> HIDE DEF step
    <3>1. /\ wait'[o].left = left /\ wait'[o].step = step
          /\ wait'[o].elapsed = wait[o].elapsed + wait[o].step
      BY <1>0, <2>4 DEF CallsTyped
    <3>2. pc[o] = "sleeping" /\ conf'[o] = conf[o]
      BY <1>2 DEF WakeBusy
    <3>3. wait[o].elapsed + wait[o].left = conf[o].timeout
      BY <1>0, <3>2 DEF Waiting
    <3>4. wait'[o].elapsed + wait'[o].left = conf'[o].timeout
      BY <2>1, <3>1, <3>2, <3>3
    <3> QED BY <1>0, <2>2, <2>3, <2>4, <3>1, <3>4 DEF Waiting
  <2>5. CASE pc' = [pc EXCEPT ![o] = "idle"]
    BY <1>0, <2>3, <2>5 DEF Waiting, CallsTyped
  <2> QED BY <1>2, <2>4, <2>5 DEF WakeBusy
<1>3. ASSUME NEW o \in Objects, NEW k, Acquire(o, k) PROVE Waiting'
  BY <1>0, <1>3, WaitsKept DEF Acquire, CallsTyped
<1>4. ASSUME NEW o \in Objects, NEW opt \in Options, New(o, opt) PROVE Waiting'
  BY <1>0, <1>4, WaitsKept DEF New, CallsTyped
<1>5. ASSUME NEW o \in Objects, AddFails(o) \/ Abandon(o) PROVE Waiting'
  <2>1. pc' = [pc EXCEPT ![o] = "idle"] /\ wait' = [wait EXCEPT ![o] = NoWait] /\ conf' = conf
    BY <1>5 DEF AddFails, Abandon
  <2> QED BY <1>0, <2>1, WaitsKept DEF CallsTyped
<1>6. ASSUME NEW o \in Objects, Unlock(o) \/ Expire(o) PROVE Waiting'
  BY <1>6, WaitsKept DEF Unlock, Expire, callVars
<1>7. ASSUME NEW o \in Objects, Collect(o) PROVE Waiting'
  BY <1>0, <1>7, WaitsKept DEF Collect, CallsTyped
<1>8. ASSUME NEW w \in Workers, Crash(w) PROVE Waiting'
  BY <1>8, WaitsKept DEF Crash
<1>9. ASSUME Tick PROVE Waiting'
  <2>1. \A o \in Objects : /\ wait'[o].elapsed = wait[o].elapsed
                           /\ wait'[o].left = wait[o].left /\ wait'[o].step = wait[o].step
    BY <1>0, <1>9 DEF Tick, CallsTyped
  <2> QED BY <1>9, <2>1, WaitsKept DEF Tick
<1>10. ASSUME UNCHANGED vars PROVE Waiting'
  BY <1>10, WaitsKept DEF vars
<1> QED BY <1>1, <1>2, <1>3, <1>4, <1>5, <1>6, <1>7, <1>8, <1>9, <1>10
        DEF Next, Step, Wake, LockAtOnce, WakeFree

----------------------------------------------------------------------------
(* Theorems.                                                               *)

LEMMA Initially == Init => IInv
<1> SUFFICES ASSUME Init PROVE IInv
  OBVIOUS
<1>1. CallsTyped
  BY DEF Init, CallsTyped, NoWait
<1>2. StoreTyped
  BY DEF Init, StoreTyped, Empty
<1>3. Memos
  <2>1. \A w \in Workers : InUse(w) = {}
    BY DEF Init, InUse
  <2>2. FreeLists
    BY <2>1, EmptyHasFreeList DEF Init, FreeLists
  <2> QED BY <2>2 DEF Init, Memos, MemoConsistent
<1> QED BY <1>1, <1>2, <1>3 DEF Init, IInv, HeldBetweenCalls, LeaseBacked, Alone, Waiting

LEMMA Inductive == IInv /\ [Next]_vars => IInv'
<1> SUFFICES ASSUME IInv, [Next]_vars PROVE IInv'
  OBVIOUS
<1>1. CallsTyped' /\ StoreTyped'
  BY TypedStep
<1>2. HeldBetweenCalls' /\ Memos' /\ LeaseBacked' /\ Alone' /\ Waiting'
  BY <1>1, HeldStep, MemosStep, LeasesStep, WaitingStep
<1> QED BY <1>1, <1>2 DEF IInv

LEMMA Invariant == Spec => []IInv
BY Initially, Inductive, PTL DEF Spec

\* The tables, the objects and the dictionary keep their types.
THEOREM TypesKept == Spec => []TypeOK
BY Invariant, InvariantTyped, PTL

\* Two objects never hold the same key within their leases, unless a lock was
\* released or extended after its lease or the dictionary evicted one.
THEOREM MutualExclusion == Spec => []Exclusive
<1>1. IInv => Exclusive
  BY DEF IInv, Alone, Exclusive, Holds
<1> QED BY <1>1, Invariant, PTL

\* ref_obj and unref_obj never give a reference to two objects and never change
\* what a reference in use stands for: unlock and the collector delete the key
\* that was locked.
THEOREM ReferencesApart == Spec => []MemoConsistent
<1>1. IInv => MemoConsistent
  BY DEF IInv, Memos
<1> QED BY <1>1, Invariant, PTL

\* A call of lock sleeps no longer than its timeout, or its first step.
THEOREM WaitBounded == Spec => []WaitWithinTimeout
<1>1. ASSUME IInv, NEW o \in Objects, pc[o] = "sleeping"
      PROVE  wait[o].elapsed + wait[o].step <= Greater(conf[o].timeout, conf[o].step)
  <2>1. /\ wait[o].elapsed \in Nat /\ wait[o].step \in Nat /\ wait[o].left \in Nat
        /\ conf[o].timeout \in Nat /\ conf[o].step \in Nat
    BY <1>1 DEF IInv, CallsTyped, Conf
  <2>2. /\ wait[o].elapsed + wait[o].left = conf[o].timeout
        /\ \/ wait[o].step <= wait[o].left
           \/ wait[o].elapsed = 0 /\ wait[o].step = conf[o].step
    BY <1>1 DEF IInv, Waiting
  <2> QED BY <2>1, <2>2 DEF Greater
<1>2. IInv => WaitWithinTimeout
  BY <1>1 DEF WaitWithinTimeout
<1> QED BY <1>2, Invariant, PTL
============================================================================
