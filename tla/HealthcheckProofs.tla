------------------------- MODULE HealthcheckProofs -------------------------
(***************************************************************************)
(* Theorems about Healthcheck.tla, for any number of workers and peers and *)
(* any fall and rise: types, that every verdict was earned, and that no    *)
(* worker silently disagrees with the shared verdicts.                     *)
(***************************************************************************)
EXTENDS Healthcheck, TLAPS

USE HealthcheckAssumption

CountingPcs == {"counted", "bumped", "judging"}

\* A worker that counts a result has a peer, and one that reads verdicts does so
\* for a version that was published.
StepsNamed ==
    \A w \in Workers :
        /\ ctx[w].pc \in CountingPcs => ctx[w].peer \in Peers
        /\ ctx[w].pc = "upgrading" => ctx[w].n \in Nat \ {0}

TypeInv == TypeOK /\ StepsNamed

\* The length of the row of r that a peer is in, negative if it is in the other.
Row(r, p) == IF r = "ok" THEN streak[p] ELSE -streak[p]

\* Between two results, a counter above zero counts no more than the row.
RowKept(p) == \A r \in Results : dict.count[r][p] >= 1 => Row(r, p) >= dict.count[r][p]

\* While w counts a result of p.  Until the other counter is reset, it may still
\* hold the row that this result has ended; a counter that was read as 1 or more
\* says that there is none.
RowCounted(w, p) ==
    LET c == ctx[w]
        mine == dict.count[c.result][p]
        others == dict.count[Other(c.result)][p]
        row == Row(c.result, p) IN
    /\ row >= 1
    /\ mine <= c.n
    /\ c.pc = "counted" => IF c.n = Missing THEN TRUE ELSE Succ(c.n) <= row
    /\ c.pc = "counted" /\ c.n >= 1 => others <= 0
    /\ c.pc \in {"bumped", "judging"} => c.n <= row
    /\ c.pc = "judging" => others <= 0

\* What counters and rows have to do with each other, unless two results of a
\* peer were counted at the same time.
RowsOf(p) ==
    /\ \A w, x \in Workers : Counting(w, p) /\ Counting(x, p) => w = x
    /\ (\A w \in Workers : ~Counting(w, p)) => RowKept(p)
    /\ \A w \in Workers : Counting(w, p) => RowCounted(w, p)

RowsInv == \A p \in Peers \ torn : RowsOf(p)

\* NoSilentDivergence is not inductive: the worker that publishes must itself
\* agree, so that its own announcement cannot be what excuses it.
AnnouncedByOthers ==
    \A w \in Workers :
        \/ Differ(ctx[w].down, dict.down) \subseteq excused \cup Unread(w)
        \/ Known(w) # dict.ver
        \/ \E x \in Workers \ {w} : ctx[x].new_version

----------------------------------------------------------------------------
\* The counters' bound is large enough for a verdict.
LEMMA CapFacts == Cap \in Nat /\ Cap >= 2 /\ Cap >= Fall /\ Cap >= Rise
<1>1. \E c \in {2, Fall, Rise} : \A d \in {2, Fall, Rise} : d <= c
  <2>1. Fall \in Nat /\ Rise \in Nat
    OBVIOUS
  <2>2. CASE 2 >= Fall /\ 2 >= Rise
    BY <2>1, <2>2
  <2>3. CASE Fall >= 2 /\ Fall >= Rise
    BY <2>1, <2>3
  <2>4. CASE Rise >= 2 /\ Rise >= Fall
    BY <2>1, <2>4
  <2> QED BY <2>1, <2>2, <2>3, <2>4
<1>2. Cap \in {2, Fall, Rise} /\ \A d \in {2, Fall, Rise} : d <= Cap
  BY <1>1 DEF Cap
<1> QED BY <1>2

\* Counting one further stays within the bound.
LEMMA SuccFacts ==
    ASSUME NEW n \in Int, n >= 0, n <= Cap
    PROVE  /\ Succ(n) \in 1..Cap
           /\ Succ(n) = IF n < Cap THEN n + 1 ELSE n
<1> USE CapFacts
<1> QED BY DEF Succ

----------------------------------------------------------------------------
\* The context of a worker: what TypeOK says of one.
Contexts ==
    [pc : {"idle", "upgrading", "begun", "checking", "counted", "bumped", "judging",
           "publishing", "stopped"},
     todo : SUBSET Peers, peer : Peers \cup {None}, result : Results, n : Int,
     version : Nat, new_version : BOOLEAN, down : SUBSET Peers]

Named(c) ==
    /\ c \in Contexts
    /\ c.pc \in CountingPcs => c.peer \in Peers
    /\ c.pc = "upgrading" => c.n \in Nat \ {0}

\* A step changes the context of one worker at most.
LEMMA ContextStep ==
    ASSUME TypeInv, NEW w \in Workers, NEW c, Named(c),
           ctx' = [ctx EXCEPT ![w] = c]
    PROVE  /\ ctx' \in [Workers -> Contexts]
           /\ \A x \in Workers : Named(ctx'[x])
<1>1. ctx \in [Workers -> Contexts] /\ \A x \in Workers : Named(ctx[x])
  BY DEF TypeInv, TypeOK, StepsNamed, Contexts, Named
<1>2. ctx' \in [Workers -> Contexts]
  BY <1>1 DEF Named
<1>3. \A x \in Workers : ctx'[x] = IF x = w THEN c ELSE ctx[x]
  BY <1>1
<1> QED BY <1>1, <1>2, <1>3

LEMMA InitTypeInv == Init => TypeInv
<1> SUFFICES ASSUME Init PROVE TypeInv
  OBVIOUS
<1>1. Cap \in Nat
  BY CapFacts
<1>2. dict \in [count : [Results -> [Peers -> Missing..Cap]], down : SUBSET Peers, ver : Nat]
  BY <1>1 DEF Init, Missing
<1>3. ctx \in [Workers -> Contexts] /\ \A w \in Workers : ctx[w].pc = "idle"
  BY DEF Init, Fresh, Contexts, Results
<1>4. streak \in [Peers -> -Cap..Cap]
  BY <1>1 DEF Init
<1> QED BY <1>2, <1>3, <1>4 DEF Init, TypeInv, TypeOK, StepsNamed, Contexts, CountingPcs

\* Everything but the contexts keeps its type where it is left alone.
Shared ==
    /\ dict \in [count : [Results -> [Peers -> Missing..Cap]], down : SUBSET Peers, ver : Nat]
    /\ lock \in Workers \cup {Nobody}
    /\ alive \subseteq Peers
    /\ streak \in [Peers -> -Cap..Cap]
    /\ torn \subseteq Peers /\ excused \subseteq Peers

LEMMA TypeInvParts ==
    /\ TypeInv => Shared
    /\ TypeInv => \A w \in Workers : ctx[w] \in Contexts /\ Named(ctx[w])
    /\ Shared' /\ ctx' \in [Workers -> Contexts] /\ (\A w \in Workers : Named(ctx'[w]))
         => TypeInv'
  BY DEF TypeInv, TypeOK, StepsNamed, Shared, Contexts, Named

\* A counter is changed.
LEMMA CountStep ==
    ASSUME Shared, NEW r \in Results, NEW p \in Peers, NEW v \in Missing..Cap,
           dict' = [dict EXCEPT !.count[r][p] = v]
    PROVE  /\ dict' \in [count : [Results -> [Peers -> Missing..Cap]], down : SUBSET Peers,
                         ver : Nat]
           /\ dict'.count[r][p] = v
           /\ \A s \in Results, q \in Peers :
                 (s # r \/ q # p) => dict'.count[s][q] = dict.count[s][q]
           /\ dict'.down = dict.down /\ dict'.ver = dict.ver
<1> DEFINE cnt == [dict.count EXCEPT ![r][p] = v]
<1>1. dict \in [count : [Results -> [Peers -> Missing..Cap]], down : SUBSET Peers, ver : Nat]
  BY DEF Shared
<1>2. cnt \in [Results -> [Peers -> Missing..Cap]] /\ cnt[r][p] = v
      /\ \A s \in Results, q \in Peers : (s # r \/ q # p) => cnt[s][q] = dict.count[s][q]
  BY <1>1
<1>3. dict' = [dict EXCEPT !.count = cnt]
  OBVIOUS
<1> HIDE DEF cnt
<1> QED BY <1>1, <1>2, <1>3

\* One field of a context is set.
LEMMA SetN ==
    ASSUME NEW e \in Contexts, NEW x \in Int
    PROVE  /\ [e EXCEPT !.n = x] \in Contexts
           /\ [e EXCEPT !.n = x].n = x
           /\ [e EXCEPT !.n = x].pc = e.pc /\ [e EXCEPT !.n = x].todo = e.todo
           /\ [e EXCEPT !.n = x].peer = e.peer /\ [e EXCEPT !.n = x].result = e.result
           /\ [e EXCEPT !.n = x].version = e.version /\ [e EXCEPT !.n = x].down = e.down
           /\ [e EXCEPT !.n = x].new_version = e.new_version
<1> DEFINE d == [e EXCEPT !.n = x]
<1>2. d.pc = e.pc /\ d.todo = e.todo /\ d.peer = e.peer /\ d.result = e.result
      /\ d.version = e.version /\ d.new_version = e.new_version /\ d.down = e.down
  BY DEF Contexts
<1>3. d.n = x
  BY DEF Contexts
<1>4. d = [pc |-> e.pc, todo |-> e.todo, peer |-> e.peer, result |-> e.result, n |-> x,
           version |-> e.version, new_version |-> e.new_version, down |-> e.down]
  BY DEF Contexts
<1> HIDE DEF d
<1>5. d \in Contexts
  BY <1>4 DEF Contexts
<1>6. /\ d \in Contexts /\ d.n = x
      /\ d.pc = e.pc /\ d.todo = e.todo /\ d.peer = e.peer /\ d.result = e.result
      /\ d.version = e.version /\ d.down = e.down /\ d.new_version = e.new_version
  BY <1>2, <1>3, <1>5
<1> USE DEF d
<1> QED BY <1>6, Zenon

\* The worker goes on to its next peer, or out of the loop.
LEMMA OnwardFacts ==
    ASSUME NEW e \in Contexts
    PROVE  /\ Onward(e) \in Contexts
           /\ Onward(e).pc \in {"publishing", "checking"}
           /\ Onward(e).down = e.down /\ Onward(e).version = e.version
           /\ Onward(e).new_version = e.new_version
<1> DEFINE f == [e EXCEPT !.pc = IF e.todo = {} THEN "publishing" ELSE "checking",
                          !.peer = None]
           g == [f EXCEPT !.result = "ok", !.n = 0]
<1>1. /\ f \in Contexts /\ f.pc \in {"publishing", "checking"}
      /\ f.down = e.down /\ f.version = e.version /\ f.new_version = e.new_version
  BY DEF Contexts
<1>2. Onward(e) = g
  BY DEF Onward
<1> HIDE DEF f
<1>3. /\ g \in Contexts /\ g.pc = f.pc
      /\ g.down = f.down /\ g.version = f.version /\ g.new_version = f.new_version
  <2> DEFINE h == [f EXCEPT !.result = "ok"]
  <2>1. /\ h \in Contexts /\ h.pc = f.pc
        /\ h.down = f.down /\ h.version = f.version /\ h.new_version = f.new_version
    BY <1>1 DEF Contexts, Results
  <2>2. g = [h EXCEPT !.n = 0]
    OBVIOUS
  <2> HIDE DEF g, h
  <2> QED BY <2>1, <2>2, SetN
<1> QED BY <1>1, <1>2, <1>3

\* Each step of a cycle keeps the types.
LEMMA CycleTypeInv ==
    ASSUME TypeInv, NEW w \in Workers, Cycle(w)
    PROVE  TypeInv'
<1> DEFINE c == ctx[w]
<1>1. Shared /\ c \in Contexts /\ Named(c) /\ Cap \in Nat /\ Cap >= 2
  BY TypeInvParts, CapFacts
<1>2. CASE BeginCycle(w)
  <2>1. CASE c.version < dict.ver
    <3> DEFINE e == [c EXCEPT !.pc = "upgrading", !.todo = Peers]
               d == [e EXCEPT !.n = dict.ver]
    <3>1. ctx' = [ctx EXCEPT ![w] = d] /\ Shared'
      BY <1>1, <1>2, <2>1 DEF BeginCycle, Shared, TypeInv, TypeOK, Contexts
    <3>2. e \in Contexts /\ e.pc = "upgrading"
      BY <1>1 DEF Contexts
    <3>3. dict.ver \in Nat \ {0}
      BY <1>1, <2>1 DEF Contexts, Shared
    <3> HIDE DEF e
    <3>4. Named(d)
      BY <3>2, <3>3 DEF Named, Contexts, CountingPcs
    <3> HIDE DEF d
    <3> QED BY <3>1, <3>4, ContextStep, TypeInvParts
  <2>2. CASE ~(c.version < dict.ver)
    <3> DEFINE d == [c EXCEPT !.pc = "begun",
                              !.new_version = @ \/ (dict.ver = 0 /\ c.version > 0)]
    <3>1. ctx' = [ctx EXCEPT ![w] = d] /\ Shared'
      BY <1>1, <1>2, <2>2 DEF BeginCycle, Shared, TypeInv, TypeOK, Contexts
    <3>2. Named(d)
      BY <1>1, <2>2 DEF Named, Contexts, CountingPcs
    <3> HIDE DEF d
    <3> QED BY <3>1, <3>2, ContextStep, TypeInvParts
  <2> QED BY <2>1, <2>2
<1>3. ASSUME NEW p \in Peers, UpgradePeer(w, p) PROVE TypeInv'
  <2> DEFINE todo == c.todo \ {p}
             read == [c EXCEPT !.todo = todo,
                               !.down = IF p \in dict.down THEN @ \cup {p} ELSE @ \ {p}]
             d == IF todo # {} THEN read
                  ELSE [read EXCEPT !.pc = "begun", !.version = c.n, !.n = 0]
  <2>1. ctx' = [ctx EXCEPT ![w] = d] /\ Shared' /\ c.pc = "upgrading"
    BY <1>1, <1>3 DEF UpgradePeer, Shared
  <2>2. Named(read) /\ read.pc = "upgrading" /\ c.n \in Nat
    BY <1>1, <2>1 DEF Named, Contexts, CountingPcs
  <2>3. Named(d)
    <3> HIDE DEF read
    <3>1. CASE todo # {}
      BY <2>2, <3>1
    <3>2. CASE todo = {}
      <4> DEFINE e == [read EXCEPT !.pc = "begun", !.version = c.n]
      <4>1. e \in Contexts /\ e.pc = "begun"
        BY <2>2 DEF Named, Contexts
      <4>2. d = [e EXCEPT !.n = 0]
        BY <3>2
      <4> HIDE DEF e
      <4> HIDE DEF d
      <4>3. d \in Contexts /\ d.pc = "begun"
        BY <4>1, <4>2, SetN
      <4> QED BY <4>3 DEF Named, CountingPcs
    <3> QED BY <3>1, <3>2
  <2> HIDE DEF d
  <2> QED BY <2>1, <2>3, ContextStep, TypeInvParts
<1>4. CASE GetLock(w)
  <2>1. CASE lock = Nobody
    <3> DEFINE d == [c EXCEPT !.pc = "checking", !.todo = Peers]
    <3>1. ctx' = [ctx EXCEPT ![w] = d] /\ Shared'
      BY <1>1, <1>4, <2>1 DEF GetLock, Shared, TypeInv, TypeOK, Contexts
    <3>2. Named(d)
      BY <1>1 DEF Named, Contexts, CountingPcs
    <3> HIDE DEF d
    <3> QED BY <3>1, <3>2, ContextStep, TypeInvParts
  <2>2. CASE lock # Nobody
    <3> DEFINE d == [c EXCEPT !.pc = "publishing"]
    <3>1. ctx' = [ctx EXCEPT ![w] = d] /\ Shared'
      BY <1>1, <1>4, <2>2 DEF GetLock, Shared
    <3>2. Named(d)
      BY <1>1 DEF Named, Contexts, CountingPcs
    <3> HIDE DEF d
    <3> QED BY <3>1, <3>2, ContextStep, TypeInvParts
  <2> QED BY <2>1, <2>2
<1>5. ASSUME NEW p \in Peers, Answer(w, p) PROVE TypeInv'
  <2> DEFINE r == IF p \in alive THEN "ok" ELSE "nok"
             s == streak[p]
             e == [c EXCEPT !.pc = "counted", !.todo = @ \ {p}, !.peer = p]
             d == [e EXCEPT !.result = r, !.n = dict.count[r][p]]
  <2>1. r \in Results /\ dict.count[r][p] \in Missing..Cap /\ s \in -Cap..Cap
    BY <1>1 DEF Shared, Results
  <2>2. ctx' = [ctx EXCEPT ![w] = d]
    BY <1>1, <1>5 DEF Answer, TypeInv, TypeOK, Contexts
  <2>3. streak' \in [Peers -> -Cap..Cap]
    <3>1. CASE s > 0
      <4>1. Succ(s) \in 1..Cap
        BY <1>1, <2>1, <3>1, SuccFacts
      <4> QED BY <1>1, <1>5, <3>1, <4>1 DEF Answer, Shared
    <3>2. CASE s < 0
      <4>1. Succ(-s) \in 1..Cap
        BY <1>1, <2>1, <3>2, SuccFacts
      <4> QED BY <1>1, <1>5, <3>2, <4>1 DEF Answer, Shared
    <3>3. CASE s = 0
      BY <1>1, <1>5, <3>3 DEF Answer, Shared
    <3> QED BY <1>1, <2>1, <3>1, <3>2, <3>3
  <2>4. Shared'
    BY <1>1, <1>5, <2>3 DEF Answer, Shared
  <2>5. e \in Contexts /\ e.pc = "counted" /\ e.peer = p
    <3> DEFINE f == [c EXCEPT !.pc = "counted", !.todo = @ \ {p}]
    <3>1. f \in Contexts /\ f.pc = "counted"
      BY <1>1 DEF Contexts
    <3>2. e = [f EXCEPT !.peer = p]
      OBVIOUS
    <3> HIDE DEF e, f
    <3> QED BY <3>1, <3>2 DEF Contexts
  <2> HIDE DEF e, r
  <2>6. Named(d)
    <3> DEFINE f == [e EXCEPT !.result = r]
    <3>1. f \in Contexts /\ f.pc = "counted" /\ f.peer = p
      BY <2>1, <2>5 DEF Contexts
    <3>2. d = [f EXCEPT !.n = dict.count[r][p]] /\ dict.count[r][p] \in Int
      BY <1>1, <2>1 DEF Missing
    <3> HIDE DEF d, f
    <3>3. d \in Contexts /\ d.pc = "counted" /\ d.peer = p
      BY <3>1, <3>2, SetN
    <3> QED BY <3>3 DEF Named, CountingPcs
  <2> HIDE DEF d
  <2> QED BY <2>2, <2>4, <2>6, ContextStep, TypeInvParts
<1>6. CASE Bump(w)
  <2> DEFINE now == dict.count[c.result][c.peer]
             n == IF c.n = Missing THEN 1 ELSE Succ(c.n)
             new == IF c.n = Missing THEN 1 ELSE IF now = Missing THEN Missing ELSE Succ(now)
             d == [c EXCEPT !.n = n, !.pc = IF n = 1 THEN "bumped" ELSE "judging"]
  <2>1. c.pc = "counted" /\ c.peer \in Peers /\ c.result \in Results /\ now \in Missing..Cap
    BY <1>1, <1>6 DEF Bump, Named, CountingPcs, Contexts, Shared
  <2>2. n \in Int
    BY <1>1 DEF Succ, Contexts, Missing
  <2>3. new \in Missing..Cap
    <3>1. CASE c.n # Missing /\ now # Missing
      <4>1. Succ(now) \in 1..Cap
        BY <1>1, <2>1, <3>1, SuccFacts DEF Missing
      <4> QED BY <1>1, <3>1, <4>1 DEF Missing
    <3>2. CASE c.n = Missing \/ now = Missing
      BY <1>1, <3>2 DEF Missing
    <3> QED BY <3>1, <3>2
  <2>4. dict' = [dict EXCEPT !.count[c.result][c.peer] = new]
        /\ ctx' = [ctx EXCEPT ![w] = d]
    BY <1>1, <1>6 DEF Bump, TypeInv, TypeOK, Contexts
  <2>5. Named(d)
    BY <1>1, <2>1, <2>2 DEF Named, Contexts, CountingPcs
  <2> HIDE DEF d, new
  <2>6. Shared'
    <3> HIDE DEF c
    <3>1. dict' \in [count : [Results -> [Peers -> Missing..Cap]], down : SUBSET Peers, ver : Nat]
      BY <1>1, <2>1, <2>3, <2>4, CountStep, ZenonT(60)
    <3> QED BY <1>1, <1>6, <3>1 DEF Bump, Shared
  <2> QED BY <2>4, <2>5, <2>6, ContextStep, TypeInvParts
<1>7. CASE Reset(w)
  <2> DEFINE d == [c EXCEPT !.pc = "judging"]
  <2>1. ctx' = [ctx EXCEPT ![w] = d] /\ c.pc = "bumped"
    BY <1>7 DEF Reset
  <2>2. Named(d)
    BY <1>1, <2>1 DEF Named, Contexts, CountingPcs
  <2>3. Other(c.result) \in Results /\ c.peer \in Peers
    BY <1>1, <2>1 DEF Named, Contexts, CountingPcs, Other, Results
  <2>4. dict.count[Other(c.result)][c.peer] \in Missing..Cap
    BY <1>1, <2>3 DEF Shared
  <2> DEFINE new == IF dict.count[Other(c.result)][c.peer] = Missing
                    THEN dict.count[Other(c.result)][c.peer] ELSE 0
  <2>5. new \in Missing..Cap
    BY <1>1, <2>4 DEF Missing
  <2>6. dict' = [dict EXCEPT !.count[Other(c.result)][c.peer] = new]
    BY <1>7 DEF Reset
  <2> HIDE DEF new
  <2>7. Shared'
    <3> HIDE DEF c
    <3>1. dict' \in [count : [Results -> [Peers -> Missing..Cap]], down : SUBSET Peers, ver : Nat]
      BY <1>1, <2>3, <2>5, <2>6, CountStep, ZenonT(60)
    <3> QED BY <1>1, <1>7, <3>1 DEF Reset, Shared
  <2> HIDE DEF d
  <2> QED BY <2>1, <2>2, <2>7, ContextStep, TypeInvParts
<1>8. CASE Judge(w)
  <2> DEFINE down == c.result = "nok"
             turned == Turn(c, c.peer, down)
  <2>1. c.pc = "judging" /\ c.peer \in Peers
    BY <1>1, <1>8 DEF Judge, Named, CountingPcs
  <2>2. ASSUME NEW e \in Contexts PROVE Named(Onward(e))
    BY OnwardFacts DEF Named, CountingPcs
  <2>3. turned \in Contexts
    BY <1>1, <2>1 DEF Turn, Contexts
  <2> HIDE DEF turned
  <2>4. CASE (c.peer \in c.down) # down /\ c.n >= Needed(c.result)
    <3>1. ctx' = [ctx EXCEPT ![w] = Onward(turned)] /\ Shared'
      BY <1>1, <1>8, <2>1, <2>4 DEF Judge, Shared, turned
    <3> QED BY <2>2, <2>3, <3>1, ContextStep, TypeInvParts
  <2>5. CASE ~((c.peer \in c.down) # down /\ c.n >= Needed(c.result))
    <3>1. ctx' = [ctx EXCEPT ![w] = Onward(c)] /\ Shared'
      BY <1>1, <1>8, <2>5 DEF Judge, Shared
    <3> QED BY <1>1, <2>2, <3>1, ContextStep, TypeInvParts
  <2> QED BY <2>4, <2>5
<1>9. CASE Publish(w)
  <2>1. \A x \in Workers : ctx[x].down \subseteq Peers
    BY TypeInvParts DEF Contexts
  <2>2. UNION {Differ(ctx[x].down, dict.down) : x \in Unaware(w)} \subseteq Peers
    BY <1>1, <2>1 DEF Differ, Unaware, Shared
  <2>3. CASE c.new_version
    <3> DEFINE e == [c EXCEPT !.pc = "idle", !.new_version = FALSE]
               d == [e EXCEPT !.version = dict.ver + 1]
    <3>1. ctx' = [ctx EXCEPT ![w] = d]
      BY <1>1, <1>9, <2>3 DEF Publish, TypeInv, TypeOK, Contexts
    <3>2. Shared'
      BY <1>1, <1>9, <2>2, <2>3 DEF Publish, Shared
    <3>3. e \in Contexts /\ e.pc = "idle" /\ dict.ver \in Nat
      BY <1>1 DEF Contexts, Shared
    <3> HIDE DEF e
    <3>4. Named(d)
      BY <3>3 DEF Named, Contexts, CountingPcs
    <3> HIDE DEF d
    <3> QED BY <3>1, <3>2, <3>4, ContextStep, TypeInvParts
  <2>4. CASE ~c.new_version
    <3> DEFINE d == [c EXCEPT !.pc = "idle"]
    <3>1. ctx' = [ctx EXCEPT ![w] = d] /\ Shared'
      BY <1>1, <1>9, <2>4 DEF Publish, Shared
    <3>2. Named(d)
      BY <1>1 DEF Named, Contexts, CountingPcs
    <3> HIDE DEF d
    <3> QED BY <3>1, <3>2, ContextStep, TypeInvParts
  <2> QED BY <2>3, <2>4
<1> QED BY <1>2, <1>3, <1>4, <1>5, <1>6, <1>7, <1>8, <1>9 DEF Cycle

\* A worker's fresh context.
LEMMA FreshFacts == Named(Fresh) /\ Fresh.pc = "idle" /\ Fresh.down = {}
                    /\ Fresh.version = 0 /\ Fresh.new_version = FALSE
  BY DEF Fresh, Named, Contexts, CountingPcs, Results

\* So do time, faults and the peers' changes.
LEMMA StepTypeInv ==
    ASSUME TypeInv, [Next]_vars
    PROVE  TypeInv'
<1>1. Shared /\ Cap \in Nat /\ Cap >= 2 /\ \A w \in Workers : ctx[w] \in Contexts /\ Named(ctx[w])
  BY TypeInvParts, CapFacts
<1>2. ctx \in [Workers -> Contexts]
  BY DEF TypeInv, TypeOK, Contexts
<1>3. ASSUME UNCHANGED ctx, Shared' PROVE TypeInv'
  BY <1>1, <1>2, <1>3, TypeInvParts
<1>4. CASE UNCHANGED vars
  BY <1>1, <1>3, <1>4 DEF vars, Shared
<1>5. ASSUME NEW w \in Workers, Cycle(w) PROVE TypeInv'
  BY <1>5, CycleTypeInv
<1>6. ASSUME NEW w \in Workers, Crash(w) PROVE TypeInv'
  <2>1. ctx' = [ctx EXCEPT ![w] = Fresh]
    BY <1>6 DEF Crash
  <2>2. \A x \in Workers : Named(ctx'[x]) /\ ctx' \in [Workers -> Contexts]
    BY <2>1, FreshFacts, ContextStep
  <2>3. \A x \in Workers : ctx'[x].down \subseteq Peers
    BY <2>2 DEF Contexts
  <2>4. excused' \subseteq Peers /\ torn' \subseteq Peers
    BY <1>1, <1>6, <2>3 DEF Crash, Shared, Differ
  <2>5. Shared'
    BY <1>1, <1>6, <2>4 DEF Crash, Shared
  <2> QED BY <2>2, <2>5, TypeInvParts
<1>7. ASSUME NEW w \in Workers, StopChecker(w) PROVE TypeInv'
  <2> DEFINE d == [ctx[w] EXCEPT !.pc = "stopped"]
  <2>1. ctx' = [ctx EXCEPT ![w] = d] /\ Shared'
    BY <1>1, <1>7 DEF StopChecker, Shared
  <2>2. Named(d)
    BY <1>1 DEF Named, Contexts, CountingPcs
  <2> HIDE DEF d
  <2> QED BY <2>1, <2>2, ContextStep, TypeInvParts
<1>8. ASSUME NEW p \in Peers, Flip(p) PROVE TypeInv'
  BY <1>1, <1>3, <1>8 DEF Flip, Shared, Differ
<1>9. ASSUME NEW p \in Peers, LosePeerKey(p) PROVE TypeInv'
  <2>1. ASSUME NEW r \in Results, dict' = [dict EXCEPT !.count[r][p] = Missing]
        PROVE  dict' \in [count : [Results -> [Peers -> Missing..Cap]], down : SUBSET Peers,
                          ver : Nat]
    <3>1. Missing \in Missing..Cap
      BY <1>1 DEF Missing
    <3> QED BY <1>1, <2>1, <3>1, CountStep, ZenonT(60)
  <2>2. ASSUME dict' = [dict EXCEPT !.down = @ \ {p}]
        PROVE  dict' \in [count : [Results -> [Peers -> Missing..Cap]], down : SUBSET Peers,
                          ver : Nat]
    BY <1>1, <2>2 DEF Shared
  <2>3. Shared'
    BY <1>1, <1>9, <2>1, <2>2 DEF LosePeerKey, Shared
  <2> QED BY <1>3, <1>9, <2>3 DEF LosePeerKey
<1>10. CASE Expire
  BY <1>1, <1>3, <1>10 DEF Expire, Shared
<1>11. CASE LoseVersion
  <2>1. UNION {Differ(ctx[x].down, dict.down) : x \in {y \in Workers : ctx[y].version = 0}}
           \subseteq Peers
    BY <1>1 DEF Shared, Contexts, Differ
  <2>2. Shared'
    BY <1>1, <1>11, <2>1 DEF LoseVersion, Shared
  <2> QED BY <1>3, <1>11, <2>2 DEF LoseVersion
<1> QED BY <1>4, <1>5, <1>6, <1>7, <1>8, <1>9, <1>10, <1>11 DEF Next

\* Every variable keeps its type: counters stay within -1..Cap, verdicts and
\* excuses are about peers, whatever crashes and evictions come between the steps
\* of a cycle.
THEOREM TypeCorrect == Spec => []TypeOK
<1>1. Init => TypeInv
  BY InitTypeInv
<1>2. TypeInv /\ [Next]_vars => TypeInv'
  BY StepTypeInv
<1>3. TypeInv => TypeOK
  BY DEF TypeInv
<1> QED BY <1>1, <1>2, <1>3, PTL DEF Spec

----------------------------------------------------------------------------
(* Announcements.                                                          *)

KnownOf(c) == IF c.pc = "upgrading" THEN c.n ELSE c.version
UnreadOf(c) == IF c.pc = "upgrading" THEN c.todo ELSE {}

\* What a worker's context says about verdicts and announcements stays as it was.
Quiet(c, d) ==
    /\ d.pc # "upgrading" /\ c.pc # "upgrading"
    /\ d.version = c.version /\ d.down = c.down
    /\ c.new_version => d.new_version

\* A result being counted is no verdict yet.
LEMMA CountingQuiet ==
    ASSUME NEW w \in Workers, ctx[w] \in Contexts, ctx \in [Workers -> Contexts],
           (\E p \in Peers : Answer(w, p)) \/ Bump(w) \/ Reset(w)
    PROVE  \E d : Quiet(ctx[w], d) /\ ctx' = [ctx EXCEPT ![w] = d]
<1> DEFINE c == ctx[w]
<1>1. ASSUME NEW p \in Peers, Answer(w, p)
      PROVE  \E d : Quiet(c, d) /\ ctx' = [ctx EXCEPT ![w] = d]
  <2> DEFINE r == IF p \in alive THEN "ok" ELSE "nok"
             e == [c EXCEPT !.pc = "counted", !.todo = @ \ {p}, !.peer = p]
             d == [e EXCEPT !.result = r, !.n = dict.count[r][p]]
  <2>1. ctx' = [ctx EXCEPT ![w] = d] /\ c.pc = "checking"
    BY <1>1 DEF Answer, Contexts
  <2>2. e.pc = "counted" /\ e.version = c.version /\ e.down = c.down
        /\ e.new_version = c.new_version /\ DOMAIN e = DOMAIN c
    BY DEF Contexts
  <2> HIDE DEF e, r
  <2>3. d.pc = e.pc /\ d.version = e.version /\ d.down = e.down
        /\ d.new_version = e.new_version
    BY <2>2 DEF Contexts
  <2> HIDE DEF d
  <2> QED BY <2>1, <2>2, <2>3 DEF Quiet
<1>2. CASE Bump(w)
  <2> DEFINE n == IF c.n = Missing THEN 1 ELSE Succ(c.n)
             d == [c EXCEPT !.n = n, !.pc = IF n = 1 THEN "bumped" ELSE "judging"]
  <2>1. ctx' = [ctx EXCEPT ![w] = d] /\ c.pc = "counted"
    BY <1>2 DEF Bump, Contexts
  <2> HIDE DEF n
  <2>2. Quiet(c, d)
    BY <2>1 DEF Quiet, Contexts
  <2> QED BY <2>1, <2>2
<1>3. CASE Reset(w)
  <2> DEFINE d == [c EXCEPT !.pc = "judging"]
  <2>1. ctx' = [ctx EXCEPT ![w] = d] /\ c.pc = "bumped"
    BY <1>3 DEF Reset
  <2>2. Quiet(c, d)
    BY <2>1 DEF Quiet, Contexts
  <2> QED BY <2>1, <2>2
<1> QED BY <1>1, <1>2, <1>3

\* A step that changes one context, and takes back neither an announcement nor an
\* excuse, keeps the announcements right if the worker itself does.
LEMMA OneContext ==
    ASSUME ctx \in [Workers -> Contexts], AnnouncedByOthers, NEW w \in Workers, NEW d,
           ctx' = [ctx EXCEPT ![w] = d],
           dict'.down = dict.down, dict'.ver = dict.ver, excused' = excused,
           ctx[w].new_version => d.new_version,
           \/ Differ(d.down, dict.down) \subseteq UnreadOf(d)
           \/ /\ KnownOf(d) = KnownOf(ctx[w])
              /\ Differ(d.down, dict.down) \ UnreadOf(d)
                    \subseteq Differ(ctx[w].down, dict.down) \ UnreadOf(ctx[w])
    PROVE  AnnouncedByOthers'
<1>1. \A x \in Workers : ctx'[x] = IF x = w THEN d ELSE ctx[x]
  OBVIOUS
<1>2. \A x \in Workers : ctx[x].new_version => ctx'[x].new_version
  BY <1>1
<1> SUFFICES ASSUME NEW y \in Workers
             PROVE  \/ Differ(ctx'[y].down, dict'.down) \subseteq excused' \cup Unread(y)'
                    \/ Known(y)' # dict'.ver
                    \/ \E x \in Workers \ {y} : ctx'[x].new_version
  BY DEF AnnouncedByOthers
<1>3. Known(y)' = KnownOf(ctx'[y]) /\ Unread(y)' = UnreadOf(ctx'[y])
      /\ Known(y) = KnownOf(ctx[y]) /\ Unread(y) = UnreadOf(ctx[y])
  BY DEF Known, Unread, KnownOf, UnreadOf
<1>4. \/ Differ(ctx[y].down, dict.down) \subseteq excused \cup Unread(y)
      \/ Known(y) # dict.ver
      \/ \E x \in Workers \ {y} : ctx[x].new_version
  BY DEF AnnouncedByOthers
<1>5. CASE y # w
  BY <1>1, <1>2, <1>3, <1>4, <1>5
<1>6. CASE y = w
  <2>1. CASE \E x \in Workers \ {y} : ctx[x].new_version
    BY <1>2, <2>1
  <2>2. CASE Known(y) # dict.ver
    BY <1>1, <1>3, <1>6, <2>2
  <2>3. CASE Differ(ctx[y].down, dict.down) \subseteq excused \cup Unread(y)
    BY <1>1, <1>3, <1>6, <2>3
  <2> QED BY <1>4, <2>1, <2>2, <2>3
<1> QED BY <1>5, <1>6

\* Differing is being in one but not the other.
LEMMA DifferFacts ==
    ASSUME NEW S, NEW T
    PROVE  \A p : p \in Differ(S, T) <=> (p \in S) # (p \in T)
  BY DEF Differ

\* Nobody disagrees unannounced after a step of a cycle.
LEMMA CycleAnnounced ==
    ASSUME TypeInv, AnnouncedByOthers, NEW w \in Workers, Cycle(w)
    PROVE  AnnouncedByOthers'
<1> DEFINE c == ctx[w]
<1>1. /\ ctx \in [Workers -> Contexts] /\ c \in Contexts
      /\ Shared /\ c.version \in Nat /\ dict.ver \in Nat /\ c.down \subseteq Peers
      /\ dict.down \subseteq Peers
  BY TypeInvParts DEF TypeInv, TypeOK, Contexts, Shared
<1> DEFINE Quietly == \E d : Quiet(c, d) /\ ctx' = [ctx EXCEPT ![w] = d]
<1>2. ASSUME Quietly, dict'.down = dict.down, dict'.ver = dict.ver, excused' = excused
      PROVE  AnnouncedByOthers'
  <2>1. PICK d : Quiet(c, d) /\ ctx' = [ctx EXCEPT ![w] = d]
    BY <1>2
  <2>2. /\ c.new_version => d.new_version
        /\ KnownOf(d) = KnownOf(c) /\ UnreadOf(d) = UnreadOf(c) /\ d.down = c.down
    BY <2>1 DEF Quiet, KnownOf, UnreadOf
  <2> QED BY <1>1, <1>2, <2>1, <2>2, OneContext
<1>3. CASE BeginCycle(w)
  <2>1. dict' = dict /\ excused' = excused
    BY <1>3 DEF BeginCycle
  <2>2. CASE c.version < dict.ver
    <3> DEFINE e == [c EXCEPT !.pc = "upgrading", !.todo = Peers]
               d == [e EXCEPT !.n = dict.ver]
    <3>1. ctx' = [ctx EXCEPT ![w] = d]
      BY <1>1, <1>3, <2>2 DEF BeginCycle, Contexts
    <3>2. e \in Contexts /\ e.pc = "upgrading" /\ e.todo = Peers /\ e.down = c.down
          /\ e.new_version = c.new_version
      BY <1>1 DEF Contexts
    <3> HIDE DEF e
    <3>3. d.pc = "upgrading" /\ d.todo = Peers /\ d.down = c.down
          /\ d.new_version = c.new_version
      BY <1>1, <3>2, SetN
    <3> HIDE DEF d
    <3>4. Differ(d.down, dict.down) \subseteq UnreadOf(d)
      BY <1>1, <3>3 DEF Differ, UnreadOf
    <3> QED BY <1>1, <2>1, <3>1, <3>3, <3>4, OneContext
  <2>3. CASE ~(c.version < dict.ver)
    <3> DEFINE d == [c EXCEPT !.pc = "begun",
                              !.new_version = @ \/ (dict.ver = 0 /\ c.version > 0)]
    <3>1. ctx' = [ctx EXCEPT ![w] = d] /\ c.pc = "idle"
      BY <1>1, <1>3, <2>3 DEF BeginCycle, Contexts
    <3>2. Quiet(c, d)
      BY <1>1, <3>1 DEF Quiet, Contexts
    <3> HIDE DEF d
    <3> QED BY <1>2, <2>1, <3>1, <3>2
  <2> QED BY <2>2, <2>3
<1>4. ASSUME NEW p \in Peers, UpgradePeer(w, p) PROVE AnnouncedByOthers'
  <2> DEFINE todo == c.todo \ {p}
             read == [c EXCEPT !.todo = todo,
                               !.down = IF p \in dict.down THEN @ \cup {p} ELSE @ \ {p}]
             d == IF todo # {} THEN read
                  ELSE [read EXCEPT !.pc = "begun", !.version = c.n, !.n = 0]
  <2>1. ctx' = [ctx EXCEPT ![w] = d] /\ dict' = dict /\ excused' = excused
        /\ c.pc = "upgrading"
    BY <1>1, <1>4 DEF UpgradePeer
  <2>2. /\ read \in Contexts /\ read.pc = "upgrading" /\ read.todo = todo /\ read.n = c.n
        /\ read.down = IF p \in dict.down THEN c.down \cup {p} ELSE c.down \ {p}
        /\ read.new_version = c.new_version
    BY <1>1, <2>1 DEF Contexts
  <2>3. Differ(read.down, dict.down) \ todo \subseteq Differ(c.down, dict.down) \ c.todo
    BY <2>2 DEF Differ
  <2> HIDE DEF read
  <2>4. /\ d.down = read.down /\ d.new_version = c.new_version
        /\ KnownOf(d) = c.n /\ UnreadOf(d) = todo
    <3>1. CASE todo # {}
      BY <2>2, <3>1 DEF KnownOf, UnreadOf
    <3>2. CASE todo = {}
      <4> DEFINE e == [read EXCEPT !.pc = "begun", !.version = c.n]
      <4>1. /\ e \in Contexts /\ e.pc = "begun" /\ e.version = c.n
            /\ e.down = read.down /\ e.new_version = read.new_version
        <5>1. CASE c.n \in Nat
          BY <2>2, <5>1 DEF Contexts
        <5> QED BY <2>1, <5>1 DEF TypeInv, StepsNamed
      <4>2. d = [e EXCEPT !.n = 0]
        BY <3>2
      <4> HIDE DEF d, e
      <4>3. /\ d.pc = "begun" /\ d.version = c.n
            /\ d.down = read.down /\ d.new_version = read.new_version
        BY <4>1, <4>2, SetN
      <4> QED BY <2>2, <3>2, <4>3 DEF KnownOf, UnreadOf
    <3> QED BY <3>1, <3>2
  <2>5. KnownOf(c) = c.n /\ UnreadOf(c) = c.todo
    BY <2>1 DEF KnownOf, UnreadOf
  <2> HIDE DEF d, todo
  <2> QED BY <1>1, <2>1, <2>3, <2>4, <2>5, OneContext
<1>5. CASE GetLock(w)
  <2>1. dict' = dict /\ excused' = excused /\ c.pc = "begun"
    BY <1>5 DEF GetLock
  <2>2. Quietly
    <3>1. CASE lock = Nobody
      <4> DEFINE d == [c EXCEPT !.pc = "checking", !.todo = Peers]
      <4>1. ctx' = [ctx EXCEPT ![w] = d]
        BY <1>1, <1>5, <3>1 DEF GetLock, Contexts
      <4>2. Quiet(c, d)
        BY <1>1, <2>1 DEF Quiet, Contexts
      <4> QED BY <4>1, <4>2
    <3>2. CASE lock # Nobody
      <4> DEFINE d == [c EXCEPT !.pc = "publishing"]
      <4>1. ctx' = [ctx EXCEPT ![w] = d]
        BY <1>5, <3>2 DEF GetLock
      <4>2. Quiet(c, d)
        BY <1>1, <2>1 DEF Quiet, Contexts
      <4> QED BY <4>1, <4>2
    <3> QED BY <3>1, <3>2
  <2> QED BY <1>2, <2>1, <2>2
<1>6. CASE (\E p \in Peers : Answer(w, p)) \/ Bump(w) \/ Reset(w)
  <2>1. Quietly
    BY <1>1, <1>6, CountingQuiet
  <2>2. dict'.down = dict.down /\ dict'.ver = dict.ver /\ excused' = excused
    BY <1>1, <1>6 DEF Answer, Bump, Reset, Shared
  <2> QED BY <1>2, <2>1, <2>2
<1>7. CASE Judge(w)
  <2> DEFINE down == c.result = "nok"
             t == Turn(c, c.peer, down)
  <2>1. c.pc = "judging" /\ excused' = excused
    BY <1>7 DEF Judge
  <2>2. CASE ~((c.peer \in c.down) # down /\ c.n >= Needed(c.result))
    <3>1. ctx' = [ctx EXCEPT ![w] = Onward(c)] /\ dict' = dict
      BY <1>7, <2>2 DEF Judge
    <3>2. Quiet(c, Onward(c))
      BY <1>1, <2>1, OnwardFacts DEF Quiet
    <3> QED BY <1>2, <2>1, <3>1, <3>2
  <2>3. CASE (c.peer \in c.down) # down /\ c.n >= Needed(c.result)
    <3>1. /\ ctx' = [ctx EXCEPT ![w] = Onward(t)]
          /\ dict' = [dict EXCEPT !.down = IF down THEN @ \cup {c.peer} ELSE @ \ {c.peer}]
      BY <1>7, <2>3 DEF Judge
    <3>2. c.peer \in Peers
      BY <2>1 DEF TypeInv, StepsNamed, CountingPcs
    <3>3. /\ t \in Contexts /\ t.new_version = TRUE /\ t.version = c.version
          /\ t.down = IF down THEN c.down \cup {c.peer} ELSE c.down \ {c.peer}
      BY <1>1, <3>2 DEF Turn, Contexts
    <3> HIDE DEF t
    <3> DEFINE d == Onward(t)
    <3>4. /\ d.pc \in {"publishing", "checking"} /\ d.down = t.down
          /\ d.version = c.version /\ d.new_version = TRUE
      BY <3>3, OnwardFacts
    <3> HIDE DEF d
    <3>5. /\ dict'.down = IF down THEN dict.down \cup {c.peer} ELSE dict.down \ {c.peer}
          /\ dict'.ver = dict.ver
      BY <1>1, <3>1 DEF Shared
    <3>6. ctx'[w] = d /\ \A x \in Workers \ {w} : ctx'[x] = ctx[x]
      BY <1>1, <3>1 DEF d
    <3> SUFFICES ASSUME NEW y \in Workers
                 PROVE  \/ Differ(ctx'[y].down, dict'.down) \subseteq excused' \cup Unread(y)'
                        \/ Known(y)' # dict'.ver
                        \/ \E x \in Workers \ {y} : ctx'[x].new_version
      BY DEF AnnouncedByOthers
    <3>7. CASE y # w
      BY <3>4, <3>6, <3>7
    <3>8. CASE y = w
      <4>1. Differ(d.down, dict'.down) \subseteq Differ(c.down, dict.down)
        BY <3>3, <3>4, <3>5 DEF Differ
      <4>2. Known(w) = c.version /\ Unread(w) = {} /\ Known(w)' = c.version /\ Unread(w)' = {}
        BY <2>1, <3>4, <3>6 DEF Known, Unread
      <4>3. \/ Differ(c.down, dict.down) \subseteq excused \cup Unread(w)
            \/ Known(w) # dict.ver
            \/ \E x \in Workers \ {w} : ctx[x].new_version
        BY DEF AnnouncedByOthers
      <4> QED BY <2>1, <3>5, <3>6, <3>8, <4>1, <4>2, <4>3
    <3> QED BY <3>7, <3>8
  <2> QED BY <2>2, <2>3
<1>8. CASE Publish(w)
  <2>1. c.pc = "publishing"
    BY <1>8 DEF Publish
  <2>2. CASE ~c.new_version
    <3> DEFINE d == [c EXCEPT !.pc = "idle"]
    <3>1. ctx' = [ctx EXCEPT ![w] = d] /\ dict' = dict /\ excused' = excused
      BY <1>8, <2>2 DEF Publish
    <3>2. Quiet(c, d)
      BY <1>1, <2>1 DEF Quiet, Contexts
    <3> HIDE DEF d
    <3> QED BY <1>2, <3>1, <3>2
  <2>3. CASE c.new_version
    <3> DEFINE e == [c EXCEPT !.pc = "idle", !.new_version = FALSE]
               d == [e EXCEPT !.version = dict.ver + 1]
    <3>1. /\ ctx' = [ctx EXCEPT ![w] = d]
          /\ dict' = [dict EXCEPT !.ver = @ + 1]
          /\ excused' = excused \cup UNION {Differ(ctx[x].down, dict.down) : x \in Unaware(w)}
      BY <1>1, <1>8, <2>3 DEF Publish, Contexts
    <3>2. e.pc = "idle" /\ e.down = c.down /\ e \in Contexts
      BY <1>1 DEF Contexts
    <3> HIDE DEF e
    <3>3. d.pc = "idle" /\ d.down = c.down
      BY <3>2 DEF Contexts
    <3> HIDE DEF d
    <3>4. dict'.ver = dict.ver + 1 /\ dict'.down = dict.down
      BY <1>1, <3>1 DEF Shared
    <3>5. ctx'[w] = d /\ \A x \in Workers \ {w} : ctx'[x] = ctx[x]
      BY <1>1, <3>1
    <3>6. \A x \in Unaware(w) : Differ(ctx[x].down, dict.down) \subseteq excused'
      BY <3>1
    <3>7. excused \subseteq excused'
      BY <3>1
    <3> SUFFICES ASSUME NEW y \in Workers
                 PROVE  \/ Differ(ctx'[y].down, dict'.down) \subseteq excused' \cup Unread(y)'
                        \/ Known(y)' # dict'.ver
                        \/ \E x \in Workers \ {y} : ctx'[x].new_version
      BY DEF AnnouncedByOthers
    <3>8. CASE y # w
      <4>1. Known(y)' = Known(y)
        BY <3>5, <3>8 DEF Known
      <4>2. CASE Known(y) = dict.ver + 1
        BY <3>4, <3>5, <3>6, <3>8, <4>2 DEF Unaware
      <4> QED BY <3>4, <4>1, <4>2, <3>5, <3>6, <3>8
    <3>9. CASE y = w
      <4>1. CASE c.version # dict.ver
        <5>1. w \in Unaware(w)
          BY <4>1 DEF Unaware
        <5> QED BY <3>3, <3>4, <3>5, <3>6, <3>9, <5>1
      <4>2. CASE c.version = dict.ver
        <5>1. Known(w) = dict.ver /\ Unread(w) = {}
          BY <2>1, <4>2 DEF Known, Unread
        <5>2. \/ Differ(c.down, dict.down) \subseteq excused \cup Unread(w)
              \/ \E x \in Workers \ {w} : ctx[x].new_version
          BY <5>1 DEF AnnouncedByOthers
        <5> QED BY <3>3, <3>4, <3>5, <3>7, <3>9, <5>1, <5>2
      <4> QED BY <4>1, <4>2
    <3> QED BY <3>8, <3>9
  <2> QED BY <2>2, <2>3
<1> QED BY <1>3, <1>4, <1>5, <1>6, <1>7, <1>8 DEF Cycle

\* Nor after any other step.
LEMMA StepAnnounced ==
    ASSUME TypeInv, AnnouncedByOthers, [Next]_vars
    PROVE  AnnouncedByOthers'
<1>1. /\ ctx \in [Workers -> Contexts] /\ Shared
      /\ dict.ver \in Nat /\ \A x \in Workers : ctx[x].version \in Nat
  BY TypeInvParts DEF TypeInv, TypeOK, Contexts, Shared
<1>2. ASSUME ctx' = ctx, dict'.down = dict.down, dict'.ver = dict.ver, excused' = excused
      PROVE  AnnouncedByOthers'
  BY <1>2 DEF AnnouncedByOthers, Known, Unread
<1>3. CASE UNCHANGED vars
  BY <1>2, <1>3 DEF vars
<1>4. ASSUME NEW w \in Workers, Cycle(w) PROVE AnnouncedByOthers'
  BY <1>4, CycleAnnounced
<1>5. ASSUME NEW w \in Workers, Crash(w) PROVE AnnouncedByOthers'
  <2>1. /\ ctx'[w] = Fresh /\ \A x \in Workers \ {w} : ctx'[x] = ctx[x]
        /\ dict' = dict
    BY <1>1, <1>5 DEF Crash
  <2>2. excused \subseteq excused'
    BY <1>5 DEF Crash
  <2>3. CASE ctx[w].new_version \/ dict.ver = 0
    <3>1. \A x \in Workers : Differ(ctx'[x].down, dict.down) \subseteq excused'
      BY <1>5, <2>3 DEF Crash
    <3> QED BY <2>1, <3>1 DEF AnnouncedByOthers
  <2>4. CASE ~(ctx[w].new_version \/ dict.ver = 0)
    <3> SUFFICES ASSUME NEW y \in Workers
                 PROVE  \/ Differ(ctx'[y].down, dict'.down) \subseteq excused' \cup Unread(y)'
                        \/ Known(y)' # dict'.ver
                        \/ \E x \in Workers \ {y} : ctx'[x].new_version
      BY DEF AnnouncedByOthers
    <3>1. CASE y = w
      <4>1. Known(y)' = 0
        BY <2>1, <3>1, FreshFacts DEF Known
      <4> QED BY <2>1, <2>4, <4>1
    <3>2. CASE y # w
      <4>1. Known(y)' = Known(y) /\ Unread(y)' = Unread(y)
        BY <2>1, <3>2 DEF Known, Unread
      <4>2. \/ Differ(ctx[y].down, dict.down) \subseteq excused \cup Unread(y)
            \/ Known(y) # dict.ver
            \/ \E x \in Workers \ {y} : ctx[x].new_version
        BY DEF AnnouncedByOthers
      <4> QED BY <2>1, <2>2, <2>4, <3>2, <4>1, <4>2
    <3> QED BY <3>1, <3>2
  <2> QED BY <2>3, <2>4
<1>6. ASSUME NEW w \in Workers, StopChecker(w) PROVE AnnouncedByOthers'
  <2> DEFINE d == [ctx[w] EXCEPT !.pc = "stopped"]
  <2>1. ctx' = [ctx EXCEPT ![w] = d] /\ dict' = dict /\ excused' = excused
        /\ ctx[w].pc = "idle"
    BY <1>6 DEF StopChecker
  <2>2. d.pc = "stopped" /\ d.version = ctx[w].version /\ d.down = ctx[w].down
        /\ d.new_version = ctx[w].new_version
    BY <1>1 DEF Contexts
  <2> HIDE DEF d
  <2>3. KnownOf(d) = KnownOf(ctx[w]) /\ UnreadOf(d) = UnreadOf(ctx[w])
    BY <2>1, <2>2 DEF KnownOf, UnreadOf
  <2> QED BY <1>1, <2>1, <2>2, <2>3, OneContext
<1>7. ASSUME NEW p \in Peers, Flip(p) PROVE AnnouncedByOthers'
  BY <1>2, <1>7 DEF Flip
<1>8. ASSUME NEW p \in Peers, LosePeerKey(p) PROVE AnnouncedByOthers'
  <2>1. ctx' = ctx
    BY <1>8 DEF LosePeerKey
  <2>2. CASE excused' = excused /\ \E r \in Results : dict' = [dict EXCEPT !.count[r][p] = Missing]
    <3>1. dict'.down = dict.down /\ dict'.ver = dict.ver
      BY <1>1, <2>2 DEF Shared
    <3> QED BY <1>2, <2>1, <2>2, <3>1
  <2>3. CASE dict' = [dict EXCEPT !.down = @ \ {p}] /\ excused' = excused \cup {p}
    <3>1. dict'.down = dict.down \ {p} /\ dict'.ver = dict.ver
      BY <1>1, <2>3 DEF Shared
    <3>2. \A x \in Workers :
             Differ(ctx[x].down, dict'.down) \subseteq Differ(ctx[x].down, dict.down) \cup {p}
      BY <3>1 DEF Differ
    <3>3. \A x \in Workers : Known(x)' = Known(x) /\ Unread(x)' = Unread(x)
      BY <2>1 DEF Known, Unread
    <3> SUFFICES ASSUME NEW y \in Workers
                 PROVE  \/ Differ(ctx'[y].down, dict'.down) \subseteq excused' \cup Unread(y)'
                        \/ Known(y)' # dict'.ver
                        \/ \E x \in Workers \ {y} : ctx'[x].new_version
      BY DEF AnnouncedByOthers
    <3>4. \/ Differ(ctx[y].down, dict.down) \subseteq excused \cup Unread(y)
          \/ Known(y) # dict.ver
          \/ \E x \in Workers \ {y} : ctx[x].new_version
      BY DEF AnnouncedByOthers
    <3> QED BY <2>1, <2>3, <3>1, <3>2, <3>3, <3>4
  <2> QED BY <1>8, <2>2, <2>3 DEF LosePeerKey
<1>9. CASE Expire
  BY <1>2, <1>9 DEF Expire
<1>10. CASE LoseVersion
  <2>1. ctx' = ctx /\ dict'.ver = 0 /\ dict'.down = dict.down
    BY <1>1, <1>10 DEF LoseVersion, Shared
  <2>2. \A x \in Workers : ctx[x].version = 0 => Differ(ctx[x].down, dict.down) \subseteq excused'
    BY <1>10 DEF LoseVersion
  <2> SUFFICES ASSUME NEW y \in Workers
               PROVE  \/ Differ(ctx'[y].down, dict'.down) \subseteq excused' \cup Unread(y)'
                      \/ Known(y)' # dict'.ver
                      \/ \E x \in Workers \ {y} : ctx'[x].new_version
    BY DEF AnnouncedByOthers
  <2>3. CASE ctx[y].pc = "upgrading"
    <3>1. Known(y)' \in Nat \ {0}
      BY <2>1, <2>3 DEF Known, TypeInv, StepsNamed
    <3> QED BY <2>1, <3>1
  <2>4. CASE ctx[y].pc # "upgrading" /\ ctx[y].version # 0
    BY <2>1, <2>4 DEF Known
  <2>5. CASE ctx[y].version = 0
    BY <2>1, <2>2, <2>5
  <2> QED BY <2>3, <2>4, <2>5
<1> QED BY <1>3, <1>4, <1>5, <1>6, <1>7, <1>8, <1>9, <1>10 DEF Next

\* While no version is under way and none is unread, every worker sees every
\* peer as the dictionary does, but for what was lost with a crash, an eviction
\* or a version that a late worker published.
THEOREM SilentDivergence == Spec => []NoSilentDivergence
<1>1. Init => AnnouncedByOthers
  BY DEF Init, Fresh, AnnouncedByOthers, Differ
<1>2. TypeInv /\ AnnouncedByOthers /\ [Next]_vars => TypeInv' /\ AnnouncedByOthers'
  BY StepTypeInv, StepAnnounced
<1>3. AnnouncedByOthers => NoSilentDivergence
  BY DEF AnnouncedByOthers, NoSilentDivergence
<1> QED BY <1>1, <1>2, <1>3, InitTypeInv, PTL DEF Spec

----------------------------------------------------------------------------
(* Counters and rows.                                                      *)

LEMMA SuccGrows ==
    ASSUME NEW m \in Int, NEW n \in Int, m <= n
    PROVE  Succ(m) <= Succ(n) /\ Succ(m) \in Int /\ (m <= Cap => Succ(m) >= m)
  BY CapFacts DEF Succ

\* A peer whose row stays as it is, which the same workers count, and whose
\* counters grow no larger.
Untouched(p) ==
    /\ streak'[p] = streak[p]
    /\ \A r \in Results : dict'.count[r][p] <= dict.count[r][p]
    /\ \A x \in Workers :
          /\ Counting(x, p)' = Counting(x, p)
          /\ Counting(x, p) => ctx'[x] = ctx[x]

LEMMA UntouchedRows ==
    ASSUME TypeInv, TypeInv', NEW p \in Peers, RowsOf(p), Untouched(p)
    PROVE  RowsOf(p)'
<1>1. /\ \A r \in Results : dict.count[r][p] \in Int /\ dict'.count[r][p] \in Int
      /\ streak[p] \in Int
      /\ \A x \in Workers : ctx[x].result \in Results /\ ctx[x].n \in Int
  BY CapFacts DEF TypeInv, TypeOK, Missing
<1>2. \A r \in Results : Row(r, p)' = Row(r, p) /\ Row(r, p) \in Int /\ Other(r) \in Results
  BY <1>1 DEF Untouched, Row, Results, Other
<1>3. \A w, x \in Workers : Counting(w, p)' /\ Counting(x, p)' => w = x
  BY DEF Untouched, RowsOf
<1>4. ASSUME \A w \in Workers : ~Counting(w, p)' PROVE RowKept(p)'
  <2>1. RowKept(p)
    BY <1>4 DEF Untouched, RowsOf
  <2> QED BY <1>1, <1>2, <2>1 DEF RowKept, Untouched
<1>5. ASSUME NEW w \in Workers, Counting(w, p)' PROVE RowCounted(w, p)'
  <2>1. RowCounted(w, p) /\ ctx'[w] = ctx[w]
    BY <1>5 DEF Untouched, RowsOf
  <2> DEFINE r == ctx[w].result
  <2>2. /\ r \in Results /\ Other(r) \in Results /\ ctx'[w].result = r
        /\ dict'.count[r][p] <= dict.count[r][p]
        /\ dict'.count[Other(r)][p] <= dict.count[Other(r)][p]
        /\ streak'[p] = streak[p]
    BY <1>1, <1>2, <2>1 DEF Untouched
  <2>3. /\ dict.count[r][p] \in Int /\ dict'.count[r][p] \in Int
        /\ dict.count[Other(r)][p] \in Int /\ dict'.count[Other(r)][p] \in Int
        /\ Row(r, p) \in Int /\ ctx[w].n \in Int
    BY <1>1, <1>2
  <2> HIDE DEF r
  <2>4. PICK s : s = r
    OBVIOUS
  <2>5. ctx[w].result = s /\ ctx'[w].result = s
    BY <2>2, <2>4 DEF r
  <2> QED BY <2>1, <2>2, <2>3, <2>4, <2>5 DEF RowCounted, Row
<1> QED BY <1>3, <1>4, <1>5 DEF RowsOf

\* Contexts of workers that count no result, before and after.
LEMMA NotCounting ==
    ASSUME TypeInv, TypeInv', RowsInv, torn \subseteq torn', streak' = streak,
           \A r \in Results, p \in Peers : dict'.count[r][p] <= dict.count[r][p],
           \A x \in Workers : \/ ctx'[x] = ctx[x]
                              \/ ctx[x].pc \notin CountingPcs /\ ctx'[x].pc \notin CountingPcs
    PROVE  RowsInv'
<1> SUFFICES ASSUME NEW p \in Peers \ torn' PROVE RowsOf(p)'
  BY DEF RowsInv
<1>1. RowsOf(p) /\ p \in Peers
  BY DEF RowsInv
<1>2. Untouched(p)
  BY DEF Untouched, Counting, CountingPcs
<1> QED BY <1>1, <1>2, UntouchedRows

\* What the steps that count a result leave in the worker's context.
LEMMA AnswerContext ==
    ASSUME ctx \in [Workers -> Contexts], NEW w \in Workers, NEW p \in Peers, Answer(w, p)
    PROVE  /\ \A x \in Workers \ {w} : ctx'[x] = ctx[x]
           /\ ctx'[w].pc = "counted" /\ ctx'[w].peer = p
           /\ ctx'[w].result = IF p \in alive THEN "ok" ELSE "nok"
           /\ ctx'[w].n = dict.count[IF p \in alive THEN "ok" ELSE "nok"][p]
           /\ ctx'[w].down = ctx[w].down
<1> DEFINE c == ctx[w]
           r == IF p \in alive THEN "ok" ELSE "nok"
           e == [c EXCEPT !.pc = "counted", !.todo = @ \ {p}, !.peer = p]
           f == [e EXCEPT !.result = r]
           d == [f EXCEPT !.n = dict.count[r][p]]
<1>1. ctx' = [ctx EXCEPT ![w] = d]
  BY DEF Answer, Contexts
<1>2. e.pc = "counted" /\ e.peer = p /\ e.down = c.down /\ DOMAIN e = DOMAIN c
  BY DEF Contexts
<1> HIDE DEF e, r
<1>3. f.pc = "counted" /\ f.peer = p /\ f.down = c.down /\ f.result = r /\ DOMAIN f = DOMAIN e
  BY <1>2 DEF Contexts
<1> HIDE DEF f
<1>4. d.pc = "counted" /\ d.peer = p /\ d.down = c.down /\ d.result = r
      /\ d.n = dict.count[r][p]
  BY <1>2, <1>3 DEF Contexts
<1> HIDE DEF d
<1>5. ctx'[w] = d /\ \A x \in Workers \ {w} : ctx'[x] = ctx[x]
  BY <1>1
<1> QED BY <1>4, <1>5 DEF r

LEMMA BumpContext ==
    ASSUME ctx \in [Workers -> Contexts], NEW w \in Workers, Bump(w) \/ Reset(w)
    PROVE  /\ \A x \in Workers \ {w} : ctx'[x] = ctx[x]
           /\ ctx'[w].peer = ctx[w].peer /\ ctx'[w].result = ctx[w].result
           /\ ctx'[w].down = ctx[w].down
           /\ Bump(w) => LET n == IF ctx[w].n = Missing THEN 1 ELSE Succ(ctx[w].n) IN
                         ctx'[w].n = n /\ ctx'[w].pc = IF n = 1 THEN "bumped" ELSE "judging"
           /\ Reset(w) => ctx'[w].n = ctx[w].n /\ ctx'[w].pc = "judging"
<1> DEFINE c == ctx[w]
<1>1. CASE Bump(w)
  <2> DEFINE n == IF c.n = Missing THEN 1 ELSE Succ(c.n)
             d == [c EXCEPT !.n = n, !.pc = IF n = 1 THEN "bumped" ELSE "judging"]
  <2>1. ctx' = [ctx EXCEPT ![w] = d] /\ c.pc = "counted"
    BY <1>1 DEF Bump, Contexts
  <2> HIDE DEF n
  <2>2. d.peer = c.peer /\ d.result = c.result /\ d.down = c.down
        /\ d.n = n /\ d.pc = IF n = 1 THEN "bumped" ELSE "judging"
    BY DEF Contexts
  <2> HIDE DEF d
  <2>3. ctx'[w] = d /\ \A x \in Workers \ {w} : ctx'[x] = ctx[x]
    BY <2>1
  <2>4. ~Reset(w)
    BY <2>1 DEF Reset
  <2> QED BY <2>2, <2>3, <2>4 DEF n
<1>2. CASE Reset(w)
  <2> DEFINE d == [c EXCEPT !.pc = "judging"]
  <2>1. ctx' = [ctx EXCEPT ![w] = d] /\ c.pc = "bumped"
    BY <1>2 DEF Reset
  <2>2. d.peer = c.peer /\ d.result = c.result /\ d.down = c.down
        /\ d.n = c.n /\ d.pc = "judging"
    BY DEF Contexts
  <2> HIDE DEF d
  <2>3. ctx'[w] = d /\ \A x \in Workers \ {w} : ctx'[x] = ctx[x]
    BY <2>1
  <2>4. ~Bump(w)
    BY <2>1 DEF Bump
  <2> QED BY <2>2, <2>3, <2>4
<1> QED BY <1>1, <1>2

LEMMA JudgeContext ==
    ASSUME ctx \in [Workers -> Contexts], NEW w \in Workers, Judge(w), ctx[w].peer \in Peers
    PROVE  /\ \A x \in Workers \ {w} : ctx'[x] = ctx[x]
           /\ ctx'[w].pc \in {"publishing", "checking"}
           /\ \/ ctx'[w].down = ctx[w].down
              \/ ctx[w].n >= Needed(ctx[w].result)
<1> DEFINE c == ctx[w]
           t == Turn(c, c.peer, c.result = "nok")
<1>1. t \in Contexts
  <2> DEFINE e == [c EXCEPT !.down = IF c.result = "nok" THEN @ \cup {c.peer} ELSE @ \ {c.peer}]
  <2>1. e \in Contexts
    BY DEF Contexts
  <2>2. t = [e EXCEPT !.new_version = TRUE]
    BY DEF Turn
  <2> HIDE DEF e, t
  <2> QED BY <2>1, <2>2 DEF Contexts
<1>2. CASE (c.peer \in c.down) # (c.result = "nok") /\ c.n >= Needed(c.result)
  <2>1. ctx' = [ctx EXCEPT ![w] = Onward(t)]
    BY <1>2 DEF Judge
  <2> HIDE DEF t
  <2> QED BY <1>1, <1>2, <2>1, OnwardFacts
<1>3. CASE ~((c.peer \in c.down) # (c.result = "nok") /\ c.n >= Needed(c.result))
  <2>1. ctx' = [ctx EXCEPT ![w] = Onward(c)]
    BY <1>3 DEF Judge
  <2> QED BY <2>1, OnwardFacts
<1> QED BY <1>2, <1>3

\* A result ends the row of the others, or makes its own one longer.
LEMMA AnswerRows ==
    ASSUME TypeInv, TypeInv', RowsInv, NEW w \in Workers, NEW q \in Peers, Answer(w, q)
    PROVE  RowsInv'
<1> SUFFICES ASSUME NEW p \in Peers \ torn' PROVE RowsOf(p)'
  BY DEF RowsInv
<1> DEFINE r == IF q \in alive THEN "ok" ELSE "nok"
<1>1. /\ ctx \in [Workers -> Contexts] /\ ctx[w].pc = "checking" /\ dict' = dict
      /\ torn' = IF \E x \in Workers : Counting(x, q) THEN torn \cup {q} ELSE torn
      /\ streak' = [streak EXCEPT ![q] = IF r = "ok"
                                         THEN IF streak[q] > 0 THEN Succ(streak[q]) ELSE 1
                                         ELSE IF streak[q] < 0 THEN -Succ(-streak[q]) ELSE -1]
      /\ streak \in [Peers -> -Cap..Cap] /\ Cap \in Nat
  BY CapFacts DEF Answer, TypeInv, TypeOK, Contexts
<1>2. /\ \A x \in Workers \ {w} : ctx'[x] = ctx[x]
      /\ ctx'[w].pc = "counted" /\ ctx'[w].peer = q /\ ctx'[w].result = r
      /\ ctx'[w].n = dict.count[r][q]
  BY <1>1, AnswerContext
<1>3. RowsOf(p) /\ p \in Peers
  BY <1>1 DEF RowsInv
<1>4. CASE p # q
  <2>1. Untouched(p)
    <3>1. streak'[p] = streak[p]
      BY <1>1, <1>4
    <3>2. \A x \in Workers : Counting(x, p)' = Counting(x, p)
                             /\ (Counting(x, p) => ctx'[x] = ctx[x])
      BY <1>1, <1>2, <1>4 DEF Counting
    <3>3. \A s \in Results : dict'.count[s][p] <= dict.count[s][p]
      BY <1>1, <1>3 DEF TypeInv, TypeOK, Missing
    <3> QED BY <3>1, <3>2, <3>3 DEF Untouched
  <2> QED BY <1>3, <2>1, UntouchedRows
<1>5. CASE p = q
  <2>1. \A x \in Workers : ~Counting(x, q)
    BY <1>1, <1>5
  <2>2. RowKept(q)
    BY <1>3, <1>5, <2>1 DEF RowsOf
  <2>3. \A x \in Workers : Counting(x, q)' <=> x = w
    BY <1>2, <2>1 DEF Counting
  <2>4. /\ r \in Results /\ Other(r) \in Results /\ Other(r) # r
        /\ dict.count[r][q] \in Int /\ dict.count[Other(r)][q] \in Int
        /\ dict.count[r][q] >= Missing /\ dict.count[r][q] <= Cap /\ streak[q] \in Int
        /\ streak[q] <= Cap /\ -streak[q] <= Cap
    BY <1>1 DEF TypeInv, TypeOK, Results, Other, Missing
  <2>5. /\ dict.count[r][q] >= 1 => Row(r, q) >= dict.count[r][q]
        /\ dict.count[Other(r)][q] >= 1 => Row(Other(r), q) >= dict.count[Other(r)][q]
        /\ Row(Other(r), q) = -Row(r, q) /\ Row(r, q) \in Int /\ Row(r, q) <= Cap
    BY <2>2, <2>4 DEF RowKept, Row, Other, Results
  <2> DEFINE row == IF r = "ok" THEN streak'[q] ELSE -streak'[q]
  <2>6. row = IF Row(r, q) > 0 THEN Succ(Row(r, q)) ELSE 1
    <3>1. CASE r = "ok"
      BY <1>1, <2>4, <3>1 DEF Row
    <3>2. CASE r = "nok"
      <4>1. -streak[q] > 0 <=> streak[q] < 0
        BY <2>4
      <4>2. -streak[q] \in Int /\ Succ(-streak[q]) \in Int
        BY <2>4, SuccGrows
      <4> QED BY <1>1, <2>4, <3>2, <4>1, <4>2 DEF Row
    <3> QED BY <3>1, <3>2
  <2>7. row \in Int /\ row >= 1
    BY <2>5, <2>6, SuccFacts
  <2>8. dict.count[r][q] # Missing => Succ(dict.count[r][q]) <= row
    <3>1. CASE dict.count[r][q] >= 1
      BY <2>4, <2>5, <2>6, <3>1, SuccGrows
    <3>2. CASE dict.count[r][q] = 0
      <4>1. Succ(dict.count[r][q]) = 1
        BY <3>2, CapFacts DEF Succ
      <4> QED BY <2>7, <4>1
    <3> QED BY <2>4, <3>1, <3>2 DEF Missing
  <2>9. dict.count[r][q] >= 1 => dict.count[Other(r)][q] <= 0
    BY <2>4, <2>5
  <2> HIDE DEF row, r
  <2>10. RowCounted(w, q)'
    <3> DEFINE n == dict.count[r][q]
    <3>1. /\ ctx'[w].result = r /\ ctx'[w].n = n /\ ctx'[w].pc = "counted"
          /\ dict'.count[r][q] = n /\ dict'.count[Other(r)][q] = dict.count[Other(r)][q]
          /\ row = IF r = "ok" THEN streak'[q] ELSE -streak'[q]
      BY <1>1, <1>2 DEF row
    <3>2. n \in Int
      BY <2>4
    <3> HIDE DEF n
    <3>3. /\ n # Missing => Succ(n) <= row
          /\ n >= 1 => dict.count[Other(r)][q] <= 0
      BY <2>8, <2>9 DEF n
    <3> QED BY <2>7, <3>1, <3>2, <3>3 DEF RowCounted, Row
  <2> QED BY <1>5, <2>3, <2>10 DEF RowsOf
<1> QED BY <1>4, <1>5

\* Of the peer that w counts, nothing but the counters changes.
LEMMA BumpRows ==
    ASSUME TypeInv, TypeInv', RowsInv, NEW w \in Workers, Bump(w) \/ Reset(w),
           NEW q, NEW r, ctx[w].peer = q, ctx[w].result = r
    PROVE  RowsInv'
<1> DEFINE c == ctx[w]
<1>1. /\ ctx \in [Workers -> Contexts] /\ c.pc \in {"counted", "bumped"} /\ q \in Peers
      /\ torn' = torn /\ streak' = streak /\ c.peer = q /\ c.result = r /\ r \in Results /\ c.n \in Int
      /\ \A p \in Peers : streak[p] \in Int
      /\ \A s \in Results, p \in Peers : dict.count[s][p] \in Missing..Cap
  BY CapFacts DEF Bump, Reset, TypeInv, TypeOK, StepsNamed, Contexts, CountingPcs
<1>2. /\ \A x \in Workers \ {w} : ctx'[x] = ctx[x]
      /\ ctx'[w].peer = q /\ ctx'[w].result = r
      /\ Bump(w) => LET n == IF c.n = Missing THEN 1 ELSE Succ(c.n) IN
                    ctx'[w].n = n /\ ctx'[w].pc = IF n = 1 THEN "bumped" ELSE "judging"
      /\ Reset(w) => ctx'[w].n = c.n /\ ctx'[w].pc = "judging"
  BY <1>1, BumpContext
<1>3. /\ r \in Results /\ Other(r) \in Results /\ Other(r) # r /\ Other(Other(r)) = r
  BY <1>1 DEF Results, Other
<1> DEFINE now == dict.count[r][q]
           others == dict.count[Other(r)][q]
           up == IF c.n = Missing THEN 1 ELSE IF now = Missing THEN Missing ELSE Succ(now)
           down == IF others = Missing THEN others ELSE 0
<1>4. now \in Missing..Cap /\ others \in Missing..Cap /\ now \in Int /\ others \in Int
  BY <1>1, <1>3, CapFacts DEF Missing
<1>5. Shared /\ Cap \in Nat /\ Cap >= 2
  BY TypeInvParts, CapFacts
<1>6. Bump(w) => /\ dict'.count[r][q] = up
                 /\ \A s \in Results, p \in Peers :
                       (s # r \/ p # q) => dict'.count[s][p] = dict.count[s][p]
  <2> SUFFICES ASSUME Bump(w)
               PROVE  /\ dict'.count[r][q] = up
                      /\ \A s \in Results, p \in Peers :
                            (s # r \/ p # q) => dict'.count[s][p] = dict.count[s][p]
    OBVIOUS
  <2>1. dict' = [dict EXCEPT !.count[r][q] = up]
    BY DEF Bump
  <2>2. up \in Missing..Cap
    <3>1. now # Missing => Succ(now) \in 1..Cap
      BY <1>4, <1>5, SuccFacts DEF Missing
    <3> QED BY <1>5, <3>1 DEF Missing
  <2> HIDE DEF c, up
  <2>3. Shared /\ r \in Results /\ q \in Peers
    BY <1>1, <1>5
  <2> QED BY <2>1, <2>2, <2>3, CountStep
<1>7. Reset(w) => /\ dict'.count[Other(r)][q] = down
                  /\ \A s \in Results, p \in Peers :
                        (s # Other(r) \/ p # q) => dict'.count[s][p] = dict.count[s][p]
  <2> SUFFICES ASSUME Reset(w)
               PROVE  /\ dict'.count[Other(r)][q] = down
                      /\ \A s \in Results, p \in Peers :
                            (s # Other(r) \/ p # q) => dict'.count[s][p] = dict.count[s][p]
    OBVIOUS
  <2>1. dict' = [dict EXCEPT !.count[Other(r)][q] = down]
    BY DEF Reset
  <2>2. down \in Missing..Cap
    BY <1>4, <1>5 DEF Missing
  <2> HIDE DEF c, down
  <2>3. Shared /\ Other(r) \in Results /\ q \in Peers
    BY <1>1, <1>3, <1>5
  <2> DEFINE s0 == Other(r)
  <2> HIDE DEF s0
  <2>4. Shared /\ s0 \in Results /\ q \in Peers /\ dict' = [dict EXCEPT !.count[s0][q] = down]
    BY <2>1, <2>3 DEF s0
  <2>5. /\ dict'.count[s0][q] = down
        /\ \A s \in Results, p \in Peers :
              (s # s0 \/ p # q) => dict'.count[s][p] = dict.count[s][p]
    BY <2>2, <2>4, CountStep
  <2> QED BY <2>5 DEF s0
<1> SUFFICES ASSUME NEW p \in Peers \ torn' PROVE RowsOf(p)'
  BY DEF RowsInv
<1>8. RowsOf(p) /\ p \in Peers
  BY <1>1 DEF RowsInv
<1>9. ctx'[w].pc \in CountingPcs
  BY <1>2 DEF CountingPcs
<1>10. \A x \in Workers, s \in Peers : Counting(x, s)' = Counting(x, s)
  BY <1>1, <1>2, <1>9 DEF Counting, CountingPcs
<1>11. CASE p # q
  <2>1. \A x \in Workers : Counting(x, p) => ctx'[x] = ctx[x]
    BY <1>2, <1>11 DEF Counting
  <2>2. \A s \in Results : dict'.count[s][p] <= dict.count[s][p]
    <3>1. \A s \in Results : dict'.count[s][p] = dict.count[s][p] /\ dict.count[s][p] \in Int
      BY <1>1, <1>6, <1>7, <1>8, <1>11 DEF Missing
    <3> QED BY <3>1
  <2>3. Untouched(p)
    BY <1>1, <1>10, <2>1, <2>2 DEF Untouched
  <2> QED BY <1>8, <2>3, UntouchedRows
<1>12. CASE p = q
  <2>1. Counting(w, q)
    BY <1>1 DEF Counting
  <2>2. RowCounted(w, q)
    BY <1>8, <1>12, <2>1 DEF RowsOf
  <2> DEFINE row == IF r = "ok" THEN streak[q] ELSE -streak[q]
  <2>3. /\ row \in Int /\ row >= 1 /\ now <= c.n
        /\ c.pc = "counted" => IF c.n = Missing THEN TRUE ELSE Succ(c.n) <= row
        /\ c.pc = "counted" /\ c.n >= 1 => others <= 0
        /\ c.pc = "bumped" => c.n <= row
    BY <1>1, <2>2 DEF RowCounted, Row
  <2> DEFINE n == ctx'[w].n
             pc == ctx'[w].pc
  <2>4. /\ dict'.count[r][q] <= n /\ n <= row
        /\ pc \in {"bumped", "judging"}
        /\ pc = "judging" => dict'.count[Other(r)][q] <= 0
    <3>1. CASE Reset(w)
      <4>1. dict'.count[r][q] = now /\ dict'.count[Other(r)][q] = down
        BY <1>3, <1>1, <1>7, <3>1
      <4>2. c.pc = "bumped"
        BY <3>1 DEF Reset
      <4>3. down <= 0
        BY <1>4 DEF Missing
      <4>4. n = c.n /\ pc = "judging"
        BY <1>2, <3>1
      <4> HIDE DEF n, pc, c, now, others, down, row
      <4> QED BY <2>3, <4>1, <4>2, <4>3, <4>4
    <3>2. CASE Bump(w)
      <4>1. c.pc = "counted"
        BY <3>2 DEF Bump
      <4>2. dict'.count[r][q] = up /\ dict'.count[Other(r)][q] = others
        BY <1>3, <1>1, <1>6, <3>2
      <4>3. n = (IF c.n = Missing THEN 1 ELSE Succ(c.n))
            /\ pc = (IF n = 1 THEN "bumped" ELSE "judging")
        BY <1>2, <3>2
      <4>4. c.n \in Int /\ c.n >= Missing
        BY <1>1, <1>4, <2>3 DEF Missing
      <4> HIDE DEF n, pc, c, now, others, row, down
      <4>5. CASE c.n = Missing
        BY <2>3, <4>2, <4>3, <4>5
      <4>6. CASE c.n # Missing
        <5>1. up <= n
          <6>1. CASE now = Missing
            BY <1>5, <4>3, <4>4, <4>6, <6>1 DEF Missing, Succ
          <6>2. CASE now # Missing
            BY <1>4, <2>3, <4>3, <4>4, <4>6, <6>2, SuccGrows
          <6> QED BY <6>1, <6>2
        <5>2. n # 1 => c.n >= 1
          <6>1. c.n = 0 => Succ(c.n) = 1
            BY <1>5 DEF Succ
          <6> QED BY <4>3, <4>4, <4>6, <6>1 DEF Missing
        <5> HIDE DEF up
        <5> QED BY <2>3, <4>1, <4>2, <4>3, <4>6, <5>1, <5>2
      <4> QED BY <4>5, <4>6
    <3> QED BY <3>1, <3>2
  <2>5. RowCounted(w, q)'
    <3>1. ctx'[w].result = r /\ streak' = streak
      BY <1>1, <1>2
    <3> HIDE DEF c
    <3> QED BY <2>3, <2>4, <3>1 DEF RowCounted, Row
  <2>6. \A x \in Workers : Counting(x, q)' <=> x = w
    BY <1>8, <1>10, <1>12, <2>1, <1>1 DEF RowsOf
  <2> QED BY <1>12, <2>5, <2>6 DEF RowsOf
<1> QED BY <1>11, <1>12

\* The peer that w has judged is counted by nobody, and its counters are right.
LEMMA JudgeRows ==
    ASSUME TypeInv, TypeInv', RowsInv, NEW w \in Workers, Judge(w),
           NEW q, NEW r, ctx[w].peer = q, ctx[w].result = r
    PROVE  RowsInv'
<1> DEFINE c == ctx[w]
<1>1. /\ ctx \in [Workers -> Contexts] /\ c.pc = "judging" /\ q \in Peers /\ r \in Results
      /\ c.peer = q /\ c.result = r /\ torn' = torn /\ streak' = streak
      /\ c.n \in Int /\ \A p \in Peers : streak[p] \in Int
      /\ \A s \in Results, p \in Peers : dict.count[s][p] \in Int
  BY CapFacts DEF Judge, TypeInv, TypeOK, StepsNamed, Contexts, CountingPcs, Missing
<1>2. ctx'[w].pc \in {"publishing", "checking"} /\ \A x \in Workers \ {w} : ctx'[x] = ctx[x]
  BY <1>1, JudgeContext
<1>3. dict'.count = dict.count
  BY <1>1 DEF Judge, TypeInv, TypeOK
<1> SUFFICES ASSUME NEW p \in Peers \ torn' PROVE RowsOf(p)'
  BY DEF RowsInv
<1>4. RowsOf(p) /\ p \in Peers
  BY <1>1 DEF RowsInv
<1>5. CASE p # q
  <2>1. Untouched(p)
    <3>1. \A x \in Workers : Counting(x, p)' = Counting(x, p)
                             /\ (Counting(x, p) => ctx'[x] = ctx[x])
      BY <1>1, <1>2, <1>5 DEF Counting
    <3>2. \A s \in Results : dict'.count[s][p] <= dict.count[s][p]
      BY <1>1, <1>3, <1>4
    <3> QED BY <1>1, <3>1, <3>2 DEF Untouched
  <2> QED BY <1>4, <2>1, UntouchedRows
<1>6. CASE p = q
  <2>1. Counting(w, q)
    BY <1>1 DEF Counting
  <2>2. \A x \in Workers : ~Counting(x, q)'
    <3>1. \A x \in Workers \ {w} : ~Counting(x, q)
      BY <1>4, <1>6, <2>1 DEF RowsOf
    <3> QED BY <1>2, <3>1 DEF Counting
  <2>3. RowCounted(w, q)
    BY <1>4, <1>6, <2>1 DEF RowsOf
  <2>4. RowKept(q)
    <3>1. /\ dict.count[r][q] <= c.n /\ c.n <= Row(r, q)
          /\ dict.count[Other(r)][q] <= 0
      BY <1>1, <2>3 DEF RowCounted
    <3>2. /\ Row(r, q) \in Int /\ dict.count[r][q] \in Int /\ dict.count[Other(r)][q] \in Int
      BY <1>1 DEF Row, Other, Results
    <3>3. \A s \in Results : s = r \/ s = Other(r)
      BY <1>1 DEF Other, Results
    <3> HIDE DEF c
    <3> SUFFICES ASSUME NEW s \in Results, dict.count[s][q] >= 1
                 PROVE  Row(s, q) >= dict.count[s][q]
      BY DEF RowKept
    <3>4. s = r
      BY <3>1, <3>2, <3>3
    <3> QED BY <1>1, <3>1, <3>2, <3>4
  <2>5. RowKept(q)'
    BY <1>1, <1>3, <2>4 DEF RowKept, Row
  <2> QED BY <1>6, <2>2, <2>5 DEF RowsOf
<1> QED BY <1>5, <1>6

\* A step that changes the context of one worker, who counts no result.
LEMMA QuietContext ==
    ASSUME TypeInv, NEW w \in Workers,
           BeginCycle(w) \/ GetLock(w) \/ Publish(w) \/ StopChecker(w)
             \/ \E p \in Peers : UpgradePeer(w, p)
    PROVE  /\ \A x \in Workers \ {w} : ctx'[x] = ctx[x]
           /\ ctx[w].pc \notin CountingPcs /\ ctx'[w].pc \notin CountingPcs
           /\ dict'.count = dict.count /\ streak' = streak /\ torn' = torn
<1> DEFINE c == ctx[w]
<1>1. ctx \in [Workers -> Contexts] /\ c \in Contexts /\ Shared
  BY TypeInvParts DEF TypeInv, TypeOK, Contexts
<1>2. CASE BeginCycle(w)
  <2>1. CASE c.version < dict.ver
    <3> DEFINE e == [c EXCEPT !.pc = "upgrading", !.todo = Peers]
               d == [e EXCEPT !.n = dict.ver]
    <3>1. ctx' = [ctx EXCEPT ![w] = d] /\ c.pc = "idle"
      BY <1>1, <1>2, <2>1 DEF BeginCycle, Contexts
    <3>2. d.pc = "upgrading"
      BY <1>1 DEF Contexts
    <3> HIDE DEF d
    <3> QED BY <1>1, <1>2, <3>1, <3>2 DEF BeginCycle, CountingPcs
  <2>2. CASE ~(c.version < dict.ver)
    BY <1>1, <1>2, <2>2 DEF BeginCycle, CountingPcs, Contexts
  <2> QED BY <2>1, <2>2
<1>3. CASE GetLock(w)
  BY <1>1, <1>3 DEF GetLock, CountingPcs, Contexts
<1>4. CASE Publish(w)
  <2>1. dict'.count = dict.count
    BY <1>1, <1>4 DEF Publish, Shared
  <2>2. CASE c.new_version
    <3> DEFINE e == [c EXCEPT !.pc = "idle", !.new_version = FALSE]
               d == [e EXCEPT !.version = dict.ver + 1]
    <3>1. ctx' = [ctx EXCEPT ![w] = d] /\ c.pc = "publishing"
      BY <1>1, <1>4, <2>2 DEF Publish, Contexts
    <3>2. d.pc = "idle"
      BY <1>1 DEF Contexts
    <3> HIDE DEF d
    <3> QED BY <1>1, <1>4, <2>1, <3>1, <3>2 DEF Publish, CountingPcs
  <2>3. CASE ~c.new_version
    BY <1>1, <1>4, <2>1, <2>3 DEF Publish, CountingPcs, Contexts
  <2> QED BY <2>2, <2>3
<1>5. CASE StopChecker(w)
  BY <1>1, <1>5 DEF StopChecker, CountingPcs, Contexts
<1>6. ASSUME NEW p \in Peers, UpgradePeer(w, p)
      PROVE  /\ \A x \in Workers \ {w} : ctx'[x] = ctx[x]
             /\ c.pc \notin CountingPcs /\ ctx'[w].pc \notin CountingPcs
             /\ dict'.count = dict.count /\ streak' = streak /\ torn' = torn
  <2> DEFINE todo == c.todo \ {p}
             read == [c EXCEPT !.todo = todo,
                               !.down = IF p \in dict.down THEN @ \cup {p} ELSE @ \ {p}]
             e == [read EXCEPT !.pc = "begun", !.version = c.n]
             f == [e EXCEPT !.n = 0]
             d == IF todo # {} THEN read ELSE f
  <2>1. ctx' = [ctx EXCEPT ![w] = d] /\ dict' = dict /\ c.pc = "upgrading"
    BY <1>1, <1>6 DEF UpgradePeer
  <2>2. read.pc = "upgrading" /\ DOMAIN read = DOMAIN c
    BY <1>1, <2>1 DEF Contexts
  <2> HIDE DEF read
  <2>3. f.pc = "begun"
    BY <1>1, <2>2 DEF Contexts
  <2> HIDE DEF f
  <2>4. d.pc \notin CountingPcs
    BY <2>2, <2>3 DEF CountingPcs
  <2> HIDE DEF d
  <2> QED BY <1>1, <1>6, <2>1, <2>4 DEF UpgradePeer, CountingPcs
<1> QED BY <1>2, <1>3, <1>4, <1>5, <1>6

LEMMA StepRows ==
    ASSUME TypeInv, TypeInv', RowsInv, [Next]_vars
    PROVE  RowsInv'
<1>1. /\ ctx \in [Workers -> Contexts] /\ Shared
      /\ \A r \in Results, p \in Peers : dict.count[r][p] \in Int /\ dict.count[r][p] >= Missing
  BY CapFacts, TypeInvParts DEF TypeInv, TypeOK, Contexts, Missing
<1>2. ASSUME dict'.count = dict.count, streak' = streak, torn \subseteq torn',
             \A x \in Workers : \/ ctx'[x] = ctx[x]
                                \/ ctx[x].pc \notin CountingPcs /\ ctx'[x].pc \notin CountingPcs
      PROVE  RowsInv'
  <2>1. \A r \in Results, p \in Peers : dict'.count[r][p] <= dict.count[r][p]
    BY <1>1, <1>2
  <2> QED BY <1>2, <2>1, NotCounting
<1>3. CASE UNCHANGED vars
  BY <1>2, <1>3 DEF vars
<1>4. ASSUME NEW w \in Workers, Cycle(w) \/ StopChecker(w) PROVE RowsInv'
  <2>1. CASE BeginCycle(w) \/ GetLock(w) \/ Publish(w) \/ StopChecker(w)
               \/ \E p \in Peers : UpgradePeer(w, p)
    <3>1. /\ \A x \in Workers \ {w} : ctx'[x] = ctx[x]
          /\ ctx[w].pc \notin CountingPcs /\ ctx'[w].pc \notin CountingPcs
          /\ dict'.count = dict.count /\ streak' = streak /\ torn' = torn
      BY <2>1, QuietContext
    <3> QED BY <1>2, <3>1
  <2>2. ASSUME NEW p \in Peers, Answer(w, p) PROVE RowsInv'
    BY <2>2, AnswerRows
  <2>3. CASE Bump(w) \/ Reset(w)
    BY <2>3, BumpRows
  <2>4. CASE Judge(w)
    BY <2>4, JudgeRows
  <2> QED BY <1>4, <2>1, <2>2, <2>3, <2>4 DEF Cycle
<1>5. ASSUME NEW w \in Workers, Crash(w) PROVE RowsInv'
  <2>1. /\ ctx'[w].pc = "idle" /\ \A x \in Workers \ {w} : ctx'[x] = ctx[x]
        /\ dict' = dict /\ streak' = streak /\ torn' = torn \cup {p \in Peers : Counting(w, p)}
    BY <1>1, <1>5, FreshFacts DEF Crash
  <2> SUFFICES ASSUME NEW p \in Peers \ torn' PROVE RowsOf(p)'
    BY DEF RowsInv
  <2>2. RowsOf(p) /\ p \in Peers /\ ~Counting(w, p)
    BY <2>1 DEF RowsInv
  <2>3. Untouched(p)
    <3>1. \A x \in Workers : Counting(x, p)' = Counting(x, p)
                             /\ (Counting(x, p) => ctx'[x] = ctx[x])
      BY <2>1, <2>2 DEF Counting
    <3>2. \A r \in Results : dict'.count[r][p] <= dict.count[r][p]
      BY <1>1, <2>1, <2>2
    <3> QED BY <2>1, <3>1, <3>2 DEF Untouched
  <2> QED BY <2>2, <2>3, UntouchedRows
<1>6. ASSUME NEW p \in Peers, Flip(p) PROVE RowsInv'
  BY <1>2, <1>6 DEF Flip
<1>7. ASSUME NEW p \in Peers, LosePeerKey(p) PROVE RowsInv'
  <2>1. ctx' = ctx /\ streak' = streak /\ torn' = torn
    BY <1>7 DEF LosePeerKey
  <2>2. ASSUME NEW s \in Results, dict' = [dict EXCEPT !.count[s][p] = Missing]
        PROVE  RowsInv'
    <3>1. Missing \in Missing..Cap
      BY CapFacts DEF Missing
    <3>2. /\ dict'.count[s][p] = Missing
          /\ \A r \in Results, q \in Peers :
                (r # s \/ q # p) => dict'.count[r][q] = dict.count[r][q]
      BY <1>1, <2>2, <3>1, CountStep
    <3>3. \A r \in Results, q \in Peers : dict'.count[r][q] <= dict.count[r][q]
      BY <1>1, <3>2
    <3> QED BY <2>1, <3>3, NotCounting
  <2>3. CASE dict' = [dict EXCEPT !.down = @ \ {p}]
    <3>1. dict'.count = dict.count
      BY <1>1, <2>3 DEF Shared
    <3> QED BY <1>2, <2>1, <3>1
  <2> QED BY <1>7, <2>2, <2>3 DEF LosePeerKey
<1>8. CASE Expire
  BY <1>2, <1>8 DEF Expire
<1>9. CASE LoseVersion
  <2>1. dict'.count = dict.count
    BY <1>1, <1>9 DEF LoseVersion, Shared
  <2> QED BY <1>2, <1>9, <2>1 DEF LoseVersion
<1> QED BY <1>3, <1>4, <1>5, <1>6, <1>7, <1>8, <1>9 DEF Next

\* The verdict of a step, if it is one.
Earned(w) ==
    LET c == ctx[w] IN
    /\ c.pc = "judging" /\ c.peer \notin torn
    /\ (c.peer \in ctx'[w].down) # (c.peer \in c.down)
    /\ ctx'[w].pc # "idle"
    => IF c.result = "ok" THEN streak[c.peer] >= Rise ELSE streak[c.peer] <= -Fall

LEMMA StepEarned ==
    ASSUME TypeInv, RowsInv, [Next]_vars, NEW w \in Workers
    PROVE  Earned(w)
<1> DEFINE c == ctx[w]
<1> SUFFICES ASSUME c.pc = "judging", c.peer \notin torn, ctx'[w].down # c.down,
                    ctx'[w].pc # "idle"
             PROVE  IF c.result = "ok" THEN streak[c.peer] >= Rise ELSE streak[c.peer] <= -Fall
  BY DEF Earned
<1>1. ctx \in [Workers -> Contexts] /\ c.peer \in Peers /\ c.result \in Results
      /\ c.n \in Int /\ streak[c.peer] \in Int
  BY CapFacts DEF TypeInv, TypeOK, StepsNamed, Contexts, CountingPcs
<1>2. Judge(w)
  <2>1. CASE UNCHANGED ctx
    BY <2>1
  <2>2. ASSUME NEW x \in Workers, Cycle(x) \/ StopChecker(x) PROVE Judge(w)
    <3>1. CASE x = w
      BY <2>2, <3>1 DEF Cycle, StopChecker, BeginCycle, GetLock, Bump, Reset, Publish,
                        UpgradePeer, Answer
    <3>2. CASE x # w
      <4>1. ctx'[w] = ctx[w]
        <5>1. CASE BeginCycle(x) \/ GetLock(x) \/ Publish(x) \/ StopChecker(x)
                     \/ \E p \in Peers : UpgradePeer(x, p)
          BY <3>2, <5>1, QuietContext
        <5>2. CASE \E p \in Peers : Answer(x, p)
          BY <1>1, <3>2, <5>2, AnswerContext
        <5>3. CASE Bump(x) \/ Reset(x)
          BY <1>1, <3>2, <5>3, BumpContext
        <5>4. CASE Judge(x)
          <6>1. ctx[x].peer \in Peers
            BY <5>4 DEF Judge, TypeInv, StepsNamed, CountingPcs
          <6> QED BY <1>1, <3>2, <5>4, <6>1, JudgeContext
        <5> QED BY <2>2, <5>1, <5>2, <5>3, <5>4 DEF Cycle
      <4> QED BY <4>1
    <3> QED BY <3>1, <3>2
  <2>3. ASSUME NEW x \in Workers, Crash(x) PROVE Judge(w)
    <3>1. ctx' = [ctx EXCEPT ![x] = Fresh]
      BY <2>3 DEF Crash
    <3> QED BY <1>1, <3>1, FreshFacts
  <2>4. CASE \E p \in Peers : Flip(p) \/ LosePeerKey(p)
    BY <2>1, <2>4 DEF Flip, LosePeerKey
  <2>5. CASE Expire \/ LoseVersion
    BY <2>1, <2>5 DEF Expire, LoseVersion
  <2> QED BY <2>1, <2>2, <2>3, <2>4, <2>5 DEF Next, vars
<1>3. c.n >= Needed(c.result)
  BY <1>1, <1>2, JudgeContext
<1>4. RowCounted(w, c.peer)
  <2>1. Counting(w, c.peer)
    BY DEF Counting
  <2> QED BY <1>1, <2>1 DEF RowsInv, RowsOf
<1>5. c.n <= Row(c.result, c.peer)
  BY <1>4 DEF RowCounted
<1>6. Rise \in Nat /\ Fall \in Nat
  OBVIOUS
<1> QED BY <1>1, <1>3, <1>5, <1>6 DEF Row, Needed

\* Every change of verdict follows at least rise successes, or fall failures, in a
\* row, although the row is counted in two keys by whoever holds the lock; unless
\* two workers once counted the peer's results at the same time or one died while
\* it did.
THEOREM VerdictsEarned == Spec => VerdictEarned
<1>1. Init => RowsInv
  <2> SUFFICES ASSUME Init PROVE RowsInv
    OBVIOUS
  <2>1. \A w \in Workers, p \in Peers : ~Counting(w, p)
    BY DEF Init, Fresh, Counting
  <2>2. \A p \in Peers, r \in Results : dict.count[r][p] = -1
    BY DEF Init, Missing
  <2> QED BY <2>1, <2>2 DEF RowsInv, RowsOf, RowKept
<1>2. TypeInv /\ RowsInv /\ [Next]_vars => TypeInv' /\ RowsInv'
  BY StepTypeInv, StepRows
<1>3. TypeInv /\ RowsInv /\ [Next]_vars => \A w \in Workers : Earned(w)
  BY StepEarned
<1>4. [\A w \in Workers : Earned(w)]_vars => [\A w \in Workers : LET c == ctx[w] IN
         /\ c.pc = "judging" /\ c.peer \notin torn
         /\ (c.peer \in ctx'[w].down) # (c.peer \in c.down)
         /\ ctx'[w].pc # "idle"
         => IF c.result = "ok" THEN streak[c.peer] >= Rise ELSE streak[c.peer] <= -Fall]_vars
  BY DEF Earned
<1> QED BY <1>1, <1>2, <1>3, <1>4, InitTypeInv, PTL DEF Spec, VerdictEarned
=============================================================================
