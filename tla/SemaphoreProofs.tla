-------------------------- MODULE SemaphoreProofs --------------------------
(***************************************************************************)
(* Theorems about Semaphore.tla, for any number of threads and requests    *)
(* and any bounds: type correctness, the agreement of the four places that *)
(* record a waiting thread, and the absence of lost wakeups.               *)
(***************************************************************************)
EXTENDS Semaphore, SequenceTheorems, TLAPS

USE SemaphoreAssumption

\* What the single-threaded worker guarantees: a thread on the CPU is marked
\* running, and no request is being torn down meanwhile.
OneOnCpu == cpu # None => status[cpu] = "running" /\ dying = {}

\* The invariant is inductive only as a whole: a thread can join wait_queue
\* because it is on the CPU, hence running, hence not in wait_queue already.
IInv == TypeOK /\ OneOnCpu /\ WaitersAccounted /\ NoLostWakeup

----------------------------------------------------------------------------
\* Removing one element of a sequence closes the gap and keeps the rest.
LEMMA RemoveAtFacts ==
    ASSUME NEW T, NEW s \in Seq(T), NEW i \in 1..Len(s)
    PROVE  /\ RemoveAt(s, i) \in Seq(T)
           /\ Len(RemoveAt(s, i)) = Len(s) - 1
           /\ \A j \in 1..(Len(s) - 1) :
                RemoveAt(s, i)[j] = IF j < i THEN s[j] ELSE s[j + 1]
<1> DEFINE front == SubSeq(s, 1, i - 1)
           back == SubSeq(s, i + 1, Len(s))
<1>1. Len(s) \in Nat /\ \A j \in 1..Len(s) : s[j] \in T
  BY LenProperties, ElementOfSeq
<1>2. /\ front \in Seq(T) /\ Len(front) = i - 1
      /\ \A j \in 1..(i - 1) : front[j] = s[j]
  BY <1>1, SubSeqProperties
<1>3. /\ back \in Seq(T) /\ Len(back) = Len(s) - i
      /\ \A j \in 1..(Len(s) - i) : back[j] = s[i + j]
  <2>1. \A j \in (i + 1)..Len(s) : s[j] \in T
    BY <1>1
  <2>2. /\ back \in Seq(T)
        /\ Len(back) = IF i + 1 <= Len(s) THEN Len(s) - (i + 1) + 1 ELSE 0
        /\ \A j \in 1..(Len(s) - (i + 1) + 1) : back[j] = s[(i + 1) + j - 1]
    BY <1>1, <2>1, SubSeqProperties
  <2> QED BY <1>1, <2>2
<1>4. RemoveAt(s, i) = front \o back
  BY DEF RemoveAt
<1> HIDE DEF front, back
<1>5. /\ front \o back \in Seq(T)
      /\ Len(front \o back) = Len(front) + Len(back)
      /\ \A j \in 1..(Len(front) + Len(back)) : (front \o back)[j] =
            IF j <= Len(front) THEN front[j] ELSE back[j - Len(front)]
  <2>1. front \in Seq(T) /\ back \in Seq(T)
    BY <1>2, <1>3
  <2> QED BY <2>1
<1> QED
  BY <1>1, <1>2, <1>3, <1>4, <1>5

\* A waiter that is unlinked from the queue leaves the others in it, each once.
LEMMA UnlinkedFacts ==
    ASSUME TypeOK, WaitersAccounted, NEW t \in Threads, Queued(t)
    PROVE  LET q == Unlinked(t) IN
           /\ q \in Seq(Threads)
           /\ Len(q) = Len(wait_queue) - 1
           /\ \A i, j \in 1..Len(q) : q[i] = q[j] => i = j
           /\ \A u \in Threads :
                (\E i \in 1..Len(q) : q[i] = u) <=> Queued(u) /\ u # t
<1> DEFINE k == CHOOSE i \in 1..Len(wait_queue) : wait_queue[i] = t
           q == RemoveAt(wait_queue, k)
<1>1. k \in 1..Len(wait_queue) /\ wait_queue[k] = t
  BY DEF Queued
<1>2. Unlinked(t) = q
  BY DEF Unlinked
<1>3. wait_queue \in Seq(Threads)
  BY DEF TypeOK
<1> HIDE DEF k
<1>4. /\ q \in Seq(Threads)
      /\ Len(q) = Len(wait_queue) - 1
      /\ \A j \in 1..(Len(wait_queue) - 1) :
            q[j] = IF j < k THEN wait_queue[j] ELSE wait_queue[j + 1]
  BY <1>1, <1>3, RemoveAtFacts
<1> HIDE DEF q
<1>5. \A i, j \in 1..Len(wait_queue) : wait_queue[i] = wait_queue[j] => i = j
  BY DEF WaitersAccounted
<1>6. \A i, j \in 1..Len(q) : q[i] = q[j] => i = j
  BY <1>1, <1>3, <1>4, <1>5
<1>7. ASSUME NEW u \in Threads, NEW i \in 1..Len(q), q[i] = u
      PROVE  Queued(u) /\ u # t
  <2>1. CASE i < k
    BY <1>1, <1>3, <1>4, <1>5, <1>7, <2>1 DEF Queued
  <2>2. CASE i >= k
    <3>1. i + 1 \in 1..Len(wait_queue) /\ wait_queue[i + 1] = u
      BY <1>1, <1>3, <1>4, <1>7, <2>2
    <3> QED BY <1>1, <1>3, <1>5, <2>2, <3>1 DEF Queued
  <2> QED BY <1>1, <1>3, <1>4, <2>1, <2>2
<1>8. ASSUME NEW u \in Threads, Queued(u), u # t
      PROVE  \E i \in 1..Len(q) : q[i] = u
  <2>1. PICK i \in 1..Len(wait_queue) : wait_queue[i] = u
    BY <1>8 DEF Queued
  <2>2. CASE i < k
    <3>1. i \in 1..Len(q) /\ q[i] = u
      BY <1>1, <1>3, <1>4, <2>1, <2>2
    <3> QED BY <3>1
  <2>3. CASE i > k
    <3>1. i - 1 \in 1..Len(q) /\ q[i - 1] = u
      BY <1>1, <1>3, <1>4, <2>1, <2>3
    <3> QED BY <3>1
  <2>4. i # k
    BY <1>1, <1>8, <2>1
  <2> QED BY <1>1, <2>2, <2>3, <2>4
<1> QED
  BY <1>2, <1>4, <1>6, <1>7, <1>8

\* The cleanup callback takes the thread out of all four places at once, and
\* does nothing to a thread that is in none of them.
LEMMA CleanupFacts ==
    ASSUME IInv, NEW t \in Threads, CleanupPending(t)
    PROVE  /\ wait_queue' \in Seq(Threads)
           /\ wait_count' \in Nat /\ wait_count' = Len(wait_queue')
           /\ \A i, j \in 1..Len(wait_queue') :
                wait_queue'[i] = wait_queue'[j] => i = j
           /\ \A u \in Threads : Queued(u)' <=> Queued(u) /\ u # t
           /\ timer_set' = timer_set \ {t}
           /\ cleanup' = cleanup \ {t}
           /\ CanGrant' => CanGrant
           /\ UNCHANGED <<resource_count, posted>>
<1>1. TypeOK /\ WaitersAccounted
  BY DEF IInv
<1>2. CASE t \in cleanup
  <2>1. Queued(t)
    BY <1>1, <1>2 DEF WaitersAccounted
  <2>2. /\ timer_set' = timer_set \ {t}
        /\ wait_queue' = Unlinked(t)
        /\ wait_count' = wait_count - 1
        /\ cleanup' = cleanup \ {t}
        /\ UNCHANGED <<resource_count, posted>>
    BY <1>2 DEF CleanupPending, HasPending
  <2>3. /\ wait_queue' \in Seq(Threads)
        /\ Len(wait_queue') = Len(wait_queue) - 1
        /\ \A i, j \in 1..Len(wait_queue') :
                wait_queue'[i] = wait_queue'[j] => i = j
        /\ \A u \in Threads : (\E i \in 1..Len(wait_queue') : wait_queue'[i] = u)
                                <=> Queued(u) /\ u # t
    BY <1>1, <2>1, <2>2, UnlinkedFacts
  <2>4. wait_queue # <<>> /\ Len(wait_queue) \in Nat /\ Len(wait_queue') \in Nat
    BY <1>1, <2>1, <2>3 DEF Queued, TypeOK
  <2>5. wait_count = Len(wait_queue)
    BY <1>1 DEF WaitersAccounted
  <2>6. wait_count' \in Nat /\ wait_count' = Len(wait_queue')
    BY <2>2, <2>3, <2>4, <2>5
  <2>7. CanGrant' => CanGrant
    BY <2>2, <2>4 DEF CanGrant
  <2>8. \A u \in Threads : Queued(u)' <=> Queued(u) /\ u # t
    BY <2>3 DEF Queued
  <2> QED BY <2>2, <2>3, <2>6, <2>7, <2>8
<1>3. CASE t \notin cleanup
  <2>1. UNCHANGED semVars
    BY <1>3 DEF CleanupPending, HasPending
  <2>2. ~Queued(t) /\ t \notin timer_set
    BY <1>1, <1>3 DEF WaitersAccounted
  <2> QED
    BY <1>1, <1>3, <2>1, <2>2
       DEF semVars, TypeOK, WaitersAccounted, Queued, CanGrant
<1> QED BY <1>2, <1>3

\* Giving up the CPU touches only the thread that leaves, which was running, and
\* the posted one that replaces it.
LEMMA SwitchFacts ==
    ASSUME IInv, NEW t \in Threads, cpu = t,
           NEW s \in Statuses \ {"running", "posted"}, SwitchFrom(t, s)
    PROVE  /\ status' \in [Threads -> Statuses]
           /\ cpu' \in Threads \cup {None}
           /\ cpu' # None => status'[cpu'] = "running"
           /\ status'[t] = s /\ status[t] = "running"
           /\ \A u \in Threads \ {t} :
                status'[u] = "waiting" <=> status[u] = "waiting"
<1>1. /\ status \in [Threads -> Statuses]
      /\ status[t] = "running"
  BY DEF IInv, TypeOK, OneOnCpu
<1>2. CASE cpu' = None /\ status' = [status EXCEPT ![t] = s]
  BY <1>1, <1>2
<1>3. CASE \E u \in PostedThreads(t) :
              cpu' = u /\ status' = [status EXCEPT ![t] = s, ![u] = "running"]
  <2>1. PICK u \in PostedThreads(t) :
              cpu' = u /\ status' = [status EXCEPT ![t] = s, ![u] = "running"]
    BY <1>3
  <2>2. u \in Threads /\ u # t /\ status[u] = "posted"
    BY DEF PostedThreads
  <2> QED BY <1>1, <2>1, <2>2 DEF Statuses
<1> QED BY <1>2, <1>3 DEF SwitchFrom

----------------------------------------------------------------------------
\* A new semaphore has no waiter, and no thread is on the CPU.
LEMMA InitIInv == Init => IInv
<1> SUFFICES ASSUME Init PROVE IInv
  OBVIOUS
<1>1. TypeOK
  BY EmptySeq DEF Init, TypeOK, Statuses
<1>2. OneOnCpu
  BY DEF Init, OneOnCpu
<1>3. WaitersAccounted
  BY DEF Init, WaitersAccounted, Queued
<1>4. NoLostWakeup
  BY DEF Init, NoLostWakeup, CanGrant
<1> QED BY <1>1, <1>2, <1>3, <1>4 DEF IInv

\* Every step of the code, whichever actor takes it, keeps the invariant.
LEMMA StepIInv == IInv /\ [Next]_vars => IInv'
<1> SUFFICES ASSUME IInv, [Next]_vars PROVE IInv'
  OBVIOUS
<1> USE DEF IInv
<1>1. TypeOK /\ OneOnCpu /\ WaitersAccounted /\ NoLostWakeup
  OBVIOUS
<1>2. CASE UNCHANGED vars
  BY <1>1, <1>2 DEF vars, TypeOK, OneOnCpu, WaitersAccounted, NoLostWakeup, Queued, CanGrant
<1>3. ASSUME NEW n \in 1..MaxPost, Post(n) PROVE IInv'
  <2>1. TypeOK'
    BY <1>1, <1>3 DEF Post, TypeOK
  <2>2. OneOnCpu' /\ WaitersAccounted'
    BY <1>1, <1>3 DEF Post, OneOnCpu, WaitersAccounted, Queued
  <2>3. NoLostWakeup'
    BY <1>3 DEF Post, MustWake, NoLostWakeup, CanGrant
  <2> QED BY <2>1, <2>2, <2>3
<1>4. ASSUME NEW t \in Threads, WaitAtOnce(t) PROVE IInv'
  <2>1. TypeOK'
    BY <1>1, <1>4 DEF WaitAtOnce, Available, TypeOK
  <2>2. OneOnCpu' /\ WaitersAccounted'
    BY <1>1, <1>4 DEF WaitAtOnce, OneOnCpu, WaitersAccounted, Queued
  <2>3. NoLostWakeup'
    BY <1>1, <1>4 DEF WaitAtOnce, Available, NoLostWakeup, CanGrant
  <2> QED BY <2>1, <2>2, <2>3
<1>5. ASSUME NEW t \in Threads, WaitDeclined(t) PROVE IInv'
  <2>1. TypeOK'
    BY <1>1, <1>5 DEF WaitDeclined, semVars, TypeOK
  <2>2. OneOnCpu' /\ WaitersAccounted' /\ NoLostWakeup'
    BY <1>1, <1>5 DEF WaitDeclined, semVars, OneOnCpu, WaitersAccounted,
                      NoLostWakeup, Queued, CanGrant
  <2> QED BY <2>1, <2>2
<1>6. ASSUME NEW t \in Threads, WaitYield(t) PROVE IInv'
  <2>1. /\ status' \in [Threads -> Statuses]
        /\ cpu' \in Threads \cup {None}
        /\ cpu' # None => status'[cpu'] = "running"
        /\ status'[t] = "waiting" /\ status[t] = "running"
        /\ \A u \in Threads \ {t} : status'[u] = "waiting" <=> status[u] = "waiting"
    BY <1>6, SwitchFacts DEF WaitYield, Statuses
  <2>2. /\ wait_queue' \in Seq(Threads)
        /\ Len(wait_queue') = Len(wait_queue) + 1
        /\ \A i \in 1..Len(wait_queue) : wait_queue'[i] = wait_queue[i]
        /\ wait_queue'[Len(wait_queue) + 1] = t
        /\ Len(wait_queue) \in Nat
    BY <1>1, <1>6, AppendProperties, LenProperties DEF WaitYield, TypeOK
  <2>3. ~Queued(t)
    BY <1>1, <2>1 DEF WaitersAccounted
  <2>4. \A u \in Threads : Queued(u)' <=> Queued(u) \/ u = t
    BY <2>2 DEF Queued
  <2>5. TypeOK'
    <3>1. /\ wait_count' \in Nat
          /\ timer_set' \subseteq Threads /\ cleanup' \subseteq Threads
          /\ outcome' \in [Threads -> {"none", "ok", "timeout"}]
      BY <1>1, <1>6 DEF WaitYield, Armed, TypeOK
    <3>2. UNCHANGED <<resource_count, posted, in_handler, dying>>
      BY <1>6 DEF WaitYield
    <3> QED BY <1>1, <2>1, <2>2, <3>1, <3>2 DEF TypeOK
  <2>6. OneOnCpu'
    BY <1>1, <1>6, <2>1, SemaphoreAssumption DEF WaitYield, OneOnCpu
  <2>7. WaitersAccounted'
    <3>1. wait_count' = Len(wait_queue')
      BY <1>1, <1>6, <2>2 DEF WaitYield, WaitersAccounted
    <3>2. \A i, j \in 1..Len(wait_queue') :
              wait_queue'[i] = wait_queue'[j] => i = j
      BY <1>1, <2>2, <2>3 DEF WaitersAccounted, Queued
    <3>3. \A u \in Threads :
              /\ Queued(u)' <=> status'[u] = "waiting"
              /\ u \in timer_set' <=> status'[u] = "waiting"
              /\ u \in cleanup' <=> status'[u] = "waiting"
      BY <1>1, <1>6, <2>1, <2>4 DEF WaitYield, Armed, WaitersAccounted
    <3> QED BY <3>1, <3>2, <3>3 DEF WaitersAccounted
  <2>8. NoLostWakeup'
    BY <1>1, <1>6 DEF WaitYield, Available, NoLostWakeup, CanGrant
  <2> QED BY <2>5, <2>6, <2>7, <2>8
<1>7. ASSUME NEW t \in Threads, YieldElsewhere(t) PROVE IInv'
  <2>1. /\ status' \in [Threads -> Statuses]
        /\ cpu' \in Threads \cup {None}
        /\ cpu' # None => status'[cpu'] = "running"
        /\ status'[t] = "ready" /\ status[t] = "running"
        /\ \A u \in Threads \ {t} : status'[u] = "waiting" <=> status[u] = "waiting"
    BY <1>7, SwitchFacts DEF YieldElsewhere, Statuses
  <2>2. TypeOK'
    BY <1>1, <1>7, <2>1 DEF YieldElsewhere, semVars, TypeOK
  <2>3. OneOnCpu' /\ WaitersAccounted' /\ NoLostWakeup'
    BY <1>1, <1>7, <2>1, SemaphoreAssumption
       DEF YieldElsewhere, semVars, OneOnCpu, WaitersAccounted, NoLostWakeup,
           Queued, CanGrant
  <2> QED BY <2>2, <2>3
<1>8. ASSUME NEW t \in Threads, NEW u \in Threads, Spawn(t, u) PROVE IInv'
  <2>1. TypeOK'
    BY <1>1, <1>8 DEF Spawn, semVars, TypeOK, Statuses
  <2>2. OneOnCpu' /\ WaitersAccounted' /\ NoLostWakeup'
    BY <1>1, <1>8, SemaphoreAssumption
       DEF Spawn, semVars, TypeOK, OneOnCpu, WaitersAccounted, NoLostWakeup,
           Queued, CanGrant
  <2> QED BY <2>1, <2>2
<1>9. ASSUME NEW u \in Threads, CleanupPending(u),
             status' \in [Threads -> Statuses], cpu' \in Threads \cup {None},
             OneOnCpu', status'[u] # "waiting",
             \A v \in Threads \ {u} : status'[v] = "waiting" <=> status[v] = "waiting",
             dying' \subseteq Threads, UNCHANGED <<in_handler, outcome>>
      PROVE  IInv'
  <2>1. /\ wait_queue' \in Seq(Threads)
        /\ wait_count' \in Nat /\ wait_count' = Len(wait_queue')
        /\ \A i, j \in 1..Len(wait_queue') :
                wait_queue'[i] = wait_queue'[j] => i = j
        /\ \A v \in Threads : Queued(v)' <=> Queued(v) /\ v # u
        /\ timer_set' = timer_set \ {u}
        /\ cleanup' = cleanup \ {u}
        /\ CanGrant' => CanGrant
        /\ UNCHANGED <<resource_count, posted>>
    BY <1>9, CleanupFacts
  <2>2. TypeOK'
    BY <1>1, <1>9, <2>1 DEF TypeOK
  <2>3. WaitersAccounted'
    BY <1>1, <1>9, <2>1 DEF WaitersAccounted
  <2>4. NoLostWakeup'
    BY <1>1, <1>9, <2>1 DEF NoLostWakeup
  <2> QED BY <1>9, <2>2, <2>3, <2>4
<1>10. ASSUME NEW t \in Threads, Terminate(t) PROVE IInv'
  <2>1. status \in [Threads -> Statuses] /\ status[t] = "running" /\ dying = {}
    BY <1>1, <1>10, SemaphoreAssumption DEF Terminate, TypeOK, OneOnCpu
  <2>2. CASE SwitchFrom(t, "dead")
    <3>1. /\ status' \in [Threads -> Statuses]
          /\ cpu' \in Threads \cup {None}
          /\ cpu' # None => status'[cpu'] = "running"
          /\ status'[t] = "dead"
          /\ \A u \in Threads \ {t} : status'[u] = "waiting" <=> status[u] = "waiting"
      BY <1>10, <2>2, SwitchFacts DEF Terminate, Statuses
    <3>2. OneOnCpu'
      BY <1>10, <2>1, <3>1 DEF Terminate, OneOnCpu
    <3> QED BY <1>1, <1>9, <1>10, <3>1, <3>2 DEF Terminate, TypeOK
  <2>3. CASE /\ Parent[t] # None /\ status[Parent[t]] = "ready"
             /\ cpu' = Parent[t]
             /\ status' = [status EXCEPT ![t] = "dead", ![Parent[t]] = "running"]
    <3>1. Parent[t] \in Threads /\ Parent[t] # t
      BY <2>1, <2>3, SemaphoreAssumption
    <3>2. /\ status' \in [Threads -> Statuses]
          /\ cpu' \in Threads /\ status'[cpu'] = "running"
          /\ status'[t] = "dead"
          /\ \A u \in Threads \ {t} : status'[u] = "waiting" <=> status[u] = "waiting"
      BY <2>1, <2>3, <3>1 DEF Statuses
    <3>3. OneOnCpu'
      BY <1>10, <2>1, <3>2 DEF Terminate, OneOnCpu
    <3> QED BY <1>1, <1>9, <1>10, <3>2, <3>3 DEF Terminate, TypeOK
  <2> QED BY <1>10, <2>2, <2>3 DEF Terminate
<1>11. ASSUME NEW t \in Threads, NEW u \in Threads, KillThread(t, u) PROVE IInv'
  <2>1. /\ status \in [Threads -> Statuses] /\ status[t] = "running" /\ dying = {}
        /\ status[u] # "running" /\ u # t
    BY <1>1, <1>11, SemaphoreAssumption DEF KillThread, TypeOK, OneOnCpu
  <2>2. /\ status' \in [Threads -> Statuses] /\ status'[u] = "dead"
        /\ status'[t] = "running"
        /\ \A v \in Threads \ {u} : status'[v] = "waiting" <=> status[v] = "waiting"
    BY <1>11, <2>1 DEF KillThread, Statuses
  <2>3. OneOnCpu'
    BY <1>11, <2>1, <2>2 DEF KillThread, OneOnCpu
  <2> QED BY <1>1, <1>9, <1>11, <2>2, <2>3 DEF KillThread, TypeOK
<1>12. ASSUME NEW t \in Threads, ExitRequest(t) PROVE IInv'
  <2>1. TypeOK'
    BY <1>1, <1>12 DEF ExitRequest, semVars, TypeOK, Statuses, LiveThreadsOf
  <2>2. OneOnCpu' /\ WaitersAccounted' /\ NoLostWakeup'
    BY <1>1, <1>12, SemaphoreAssumption
       DEF ExitRequest, semVars, TypeOK, OneOnCpu, WaitersAccounted, NoLostWakeup,
           Queued, CanGrant, LiveThreadsOf
  <2> QED BY <2>1, <2>2
<1>13. ASSUME NEW r \in Requests, AbortRequest(r) PROVE IInv'
  <2>1. TypeOK'
    BY <1>1, <1>13 DEF AbortRequest, semVars, TypeOK, Statuses, LiveThreadsOf, LoopIdle
  <2>2. OneOnCpu' /\ WaitersAccounted' /\ NoLostWakeup'
    BY <1>1, <1>13, SemaphoreAssumption
       DEF AbortRequest, semVars, TypeOK, OneOnCpu, WaitersAccounted, NoLostWakeup,
           Queued, CanGrant, LiveThreadsOf, LoopIdle
  <2> QED BY <2>1, <2>2
<1>14. ASSUME NEW t \in Threads, FinalizeThread(t) PROVE IInv'
  <2>1. status \in [Threads -> Statuses] /\ cpu = None
    BY <1>1, <1>14 DEF FinalizeThread, TypeOK, OneOnCpu
  <2>2. /\ status' \in [Threads -> Statuses] /\ status'[t] = "dead"
        /\ \A v \in Threads \ {t} : status'[v] = "waiting" <=> status[v] = "waiting"
    BY <1>14, <2>1 DEF FinalizeThread, Statuses
  <2>3. OneOnCpu'
    BY <1>14, <2>1 DEF FinalizeThread, OneOnCpu
  <2> QED BY <1>1, <1>9, <1>14, <2>2, <2>3 DEF FinalizeThread, TypeOK
<1>15. ASSUME NEW t \in Threads, StartThread(t) PROVE IInv'
  <2>1. TypeOK'
    BY <1>1, <1>15 DEF StartThread, semVars, TypeOK, Statuses, LoopIdle, LiveThreadsOf
  <2>2. OneOnCpu' /\ WaitersAccounted' /\ NoLostWakeup'
    BY <1>1, <1>15, SemaphoreAssumption
       DEF StartThread, semVars, TypeOK, OneOnCpu, WaitersAccounted, NoLostWakeup,
           Queued, CanGrant, LoopIdle, LiveThreadsOf
  <2> QED BY <2>1, <2>2
<1>16. ASSUME NEW t \in Threads, Dispatch(t) PROVE IInv'
  <2>1. TypeOK'
    BY <1>1, <1>16 DEF Dispatch, semVars, TypeOK, Statuses, LoopIdle
  <2>2. OneOnCpu' /\ WaitersAccounted' /\ NoLostWakeup'
    BY <1>1, <1>16, SemaphoreAssumption
       DEF Dispatch, semVars, TypeOK, OneOnCpu, WaitersAccounted, NoLostWakeup,
           Queued, CanGrant, LoopIdle
  <2> QED BY <2>1, <2>2
<1>17. ASSUME NEW t \in Threads, TimeoutHandler(t) PROVE IInv'
  <2>1. Queued(t) /\ status[t] = "waiting" /\ dying = {}
    BY <1>1, <1>17 DEF TimeoutHandler, LoopIdle, WaitersAccounted
  <2>2. /\ wait_queue' \in Seq(Threads)
        /\ Len(wait_queue') = Len(wait_queue) - 1
        /\ \A i, j \in 1..Len(wait_queue') :
                wait_queue'[i] = wait_queue'[j] => i = j
        /\ \A u \in Threads : (\E i \in 1..Len(wait_queue') : wait_queue'[i] = u)
                                <=> Queued(u) /\ u # t
    BY <1>1, <1>17, <2>1, UnlinkedFacts DEF TimeoutHandler
  <2>3. /\ wait_queue # <<>> /\ Len(wait_queue) \in Nat /\ Len(wait_queue') \in Nat
        /\ wait_count = Len(wait_queue)
    BY <1>1, <2>1, <2>2 DEF Queued, TypeOK, WaitersAccounted
  <2>4. wait_count' \in Nat /\ wait_count' = Len(wait_queue')
    BY <1>17, <2>2, <2>3 DEF TimeoutHandler
  <2>5. \A u \in Threads : Queued(u)' <=> Queued(u) /\ u # t
    BY <2>2 DEF Queued
  <2>6. TypeOK'
    BY <1>1, <1>17, <2>2, <2>4 DEF TimeoutHandler, ForgetCleanup, TypeOK, Statuses
  <2>7. OneOnCpu'
    BY <1>1, <1>17, <2>1 DEF TimeoutHandler, OneOnCpu, TypeOK
  <2>8. WaitersAccounted'
    BY <1>1, <1>17, <2>2, <2>4, <2>5
       DEF TimeoutHandler, ForgetCleanup, WaitersAccounted, TypeOK
  <2>9. NoLostWakeup'
    BY <1>1, <1>17, <2>3 DEF TimeoutHandler, NoLostWakeup, CanGrant
  <2> QED BY <2>6, <2>7, <2>8, <2>9
<1>18. ASSUME HandlerStart PROVE IInv'
  <2>1. TypeOK'
    BY <1>1, <1>18 DEF HandlerStart, semVars, TypeOK, Statuses, LoopIdle
  <2>2. OneOnCpu' /\ WaitersAccounted' /\ NoLostWakeup'
    BY <1>1, <1>18, SemaphoreAssumption
       DEF HandlerStart, semVars, TypeOK, OneOnCpu, WaitersAccounted, NoLostWakeup,
           Queued, CanGrant, LoopIdle
  <2> QED BY <2>1, <2>2
<1>19. ASSUME HandlerResume PROVE IInv'
  <2> DEFINE t == Head(wait_queue)
  <2>1. wait_queue # <<>> /\ wait_queue \in Seq(Threads) /\ resource_count > 0
    BY <1>1, <1>19 DEF HandlerResume, CanGrant, TypeOK
  <2>2. /\ t \in Threads /\ t = wait_queue[1]
        /\ Tail(wait_queue) \in Seq(Threads)
        /\ Len(wait_queue) \in Nat \ {0}
        /\ Len(Tail(wait_queue)) = Len(wait_queue) - 1
        /\ \A i \in 1..(Len(wait_queue) - 1) : Tail(wait_queue)[i] = wait_queue[i + 1]
    BY <2>1, HeadTailProperties, EmptySeq
  <2>3. /\ wait_queue' = Tail(wait_queue)
        /\ wait_count' = wait_count - 1
        /\ cleanup' = cleanup \ {t}
        /\ timer_set' = timer_set \ {t}
        /\ resource_count' = resource_count - 1
        /\ outcome' = [outcome EXCEPT ![t] = "ok"]
        /\ cpu' = t
        /\ status' = [status EXCEPT ![t] = "running"]
        /\ dying = {} /\ in_handler /\ UNCHANGED <<posted, in_handler, dying>>
    BY <1>19 DEF HandlerResume, ForgetCleanup, CountAfterGrant, InHandlerLoop
  <2> HIDE DEF t
  <2>4. \A i, j \in 1..Len(wait_queue) : wait_queue[i] = wait_queue[j] => i = j
    BY <1>1 DEF WaitersAccounted
  <2>5. \A i, j \in 1..Len(wait_queue') : wait_queue'[i] = wait_queue'[j] => i = j
    BY <2>2, <2>3, <2>4
  <2>6. \A u \in Threads : Queued(u)' <=> Queued(u) /\ u # t
    <3>1. ASSUME NEW u \in Threads, NEW i \in 1..Len(wait_queue'), wait_queue'[i] = u
          PROVE  Queued(u) /\ u # t
      <4>1. i + 1 \in 1..Len(wait_queue) /\ wait_queue[i + 1] = u
        BY <2>2, <2>3, <3>1
      <4> QED BY <2>2, <2>4, <4>1 DEF Queued
    <3>2. ASSUME NEW u \in Threads, NEW i \in 1..Len(wait_queue), wait_queue[i] = u, u # t
          PROVE  \E j \in 1..Len(wait_queue') : wait_queue'[j] = u
      <4>1. i - 1 \in 1..Len(wait_queue') /\ wait_queue'[i - 1] = u
        BY <2>2, <2>3, <3>2
      <4> QED BY <4>1
    <3> QED BY <3>1, <3>2 DEF Queued
  <2>7. wait_count' \in Nat /\ wait_count' = Len(wait_queue')
    BY <1>1, <2>2, <2>3 DEF WaitersAccounted
  <2>8. TypeOK'
    BY <1>1, <2>1, <2>2, <2>3, <2>7 DEF TypeOK, Statuses
  <2>9. OneOnCpu'
    BY <1>1, <2>2, <2>3 DEF OneOnCpu, TypeOK
  <2>10. WaitersAccounted'
    BY <1>1, <2>2, <2>3, <2>5, <2>6, <2>7 DEF WaitersAccounted, TypeOK
  <2>11. NoLostWakeup'
    BY <2>3 DEF NoLostWakeup
  <2> QED BY <2>8, <2>9, <2>10, <2>11
<1>20. ASSUME HandlerDone PROVE IInv'
  <2>1. TypeOK'
    BY <1>1, <1>20 DEF HandlerDone, semVars, TypeOK, Statuses, InHandlerLoop
  <2>2. OneOnCpu' /\ WaitersAccounted' /\ NoLostWakeup'
    BY <1>1, <1>20, SemaphoreAssumption
       DEF HandlerDone, semVars, TypeOK, OneOnCpu, WaitersAccounted, NoLostWakeup,
           Queued, CanGrant, InHandlerLoop
  <2> QED BY <2>1, <2>2
<1> QED
  BY <1>2, <1>3, <1>4, <1>5, <1>6, <1>7, <1>8, <1>10, <1>11, <1>12, <1>13,
     <1>14, <1>15, <1>16, <1>17, <1>18, <1>19, <1>20
     DEF Next, ThreadStep, LoopStep

----------------------------------------------------------------------------
\* The invariant holds throughout every execution.
THEOREM Invariant == Spec => []IInv
<1>1. Init => IInv
  BY InitIInv
<1>2. IInv /\ [Next]_vars => IInv'
  BY StepIInv
<1> QED BY <1>1, <1>2, PTL DEF Spec

\* Type correctness; wait_count, an unsigned in the code, never goes below zero.
THEOREM TypeCorrect == Spec => []TypeOK
<1>1. IInv => TypeOK
  BY DEF IInv
<1> QED BY <1>1, Invariant, PTL

\* ngx_http_lua_sema_cleanup, the two handlers and wait agree on who waits.
THEOREM Accounted == Spec => []WaitersAccounted
<1>1. IInv => WaitersAccounted
  BY DEF IInv
<1> QED BY <1>1, Invariant, PTL

\* A waiter and a resource are never left together without a scheduled handler.
THEOREM NoWakeupLost == Spec => []NoLostWakeup
<1>1. IInv => NoLostWakeup
  BY DEF IInv
<1> QED BY <1>1, Invariant, PTL

----------------------------------------------------------------------------
\* Only two steps lower resource_count, and wait takes one at once only from an
\* empty queue.
LEMMA TakersAreServed ==
    ASSUME IInv, [Next]_vars, resource_count' < resource_count, wait_queue # <<>>
    PROVE  /\ wait_queue' = Tail(wait_queue)
           /\ cpu' = Head(wait_queue)
           /\ outcome'[Head(wait_queue)] = "ok"
<1>1. resource_count \in Nat /\ wait_queue \in Seq(Threads)
      /\ outcome \in [Threads -> {"none", "ok", "timeout"}]
  BY DEF IInv, TypeOK
<1>2. CASE HandlerResume
  <2>1. Head(wait_queue) \in Threads
    BY <1>1, HeadTailProperties
  <2> QED BY <1>1, <1>2, <2>1 DEF HandlerResume
<1>3. ASSUME NEW n \in 1..MaxPost, Post(n) PROVE FALSE
  BY <1>1, <1>3 DEF Post
<1>4. ASSUME NEW t \in Threads, WaitAtOnce(t) PROVE FALSE
  BY <1>4 DEF WaitAtOnce, Available
<1>5. ASSUME NEW t \in Threads, ThreadStep(t), ~WaitAtOnce(t)
      PROVE  UNCHANGED resource_count
  BY <1>5 DEF ThreadStep, WaitDeclined, WaitYield, YieldElsewhere, Terminate, ExitRequest,
              Spawn, KillThread, CleanupPending, semVars
<1>6. ASSUME LoopStep, ~HandlerResume PROVE UNCHANGED resource_count
  BY <1>6 DEF LoopStep, HandlerStart, HandlerDone, AbortRequest, FinalizeThread, StartThread,
              Dispatch, TimeoutHandler, CleanupPending, semVars
<1>7. CASE UNCHANGED vars
  BY <1>1, <1>7 DEF vars
<1> QED BY <1>1, <1>2, <1>3, <1>4, <1>5, <1>6, <1>7 DEF Next

\* ngx_http_lua_ffi_sema_wait never overtakes a queued thread.
THEOREM FirstComeFirstServed == Spec => NoBarging
<1>1. IInv /\ [Next]_vars =>
        [resource_count' < resource_count /\ wait_queue # <<>>
           => /\ wait_queue' = Tail(wait_queue)
              /\ cpu' = Head(wait_queue)
              /\ outcome'[Head(wait_queue)] = "ok"]_vars
  BY TakersAreServed
<1> QED BY <1>1, Invariant, PTL DEF Spec, NoBarging
----------------------------------------------------------------------------
\* A queued thread that is unlinked leaves the abstract queue at its place.
LEMMA UnlinkedLeaves ==
    ASSUME TypeOK, NEW t \in Threads, Queued(t), wait_queue' = Unlinked(t),
           UNCHANGED resource_count,
           outcome' = [outcome EXCEPT ![t] = "timeout"] \/ UNCHANGED outcome
    PROVE  Classic!Leave
<1> DEFINE k == CHOOSE i \in 1..Len(wait_queue) : wait_queue[i] = t
<1>1. k \in 1..Len(wait_queue) /\ wait_queue[k] = t
  BY DEF Queued
<1>2. wait_queue' = RemoveAt(wait_queue, k)
  BY DEF Unlinked
<1> HIDE DEF k
<1>3. Classic!RemoveAt(wait_queue, k) = RemoveAt(wait_queue, k)
  BY DEF Classic!RemoveAt, RemoveAt
<1> QED BY <1>1, <1>2, <1>3 DEF Classic!Leave

\* The cleanup callback: a queued thread leaves, any other was not there.
LEMMA CleanupLeaves ==
    ASSUME IInv, NEW t \in Threads, CleanupPending(t), UNCHANGED outcome
    PROVE  Classic!Leave \/ UNCHANGED Classic!vars
<1>1. CASE t \in cleanup
  <2>1. Queued(t)
    BY <1>1 DEF IInv, WaitersAccounted
  <2> QED BY <1>1, <2>1, UnlinkedLeaves DEF IInv, CleanupPending, HasPending
<1>2. CASE t \notin cleanup
  BY <1>2 DEF CleanupPending, HasPending, semVars, Classic!vars
<1> QED BY <1>1, <1>2

\* Each step of the worker is a step of the classic semaphore, or changes nothing
\* of it.
LEMMA StepImplementsClassic ==
    ASSUME IInv, [Next]_vars
    PROVE  [Classic!Next]_(Classic!vars)
<1> USE DEF Classic!vars
<1>1. TypeOK /\ OneOnCpu /\ WaitersAccounted
  BY DEF IInv
<1>2. \A t \in Threads : Classic!Blocked(t) <=> status[t] = "waiting"
  BY <1>1 DEF WaitersAccounted, Queued, Classic!Blocked
<1>3. ASSUME NEW n \in 1..MaxPost, Post(n) PROVE Classic!Release
  BY <1>1, <1>3 DEF Post, TypeOK, Classic!Release
<1>4. ASSUME NEW t \in Threads, WaitAtOnce(t) PROVE Classic!TakeAtOnce(t)
  BY <1>1, <1>4 DEF WaitAtOnce, Available, Classic!TakeAtOnce
<1>5. ASSUME NEW t \in Threads, WaitDeclined(t) PROVE Classic!Refuse(t)
  BY <1>1, <1>2, <1>5 DEF WaitDeclined, Available, semVars, OneOnCpu, Classic!Refuse
<1>6. ASSUME NEW t \in Threads, WaitYield(t) PROVE Classic!Block(t)
  BY <1>1, <1>2, <1>6 DEF WaitYield, Available, OneOnCpu, Classic!Block
<1>7. ASSUME NEW t \in Threads, NEW u \in Threads, Spawn(t, u) PROVE Classic!Forget(u)
  BY <1>2, <1>7 DEF Spawn, semVars, Classic!Forget
<1>8. ASSUME NEW t \in Threads, YieldElsewhere(t) \/ ExitRequest(t)
      PROVE  UNCHANGED Classic!vars
  BY <1>8 DEF YieldElsewhere, ExitRequest, semVars
<1>9. ASSUME NEW t \in Threads, NEW u \in Threads,
             Terminate(t) \/ KillThread(t, u) \/ FinalizeThread(t)
      PROVE  Classic!Leave \/ UNCHANGED Classic!vars
  BY <1>9, CleanupLeaves DEF Terminate, KillThread, FinalizeThread
<1>10. ASSUME NEW t \in Threads, StartThread(t) PROVE Classic!Forget(t)
  <2>1. status[t] = "dead"
    BY <1>10 DEF StartThread, LiveThreadsOf
  <2> QED BY <1>2, <1>10, <2>1 DEF StartThread, semVars, Classic!Forget
<1>11. ASSUME NEW t \in Threads, TimeoutHandler(t) PROVE Classic!Leave
  <2>1. Queued(t)
    BY <1>1, <1>11 DEF TimeoutHandler, WaitersAccounted
  <2> QED BY <1>1, <1>11, <2>1, UnlinkedLeaves DEF TimeoutHandler
<1>12. ASSUME HandlerResume PROVE Classic!Grant
  BY <1>12 DEF HandlerResume, CanGrant, CountAfterGrant, Classic!Grant
<1>13. ASSUME HandlerStart \/ HandlerDone PROVE UNCHANGED Classic!vars
  BY <1>13 DEF HandlerStart, HandlerDone, semVars
<1>14. ASSUME NEW t \in Threads, Dispatch(t) PROVE UNCHANGED Classic!vars
  BY <1>14 DEF Dispatch, semVars
<1>15. CASE UNCHANGED vars
  BY <1>15 DEF vars
<1>16. ASSUME NEW r \in Requests, AbortRequest(r) PROVE UNCHANGED Classic!vars
  BY <1>16 DEF AbortRequest, semVars
<1> QED
  BY <1>3, <1>4, <1>5, <1>6, <1>7, <1>8, <1>9, <1>10, <1>11, <1>12, <1>13, <1>14, <1>15, <1>16
     DEF Next, ThreadStep, LoopStep, Classic!Next

\* ngx_http_lua_semaphore.c is a counting semaphore that serves its waiters in
\* the order they came: every execution of the worker, seen through
\* resource_count, wait_queue and what wait returns, is one of the classic
\* semaphore (but for its fairness).
THEOREM FifoSemaphore == Spec => Classic!Safety
<1>1. Init => Classic!Init
  BY DEF Init, Classic!Init
<1>2. IInv /\ [Next]_vars => [Classic!Next]_(Classic!vars)
  BY StepImplementsClassic
<1> QED BY <1>1, <1>2, Invariant, PTL DEF Spec, Classic!Safety
============================================================================
