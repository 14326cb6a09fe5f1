---------------------------- MODULE MCSemaphore ----------------------------
(* Three light threads, two of them in one request, share one semaphore.   *)
EXTENDS Semaphore

CONSTANTS t1, t2, t3, r1, r2

MCThreads == {t1, t2, t3}
MCRequests == {r1, r2}
MCReqOf == [t \in MCThreads |-> IF t = t3 THEN r2 ELSE r1]
MCParent == [t \in MCThreads |-> IF t = t2 THEN t1 ELSE None]
============================================================================
