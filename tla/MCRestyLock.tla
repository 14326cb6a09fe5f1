---------------------------- MODULE MCRestyLock ----------------------------
(* A light thread in each of two workers.                                  *)
EXTENDS RestyLock, TLC

CONSTANTS o1, o2, w1, w2, k1, k2

MCWorkerOf == (o1 :> w1) @@ (o2 :> w2)

Opt(timeout, exptime, step) == [timeout |-> timeout, exptime |-> exptime, step |-> step]

\* A step of 0, which only the floor of a millisecond lets grow, and whose
\* third pause the timeout cuts; one that new cuts to the timeout; one that it
\* does not cut to the default timeout.
MCOptions == {Opt(2, Nil, 0), Opt(1, 2, 2), Opt(Nil, 1, 3)}
============================================================================
