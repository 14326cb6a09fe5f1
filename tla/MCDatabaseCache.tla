--------------------------- MODULE MCDatabaseCache ---------------------------
(* Two workers, each with room for one of the two keys and with one call   *)
(* at a time.                                                              *)
EXTENDS DatabaseCache, TLC

CONSTANTS k1, k2, w1, w2, t1, t2

MCWorkerOf == (t1 :> w1) @@ (t2 :> w2)

\* The workers change places together with their threads.
Swap == (w1 :> w2) @@ (w2 :> w1) @@ (t1 :> t2) @@ (t2 :> t1)

Symmetry == Permutations(Keys) \cup {Swap}

\* With every key excused there is nothing left to compare.
OneAccountable == excused # Keys
=============================================================================
