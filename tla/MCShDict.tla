----------------------------- MODULE MCShDict -----------------------------
(* Small zones.  The pool is a few units, so that evictions happen.        *)
EXTENDS ShDict

CONSTANTS k1, k2, k3, k4, k5, k6

Small == [type |-> "string", data |-> 0, len |-> 1]     \* as long as a number
Big == [type |-> "string", data |-> 0, len |-> 3]

MCKeys == {k1, k2, k3}
MCScalars == {Small, Big}
MCElements == {Small, Big}
MCNone == {}
MCOne == {1}
MCSmall == {Small}
MCSixKeys == {k1, k2, k3, k4, k5, k6}
Symmetry == Permutations(Keys)

\* The reply is what the last operation returned, not state of the zone.
ZoneView == <<sh, now>>
===========================================================================
