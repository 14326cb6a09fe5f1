--------------------------- MODULE MCLimitTraffic ---------------------------
(* Three limiters of one dictionary, tight enough to reject some of three  *)
(* requests, or two limiters in dictionaries of their own.                 *)
EXTENDS LimitTraffic, TLC

CONSTANTS r1, r2, r3

MCMax == <<1, 1, 1>>
MCBurst == <<1, 0, 1>>
MCOneDict == <<"store", "store", "store">>
MCKeys == <<"host", "client", "user">>

MCMaxTwo == <<1, 2>>
MCBurstTwo == <<0, 0>>
MCTwoDicts == <<"host_store", "client_store">>
MCKeysTwo == <<"host", "client">>

\* What the theorems ask of a configuration is so in both.
ASSUME MCConfiguration == UndoApart /\ UndoHits /\ LastApart

MCSymmetry == Permutations(Requests)
=============================================================================
