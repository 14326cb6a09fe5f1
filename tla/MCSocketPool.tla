---------------------------- MODULE MCSocketPool ----------------------------
(* Two sockets, two keys, pools of one or two connections.                 *)
EXTENDS SocketPool, TLC

\* From the first misfiled connection on the counts are off, for good.
BeforeMisfiling == ~misfiled

Symmetry == Permutations(Sockets) \cup Permutations(Keys)
            \cup Permutations(Conns) \cup Permutations(PoolIds)
=============================================================================
