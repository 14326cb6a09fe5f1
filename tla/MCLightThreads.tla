-------------------------- MODULE MCLightThreads --------------------------
(* A request with two user threads and one coroutine.                      *)
EXTENDS LightThreads, TLC

CONSTANTS u1, u2

MCUthreads == {u1, u2}
Symmetry == Permutations(Uthreads)
===========================================================================
