------------------------- MODULE MCTzCallRefinement -------------------------
(* TzCallRefinement for TLC: the threads of one client process, two where  *)
(* one is to close or invoke a session under the other's feet.             *)
EXTENDS TzCallRefinement

CONSTANT c1

MCClientOf == [t \in Threads |-> c1]
=============================================================================
