------------------------------ MODULE MCTzCall ------------------------------
(* TzCall for TLC: two threads of one client process (they share a file    *)
(* descriptor and so a client UUID) and one thread of another.  The two    *)
(* of one process are alike.  The pool may refuse any task, or its stack.  *)
EXTENDS TzCall

CONSTANTS t1, t2, t3, c1, c2

MCThreads == {t1, t2, t3}
MCClientOf == t1 :> c1 @@ t2 :> c1 @@ t3 :> c2
Symmetry == Permutations({t1, t2})
=============================================================================
