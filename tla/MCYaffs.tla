------------------------------ MODULE MCYaffs -------------------------------
(* Yaffs for TLC: eleven blocks, as few as yaffs_GutsInitialise accepts,   *)
(* most of them bad from the factory.  Objects are alike, and so are       *)
(* contents.                                                               *)
EXTENDS Yaffs, TLC

CONSTANTS o1, o2, x, y

Symmetry == Permutations({o1, o2}) \cup Permutations({x, y})
=============================================================================
