---------------------------- MODULE MCYaffsNames ----------------------------
(* YaffsNames for TLC: three objects, two names and two handles, and the   *)
(* flags that applications combine.                                        *)
EXTENDS YaffsNames, TLC

CONSTANTS o1, o2, o3, h1, h2

Symmetry == Permutations({o1, o2, o3}) \cup Permutations({h1, h2})
MCOpenFlags == {{"write"}, {"create", "write"}, {"trunc", "write"}, {"excl"}}
=============================================================================
