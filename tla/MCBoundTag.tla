----------------------------- MODULE MCBoundTag -----------------------------
(* BoundTag for TLC.  Blocks of 1 and 4 words: a block of 1 word that is   *)
(* free is too small for any request, one that merged with a neighbour is  *)
(* handed out whole.                                                       *)
EXTENDS BoundTag
=============================================================================
