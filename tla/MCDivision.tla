----------------------------- MODULE MCDivision -----------------------------
(* Division for TLC: words of 3 bits and double words of 6.                *)
EXTENDS Division
=============================================================================
