---------------------------- MODULE NumberLemmas ----------------------------
(***************************************************************************)
(* Numbers and functions on them, for the other proofs: what induction     *)
(* gives, said with sets.                                                  *)
(***************************************************************************)
EXTENDS WellFoundedInduction, TLAPS

(* A set of numbers has a least one, and if it is bounded a greatest.      *)
LEMMA LeastNumber ==
    ASSUME NEW S \in SUBSET Nat, S # {}
    PROVE  \E m \in S : \A n \in S : m <= n
  <1> DEFINE R == {p \in Nat \X Nat : p[1] < p[2]}
  <1>1. IsWellFoundedOn(R, Nat)
    BY NatLessThanWellFounded DEF OpToRel
  <1>2. PICK m \in S : \A n \in S : ~(<<n, m>> \in R)
    BY <1>1, WFMin
  <1>3. \A n \in S : m <= n
    <2> TAKE n \in S
    <2>1. <<n, m>> \in Nat \X Nat /\ <<n, m>>[1] = n /\ <<n, m>>[2] = m
      OBVIOUS
    <2> QED
      BY <1>2, <2>1
  <1> QED
    BY <1>3

LEMMA GreatestNumber ==
    ASSUME NEW S \in SUBSET Nat, S # {}, NEW top \in Nat, \A n \in S : n <= top
    PROVE  \E m \in S : \A n \in S : n <= m
  <1> DEFINE Gaps == {g \in 0 .. top : top - g \in S}
  <1>1. Gaps \in SUBSET Nat /\ Gaps # {}
    <2>1. PICK n \in S : TRUE
      OBVIOUS
    <2>2. top - n \in 0 .. top /\ top - (top - n) = n
      BY <2>1
    <2>3. top - n \in Gaps
      BY <2>2
    <2>4. \A g \in Gaps : g \in Nat
      OBVIOUS
    <2> QED
      BY <2>3, <2>4
  <1>2. PICK g \in Gaps : \A k \in Gaps : g <= k
    BY <1>1, LeastNumber
  <1>3. \A n \in S : n <= top - g
    <2> TAKE n \in S
    <2>1. top - n \in 0 .. top /\ top - (top - n) = n
      OBVIOUS
    <2>2. top - n \in Gaps
      BY <2>1
    <2> QED
      BY <1>2, <2>2
  <1> QED
    BY <1>3

(* A function's values from x on, by repeated application: what stands      *)
(* behind a recursive function.                                            *)
Iterates(f, S, x, g, n) ==
    /\ f \in [0 .. n -> S]
    /\ \A k \in 0 .. n : f[k] = IF k = 0 THEN x ELSE g[f[k - 1]]

LEMMA Iterate ==
    ASSUME NEW S, NEW x \in S, NEW g \in [S -> S], NEW n \in Nat
    PROVE  \E f : Iterates(f, S, x, g, n)
  <1> DEFINE Works(m) == \E f \in [0 .. m -> S] :
                 \A k \in 0 .. m : f[k] = IF k = 0 THEN x ELSE g[f[k - 1]]
             Bad == {m \in Nat : ~Works(m)}
  <1> SUFFICES ASSUME Bad # {} PROVE FALSE
    BY DEF Iterates
  <1>1. Bad \in SUBSET Nat
    OBVIOUS
  <1>2. PICK m \in Bad : \A j \in Bad : m <= j
    BY <1>1, LeastNumber
  <1>3. m # 0
    <2> DEFINE f == [k \in 0 .. 0 |-> x]
    <2>1. f \in [0 .. 0 -> S] /\ \A k \in 0 .. 0 : f[k] = IF k = 0 THEN x ELSE g[f[k - 1]]
      OBVIOUS
    <2> QED
      BY <2>1
  <1>4. m - 1 \in Nat /\ m - 1 \notin Bad
    BY <1>2, <1>3
  <1>5. PICK f \in [0 .. m - 1 -> S] :
           \A k \in 0 .. m - 1 : f[k] = IF k = 0 THEN x ELSE g[f[k - 1]]
    BY <1>4
  <1> DEFINE h == [k \in 0 .. m |-> IF k = m THEN g[f[m - 1]] ELSE f[k]]
  <1>6. h \in [0 .. m -> S]
    BY <1>4
  <1>7. \A k \in 0 .. m : h[k] = IF k = 0 THEN x ELSE g[h[k - 1]]
    BY <1>3, <1>4, <1>5
  <1> QED
    BY <1>2, <1>6, <1>7

(* A set that has 0, and with each number the next one, has all up to n.   *)
LEMMA Upwards ==
    ASSUME NEW n \in Nat, NEW T, 0 \in T, \A k \in 0 .. n - 1 : k \in T => k + 1 \in T
    PROVE  \A k \in 0 .. n : k \in T
  <1> DEFINE Bad == {k \in 0 .. n : k \notin T}
  <1> SUFFICES ASSUME Bad # {} PROVE FALSE
    OBVIOUS
  <1>1. PICK m \in Bad : \A k \in Bad : m <= k
    <2>1. Bad \in SUBSET Nat
      OBVIOUS
    <2> QED
      BY <2>1, LeastNumber
  <1>2. m # 0 /\ m - 1 \in 0 .. n - 1 /\ (m - 1) + 1 = m
    OBVIOUS
  <1>3. m - 1 \notin Bad
    BY <1>1, <1>2
  <1> QED
    BY <1>2, <1>3

=============================================================================
