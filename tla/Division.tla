------------------------------ MODULE Division ------------------------------
(***************************************************************************)
(* The division routines that the compiler calls on a core without a       *)
(* divide instruction: T-OS's lib/tee_div.c, and the bare-metal client's   *)
(* lib/div.c, which has the 64 bit one as well.  Each recursive call, and  *)
(* each round of its shifting loop, is a step.                             *)
(*                                                                         *)
(* f, a, b   the routine that was called, its dividend and its divisor     *)
(* pc        "idle", "recurse" at the head of the recursive function,      *)
(*           "shift" in its loop, "done", "hang" in while(1)               *)
(* dividend, acc   the arguments of the recursive function                 *)
(* tmp, res  its variables                                                 *)
(* quot, rem what was returned; 0 if the routine does not return it        *)
(***************************************************************************)
EXTENDS Integers

CONSTANTS Top,      \* the highest bit of uint32_t
          LongTop,  \* the highest bit of uint64_t
          Powers    \* the powers of two below 2 * LongTop

ASSUME DivisionAssumption ==
    /\ Top \in Nat \ {0} /\ LongTop \in Nat \ {0}
    /\ Powers \subseteq Nat \ {0}
    /\ LongTop = 2 * Top * Top

VARIABLES f, a, b, pc, dividend, acc, tmp, res, quot, rem
divVars == <<f, a, b, pc, dividend, acc, tmp, res, quot, rem>>

Routines == {"uidiv", "idivmod", "uidivmod", "uldivmod"}
TopOf(g) == IF g = "uldivmod" THEN LongTop ELSE Top
Words(g) == 0 .. 2 * TopOf(g) - 1

(* is_power_of2 takes a uint32_t, of the 64 bit routine's divisor too.     *)
Narrow(n) == n % (2 * Top)
IsPowerOf2(n) == n \in Powers

-----------------------------------------------------------------------------
DivInit ==
    /\ f = "uidiv" /\ a = 0 /\ b = 0 /\ pc = "idle"
    /\ dividend = 0 /\ acc = 0 /\ tmp = 0 /\ res = 0 /\ quot = 0 /\ rem = 0

Return(g, q, r) ==
    /\ pc' = "done"
    /\ quot' = IF g \in {"uidiv", "uldivmod"} THEN q ELSE 0
    /\ rem' = IF g = "uidiv" THEN 0 ELSE r

(* The routine g is called; it keeps nothing for a later call.  A shift by *)
(* get_power_of2(d) divides by d, and & (d - 1) leaves the remainder.      *)
Enter(g, x, y) ==
    /\ pc = "idle"
    /\ f' = g /\ a' = x /\ b' = y
    /\ \/ /\ y = 0 /\ g = "uidiv"
          /\ Return(g, 0, 0) /\ UNCHANGED <<dividend, acc, tmp, res>>
       \/ /\ y = 0 /\ g # "uidiv"
          /\ pc' = "hang" /\ UNCHANGED <<dividend, acc, tmp, res, quot, rem>>
       \/ /\ y # 0 /\ x < y
          /\ Return(g, 0, x) /\ UNCHANGED <<dividend, acc, tmp, res>>
       \/ /\ y # 0 /\ x >= y /\ IsPowerOf2(Narrow(y))
          /\ LET q == x \div Narrow(y)
             IN  Return(g, q, IF g = "uldivmod" THEN (x - q * y) % (2 * LongTop)
                              ELSE x % Narrow(y))
          /\ UNCHANGED <<dividend, acc, tmp, res>>
       \/ /\ y # 0 /\ x >= y /\ ~IsPowerOf2(Narrow(y))
          /\ pc' = "recurse" /\ dividend' = x /\ acc' = 0
          /\ UNCHANGED <<tmp, res, quot, rem>>

(* The head of the recursive function.                                     *)
Recurse ==
    /\ pc = "recurse"
    /\ \/ /\ dividend < b
          /\ Return(f, acc, dividend)
          /\ UNCHANGED <<tmp, res>>
       \/ /\ dividend >= b
          /\ pc' = "shift" /\ tmp' = b /\ res' = 1
          /\ UNCHANGED <<quot, rem>>
    /\ UNCHANGED <<f, a, b, dividend, acc>>

(* Mutant: the last shift is not taken back.                               *)
MoreGreedy == dividend > tmp /\ tmp < TopOf(f)

(* The loop goes on: the highest bit of tmp is clear, and it fits once     *)
(* more.                                                                   *)
More == dividend > tmp /\ tmp < TopOf(f) /\ 2 * tmp <= dividend

(* Neither res nor acc can exceed the quotient, so they do not wrap.       *)
Shift ==
    /\ pc = "shift"
    /\ \/ /\ More
          /\ tmp' = 2 * tmp /\ res' = 2 * res
          /\ UNCHANGED <<pc, dividend, acc>>
       \/ /\ ~More
          /\ pc' = "recurse" /\ dividend' = dividend - tmp /\ acc' = acc + res
          /\ UNCHANGED <<tmp, res>>
    /\ UNCHANGED <<f, a, b, quot, rem>>

DivNext ==
    \/ \E g \in Routines : \E x, y \in Words(g) : Enter(g, x, y)
    \/ Recurse
    \/ Shift

DivSpec == DivInit /\ [][DivNext]_divVars

-----------------------------------------------------------------------------
Exact ==
    /\ f \in {"uidiv", "uldivmod"} => \E r \in 0 .. b - 1 : a = quot * b + r
    /\ f # "uidiv" => \E q \in 0 .. a : a = q * b + rem /\ rem \in 0 .. b - 1

(* What the comment over each routine says: it divides, whatever the       *)
(* operands are.                                                           *)
LongDivisionExact == pc = "done" /\ b # 0 => Exact

(* Of operands that are not negative, every routine returns the quotient,  *)
(* or the remainder, that it is called for, but for the 64 bit one with a  *)
(* divisor that does not fit 32 bits and whose low word is a power of two; *)
(* and no variable of the loop leaves its word.                            *)
DivisionExact ==
    /\ pc = "done" /\ b # 0 /\ ~(b >= 2 * Top /\ IsPowerOf2(Narrow(b))) => Exact
    /\ pc = "shift" => tmp \in Words(f) /\ acc + res \in Words(f)

=============================================================================
