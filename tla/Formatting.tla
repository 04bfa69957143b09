----------------------------- MODULE Formatting -----------------------------
(***************************************************************************)
(* sw_vsprintf, behind TEE_Printf, sw_sprintf and the bare-metal client's  *)
(* Client_Printf.  A format is a sequence of characters; the characters    *)
(* that go out are numbers, the digit d being Zero + d.                    *)
(*                                                                         *)
(* fmt, at   the format, and where fmt points; Len(fmt) + 1 is its end     *)
(* str       what was written so far                                       *)
(* shown     the last number converted: conv; word, the argument; pad,     *)
(*           zero_padding; digits and sign, what was written for it        *)
(***************************************************************************)
EXTENDS Integers, Sequences, SequencesExt

CONSTANTS Formats,   \* bound: the formats
          Octals     \* octal digits of a word behind its two highest bits: 10

ASSUME FormatsAssumption == Formats \subseteq Seq(STRING)

VARIABLES fmt, at, str, shown
formatVars == <<fmt, at, str, shown>>

Zero == 48
Sign == 45
WordSize == 4 * 8 ^ Octals
Nibbles == CHOOSE k \in 1 .. WordSize : 16 ^ k = WordSize
Decimals == CHOOSE k \in 1 .. WordSize : 10 ^ (k - 1) < WordSize /\ WordSize <= 10 ^ k
Words32 == 0 .. WordSize - 1
Signed(w) == IF 2 * w >= WordSize THEN w - WordSize ELSE w

NoNumber == [conv |-> "none", word |-> 0, pad |-> 0, sign |-> FALSE, digits |-> << >>]

-----------------------------------------------------------------------------
(* Digit k of n in a base, from the left of a number of that many digits.  *)
Digit(w, base, digits, k) == (w \div base ^ (digits - k)) % base

(* Mutant: one zero too few.                                               *)
KeptShort(all, pad) ==
    LET n == Len(all)
        keeps == {k \in 1 .. n : (\E j \in 1 .. k : all[j] # 0) \/ k > n - pad + 1}
    IN  IF keeps = {} THEN << >>
        ELSE SubSeq(all, CHOOSE k \in keeps : \A j \in keeps : k <= j, n)

(* keep_zeros: a zero before the first other digit is written only among   *)
(* the last pad.                                                           *)
Kept(all, pad) ==
    LET n == Len(all)
        keeps == {k \in 1 .. n : (\E j \in 1 .. k : all[j] # 0) \/ k > n - pad}
    IN  IF keeps = {} THEN << >>
        ELSE SubSeq(all, CHOOSE k \in keeps : \A j \in keeps : k <= j, n)

Hex(w, pad) == Kept([k \in 1 .. Nibbles |-> Digit(w, 16, Nibbles, k)], pad)

(* The two highest bits are a digit of their own.                          *)
Octal(w, pad) ==
    Kept(<<w \div 8 ^ Octals>> \o [k \in 1 .. Octals |-> Digit(w, 8, Octals, k)], pad)

(* The powers of ten are subtracted from an int as long as it is not below *)
(* them, and what is left is the last digit: from a negative int nothing   *)
(* is.                                                                     *)
Decimal(n, pad) ==
    LET all == [k \in 1 .. Decimals - 1 |-> IF n < 0 THEN 0 ELSE Digit(n, 10, Decimals, k)]
    IN  Kept(all, pad - 1) \o <<IF n < 0 THEN n ELSE n % 10>>

(* The sign is tested before the number is negated, in the int's width.    *)
Number(conv, w, pad) ==
    LET neg == conv \in {"i", "d"} /\ Signed(w) < 0
    IN  [conv |-> conv, word |-> w, pad |-> pad, sign |-> neg,
         digits |-> CASE conv = "x" -> Hex(w, pad)
                      [] conv = "o" -> Octal(w, pad)
                      [] OTHER -> Decimal(IF neg THEN Signed((WordSize - w) % WordSize)
                                          ELSE Signed(w), pad)]

Chars(n) == (IF n.sign THEN <<Sign>> ELSE << >>) \o [k \in DOMAIN n.digits |-> Zero + n.digits[k]]

-----------------------------------------------------------------------------
(* At k, behind the format's last character stands its end; what stands    *)
(* behind that is not the format's.                                        *)
At(k) == IF k <= Len(fmt) THEN fmt[k] ELSE "end"

(* What follows a %: 0 and a digit, then l, may stand before the letter.   *)
(* The digit, whatever it is, less the code of 0, is the padding: negative *)
(* for a character before 0, wider than any number for a letter.           *)
HasPad == At(at + 1) = "0"
PadOf(c) == CASE c = "0" -> 0 [] c = "1" -> 1 [] c = "2" -> 2 [] c = "3" -> 3
              [] c = "end" -> -Zero [] c = "tab" -> 9 - Zero [] c = "newline" -> 10 - Zero
              [] c = "%" -> 37 - Zero [] OTHER -> WordSize
Pad == IF HasPad THEN PadOf(At(at + 2)) ELSE 1
AfterPad == at + (IF HasPad THEN 3 ELSE 1)

(* Mutant: the letter behind l is not looked for.                          *)
LetterSkipped == AfterPad + 1

Letter == IF At(AfterPad) = "l" THEN AfterPad + 1 ELSE AfterPad

LineEnd(c) == CASE c = "newline" -> <<"\r", "\n">> [] c = "tab" -> <<"\t">> [] OTHER -> << >>

FormatInit ==
    /\ fmt \in Formats
    /\ at = 1
    /\ str = << >>
    /\ shown = NoNumber

(* Any other character is copied.                                          *)
CopyCharacter ==
    /\ at <= Len(fmt) /\ fmt[at] \notin {"%", "newline", "tab"}
    /\ str' = Append(str, fmt[at])
    /\ at' = at + 1
    /\ UNCHANGED <<fmt, shown>>

BreakLine ==
    /\ at <= Len(fmt) /\ fmt[at] \in {"newline", "tab"}
    /\ str' = str \o LineEnd(fmt[at])
    /\ at' = at + 1
    /\ UNCHANGED <<fmt, shown>>

ConvertNumber ==
    /\ at <= Len(fmt) /\ fmt[at] = "%" /\ At(Letter) \in {"x", "u", "i", "d", "o"}
    /\ \E w \in Words32 :
          /\ shown' = Number(At(Letter), w, Pad)
          /\ str' = str \o Chars(shown')
    /\ at' = Letter + 1
    /\ UNCHANGED fmt

(* %s and %c write their argument, %% itself, and a line end is written    *)
(* with a % before it and a second time behind it.                         *)
ConvertOther ==
    LET c == At(Letter)
    IN  /\ at <= Len(fmt) /\ fmt[at] = "%" /\ c \notin {"x", "u", "i", "d", "o"}
        /\ str' = str \o (CASE c = "%" -> <<"%">>
                            [] c \in {"s", "c"} -> <<"argument">>
                            [] c \in {"newline", "tab"} -> <<"%">> \o LineEnd(c) \o LineEnd(c)
                            [] OTHER -> << >>)
        /\ at' = Letter + 1
        /\ UNCHANGED <<fmt, shown>>

FormatNext == CopyCharacter \/ BreakLine \/ ConvertNumber \/ ConvertOther

FormatSpec == FormatInit /\ [][FormatNext]_formatVars

-----------------------------------------------------------------------------
Value(digits, base) ==
    LET upTo[k \in 0 .. Len(digits)] == IF k = 0 THEN 0 ELSE upTo[k - 1] * base + digits[k]
    IN  upTo[Len(digits)]

(* What stands in the string for a number is that number, of as many       *)
(* digits as were asked for, and no leading zero beyond them; but for an   *)
(* unsigned number of more than INT_MAX and for INT_MIN.                   *)
NumbersShown ==
    LET n == shown
        base == CASE n.conv = "x" -> 16 [] n.conv = "o" -> 8 [] OTHER -> 10
        value == Value(n.digits, base)
        asked == IF n.pad < 1 THEN 1 ELSE n.pad
    IN  (n.conv # "none" /\ ~(n.conv = "u" /\ 2 * n.word >= WordSize)
                         /\ ~(n.conv \in {"i", "d"} /\ 2 * n.word = WordSize))
            => /\ (IF n.sign THEN -value ELSE value)
                    = (IF n.conv \in {"i", "d"} THEN Signed(n.word) ELSE n.word)
               /\ Len(n.digits) >= asked \/ (n.pad < 1 /\ n.word = 0)
               /\ Len(n.digits) > asked => n.digits[1] # 0

(* The format is read to its end and no further, unless a conversion is    *)
(* not finished at its end: then what lies behind it is taken for more of  *)
(* the format.                                                             *)
Unfinished ==
    \E k \in DOMAIN fmt :
        LET rest == SubSeq(fmt, k + 1, Len(fmt))
            n == Len(rest)
        IN  /\ fmt[k] = "%"
            /\ \/ rest \in {<< >>, <<"l">>, <<"0">>}
               \/ rest[1] = "0" /\ (n = 2 \/ (n = 3 /\ rest[3] = "l"))

ReadsFormat == at <= Len(fmt) + 1 \/ Unfinished

=============================================================================
