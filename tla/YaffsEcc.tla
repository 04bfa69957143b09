------------------------------ MODULE YaffsEcc ------------------------------
(***************************************************************************)
(* The two codes of YAFFS: that of yaffs_ecc.c over half a page of data,   *)
(* and that of yaffs_guts.c over the tags in the spare area.  Words are    *)
(* the sets of their bits' places; a place that changes by itself between  *)
(* write and read is flipped.                                              *)
(*                                                                         *)
(* page     the data bits written, places 0 .. 2^AddressBits - 1 (2^11 in  *)
(*          the code); code: the set bits <<j, v>> of its ecc              *)
(* tags     the bits of the tags, places 1 .. TagBits (64) as yaffs_Tags   *)
(*          lays them out, those of the field ecc not among them           *)
(* field    what is in the field ecc                                       *)
(* flipped  the flips since: <<"data", p>>, <<"code", c>>, <<"tag", p>>,   *)
(*          <<"field", weight>>                                            *)
(* got      what was read: page, tags, and the results of the two checks   *)
(***************************************************************************)
EXTENDS Integers, FiniteSets, FiniteSetsExt, Bitwise

CONSTANTS AddressBits, TagBits,
          EccPlaces,    \* of the field ecc among the places of the tags
          Pages, TagSets,   \* bound: what is written
          MaxFlips          \* bound

VARIABLES page, code, tags, field, flipped, got
eccVars == <<page, code, tags, field, flipped, got>>

DataPlaces == 0 .. 2 ^ AddressBits - 1
CodePlaces == (0 .. AddressBits - 1) \X {0, 1}
TagPlaces == (1 .. TagBits) \ EccPlaces
Weights == {2 ^ k : k \in 0 .. Cardinality(EccPlaces) - 1}

Odd(s) == Cardinality(s) % 2 = 1
Flip(s, t) == (s \ t) \union (t \ s)
AddressBit(p, j) == (p \div 2 ^ j) % 2

-----------------------------------------------------------------------------
(* Bit <<j, v>> is the parity, inverted, of the places whose address bit j *)
(* is v: the column parities for the places in a byte, which the table     *)
(* holds for each byte, and the line parities for the bytes.               *)
ECCCalculate(data) ==
    {c \in CodePlaces : ~Odd({p \in data : AddressBit(p, c[1]) = c[2]})}

(* Mutant: the place is taken from the wrong bit of each pair.             *)
PlaceComplement(d) == SumSet({2 ^ j : j \in {i \in 0 .. AddressBits - 1 : <<i, 0>> \in d}})

Place(d) == SumSet({2 ^ j : j \in {i \in 0 .. AddressBits - 1 : <<i, 1>> \in d}})

(* One of each pair differs: a data bit, which is corrected.  One alone:   *)
(* a bit of the ecc.                                                       *)
ECCCorrect(data, read, test) ==
    LET d == Flip(read, test)
    IN  IF d = {} THEN [page |-> data, result |-> 0]
        ELSE IF \A j \in 0 .. AddressBits - 1 : (<<j, 0>> \in d) # (<<j, 1>> \in d)
        THEN [page |-> Flip(data, {Place(d)}), result |-> 1]
        ELSE [page |-> data, result |-> IF Cardinality(d) = 1 THEN 1 ELSE -1]

-----------------------------------------------------------------------------
(* The exclusive or of the places of the bits set.                         *)
CalcTagsECC(t) == FoldSet(LAMBDA p, x : p ^^ x, 0, t)

(* Any difference that is a place is taken for a flip there, one in the    *)
(* field ecc itself too; the field is then calculated again.               *)
CheckECCOnTags(t, ecc) ==
    LET d == ecc ^^ CalcTagsECC(t)
    IN  IF d = 0 THEN [tags |-> t, result |-> 0]
        ELSE IF d <= TagBits THEN [tags |-> Flip(t, {d} \ EccPlaces), result |-> 1]
        ELSE [tags |-> t, result |-> -1]

-----------------------------------------------------------------------------
Nothing == [page |-> {}, tags |-> {}, dataResult |-> 2, tagResult |-> 2]

EccInit ==
    /\ page \in Pages /\ code = ECCCalculate(page)
    /\ tags \in TagSets /\ field = CalcTagsECC(tags)
    /\ flipped = {}
    /\ got = Nothing

FlipBit(f) ==
    /\ got = Nothing /\ Cardinality(flipped) < MaxFlips
    /\ flipped' = flipped \union {f}
    /\ UNCHANGED <<page, code, tags, field, got>>

Flipped(kind) == {f[2] : f \in {g \in flipped : g[1] = kind}}

(* yaffs_ReadChunkFromNAND of a chunk, without the device's own ecc, and   *)
(* yaffs_GetTagsFromSpare.                                                 *)
ReadBack ==
    LET data == Flip(page, Flipped("data"))
        d == ECCCorrect(data, Flip(code, Flipped("code")), ECCCalculate(data))
        t == CheckECCOnTags(Flip(tags, Flipped("tag")),
                            FoldSet(LAMBDA w, x : w ^^ x, field, Flipped("field")))
    IN  /\ got = Nothing
        /\ got' = [page |-> d.page, tags |-> t.tags, dataResult |-> d.result, tagResult |-> t.result]
        /\ UNCHANGED <<page, code, tags, field, flipped>>

EccNext ==
    \/ \E p \in DataPlaces : FlipBit(<<"data", p>>)
    \/ \E c \in CodePlaces : FlipBit(<<"code", c>>)
    \/ \E p \in TagPlaces : FlipBit(<<"tag", p>>)
    \/ \E w \in Weights : FlipBit(<<"field", w>>)
    \/ ReadBack

EccSpec == EccInit /\ [][EccNext]_eccVars

-----------------------------------------------------------------------------
(* The data come back as they were written after one flip, in the data or  *)
(* in the ecc; after two they come back or the read says that they do not. *)
(* The tags come back after one flip that is not in the field ecc: a flip  *)
(* there is taken for one of a tag bit.                                    *)
FlipsCorrected ==
    got # Nothing =>
        LET n == Cardinality(Flipped("data")) + Cardinality(Flipped("code"))
        IN  /\ n <= 1 => got.page = page
            /\ n = 2 => got.page = page \/ got.dataResult = -1
            /\ Flipped("field") = {} /\ Cardinality(Flipped("tag")) <= 1 => got.tags = tags
            /\ flipped = {} => got.dataResult = 0 /\ got.tagResult = 0

=============================================================================
