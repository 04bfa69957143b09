------------------------------ MODULE PageAlloc ------------------------------
(***************************************************************************)
(* The physical page allocator of T-OS (core/tee_mem_mng.c): a bitmap with *)
(* one bit per 4 KiB page and the index first_valid_phy_bmp_index at which *)
(* the next scan starts.  TEE_AllocPages takes the lowest run of clear     *)
(* bits at or above that index; TEE_FreePages clears the bits of a run and *)
(* lowers the index to the run when the run lies below it.                 *)
(*                                                                         *)
(* used   the set bits of the bitmap (g_tee_mem_info.phy_mem_bmp)          *)
(* first  g_tee_mem_info.first_valid_phy_bmp_index                         *)
(* held   the runs the callers have and may give back: the addresses that  *)
(*        TEE_AllocPages returned, with the page count asked for           *)
(***************************************************************************)
EXTENDS Integers, FiniteSets

CONSTANTS NumPages,      \* bits in the bitmap: phy_mem_bmp_len * 8
          ReservedPages, \* pages of the T-OS image and of the bitmap itself
          MaxRun         \* bound: the largest page count a caller asks for

ASSUME PagesAssumption ==
    /\ NumPages \in Nat /\ ReservedPages \in Nat /\ MaxRun \in Nat
    /\ ReservedPages <= NumPages

Pages == 0 .. NumPages - 1

Run == [start : Pages, num : 1 .. MaxRun]

PagesOf(r) == r.start .. (r.start + r.num - 1)

VARIABLES used, first, held
vars == <<used, first, held>>

-----------------------------------------------------------------------------
(* TEE_InitMemBmp: the pages from the image's start to one page past the   *)
(* bitmap are set, and the scan starts after them.                         *)
Init ==
    /\ used = 0 .. ReservedPages - 1
    /\ first = ReservedPages
    /\ held = {}

(* Where the scan loop can stop: n clear bits in a row, none below first.  *)
Fits(n) ==
    {i \in first .. NumPages - n : i .. (i + n - 1) \cap used = {}}

(* The scan stops at the first of them.  The index is left at the start of *)
(* the run that was just taken, not after it, even when that skips clear   *)
(* bits below; the call returns NULL when there is none.                   *)
AllocPages(n) ==
    \/ \E i \in Fits(n) :
          /\ \A j \in Fits(n) : i <= j
          /\ first' = i
          /\ used' = used \cup (i .. i + n - 1)
          /\ held' = held \cup {[start |-> i, num |-> n]}
    \/ Fits(n) = {} /\ UNCHANGED vars

(* Mutant: the index of the run's first bit is computed one too low.       *)
FreePagesTooLow(r) ==
    /\ held' = held \ {r}
    /\ used' = used \ ((r.start - 1) .. (r.start + r.num - 2))
    /\ first' = IF first > r.start - 1 THEN r.start - 1 ELSE first

(* TEE_FreePages of a run the caller holds.                                *)
FreePages(r) ==
    /\ held' = held \ {r}
    /\ used' = used \ PagesOf(r)
    /\ first' = IF first > r.start THEN r.start ELSE first

Next ==
    \/ \E n \in 1 .. MaxRun : AllocPages(n)
    \/ \E r \in held : FreePages(r)

Spec == Init /\ [][Next]_vars

-----------------------------------------------------------------------------
TypeOK ==
    /\ used \subseteq Pages
    /\ first \in 0 .. NumPages
    /\ held \subseteq Run

(* Two callers never share a page: the runs handed out and not yet given   *)
(* back are pairwise disjoint.                                             *)
RunsDisjoint ==
    \A r, s \in held : r # s => PagesOf(r) \cap PagesOf(s) = {}

(* No page is lost or given away twice: the set bits are exactly the       *)
(* reserved pages and those of the runs held, so that giving everything    *)
(* back restores the initial bitmap.                                       *)
BitmapExact ==
    \A p \in Pages :
        p \in used <=> p < ReservedPages \/ \E r \in held : p \in PagesOf(r)

(* The runs held lie in the memory behind the image, and the scan index    *)
(* never enters the image, whatever is freed and in whatever order.        *)
OutsideImage ==
    /\ first >= ReservedPages
    /\ \A r \in held : ReservedPages <= r.start /\ r.start + r.num <= NumPages
=============================================================================
