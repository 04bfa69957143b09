------------------------------- MODULE BoundTag -------------------------------
(***************************************************************************)
(* The heap of T-OS: the boundary-tag allocator of lib/tee_bound_tag.c     *)
(* behind TEE_Malloc, TEE_Realloc and TEE_Free (lib/tee_mmf.c).  Addresses *)
(* and sizes are in words of four bytes, to which every request is rounded *)
(* up; the pool is the words 1 .. PoolSize and address 0 is NULL.          *)
(*                                                                         *)
(* head      the HEAD of every block, by its address: the links of the     *)
(*           list of free blocks, tag (allocated) and valid_size           *)
(* foot      the FOOT of every block, by its address: it names the HEAD    *)
(* free_list the head of the circular list of free blocks                  *)
(* owned     what the callers have: the blocks TEE_Malloc returned, with   *)
(*           the words asked for                                           *)
(* taken     whether an allocation ever took the block at the list's head  *)
(*           whole, kept for the properties                                *)
(* fault     "no"; "spin" in TEE_Free's endless loop for a bad address,    *)
(*           "hang" in a scan that never ends, "wild" once a link was      *)
(*           followed to where no HEAD is                                  *)
(***************************************************************************)
EXTENDS Integers, FiniteSets, Functions

CONSTANTS PoolSize,  \* words in the pool: MEM_POOL_PAGES_NUM pages
          Sizes,     \* bound: the words callers ask for
          MaxOwned   \* bound: blocks that callers hold at a time

HEAD == 4            \* sizeof(HEAD)
FOOT == 1            \* sizeof(FOOT)
Overhead == HEAD + FOOT
EPSILON == 1 + Overhead
NULL == 0

ASSUME HeapAssumption ==
    /\ PoolSize \in Nat /\ PoolSize >= Overhead
    /\ Sizes \subseteq Nat /\ MaxOwned \in Nat

VARIABLES head, foot, free_list, owned, taken, fault
heapVars == <<head, foot, free_list, owned, taken, fault>>

Word == 1 .. PoolSize
Blocks == DOMAIN head
FootAddr(b) == b + HEAD + head[b].size
RightOf(b) == FootAddr(b) + FOOT
Header(prev, next, tag, size) ==
    [prev |-> prev, next |-> next, tag |-> tag, size |-> size]

-----------------------------------------------------------------------------
(* BoundTag_Init.                                                          *)
HeapInit ==
    /\ head = [b \in {1} |-> Header(1, 1, FALSE, PoolSize - Overhead)]
    /\ foot = [f \in {PoolSize} |-> 1]
    /\ free_list = 1
    /\ owned = {}
    /\ taken = FALSE
    /\ fault = "no"

Linked(b) == b \in Blocks /\ head[b].prev \in Blocks /\ head[b].next \in Blocks

(* Mutant: only the link forward is closed.                                *)
UnlinkForward(b) == [head EXCEPT ![head[b].prev].next = head[b].next]

Unlink(b) == [head EXCEPT ![head[b].prev].next = head[b].next,
                          ![head[b].next].prev = head[b].prev]

(* The scan of BoundTag_Alloc for total words: the nodes it visits if it   *)
(* does not stop, and where it stops first.                                *)
Visits[k \in 0 .. Cardinality(Blocks)] ==
    IF k = 0 THEN free_list
    ELSE LET p == Visits[k - 1]
         IN  IF p \in Blocks THEN head[p].next ELSE NULL

Stops(p, total) ==
    p \in Blocks => head[p].size >= total \/ head[p].next = free_list

ScanFinds(p, total) ==
    \E k \in DOMAIN Visits :
        /\ p = Visits[k] /\ Stops(p, total)
        /\ \A j \in 0 .. k - 1 : ~Stops(Visits[j], total)

(* Mutant: a block that is taken whole stays on the list.                  *)
TakeWholeStays(p) ==
    /\ head' = [head EXCEPT ![p].tag = TRUE]
    /\ UNCHANGED <<foot, free_list, taken>>

(* The block p is little larger than what was asked for.  When it is the   *)
(* list's head the list is given up, whatever else is on it.               *)
TakeWhole(p) ==
    /\ IF p = free_list
       THEN /\ head' = [head EXCEPT ![p].tag = TRUE]
            /\ free_list' = NULL /\ taken' = TRUE
       ELSE /\ head' = [Unlink(p) EXCEPT ![p] = Header(NULL, NULL, TRUE, @.size)]
            /\ UNCHANGED <<free_list, taken>>
    /\ UNCHANGED foot

(* The upper end of p becomes a block of total words, linked to itself.    *)
UpperEnd(p, total) == RightOf(p) - total

Split(p, total) ==
    LET new == UpperEnd(p, total) IN
    /\ head' = [b \in Blocks \cup {new} |->
                   IF b = new THEN Header(new, new, TRUE, total - Overhead)
                   ELSE IF b = p THEN [head[p] EXCEPT !.size = @ - total]
                   ELSE head[b]]
    /\ foot' = [f \in DOMAIN foot \cup {new - FOOT} |->
                   IF f = new - FOOT THEN p
                   ELSE IF f = FootAddr(p) THEN new ELSE foot[f]]
    /\ UNCHANGED <<free_list, taken>>

(* TEE_Malloc of n words for a caller that gives up the blocks old for it. *)
BigEnough(p, total) == p \in Blocks /\ head[p].size >= total
Whole(p, total) == head[p].size - total < EPSILON

Allocate(n, old) ==
    LET total == n + Overhead
        Hand(b) == owned' = (owned \ old) \cup {[block |-> b, size |-> n]}
        Lost == UNCHANGED <<head, foot, free_list, owned, taken>>
    IN
    \/ \E p \in Blocks :
          /\ ScanFinds(p, total) /\ BigEnough(p, total)
          /\ \/ /\ Whole(p, total) /\ (p = free_list \/ Linked(p))
                /\ TakeWhole(p) /\ Hand(p)
             \/ /\ ~Whole(p, total)
                /\ Split(p, total) /\ Hand(UpperEnd(p, total))
          /\ UNCHANGED fault
    \/ /\ \E p \in Blocks \cup {NULL} : ScanFinds(p, total) /\ ~BigEnough(p, total)
       /\ UNCHANGED heapVars
    \/ /\ \E p \in Word :
             /\ ScanFinds(p, total)
             /\ p \notin Blocks \/ (BigEnough(p, total) /\ Whole(p, total)
                                     /\ p # free_list /\ ~Linked(p))
       /\ fault' = "wild" /\ Lost
    \/ /\ \A p \in Word \cup {NULL} : ~ScanFinds(p, total)
       /\ fault' = "hang" /\ Lost

Malloc(n) == Cardinality(owned) < MaxOwned /\ Allocate(n, {})

(* BoundTag_ValidAllocated of the address behind b's HEAD; where it fails  *)
(* TEE_Free and TEE_Realloc loop for ever.                                 *)
ValidAllocated(b) ==
    /\ b \in Blocks
    /\ head[b].prev # NULL /\ head[b].next # NULL /\ head[b].tag
    /\ 0 < head[b].size /\ head[b].size < PoolSize - Overhead

Spin(b) ==
    /\ \/ b \notin Blocks /\ fault' = "wild"
       \/ b \in Blocks /\ ~ValidAllocated(b) /\ fault' = "spin"
    /\ UNCHANGED <<head, foot, free_list, owned, taken>>

(* TEE_Realloc: a new block for the contents of the old, which stays.      *)
Realloc(r, n) ==
    Spin(r.block) \/ (ValidAllocated(r.block) /\ Allocate(n, {r}))

-----------------------------------------------------------------------------
(* BoundTag_Free of the block f.                                           *)
LeftFree(f) == f > 1 /\ ~head[foot[f - FOOT]].tag
RightFree(f) == RightOf(f) <= PoolSize /\ ~head[RightOf(f)].tag

(* The links after: f goes behind the list's head when neither neighbour   *)
(* is free; it takes the right neighbour's place when the left one is not. *)
LinkBehindHead(f) ==
    LET next == head[free_list].next IN
    [head EXCEPT ![next].prev = f, ![f].next = next,
                 ![free_list].next = f, ![f].prev = free_list]

LinkInPlaceOf(right, f) ==
    LET h == [head EXCEPT ![f].next = head[right].next,
                          ![head[right].next].prev = f]
    IN  [h EXCEPT ![f].prev = h[right].prev, ![h[right].prev].next = f]

(* f becomes one block with the free ones of its neighbours, from the HEAD *)
(* of the first to the FOOT of the last.                                   *)
Base(f) == IF LeftFree(f) THEN foot[f - FOOT] ELSE f
End(f) == IF RightFree(f) THEN FootAddr(RightOf(f)) ELSE FootAddr(f)
Inside(f) == Base(f) + 1 .. End(f) - 1

MergedHeads(f, links) ==
    [b \in Blocks \ Inside(f) |->
        IF b = Base(f)
        THEN Header(links[b].prev, links[b].next, FALSE, End(f) - b - HEAD)
        ELSE links[b]]

(* Mutant: the FOOT of the merged block keeps the HEAD it had.             *)
MergeKeepsFoot(f, links) ==
    /\ head' = MergedHeads(f, links)
    /\ foot' = Restrict(foot, DOMAIN foot \ Inside(f))
    /\ free_list' = IF free_list \in Inside(f) THEN Base(f) ELSE free_list

Merge(f, links) ==
    /\ head' = MergedHeads(f, links)
    /\ foot' = [Restrict(foot, DOMAIN foot \ Inside(f)) EXCEPT ![End(f)] = Base(f)]
    /\ free_list' = IF free_list \in Inside(f) THEN Base(f) ELSE free_list

(* Without a list the block becomes the list, with the links it has.       *)
Release(f) ==
    \/ /\ free_list = NULL
       /\ head' = [head EXCEPT ![f].tag = FALSE] /\ free_list' = f
       /\ UNCHANGED <<foot, fault>>
    \/ /\ free_list # NULL
       /\ \/ ~LeftFree(f) /\ ~RightFree(f) /\ Linked(free_list)
                          /\ Merge(f, LinkBehindHead(f))
          \/ LeftFree(f) /\ ~RightFree(f) /\ Merge(f, head)
          \/ ~LeftFree(f) /\ RightFree(f) /\ Linked(RightOf(f))
                          /\ Merge(f, LinkInPlaceOf(RightOf(f), f))
          \/ LeftFree(f) /\ RightFree(f) /\ Linked(RightOf(f))
                         /\ Merge(f, Unlink(RightOf(f)))
       /\ UNCHANGED fault
    \/ /\ free_list # NULL
       /\ \/ ~LeftFree(f) /\ ~RightFree(f) /\ ~Linked(free_list)
          \/ RightFree(f) /\ ~Linked(RightOf(f))
       /\ fault' = "wild"
       /\ UNCHANGED <<head, foot, free_list>>

(* TEE_Free of a block that a caller holds.                                *)
Free(r) ==
    \/ Spin(r.block)
    \/ /\ ValidAllocated(r.block)
       /\ owned' = owned \ {r}
       /\ Release(r.block)
       /\ UNCHANGED taken

HeapNext ==
    /\ fault = "no"
    /\ \/ \E n \in Sizes : Malloc(n)
       \/ \E r \in owned, n \in Sizes : Realloc(r, n)
       \/ \E r \in owned : Free(r)

HeapSpec == HeapInit /\ [][HeapNext]_heapVars

-----------------------------------------------------------------------------
(* The blocks cover the pool without gap or overlap, and the FOOT at the   *)
(* end of each names its HEAD: what BoundTag_Free reads beside a block it  *)
(* merges is always a HEAD and a FOOT.                                     *)
BoundaryTags ==
    /\ 1 \in Blocks
    /\ DOMAIN foot = {FootAddr(b) : b \in Blocks}
    /\ \A b \in Blocks :
          /\ foot[FootAddr(b)] = b
          /\ RightOf(b) \in Blocks \cup {PoolSize + 1}
          /\ \A c \in Blocks : b < c => RightOf(b) <= c

(* The list is one circle, linked both ways, of exactly the free blocks,   *)
(* and no two of them are neighbours; a scan of it ends.  It holds until   *)
(* an allocation takes the list's head whole.                              *)
FreeBlocks == {b \in Blocks : ~head[b].tag}
FreeListExact ==
    ~taken =>
        /\ {Visits[k] : k \in DOMAIN Visits} = FreeBlocks
        /\ \A b \in FreeBlocks : head[head[b].next].prev = b
        /\ \A b \in FreeBlocks : RightOf(b) \notin FreeBlocks
        /\ fault \in {"no", "spin"}

(* The pool is what its two structures say: whatever was allocated, split, *)
(* merged and freed before, the tags are right, and the list is as long as *)
(* its head was not taken.                                                 *)
PoolExact == BoundaryTags /\ FreeListExact

(* Every block a caller holds is an allocated one of at least the size     *)
(* asked for, and no two callers hold the same: TEE_Malloc gives "a space  *)
(* of size bytes" (tee_mmf.c).                                             *)
HeldApart ==
    /\ \A r \in owned : /\ r.block \in Blocks
                       /\ head[r.block].tag /\ head[r.block].size >= r.size
    /\ \A r, s \in owned : r # s => r.block # s.block

(* It holds until an allocation takes the list's head whole.               *)
HeldApartUntilTaken == ~taken => HeldApart

=============================================================================
