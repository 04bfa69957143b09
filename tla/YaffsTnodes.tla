---------------------------- MODULE YaffsTnodes ----------------------------
(***************************************************************************)
(* The tree in which yaffs_guts.c looks up the chunks of a file, and the   *)
(* pool of tnodes that it is made of.                                      *)
(*                                                                         *)
(* tree   taken and returned by the operators:                             *)
(*   tn     the slots of each tnode: other tnodes, or at level 0 chunks on *)
(*          the flash; 0 is NULL and no chunk                              *)
(*   free, created   the list of free tnodes; tnodes made so far           *)
(*   top, level   fileVariant.top (0: none) and topLevel                   *)
(*   soft   soft deletions so far                                          *)
(*   room   YMALLOC has memory for more tnodes                             *)
(*   refused   there was no tnode for someone                              *)
(*   dead   a slot of level 0 was followed as if it were a tnode, or NULL  *)
(*   result what the last operation returned                               *)
(* chunks what was put for each chunk of the file                          *)
(* gone   chunks of deleted files                                          *)
(* calls  so far                                                           *)
(***************************************************************************)
EXTENDS Integers, Sequences, SequencesExt, FiniteSets, FiniteSetsExt

CONSTANTS Level0,      \* YAFFS_NTNODES_LEVEL0
          Batch,       \* YAFFS_ALLOCATION_NTNODES
          MaxLevel,    \* YAFFS_TNODES_MAX_LEVEL
          ChunkIds,    \* bound: the chunks that files have
          NandChunks,  \* bound: the chunks of the flash they are put in
          MaxTnodes, MaxCalls   \* bounds

VARIABLES tree, chunks, gone, calls
tnodeVars == <<tree, chunks, gone, calls>>

NTnodesInternal == Level0 \div 2
Slots == 0 .. Level0 - 1
Empty == [i \in Slots |-> 0]

-----------------------------------------------------------------------------
(* The pool.                                                               *)
CreateTnodes(s) ==
    IF ~s.room \/ s.created + Batch > MaxTnodes THEN s
    ELSE [s EXCEPT !.free = [k \in 1 .. Batch |-> s.created + k] \o @,
                   !.created = @ + Batch]

GetTnode(s) ==
    LET m == IF s.free = << >> THEN CreateTnodes(s) ELSE s
    IN  IF m.free = << >> THEN [m EXCEPT !.result = 0, !.refused = TRUE]
        ELSE [m EXCEPT !.free = Tail(@), !.tn[Head(m.free)] = Empty, !.result = Head(m.free)]

FreeTnode(s, t) == IF t = 0 THEN s ELSE [s EXCEPT !.free = <<t>> \o @]

-----------------------------------------------------------------------------
(* The tree.                                                               *)
RECURSIVE Tallness(_)
Tallness(i) == IF i = 0 THEN 0 ELSE 1 + Tallness(i \div NTnodesInternal)
RequiredTallness(c) == Tallness(c \div Level0)

(* Mutant: one level too low.                                              *)
IndexAtLower(c, level) == (c \div (Level0 * NTnodesInternal ^ level)) % NTnodesInternal

IndexAt(c, level) == (c \div (Level0 * NTnodesInternal ^ (level - 1))) % NTnodesInternal

RECURSIVE Descend(_, _, _, _)
Descend(s, t, level, c) ==
    IF level = 0 \/ t = 0 THEN t ELSE Descend(s, s.tn[t][IndexAt(c, level)], level - 1, c)

FindLevel0Tnode(s, c) ==
    IF s.level > MaxLevel \/ RequiredTallness(c) > s.level THEN 0
    ELSE Descend(s, s.top, s.level, c)

(* A new top for each level that is missing.  The height is raised even if *)
(* there was no tnode for it.                                              *)
Raise(s, height) ==
    LET add(r, k) ==
            LET g == GetTnode(r)
            IN  IF g.result = 0 THEN [g EXCEPT !.dead = @ \/ g.top # 0]
                ELSE [g EXCEPT !.tn[g.result][0] = g.top, !.top = g.result]
    IN  IF height <= s.level THEN s
        ELSE [FoldLeft(add, s, [k \in 1 .. height - s.level |-> k]) EXCEPT !.level = height]

AddOrFindLevel0Tnode(s, c) ==
    LET r == Raise(s, RequiredTallness(c))
        down(d, k) ==
            LET i == IndexAt(c, r.level + 1 - k)
                g == GetTnode(d)
            IN  IF d.result = 0 THEN d
                ELSE IF d.tn[d.result][i] # 0 THEN [d EXCEPT !.result = d.tn[d.result][i]]
                ELSE [g EXCEPT !.tn[d.result][i] = g.result]
    IN  IF s.level > MaxLevel THEN [s EXCEPT !.result = 0]
        ELSE IF r.dead THEN [r EXCEPT !.result = 0]
        ELSE FoldLeft(down, [r EXCEPT !.result = r.top], [k \in 1 .. r.level |-> k])

FindChunkInFile(s, c) ==
    LET t == FindLevel0Tnode(s, c) IN IF t = 0 THEN 0 ELSE s.tn[t][c % Level0]

FindAndDeleteChunkInFile(s, c) ==
    LET t == FindLevel0Tnode(s, c) IN IF t = 0 THEN s ELSE [s EXCEPT !.tn[t][c % Level0] = 0]

PutChunkIntoFile(s, c, nand) ==
    LET a == AddOrFindLevel0Tnode(s, c)
    IN  IF a.result = 0 THEN a ELSE [a EXCEPT !.tn[a.result][c % Level0] = nand]

(* From the last slot to the first, below before above.                    *)
RECURSIVE SoftDeleteWorker(_, _, _)
SoftDeleteWorker(s, t, level) ==
    LET below(r, i) ==
            IF r.tn[t][i] = 0 THEN r
            ELSE IF level = 0 THEN [r EXCEPT !.soft = @ + 1, !.tn[t][i] = 0]
            ELSE [FreeTnode(SoftDeleteWorker(r, r.tn[t][i], level - 1), r.tn[t][i])
                    EXCEPT !.tn[t][i] = 0]
        n == IF level = 0 THEN Level0 ELSE NTnodesInternal
    IN  IF t = 0 THEN s ELSE FoldLeft(below, s, [k \in 1 .. n |-> n - k])

HasData(s, t, level) == \E i \in Slots : (level > 0 => i < NTnodesInternal) /\ s.tn[t][i] # 0

(* result: the tnode, or 0 if it was freed.  The tnodes on the way to      *)
(* chunk 0 stay.                                                           *)
RECURSIVE PruneWorker(_, _, _, _)
PruneWorker(s, t, level, del0) ==
    LET below(r, i) ==
            LET p == PruneWorker(r, r.tn[t][i], level - 1, i # 0 \/ del0)
            IN  IF r.tn[t][i] = 0 THEN r ELSE [p EXCEPT !.tn[t][i] = p.result]
        b == IF level = 0 THEN s
             ELSE FoldLeft(below, s, [k \in 1 .. NTnodesInternal |-> k - 1])
    IN  IF t = 0 THEN [s EXCEPT !.result = 0]
        ELSE IF ~HasData(b, t, level) /\ del0 THEN [FreeTnode(b, t) EXCEPT !.result = 0]
        ELSE [b EXCEPT !.result = t]

RECURSIVE Shorten(_)

(* Mutant: the old top is not freed.                                       *)
ShortenKeeps(s) ==
    IF s.level = 0 THEN s
    ELSE IF s.top = 0 THEN [s EXCEPT !.dead = TRUE]
    ELSE IF \E i \in 1 .. NTnodesInternal - 1 : s.tn[s.top][i] # 0 THEN s
    ELSE Shorten([s EXCEPT !.top = s.tn[s.top][0], !.level = @ - 1])

(* Tops with nothing but their slot 0 go.                                  *)
Shorten(s) ==
    IF s.level = 0 THEN s
    ELSE IF s.top = 0 THEN [s EXCEPT !.dead = TRUE]
    ELSE IF \E i \in 1 .. NTnodesInternal - 1 : s.tn[s.top][i] # 0 THEN s
    ELSE Shorten([FreeTnode(s, s.top) EXCEPT !.top = s.tn[s.top][0], !.level = @ - 1])

PruneFileStructure(s) ==
    LET p == PruneWorker(s, s.top, s.level, FALSE)
    IN  IF s.level = 0 THEN s ELSE Shorten([p EXCEPT !.top = p.result])

-----------------------------------------------------------------------------
NewFile(s) == LET g == GetTnode(s) IN [g EXCEPT !.top = g.result, !.level = 0]

TnodesInit ==
    /\ \E room \in BOOLEAN :
          tree = NewFile([tn |-> [t \in 1 .. MaxTnodes |-> Empty], free |-> << >>, created |-> 0,
                          top |-> 0, level |-> 0, soft |-> 0, room |-> room,
                          refused |-> FALSE, dead |-> FALSE, result |-> 0])
    /\ chunks = [c \in ChunkIds |-> 0]
    /\ gone = 0
    /\ calls = 0

Done(s) ==
    /\ calls < MaxCalls /\ ~tree.dead
    /\ calls' = calls + 1
    /\ \E room \in BOOLEAN : tree' = [s EXCEPT !.room = room, !.result = 0]

(* A chunk is written; when it cannot be put, the write says so.           *)
PutChunk(c, nand) ==
    LET p == PutChunkIntoFile(tree, c, nand)
    IN  /\ Done(p)
        /\ chunks' = IF p.result = 0 THEN chunks ELSE [chunks EXCEPT ![c] = nand]
        /\ UNCHANGED gone

(* The tree's share of yaffs_ResizeFile: the chunks behind the new end are *)
(* taken out from the last one on.                                         *)
Shrink(n) ==
    LET behind == {c \in ChunkIds : c > n /\ FindChunkInFile(tree, c) # 0}
        cut == FoldLeft(FindAndDeleteChunkInFile, tree, SetToSortSeq(behind, >))
    IN  /\ Done(PruneFileStructure(cut))
        /\ chunks' = [c \in ChunkIds |-> IF c > n THEN 0 ELSE chunks[c]]
        /\ UNCHANGED gone

(* yaffs_SoftDeleteFile; its last chunks are collected, the object is      *)
(* freed, and a file is created.                                           *)
RemoveFile ==
    LET held == Cardinality({c \in ChunkIds : chunks[c] # 0})
        d == IF held = 0 THEN tree ELSE SoftDeleteWorker(tree, tree.top, tree.level)
    IN  /\ Done(NewFile(FreeTnode(d, d.top)))
        /\ gone' = gone + held
        /\ chunks' = [c \in ChunkIds |-> 0]

TnodesNext ==
    \/ \E c \in ChunkIds, nand \in NandChunks : PutChunk(c, nand)
    \/ \E n \in {0} \union ChunkIds : Shrink(n)
    \/ RemoveFile

TnodesSpec == TnodesInit /\ [][TnodesNext]_tnodeVars

-----------------------------------------------------------------------------
(* Through any growth, sparse writes, pruning and refused memory the tree  *)
(* finds for every chunk what was put for it last, and nothing else.       *)
TreeIsMap ==
    ~tree.dead => /\ \A c \in ChunkIds : FindChunkInFile(tree, c) = chunks[c]
                  /\ tree.soft = gone

(* No tnode is in two places of the tree and the free list, whatever was   *)
(* refused, and none is in neither unless one was refused: a file without  *)
(* chunks is deleted without a look at what hangs below its top.           *)
RECURSIVE Below(_, _)
Below(t, level) ==
    IF t = 0 THEN << >>
    ELSE IF level = 0 THEN <<t>>
    ELSE <<t>> \o FoldLeft(LAMBDA s, i : s \o Below(tree.tn[t][i], level - 1), << >>,
                           [k \in 1 .. NTnodesInternal |-> k - 1])

TnodesOwned ==
    ~tree.dead =>
        LET all == Below(tree.top, tree.level) \o tree.free
        IN  /\ Cardinality(ToSet(all)) = Len(all)
            /\ ~tree.refused => Len(all) = tree.created

(* Both, which the same pointers can break: a tnode freed too early is     *)
(* handed out again and its new slots found as somebody else's chunks.     *)
TreeExact == TreeIsMap /\ TnodesOwned

=============================================================================
