----------------------------- MODULE YaffsFlash -----------------------------
(***************************************************************************)
(* The flash store of yaffs_guts.c on the NAND driver (nand_flash.c,       *)
(* yaffs_flashif.c): chunks, blocks, allocation, garbage collection, the   *)
(* chunks of a file and the headers of objects.  Every operator takes the  *)
(* device and returns it as the function of that name leaves it.           *)
(*                                                                         *)
(* nand    the pages.  id: object id of the tags, Unused if erased; part:  *)
(*         chunkId, 0 for a header; serial: two bits; data: name or        *)
(*         content; dir: parent in a header; live: pageStatus not cleared; *)
(*         good: blockStatus not cleared                                   *)
(* info    yaffs_BlockInfo of each block                                   *)
(* bits    chunkBits                                                       *)
(* erased, ablock, apage, finder, checker   nErasedBlocks, allocationBlock *)
(*         (0 for -1), allocationPage, allocationBlockFinder,              *)
(*         currentDirtyChecker                                             *)
(* obj     the objects that are files, with their header's chunk, the      *)
(*         chunks of their tree (0 for none) and nDataChunks               *)
(* result  what the last operation returned                                *)
(* images  the contents of the flash after every program and erase of the  *)
(*         operation: what a power cut may leave                           *)
(* luck    worn: the chunk in which a read finds a flipped bit, 0 for      *)
(*         none; erase: the driver's answer to an erase                    *)
(* stale   the collector copied a page that is marked deleted, or it freed *)
(*         the object of the very call it ran in; the code goes on with    *)
(*         the freed object, the model with a call that fails              *)
(***************************************************************************)
EXTENDS Integers, Sequences, SequencesExt, FiniteSets, FiniteSetsExt

CONSTANTS Start, End,     \* startBlock and endBlock, both in use
          PerBlock,       \* nChunksPerBlock
          Reserved,       \* nReservedBlocks
          PassiveChunks,  \* YAFFS_PASSIVE_GC_CHUNKS
          DaftFactor,     \* what yaffs_ResizeFile takes for nChunksPerBlock
          FactoryBad,     \* blocks that leave the factory bad
          Weak,           \* pages that do not take a program
          Ids, Names, Parts, Values,
          Unused          \* YAFFS_UNUSED_OBJECT_ID

ASSUME DeviceAssumption ==
    /\ PerBlock \in Nat /\ PerBlock >= 2 /\ Reserved \in Nat /\ Reserved >= 2
    /\ Start \in Nat \ {0} /\ End \in Nat /\ End - Start >= 10
    /\ End > Start + Reserved
    /\ DaftFactor \in Nat \ {0}
    /\ IsFiniteSet(Ids) /\ Unused \notin Ids /\ "none" \notin Names
    /\ IsFiniteSet(Parts) /\ Parts \subseteq Nat \ {0}
    /\ \A p \in Parts : 1 .. p \subseteq Parts

Blocks == Start .. End
Chunks == Start * PerBlock .. End * PerBlock + PerBlock - 1
BlockOf(c) == c \div PerBlock
PagesOf(b) == {c \in Chunks : BlockOf(c) = b}

ErasedPage == [id |-> Unused, part |-> 0, serial |-> 3, data |-> "erased",
               dir |-> "none", live |-> TRUE, good |-> TRUE]

Page(id, part, serial, data, dir) ==
    [id |-> id, part |-> part, serial |-> serial % 4, data |-> data,
     dir |-> dir, live |-> TRUE, good |-> TRUE]

-----------------------------------------------------------------------------
(* The driver.                                                             *)
Flashed(d, nand) == [d EXCEPT !.nand = nand, !.images = @ \cup {nand}]

(* A weak page stays as it was; yaffs finds out when it reads it back.     *)
Program(d, c, page) ==
    IF c \in Weak THEN d ELSE Flashed(d, [d.nand EXCEPT ![c] = page])

MarkDeleted(d, c) == Flashed(d, [d.nand EXCEPT ![c].live = FALSE])

(* The block is erased whatever the driver answers, and 0 is what yaffs    *)
(* takes for success; nand_flash_erase_block answers 1 always.  The last   *)
(* block is never erased.                                                  *)
EraseBlockInNAND(d, b) ==
    IF b < Start \/ b >= End THEN [d EXCEPT !.result = FALSE]
    ELSE [Flashed(d, [c \in Chunks |->
                        IF BlockOf(c) = b THEN ErasedPage ELSE d.nand[c]])
            EXCEPT !.result = (d.luck.erase = 0)]

HandleReadDataError(d, c) == [d EXCEPT !.info[BlockOf(c)].retire = TRUE]

(* Reading a page's data with yaffs's own error correction, useNANDECC     *)
(* being 0: the bit is put right, and the block is to be retired.          *)
ReadData(d, c) == IF c > 0 /\ d.luck.worn = c THEN HandleReadDataError(d, c) ELSE d

-----------------------------------------------------------------------------
(* Blocks.                                                                 *)
RetireBlock(d, b) ==
    LET bad(e, c) == Flashed(e, [e.nand EXCEPT ![c].good = FALSE])
    IN  [bad(bad(d, b * PerBlock), b * PerBlock + 1) EXCEPT !.info[b].state = "DEAD"]

Clean == [state |-> "EMPTY", inUse |-> 0, soft |-> 0, retire |-> FALSE]

(* Mutant: an erased block is not counted.                                 *)
ErasedOrRetiredUncounted(e, b) ==
    IF e.result THEN [e EXCEPT !.info[b] = Clean, !.bits = @ \ PagesOf(b)]
    ELSE RetireBlock(e, b)

ErasedOrRetired(e, b) ==
    IF e.result THEN [e EXCEPT !.info[b] = Clean, !.erased = @ + 1,
                               !.bits = @ \ PagesOf(b)]
    ELSE RetireBlock(e, b)

BlockBecameDirty(d, b) ==
    ErasedOrRetired(IF d.info[b].retire THEN [d EXCEPT !.result = FALSE]
                    ELSE EraseBlockInNAND(d, b), b)

CountChunkOut(d, c) ==
    LET b == BlockOf(c)
        f == [d EXCEPT !.bits = @ \ {c}, !.info[b].inUse = @ - 1]
    IN  IF d.info[b].state \notin {"ALLOCATING", "FULL"} THEN d
        ELSE IF d.info[b].inUse = 1 /\ d.info[b].state = "FULL"
             THEN BlockBecameDirty(f, b)
             ELSE f

(* Of a chunk in a block that is not in use yet, or not any more, only the *)
(* page changes.                                                           *)
DeleteChunk(d, c, markNAND) ==
    IF c <= 0 THEN d
    ELSE CountChunkOut(IF markNAND THEN MarkDeleted(d, c) ELSE d, c)

(* Empty blocks are taken in a circle.                                     *)
After(b) == IF b + 1 \in Blocks THEN b + 1 ELSE Start
CircleFrom(b) == [i \in 1 .. Cardinality(Blocks) |->
                    Start + ((After(b) - Start + i - 1) % Cardinality(Blocks))]

TakeFirstEmpty(d, circle) ==
    LET empty == {i \in DOMAIN circle : d.info[circle[i]].state = "EMPTY"}
        b == circle[Min(empty)]
    IN  IF empty = {} THEN [d EXCEPT !.ablock = 0, !.finder = circle[Len(circle)]]
        ELSE [d EXCEPT !.ablock = b, !.finder = b, !.erased = @ - 1,
                       !.info[b].state = "ALLOCATING"]

FindBlockForAllocation(d) ==
    IF d.erased < 1 THEN [d EXCEPT !.ablock = 0]
    ELSE TakeFirstEmpty(d, CircleFrom(d.finder))

TakePage(d, useReserve) ==
    LET b == d.ablock
        c == b * PerBlock + d.apage
        full == d.apage + 1 >= PerBlock
    IN  IF (~useReserve /\ d.erased <= Reserved) \/ b = 0
        THEN [d EXCEPT !.result = 0]
        ELSE [d EXCEPT !.bits = @ \cup {c}, !.info[b].inUse = @ + 1,
                       !.apage = @ + 1, !.result = c,
                       !.info[b].state = IF full THEN "FULL" ELSE @,
                       !.ablock = IF full THEN 0 ELSE @]

(* result is the chunk, 0 for -1.                                          *)
AllocateChunk(d, useReserve) ==
    TakePage(IF d.ablock # 0 THEN d ELSE [FindBlockForAllocation(d) EXCEPT !.apage = 0],
             useReserve)

HandleWriteChunkError(d, c) ==
    DeleteChunk([d EXCEPT !.info[BlockOf(c)].retire = TRUE], c, TRUE)

(* One round of the loop.  result is the chunk, 0 when there is no room,    *)
(* Retry when the chunk was not erased or does not read back as written.   *)
Retry == -1
Attempt(d, page, useReserve) ==
    LET e == AllocateChunk(d, useReserve)
        c == e.result
        written == IF e.nand[c] = ErasedPage THEN Program(e, c, page) ELSE e
    IN  IF c = 0 THEN e
        ELSE IF written.nand[c] = page THEN written
        ELSE [HandleWriteChunkError(written, c) EXCEPT !.result = Retry]

(* Until a chunk verifies or there is none.  A chunk that failed is not    *)
(* allocated again, so that the loop ends when all were tried.             *)
WriteNewChunk(d, page, useReserve) ==
    LET rounds == Cardinality(Chunks) + 1
        after[k \in 0 .. rounds] ==
            IF k = 0 THEN [d EXCEPT !.result = Retry]
            ELSE LET e == after[k - 1]
                 IN  IF e.result = Retry THEN Attempt(e, page, useReserve) ELSE e
    IN  after[rounds]

-----------------------------------------------------------------------------
(* Objects and the chunks of a file.                                       *)
NoObject == [here |-> FALSE, valid |-> FALSE, deleted |-> FALSE, soft |-> FALSE,
             dirty |-> FALSE, dir |-> "none", name |-> "none", serial |-> 0,
             chunk |-> 0, n |-> 0, size |-> 0, tree |-> [p \in Parts |-> 0]]

(* A new object is in lost+found until somebody moves it.                  *)
NewObject == [NoObject EXCEPT !.here = TRUE, !.dir = "lost+found"]

FindChunkInFile(d, i, p) ==
    LET c == d.obj[i].tree[p]
    IN  IF c # 0 /\ d.nand[c].id = i /\ d.nand[c].part = p /\ d.nand[c].live
        THEN c ELSE 0

DoGenericObjectDeletion(d, i) ==
    [DeleteChunk(d, d.obj[i].chunk, TRUE) EXCEPT !.obj[i] = NoObject]

(* During a scan two live pages may claim one place: the later serial wins *)
(* and the other page is deleted.                                          *)
PutChunkIntoFile(d, i, p, c, inScan) ==
    LET old == d.obj[i].tree[p]
        found == FindChunkInFile(d, i, p)
        newer == found = 0 \/ (d.nand[found].serial + 1) % 4 = d.nand[c].serial
        put(e) == [e EXCEPT !.obj[i].tree[p] = c]
    IN  IF old = 0 THEN [put(d) EXCEPT !.obj[i].n = @ + 1]
        ELSE IF ~inScan THEN put(d)
        ELSE IF newer THEN put(DeleteChunk(d, found, TRUE))
        ELSE DeleteChunk(d, c, TRUE)

(* A file's chunks become garbage without a write: their blocks count them *)
(* and the collector drops them.                                           *)
SoftDeleteFile(d, i) ==
    LET o == d.obj[i]
        softIn(b) == Cardinality({p \in Parts : o.tree[p] # 0 /\ BlockOf(o.tree[p]) = b})
    IN  IF ~o.deleted \/ o.soft THEN d
        ELSE IF o.n <= 0 THEN DoGenericObjectDeletion(d, i)
        ELSE [d EXCEPT !.info = [b \in Blocks |-> [d.info[b] EXCEPT !.soft = @ + softIn(b)]],
                       !.obj[i].tree = [p \in Parts |-> 0],
                       !.obj[i].soft = TRUE]

-----------------------------------------------------------------------------
(* Garbage collection.                                                     *)
FindDirtiestBlock(d, aggressive) ==
    LET circle == CircleFrom(d.checker)
        size == Cardinality(Blocks)
        steps == 1 + (IF aggressive THEN size ELSE Min({size \div 16, 200}))
        look(s, b) ==
            LET used == d.info[b].inUse - d.info[b].soft
            IN  IF s.use <= 0 THEN s
                ELSE IF d.info[b].state = "FULL" /\ used < s.use
                THEN [at |-> b, use |-> used, dirtiest |-> b]
                ELSE [s EXCEPT !.at = b]
        seen[k \in 0 .. steps] ==
            IF k = 0 THEN [at |-> d.checker, dirtiest |-> 0,
                           use |-> IF aggressive THEN PerBlock ELSE PassiveChunks + 1]
            ELSE look(seen[k - 1], circle[((k - 1) % size) + 1])
    IN  [d EXCEPT !.checker = seen[steps].at, !.result = seen[steps].dirtiest]

Dropped(d, i) == IF d.obj[i].n <= 0 THEN DoGenericObjectDeletion(d, i) ELSE d

Moved(d, copy) ==
    IF copy.part = 0
    THEN [d EXCEPT !.obj[copy.id].chunk = d.result, !.obj[copy.id].serial = copy.serial]
    ELSE PutChunkIntoFile(d, copy.id, copy.part, d.result, FALSE)

Collected(d, c, mark) == [DeleteChunk(d, c, mark) EXCEPT !.result = TRUE]

Copied(d, copy, c) ==
    IF d.result = 0 THEN [d EXCEPT !.result = FALSE] ELSE Collected(Moved(d, copy), c, TRUE)

(* A data chunk of a deleted file is dropped without a mark, and the file  *)
(* with its last one; a chunk of an object that exists is copied, whatever *)
(* its pageStatus says.                                                    *)
CollectPage(d, page, c) ==
    LET i == page.id
    IN  IF i \notin Ids \/ ~d.obj[i].here THEN Collected(d, c, TRUE)
        ELSE IF d.obj[i].deleted /\ page.part # 0
        THEN Collected(Dropped([d EXCEPT !.obj[i].n = @ - 1], i), c, FALSE)
        ELSE LET copy == [page EXCEPT !.serial = (@ + 1) % 4]
             IN  Copied(WriteNewChunk([d EXCEPT !.stale = @ \/ ~page.live], copy, TRUE),
                        copy, c)

CollectChunk(d, c) == CollectPage(ReadData(d, c), d.nand[c], c)

GarbageCollectBlock(d, b) ==
    LET step(e, c) == IF e.result /\ c \in e.bits THEN CollectChunk(e, c) ELSE e
        after[k \in 0 .. PerBlock] ==
            IF k = 0 THEN [d EXCEPT !.result = TRUE]
            ELSE step(after[k - 1], b * PerBlock + k - 1)
    IN  after[PerBlock]

CollectDirtiest(d) == IF d.result # 0 THEN GarbageCollectBlock(d, d.result) ELSE d

CheckGarbageCollection(d) == CollectDirtiest(FindDirtiestBlock(d, d.erased <= Reserved + 1))

-----------------------------------------------------------------------------
(* The object of the call is gone after the collection.                    *)
WithoutObject(d) == [d EXCEPT !.result = FALSE, !.stale = TRUE]

ReplaceChunk(d, i, p, prev) ==
    IF d.result = 0 THEN [d EXCEPT !.result = FALSE]
    ELSE [DeleteChunk(PutChunkIntoFile(d, i, p, d.result, FALSE), prev, TRUE)
            EXCEPT !.result = TRUE]

PageAfter(d, i, p, prev, value) ==
    Page(i, p, IF prev # 0 THEN d.nand[prev].serial + 1 ELSE 1, value, "none")

(* Mutant: the old page is deleted before the new one is written.          *)
RewriteChunkSwapped(d, i, p, prev, value, useReserve) ==
    IF ~d.obj[i].here THEN WithoutObject(d)
    ELSE ReplaceChunk(WriteNewChunk(DeleteChunk(d, prev, TRUE),
                                    PageAfter(d, i, p, prev, value), useReserve), i, p, 0)

RewriteChunk(d, i, p, prev, value, useReserve) ==
    IF ~d.obj[i].here THEN WithoutObject(d)
    ELSE ReplaceChunk(WriteNewChunk(d, PageAfter(d, i, p, prev, value), useReserve), i, p, prev)

WriteCollected(d, i, p, value, useReserve) ==
    RewriteChunk(d, i, p, FindChunkInFile(d, i, p), value, useReserve)

(* Writing a chunk of a file: the new page first, then the old one is      *)
(* deleted.  result is FALSE when there is no room.                        *)
WriteChunkDataToObject(d, i, p, value, useReserve) ==
    WriteCollected(CheckGarbageCollection(d), i, p, value, useReserve)

ReplaceHeader(d, i, prev) ==
    IF d.result = 0 THEN [d EXCEPT !.result = FALSE]
    ELSE [DeleteChunk([d EXCEPT !.obj[i].chunk = d.result], prev, TRUE)
            EXCEPT !.obj[i].dirty = FALSE, !.result = TRUE]

WriteHeader(d, i, name) ==
    LET prev == d.obj[i].chunk
        kept == IF name # "none" THEN name ELSE d.nand[prev].data
        serial == (d.obj[i].serial + 1) % 4
        r == [ReadData(d, prev) EXCEPT !.obj[i].serial = serial]
    IN  IF ~d.obj[i].here THEN WithoutObject(d)
        ELSE ReplaceHeader(WriteNewChunk(r, Page(i, 0, serial, kept, d.obj[i].dir), prev > 0),
                           i, prev)

(* A new header, then the old one is deleted; only an object that has a    *)
(* header may use the reserve for it.  Without a name it keeps the old     *)
(* header's.                                                               *)
UpdateObjectHeader(d, i, name) == WriteHeader(CheckGarbageCollection(d), i, name)

=============================================================================
