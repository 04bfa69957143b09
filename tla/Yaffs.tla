------------------------------- MODULE Yaffs --------------------------------
(***************************************************************************)
(* Files on the flash store of YaffsFlash: create, write a chunk, flush,   *)
(* truncate, unlink, with the power cut after any of the programs and      *)
(* erases they make, and the scan that mounts the device again.            *)
(*                                                                         *)
(* dev      the device                                                     *)
(* on       the device is mounted                                          *)
(* may      what the files may be: what the callers were told, and after   *)
(*          a power cut also what the unfinished call was to make of it    *)
(* spoiled  which of the four things happened that the code does not       *)
(*          recover from (Spoils)                                          *)
(* calls, cuts, faults   how many so far                                   *)
(***************************************************************************)
EXTENDS YaffsFlash

CONSTANTS EraseAnswers,                \* of nand_flash_erase_block
          MaxCalls, MaxCuts, MaxFaults \* bounds

VARIABLES dev, on, may, spoiled, calls, cuts, faults
vars == <<dev, on, may, spoiled, calls, cuts, faults>>

-----------------------------------------------------------------------------
(* Mounting.                                                               *)
NoLuck == [worn |-> 0, erase |-> 0]

Unmounted(nand, finder) ==
    [nand |-> nand, info |-> [b \in Blocks |-> [Clean EXCEPT !.state = "UNKNOWN"]],
     bits |-> {}, erased |-> 0, ablock |-> 0, apage |-> 0, finder |-> finder,
     checker |-> 0, obj |-> [i \in Ids |-> NoObject], result |-> TRUE,
     images |-> {}, luck |-> NoLuck, stale |-> FALSE]

(* Mutant: both marks are asked for, but the power may go between them.    *)
IsBlockBadBoth(d, b) == ~d.nand[b * PerBlock].good /\ ~d.nand[b * PerBlock + 1].good

IsBlockBad(d, b) == ~d.nand[b * PerBlock].good \/ ~d.nand[b * PerBlock + 1].good

FindOrCreateObject(d, i) ==
    IF d.obj[i].here THEN d ELSE [d EXCEPT !.obj[i] = NewObject]

InUse(d, c) ==
    [d EXCEPT !.bits = @ \cup {c}, !.info[BlockOf(c)].inUse = @ + 1]

ScanData(d, c) ==
    LET page == d.nand[c]
    IN  [PutChunkIntoFile(FindOrCreateObject(InUse(d, c), page.id), page.id, page.part, c, TRUE)
            EXCEPT !.obj[page.id].size = Max({@, page.part})]

Disputed(d, i, c) ==
    IF ~d.obj[i].valid THEN d
    ELSE IF (d.obj[i].serial + 1) % 4 = d.nand[c].serial
    THEN [DeleteChunk(d, d.obj[i].chunk, TRUE) EXCEPT !.obj[i].valid = FALSE]
    ELSE DeleteChunk(d, c, TRUE)

Adopting(o, page, c) ==
    [o EXCEPT !.valid = TRUE, !.dirty = FALSE, !.chunk = c, !.name = page.data,
              !.dir = page.dir, !.deleted = @ \/ page.dir = "unlinked"]

Adopted(d, i, c) ==
    IF d.obj[i].valid THEN d ELSE [d EXCEPT !.obj[i] = Adopting(@, d.nand[c], c)]

(* Of two headers the one with the later serial is to win, but nothing has *)
(* set the object's serial: it is 0.                                       *)
ScanHeader(d, c) ==
    LET i == d.nand[c].id
    IN  Adopted(Disputed(FindOrCreateObject(ReadData(InUse(d, c), c), i), i, c), i, c)

ScanChunk(s, c) ==
    LET page == s.d.nand[c]
        b == BlockOf(c)
    IN  IF s.state # "SCANNING" \/ ~page.live THEN s
        ELSE IF page.id = Unused /\ c = b * PerBlock
        THEN [s EXCEPT !.state = "EMPTY", !.d.erased = @ + 1]
        ELSE IF page.id = Unused
        THEN [s EXCEPT !.state = "ALLOCATING", !.d.ablock = b,
                       !.d.apage = c - b * PerBlock]
        ELSE [s EXCEPT !.d = IF page.part > 0 THEN ScanData(@, c) ELSE ScanHeader(@, c)]

EndOfBlock(d, b) ==
    IF d.info[b].inUse = 0 /\ d.info[b].state = "FULL" THEN BlockBecameDirty(d, b) ELSE d

BlockState(s, b) ==
    [s.d EXCEPT !.info[b].state = IF s.state = "SCANNING" THEN "FULL" ELSE s.state]

ScanBlock(d, b) ==
    LET found == IF IsBlockBad(d, b) THEN "DEAD" ELSE "SCANNING"
        after[k \in 0 .. PerBlock] ==
            IF k = 0 THEN [d |-> d, state |-> found]
            ELSE ScanChunk(after[k - 1], b * PerBlock + k - 1)
    IN  EndOfBlock(BlockState(after[PerBlock], b), b)

AllBlocksScanned(d) ==
    LET after[k \in 0 .. Cardinality(Blocks)] ==
            IF k = 0 THEN d ELSE ScanBlock(after[k - 1], Start + k - 1)
    IN  after[Cardinality(Blocks)]

(* At the end the files that were unlinked are soft deleted.               *)
Scan(d) ==
    LET ids == SetToSeq(Ids)
        del(e, i) == IF e.obj[i].dir = "unlinked" /\ e.obj[i].deleted
                     THEN SoftDeleteFile(e, i) ELSE e
        after[k \in 0 .. Len(ids)] ==
            IF k = 0 THEN AllBlocksScanned(d) ELSE del(after[k - 1], ids[k])
    IN  after[Len(ids)]

-----------------------------------------------------------------------------
(* What a reader gets: a content for each name, a set of none or one.      *)
ReadChunk(d, i, p) ==
    LET c == FindChunkInFile(d, i, p)
    IN  IF c = 0 THEN "zeros" ELSE d.nand[c].data

InRoot(d, n) == {i \in Ids : d.obj[i].dir = "root" /\ d.obj[i].name = n}

Content(d, i) == [p \in 1 .. d.obj[i].size |-> ReadChunk(d, i, p)]

Files(d) == [n \in Names |-> {Content(d, i) : i \in InRoot(d, n)}]

(* yaffs_FindObjectByName reads the headers of files with such a name.     *)
FindObjectByName(d, n) ==
    IF d.luck.worn \in {d.obj[i].chunk : i \in InRoot(d, n)}
    THEN ReadData(d, d.luck.worn) ELSE d

-----------------------------------------------------------------------------
(* The calls, on the device.                                               *)
MadeOrNot(d, i) ==
    IF d.result THEN d ELSE [DoGenericObjectDeletion(d, i) EXCEPT !.result = FALSE]

MknodFile(d, i, n) ==
    LET new == [NewObject EXCEPT !.valid = TRUE, !.dirty = TRUE, !.dir = "root", !.name = n]
    IN  MadeOrNot(UpdateObjectHeader([d EXCEPT !.obj[i] = new], i, n), i)

Grown(d, i, p) ==
    [d EXCEPT !.obj[i].dirty = TRUE, !.obj[i].size = IF d.result THEN Max({@, p}) ELSE @]

(* A whole chunk goes past the short operation cache.                      *)
WriteDataToFile(d, i, p, value) == Grown(WriteChunkDataToObject(d, i, p, value, FALSE), i, p)

FlushFile(d, i) == IF d.obj[i].dirty THEN UpdateObjectHeader(d, i, "none") ELSE d

(* From the last chunk backwards.  A chunk outside of what the code takes  *)
(* for the device's range is only forgotten.                               *)
Daft(c) == c < Start * DaftFactor \/ c >= (End + 1) * DaftFactor

(* Mutant: nDataChunks is not counted down.                                *)
ResizeFileUncounted(d, i, size) ==
    LET drop(e, p) ==
            LET c == FindChunkInFile(e, i, p)
                cut == [e EXCEPT !.obj[i].tree[p] = IF c = 0 THEN @ ELSE 0]
            IN  IF Daft(c) THEN cut ELSE DeleteChunk(cut, c, TRUE)
        last == d.obj[i].size
        after[k \in 0 .. last - size] ==
            IF k = 0 THEN d ELSE drop(after[k - 1], last + 1 - k)
    IN  IF size >= last THEN d
        ELSE [after[last - size] EXCEPT !.obj[i].size = size]

ResizeFile(d, i, size) ==
    LET drop(e, p) ==
            LET c == FindChunkInFile(e, i, p)
                cut == [e EXCEPT !.obj[i].tree[p] = IF c = 0 THEN @ ELSE 0]
            IN  IF Daft(c) THEN cut
                ELSE DeleteChunk([cut EXCEPT !.obj[i].n = @ - 1], c, TRUE)
        last == d.obj[i].size
        after[k \in 0 .. last - size] ==
            IF k = 0 THEN d ELSE drop(after[k - 1], last + 1 - k)
    IN  IF size >= last THEN d
        ELSE [after[last - size] EXCEPT !.obj[i].size = size]

DeletedAnyway(d, i) ==
    [SoftDeleteFile([d EXCEPT !.obj[i].deleted = TRUE], i) EXCEPT !.result = d.result]

(* The object moves whether or not its header can be written.              *)
UnlinkFile(d, i) ==
    DeletedAnyway(UpdateObjectHeader([d EXCEPT !.obj[i].dir = "unlinked", !.obj[i].dirty = TRUE],
                                     i, "none"), i)

-----------------------------------------------------------------------------
(* What the code does not recover from: a deleted page was copied as if it *)
(* were live; truncation left a chunk on the flash; a file was unlinked    *)
(* but its header could not be written; a file in the root is marked       *)
(* deleted.                                                                *)
Forgotten(d) ==
    {c \in d.bits : LET page == d.nand[c]
                    IN  page.id \in Ids /\ page.part # 0 /\ page.live
                        /\ d.obj[page.id].here /\ ~d.obj[page.id].deleted
                        /\ d.obj[page.id].tree[page.part] = 0}

Spoils(d) ==
    {why \in {"stale", "forgotten", "unwritten", "undead"} :
        CASE why = "stale" -> d.stale
          [] why = "forgotten" -> Forgotten(d) # {}
          [] why = "unwritten" -> \E i \in Ids : /\ d.obj[i].dir = "unlinked" /\ d.obj[i].chunk # 0
                                                 /\ d.nand[d.obj[i].chunk].dir # "unlinked"
          [] OTHER -> \E i \in Ids : d.obj[i].dir = "root" /\ d.obj[i].deleted}

Settled(d) == [d EXCEPT !.images = {}, !.result = TRUE, !.luck = NoLuck]

(* A call ends, or the power goes after one of its writes; then the files  *)
(* may be as they were, as they were to be, or as in between.              *)
Finish(d, after, between) ==
    /\ spoiled' = spoiled \cup Spoils(d)
    /\ \/ /\ dev' = Settled(d)
          /\ on' = TRUE
          /\ may' = {after}
          /\ UNCHANGED cuts
       \/ /\ cuts < MaxCuts
          /\ \E image \in d.images : dev' = Unmounted(image, 0)
          /\ on' = FALSE
          /\ may' = may \cup {after} \cup between
          /\ cuts' = cuts + 1

(* With or without a read that goes wrong, and with any answer of the      *)
(* driver to the erases.  Only the read is a fault of the flash.           *)
WithLuck(pages, Op(_)) ==
    \E worn \in {0} \cup pages, erase \in EraseAnswers :
        /\ worn # 0 => faults < MaxFaults
        /\ faults' = IF worn # 0 THEN faults + 1 ELSE faults
        /\ Op([dev EXCEPT !.luck = [worn |-> worn, erase |-> erase]])

(* Once files are lost there is nothing more to compare with.              *)
Call(Op(_)) ==
    /\ on /\ Files(dev) \in may /\ calls < MaxCalls
    /\ calls' = calls + 1
    /\ WithLuck(dev.bits, Op)

Told(n, content) == [(CHOOSE f \in may : TRUE) EXCEPT ![n] = content]
Now == CHOOSE f \in may : TRUE

(* The call did what it was to do, or says that it did nothing.            *)
Answered(d, new) == Finish(d, IF d.result THEN new ELSE Now, {new})

Create(n, i) ==
    /\ InRoot(dev, n) = {} /\ ~dev.obj[i].here
    /\ Call(LAMBDA d : Answered(MknodFile(d, i, n), Told(n, {<<>>})))

Rewritten(n, p, v) ==
    LET old == CHOOSE s \in Now[n] : TRUE
    IN  Told(n, {[q \in 1 .. Max({p, Len(old)}) |-> IF q = p THEN v ELSE old[q]]})

Write(n, i, p, v) ==
    /\ i \in InRoot(dev, n) /\ p <= dev.obj[i].size + 1
    /\ Call(LAMBDA d : Answered(WriteDataToFile(FindObjectByName(d, n), i, p, v), Rewritten(n, p, v)))

Flush(n, i) ==
    /\ i \in InRoot(dev, n) /\ dev.obj[i].dirty
    /\ Call(LAMBDA d : Finish(FlushFile(d, i), Now, {}))

Truncate(n, i, size) ==
    /\ i \in InRoot(dev, n) /\ size < dev.obj[i].size
    /\ Call(LAMBDA d :
            LET cut(k) == Told(n, {SubSeq(s, 1, k) : s \in Now[n]})
            IN  Finish(ResizeFile(FindObjectByName(d, n), i, size), cut(size),
                       {cut(k) : k \in size .. dev.obj[i].size}))

Unlink(n, i) ==
    /\ i \in InRoot(dev, n)
    /\ Call(LAMBDA d : Finish(UnlinkFile(FindObjectByName(d, n), i), Told(n, {}), {}))

(* The power goes, or the device is unmounted, with no call under way.     *)
PowerCut ==
    /\ on /\ cuts < MaxCuts
    /\ dev' = Unmounted(dev.nand, 0)
    /\ on' = FALSE
    /\ cuts' = cuts + 1
    /\ UNCHANGED <<may, spoiled, calls, faults>>

Mounted(d) == Finish(d, IF Files(d) \in may THEN Files(d) ELSE Now, may)

Mount ==
    /\ ~on
    /\ WithLuck({c \in Chunks : dev.nand[c].id \in Ids}, LAMBDA d : Mounted(Scan(d)))
    /\ UNCHANGED calls

-----------------------------------------------------------------------------
FreshNand ==
    [c \in Chunks |-> [ErasedPage EXCEPT !.good = BlockOf(c) \notin FactoryBad]]

Init ==
    /\ dev = Unmounted(FreshNand, 0)
    /\ on = FALSE
    /\ may = {[n \in Names |-> {}]}
    /\ spoiled = {}
    /\ calls = 0 /\ cuts = 0 /\ faults = 0

Next ==
    \/ \E n \in Names, i \in Ids :
          \/ Create(n, i) \/ Flush(n, i) \/ Unlink(n, i)
          \/ \E p \in Parts, v \in Values : Write(n, i, p, v)
          \/ \E size \in 0 .. Cardinality(Parts) : Truncate(n, i, size)
    \/ PowerCut
    \/ Mount

Spec == Init /\ [][Next]_vars

-----------------------------------------------------------------------------
(* A mounted file reads as its writers were told, or, after a power cut, as *)
(* the unfinished call was to leave it: writing, collecting, truncating and *)
(* scanning never bring back an older chunk or lose a newer one.            *)
ReadsKept == on /\ spoiled = {} => Files(dev) \in may

(* The counters that allocation and collection trust are exact, whatever    *)
(* else is lost, unless a file in the root is marked deleted, whose chunks  *)
(* the collector drops under it: nErasedBlocks, pagesInUse against the      *)
(* chunk bits, the one block in allocation; and an empty block is erased.   *)
BlocksAccounted ==
    on /\ "undead" \notin spoiled =>
       /\ dev.erased = Cardinality({b \in Blocks : dev.info[b].state = "EMPTY"})
       /\ \A b \in Blocks :
             /\ dev.info[b].state # "DEAD" =>
                    dev.info[b].inUse = Cardinality(dev.bits \cap PagesOf(b))
             /\ dev.info[b].state \in {"EMPTY", "DEAD"} => dev.bits \cap PagesOf(b) = {}
             /\ dev.info[b].state = "ALLOCATING" <=> dev.ablock = b
             /\ dev.info[b].state = "EMPTY" =>
                    \A c \in PagesOf(b) : dev.nand[c] = ErasedPage

(* Header and tree point at live pages of the very object and part, pages   *)
(* in use, so that no collection erases them; and nDataChunks, by which the *)
(* collector decides that a deleted file is gone, counts the tree.          *)
TreesOwnPages ==
    on /\ spoiled = {} =>
        \A i \in Ids : dev.obj[i].here =>
            LET o == dev.obj[i]
                used == {p \in Parts : o.tree[p] # 0}
            IN  /\ o.chunk # 0 => /\ o.chunk \in dev.bits /\ dev.nand[o.chunk].live
                                  /\ dev.nand[o.chunk].id = i
                                  /\ dev.nand[o.chunk].part = 0
                /\ \A p \in used : o.tree[p] \in dev.bits /\ FindChunkInFile(dev, i, p) # 0
                /\ ~o.soft => o.n = Cardinality(used)

(* A block is bad once one of its two marks is: RetireBlock writes two, and  *)
(* the power may go between them.  From then on nothing in it changes, no    *)
(* call and no scan programs or erases it, and no mounted device has a use   *)
(* for it.                                                                  *)
BadIn(nand, b) == ~nand[b * PerBlock].good \/ ~nand[b * PerBlock + 1].good

BadStaysAside(b) ==
    /\ \A c \in PagesOf(b) : dev'.nand[c] = dev.nand[c]
    /\ on' => dev'.info[b].state = "DEAD"

RetiredStaysRetired ==
    [][\A b \in Blocks : BadIn(dev.nand, b) => BadStaysAside(b)]_vars

(* yaffs_guts.c:2111 "If the block is still healthy erase it and mark as     *)
(* clean.  If the block has had a data failure, then retire it.": without a  *)
(* failure no block is lost but those that were bad from the factory.        *)
HealthyBlocksStay ==
    on /\ Weak = {} /\ faults = 0 => {b \in Blocks : dev.info[b].state = "DEAD"} \subseteq FactoryBad

=============================================================================
