----------------------------- MODULE YaffsProof -----------------------------
(***************************************************************************)
(* Proofs about Yaffs, for a device of any size and any files, any answers *)
(* of the driver and power cuts after any program or erase: unless a file  *)
(* in the root is marked deleted, the counters that allocation and         *)
(* collection trust are exact after every call and every mount, and trees  *)
(* and headers point at pages of their own object.                         *)
(*                                                                         *)
(* Flash    what is true of every image that a power cut may leave         *)
(* Sound    the blocks and the counters in the midst of a call, with a     *)
(*          hole for the page that was allocated and is not written yet    *)
(* Points   the header and the tree of an object point at pages in use     *)
(* Intact   Sound without a hole, with Points for every object             *)
(* Named    an object that a call can find has a header                    *)
(*                                                                         *)
(* The first part is about pages and blocks up to the collection, the      *)
(* second about the calls, the third about the scan, which makes a device  *)
(* that is Intact of any Flash, block by block and page by page.           *)
(***************************************************************************)
EXTENDS Yaffs, NumberLemmas, FiniteSetTheorems

-----------------------------------------------------------------------------
(* The records of the model.                                               *)
Data == Names \cup Values \cup {"erased"}
Dirs == {"none", "root", "unlinked"}
PageSet == [id : Ids \cup {Unused}, part : {0} \cup Parts, serial : 0 .. 3, data : Data,
            dir : Dirs, live : BOOLEAN, good : BOOLEAN]
Nand == [Chunks -> PageSet]
Info == [state : {"UNKNOWN", "EMPTY", "ALLOCATING", "FULL", "DEAD"}, inUse : Int,
         soft : Int, retire : BOOLEAN]
Object == [here : BOOLEAN, valid : BOOLEAN, deleted : BOOLEAN, soft : BOOLEAN,
           dirty : BOOLEAN, dir : Dirs \cup {"lost+found"}, name : Data \cup {"none"},
           serial : 0 .. 3, chunk : {0} \cup Chunks, n : Int, size : {0} \cup Parts,
           tree : [Parts -> {0} \cup Chunks]]
Luck == [worn : {0} \cup Chunks, erase : EraseAnswers \cup {0}]

Typed(d) ==
    d \in [nand : Nand, info : [Blocks -> Info], bits : SUBSET Chunks, erased : Int,
           ablock : {0} \cup Blocks, apage : Nat, finder : {d.finder},
           checker : {d.checker}, obj : [Ids -> Object], result : {d.result},
           images : SUBSET Nand, luck : Luck, stale : BOOLEAN]

(* Pages of a block in their order, and how far it is written.             *)
Off(c) == c - BlockOf(c) * PerBlock
Blank(nand, c) == nand[c].id = Unused /\ nand[c].live

Filled(nand, b, k, hole) ==
    \A c \in PagesOf(b) :
        /\ nand[c].good
        /\ IF c = hole \/ Off(c) >= k THEN nand[c] = ErasedPage ELSE ~Blank(nand, c)

Partial(nand, b) ==
    /\ ~BadIn(nand, b)
    /\ \E c \in PagesOf(b) : ~Blank(nand, c)
    /\ \E c \in PagesOf(b) : Blank(nand, c)

Signed(page) == page.id # Unused /\ page.part = 0 => page.dir # "none"

Flash(nand) ==
    /\ nand \in Nand
    /\ \A c \in Chunks : Signed(nand[c])
    /\ \A b \in Blocks : ~BadIn(nand, b) => \E k \in 0 .. PerBlock : Filled(nand, b, k, 0)
    /\ \A b1, b2 \in Blocks : Partial(nand, b1) /\ Partial(nand, b2) => b1 = b2

(* What the state of a block says of its pages.                            *)
Stated(d, b, hole) ==
    LET state == d.info[b].state
    IN  /\ state = "EMPTY" => Filled(d.nand, b, 0, hole)
        /\ state = "ALLOCATING" => Filled(d.nand, b, d.apage, hole)
        /\ state = "FULL" => Filled(d.nand, b, PerBlock, hole)
        /\ state = "DEAD" => BadIn(d.nand, b)

UsedIn(d, b) == d.bits \cap PagesOf(b)

Counted(d, b) ==
    LET state == d.info[b].state
    IN  /\ state # "DEAD" => d.info[b].inUse = Cardinality(UsedIn(d, b))
        /\ state \in {"EMPTY", "DEAD"} => UsedIn(d, b) = {}
        /\ state = "ALLOCATING" <=> d.ablock = b
        /\ state = "ALLOCATING" => /\ d.apage < PerBlock
                                   /\ \A c \in UsedIn(d, b) : Off(c) < d.apage

EmptyBlocks(d) == {b \in Blocks : d.info[b].state = "EMPTY"}

Sound(d, hole) ==
    /\ Typed(d)
    /\ Flash(d.nand)
    /\ \A image \in d.images : Flash(image)
    /\ \A b \in Blocks : Stated(d, b, hole) /\ Counted(d, b)
    /\ d.erased = Cardinality(EmptyBlocks(d))

(* All blocks were scanned.                                                *)
Ready(d) == \A b \in Blocks : d.info[b].state # "UNKNOWN"

-----------------------------------------------------------------------------
(* Numbers of blocks and pages.                                            *)
LEMMA Sizes ==
    /\ PerBlock \in Nat /\ PerBlock >= 2 /\ Start \in Nat /\ Start >= 1 /\ End \in Nat
    /\ Start < End /\ Blocks \subseteq Nat /\ 0 \notin Blocks
    /\ \A b \in Int : b \in Blocks <=> Start <= b /\ b <= End
  BY DeviceAssumption DEF Blocks

LEMMA ProductOrder ==
    ASSUME NEW x \in Int, NEW y \in Int, NEW p \in Nat, x <= y
    PROVE  x * p <= y * p
  <1>1. y - x \in Nat
    OBVIOUS
  <1>2. (y - x) * p \in Nat
    BY <1>1
  <1>3. y * p = x * p + (y - x) * p
    OBVIOUS
  <1>4. x * p \in Int /\ y * p \in Int
    OBVIOUS
  <1> QED
    BY <1>2, <1>3, <1>4

LEMMA BlockBounds ==
    ASSUME NEW c \in Nat
    PROVE  /\ BlockOf(c) \in Nat /\ BlockOf(c) * PerBlock \in Nat
           /\ BlockOf(c) * PerBlock <= c /\ c < BlockOf(c) * PerBlock + PerBlock
  <1>1. c \div PerBlock \in Nat /\ c % PerBlock \in 0 .. PerBlock - 1
    BY Sizes
  <1>2. c = PerBlock * (c \div PerBlock) + (c % PerBlock)
    BY Sizes
  <1>3. /\ (c \div PerBlock) * PerBlock \in Nat
        /\ PerBlock * (c \div PerBlock) = (c \div PerBlock) * PerBlock
    BY <1>1, Sizes
  <1> QED
    BY <1>1, <1>2, <1>3, Sizes DEF BlockOf

LEMMA BlockUnique ==
    ASSUME NEW c \in Nat, NEW b \in Nat, b * PerBlock <= c, c < b * PerBlock + PerBlock
    PROVE  BlockOf(c) = b
  <1> DEFINE q == BlockOf(c)
  <1>1. /\ q \in Nat /\ q * PerBlock \in Nat /\ q * PerBlock <= c
        /\ c < q * PerBlock + PerBlock
    BY BlockBounds
  <1>2. b * PerBlock \in Nat /\ PerBlock \in Nat
    BY Sizes
  <1> HIDE DEF q
  <1>3. CASE q < b
    <2>1. (q + 1) * PerBlock <= b * PerBlock
      BY <1>1, <1>2, <1>3, ProductOrder
    <2>2. (q + 1) * PerBlock = q * PerBlock + PerBlock
      BY <1>1, <1>2
    <2> QED
      BY <1>1, <1>2, <2>1, <2>2
  <1>4. CASE b < q
    <2>1. (b + 1) * PerBlock <= q * PerBlock
      BY <1>1, <1>2, <1>4, ProductOrder
    <2>2. (b + 1) * PerBlock = b * PerBlock + PerBlock
      BY <1>1, <1>2
    <2> QED
      BY <1>1, <1>2, <2>1, <2>2
  <1> QED
    BY <1>1, <1>3, <1>4 DEF q

LEMMA PagesAre ==
    ASSUME NEW b \in Blocks, NEW k \in 0 .. PerBlock - 1
    PROVE  /\ b * PerBlock + k \in Chunks
           /\ BlockOf(b * PerBlock + k) = b
           /\ Off(b * PerBlock + k) = k
  <1>1. /\ b \in Nat /\ k \in Nat /\ k < PerBlock /\ b * PerBlock \in Nat
        /\ Start * PerBlock \in Nat /\ End * PerBlock \in Nat /\ PerBlock \in Nat
    BY Sizes
  <1>2. Start * PerBlock <= b * PerBlock /\ b * PerBlock <= End * PerBlock
    BY Sizes, ProductOrder
  <1>3. b * PerBlock + k \in Chunks
    BY <1>1, <1>2 DEF Chunks
  <1>4. BlockOf(b * PerBlock + k) = b
    BY <1>1, BlockUnique
  <1> QED
    BY <1>1, <1>3, <1>4 DEF Off

LEMMA ChunksAre ==
    ASSUME NEW c \in Chunks
    PROVE  /\ c \in Nat /\ c # 0
           /\ BlockOf(c) \in Blocks /\ c \in PagesOf(BlockOf(c))
           /\ Off(c) \in 0 .. PerBlock - 1
           /\ c = BlockOf(c) * PerBlock + Off(c)
  <1> DEFINE q == BlockOf(c)
  <1>1. /\ PerBlock \in Nat /\ PerBlock >= 2 /\ Start \in Nat /\ Start >= 1 /\ End \in Nat
        /\ Start * PerBlock \in Nat /\ End * PerBlock \in Nat
    BY Sizes
  <1>2. 1 * PerBlock <= Start * PerBlock
    BY <1>1, ProductOrder
  <1>3. c \in Nat /\ c # 0 /\ Start * PerBlock <= c /\ c < End * PerBlock + PerBlock
    BY <1>1, <1>2 DEF Chunks
  <1>4. /\ q \in Nat /\ q * PerBlock \in Nat /\ q * PerBlock <= c
        /\ c < q * PerBlock + PerBlock
    BY <1>3, BlockBounds
  <1> HIDE DEF q
  <1>5. Start <= q
    <2> SUFFICES ASSUME q < Start PROVE FALSE
      BY <1>1, <1>4
    <2>1. (q + 1) * PerBlock <= Start * PerBlock
      BY <1>1, <1>4, ProductOrder
    <2>2. (q + 1) * PerBlock = q * PerBlock + PerBlock
      BY <1>1, <1>4
    <2> QED
      BY <1>1, <1>3, <1>4, <2>1, <2>2
  <1>6. q <= End
    <2> SUFFICES ASSUME End < q PROVE FALSE
      BY <1>1, <1>4
    <2>1. (End + 1) * PerBlock <= q * PerBlock
      BY <1>1, <1>4, ProductOrder
    <2>2. (End + 1) * PerBlock = End * PerBlock + PerBlock
      BY <1>1
    <2> QED
      BY <1>1, <1>3, <1>4, <2>1, <2>2
  <1>7. q \in Blocks
    BY <1>1, <1>4, <1>5, <1>6, Sizes
  <1> QED
    BY <1>1, <1>3, <1>4, <1>7 DEF q, Off, PagesOf

LEMMA FirstPages ==
    ASSUME NEW b \in Blocks
    PROVE  /\ b * PerBlock \in PagesOf(b) /\ b * PerBlock + 1 \in PagesOf(b)
           /\ Off(b * PerBlock) = 0
  <1>1. b * PerBlock + 0 = b * PerBlock
    BY Sizes
  <1>2. 0 \in 0 .. PerBlock - 1 /\ 1 \in 0 .. PerBlock - 1
    BY Sizes
  <1> QED
    BY <1>1, <1>2, PagesAre DEF PagesOf

LEMMA SameOff ==
    ASSUME NEW c1 \in Chunks, NEW c2 \in Chunks, BlockOf(c1) = BlockOf(c2), Off(c1) = Off(c2)
    PROVE  c1 = c2
  BY ChunksAre

LEMMA Finite ==
    /\ IsFiniteSet(Chunks) /\ IsFiniteSet(Blocks) /\ Cardinality(Chunks) \in Nat
    /\ \A S : IsFiniteSet(S \cap Chunks) /\ IsFiniteSet(S \cap Blocks)
  <1>1. IsFiniteSet(Blocks)
    BY FS_Interval, Sizes DEF Blocks
  <1>2. IsFiniteSet(Chunks)
    <2>1. Start * PerBlock \in Int /\ End * PerBlock + PerBlock - 1 \in Int
      BY Sizes
    <2> QED
      BY <2>1, FS_Interval DEF Chunks
  <1>3. \A S : S \cap Chunks \in SUBSET Chunks /\ S \cap Blocks \in SUBSET Blocks
    OBVIOUS
  <1> QED
    BY <1>1, <1>2, <1>3, FS_Subset, FS_CardinalityType

-----------------------------------------------------------------------------
(* The flash after one page, one block, one mark.                          *)
ErasedBlock(nand, b) == [c \in Chunks |-> IF BlockOf(c) = b THEN ErasedPage ELSE nand[c]]

LEMMA ErasedIs ==
    ASSUME "erased" \in Data
    PROVE  /\ ErasedPage \in PageSet /\ ErasedPage.good /\ ErasedPage.live
           /\ ErasedPage.id = Unused /\ Signed(ErasedPage)
  BY DEF ErasedPage, PageSet, Dirs, Signed

LEMMA Erased ==
    /\ ErasedPage \in PageSet /\ ErasedPage.good /\ ErasedPage.live
    /\ ErasedPage.id = Unused /\ Signed(ErasedPage)
  BY ErasedIs DEF Data

(* A page that is not blank after it was written: it was not before, or it *)
(* is the next of the one block that is partly written.                    *)
Put(nand, c, page) == [nand EXCEPT ![c] = page]

LEMMA PageFlash ==
    ASSUME NEW nand, Flash(nand), NEW c \in Chunks, NEW page \in PageSet, Signed(page),
           page.good = nand[c].good, page.id # Unused \/ ~page.live,
           \/ ~Blank(nand, c)
           \/ /\ Filled(nand, BlockOf(c), Off(c), 0)
              /\ \A b \in Blocks : b # BlockOf(c) => ~Partial(nand, b)
    PROVE  Flash(Put(nand, c, page))
  <1> DEFINE q == BlockOf(c)
             new == Put(nand, c, page)
  <1>a. new = [nand EXCEPT ![c] = page]
    BY DEF Put
  <1> HIDE DEF new
  <1>0. /\ q \in Blocks /\ c \in PagesOf(q) /\ Off(c) \in 0 .. PerBlock - 1 /\ c # 0
        /\ \A b \in Blocks : PagesOf(b) \subseteq Chunks
        /\ \A b \in Blocks : c \in PagesOf(b) => b = q
    BY ChunksAre DEF PagesOf
  <1>1. /\ new \in Nand /\ new[c] = page /\ \A x \in Chunks : x # c => new[x] = nand[x]
        /\ \A x \in Chunks : new[x].good = nand[x].good
    BY <1>a DEF Flash, Nand
  <1>2. ~Blank(new, c) /\ \A x \in Chunks : x # c => (Blank(new, x) <=> Blank(nand, x))
    BY <1>1 DEF Blank
  <1>3. \A x \in Chunks : Signed(new[x])
    BY <1>1 DEF Flash
  <1>4. \A b \in Blocks : BadIn(new, b) <=> BadIn(nand, b)
    <2> SUFFICES ASSUME NEW b \in Blocks PROVE BadIn(new, b) <=> BadIn(nand, b)
      OBVIOUS
    <2>1. b * PerBlock \in Chunks /\ b * PerBlock + 1 \in Chunks
      BY FirstPages, <1>0
    <2> QED
      BY <1>1, <2>1 DEF BadIn
  <1>5. ASSUME NEW b \in Blocks, ~BadIn(new, b)
        PROVE  \E k \in 0 .. PerBlock : Filled(new, b, k, 0)
    <2>1. PICK k \in 0 .. PerBlock : Filled(nand, b, k, 0)
      BY <1>4, <1>5 DEF Flash
    <2>2. CASE b # q
      <3>1. Filled(new, b, k, 0)
        BY <1>0, <1>1, <1>2, <2>1, <2>2 DEF Filled
      <3> QED
        BY <3>1
    <2>3. CASE b = q /\ ~Blank(nand, c)
      <3>1. ~(Off(c) >= k)
        BY <1>0, <2>1, <2>3, Erased DEF Filled, Blank
      <3>2. Filled(new, b, k, 0)
        BY <1>0, <1>1, <1>2, <2>1, <2>3, <3>1 DEF Filled
      <3> QED
        BY <3>2
    <2>4. CASE b = q /\ Blank(nand, c)
      <3>1. Filled(nand, b, Off(c), 0)
        BY <2>4
      <3>2. Off(c) + 1 \in 0 .. PerBlock
        BY <1>0, Sizes
      <3>3. ASSUME NEW x \in PagesOf(b)
            PROVE  /\ new[x].good
                   /\ IF x = 0 \/ Off(x) >= Off(c) + 1 THEN new[x] = ErasedPage
                      ELSE ~Blank(new, x)
        <4>1. x \in Chunks /\ x # 0 /\ Off(x) \in Nat /\ Off(c) \in Nat /\ BlockOf(x) = b
          BY <1>0, <3>3, ChunksAre DEF PagesOf
        <4>2. new[x].good
          BY <1>1, <3>1, <3>3, <4>1 DEF Filled
        <4>3. CASE x = c
          BY <1>2, <4>1, <4>2, <4>3
        <4>4. CASE x # c
          <5>1. Off(x) # Off(c)
            BY <2>4, <4>1, <4>4, SameOff
          <5>2. new[x] = nand[x] /\ (Blank(new, x) <=> Blank(nand, x))
            BY <1>1, <1>2, <4>1, <4>4
          <5>3. IF Off(x) >= Off(c) THEN nand[x] = ErasedPage ELSE ~Blank(nand, x)
            BY <3>1, <3>3, <4>1 DEF Filled
          <5> QED
            BY <4>1, <4>2, <5>1, <5>2, <5>3
        <4> QED
          BY <4>3, <4>4
      <3>4. Filled(new, b, Off(c) + 1, 0)
        BY <3>3 DEF Filled
      <3> QED
        BY <3>2, <3>4
    <2> QED
      BY <2>2, <2>3, <2>4
  <1>6. ASSUME NEW b1 \in Blocks, NEW b2 \in Blocks, Partial(new, b1), Partial(new, b2)
        PROVE  b1 = b2
    <2>1. \A b \in Blocks : b # q => (Partial(new, b) <=> Partial(nand, b))
      BY <1>0, <1>2, <1>4 DEF Partial
    <2>2. CASE ~Blank(nand, c)
      <3>1. \A x \in Chunks : Blank(new, x) <=> Blank(nand, x)
        BY <1>2, <2>2
      <3>2. \A b \in Blocks : Partial(new, b) <=> Partial(nand, b)
        BY <1>0, <1>4, <3>1 DEF Partial
      <3> QED
        BY <1>6, <3>2 DEF Flash
    <2>3. CASE \A b \in Blocks : b # q => ~Partial(nand, b)
      BY <1>6, <2>1, <2>3
    <2> QED
      BY <2>2, <2>3
  <1> QED
    BY <1>1, <1>3, <1>5, <1>6 DEF Flash, new

LEMMA EraseFlash ==
    ASSUME NEW nand, Flash(nand), NEW b \in Blocks
    PROVE  Flash(ErasedBlock(nand, b))
  <1> DEFINE new == ErasedBlock(nand, b)
  <1>1. /\ new \in Nand
        /\ \A c \in Chunks : new[c] = IF BlockOf(c) = b THEN ErasedPage ELSE nand[c]
    BY Erased DEF ErasedBlock, Flash, Nand
  <1> HIDE DEF new
  <1>2. \A c \in Chunks : Signed(new[c])
    BY <1>1, Erased DEF Flash
  <1>3. \A q \in Blocks : PagesOf(q) \subseteq Chunks
    BY DEF PagesOf
  <1>4. Filled(new, b, 0, 0) /\ ~Partial(new, b)
    <2>1. \A c \in PagesOf(b) : c \in Chunks /\ c # 0 /\ Off(c) \in Nat /\ new[c] = ErasedPage
      BY <1>1, ChunksAre DEF PagesOf
    <2>2. Filled(new, b, 0, 0)
      BY <2>1, Erased DEF Filled
    <2>3. \A c \in PagesOf(b) : Blank(new, c)
      BY <2>1, Erased DEF Blank
    <2> QED
      BY <2>2, <2>3 DEF Partial
  <1>5. ASSUME NEW q \in Blocks, q # b
        PROVE  /\ BadIn(new, q) <=> BadIn(nand, q)
               /\ Partial(new, q) <=> Partial(nand, q)
               /\ \A k : Filled(new, q, k, 0) <=> Filled(nand, q, k, 0)
    <2>1. \A c \in PagesOf(q) : c \in Chunks /\ new[c] = nand[c]
      BY <1>1, <1>5 DEF PagesOf
    <2>2. BadIn(new, q) <=> BadIn(nand, q)
      BY <2>1, FirstPages DEF BadIn
    <2> QED
      BY <2>1, <2>2 DEF Partial, Filled, Blank
  <1>6. ASSUME NEW q \in Blocks, ~BadIn(new, q)
        PROVE  \E k \in 0 .. PerBlock : Filled(new, q, k, 0)
    <2>1. CASE q = b
      BY <1>4, <2>1, Sizes
    <2>2. CASE q # b
      BY <1>5, <1>6, <2>2 DEF Flash
    <2> QED
      BY <2>1, <2>2
  <1>7. \A b1, b2 \in Blocks : Partial(new, b1) /\ Partial(new, b2) => b1 = b2
    BY <1>4, <1>5 DEF Flash
  <1> QED
    BY <1>1, <1>2, <1>6, <1>7 DEF Flash, new

Marked(nand, c) == [nand EXCEPT ![c].good = FALSE]

LEMMA BadFlash ==
    ASSUME NEW nand, Flash(nand), NEW b \in Blocks,
           NEW c, c = b * PerBlock \/ c = b * PerBlock + 1
    PROVE  /\ Flash(Marked(nand, c)) /\ BadIn(Marked(nand, c), b)
           /\ \A x \in Chunks : /\ BlockOf(x) # b => Marked(nand, c)[x] = nand[x]
                                /\ Marked(nand, c)[x].id = nand[x].id
                                /\ Marked(nand, c)[x].live = nand[x].live
                                /\ Marked(nand, c)[x].part = nand[x].part
  <1> DEFINE new == Marked(nand, c)
  <1>a. new = [nand EXCEPT ![c].good = FALSE]
    BY DEF Marked
  <1> HIDE DEF new
  <1>0. c \in Chunks /\ BlockOf(c) = b
    BY FirstPages DEF PagesOf
  <1>1. /\ new \in Nand
        /\ \A x \in Chunks : x # c => new[x] = nand[x]
        /\ new[c] = [nand[c] EXCEPT !.good = FALSE]
    BY <1>0, <1>a DEF Flash, Nand, PageSet
  <1>2. nand[c] \in PageSet
    BY <1>0 DEF Flash, Nand
  <1>3. /\ ~new[c].good /\ new[c].id = nand[c].id /\ new[c].live = nand[c].live
        /\ new[c].part = nand[c].part /\ new[c].dir = nand[c].dir
    BY <1>1, <1>2 DEF PageSet
  <1>4. \A x \in Chunks : /\ BlockOf(x) # b => new[x] = nand[x]
                          /\ new[x].id = nand[x].id /\ new[x].live = nand[x].live
                          /\ new[x].part = nand[x].part /\ new[x].dir = nand[x].dir
    BY <1>0, <1>1, <1>3
  <1>5. \A x \in Chunks : Signed(new[x])
    BY <1>4 DEF Signed, Flash
  <1>6. BadIn(new, b)
    BY <1>3 DEF BadIn
  <1>7. ASSUME NEW q \in Blocks, q # b
        PROVE  /\ BadIn(new, q) <=> BadIn(nand, q)
               /\ Partial(new, q) <=> Partial(nand, q)
               /\ \A k : Filled(new, q, k, 0) <=> Filled(nand, q, k, 0)
    <2>1. \A x \in PagesOf(q) : x \in Chunks /\ new[x] = nand[x]
      BY <1>4, <1>7 DEF PagesOf
    <2>2. BadIn(new, q) <=> BadIn(nand, q)
      BY <2>1, FirstPages DEF BadIn
    <2> QED
      BY <2>1, <2>2 DEF Partial, Filled, Blank
  <1>8. \A q \in Blocks : ~BadIn(new, q) => \E k \in 0 .. PerBlock : Filled(new, q, k, 0)
    BY <1>6, <1>7 DEF Flash
  <1>9. \A b1, b2 \in Blocks : Partial(new, b1) /\ Partial(new, b2) => b1 = b2
    <2>1. ~Partial(new, b)
      BY <1>6 DEF Partial
    <2> QED
      BY <1>7, <2>1 DEF Flash
  <1> QED
    BY <1>1, <1>4, <1>5, <1>6, <1>8, <1>9 DEF Flash, new

-----------------------------------------------------------------------------
(* What a step leaves.                                                     *)
Same(d, e) ==
    /\ e.obj = d.obj /\ e.luck = d.luck /\ e.stale = d.stale
    /\ e.ablock = d.ablock /\ e.apage = d.apage

(* The pages in use stay so and stay as they are, but for those of C.  A    *)
(* page that is not in use and looks like an object's looked so before: it  *)
(* was not in use then either, or it is one of U.                           *)
Lasts(d, e, C, U) ==
    /\ \A x \in d.bits \ C : x \in e.bits /\ e.nand[x] = d.nand[x]
    /\ \A x \in Chunks : x \notin e.bits /\ e.nand[x].live /\ e.nand[x].id # Unused =>
           /\ x \notin d.bits \/ x \in U
           /\ d.nand[x].live /\ e.nand[x].id = d.nand[x].id /\ e.nand[x].part = d.nand[x].part
    /\ \A b \in Blocks : e.info[b].state = "UNKNOWN" => d.info[b].state = "UNKNOWN"

(* Of blocks that are not scanned nothing changes but the pages of C.       *)
Unread(d, e, C) ==
    \A b \in Blocks : d.info[b].state = "UNKNOWN" =>
        /\ e.info[b].state = "UNKNOWN" /\ e.info[b].inUse = d.info[b].inUse
        /\ UsedIn(e, b) = UsedIn(d, b)
        /\ \A x \in PagesOf(b) :
              /\ x \notin C => e.nand[x] = d.nand[x]
              /\ e.nand[x].id = d.nand[x].id /\ e.nand[x].part = d.nand[x].part
              /\ e.nand[x].good = d.nand[x].good

(* As Sound, whatever the pages of a block are.                             *)
SoundBut(d, b) ==
    /\ Typed(d)
    /\ Flash(d.nand)
    /\ \A image \in d.images : Flash(image)
    /\ \A q \in Blocks : (q # b => Stated(d, q, 0)) /\ Counted(d, q)
    /\ d.erased = Cardinality(EmptyBlocks(d))

LEMMA LastsTwice ==
    ASSUME NEW d, NEW e, NEW f, NEW C, NEW C2, NEW U,
           Lasts(d, e, C, U), Lasts(e, f, C2, {})
    PROVE  Lasts(d, f, C \cup C2, U)
  BY DEF Lasts

LEMMA UnreadTwice ==
    ASSUME NEW d, NEW e, NEW f, NEW C, NEW C2, Unread(d, e, C), Unread(e, f, C2)
    PROVE  Unread(d, f, C \cup C2)
  BY DEF Unread

(* A block that has no page in use any more is marked bad or erased.       *)
LEMMA RetireKeeps ==
    ASSUME NEW d, NEW b \in Blocks, SoundBut(d, b), d.info[b].state = "FULL",
           UsedIn(d, b) = {},
           NEW e, e = RetireBlock(d, b)
    PROVE  /\ Sound(e, 0) /\ Same(d, e) /\ Lasts(d, e, {}, {}) /\ Unread(d, e, {})
           /\ e.bits = d.bits
  <1> DEFINE c1 == b * PerBlock
             c2 == b * PerBlock + 1
             n1 == Marked(d.nand, c1)
             n2 == Marked(n1, c2)
             info == [d.info EXCEPT ![b].state = "DEAD"]
  <1>1. Flash(d.nand) /\ Typed(d)
    BY DEF SoundBut
  <1>4. e = [d EXCEPT !.nand = n2, !.images = d.images \cup {n1, n2}, !.info = info]
    <2>1. e = [[[d EXCEPT !.nand = n1, !.images = @ \cup {n1}]
                   EXCEPT !.nand = n2, !.images = @ \cup {n2}] EXCEPT !.info = info]
      BY <1>1 DEF RetireBlock, Flashed, Typed, Marked
    <2> HIDE DEF n1, n2, info
    <2> QED
      BY <1>1, <2>1 DEF Typed
  <1>2. /\ Flash(n1)
        /\ \A x \in Chunks : /\ BlockOf(x) # b => n1[x] = d.nand[x]
                             /\ n1[x].id = d.nand[x].id /\ n1[x].live = d.nand[x].live
                             /\ n1[x].part = d.nand[x].part
    BY <1>1, BadFlash
  <1> HIDE DEF n1
  <1>3. /\ Flash(n2) /\ BadIn(n2, b)
        /\ \A x \in Chunks : /\ BlockOf(x) # b => n2[x] = n1[x]
                             /\ n2[x].id = n1[x].id /\ n2[x].live = n1[x].live
                             /\ n2[x].part = n1[x].part
    BY <1>2, BadFlash
  <1> HIDE DEF n2
  <1>5. /\ info \in [Blocks -> Info] /\ info[b].state = "DEAD"
        /\ info[b].inUse = d.info[b].inUse
        /\ \A q \in Blocks : q # b => info[q] = d.info[q]
    BY <1>1 DEF Typed, Info
  <1> HIDE DEF info
  <1>6. /\ e.nand = n2 /\ e.images = d.images \cup {n1, n2} /\ e.info = info
        /\ e.bits = d.bits /\ e.erased = d.erased /\ Same(d, e)
    BY <1>1, <1>4 DEF Typed, Same
  <1>7. Typed(e)
    <2>1. n1 \in Nand /\ n2 \in Nand
      BY <1>2, <1>3 DEF Flash
    <2>2. d.images \cup {n1, n2} \in SUBSET Nand
      BY <1>1, <2>1 DEF Typed
    <2> HIDE DEF Nand
    <2> QED
      BY <1>1, <1>4, <1>5, <2>1, <2>2 DEF Typed
  <1>8. \A q \in Blocks : UsedIn(e, q) = UsedIn(d, q)
    BY <1>6 DEF UsedIn
  <1>9. \A q \in Blocks : Counted(e, q)
    BY <1>5, <1>6, <1>8 DEF SoundBut, Counted, Same
  <1>10. \A q \in Blocks : q # b =>
            /\ \A x \in PagesOf(q) : n2[x] = d.nand[x]
            /\ \A k : Filled(n2, q, k, 0) <=> Filled(d.nand, q, k, 0)
            /\ BadIn(n2, q) <=> BadIn(d.nand, q)
    <2> SUFFICES ASSUME NEW q \in Blocks, q # b
                 PROVE  /\ \A x \in PagesOf(q) : n2[x] = d.nand[x]
                        /\ \A k : Filled(n2, q, k, 0) <=> Filled(d.nand, q, k, 0)
                        /\ BadIn(n2, q) <=> BadIn(d.nand, q)
      OBVIOUS
    <2>1. \A x \in PagesOf(q) : n2[x] = d.nand[x]
      BY <1>2, <1>3 DEF PagesOf
    <2> QED
      BY <2>1, FirstPages DEF Filled, BadIn, Blank
  <1>11. \A q \in Blocks : Stated(e, q, 0)
    BY <1>3, <1>5, <1>6, <1>10 DEF SoundBut, Stated, Same
  <1>12. EmptyBlocks(e) = EmptyBlocks(d)
    BY <1>5, <1>6 DEF EmptyBlocks
  <1>13. Sound(e, 0)
    BY <1>1, <1>2, <1>3, <1>6, <1>7, <1>9, <1>11, <1>12 DEF Sound, SoundBut
  <1>14. Lasts(d, e, {}, {})
    <2>1. ASSUME NEW x \in d.bits
          PROVE  x \in e.bits /\ e.nand[x] = d.nand[x]
      <3>1. x \in Chunks /\ BlockOf(x) # b
        BY <1>1 DEF UsedIn, PagesOf, Typed
      <3> QED
        BY <1>2, <1>3, <1>6, <3>1
    <2> QED
      BY <1>2, <1>3, <1>5, <1>6, <2>1 DEF Lasts
  <1>15. Unread(d, e, {})
    BY <1>5, <1>6, <1>8, <1>10 DEF Unread
  <1> QED
    BY <1>6, <1>13, <1>14, <1>15

LEMMA EraseStep ==
    ASSUME NEW d, NEW b \in Blocks, Sound(d, 0), d.info[b].state = "FULL", UsedIn(d, b) = {},
           NEW nand, nand = ErasedBlock(d.nand, b),
           NEW e, Typed(e), Same(d, e), e.nand = nand, e.images = d.images \cup {nand},
           e.info = d.info, e.bits = d.bits, e.erased = d.erased
    PROVE  SoundBut(e, b) /\ Same(d, e) /\ Lasts(d, e, {}, {}) /\ Unread(d, e, {})
           /\ Filled(nand, b, 0, 0)
  <1>1. Flash(d.nand) /\ Typed(d)
    BY DEF Sound
  <1>2. Flash(nand)
    BY <1>1, EraseFlash
  <1>3. \A x \in Chunks : nand[x] = IF BlockOf(x) = b THEN ErasedPage ELSE d.nand[x]
    BY DEF ErasedBlock
  <1>4. /\ e.nand = nand /\ e.images = d.images \cup {nand} /\ e.info = d.info
        /\ e.bits = d.bits /\ e.erased = d.erased /\ Same(d, e) /\ Typed(e)
    OBVIOUS
  <1>6. \A q \in Blocks : Counted(e, q)
    BY <1>4 DEF Sound, Counted, Same, UsedIn
  <1>7. \A q \in Blocks : q # b =>
            /\ \A x \in PagesOf(q) : nand[x] = d.nand[x]
            /\ \A k : Filled(nand, q, k, 0) <=> Filled(d.nand, q, k, 0)
            /\ BadIn(nand, q) <=> BadIn(d.nand, q)
    <2> SUFFICES ASSUME NEW q \in Blocks, q # b
                 PROVE  /\ \A x \in PagesOf(q) : nand[x] = d.nand[x]
                        /\ \A k : Filled(nand, q, k, 0) <=> Filled(d.nand, q, k, 0)
                        /\ BadIn(nand, q) <=> BadIn(d.nand, q)
      OBVIOUS
    <2>1. \A x \in PagesOf(q) : nand[x] = d.nand[x]
      BY <1>3 DEF PagesOf
    <2> QED
      BY <2>1, FirstPages DEF Filled, BadIn, Blank
  <1>8. \A q \in Blocks : q # b => Stated(e, q, 0)
    BY <1>4, <1>7 DEF Sound, Stated, Same
  <1>9. EmptyBlocks(e) = EmptyBlocks(d)
    BY <1>4 DEF EmptyBlocks
  <1>10. SoundBut(e, b)
    BY <1>2, <1>4, <1>6, <1>8, <1>9 DEF Sound, SoundBut
  <1>11. Lasts(d, e, {}, {})
    <2>1. ASSUME NEW x \in d.bits
          PROVE  x \in e.bits /\ e.nand[x] = d.nand[x]
      <3>1. x \in Chunks /\ BlockOf(x) # b
        BY <1>1 DEF UsedIn, PagesOf, Typed
      <3> QED
        BY <1>3, <1>4, <3>1
    <2> QED
      BY <1>3, <1>4, <2>1, Erased DEF Lasts
  <1>12. Unread(d, e, {})
    BY <1>4, <1>7 DEF Unread, UsedIn
  <1>13. Filled(nand, b, 0, 0)
    <2>1. \A x \in PagesOf(b) : x \in Chunks /\ Off(x) \in Nat /\ nand[x] = ErasedPage
      BY <1>3, ChunksAre DEF PagesOf
    <2> QED
      BY <2>1, Erased DEF Filled
  <1> QED
    BY <1>4, <1>10, <1>11, <1>12, <1>13

LEMMA CleanKeeps ==
    ASSUME NEW d, NEW b \in Blocks, SoundBut(d, b), d.info[b].state = "FULL",
           UsedIn(d, b) = {}, Filled(d.nand, b, 0, 0),
           NEW e, e = [d EXCEPT !.info[b] = Clean, !.erased = @ + 1, !.bits = @ \ PagesOf(b)]
    PROVE  /\ Sound(e, 0) /\ Same(d, e) /\ Lasts(d, e, {}, {}) /\ Unread(d, e, {})
           /\ e.bits = d.bits
  <1> DEFINE info == [d.info EXCEPT ![b] = Clean]
  <1>1. Flash(d.nand) /\ Typed(d)
    BY DEF SoundBut
  <1>2. /\ info \in [Blocks -> Info] /\ info[b].state = "EMPTY" /\ info[b].inUse = 0
        /\ \A q \in Blocks : q # b => info[q] = d.info[q]
    BY <1>1 DEF Typed, Info, Clean
  <1>3. d.bits \ PagesOf(b) = d.bits
    BY DEF UsedIn
  <1>4. e = [d EXCEPT !.info = info, !.erased = d.erased + 1]
    BY <1>1, <1>3 DEF Typed
  <1> HIDE DEF info
  <1>5. /\ e.nand = d.nand /\ e.images = d.images /\ e.info = info
        /\ e.bits = d.bits /\ e.erased = d.erased + 1 /\ Same(d, e)
    BY <1>1, <1>4 DEF Typed, Same
  <1>6. Typed(e)
    <2>1. d.erased + 1 \in Int
      BY <1>1 DEF Typed
    <2> QED
      BY <1>1, <1>2, <1>4, <2>1 DEF Typed
  <1>7. \A q \in Blocks : UsedIn(e, q) = UsedIn(d, q)
    BY <1>5 DEF UsedIn
  <1>8. \A q \in Blocks : Counted(e, q)
    <2>1. Counted(e, b)
      <3>1. Cardinality(UsedIn(e, b)) = 0
        BY <1>7, FS_EmptySet
      <3>2. d.ablock # b
        BY DEF SoundBut, Counted
      <3> QED
        BY <1>2, <1>5, <1>7, <3>1, <3>2 DEF Counted, Same
    <2>2. \A q \in Blocks : q # b => Counted(e, q)
      BY <1>2, <1>5, <1>7 DEF SoundBut, Counted, Same
    <2> QED
      BY <2>1, <2>2
  <1>9. \A q \in Blocks : Stated(e, q, 0)
    BY <1>2, <1>5 DEF SoundBut, Stated, Same
  <1>10. e.erased = Cardinality(EmptyBlocks(e))
    <2>1. EmptyBlocks(e) = EmptyBlocks(d) \cup {b} /\ b \notin EmptyBlocks(d)
      BY <1>2, <1>5 DEF EmptyBlocks
    <2>2. IsFiniteSet(EmptyBlocks(d))
      <3>1. EmptyBlocks(d) = EmptyBlocks(d) \cap Blocks
        BY DEF EmptyBlocks
      <3> QED
        BY <3>1, Finite
    <2>3. d.erased = Cardinality(EmptyBlocks(d))
      BY DEF SoundBut
    <2> QED
      BY <1>5, <2>1, <2>2, <2>3, FS_AddElement
  <1>11. Sound(e, 0)
    BY <1>1, <1>5, <1>6, <1>8, <1>9, <1>10 DEF Sound, SoundBut
  <1> QED
    BY <1>2, <1>5, <1>7, <1>11 DEF Lasts, Unread

LEMMA BlockKeeps ==
    ASSUME NEW d, NEW b \in Blocks, Sound(d, 0), d.info[b].state = "FULL", UsedIn(d, b) = {},
           NEW e, e = BlockBecameDirty(d, b)
    PROVE  /\ Sound(e, 0) /\ Same(d, e) /\ Lasts(d, e, {}, {}) /\ Unread(d, e, {})
           /\ e.bits = d.bits
  <1>1. Typed(d) /\ d.info[b] \in Info
    BY DEF Sound, Typed
  <1>2. ASSUME NEW f, f = [d EXCEPT !.result = FALSE], e = RetireBlock(f, b)
        PROVE  /\ Sound(e, 0) /\ Same(d, e) /\ Lasts(d, e, {}, {}) /\ Unread(d, e, {})
           /\ e.bits = d.bits
    <2>1. /\ f.nand = d.nand /\ f.images = d.images /\ f.info = d.info
          /\ f.bits = d.bits /\ f.erased = d.erased /\ Same(d, f) /\ Typed(f)
      BY <1>1, <1>2 DEF Typed, Same
    <2>2. SoundBut(f, b) /\ UsedIn(f, b) = {}
      BY <2>1 DEF Sound, SoundBut, Stated, Counted, Same, UsedIn, EmptyBlocks
    <2>3. /\ Sound(e, 0) /\ Same(f, e) /\ Lasts(f, e, {}, {}) /\ Unread(f, e, {})
          /\ e.bits = f.bits
      BY <1>2, <2>1, <2>2, RetireKeeps
    <2> QED
      BY <2>1, <2>3 DEF Same, Lasts, Unread, UsedIn
  <1>3. CASE d.info[b].retire
    <2>1. e = RetireBlock([d EXCEPT !.result = FALSE], b)
      BY <1>1, <1>3 DEF BlockBecameDirty, ErasedOrRetired, Typed
    <2> QED
      BY <1>2, <2>1
  <1>4. CASE ~d.info[b].retire /\ (b < Start \/ b >= End)
    <2>1. e = RetireBlock([d EXCEPT !.result = FALSE], b)
      BY <1>1, <1>4 DEF BlockBecameDirty, ErasedOrRetired, EraseBlockInNAND, Typed
    <2> QED
      BY <1>2, <2>1
  <1>5. CASE ~d.info[b].retire /\ ~(b < Start \/ b >= End)
    <2> DEFINE nand == ErasedBlock(d.nand, b)
               ok == d.luck.erase = 0
               f == [d EXCEPT !.nand = nand, !.images = d.images \cup {nand}, !.result = ok]
    <2>1. e = ErasedOrRetired(f, b)
      BY <1>1, <1>5 DEF BlockBecameDirty, EraseBlockInNAND, Flashed, ErasedBlock, Typed
    <2>2. f.result = ok
      BY <1>1 DEF Typed
    <2>3. SoundBut(f, b) /\ Same(d, f) /\ Lasts(d, f, {}, {}) /\ Unread(d, f, {})
          /\ f.info = d.info /\ f.bits = d.bits /\ Filled(f.nand, b, 0, 0)
      <3>1. nand = ErasedBlock(d.nand, b) /\ Flash(nand)
        BY EraseFlash DEF Sound
      <3> HIDE DEF nand
      <3>2. /\ Same(d, f) /\ f.nand = nand /\ f.images = d.images \cup {nand}
            /\ f.info = d.info /\ f.bits = d.bits /\ f.erased = d.erased
        BY <1>1 DEF Typed, Same
      <3>3. Typed(f)
        <4>1. nand \in Nand
          BY <3>1 DEF Flash
        <4>2. d.images \cup {nand} \in SUBSET Nand
          BY <1>1, <4>1 DEF Typed
        <4> HIDE DEF Nand
        <4> QED
          BY <1>1, <4>1, <4>2 DEF Typed
      <3> HIDE DEF f
      <3>4. /\ SoundBut(f, b) /\ Same(d, f) /\ Lasts(d, f, {}, {}) /\ Unread(d, f, {})
            /\ Filled(nand, b, 0, 0)
        BY <3>1, <3>2, <3>3, EraseStep
      <3> QED
        BY <3>2, <3>4
    <2> HIDE DEF f
    <2>4. UsedIn(f, b) = {} /\ f.info[b].state = "FULL"
      BY <2>3 DEF UsedIn
    <2>5. /\ Sound(e, 0) /\ Same(f, e) /\ Lasts(f, e, {}, {}) /\ Unread(f, e, {})
          /\ e.bits = f.bits
      <3>1. CASE f.result
        <4>1. e = [f EXCEPT !.info[b] = Clean, !.erased = @ + 1, !.bits = @ \ PagesOf(b)]
          BY <2>1, <3>1 DEF ErasedOrRetired
        <4> QED
          BY ZenonT(40), <2>3, <2>4, <4>1, CleanKeeps
      <3>2. CASE ~f.result
        <4>1. e = RetireBlock(f, b)
          BY <2>1, <3>2 DEF ErasedOrRetired
        <4> QED
          BY <2>3, <2>4, <4>1, RetireKeeps
      <3> QED
        BY <3>1, <3>2
    <2>6. Lasts(d, e, {} \cup {}, {}) /\ Unread(d, e, {} \cup {})
      BY <2>3, <2>5, LastsTwice, UnreadTwice
    <2>7. {} \cup {} = {}
      OBVIOUS
    <2> QED
      BY <2>3, <2>5, <2>6, <2>7 DEF Same
  <1> QED
    BY <1>3, <1>4, <1>5

-----------------------------------------------------------------------------
(* Deleting a page that is in use.                                         *)
LEMMA UsedFinite ==
    ASSUME NEW d, NEW b
    PROVE  /\ IsFiniteSet(UsedIn(d, b)) /\ Cardinality(UsedIn(d, b)) \in Nat
           /\ Cardinality(UsedIn(d, b)) = 0 <=> UsedIn(d, b) = {}
  <1>1. UsedIn(d, b) = UsedIn(d, b) \cap Chunks
    BY DEF UsedIn, PagesOf
  <1>2. IsFiniteSet(UsedIn(d, b))
    BY <1>1, Finite
  <1> QED
    BY <1>2, FS_CardinalityType, FS_EmptySet

LEMMA CountOutKeeps ==
    ASSUME NEW d, Sound(d, 0), NEW c \in d.bits, NEW e, e = CountChunkOut(d, c)
    PROVE  /\ Sound(e, 0) /\ Same(d, e) /\ Lasts(d, e, {c}, {c}) /\ Unread(d, e, {})
           /\ d.info[BlockOf(c)].state # "UNKNOWN" => c \notin e.bits
  <1> DEFINE b == BlockOf(c)
             info == [d.info EXCEPT ![b].inUse = @ - 1]
             f == [d EXCEPT !.bits = @ \ {c}, !.info[b].inUse = @ - 1]
  <1>1. Typed(d) /\ c \in Chunks /\ b \in Blocks /\ c \in PagesOf(b) /\ d.info[b] \in Info
    BY ChunksAre DEF Sound, Typed
  <1>2. c \in UsedIn(d, b) /\ d.info[b].state \notin {"EMPTY", "DEAD"}
    BY <1>1 DEF UsedIn, Sound, Counted
  <1>3. CASE d.info[b].state = "UNKNOWN"
    <2>1. e = d
      BY <1>3 DEF CountChunkOut
    <2> QED
      BY <1>3, <2>1 DEF Same, Lasts, Unread
  <1>4. CASE d.info[b].state # "UNKNOWN"
    <2>1. d.info[b].state \in {"ALLOCATING", "FULL"}
      BY <1>1, <1>2, <1>4 DEF Info
    <2>2. e = IF d.info[b].inUse = 1 /\ d.info[b].state = "FULL"
              THEN BlockBecameDirty(f, b) ELSE f
      BY <2>1 DEF CountChunkOut
    <2>3. f = [d EXCEPT !.bits = d.bits \ {c}, !.info = info]
      BY <1>1 DEF Typed
    <2>4. /\ info \in [Blocks -> Info] /\ info[b].inUse = d.info[b].inUse - 1
          /\ \A q \in Blocks : info[q].state = d.info[q].state
          /\ \A q \in Blocks : q # b => info[q] = d.info[q]
      BY <1>1 DEF Typed, Info
    <2> HIDE DEF info, f
    <2>5. /\ f.nand = d.nand /\ f.images = d.images /\ f.info = info
          /\ f.bits = d.bits \ {c} /\ f.erased = d.erased /\ Same(d, f)
      BY <1>1, <2>3 DEF Typed, Same
    <2>6. Typed(f)
      BY <1>1, <2>3, <2>4 DEF Typed
    <2>7. \A q \in Blocks : q # b => UsedIn(f, q) = UsedIn(d, q)
      BY <2>5 DEF UsedIn, PagesOf, b
    <2>8. /\ UsedIn(f, b) = UsedIn(d, b) \ {c}
          /\ Cardinality(UsedIn(f, b)) = Cardinality(UsedIn(d, b)) - 1
      <3>1. UsedIn(f, b) = UsedIn(d, b) \ {c}
        BY <2>5 DEF UsedIn
      <3> QED
        BY <1>2, <3>1, UsedFinite, FS_RemoveElement
    <2>9. \A q \in Blocks : Counted(f, q)
      <3>1. Counted(f, b)
        BY <1>1, <2>1, <2>4, <2>5, <2>8 DEF Sound, Counted, Same
      <3>2. \A q \in Blocks : q # b => Counted(f, q)
        BY <2>4, <2>5, <2>7 DEF Sound, Counted, Same
      <3> QED
        BY <3>1, <3>2
    <2>10. \A q \in Blocks : Stated(f, q, 0)
      BY <2>4, <2>5 DEF Sound, Stated, Same
    <2>11. EmptyBlocks(f) = EmptyBlocks(d)
      BY <2>4, <2>5 DEF EmptyBlocks
    <2>12. Sound(f, 0)
      BY <2>5, <2>6, <2>9, <2>10, <2>11 DEF Sound
    <2>13. Lasts(d, f, {c}, {c})
      BY <2>4, <2>5 DEF Lasts
    <2>14. Unread(d, f, {})
      BY <1>4, <2>4, <2>5, <2>7 DEF Unread
    <2>15. CASE e = f
      BY <2>5, <2>12, <2>13, <2>14, <2>15
    <2>16. CASE d.info[b].inUse = 1 /\ d.info[b].state = "FULL"
      <3>1. UsedIn(f, b) = {} /\ f.info[b].state = "FULL"
        <4>1. Cardinality(UsedIn(d, b)) = 1
          BY <1>1, <2>16 DEF Sound, Counted
        <4>2. Cardinality(UsedIn(f, b)) = 0
          BY <2>8, <4>1
        <4>3. UsedIn(f, b) = {}
          BY <4>2, UsedFinite
        <4> QED
          BY <1>1, <2>4, <2>5, <2>16, <4>3
      <3>2. e = BlockBecameDirty(f, b)
        BY <2>2, <2>16
      <3>3. /\ Sound(e, 0) /\ Same(f, e) /\ Lasts(f, e, {}, {}) /\ Unread(f, e, {})
            /\ e.bits = f.bits
        BY <1>1, <2>12, <3>1, <3>2, BlockKeeps
      <3>4. Lasts(d, e, {c} \cup {}, {c}) /\ Unread(d, e, {} \cup {})
        BY <2>13, <2>14, <3>3, LastsTwice, UnreadTwice
      <3>5. {c} \cup {} = {c} /\ {} \cup {} = {}
        OBVIOUS
      <3> QED
        BY <2>5, <3>3, <3>4, <3>5 DEF Same
    <2> QED
      BY <2>2, <2>15, <2>16
  <1> QED
    BY <1>3, <1>4

LEMMA MarkKeeps ==
    ASSUME NEW d, Sound(d, 0), NEW c \in d.bits,
           d.info[BlockOf(c)].state = "UNKNOWN" => ~Blank(d.nand, c),
           NEW e, e = MarkDeleted(d, c)
    PROVE  /\ Sound(e, 0) /\ Same(d, e) /\ Lasts(d, e, {c}, {}) /\ Unread(d, e, {c})
           /\ ~e.nand[c].live /\ e.bits = d.bits /\ e.info = d.info
  <1> DEFINE b == BlockOf(c)
             page == [d.nand[c] EXCEPT !.live = FALSE]
             nand == Put(d.nand, c, page)
  <1>1. /\ Typed(d) /\ c \in Chunks /\ b \in Blocks /\ c \in PagesOf(b) /\ d.info[b] \in Info
        /\ Off(c) \in 0 .. PerBlock - 1 /\ c # 0 /\ Flash(d.nand) /\ c \in UsedIn(d, b)
        /\ d.nand[c] \in PageSet
    BY ChunksAre DEF Sound, Typed, UsedIn, Nand
  <1>2. /\ page \in PageSet /\ ~page.live /\ page.id = d.nand[c].id
        /\ page.part = d.nand[c].part /\ page.good = d.nand[c].good /\ page.dir = d.nand[c].dir
    BY <1>1 DEF PageSet
  <1>3. ~Blank(d.nand, c)
    <2>1. d.info[b].state \in {"UNKNOWN", "ALLOCATING", "FULL"}
      BY <1>1 DEF Sound, Counted, Info
    <2>2. d.info[b].state = "ALLOCATING" => Off(c) < d.apage /\ d.apage \in Nat
      BY <1>1 DEF Sound, Counted, Typed
    <2>3. d.info[b].state = "FULL" => ~(Off(c) >= PerBlock)
      BY <1>1, Sizes
    <2>4. d.info[b].state = "ALLOCATING" => ~(Off(c) >= d.apage)
      BY <1>1, <2>2
    <2> QED
      BY <1>1, <2>1, <2>3, <2>4 DEF Sound, Stated, Filled
  <1>4. Signed(page)
    BY <1>1, <1>2 DEF Flash, Signed
  <1> HIDE DEF page
  <1>5. Flash(nand)
    BY <1>1, <1>2, <1>3, <1>4, PageFlash
  <1>6. e = [d EXCEPT !.nand = nand, !.images = d.images \cup {nand}]
    BY <1>1 DEF MarkDeleted, Flashed, Typed, Put, Nand, page
  <1>7. nand[c] = page /\ \A x \in Chunks : x # c => nand[x] = d.nand[x]
    BY <1>1 DEF Put, Typed, Nand
  <1> HIDE DEF nand
  <1>8. /\ e.nand = nand /\ e.images = d.images \cup {nand} /\ e.info = d.info
        /\ e.bits = d.bits /\ e.erased = d.erased /\ Same(d, e)
    BY <1>1, <1>6 DEF Typed, Same
  <1>9. Typed(e)
    <2>1. nand \in Nand
      BY <1>5 DEF Flash
    <2>2. d.images \cup {nand} \in SUBSET Nand
      BY <1>1, <2>1 DEF Typed
    <2> HIDE DEF Nand
    <2> QED
      BY <1>1, <1>6, <2>1, <2>2 DEF Typed
  <1>10. \A x \in Chunks : /\ Blank(nand, x) <=> Blank(d.nand, x)
                           /\ nand[x].good = d.nand[x].good
    BY <1>2, <1>3, <1>7 DEF Blank
  <1>11. \A q \in Blocks : /\ BadIn(nand, q) <=> BadIn(d.nand, q)
                           /\ \A k : Filled(d.nand, q, k, 0) => Filled(nand, q, k, 0)
    <2>1. \A q \in Blocks : BadIn(nand, q) <=> BadIn(d.nand, q)
      BY <1>10, FirstPages DEF BadIn, PagesOf
    <2>2. d.nand[c] # ErasedPage
      BY <1>3, Erased DEF Blank
    <2>3. ASSUME NEW q \in Blocks, NEW k, Filled(d.nand, q, k, 0)
          PROVE  Filled(nand, q, k, 0)
      <3>1. \A x \in PagesOf(q) : x \in Chunks
        BY DEF PagesOf
      <3> QED
        BY <1>7, <1>10, <2>2, <2>3, <3>1 DEF Filled
    <2> QED
      BY <2>1, <2>3
  <1>12. \A q \in Blocks : Stated(e, q, 0)
    BY <1>8, <1>11 DEF Sound, Stated, Same
  <1>13. \A q \in Blocks : Counted(e, q)
    BY <1>8 DEF Sound, Counted, Same, UsedIn
  <1>14. EmptyBlocks(e) = EmptyBlocks(d)
    BY <1>8 DEF EmptyBlocks
  <1>15. Sound(e, 0)
    BY <1>5, <1>8, <1>9, <1>12, <1>13, <1>14 DEF Sound
  <1>16. Lasts(d, e, {c}, {})
    BY <1>1, <1>2, <1>7, <1>8 DEF Lasts, Typed
  <1>17. Unread(d, e, {c})
    BY <1>1, <1>2, <1>7, <1>8 DEF Unread, UsedIn, PagesOf
  <1> QED
    BY <1>2, <1>7, <1>8, <1>15, <1>16, <1>17

LEMMA DeleteKeeps ==
    ASSUME NEW d, Sound(d, 0), NEW c, c = 0 \/ c \in d.bits, NEW mark \in BOOLEAN,
           c # 0 /\ d.info[BlockOf(c)].state = "UNKNOWN" => ~Blank(d.nand, c),
           NEW e, e = DeleteChunk(d, c, mark)
    PROVE  /\ Sound(e, 0) /\ Same(d, e) /\ Lasts(d, e, {c}, IF mark THEN {} ELSE {c})
           /\ Unread(d, e, {c})
           /\ c # 0 /\ d.info[BlockOf(c)].state # "UNKNOWN" => c \notin e.bits
  <1>1. Typed(d)
    BY DEF Sound
  <1>2. CASE c = 0
    <2>1. e = d
      BY <1>2 DEF DeleteChunk
    <2> QED
      BY <1>2, <2>1 DEF Same, Lasts, Unread
  <1>3. CASE c # 0
    <2>1. c \in d.bits /\ ~(c <= 0)
      BY <1>1, <1>3, ChunksAre DEF Typed
    <2>2. CASE ~mark
      <3>1. e = CountChunkOut(d, c)
        BY <2>1, <2>2 DEF DeleteChunk
      <3>2. /\ Sound(e, 0) /\ Same(d, e) /\ Lasts(d, e, {c}, {c}) /\ Unread(d, e, {})
            /\ d.info[BlockOf(c)].state # "UNKNOWN" => c \notin e.bits
        BY <2>1, <3>1, CountOutKeeps
      <3>3. Unread(d, e, {c})
        BY <3>2 DEF Unread
      <3> QED
        BY <2>2, <3>2, <3>3
    <2>3. CASE mark
      <3> DEFINE f == MarkDeleted(d, c)
      <3>1. e = CountChunkOut(f, c)
        BY <2>1, <2>3 DEF DeleteChunk
      <3>2. /\ Sound(f, 0) /\ Same(d, f) /\ Lasts(d, f, {c}, {}) /\ Unread(d, f, {c})
            /\ ~f.nand[c].live /\ f.bits = d.bits /\ f.info = d.info
        BY <1>3, <2>1, MarkKeeps
      <3> HIDE DEF f
      <3>3. /\ Sound(e, 0) /\ Same(f, e) /\ Lasts(f, e, {c}, {c}) /\ Unread(f, e, {})
            /\ f.info[BlockOf(c)].state # "UNKNOWN" => c \notin e.bits
        BY <2>1, <3>1, <3>2, CountOutKeeps
      <3>4. Lasts(f, e, {c}, {})
        BY <3>2, <3>3 DEF Lasts
      <3>5. Lasts(d, e, {c} \cup {c}, {}) /\ Unread(d, e, {c} \cup {})
        BY <3>2, <3>3, <3>4, LastsTwice, UnreadTwice
      <3>6. {c} \cup {c} = {c} /\ {c} \cup {} = {c}
        OBVIOUS
      <3> QED
        BY <2>3, <3>2, <3>3, <3>5, <3>6 DEF Same
    <2> QED
      BY <2>2, <2>3
  <1> QED
    BY <1>2, <1>3

-----------------------------------------------------------------------------
(* Allocation of a page.                                                   *)
LEMMA LeastIs ==
    ASSUME NEW S \in SUBSET Nat, S # {}
    PROVE  Min(S) \in S
  <1>1. \E m \in S : \A n \in S : m <= n
    BY LeastNumber
  <1> QED
    BY <1>1 DEF Min

LEMMA LargerIs ==
    ASSUME NEW x \in Int, NEW y \in Int
    PROVE  Max({x, y}) = IF x < y THEN y ELSE x
  <1> DEFINE m == IF x < y THEN y ELSE x
  <1>1. m \in {x, y} /\ \A z \in {x, y} : m >= z
    OBVIOUS
  <1>2. \A k \in {x, y} : (\A z \in {x, y} : k >= z) => k = m
    OBVIOUS
  <1> QED
    BY <1>1, <1>2 DEF Max

LEMMA BlockNumber ==
    /\ Cardinality(Blocks) = End - Start + 1 /\ Cardinality(Blocks) \in Nat \ {0}
  <1>1. Start \in Int /\ End \in Int /\ Start < End
    BY Sizes
  <1>2. Cardinality(Start .. End) = End - Start + 1
    BY <1>1, FS_Interval
  <1> QED
    BY <1>1, <1>2 DEF Blocks

LEMMA CircleIs ==
    ASSUME NEW b, NEW i \in 1 .. Cardinality(Blocks)
    PROVE  CircleFrom(b)[i] \in Blocks
  <1> DEFINE n == Cardinality(Blocks)
             a == After(b)
  <1>1. n \in Nat \ {0} /\ n = End - Start + 1
    BY BlockNumber
  <1>2. a \in Blocks
    <2>1. Start \in Blocks
      BY Sizes
    <2> QED
      BY <2>1 DEF After
  <1> HIDE DEF n, a
  <1>3. a \in Nat /\ Start <= a
    <2>1. a \in Nat
      BY <1>2, Sizes
    <2> QED
      BY <1>2, <2>1, Sizes
  <1>4. a - Start + i - 1 \in Nat
    BY <1>3, Sizes
  <1>5. (a - Start + i - 1) % n \in 0 .. n - 1
    BY <1>1, <1>4
  <1>6. CircleFrom(b)[i] = Start + ((a - Start + i - 1) % n)
    BY DEF CircleFrom, a, n
  <1>7. Start + ((a - Start + i - 1) % n) \in Blocks
    <2> DEFINE r == (a - Start + i - 1) % n
    <2>1. r \in 0 .. n - 1
      BY <1>5
    <2> HIDE DEF r
    <2>2. Start + r \in Blocks
      BY <1>1, <2>1, Sizes
    <2> QED
      BY <2>2 DEF r
  <1> QED
    BY <1>6, <1>7

(* The pages that allocation may still give out.                           *)
Spare(d) ==
    {x \in Chunks : LET state == d.info[BlockOf(x)].state
                    IN  state = "EMPTY" \/ (state = "ALLOCATING" /\ Off(x) >= d.apage)}

LEMMA NoneFound ==
    ASSUME NEW d, Sound(d, 0), d.ablock = 0,
           NEW g, NEW e, e = [d EXCEPT !.ablock = 0, !.finder = g, !.apage = 0]
    PROVE  /\ Sound(e, 0) /\ e.obj = d.obj /\ e.luck = d.luck /\ e.stale = d.stale
           /\ e.nand = d.nand /\ e.bits = d.bits /\ Spare(e) \subseteq Spare(d)
           /\ Ready(d) => Ready(e)
  <1>1. Typed(d) /\ \A q \in Blocks : d.info[q].state # "ALLOCATING"
    BY Sizes DEF Sound, Counted
  <1>2. /\ e.obj = d.obj /\ e.luck = d.luck /\ e.stale = d.stale /\ e.nand = d.nand
        /\ e.bits = d.bits /\ e.info = d.info /\ e.images = d.images /\ e.erased = d.erased
        /\ e.ablock = 0 /\ e.apage = 0
        /\ e.finder = g /\ e.checker = d.checker /\ e.result = d.result
    BY <1>1 DEF Typed
  <1>3. Typed(e)
    BY <1>1, <1>2 DEF Typed
  <1>4. \A q \in Blocks : Stated(e, q, 0) /\ Counted(e, q)
    BY <1>1, <1>2 DEF Sound, Stated, Counted, UsedIn
  <1>5. EmptyBlocks(e) = EmptyBlocks(d)
    BY <1>2 DEF EmptyBlocks
  <1>6. Sound(e, 0)
    BY <1>2, <1>3, <1>4, <1>5 DEF Sound
  <1>7. Spare(e) \subseteq Spare(d)
    BY <1>1, <1>2, ChunksAre DEF Spare
  <1> QED
    BY <1>2, <1>6, <1>7 DEF Ready

LEMMA OneFound ==
    ASSUME NEW d, Sound(d, 0), d.ablock = 0, NEW b \in Blocks, d.info[b].state = "EMPTY",
           NEW info \in [Blocks -> Info], info[b].state = "ALLOCATING",
           info[b].inUse = d.info[b].inUse, \A q \in Blocks : q # b => info[q] = d.info[q],
           NEW e, Typed(e), e.obj = d.obj, e.luck = d.luck, e.stale = d.stale,
           e.nand = d.nand, e.bits = d.bits, e.info = info, e.images = d.images,
           e.erased = d.erased - 1, e.ablock = b, e.apage = 0
    PROVE  /\ Sound(e, 0) /\ e.obj = d.obj /\ e.luck = d.luck /\ e.stale = d.stale
           /\ e.nand = d.nand /\ e.bits = d.bits /\ Spare(e) \subseteq Spare(d)
           /\ Ready(d) => Ready(e)
  <1>1. Typed(d) /\ \A q \in Blocks : d.info[q].state # "ALLOCATING"
    BY Sizes DEF Sound, Counted
  <1>3. /\ info \in [Blocks -> Info] /\ info[b].state = "ALLOCATING"
        /\ info[b].inUse = d.info[b].inUse
        /\ \A q \in Blocks : q # b => info[q] = d.info[q]
    OBVIOUS
  <1>5. /\ e.obj = d.obj /\ e.luck = d.luck /\ e.stale = d.stale /\ e.nand = d.nand
        /\ e.bits = d.bits /\ e.info = info /\ e.images = d.images
        /\ e.erased = d.erased - 1 /\ e.ablock = b /\ e.apage = 0
    OBVIOUS
  <1>6. Typed(e)
    OBVIOUS
  <1>7. \A q \in Blocks : UsedIn(e, q) = UsedIn(d, q)
    BY <1>5 DEF UsedIn
  <1>8. Counted(e, b) /\ Stated(e, b, 0)
    <2>1. UsedIn(e, b) = {}
      BY <1>7 DEF Sound, Counted
    <2>2. Counted(e, b)
      BY <1>3, <1>5, <1>7, <2>1, Sizes DEF Sound, Counted
    <2> QED
      BY <1>3, <1>5, <2>2 DEF Sound, Stated
  <1>9. \A q \in Blocks : q # b => Counted(e, q) /\ Stated(e, q, 0)
    BY <1>1, <1>3, <1>5, <1>7 DEF Sound, Stated, Counted
  <1>10. e.erased = Cardinality(EmptyBlocks(e))
    <2>1. EmptyBlocks(e) = EmptyBlocks(d) \ {b} /\ b \in EmptyBlocks(d)
      BY <1>3, <1>5 DEF EmptyBlocks
    <2>2. IsFiniteSet(EmptyBlocks(d))
      <3>1. EmptyBlocks(d) = EmptyBlocks(d) \cap Blocks
        BY DEF EmptyBlocks
      <3> QED
        BY <3>1, Finite
    <2>3. d.erased = Cardinality(EmptyBlocks(d))
      BY DEF Sound
    <2> QED
      BY <1>5, <2>1, <2>2, <2>3, FS_RemoveElement
  <1>11. Sound(e, 0)
    BY <1>5, <1>6, <1>8, <1>9, <1>10 DEF Sound
  <1>12. Spare(e) \subseteq Spare(d)
    BY <1>1, <1>3, <1>5, ChunksAre DEF Spare
  <1>13. Ready(d) => Ready(e)
    BY <1>3, <1>5 DEF Ready
  <1> QED
    BY <1>5, <1>11, <1>12, <1>13

LEMMA FindKeeps ==
    ASSUME NEW d, Sound(d, 0), d.ablock = 0
    PROVE  LET e == [FindBlockForAllocation(d) EXCEPT !.apage = 0]
           IN  /\ Sound(e, 0) /\ e.obj = d.obj /\ e.luck = d.luck /\ e.stale = d.stale
               /\ e.nand = d.nand /\ e.bits = d.bits /\ Spare(e) \subseteq Spare(d)
               /\ Ready(d) => Ready(e)
  <1> DEFINE circle == CircleFrom(d.finder)
             empty == {i \in DOMAIN circle : d.info[circle[i]].state = "EMPTY"}
             b == circle[Min(empty)]
             e == [FindBlockForAllocation(d) EXCEPT !.apage = 0]
  <1>1. Typed(d)
    BY DEF Sound
  <1>3. CASE d.erased < 1
    <2>1. e = [d EXCEPT !.ablock = 0, !.finder = d.finder, !.apage = 0]
      BY <1>1, <1>3 DEF FindBlockForAllocation, Typed
    <2> HIDE DEF e
    <2> QED
      BY <2>1, NoneFound DEF e
  <1>4. CASE ~(d.erased < 1) /\ empty = {}
    <2>1. e = [d EXCEPT !.ablock = 0, !.finder = circle[Len(circle)], !.apage = 0]
      BY <1>1, <1>4 DEF FindBlockForAllocation, TakeFirstEmpty, Typed
    <2> HIDE DEF e, circle
    <2> QED
      BY <2>1, NoneFound DEF e
  <1>5. CASE ~(d.erased < 1) /\ empty # {}
    <2> DEFINE info == [d.info EXCEPT ![b].state = "ALLOCATING"]
    <2>1. e = [d EXCEPT !.ablock = b, !.finder = b, !.erased = d.erased - 1,
                        !.info = info, !.apage = 0]
      BY <1>1, <1>5 DEF FindBlockForAllocation, TakeFirstEmpty, Typed
    <2>2. b \in Blocks /\ d.info[b].state = "EMPTY"
      <3>1. DOMAIN circle = 1 .. Cardinality(Blocks)
        BY DEF CircleFrom
      <3>2. empty \in SUBSET Nat
        BY <3>1, BlockNumber
      <3>3. Min(empty) \in empty
        BY <1>5, <3>2, LeastIs
      <3> QED
        BY <3>1, <3>3, CircleIs
    <2> HIDE DEF b
    <2>3. /\ info \in [Blocks -> Info] /\ info[b].state = "ALLOCATING"
          /\ info[b].inUse = d.info[b].inUse
          /\ \A q \in Blocks : q # b => info[q] = d.info[q]
      BY <1>1, <2>2 DEF Typed, Info
    <2> HIDE DEF info
    <2>5. /\ e.obj = d.obj /\ e.luck = d.luck /\ e.stale = d.stale /\ e.nand = d.nand
          /\ e.bits = d.bits /\ e.info = info /\ e.images = d.images
          /\ e.erased = d.erased - 1 /\ e.ablock = b /\ e.apage = 0
          /\ e.finder = b /\ e.checker = d.checker /\ e.result = d.result
      <3> HIDE DEF e
      <3> QED
        BY <1>1, <2>1 DEF Typed
    <2> HIDE DEF e
    <2>6. Typed(e)
      <3>1. d.erased - 1 \in Int
        BY <1>1 DEF Typed
      <3> QED
        BY <1>1, <2>1, <2>2, <2>3, <2>5, <3>1 DEF Typed
    <2>4. /\ Sound(e, 0) /\ e.obj = d.obj /\ e.luck = d.luck /\ e.stale = d.stale
          /\ e.nand = d.nand /\ e.bits = d.bits /\ Spare(e) \subseteq Spare(d)
          /\ Ready(d) => Ready(e)
      BY <2>2, <2>3, <2>5, <2>6, OneFound
    <2> QED
      BY <2>4 DEF e
  <1> QED
    BY <1>3, <1>4, <1>5

(* The page c was allocated and is not written yet.                        *)
Hole(d, c) ==
    /\ c \in Chunks /\ c \in d.bits /\ d.nand[c] = ErasedPage
    /\ Filled(d.nand, BlockOf(c), Off(c), 0)
    /\ d.ablock \in {0, BlockOf(c)}

LEMMA TakeHole ==
    ASSUME NEW d, Sound(d, 0), Ready(d), NEW b \in Blocks, d.ablock = b,
           NEW c, c = b * PerBlock + d.apage, NEW full \in BOOLEAN,
           full <=> d.apage + 1 >= PerBlock,
           NEW info \in [Blocks -> Info], info[b].inUse = d.info[b].inUse + 1,
           info[b].state = (IF full THEN "FULL" ELSE "ALLOCATING"),
           \A q \in Blocks : q # b => info[q] = d.info[q],
           NEW e, Typed(e), e.nand = d.nand, e.images = d.images, e.info = info,
           e.bits = d.bits \cup {c}, e.erased = d.erased, e.apage = d.apage + 1,
           e.ablock = (IF full THEN 0 ELSE b)
    PROVE  /\ c \in Chunks /\ c \notin d.bits /\ c \in Spare(d) /\ Ready(e)
           /\ Sound(e, c) /\ Hole(e, c) /\ Spare(e) \subseteq Spare(d) \ {c}
  <1>1. /\ Typed(d) /\ d.info[b].state = "ALLOCATING" /\ d.apage \in Nat /\ d.apage < PerBlock
        /\ \A x \in UsedIn(d, b) : Off(x) < d.apage
        /\ \A q \in Blocks : q # b => d.info[q].state # "ALLOCATING"
        /\ Filled(d.nand, b, d.apage, 0)
    BY DEF Sound, Counted, Stated, Typed
  <1>2. c \in Chunks /\ BlockOf(c) = b /\ Off(c) = d.apage /\ c \in PagesOf(b) /\ c # 0
    <2>1. d.apage \in 0 .. PerBlock - 1
      BY <1>1, Sizes
    <2>2. c \in Chunks /\ BlockOf(c) = b /\ Off(c) = d.apage
      BY <2>1, PagesAre
    <2> QED
      BY <2>2, ChunksAre
  <1>3. c \notin d.bits
    BY <1>1, <1>2 DEF UsedIn
  <1>4. c \in Spare(d)
    BY <1>1, <1>2 DEF Spare
  <1>5. d.nand[c] = ErasedPage
    BY <1>1, <1>2 DEF Filled
  <1>6. Hole(e, c)
    BY <1>1, <1>2, <1>5 DEF Hole
  <1>7. /\ UsedIn(e, b) = UsedIn(d, b) \cup {c}
        /\ Cardinality(UsedIn(e, b)) = Cardinality(UsedIn(d, b)) + 1
    <2>1. UsedIn(e, b) = UsedIn(d, b) \cup {c} /\ c \notin UsedIn(d, b)
      BY <1>2, <1>3 DEF UsedIn
    <2>2. IsFiniteSet(UsedIn(d, b))
      BY UsedFinite
    <2>3. Cardinality(UsedIn(d, b) \cup {c}) = Cardinality(UsedIn(d, b)) + 1
      BY <2>1, <2>2, FS_AddElement
    <2> QED
      BY <2>1, <2>3
  <1>8. \A q \in Blocks : q # b => UsedIn(e, q) = UsedIn(d, q)
    BY <1>2 DEF UsedIn, PagesOf
  <1>9. \A x \in PagesOf(b) : /\ x \in Chunks /\ x # 0 /\ Off(x) \in 0 .. PerBlock - 1
                              /\ x # c => Off(x) # d.apage
    BY <1>2, ChunksAre, SameOff DEF PagesOf
  <1>10. Counted(e, b)
    <2>1. d.info[b].inUse = Cardinality(UsedIn(d, b))
      BY <1>1 DEF Sound, Counted
    <2>2. info[b].inUse = Cardinality(UsedIn(e, b))
      BY <1>7, <2>1
    <2>3. b # 0
      BY Sizes
    <2>4. ~full => e.apage < PerBlock /\ \A x \in UsedIn(e, b) : Off(x) < e.apage
      <3>1. ~full => d.apage + 1 < PerBlock
        BY <1>1, Sizes
      <3>2. \A x \in UsedIn(d, b) : Off(x) < d.apage + 1
        <4>1. \A x \in UsedIn(d, b) : Off(x) \in Int
          BY <1>9 DEF UsedIn
        <4> QED
          BY <1>1, <4>1
      <3> QED
        BY <1>1, <1>2, <1>7, <3>1, <3>2
    <2> QED
      BY <2>2, <2>3, <2>4 DEF Counted
  <1>11. \A q \in Blocks : q # b => Counted(e, q)
    <2>1. ASSUME NEW q \in Blocks, q # b
          PROVE  Counted(e, q)
      <3>1. Counted(d, q) /\ e.info[q] = d.info[q] /\ UsedIn(e, q) = UsedIn(d, q)
        BY <1>8, <2>1 DEF Sound
      <3>2. e.ablock # q /\ d.info[q].state # "ALLOCATING"
        BY <1>1, <2>1, Sizes
      <3> QED
        BY <3>1, <3>2 DEF Counted
    <2> QED
      BY <2>1
  <1>12. Stated(e, b, c)
    <2>1. CASE full
      <3>1. \A x \in PagesOf(b) : x # c => ~(Off(x) >= d.apage)
        BY <1>1, <1>9, <2>1, Sizes
      <3>2. Filled(e.nand, b, PerBlock, c)
        <4>1. \A x \in PagesOf(b) : ~(Off(x) >= PerBlock)
          BY <1>9, Sizes
        <4> QED
          BY <1>1, <1>5, <1>9, <3>1, <4>1 DEF Filled
      <3> QED
        BY <2>1, <3>2 DEF Stated
    <2>2. CASE ~full
      <3>1. \A x \in PagesOf(b) : x # c => (Off(x) >= d.apage + 1 <=> Off(x) >= d.apage)
        BY <1>1, <1>9
      <3>2. Filled(e.nand, b, d.apage + 1, c)
        BY <1>1, <1>5, <1>9, <3>1 DEF Filled
      <3> QED
        BY <2>2, <3>2 DEF Stated
    <2> QED
      BY <2>1, <2>2
  <1>13. \A q \in Blocks : q # b => Stated(e, q, c)
    <2>1. ASSUME NEW q \in Blocks, q # b
          PROVE  Stated(e, q, c)
      <3>1. Stated(d, q, 0) /\ e.info[q] = d.info[q] /\ d.info[q].state # "ALLOCATING"
        BY <1>1, <2>1 DEF Sound
      <3>2. \A x \in PagesOf(q) : x # c /\ x # 0
        BY <1>2, <2>1, ChunksAre DEF PagesOf
      <3>3. \A k : Filled(d.nand, q, k, 0) => Filled(d.nand, q, k, c)
        BY <3>2 DEF Filled
      <3> QED
        BY <3>1, <3>3 DEF Stated
    <2> QED
      BY <2>1
  <1>14. EmptyBlocks(e) = EmptyBlocks(d)
    BY <1>1 DEF EmptyBlocks
  <1>15. Sound(e, c)
    BY <1>10, <1>11, <1>12, <1>13, <1>14 DEF Sound
  <1>16. Spare(e) \subseteq Spare(d) \ {c}
    <2>1. ASSUME NEW x \in Spare(e)
          PROVE  x \in Spare(d) /\ x # c
      <3>1. x \in Chunks /\ BlockOf(x) \in Blocks /\ Off(x) \in Int
        BY ChunksAre DEF Spare
      <3>2. CASE BlockOf(x) = b
        BY <1>1, <1>2, <2>1, <3>1, <3>2 DEF Spare
      <3>3. CASE BlockOf(x) # b
        BY <1>1, <1>2, <2>1, <3>1, <3>3 DEF Spare
      <3> QED
        BY <3>2, <3>3
    <2> QED
      BY <2>1
  <1>17. Ready(e)
    BY DEF Ready
  <1> QED
    BY <1>2, <1>3, <1>4, <1>6, <1>15, <1>16, <1>17

LEMMA TakeKeeps ==
    ASSUME NEW d, Sound(d, 0), Ready(d), NEW useReserve,
           NEW e, e = TakePage(d, useReserve)
    PROVE  /\ e.obj = d.obj /\ e.luck = d.luck /\ e.stale = d.stale /\ e.nand = d.nand
           /\ e.images = d.images /\ Ready(e)
           /\ \/ e.result = 0 /\ Sound(e, 0) /\ e.bits = d.bits /\ Spare(e) = Spare(d)
              \/ LET c == e.result
                 IN  /\ c \in Chunks /\ c \notin d.bits /\ c \in Spare(d)
                     /\ e.bits = d.bits \cup {c} /\ Sound(e, c) /\ Hole(e, c)
                     /\ Spare(e) \subseteq Spare(d) \ {c}
  <1> DEFINE b == d.ablock
             c == b * PerBlock + d.apage
             full == d.apage + 1 >= PerBlock
             none == (~useReserve /\ d.erased <= Reserved) \/ b = 0
  <1>1. Typed(d)
    BY DEF Sound
  <1>2. CASE none
    <2>1. e = [d EXCEPT !.result = 0]
      BY <1>2 DEF TakePage
    <2>2. /\ e.obj = d.obj /\ e.luck = d.luck /\ e.stale = d.stale /\ e.nand = d.nand
          /\ e.images = d.images /\ e.result = 0 /\ e.bits = d.bits /\ e.info = d.info
          /\ e.erased = d.erased /\ e.ablock = d.ablock /\ e.apage = d.apage
          /\ e.finder = d.finder /\ e.checker = d.checker /\ Typed(e)
      BY <1>1, <2>1 DEF Typed
    <2>3. Sound(e, 0)
      BY <2>2 DEF Sound, Stated, Counted, UsedIn, EmptyBlocks
    <2> QED
      BY <2>2, <2>3 DEF Ready, Spare
  <1>3. CASE ~none
    <2>1. e = [d EXCEPT !.bits = @ \cup {c}, !.info[b].inUse = @ + 1,
                        !.apage = @ + 1, !.result = c,
                        !.info[b].state = IF full THEN "FULL" ELSE @,
                        !.ablock = IF full THEN 0 ELSE @]
      BY <1>3 DEF TakePage
    <2>2. b \in Blocks /\ d.info[b].state = "ALLOCATING"
      <3>1. b \in Blocks
        BY <1>1, <1>3 DEF Typed
      <3> QED
        BY <1>1, <3>1 DEF Sound, Counted
    <2>4. c \in Chunks /\ d.apage \in Nat
      <3>1. d.apage \in 0 .. PerBlock - 1
        BY <1>1, <2>2, Sizes DEF Sound, Counted, Typed
      <3> QED
        BY <2>2, <3>1, PagesAre
    <2>3. /\ e.info \in [Blocks -> Info] /\ e.info[b].inUse = d.info[b].inUse + 1
          /\ e.info[b].state = (IF full THEN "FULL" ELSE "ALLOCATING")
          /\ \A q \in Blocks : q # b => e.info[q] = d.info[q]
      <3> HIDE DEF c, full
      <3> QED
        BY SMTT(30), <1>1, <2>1, <2>2 DEF Typed, Info
    <2>5. /\ e.obj = d.obj /\ e.luck = d.luck /\ e.stale = d.stale /\ e.nand = d.nand
          /\ e.images = d.images /\ e.result = c /\ e.bits = d.bits \cup {c}
          /\ e.erased = d.erased /\ e.ablock = (IF full THEN 0 ELSE b)
          /\ e.apage = d.apage + 1 /\ e.finder = d.finder /\ e.checker = d.checker
      <3> HIDE DEF c, full
      <3> QED
        BY <1>1, <2>1 DEF Typed
    <2>6. Typed(e)
      <3>1. (IF full THEN 0 ELSE b) \in {0} \cup Blocks /\ d.apage + 1 \in Nat
        BY <2>2, <2>4
      <3>2. d.bits \cup {c} \in SUBSET Chunks
        BY <1>1, <2>4 DEF Typed
      <3>3. e = [d EXCEPT !.bits = e.bits, !.info = e.info, !.apage = e.apage,
                          !.result = e.result, !.ablock = e.ablock]
        BY <1>1, <2>1 DEF Typed
      <3> HIDE DEF c, full, b
      <3> QED
        BY <1>1, <2>3, <2>5, <3>1, <3>2, <3>3 DEF Typed
    <2> HIDE DEF c
    <2>7. /\ c \in Chunks /\ c \notin d.bits /\ c \in Spare(d) /\ Ready(e)
          /\ Sound(e, c) /\ Hole(e, c) /\ Spare(e) \subseteq Spare(d) \ {c}
      <3>1. c = b * PerBlock + d.apage
        BY DEF c
      <3> HIDE DEF full
      <3>2. full \in BOOLEAN /\ (full <=> d.apage + 1 >= PerBlock)
        BY DEF full
      <3> QED
        BY <2>2, <2>3, <2>5, <2>6, <3>1, <3>2, TakeHole
    <2> QED
      BY <2>5, <2>7
  <1> QED
    BY <1>2, <1>3

LEMMA AllocateKeeps ==
    ASSUME NEW d, Sound(d, 0), Ready(d), NEW useReserve,
           NEW e, e = AllocateChunk(d, useReserve)
    PROVE  /\ e.obj = d.obj /\ e.luck = d.luck /\ e.stale = d.stale /\ e.nand = d.nand
           /\ Ready(e)
           /\ \/ e.result = 0 /\ Sound(e, 0) /\ e.bits = d.bits
              \/ LET c == e.result
                 IN  /\ c \in Chunks /\ c \notin d.bits /\ c \in Spare(d)
                     /\ e.bits = d.bits \cup {c} /\ Sound(e, c) /\ Hole(e, c)
                     /\ Spare(e) \subseteq Spare(d) \ {c}
  <1> DEFINE f == IF d.ablock # 0 THEN d ELSE [FindBlockForAllocation(d) EXCEPT !.apage = 0]
  <1>1. e = TakePage(f, useReserve)
    BY DEF AllocateChunk
  <1>2. /\ Sound(f, 0) /\ f.obj = d.obj /\ f.luck = d.luck /\ f.stale = d.stale
        /\ f.nand = d.nand /\ f.bits = d.bits /\ Spare(f) \subseteq Spare(d) /\ Ready(f)
    BY FindKeeps
  <1> HIDE DEF f
  <1>3. /\ e.obj = f.obj /\ e.luck = f.luck /\ e.stale = f.stale /\ e.nand = f.nand
        /\ e.images = f.images /\ Ready(e)
        /\ \/ e.result = 0 /\ Sound(e, 0) /\ e.bits = f.bits /\ Spare(e) = Spare(f)
           \/ LET c == e.result
              IN  /\ c \in Chunks /\ c \notin f.bits /\ c \in Spare(f)
                  /\ e.bits = f.bits \cup {c} /\ Sound(e, c) /\ Hole(e, c)
                  /\ Spare(e) \subseteq Spare(f) \ {c}
    BY <1>1, <1>2, TakeKeeps
  <1> QED
    BY <1>2, <1>3

LEMMA Flagged ==
    ASSUME NEW r \in Info
    PROVE  /\ [r EXCEPT !.retire = TRUE] \in Info /\ [r EXCEPT !.retire = TRUE].retire
           /\ [r EXCEPT !.retire = TRUE].state = r.state
           /\ [r EXCEPT !.retire = TRUE].inUse = r.inUse
  BY DEF Info

(* A block that is marked for retirement is otherwise as it was.           *)
LEMMA FlagKeeps ==
    ASSUME NEW d, NEW hole, Sound(d, hole), NEW b \in Blocks,
           NEW e, e = [d EXCEPT !.info[b].retire = TRUE]
    PROVE  /\ Sound(e, hole) /\ Same(d, e) /\ Lasts(d, e, {}, {}) /\ Unread(d, e, {})
           /\ e.nand = d.nand /\ e.bits = d.bits /\ Spare(e) = Spare(d) /\ e.info[b].retire
           /\ e.result = d.result /\ (Ready(d) => Ready(e))
           /\ \A q \in Blocks : e.info[q].state = d.info[q].state
  <1>1. Typed(d)
    BY DEF Sound
  <1>2. /\ e.info \in [Blocks -> Info] /\ e.info[b].retire
        /\ \A q \in Blocks : /\ e.info[q].state = d.info[q].state
                             /\ e.info[q].inUse = d.info[q].inUse
    <2>1. d.info \in [Blocks -> Info] /\ d.info[b] \in Info
      BY <1>1 DEF Typed
    <2>2. e.info = [d.info EXCEPT ![b].retire = TRUE]
      BY <1>1 DEF Typed
    <2>3. e.info[b] = [d.info[b] EXCEPT !.retire = TRUE]
      BY <2>1, <2>2
    <2>4. \A q \in Blocks : q # b => e.info[q] = d.info[q]
      BY <2>1, <2>2
    <2>5. /\ e.info[b] \in Info /\ e.info[b].retire
          /\ e.info[b].state = d.info[b].state /\ e.info[b].inUse = d.info[b].inUse
      BY <2>1, <2>3, Flagged
    <2>6. e.info \in [Blocks -> Info]
      BY <2>1, <2>2, <2>3, <2>5
    <2> QED
      BY <2>4, <2>5, <2>6
  <1>3. /\ e.obj = d.obj /\ e.luck = d.luck /\ e.stale = d.stale /\ e.nand = d.nand
        /\ e.images = d.images /\ e.result = d.result /\ e.bits = d.bits
        /\ e.erased = d.erased /\ e.ablock = d.ablock
        /\ e.apage = d.apage /\ e.finder = d.finder /\ e.checker = d.checker
    BY <1>1 DEF Typed
  <1>4. Typed(e)
    <2>1. e = [d EXCEPT !.info = e.info]
      BY <1>1 DEF Typed
    <2> QED
      BY <1>1, <1>2, <1>3, <2>1 DEF Typed
  <1>5. \A q \in Blocks : Stated(e, q, hole) /\ Counted(e, q)
    BY <1>2, <1>3 DEF Sound, Stated, Counted, UsedIn
  <1>6. EmptyBlocks(e) = EmptyBlocks(d)
    BY <1>2 DEF EmptyBlocks
  <1>7. Sound(e, hole)
    BY <1>3, <1>4, <1>5, <1>6 DEF Sound
  <1>8. Spare(e) = Spare(d)
    BY <1>2, <1>3, ChunksAre DEF Spare
  <1> QED
    BY <1>2, <1>3, <1>7, <1>8 DEF Same, Lasts, Unread, UsedIn, Ready

LEMMA ReadKeeps ==
    ASSUME NEW d, Sound(d, 0), NEW c, NEW e, e = ReadData(d, c)
    PROVE  /\ Sound(e, 0) /\ Same(d, e) /\ Lasts(d, e, {}, {}) /\ Unread(d, e, {})
           /\ e.nand = d.nand /\ e.bits = d.bits /\ (Ready(d) => Ready(e))
           /\ e.result = d.result
           /\ \A q \in Blocks : e.info[q].state = d.info[q].state
  <1>1. Typed(d)
    BY DEF Sound
  <1>2. CASE c > 0 /\ d.luck.worn = c
    <2>1. c \in {0} \cup Chunks /\ c > 0
      BY <1>1, <1>2 DEF Typed, Luck
    <2>2. BlockOf(c) \in Blocks
      BY <2>1, ChunksAre
    <2>3. e = [d EXCEPT !.info[BlockOf(c)].retire = TRUE]
      BY <1>2 DEF ReadData, HandleReadDataError
    <2> QED
      BY <2>2, <2>3, FlagKeeps
  <1>3. CASE ~(c > 0 /\ d.luck.worn = c)
    <2>1. e = d
      BY <1>3 DEF ReadData
    <2> QED
      BY <2>1 DEF Same, Lasts, Unread
  <1> QED
    BY <1>2, <1>3

(* The hole is filled.                                                     *)
LEMMA FillKeeps ==
    ASSUME NEW d, NEW c, Sound(d, c), Ready(d), Hole(d, c),
           NEW page \in PageSet, Signed(page), page.good, page.id # Unused \/ ~page.live,
           NEW nand, nand = Put(d.nand, c, page),
           NEW e, Typed(d) => Typed(e), Same(d, e), e.nand = nand, e.images = d.images \cup {nand},
           e.bits = d.bits, e.info = d.info, e.erased = d.erased
    PROVE  /\ Sound(e, 0) /\ Ready(e) /\ Spare(e) = Spare(d) /\ nand[c] = page
           /\ \A x \in Chunks : x # c => nand[x] = d.nand[x]
  <1> DEFINE b == BlockOf(c)
  <1>1. /\ Typed(d) /\ c \in Chunks /\ b \in Blocks /\ c \in PagesOf(b) /\ c # 0
        /\ Flash(d.nand) /\ Off(c) \in 0 .. PerBlock - 1 /\ d.nand[c] = ErasedPage
    BY ChunksAre DEF Sound, Hole
  <1>2. nand[c] = page /\ \A x \in Chunks : x # c => nand[x] = d.nand[x]
    BY <1>1 DEF Put, Typed, Nand
  <1>3. \A q \in Blocks : q # b => ~Partial(d.nand, q)
    <2>1. ASSUME NEW q \in Blocks, q # b
          PROVE  ~Partial(d.nand, q)
      <3>1. \A x \in PagesOf(q) : x \in Chunks /\ x # c /\ Off(x) \in 0 .. PerBlock - 1
        BY <2>1, ChunksAre DEF PagesOf
      <3>2. d.info[q].state \in {"EMPTY", "ALLOCATING", "FULL", "DEAD"}
        BY <1>1 DEF Ready, Typed, Info
      <3>3. d.info[q].state # "ALLOCATING"
        BY <2>1, Sizes DEF Sound, Counted, Hole
      <3>4. CASE d.info[q].state = "EMPTY"
        <4>1. Filled(d.nand, q, 0, c)
          BY <3>4 DEF Sound, Stated
        <4>2. \A x \in PagesOf(q) : d.nand[x] = ErasedPage
          BY <3>1, <4>1 DEF Filled
        <4> QED
          BY <4>2, Erased DEF Partial, Blank
      <3>5. CASE d.info[q].state = "FULL"
        <4>1. Filled(d.nand, q, PerBlock, c)
          BY <3>5 DEF Sound, Stated
        <4>2. \A x \in PagesOf(q) : ~(Off(x) >= PerBlock)
          BY <3>1, Sizes
        <4> QED
          BY <3>1, <4>1, <4>2 DEF Filled, Partial
      <3>6. CASE d.info[q].state = "DEAD"
        BY <3>6 DEF Sound, Stated, Partial
      <3> QED
        BY <3>2, <3>3, <3>4, <3>5, <3>6
    <2> QED
      BY <2>1
  <1>4. Flash(nand)
    <2>1. Filled(d.nand, b, Off(c), 0)
      BY DEF Hole
    <2>2. page.good = d.nand[c].good
      BY <1>1, Erased DEF PageSet
    <2> QED
      BY <1>1, <1>3, <2>1, <2>2, PageFlash
  <1>5. ~Blank(nand, c)
    BY <1>2 DEF Blank
  <1>6. \A x \in Chunks : x # c => (Blank(nand, x) <=> Blank(d.nand, x))
    BY <1>2 DEF Blank
  <1>7. \A q \in Blocks : BadIn(nand, q) <=> BadIn(d.nand, q)
    <2>1. \A x \in Chunks : nand[x].good <=> d.nand[x].good
      BY <1>1, <1>2, Erased
    <2> QED
      BY <2>1, FirstPages DEF BadIn, PagesOf
  <1>8. ASSUME NEW q \in Blocks
        PROVE  Stated(e, q, 0)
    <2>1. \A x \in PagesOf(q) : x \in Chunks /\ x # 0
      BY ChunksAre DEF PagesOf
    <2>2. CASE q # b
      <3>1. \A x \in PagesOf(q) : x # c
        BY <2>2 DEF PagesOf
      <3>2. \A k : Filled(d.nand, q, k, c) => Filled(nand, q, k, 0)
        BY <1>2, <1>6, <2>1, <3>1 DEF Filled
      <3> QED
        BY <1>7, <3>2 DEF Sound, Stated, Same
    <2>3. CASE q = b
      <3>1. d.info[b].state \notin {"EMPTY", "DEAD"}
        BY <1>1 DEF Hole, Sound, Counted, UsedIn
      <3>2. ASSUME NEW k, Filled(d.nand, b, k, c), ~(Off(c) >= k)
            PROVE  Filled(nand, b, k, 0)
        <4>1. ASSUME NEW x \in PagesOf(b), x # c
              PROVE  /\ nand[x].good
                     /\ IF Off(x) >= k THEN nand[x] = ErasedPage ELSE ~Blank(nand, x)
          BY <1>2, <1>6, <2>1, <2>3, <3>2, <4>1 DEF Filled
        <4>2. nand[c].good
          BY <1>2
        <4>3. IF c = 0 \/ Off(c) >= k THEN nand[c] = ErasedPage ELSE ~Blank(nand, c)
          BY <1>1, <1>5, <3>2
        <4>4. \A x \in PagesOf(b) : x # 0
          BY <2>1, <2>3
        <4>5. \A x \in PagesOf(b) :
                 /\ nand[x].good
                 /\ IF x = 0 \/ Off(x) >= k THEN nand[x] = ErasedPage ELSE ~Blank(nand, x)
          BY <1>1, <4>1, <4>2, <4>3, <4>4
        <4> QED
          BY <4>5 DEF Filled
      <3>3. d.info[b].state = "ALLOCATING" => ~(Off(c) >= d.apage)
        <4>1. c \in UsedIn(d, b) /\ Counted(d, b)
          BY <1>1 DEF Hole, Sound, UsedIn
        <4>2. d.info[b].state = "ALLOCATING" => Off(c) < d.apage
          BY <4>1 DEF Counted
        <4>3. Off(c) \in Int /\ d.apage \in Int
          BY <1>1, Sizes DEF Typed
        <4> QED
          BY <4>2, <4>3
      <3>4. ~(Off(c) >= PerBlock)
        BY <1>1, Sizes
      <3> QED
        BY <1>1, <2>3, <3>1, <3>2, <3>3, <3>4 DEF Sound, Stated, Same
    <2> QED
      BY <2>2, <2>3
  <1>9. \A q \in Blocks : Counted(e, q)
    BY DEF Sound, Counted, Same, UsedIn
  <1>10. EmptyBlocks(e) = EmptyBlocks(d)
    BY DEF EmptyBlocks
  <1>11. Sound(e, 0)
    BY <1>1, <1>4, <1>8, <1>9, <1>10 DEF Sound
  <1> QED
    BY <1>2, <1>11 DEF Ready, Spare, Same

-----------------------------------------------------------------------------
(* Writing a page.                                                         *)

(* What the blocks and the pages are.                                      *)
Alike(d, e) ==
    /\ e.nand = d.nand /\ e.images = d.images /\ e.info = d.info /\ e.bits = d.bits
    /\ e.erased = d.erased /\ e.ablock = d.ablock /\ e.apage = d.apage

LEMMA AlikeKeeps ==
    ASSUME NEW d, NEW hole, Sound(d, hole), NEW e, Typed(e), Alike(d, e)
    PROVE  /\ Sound(e, hole) /\ Lasts(d, e, {}, {}) /\ Unread(d, e, {})
           /\ Spare(e) = Spare(d) /\ (Ready(d) => Ready(e))
  <1>1. \A q \in Blocks : Stated(e, q, hole) /\ Counted(e, q)
    BY DEF Alike, Sound, Stated, Counted, UsedIn
  <1>2. EmptyBlocks(e) = EmptyBlocks(d)
    BY DEF Alike, EmptyBlocks
  <1>3. Sound(e, hole)
    BY <1>1, <1>2 DEF Alike, Sound
  <1>4. Spare(e) = Spare(d)
    BY DEF Alike, Spare
  <1> QED
    BY <1>3, <1>4 DEF Alike, Lasts, Unread, UsedIn, Ready

LEMMA ResultKeeps ==
    ASSUME NEW d, NEW hole, Sound(d, hole), NEW r, NEW e, e = [d EXCEPT !.result = r]
    PROVE  /\ Sound(e, hole) /\ Same(d, e) /\ Alike(d, e) /\ e.result = r
           /\ Lasts(d, e, {}, {}) /\ Unread(d, e, {}) /\ Spare(e) = Spare(d)
           /\ (Ready(d) => Ready(e))
  <1>1. Typed(d)
    BY DEF Sound
  <1>2. /\ e.obj = d.obj /\ e.luck = d.luck /\ e.stale = d.stale /\ e.nand = d.nand
        /\ e.images = d.images /\ e.info = d.info /\ e.bits = d.bits
        /\ e.erased = d.erased /\ e.ablock = d.ablock /\ e.result = r
        /\ e.apage = d.apage /\ e.finder = d.finder /\ e.checker = d.checker
    BY <1>1 DEF Typed
  <1>3. Typed(e)
    <2>1. e = [d EXCEPT !.result = e.result]
      BY <1>2
    <2> QED
      BY <1>1, <1>2, <2>1 DEF Typed
  <1>4. Alike(d, e)
    BY <1>2 DEF Alike
  <1> QED
    BY <1>2, <1>3, <1>4, AlikeKeeps DEF Same

(* A block that is marked for retirement gives no page again.              *)
LEMMA RetiredSpare ==
    ASSUME NEW d, Typed(d), NEW c \in Chunks, d.info[BlockOf(c)].retire,
           NEW e, e = CountChunkOut(d, c)
    PROVE  Spare(e) \subseteq Spare(d)
  <1> DEFINE b == BlockOf(c)
             f == [d EXCEPT !.bits = @ \ {c}, !.info[b].inUse = @ - 1]
             g == [f EXCEPT !.result = FALSE]
  <1>1. b \in Blocks /\ d.info \in [Blocks -> Info] /\ d.info[b] \in Info
    BY ChunksAre DEF Typed
  <1>2. /\ f.info = [d.info EXCEPT ![b].inUse = @ - 1] /\ f.apage = d.apage
        /\ g.info = f.info /\ g.apage = f.apage
    BY DEF Typed
  <1>3. /\ f.info[b] = [d.info[b] EXCEPT !.inUse = @ - 1]
        /\ \A q \in Blocks : q # b => f.info[q] = d.info[q]
        /\ \A q \in Blocks : f.info[q] = IF q = b THEN f.info[b] ELSE d.info[q]
    BY <1>1, <1>2
  <1>4. f.info[b].state = d.info[b].state /\ f.info[b].retire
    BY <1>1, <1>3 DEF Info
  <1>5. CASE e = d
    BY <1>5
  <1>6. CASE e = f
    <2>1. \A q \in Blocks : e.info[q].state = d.info[q].state
      BY <1>3, <1>4, <1>6
    <2>2. e.apage = d.apage
      BY <1>2, <1>6
    <2> QED
      BY <2>1, <2>2, ChunksAre DEF Spare
  <1>7. CASE e = BlockBecameDirty(f, b)
    <2>1. e = RetireBlock(g, b)
      BY <1>4, <1>7 DEF BlockBecameDirty, ErasedOrRetired, Typed
    <2>2. /\ e.info = [g.info EXCEPT ![b].state = "DEAD"] /\ e.apage = g.apage
      BY <2>1 DEF RetireBlock, Flashed, Typed
    <2>3. DOMAIN g.info = Blocks
      BY <1>1, <1>2
    <2>4. \A q \in Blocks : q # b => e.info[q] = g.info[q]
      BY <1>1, <2>2, <2>3
    <2>5. e.info[b].state = "DEAD"
      <3>1. e.info[b] = [g.info[b] EXCEPT !.state = "DEAD"]
        BY <1>1, <2>2, <2>3
      <3>2. g.info[b] = [d.info[b] EXCEPT !.inUse = @ - 1]
        BY <1>2, <1>3
      <3> QED
        BY <1>1, <3>1, <3>2 DEF Info
    <2>6. \A q \in Blocks : e.info[q].state \in {d.info[q].state, "DEAD"}
      BY <1>2, <1>3, <2>4, <2>5
    <2>7. e.apage = d.apage
      BY <1>2, <2>2
    <2> QED
      BY <2>6, <2>7, ChunksAre DEF Spare
  <1> QED
    BY <1>5, <1>6, <1>7 DEF CountChunkOut

(* A page that does not take the program is marked deleted and counted     *)
(* out again, in a block marked for retirement.                            *)
LEMMA WriteFails ==
    ASSUME NEW d, NEW c, Sound(d, c), Ready(d), Hole(d, c),
           NEW e, e = HandleWriteChunkError(d, c)
    PROVE  /\ Sound(e, 0) /\ Ready(e) /\ Same(d, e) /\ Spare(e) \subseteq Spare(d)
           /\ \A x \in d.bits : x # c => x \in e.bits /\ e.nand[x] = d.nand[x]
           /\ \A x \in Chunks : x \notin e.bits /\ e.nand[x].live /\ e.nand[x].id # Unused =>
                  x \notin d.bits /\ e.nand[x].id = d.nand[x].id /\ d.nand[x].live
                  /\ e.nand[x].part = d.nand[x].part
  <1>0. PICK f : f = [d EXCEPT !.info[BlockOf(c)].retire = TRUE]
    OBVIOUS
  <1> DEFINE b == BlockOf(c)
             page == [ErasedPage EXCEPT !.live = FALSE]
             nand == Put(f.nand, c, page)
             g == MarkDeleted(f, c)
  <1>1. c \in Chunks /\ b \in Blocks /\ c \in d.bits /\ c # 0
    BY ChunksAre DEF Hole
  <1>4. e = CountChunkOut(g, c)
    <2>1. ~(c <= 0)
      BY <1>1, ChunksAre
    <2> QED
      BY <1>0, <2>1 DEF HandleWriteChunkError, DeleteChunk
  <1>2. /\ Sound(f, c) /\ Same(d, f) /\ f.nand = d.nand /\ f.bits = d.bits
        /\ Spare(f) = Spare(d) /\ f.info[b].retire /\ Ready(f)
    <2>1. Sound(d, c) /\ BlockOf(c) \in Blocks
      BY <1>1
    <2>2. Sound(f, c) /\ Same(d, f) 
      BY <1>0, <2>1, FlagKeeps
    <2>3. f.nand = d.nand /\ f.bits = d.bits
      BY <1>0, <2>1, FlagKeeps
    <2>4. Spare(f) = Spare(d)
      BY <1>0, <2>1, FlagKeeps
    <2>5. f.info[b].retire
      BY <1>0, <2>1, FlagKeeps
    <2>6. Ready(f)
      BY <1>0, <2>1, FlagKeeps
    <2> QED
      BY <2>2, <2>3, <2>4, <2>5, <2>6
  <1>3. Hole(f, c)
    BY <1>2 DEF Hole, Same
  <1>5. /\ page \in PageSet /\ Signed(page) /\ page.good /\ ~page.live
    BY Erased DEF PageSet, ErasedPage, Signed
  <1>6. Typed(f) /\ f.nand \in Nand /\ f.nand[c] = ErasedPage
    BY <1>2, <1>3 DEF Sound, Hole, Typed
  <1>7. nand = [f.nand EXCEPT ![c].live = FALSE]
    BY <1>1, <1>6 DEF Put, Nand
  <1>8. nand \in Nand
    BY <1>1, <1>5, <1>6 DEF Put, Nand
  <1>9. g = [f EXCEPT !.nand = nand, !.images = @ \cup {nand}]
    BY <1>7 DEF MarkDeleted, Flashed
  <1> HIDE DEF nand
  <1>10. /\ g.nand = nand /\ g.images = f.images \cup {nand} /\ g.bits = f.bits
         /\ g.info = f.info /\ g.erased = f.erased /\ g.obj = f.obj /\ g.luck = f.luck
         /\ g.stale = f.stale /\ g.ablock = f.ablock /\ g.apage = f.apage
         /\ g.finder = f.finder /\ g.checker = f.checker /\ g.result = f.result
    BY <1>6, <1>9 DEF Typed
  <1>11. Typed(g)
    <2>1. g = [f EXCEPT !.nand = g.nand, !.images = g.images]
      BY <1>9, <1>10
    <2>2. g.images \in SUBSET Nand
      BY <1>6, <1>8, <1>10 DEF Typed
    <2> QED
      BY <1>6, <1>8, <1>10, <2>1, <2>2 DEF Typed
  <1>12. Same(f, g)
    BY <1>10 DEF Same
  <1> HIDE DEF g, page
  <1>13. /\ Sound(g, 0) /\ Ready(g) /\ Spare(g) = Spare(f) /\ nand[c] = page
         /\ \A x \in Chunks : x # c => nand[x] = f.nand[x]
    BY <1>2, <1>3, <1>5, <1>10, <1>11, <1>12, FillKeeps DEF nand
  <1>14. c \in g.bits
    BY <1>1, <1>2, <1>10
  <1>15. /\ Sound(e, 0) /\ Same(g, e) /\ Lasts(g, e, {c}, {c})
    BY <1>4, <1>13, <1>14, CountOutKeeps
  <1>16. Spare(e) \subseteq Spare(g)
    BY <1>1, <1>2, <1>4, <1>10, <1>11, RetiredSpare
  <1>17. Ready(e)
    BY <1>13, <1>15 DEF Ready, Lasts
  <1>18. Same(d, e)
    BY <1>2, <1>12, <1>15 DEF Same
  <1>19. \A x \in d.bits : x # c => x \in e.bits /\ e.nand[x] = d.nand[x]
    <2>1. d.bits \subseteq Chunks
      BY DEF Sound, Typed
    <2> QED
      BY <1>2, <1>10, <1>13, <1>15, <2>1 DEF Lasts
  <1>20. ASSUME NEW x \in Chunks, x \notin e.bits, e.nand[x].live, e.nand[x].id # Unused
         PROVE  x \notin d.bits /\ e.nand[x].id = d.nand[x].id /\ d.nand[x].live
                /\ e.nand[x].part = d.nand[x].part
    <2>1. /\ x \notin g.bits \/ x \in {c}
          /\ g.nand[x].live /\ e.nand[x].id = g.nand[x].id /\ e.nand[x].part = g.nand[x].part
      BY <1>15, <1>20 DEF Lasts
    <2>2. x # c
      BY <1>5, <1>10, <1>13, <2>1
    <2> QED
      BY <1>2, <1>10, <1>13, <2>1, <2>2
  <1> QED
    BY <1>2, <1>13, <1>15, <1>16, <1>17, <1>18, <1>19, <1>20

LEMMA AttemptKeeps ==
    ASSUME NEW d, Sound(d, 0), Ready(d), NEW page \in PageSet, Signed(page), page.good,
           page.id # Unused, NEW useReserve, NEW e, e = Attempt(d, page, useReserve)
    PROVE  /\ Sound(e, 0) /\ Ready(e) /\ Lasts(d, e, {}, {})
           /\ e.obj = d.obj /\ e.luck = d.luck /\ e.stale = d.stale
           /\ \/ e.result = 0
              \/ e.result = Retry /\ \E c \in Spare(d) : Spare(e) \subseteq Spare(d) \ {c}
              \/ /\ e.result \in Chunks /\ e.result \notin d.bits /\ e.result \in e.bits
                 /\ e.nand[e.result] = page
  <1> DEFINE f == AllocateChunk(d, useReserve)
             c == f.result
             nand == Put(f.nand, c, page)
             g == Program(f, c, page)
             h == HandleWriteChunkError(f, c)
             written == IF f.nand[c] = ErasedPage THEN g ELSE f
  <1>1. /\ f.obj = d.obj /\ f.luck = d.luck /\ f.stale = d.stale /\ f.nand = d.nand /\ Ready(f)
        /\ \/ c = 0 /\ Sound(f, 0) /\ f.bits = d.bits
           \/ /\ c \in Chunks /\ c \notin d.bits /\ c \in Spare(d)
              /\ f.bits = d.bits \cup {c} /\ Sound(f, c) /\ Hole(f, c)
              /\ Spare(f) \subseteq Spare(d) \ {c}
    BY AllocateKeeps
  <1>2. e = IF c = 0 THEN f
            ELSE IF written.nand[c] = page THEN written
            ELSE [HandleWriteChunkError(written, c) EXCEPT !.result = Retry]
    BY DEF Attempt
  <1>0. c = f.result
    OBVIOUS
  <1> HIDE DEF f, h, c
  <1>3. \A b \in Blocks : f.info[b].state # "UNKNOWN"
    BY <1>1 DEF Ready
  <1>4. CASE c = 0
    <2>1. e = f /\ Sound(f, 0) /\ f.bits = d.bits
      BY <1>1, <1>2, <1>4, ChunksAre
    <2>2. Lasts(d, f, {}, {})
      BY <1>1, <1>3, <2>1 DEF Lasts
    <2> QED
      BY <1>0, <1>1, <1>4, <2>1, <2>2
  <1>5. CASE c # 0
    <2>1. /\ c \in Chunks /\ c \notin d.bits /\ c \in Spare(d)
          /\ f.bits = d.bits \cup {c} /\ Sound(f, c) /\ Hole(f, c)
          /\ Spare(f) \subseteq Spare(d) \ {c}
      BY <1>1, <1>5
    <2>2. f.nand[c] = ErasedPage /\ Typed(f) /\ page # ErasedPage
      BY <2>1, Erased DEF Hole, Sound
    <2>3. e = IF g.nand[c] = page THEN g
              ELSE [HandleWriteChunkError(g, c) EXCEPT !.result = Retry]
      BY <1>2, <1>5, <2>2
    <2>4. CASE c \notin Weak
      <3>1. g = [f EXCEPT !.nand = nand, !.images = @ \cup {nand}]
        BY <2>4 DEF Program, Flashed, Put
      <3>2. nand \in Nand
        BY <2>1, <2>2 DEF Put, Nand, Typed
      <3> HIDE DEF nand
      <3>3. /\ g.nand = nand /\ g.images = f.images \cup {nand} /\ g.bits = f.bits
            /\ g.info = f.info /\ g.erased = f.erased /\ g.obj = f.obj /\ g.luck = f.luck
            /\ g.stale = f.stale /\ g.ablock = f.ablock /\ g.apage = f.apage
            /\ g.finder = f.finder /\ g.checker = f.checker /\ g.result = f.result
        BY <2>2, <3>1 DEF Typed
      <3>4. Typed(g)
        <4>1. g = [f EXCEPT !.nand = g.nand, !.images = g.images]
          BY <3>1, <3>3
        <4>2. g.images \in SUBSET Nand
          BY <2>2, <3>2, <3>3 DEF Typed
        <4> QED
          BY <2>2, <3>2, <3>3, <4>1, <4>2 DEF Typed
      <3>5. Same(f, g)
        BY <3>3 DEF Same
      <3> HIDE DEF g
      <3>6. /\ Sound(g, 0) /\ Ready(g) /\ nand[c] = page
            /\ \A x \in Chunks : x # c => nand[x] = f.nand[x]
        <4>1. /\ Sound(f, c) /\ Ready(f) /\ Hole(f, c) /\ nand = Put(f.nand, c, page)
              /\ page.id # Unused \/ ~page.live
          BY <1>1, <2>1 DEF nand
        <4> QED
          BY <3>3, <3>4, <3>5, <4>1, FillKeeps
      <3>7. e = g
        BY <2>3, <3>3, <3>6
      <3>8. Lasts(d, g, {}, {})
        <4>1. d.bits \subseteq Chunks
          BY DEF Sound, Typed
        <4>2. \A b \in Blocks : g.info[b].state # "UNKNOWN"
          BY <1>3, <3>3
        <4> QED
          BY <1>1, <2>1, <3>3, <3>6, <4>1, <4>2 DEF Lasts
      <3> QED
        BY <1>0, <1>1, <2>1, <3>3, <3>6, <3>7, <3>8
    <2>5. CASE c \in Weak
      <3>1. g = f
        BY <2>5 DEF Program
      <3>2. e = [h EXCEPT !.result = Retry]
        BY <2>2, <2>3, <3>1 DEF h
      <3>3. /\ Sound(h, 0) /\ Ready(h) /\ Same(f, h) /\ Spare(h) \subseteq Spare(f)
            /\ \A x \in f.bits : x # c => x \in h.bits /\ h.nand[x] = f.nand[x]
            /\ \A x \in Chunks : x \notin h.bits /\ h.nand[x].live /\ h.nand[x].id # Unused =>
                  x \notin f.bits /\ h.nand[x].id = f.nand[x].id /\ f.nand[x].live
                  /\ h.nand[x].part = f.nand[x].part
        BY <1>1, <2>1, WriteFails DEF h
      <3>4. /\ Sound(e, 0) /\ Same(h, e) /\ Alike(h, e) /\ e.result = Retry
            /\ Spare(e) = Spare(h) /\ Ready(e)
        BY <3>2, <3>3, ResultKeeps
      <3>5. Lasts(d, e, {}, {})
        <4>1. /\ \A x \in d.bits : x \in e.bits /\ e.nand[x] = d.nand[x]
          BY <1>1, <2>1, <3>3, <3>4 DEF Alike
        <4>2. \A x \in Chunks : x \notin e.bits /\ e.nand[x].live /\ e.nand[x].id # Unused =>
                  x \notin d.bits /\ e.nand[x].id = d.nand[x].id /\ d.nand[x].live
                  /\ e.nand[x].part = d.nand[x].part
          BY <1>1, <2>1, <3>3, <3>4 DEF Alike
        <4>3. \A b \in Blocks : e.info[b].state # "UNKNOWN"
          BY <3>4 DEF Ready
        <4> QED
          BY <4>1, <4>2, <4>3 DEF Lasts
      <3>6. Spare(e) \subseteq Spare(d) \ {c}
        BY <2>1, <3>3, <3>4
      <3> QED
        BY <1>1, <2>1, <3>3, <3>4, <3>5, <3>6 DEF Same
    <2> QED
      BY <2>4, <2>5
  <1> QED
    BY <1>4, <1>5

(* The loop of WriteNewChunk, and its end.                                 *)
Rounds == Cardinality(Chunks) + 1

Tried(e, page, useReserve) == IF e.result = Retry THEN Attempt(e, page, useReserve) ELSE e

LEMMA WriteSteps ==
    ASSUME NEW d, NEW page, NEW useReserve
    PROVE  \E f : /\ \A k \in 0 .. Rounds :
                        f[k] = IF k = 0 THEN [d EXCEPT !.result = Retry] ELSE Tried(f[k - 1], page, useReserve)
                  /\ WriteNewChunk(d, page, useReserve) = f[Rounds]
  <1> DEFINE Is(f, m) == f = [k \in 0 .. m |-> IF k = 0 THEN [d EXCEPT !.result = Retry] ELSE Tried(f[k - 1], page, useReserve)]
             M == {m \in 0 .. Rounds : \E f : Is(f, m)}
  <1>0. Rounds \in Nat
    BY Finite DEF Rounds
  <1>1. 0 \in M
    <2> DEFINE f == [k \in 0 .. 0 |-> [d EXCEPT !.result = Retry]]
    <2>1. Is(f, 0)
      OBVIOUS
    <2>2. 0 \in 0 .. Rounds
      BY <1>0
    <2> HIDE DEF Is, f
    <2> QED
      BY <2>1, <2>2
  <1>2. ASSUME NEW m \in 0 .. Rounds - 1, m \in M
        PROVE  m + 1 \in M
    <2>1. PICK f : Is(f, m)
      BY <1>2
    <2> DEFINE step(e, k) == Tried(e, page, useReserve)
               g == [k \in 0 .. m + 1 |-> IF k = m + 1 THEN step(f[m], m + 1) ELSE f[k]]
    <2>2. \A k \in 0 .. m : f[k] = IF k = 0 THEN [d EXCEPT !.result = Retry] ELSE step(f[k - 1], k)
      BY <2>1
    <2> HIDE DEF Is
    <2>5. m \in Nat /\ m + 1 \in 0 .. Rounds
      BY <1>0
    <2>6. g[m] = f[m] /\ g[m + 1] = step(f[m], m + 1) /\ (m + 1) - 1 = m
      BY <2>5
    <2>7. \A k \in 0 .. m : g[k] = f[k] /\ (k # 0 => k - 1 \in 0 .. m)
      BY <2>5
    <2>8. \A k \in 0 .. m + 1 : k = m + 1 \/ k \in 0 .. m
      BY <2>5
    <2>9. m + 1 # 0
      BY <2>5
    <2> HIDE DEF g, step
    <2>3. \A k \in 0 .. m + 1 : g[k] = IF k = 0 THEN [d EXCEPT !.result = Retry] ELSE step(g[k - 1], k)
      BY <2>2, <2>6, <2>7, <2>8, <2>9
    <2>4. Is(g, m + 1)
      BY <2>3 DEF Is, g, step
    <2> QED
      BY <2>4, <2>5
  <1>3. \A m \in 0 .. Rounds : m \in M
    <2> HIDE DEF M
    <2> QED
      BY <1>0, <1>1, <1>2, Upwards
  <1>4. \E f : Is(f, Rounds)
    <2>1. Rounds \in M
      <3> HIDE DEF M
      <3> QED
        BY <1>0, <1>3
    <2> HIDE DEF Is
    <2> QED
      BY <2>1
  <1> DEFINE f == CHOOSE f : Is(f, Rounds)
  <1>5. Is(f, Rounds)
    BY <1>4
  <1>6. WriteNewChunk(d, page, useReserve) = f[Rounds]
    BY DEF WriteNewChunk, Rounds, Tried
  <1>7. \A k \in 0 .. Rounds : f[k] = IF k = 0 THEN [d EXCEPT !.result = Retry] ELSE Tried(f[k - 1], page, useReserve)
    <2> HIDE DEF f
    <2> QED
      BY <1>5
  <1> QED
    BY <1>6, <1>7
(* A page that is written is one that was not in use.                      *)
Answer(d, e, page) ==
    \/ e.result = 0
    \/ /\ e.result \in Chunks /\ e.result \notin d.bits /\ e.result \in e.bits
       /\ e.nand[e.result] = page

LEMMA WriteKeeps ==
    ASSUME NEW d, Sound(d, 0), Ready(d), NEW page \in PageSet, Signed(page), page.good,
           page.id # Unused, NEW useReserve, NEW e, e = WriteNewChunk(d, page, useReserve)
    PROVE  /\ Sound(e, 0) /\ Ready(e) /\ Lasts(d, e, {}, {})
           /\ e.obj = d.obj /\ e.luck = d.luck /\ e.stale = d.stale /\ Answer(d, e, page)
  <1>1. PICK f : /\ \A k \in 0 .. Rounds :
                        f[k] = IF k = 0 THEN [d EXCEPT !.result = Retry]
                               ELSE Tried(f[k - 1], page, useReserve)
                 /\ e = f[Rounds]
    BY WriteSteps
  <1> DEFINE Good(s, k) ==
                 /\ Sound(s, 0) /\ Ready(s) /\ Lasts(d, s, {}, {})
                 /\ s.obj = d.obj /\ s.luck = d.luck /\ s.stale = d.stale
                 /\ \/ s.result = Retry /\ Cardinality(Spare(s)) + k <= Cardinality(Chunks)
                    \/ s.result # Retry /\ Answer(d, s, page)
             T == {k \in 0 .. Rounds : Good(f[k], k)}
  <1>2. Rounds \in Nat /\ Rounds = Cardinality(Chunks) + 1 /\ Cardinality(Chunks) \in Nat
    BY Finite DEF Rounds
  <1>3. \A s : /\ IsFiniteSet(Spare(s)) /\ Cardinality(Spare(s)) \in Nat
               /\ Cardinality(Spare(s)) <= Cardinality(Chunks)
    BY Finite, FS_Subset, FS_CardinalityType DEF Spare
  <1>4. 0 \in T
    <2>1. f[0] = [d EXCEPT !.result = Retry]
      BY <1>1, <1>2
    <2>2. /\ Sound(f[0], 0) /\ Same(d, f[0]) /\ f[0].result = Retry
          /\ Lasts(d, f[0], {}, {}) /\ Ready(f[0])
      BY <2>1, ResultKeeps
    <2>3. Cardinality(Spare(f[0])) + 0 <= Cardinality(Chunks)
      BY <1>2, <1>3
    <2> QED
      BY <1>2, <2>2, <2>3 DEF Same
  <1>5. ASSUME NEW k \in 0 .. Rounds - 1, k \in T
        PROVE  k + 1 \in T
    <2> DEFINE s == f[k]
               t == f[k + 1]
    <2>1. k + 1 \in 0 .. Rounds /\ k + 1 # 0 /\ (k + 1) - 1 = k /\ k \in Nat
      BY <1>2
    <2>2. t = Tried(s, page, useReserve)
      BY <1>1, <2>1
    <2>3. Good(s, k)
      BY <1>5
    <2> HIDE DEF s, t
    <2>4. CASE s.result # Retry
      <3>1. t = s
        BY <2>2, <2>4 DEF Tried
      <3> QED
        BY <2>1, <2>3, <2>4, <3>1 DEF s, t
    <2>5. CASE s.result = Retry
      <3>1. t = Attempt(s, page, useReserve)
        BY <2>2, <2>5 DEF Tried
      <3>2. /\ Sound(t, 0) /\ Ready(t) /\ Lasts(s, t, {}, {})
            /\ t.obj = s.obj /\ t.luck = s.luck /\ t.stale = s.stale
            /\ \/ t.result = 0
               \/ t.result = Retry /\ \E c \in Spare(s) : Spare(t) \subseteq Spare(s) \ {c}
               \/ /\ t.result \in Chunks /\ t.result \notin s.bits /\ t.result \in t.bits
                  /\ t.nand[t.result] = page
        BY <2>3, <3>1, AttemptKeeps
      <3>3. Lasts(d, t, {}, {})
        BY <2>3, <3>2, LastsTwice
      <3>4. d.bits \subseteq s.bits
        BY <2>3 DEF Lasts
      <3>5. CASE t.result # Retry
        <4>1. Answer(d, t, page)
          BY <3>2, <3>4, <3>5 DEF Answer
        <4> QED
          BY <2>1, <2>3, <3>2, <3>3, <3>5, <4>1 DEF t
      <3>6. CASE t.result = Retry
        <4>1. Retry # 0 /\ Retry \notin Chunks
          BY ChunksAre DEF Retry
        <4>2. PICK c \in Spare(s) : Spare(t) \subseteq Spare(s) \ {c}
          BY <3>2, <3>6, <4>1
        <4>3. Cardinality(Spare(s) \ {c}) = Cardinality(Spare(s)) - 1
          BY <1>3, FS_RemoveElement
        <4>4. /\ IsFiniteSet(Spare(s) \ {c})
              /\ Cardinality(Spare(t)) <= Cardinality(Spare(s) \ {c})
          BY <1>3, <4>2, FS_RemoveElement, FS_Subset
        <4>5. Cardinality(Spare(t)) + (k + 1) <= Cardinality(Chunks)
          <5>1. Cardinality(Spare(s)) + k <= Cardinality(Chunks)
            BY <2>3, <2>5
          <5>2. Cardinality(Spare(s)) \in Nat /\ Cardinality(Spare(t)) \in Nat
            BY <1>3
          <5> QED
            BY <1>2, <2>1, <4>3, <4>4, <5>1, <5>2
        <4> QED
          BY <2>1, <2>3, <3>2, <3>3, <3>6, <4>5 DEF t
      <3> QED
        BY <3>5, <3>6
    <2> QED
      BY <2>4, <2>5
  <1>6. Rounds \in T
    <2> HIDE DEF T
    <2>1. \A k \in 0 .. Rounds : k \in T
      BY <1>2, <1>4, <1>5, Upwards
    <2> QED
      BY <1>2, <2>1
  <1>7. Good(e, Rounds)
    BY <1>1, <1>6
  <1>8. e.result # Retry
    <2>1. Cardinality(Spare(e)) \in Nat
      BY <1>3
    <2> QED
      BY <1>2, <1>7, <2>1
  <1> QED
    BY <1>7, <1>8

-----------------------------------------------------------------------------
(* The block that is collected is a full one.                              *)
Looked(d, s, b) ==
    LET used == d.info[b].inUse - d.info[b].soft
    IN  IF s.use <= 0 THEN s
        ELSE IF d.info[b].state = "FULL" /\ used < s.use
        THEN [at |-> b, use |-> used, dirtiest |-> b]
        ELSE [s EXCEPT !.at = b]

LookSteps(aggressive) ==
    1 + (IF aggressive THEN Cardinality(Blocks) ELSE Min({Cardinality(Blocks) \div 16, 200}))

FirstLook(d, aggressive) ==
    [at |-> d.checker, dirtiest |-> 0,
     use |-> IF aggressive THEN PerBlock ELSE PassiveChunks + 1]

LEMMA LookStepsIs ==
    ASSUME NEW aggressive
    PROVE  LookSteps(aggressive) \in Nat
  <1> DEFINE n == Cardinality(Blocks)
             S == {n \div 16, 200}
  <1>1. n \in Nat
    BY BlockNumber
  <1> HIDE DEF n
  <1>2. S \in SUBSET Nat /\ S # {}
    BY <1>1
  <1>3. Min(S) \in Nat
    BY <1>2, LeastIs
  <1>4. LookSteps(aggressive) = 1 + (IF aggressive THEN n ELSE Min(S))
    BY DEF LookSteps, n
  <1> QED
    BY <1>1, <1>3, <1>4

LEMMA LookingSteps ==
    ASSUME NEW d, NEW aggressive
    PROVE  \E f : /\ \A k \in 0 .. LookSteps(aggressive) :
                        f[k] = IF k = 0 THEN FirstLook(d, aggressive) ELSE Looked(d, f[k - 1], CircleFrom(d.checker)[((k - 1) % Cardinality(Blocks)) + 1])
                  /\ FindDirtiestBlock(d, aggressive) = [d EXCEPT !.checker = f[LookSteps(aggressive)].at, !.result = f[LookSteps(aggressive)].dirtiest]
  <1> DEFINE Is(f, m) == f = [k \in 0 .. m |-> IF k = 0 THEN FirstLook(d, aggressive) ELSE Looked(d, f[k - 1], CircleFrom(d.checker)[((k - 1) % Cardinality(Blocks)) + 1])]
             M == {m \in 0 .. LookSteps(aggressive) : \E f : Is(f, m)}
  <1>0. LookSteps(aggressive) \in Nat
    BY LookStepsIs
  <1>1. 0 \in M
    <2> DEFINE f == [k \in 0 .. 0 |-> FirstLook(d, aggressive)]
    <2>1. Is(f, 0)
      OBVIOUS
    <2>2. 0 \in 0 .. LookSteps(aggressive)
      BY <1>0
    <2> HIDE DEF Is, f
    <2> QED
      BY <2>1, <2>2
  <1>2. ASSUME NEW m \in 0 .. LookSteps(aggressive) - 1, m \in M
        PROVE  m + 1 \in M
    <2>1. PICK f : Is(f, m)
      BY <1>2
    <2> DEFINE step(e, k) == Looked(d, e, CircleFrom(d.checker)[((k - 1) % Cardinality(Blocks)) + 1])
               g == [k \in 0 .. m + 1 |-> IF k = m + 1 THEN step(f[m], m + 1) ELSE f[k]]
    <2>2. \A k \in 0 .. m : f[k] = IF k = 0 THEN FirstLook(d, aggressive) ELSE step(f[k - 1], k)
      BY <2>1
    <2> HIDE DEF Is
    <2>5. m \in Nat /\ m + 1 \in 0 .. LookSteps(aggressive)
      BY <1>0
    <2>6. g[m] = f[m] /\ g[m + 1] = step(f[m], m + 1) /\ (m + 1) - 1 = m
      BY <2>5
    <2>7. \A k \in 0 .. m : g[k] = f[k] /\ (k # 0 => k - 1 \in 0 .. m)
      BY <2>5
    <2>8. \A k \in 0 .. m + 1 : k = m + 1 \/ k \in 0 .. m
      BY <2>5
    <2>9. m + 1 # 0
      BY <2>5
    <2> HIDE DEF g, step
    <2>3. \A k \in 0 .. m + 1 : g[k] = IF k = 0 THEN FirstLook(d, aggressive) ELSE step(g[k - 1], k)
      BY <2>2, <2>6, <2>7, <2>8, <2>9
    <2>4. Is(g, m + 1)
      BY <2>3 DEF Is, g, step
    <2> QED
      BY <2>4, <2>5
  <1>3. \A m \in 0 .. LookSteps(aggressive) : m \in M
    <2> HIDE DEF M
    <2> QED
      BY <1>0, <1>1, <1>2, Upwards
  <1>4. \E f : Is(f, LookSteps(aggressive))
    <2>1. LookSteps(aggressive) \in M
      <3> HIDE DEF M
      <3> QED
        BY <1>0, <1>3
    <2> HIDE DEF Is
    <2> QED
      BY <2>1
  <1> DEFINE f == CHOOSE f : Is(f, LookSteps(aggressive))
  <1>5. Is(f, LookSteps(aggressive))
    BY <1>4
  <1>6. FindDirtiestBlock(d, aggressive) = [d EXCEPT !.checker = f[LookSteps(aggressive)].at, !.result = f[LookSteps(aggressive)].dirtiest]
    BY DEF FindDirtiestBlock, Looked, LookSteps, FirstLook
  <1>7. \A k \in 0 .. LookSteps(aggressive) : f[k] = IF k = 0 THEN FirstLook(d, aggressive) ELSE Looked(d, f[k - 1], CircleFrom(d.checker)[((k - 1) % Cardinality(Blocks)) + 1])
    <2> HIDE DEF f
    <2> QED
      BY <1>5
  <1> QED
    BY <1>6, <1>7

LEMMA DirtiestKeeps ==
    ASSUME NEW d, Sound(d, 0), NEW aggressive, NEW e, e = FindDirtiestBlock(d, aggressive)
    PROVE  /\ Sound(e, 0) /\ Same(d, e) /\ Alike(d, e) /\ (Ready(d) => Ready(e))
           /\ e.result = 0 \/ (e.result \in Blocks /\ e.info[e.result].state = "FULL")
  <1> DEFINE n == LookSteps(aggressive)
             circle == CircleFrom(d.checker)
  <1>1. n \in Nat
    BY LookStepsIs
  <1>2. PICK f : /\ \A k \in 0 .. n :
                        f[k] = IF k = 0 THEN FirstLook(d, aggressive)
                               ELSE Looked(d, f[k - 1],
                                           circle[((k - 1) % Cardinality(Blocks)) + 1])
                 /\ FindDirtiestBlock(d, aggressive)
                      = [d EXCEPT !.checker = f[n].at, !.result = f[n].dirtiest]
    BY LookingSteps
  <1> HIDE DEF n
  <1> DEFINE T == {k \in 0 .. n : LET b == f[k].dirtiest
                                  IN  /\ {"at", "dirtiest", "use"} = DOMAIN f[k]
                                      /\ b = 0 \/ (b \in Blocks /\ d.info[b].state = "FULL")}
  <1>3. 0 \in T
    <2>1. f[0].dirtiest = 0 /\ {"at", "dirtiest", "use"} = DOMAIN f[0]
      BY <1>1, <1>2 DEF FirstLook
    <2> QED
      BY <1>1, <2>1
  <1>4. ASSUME NEW k \in 0 .. n - 1, k \in T
        PROVE  k + 1 \in T
    <2> DEFINE s == f[k]
               b == circle[(k % Cardinality(Blocks)) + 1]
    <2>1. k + 1 \in 0 .. n /\ k + 1 # 0 /\ (k + 1) - 1 = k /\ k \in Nat
      BY <1>1
    <2>2. f[k + 1] = Looked(d, s, b)
      BY <1>2, <2>1
    <2>3. (k % Cardinality(Blocks)) + 1 \in 1 .. Cardinality(Blocks)
      BY <2>1, BlockNumber
    <2>4. b \in Blocks
      BY <2>3, CircleIs
    <2> HIDE DEF b, circle
    <2>7. {"at", "dirtiest", "use"} = DOMAIN s
      BY <1>4
    <2> HIDE DEF s
    <2>5. \/ f[k + 1] = s
          \/ f[k + 1] = [at |-> b, use |-> d.info[b].inUse - d.info[b].soft, dirtiest |-> b]
             /\ d.info[b].state = "FULL"
          \/ f[k + 1] = [s EXCEPT !.at = b]
      BY <2>2 DEF Looked
    <2>6. /\ f[k + 1].dirtiest = s.dirtiest \/ (f[k + 1].dirtiest = b /\ d.info[b].state = "FULL")
          /\ {"at", "dirtiest", "use"} = DOMAIN f[k + 1]
      BY <2>5, <2>7
    <2> QED
      BY <1>4, <2>1, <2>4, <2>6 DEF s
  <1>5. n \in T
    <2> HIDE DEF T
    <2> QED
      BY <1>1, <1>3, <1>4, Upwards
  <1>6. Typed(d)
    BY DEF Sound
  <1> DEFINE at == f[n].at
             dirtiest == f[n].dirtiest
  <1>7. e = [d EXCEPT !.checker = at, !.result = dirtiest]
    BY <1>2, e = FindDirtiestBlock(d, aggressive)
  <1>8. dirtiest = 0 \/ (dirtiest \in Blocks /\ d.info[dirtiest].state = "FULL")
    BY <1>5
  <1> HIDE DEF at, dirtiest
  <1>9. /\ e.obj = d.obj /\ e.luck = d.luck /\ e.stale = d.stale /\ e.nand = d.nand
        /\ e.images = d.images /\ e.info = d.info /\ e.bits = d.bits
        /\ e.erased = d.erased /\ e.ablock = d.ablock /\ e.result = dirtiest
        /\ e.apage = d.apage /\ e.finder = d.finder /\ e.checker = at
    BY <1>6, <1>7 DEF Typed
  <1>10. Typed(e)
    <2>1. e = [d EXCEPT !.checker = e.checker, !.result = e.result]
      BY <1>7, <1>9
    <2> QED
      BY <1>6, <1>9, <2>1 DEF Typed
  <1>11. Alike(d, e) /\ Same(d, e)
    BY <1>9 DEF Alike, Same
  <1> QED
    BY <1>8, <1>9, <1>10, <1>11, AlikeKeeps

-----------------------------------------------------------------------------
(* Objects.  Headers and trees point at pages in use that are their own;   *)
(* as long as no deleted page was copied they are live.                    *)
Header(d, i) ==
    LET c == d.obj[i].chunk
    IN  c # 0 => /\ c \in d.bits /\ d.nand[c].id = i /\ d.nand[c].part = 0
                 /\ d.stale \/ d.nand[c].live

Leaf(d, i, p) ==
    LET c == d.obj[i].tree[p]
    IN  /\ FindChunkInFile(d, i, p) # 0 => c \in d.bits
        /\ c # 0 => d.stale \/ FindChunkInFile(d, i, p) # 0

Points(d, i) == Header(d, i) /\ \A p \in Parts : Leaf(d, i, p)

UsedParts(o) == {p \in Parts : o.tree[p] # 0}

Proper(o) ==
    /\ ~o.here => o = NoObject
    /\ o.here => o.dir # "none"
    /\ o.deleted => o.soft /\ o.dir = "unlinked"
    /\ o.soft => o.deleted /\ UsedParts(o) = {}

Exact(o) == ~o.soft => o.n = Cardinality(UsedParts(o))

(* The device in the midst of a call; exact if truncation left no chunk.    *)
Intact(d, exact) ==
    /\ Sound(d, 0) /\ Ready(d)
    /\ \A i \in Ids : /\ Points(d, i) /\ Proper(d.obj[i])
                      /\ exact => Exact(d.obj[i])

LEMMA FindIs ==
    ASSUME NEW d, Typed(d), NEW i \in Ids, NEW p \in Parts
    PROVE  LET c == d.obj[i].tree[p]
           IN  /\ c \in {0} \cup Chunks
               /\ FindChunkInFile(d, i, p) \in {0, c}
               /\ FindChunkInFile(d, i, p) # 0 <=>
                      c # 0 /\ d.nand[c].id = i /\ d.nand[c].part = p /\ d.nand[c].live
  <1>1. d.obj[i].tree[p] \in {0} \cup Chunks
    BY DEF Typed, Object
  <1> QED
    BY <1>1 DEF FindChunkInFile

LEMMA ObjectIs ==
    ASSUME NEW d, Typed(d), NEW i \in Ids
    PROVE  d.obj[i] \in Object /\ d.obj[i].chunk \in {0} \cup Chunks
  BY DEF Typed, Object

LEMMA NoObjectIs ==
    /\ NoObject \in Object /\ Proper(NoObject) /\ Exact(NoObject) /\ NoObject.chunk = 0
    /\ \A p \in Parts : NoObject.tree[p] = 0
    /\ ~NoObject.here /\ ~NoObject.deleted /\ ~NoObject.soft
  <1>1. /\ NoObject.chunk = 0 /\ \A p \in Parts : NoObject.tree[p] = 0
        /\ ~NoObject.here /\ ~NoObject.deleted /\ ~NoObject.soft /\ NoObject.n = 0
    BY DEF NoObject
  <1>2. UsedParts(NoObject) = {}
    BY <1>1 DEF UsedParts
  <1>3. Proper(NoObject) /\ Exact(NoObject)
    BY <1>1, <1>2, FS_EmptySet DEF Proper, Exact
  <1>4. NoObject \in Object
    BY DEF NoObject, Object, Dirs
  <1> QED
    BY <1>1, <1>3, <1>4

(* An object without chunks points nowhere.                                *)
LEMMA NoneLeaf ==
    ASSUME NEW d, NEW i \in Ids, NEW p \in Parts, d.obj[i].tree[p] = 0
    PROVE  Leaf(d, i, p) /\ FindChunkInFile(d, i, p) = 0
  BY DEF Leaf, FindChunkInFile

LEMMA NoneHead ==
    ASSUME NEW d, NEW i \in Ids, d.obj[i].chunk = 0
    PROVE  Header(d, i)
  BY DEF Header

LEMMA HeadLasts ==
    ASSUME NEW d, NEW e, NEW C, NEW U, Lasts(d, e, C, U), NEW i \in Ids,
           e.obj[i].chunk = d.obj[i].chunk, d.stale => e.stale, Header(d, i),
           d.obj[i].chunk # 0 => d.obj[i].chunk \notin C
    PROVE  Header(e, i)
  BY DEF Header, Lasts

LEMMA LeafLasts ==
    ASSUME NEW d, NEW e, Typed(d), Typed(e), NEW C, NEW U, Lasts(d, e, C, U),
           NEW i \in Ids, NEW p \in Parts,
           e.obj[i].tree[p] = d.obj[i].tree[p], d.stale => e.stale, Leaf(d, i, p),
           FindChunkInFile(d, i, p) # 0 =>
               d.obj[i].tree[p] \notin U /\ (e.stale \/ d.obj[i].tree[p] \notin C)
    PROVE  Leaf(e, i, p)
  <1> DEFINE c == d.obj[i].tree[p]
  <1>1. /\ c \in {0} \cup Chunks /\ Unused \notin Ids
        /\ FindChunkInFile(d, i, p) # 0 <=>
               c # 0 /\ d.nand[c].id = i /\ d.nand[c].part = p /\ d.nand[c].live
    BY FindIs, DeviceAssumption
  <1>2. FindChunkInFile(e, i, p) # 0 <=>
            c # 0 /\ e.nand[c].id = i /\ e.nand[c].part = p /\ e.nand[c].live
    <2>1. LET x == e.obj[i].tree[p]
          IN  FindChunkInFile(e, i, p) # 0 <=>
                  x # 0 /\ e.nand[x].id = i /\ e.nand[x].part = p /\ e.nand[x].live
      BY FindIs
    <2> QED
      BY <2>1
  <1>3. ASSUME FindChunkInFile(e, i, p) # 0, c \notin e.bits
        PROVE  FALSE
    <2>1. /\ c \in Chunks /\ e.nand[c].live /\ e.nand[c].id # Unused
      BY <1>1, <1>2, <1>3
    <2>2. /\ c \notin d.bits \/ c \in U
          /\ d.nand[c].live /\ e.nand[c].id = d.nand[c].id /\ e.nand[c].part = d.nand[c].part
      BY <1>3, <2>1 DEF Lasts
    <2>3. FindChunkInFile(d, i, p) # 0
      BY <1>1, <1>2, <1>3, <2>2
    <2> QED
      BY <2>2, <2>3 DEF Leaf
  <1>4. ASSUME c # 0, ~e.stale
        PROVE  FindChunkInFile(e, i, p) # 0
    <2>1. FindChunkInFile(d, i, p) # 0 /\ c \in d.bits
      BY <1>4 DEF Leaf
    <2>2. e.nand[c] = d.nand[c]
      BY <1>4, <2>1 DEF Lasts
    <2> QED
      BY <1>1, <1>2, <2>1, <2>2
  <1> QED
    BY <1>3, <1>4 DEF Leaf

(* An object is changed.                                                   *)
With(d, i, o) == [d EXCEPT !.obj = [d.obj EXCEPT ![i] = o]]

LEMMA WithKeeps ==
    ASSUME NEW d, NEW hole, Sound(d, hole), NEW i \in Ids, NEW o \in Object,
           NEW e, e = With(d, i, o)
    PROVE  /\ Sound(e, hole) /\ Alike(d, e) /\ Lasts(d, e, {}, {}) /\ Unread(d, e, {})
           /\ (Ready(d) => Ready(e)) /\ e.obj[i] = o
           /\ \A j \in Ids : j # i => e.obj[j] = d.obj[j]
           /\ e.luck = d.luck /\ e.stale = d.stale /\ e.result = d.result
           /\ e.checker = d.checker /\ e.finder = d.finder
  <1>1. Typed(d) /\ d.obj \in [Ids -> Object]
    BY DEF Sound, Typed
  <1> DEFINE obj == [d.obj EXCEPT ![i] = o]
  <1>2. /\ obj \in [Ids -> Object] /\ obj[i] = o
        /\ \A j \in Ids : j # i => obj[j] = d.obj[j]
    BY <1>1
  <1>3. e = [d EXCEPT !.obj = obj]
    BY DEF With
  <1> HIDE DEF obj
  <1>4. /\ e.obj = obj /\ e.luck = d.luck /\ e.stale = d.stale /\ e.nand = d.nand
        /\ e.images = d.images /\ e.info = d.info /\ e.bits = d.bits
        /\ e.erased = d.erased /\ e.ablock = d.ablock /\ e.result = d.result
        /\ e.apage = d.apage /\ e.finder = d.finder /\ e.checker = d.checker
    BY <1>1, <1>3 DEF Typed
  <1>5. Typed(e)
    <2>1. e = [d EXCEPT !.obj = e.obj]
      BY <1>3, <1>4
    <2> QED
      BY <1>1, <1>2, <1>4, <2>1 DEF Typed
  <1>6. Alike(d, e)
    BY <1>4 DEF Alike
  <1> QED
    BY <1>2, <1>4, <1>5, <1>6, AlikeKeeps

LEMMA AlikePoints ==
    ASSUME NEW d, NEW e, Alike(d, e), e.stale = d.stale, NEW i \in Ids, e.obj[i] = d.obj[i],
           Points(d, i)
    PROVE  Points(e, i)
  <1>1. e.nand = d.nand /\ e.bits = d.bits
    BY DEF Alike
  <1>2. Header(e, i)
    BY <1>1 DEF Points, Header
  <1>3. ASSUME NEW p \in Parts
        PROVE  Leaf(e, i, p)
    <2>1. FindChunkInFile(e, i, p) = FindChunkInFile(d, i, p)
      BY <1>1 DEF FindChunkInFile
    <2> QED
      BY <1>1, <2>1 DEF Points, Leaf
  <1> QED
    BY <1>2, <1>3 DEF Points

LEMMA Distinct ==
    ASSUME NEW d, Typed(d), NEW c \in Chunks, NEW i \in Ids, Header(d, i)
    PROVE  /\ d.nand[c].id # i \/ d.nand[c].part # 0 => d.obj[i].chunk # c
           /\ \A p \in Parts : d.nand[c].id # i \/ d.nand[c].part # p \/ ~d.nand[c].live =>
                  FindChunkInFile(d, i, p) # c
  <1>1. d.nand[c].id # i \/ d.nand[c].part # 0 => d.obj[i].chunk # c
    BY ChunksAre DEF Header
  <1>2. ASSUME NEW p \in Parts, FindChunkInFile(d, i, p) = c
        PROVE  d.nand[c].id = i /\ d.nand[c].part = p /\ d.nand[c].live
    BY <1>2, ChunksAre, FindIs
  <1> QED
    BY <1>1, <1>2

(* An object that does not point at a page is not disturbed when the page  *)
(* is deleted.                                                             *)
LEMMA DeletePoints ==
    ASSUME NEW d, NEW e, Typed(d), Typed(e), NEW c, NEW U, U \subseteq {c},
           Lasts(d, e, {c}, U), Same(d, e), NEW i \in Ids, Points(d, i),
           c # 0 => d.obj[i].chunk # c,
           c # 0 => \A p \in Parts : FindChunkInFile(d, i, p) # c
    PROVE  Points(e, i)
  <1>1. e.obj = d.obj /\ e.stale = d.stale
    BY DEF Same
  <1>2. Header(e, i)
    BY <1>1, HeadLasts DEF Points
  <1>3. ASSUME NEW p \in Parts
        PROVE  Leaf(e, i, p)
    <2>1. FindChunkInFile(d, i, p) # 0 =>
              d.obj[i].tree[p] \notin U /\ d.obj[i].tree[p] \notin {c}
      BY FindIs
    <2> QED
      BY <1>1, <2>1, LeafLasts DEF Points
  <1> QED
    BY <1>2, <1>3 DEF Points

LEMMA DeleteIntact ==
    ASSUME NEW d, NEW exact, Intact(d, exact), NEW c, c = 0 \/ c \in d.bits, NEW mark \in BOOLEAN,
           \A i \in Ids : c # 0 => d.obj[i].chunk # c,
           \A i \in Ids : c # 0 => \A p \in Parts : FindChunkInFile(d, i, p) # c,
           NEW e, e = DeleteChunk(d, c, mark)
    PROVE  /\ Intact(e, exact) /\ Same(d, e) /\ Lasts(d, e, {c}, IF mark THEN {} ELSE {c})
           /\ c # 0 => c \notin e.bits
  <1>1. Sound(d, 0) /\ Ready(d) /\ d.bits \subseteq Chunks
    BY DEF Intact, Sound, Typed
  <1>2. c # 0 => d.info[BlockOf(c)].state # "UNKNOWN"
    BY <1>1, ChunksAre DEF Ready
  <1>3. /\ Sound(e, 0) /\ Same(d, e) /\ Lasts(d, e, {c}, IF mark THEN {} ELSE {c})
        /\ c # 0 => c \notin e.bits
    BY <1>1, <1>2, DeleteKeeps
  <1>4. Ready(e)
    BY <1>1, <1>3 DEF Ready, Lasts
  <1>5. Typed(d) /\ Typed(e) /\ e.obj = d.obj
    BY <1>1, <1>3 DEF Sound, Same
  <1>6. ASSUME NEW i \in Ids
        PROVE  Points(e, i)
    <2>1. Points(d, i)
      BY DEF Intact
    <2>2. PICK U : U = IF mark THEN {} ELSE {c}
      OBVIOUS
    <2>3. U \subseteq {c} /\ Lasts(d, e, {c}, U)
      BY <1>3, <2>2
    <2>4. c # 0 => d.obj[i].chunk # c
      OBVIOUS
    <2>5. c # 0 => \A p \in Parts : FindChunkInFile(d, i, p) # c
      OBVIOUS
    <2> QED
      BY <1>3, <1>5, <2>1, <2>3, <2>4, <2>5, DeletePoints
  <1> QED
    BY <1>3, <1>4, <1>5, <1>6 DEF Intact

(* The object goes with its header.                                        *)
GoneOf(d, e, i) ==
    /\ Sound(e, 0) /\ Ready(e) /\ \A j \in Ids : Points(e, j)
    /\ e.obj[i] = NoObject /\ \A j \in Ids : j # i => e.obj[j] = d.obj[j]
    /\ e.stale = d.stale /\ e.luck = d.luck /\ Lasts(d, e, {d.obj[i].chunk}, {})

LEMMA GonePoints ==
    ASSUME NEW d, NEW i \in Ids, Sound(d, 0), Ready(d), Header(d, i),
           \A j \in Ids : j # i => Points(d, j),
           NEW e, e = DoGenericObjectDeletion(d, i)
    PROVE  GoneOf(d, e, i)
  <1> DEFINE c == d.obj[i].chunk
  <1>1. PICK f : f = DeleteChunk(d, c, TRUE)
    OBVIOUS
  <1>2. e = With(f, i, NoObject)
    BY <1>1 DEF DoGenericObjectDeletion, With
  <1>3. c = 0 \/ c \in d.bits
    BY DEF Header
  <1>4. Typed(d) /\ d.bits \subseteq Chunks
    BY DEF Sound, Typed
  <1>5. c # 0 => d.info[BlockOf(c)].state # "UNKNOWN"
    BY <1>3, <1>4, ChunksAre DEF Ready
  <1>6. Sound(f, 0) /\ Same(d, f) /\ Lasts(d, f, {c}, {})
    <2> HIDE DEF c
    <2>1. /\ Sound(f, 0) /\ Same(d, f) /\ Lasts(d, f, {c}, IF TRUE THEN {} ELSE {c})
      BY <1>1, <1>3, <1>5, DeleteKeeps
    <2> QED
      BY <2>1
  <1>7. Ready(f) /\ Typed(f)
    BY <1>6 DEF Ready, Lasts, Sound
  <1>8. NoObject \in Object
    BY NoObjectIs
  <1>9. /\ Sound(e, 0) /\ Alike(f, e) /\ Lasts(f, e, {}, {}) /\ Ready(e) /\ e.obj[i] = NoObject
        /\ \A j \in Ids : j # i => e.obj[j] = f.obj[j]
        /\ e.luck = f.luck /\ e.stale = f.stale
    BY <1>2, <1>6, <1>7, <1>8, WithKeeps
  <1>10. ASSUME NEW j \in Ids, j # i
         PROVE  Points(f, j)
    <2>1. Points(d, j)
      BY <1>10
    <2>2. c # 0 => d.obj[j].chunk # c /\ \A p \in Parts : FindChunkInFile(d, j, p) # c
      <3>1. c # 0 => c \in Chunks /\ d.nand[c].id = i
        BY <1>3, <1>4 DEF Header
      <3> QED
        BY <1>4, <1>10, <2>1, <3>1, Distinct DEF Points
    <2>3. PICK U : U = {}
      OBVIOUS
    <2> HIDE DEF c
    <2>4. U \subseteq {c} /\ Lasts(d, f, {c}, U)
      BY <1>6, <2>3
    <2>5. c # 0 => d.obj[j].chunk # c
      BY <2>2
    <2>6. c # 0 => \A p \in Parts : FindChunkInFile(d, j, p) # c
      BY <2>2
    <2> QED
      BY <1>4, <1>6, <1>7, <2>1, <2>4, <2>5, <2>6, DeletePoints
  <1>11. Typed(e) /\ e.nand = f.nand /\ e.bits = f.bits
    BY <1>9 DEF Sound, Alike
  <1>12. ASSUME NEW j \in Ids
         PROVE  Points(e, j)
    <2>1. CASE j = i
      BY <1>9, <2>1, NoObjectIs, NoneHead, NoneLeaf DEF Points
    <2>2. CASE j # i
      <3>1. Points(f, j) /\ e.obj[j] = f.obj[j] /\ f.obj[j] = d.obj[j]
        BY <1>6, <1>9, <1>10, <2>2 DEF Same
      <3> QED
        BY <1>9, <3>1, AlikePoints
    <2> QED
      BY <2>1, <2>2
  <1>13. Lasts(d, e, {c}, {})
    <2> HIDE DEF c
    <2>1. Lasts(d, e, {c} \cup {}, {})
      BY <1>6, <1>9, LastsTwice
    <2> QED
      BY <2>1
  <1> QED
    BY <1>6, <1>9, <1>12, <1>13 DEF Same, GoneOf

LEMMA GoneIntact ==
    ASSUME NEW d, NEW exact, NEW i \in Ids, Sound(d, 0), Ready(d), Header(d, i),
           \A j \in Ids : j # i => /\ Points(d, j) /\ Proper(d.obj[j])
                                   /\ exact => Exact(d.obj[j]),
           NEW e, e = DoGenericObjectDeletion(d, i)
    PROVE  /\ Intact(e, exact) /\ e.obj[i] = NoObject
           /\ \A j \in Ids : j # i => e.obj[j] = d.obj[j]
           /\ e.stale = d.stale /\ e.luck = d.luck /\ Lasts(d, e, {d.obj[i].chunk}, {})
  <1>1. /\ Sound(e, 0) /\ Ready(e) /\ \A j \in Ids : Points(e, j)
        /\ e.obj[i] = NoObject /\ \A j \in Ids : j # i => e.obj[j] = d.obj[j]
        /\ e.stale = d.stale /\ e.luck = d.luck /\ Lasts(d, e, {d.obj[i].chunk}, {})
    <2>1. \A j \in Ids : j # i => Points(d, j)
      OBVIOUS
    <2>2. GoneOf(d, e, i)
      BY <2>1, GonePoints
    <2> QED
      BY <2>2 DEF GoneOf
  <1>2. ASSUME NEW j \in Ids
        PROVE  Proper(e.obj[j]) /\ (exact => Exact(e.obj[j]))
    <2>1. CASE j = i
      BY <1>1, <2>1, NoObjectIs
    <2>2. CASE j # i
      BY <1>1, <2>2
    <2> QED
      BY <2>1, <2>2
  <1> QED
    BY <1>1, <1>2 DEF Intact

-----------------------------------------------------------------------------
(* What stays of the objects when others are collected: only deleted       *)
(* files go, and a header is replaced by another.                          *)
Kept(d, e) ==
    \A i \in Ids :
        LET o == d.obj[i]
            r == e.obj[i]
        IN  /\ r.here => /\ o.here /\ r.dir = o.dir /\ r.deleted = o.deleted /\ r.soft = o.soft
                         /\ o.chunk # 0 => r.chunk # 0
            /\ o.here /\ ~o.deleted => r.here

LEMMA KeptTwice ==
    ASSUME NEW d, NEW e, NEW f, Typed(d), Typed(e), Typed(f), Kept(d, e), Kept(e, f)
    PROVE  Kept(d, f)
  <1> SUFFICES ASSUME NEW i \in Ids
               PROVE  LET o == d.obj[i]
                          r == f.obj[i]
                      IN  /\ r.here => /\ o.here /\ r.dir = o.dir /\ r.deleted = o.deleted
                                       /\ r.soft = o.soft /\ (o.chunk # 0 => r.chunk # 0)
                          /\ o.here /\ ~o.deleted => r.here
    BY DEF Kept
  <1>1. d.obj[i] \in Object /\ e.obj[i] \in Object /\ f.obj[i] \in Object
    BY ObjectIs
  <1>2. LET o == d.obj[i]
            r == e.obj[i]
        IN  /\ r.here => /\ o.here /\ r.dir = o.dir /\ r.deleted = o.deleted /\ r.soft = o.soft
                         /\ o.chunk # 0 => r.chunk # 0
            /\ o.here /\ ~o.deleted => r.here
    BY DEF Kept
  <1>3. LET o == e.obj[i]
            r == f.obj[i]
        IN  /\ r.here => /\ o.here /\ r.dir = o.dir /\ r.deleted = o.deleted /\ r.soft = o.soft
                         /\ o.chunk # 0 => r.chunk # 0
            /\ o.here /\ ~o.deleted => r.here
    BY DEF Kept
  <1> QED
    BY <1>1, <1>2, <1>3 DEF Object

LEMMA KeptSame ==
    ASSUME NEW d, NEW e, e.obj = d.obj
    PROVE  Kept(d, e)
  BY DEF Kept

LEMMA LastsIntact ==
    ASSUME NEW d, NEW exact, Intact(d, exact), NEW e, Sound(e, 0), Ready(e), Lasts(d, e, {}, {}),
           e.obj = d.obj, e.stale = d.stale
    PROVE  Intact(e, exact)
  <1>1. Typed(d) /\ Typed(e)
    BY DEF Intact, Sound
  <1>2. PICK U : U = {}
    OBVIOUS
  <1>3. Lasts(d, e, U, U)
    BY <1>2
  <1>4. ASSUME NEW i \in Ids
        PROVE  Points(e, i)
    <2>1. Points(d, i)
      BY DEF Intact
    <2>2. Header(e, i)
      <3>1. Header(d, i) /\ d.obj[i].chunk \notin U
        BY <1>2, <2>1 DEF Points
      <3> QED
        BY <1>3, <3>1, HeadLasts
    <2>3. ASSUME NEW p \in Parts
          PROVE  Leaf(e, i, p)
      <3>1. Leaf(d, i, p) /\ d.obj[i].tree[p] \notin U
        BY <1>2, <2>1 DEF Points
      <3> QED
        BY <1>1, <1>3, <3>1, LeafLasts
    <2> QED
      BY <2>2, <2>3 DEF Points
  <1> QED
    BY <1>4 DEF Intact

LEMMA ResultIntact ==
    ASSUME NEW d, NEW exact, Intact(d, exact), NEW r, NEW e, e = [d EXCEPT !.result = r]
    PROVE  /\ Intact(e, exact) /\ e.obj = d.obj /\ e.stale = d.stale /\ Alike(d, e)
           /\ e.result = r
  <1>1. Sound(d, 0) /\ Ready(d)
    BY DEF Intact
  <1>2. /\ Sound(e, 0) /\ Same(d, e) /\ Alike(d, e) /\ e.result = r
        /\ Lasts(d, e, {}, {}) /\ Ready(e)
    BY <1>1, ResultKeeps
  <1>3. e.obj = d.obj /\ e.stale = d.stale
    BY <1>2 DEF Same
  <1> QED
    BY <1>2, <1>3, LastsIntact

(* A page in use was programmed, in a block that is not bad.                *)
LEMMA UsedGood ==
    ASSUME NEW d, Sound(d, 0), Ready(d), NEW c \in d.bits
    PROVE  /\ c \in Chunks /\ d.nand[c] \in PageSet /\ d.nand[c].good /\ Signed(d.nand[c])
  <1> DEFINE b == BlockOf(c)
  <1>1. /\ c \in Chunks /\ b \in Blocks /\ c \in PagesOf(b) /\ c \in UsedIn(d, b)
        /\ d.nand[c] \in PageSet /\ d.info[b] \in Info
    BY ChunksAre DEF Sound, Typed, Nand, UsedIn
  <1>2. Counted(d, b) /\ Stated(d, b, 0) /\ Signed(d.nand[c])
    BY <1>1 DEF Sound, Flash
  <1>3. d.info[b].state \in {"ALLOCATING", "FULL"}
    BY <1>1, <1>2 DEF Counted, Ready, Info
  <1>4. \E k : Filled(d.nand, b, k, 0)
    BY <1>2, <1>3 DEF Stated
  <1> QED
    BY <1>1, <1>2, <1>4 DEF Filled

LEMMA CollectedIntact ==
    ASSUME NEW d, NEW exact, Intact(d, exact), NEW c \in d.bits, NEW mark \in BOOLEAN,
           \A i \in Ids : d.obj[i].chunk # c,
           \A i \in Ids : \A p \in Parts : FindChunkInFile(d, i, p) # c,
           NEW e, e = Collected(d, c, mark)
    PROVE  Intact(e, exact) /\ e.obj = d.obj /\ e.stale = d.stale
  <1>1. PICK f : f = DeleteChunk(d, c, mark)
    OBVIOUS
  <1>2. Intact(f, exact) /\ Same(d, f)
    BY <1>1, DeleteIntact
  <1>3. e = [f EXCEPT !.result = TRUE]
    BY <1>1 DEF Collected
  <1> QED
    BY <1>2, <1>3, ResultIntact DEF Same

LEMMA WithTwice ==
    ASSUME NEW d, Typed(d), NEW i \in Ids, NEW o, NEW r
    PROVE  With(With(d, i, o), i, r) = With(d, i, r) /\ With(d, i, o).obj[i] = o
  <1> DEFINE first == [d.obj EXCEPT ![i] = o]
             last == [d.obj EXCEPT ![i] = r]
             f == With(d, i, o)
  <1>1. d.obj \in [Ids -> Object] /\ "obj" \in DOMAIN d
    BY DEF Typed
  <1>2. [first EXCEPT ![i] = r] = last /\ first[i] = o
    BY <1>1
  <1> HIDE DEF first, last
  <1>3. f = [d EXCEPT !.obj = first] /\ With(d, i, r) = [d EXCEPT !.obj = last]
    BY DEF With, first, last
  <1>4. f.obj = first /\ [f EXCEPT !.obj = last] = [d EXCEPT !.obj = last]
    BY <1>1, <1>3
  <1>5. With(f, i, r) = [f EXCEPT !.obj = [f.obj EXCEPT ![i] = r]]
    BY DEF With
  <1> HIDE DEF f
  <1> QED
    BY <1>2, <1>3, <1>4, <1>5 DEF f

(* The chunk of a file is put into its tree.                               *)
Branch(o, p, c, n) == [o EXCEPT !.tree = [o.tree EXCEPT ![p] = c], !.n = n]

LEMMA PutObject ==
    ASSUME NEW o \in Object, NEW p \in Parts, NEW c \in Chunks,
           NEW n, n = (IF o.tree[p] = 0 THEN o.n + 1 ELSE o.n),
           NEW r, r = Branch(o, p, c, n)
    PROVE  /\ r \in Object /\ r.here = o.here /\ r.deleted = o.deleted /\ r.soft = o.soft
           /\ r.dir = o.dir /\ r.chunk = o.chunk /\ r.tree[p] = c /\ r.valid = o.valid
           /\ \A q \in Parts : q # p => r.tree[q] = o.tree[q]
           /\ Exact(o) => Exact(r)
  <1>1. n \in Int /\ o.tree \in [Parts -> {0} \cup Chunks] /\ o.n \in Int
    BY DEF Object
  <1>2. [o.tree EXCEPT ![p] = c] \in [Parts -> {0} \cup Chunks]
    BY <1>1
  <1> DEFINE tree == [o.tree EXCEPT ![p] = c]
  <1>3. tree[p] = c /\ \A q \in Parts : q # p => tree[q] = o.tree[q]
    BY <1>1
  <1>4. tree \in [Parts -> {0} \cup Chunks] /\ r = [o EXCEPT !.tree = tree, !.n = n]
    BY <1>2 DEF Branch
  <1> HIDE DEF tree
  <1>5. /\ r \in Object /\ r.here = o.here /\ r.deleted = o.deleted /\ r.soft = o.soft
        /\ r.dir = o.dir /\ r.chunk = o.chunk /\ r.tree = tree /\ r.n = n /\ r.valid = o.valid
    BY <1>1, <1>4 DEF Object
  <1>6. UsedParts(r) = UsedParts(o) \cup {p}
    BY <1>3, <1>5, ChunksAre DEF UsedParts
  <1>7. IsFiniteSet(UsedParts(o))
    <2>1. UsedParts(o) \subseteq Parts /\ IsFiniteSet(Parts)
      BY DeviceAssumption DEF UsedParts
    <2> QED
      BY <2>1, FS_Subset
  <1>8. Cardinality(UsedParts(o)) \in Nat
    BY <1>7, FS_CardinalityType
  <1>9. CASE o.tree[p] = 0
    <2>1. p \notin UsedParts(o)
      BY <1>9 DEF UsedParts
    <2>2. Cardinality(UsedParts(r)) = Cardinality(UsedParts(o)) + 1
      BY <1>6, <1>7, <2>1, FS_AddElement
    <2> QED
      BY <1>3, <1>5, <1>9, <2>2 DEF Exact
  <1>10. CASE o.tree[p] # 0
    <2>1. p \in UsedParts(o)
      BY <1>10 DEF UsedParts
    <2>2. UsedParts(r) = UsedParts(o)
      BY <1>6, <2>1
    <2> QED
      BY <1>3, <1>5, <1>10, <2>2 DEF Exact
  <1> QED
    BY <1>9, <1>10

OneLeaf(d, e, i, p, c) ==
    /\ e.obj[i].tree[p] = c /\ e.stale = d.stale
    /\ \A j \in Ids : e.obj[j].chunk = d.obj[j].chunk
    /\ \A j \in Ids, q \in Parts : j # i \/ q # p => e.obj[j].tree[q] = d.obj[j].tree[q]

LEMMA PutIntact ==
    ASSUME NEW d, NEW exact, Intact(d, exact), NEW i \in Ids, NEW p \in Parts, NEW c \in d.bits,
           d.nand[c].id = i, d.nand[c].part = p, d.stale \/ d.nand[c].live,
           d.obj[i].here, ~d.obj[i].soft,
           NEW e, e = PutChunkIntoFile(d, i, p, c, FALSE)
    PROVE  Intact(e, exact) /\ Kept(d, e) /\ Alike(d, e) /\ OneLeaf(d, e, i, p, c)
  <1>a. PICK o : o = d.obj[i]
    OBVIOUS
  <1>b. PICK n : n = IF o.tree[p] = 0 THEN o.n + 1 ELSE o.n
    OBVIOUS
  <1>1. /\ Sound(d, 0) /\ Ready(d) /\ Typed(d) /\ o \in Object /\ c \in Chunks /\ c # 0
        /\ d.obj \in [Ids -> Object]
    BY <1>a, ObjectIs, ChunksAre DEF Intact, Sound, Typed
  <1>2. PICK r : r = Branch(o, p, c, n)
    OBVIOUS
  <1>3. e = With(d, i, r)
    <2> DEFINE m == [o EXCEPT !.tree = [o.tree EXCEPT ![p] = c]]
    <2>1. With(d, i, m) = [d EXCEPT !.obj[i].tree[p] = c]
      BY <1>a DEF With
    <2>2. CASE o.tree[p] = 0
      <3>1. e = [[d EXCEPT !.obj[i].tree[p] = c] EXCEPT !.obj[i].n = @ + 1]
        BY <1>a, <2>2 DEF PutChunkIntoFile
      <3>2. e = With(With(d, i, m), i, [With(d, i, m).obj[i] EXCEPT !.n = @ + 1])
        BY <2>1, <3>1 DEF With
      <3>3. [m EXCEPT !.n = m.n + 1] = r
        BY <1>1, <1>2, <1>b, <2>2 DEF Object, Branch
      <3> HIDE DEF m
      <3>4. With(d, i, m).obj[i] = m
        BY <1>1, WithTwice
      <3>5. e = With(With(d, i, m), i, r)
        BY <3>2, <3>3, <3>4
      <3>6. Typed(d)
        BY <1>1
      <3>7. With(With(d, i, m), i, r) = With(d, i, r)
        BY <3>6, WithTwice
      <3> QED
        BY <3>5, <3>7
    <2>3. CASE o.tree[p] # 0
      <3>1. e = [d EXCEPT !.obj[i].tree[p] = c]
        BY <1>a, <2>3 DEF PutChunkIntoFile
      <3>2. m = r
        BY <1>1, <1>2, <1>b, <2>3 DEF Object, Branch
      <3> HIDE DEF m
      <3> QED
        BY <2>1, <3>1, <3>2
    <2> QED
      BY <2>2, <2>3
  <1>4. /\ r \in Object /\ r.here = o.here /\ r.deleted = o.deleted /\ r.soft = o.soft
        /\ r.dir = o.dir /\ r.chunk = o.chunk /\ r.tree[p] = c
        /\ \A q \in Parts : q # p => r.tree[q] = o.tree[q]
        /\ Exact(o) => Exact(r)
    BY <1>1, <1>2, <1>b, PutObject
  <1>5. /\ Sound(e, 0) /\ Alike(d, e) /\ Ready(e) /\ e.obj[i] = r
        /\ \A j \in Ids : j # i => e.obj[j] = d.obj[j]
        /\ e.stale = d.stale
    <2>1. r \in Object /\ Sound(d, 0) /\ Ready(d)
      BY <1>1, <1>4
    <2>2. PICK f : f = With(d, i, r)
      OBVIOUS
    <2>3. /\ Sound(f, 0) /\ Alike(d, f) /\ Ready(f) /\ f.obj[i] = r
          /\ \A j \in Ids : j # i => f.obj[j] = d.obj[j]
          /\ f.stale = d.stale
      BY <2>1, <2>2, WithKeeps
    <2> QED
      BY <1>3, <2>2, <2>3
  <1>6. /\ Typed(e) /\ e.nand = d.nand /\ e.bits = d.bits
    BY <1>5 DEF Sound, Alike
  <1>7. ASSUME NEW j \in Ids
        PROVE  /\ Points(e, j) /\ Proper(e.obj[j])
               /\ exact => Exact(e.obj[j])
    <2>1. Points(d, j) /\ Proper(d.obj[j]) /\ (exact => Exact(d.obj[j]))
      BY DEF Intact
    <2>2. CASE j # i
      BY <1>5, <2>1, <2>2, AlikePoints
    <2>3. CASE j = i
      <3>1. Header(e, i)
        BY <1>a, <1>4, <1>5, <1>6, <2>1, <2>3 DEF Points, Header
      <3>2. ASSUME NEW q \in Parts
            PROVE  Leaf(e, i, q)
        <4>1. CASE q = p
          <5>1. FindChunkInFile(e, i, p) = IF d.nand[c].live THEN c ELSE 0
            BY <1>1, <1>4, <1>5, <1>6 DEF FindChunkInFile
          <5>2. c \in e.bits /\ (e.stale \/ d.nand[c].live) /\ e.obj[i].tree[p] = c
            BY <1>4, <1>5, <1>6
          <5> QED
            BY <1>1, <4>1, <5>1, <5>2 DEF Leaf
        <4>2. CASE q # p
          <5>1. e.obj[i].tree[q] = d.obj[i].tree[q]
            BY <1>a, <1>4, <1>5, <4>2
          <5>2. FindChunkInFile(e, i, q) = FindChunkInFile(d, i, q)
            BY <1>6, <5>1 DEF FindChunkInFile
          <5>3. Leaf(d, i, q)
            BY <2>1, <2>3 DEF Points
          <5> QED
            BY <1>5, <1>6, <5>1, <5>2, <5>3 DEF Leaf
        <4> QED
          BY <4>1, <4>2
      <3>3. Proper(r)
        BY <1>a, <1>4, <2>1, <2>3 DEF Proper
      <3>4. exact => Exact(r)
        BY <1>a, <1>4, <2>1, <2>3
      <3> QED
        BY <1>5, <2>3, <3>1, <3>2, <3>3, <3>4 DEF Points
    <2> QED
      BY <2>2, <2>3
  <1>8. Intact(e, exact)
    BY <1>5, <1>7 DEF Intact
  <1>10. ASSUME NEW j \in Ids
         PROVE  /\ e.obj[j].here = d.obj[j].here /\ e.obj[j].dir = d.obj[j].dir
                /\ e.obj[j].deleted = d.obj[j].deleted /\ e.obj[j].soft = d.obj[j].soft
                /\ e.obj[j].chunk = d.obj[j].chunk
                /\ \A q \in Parts : j # i \/ q # p => e.obj[j].tree[q] = d.obj[j].tree[q]
    <2>1. CASE j = i
      BY <1>a, <1>4, <1>5, <2>1
    <2>2. CASE j # i
      BY <1>5, <2>2
    <2> QED
      BY <2>1, <2>2
  <1>9. Kept(d, e)
    BY <1>10 DEF Kept
  <1>11. \A j \in Ids : e.obj[j].chunk = d.obj[j].chunk
    BY <1>10
  <1>12. \A j \in Ids, q \in Parts : j # i \/ q # p => e.obj[j].tree[q] = d.obj[j].tree[q]
    BY <1>10
  <1>13. e.obj[i].tree[p] = c
    BY <1>4, <1>5
  <1> QED
    BY <1>5, <1>8, <1>9, <1>11, <1>12, <1>13 DEF OneLeaf

-----------------------------------------------------------------------------
(* Collecting a block.                                                     *)
StaleToo(d, yes) == [d EXCEPT !.stale = @ \/ yes]

LEMMA StaleKeeps ==
    ASSUME NEW d, NEW exact, Intact(d, exact), NEW yes \in BOOLEAN, NEW e, e = StaleToo(d, yes)
    PROVE  /\ Intact(e, exact) /\ e.obj = d.obj /\ Alike(d, e) /\ (yes => e.stale)
           /\ e.result = d.result
  <1>1. Sound(d, 0) /\ Ready(d) /\ Typed(d) /\ d.stale \in BOOLEAN
    BY DEF Intact, Sound, Typed
  <1> DEFINE stale == d.stale \/ yes
  <1>2. stale \in BOOLEAN /\ (yes => stale) /\ (d.stale => stale)
    BY <1>1
  <1>3. e = [d EXCEPT !.stale = stale]
    BY <1>1 DEF StaleToo, Typed
  <1> HIDE DEF stale
  <1>4. /\ e.obj = d.obj /\ e.luck = d.luck /\ e.stale = stale /\ e.nand = d.nand
        /\ e.images = d.images /\ e.info = d.info /\ e.bits = d.bits
        /\ e.erased = d.erased /\ e.ablock = d.ablock /\ e.result = d.result
        /\ e.apage = d.apage /\ e.finder = d.finder /\ e.checker = d.checker
    BY <1>1, <1>3 DEF Typed
  <1>5. Typed(e)
    <2>1. e = [d EXCEPT !.stale = e.stale]
      BY <1>3, <1>4
    <2> QED
      BY <1>1, <1>2, <1>4, <2>1 DEF Typed
  <1>6. Alike(d, e)
    BY <1>4 DEF Alike
  <1>7. Sound(e, 0) /\ Ready(e)
    BY <1>1, <1>5, <1>6, AlikeKeeps
  <1>8. ASSUME NEW i \in Ids
        PROVE  Points(e, i)
    <2>1. Points(d, i)
      BY DEF Intact
    <2>2. Header(e, i)
      BY <1>2, <1>4, <2>1 DEF Points, Header
    <2>3. ASSUME NEW p \in Parts
          PROVE  Leaf(e, i, p)
      <3>1. FindChunkInFile(e, i, p) = FindChunkInFile(d, i, p)
        BY <1>4 DEF FindChunkInFile
      <3> QED
        BY <1>2, <1>4, <2>1, <3>1 DEF Points, Leaf
    <2> QED
      BY <2>2, <2>3 DEF Points
  <1> QED
    BY <1>2, <1>4, <1>6, <1>7, <1>8 DEF Intact

(* A new header takes the place of another.                                *)
Headed(o, c, serial) == [o EXCEPT !.chunk = c, !.serial = serial]

LEMMA HeaderIntact ==
    ASSUME NEW d, NEW exact, Intact(d, exact), NEW i \in Ids, NEW c \in d.bits,
           d.nand[c].id = i, d.nand[c].part = 0, d.stale \/ d.nand[c].live,
           d.obj[i].here, NEW serial \in 0 .. 3,
           NEW e, e = With(d, i, Headed(d.obj[i], c, serial))
    PROVE  /\ Intact(e, exact) /\ Kept(d, e) /\ Alike(d, e) /\ e.obj[i].chunk = c
           /\ e.stale = d.stale
           /\ \A j \in Ids : j # i => e.obj[j] = d.obj[j]
           /\ \A j \in Ids : e.obj[j].tree = d.obj[j].tree
  <1>a. PICK o : o = d.obj[i]
    OBVIOUS
  <1>b. PICK r : r = Headed(o, c, serial)
    OBVIOUS
  <1>1. /\ Sound(d, 0) /\ Ready(d) /\ Typed(d) /\ o \in Object /\ c \in Chunks /\ c # 0
    BY <1>a, ObjectIs, ChunksAre DEF Intact, Sound, Typed
  <1>2. /\ r \in Object /\ r.here = o.here /\ r.deleted = o.deleted /\ r.soft = o.soft
        /\ r.dir = o.dir /\ r.chunk = c /\ r.tree = o.tree /\ r.n = o.n
    <2>1. o \in Object /\ c \in Chunks
      BY <1>1
    <2>2. r \in Object /\ r.chunk = c
      BY <2>1, <1>b DEF Headed, Object
    <2>3. r.here = o.here /\ r.deleted = o.deleted /\ r.soft = o.soft
      BY <2>1, <1>b DEF Headed, Object
    <2>4. r.dir = o.dir /\ r.tree = o.tree /\ r.n = o.n
      BY <2>1, <1>b DEF Headed, Object
    <2> QED
      BY <2>2, <2>3, <2>4
  <1>3. PICK f : f = With(d, i, r)
    OBVIOUS
  <1>4. /\ Sound(f, 0) /\ Alike(d, f) /\ Ready(f) /\ f.obj[i] = r
        /\ \A j \in Ids : j # i => f.obj[j] = d.obj[j]
        /\ f.stale = d.stale
    BY <1>1, <1>2, <1>3, WithKeeps
  <1>5. f = e
    BY <1>a, <1>b, <1>3
  <1>6. f.nand = d.nand /\ f.bits = d.bits
    BY <1>4 DEF Alike
  <1>7. ASSUME NEW j \in Ids
        PROVE  /\ Points(f, j) /\ Proper(f.obj[j])
               /\ exact => Exact(f.obj[j])
    <2>1. Points(d, j) /\ Proper(d.obj[j]) /\ (exact => Exact(d.obj[j]))
      BY DEF Intact
    <2>2. CASE j # i
      BY <1>4, <2>1, <2>2, AlikePoints
    <2>3. CASE j = i
      <3>1. Header(f, i)
        BY <1>2, <1>4, <1>6 DEF Header
      <3>2. ASSUME NEW q \in Parts
            PROVE  Leaf(f, i, q)
        <4>1. f.obj[i].tree[q] = d.obj[i].tree[q]
          BY <1>a, <1>2, <1>4
        <4>2. FindChunkInFile(f, i, q) = FindChunkInFile(d, i, q)
          BY <1>6, <4>1 DEF FindChunkInFile
        <4>3. Leaf(d, i, q)
          BY <2>1, <2>3 DEF Points
        <4> QED
          BY <1>4, <1>6, <4>1, <4>2, <4>3 DEF Leaf
      <3>3. UsedParts(r) = UsedParts(o)
        BY <1>2 DEF UsedParts
      <3>4. Proper(r)
        BY <1>a, <1>2, <2>1, <2>3, <3>3 DEF Proper
      <3>5. exact => Exact(r)
        BY <1>a, <1>2, <2>1, <2>3, <3>3 DEF Exact
      <3> QED
        BY <1>4, <2>3, <3>1, <3>2, <3>4, <3>5 DEF Points
    <2> QED
      BY <2>2, <2>3
  <1>8. Intact(f, exact)
    BY <1>4, <1>7 DEF Intact
  <1>10. ASSUME NEW j \in Ids
         PROVE  /\ f.obj[j].here = d.obj[j].here /\ f.obj[j].dir = d.obj[j].dir
                /\ f.obj[j].deleted = d.obj[j].deleted /\ f.obj[j].soft = d.obj[j].soft
                /\ d.obj[j].chunk # 0 => f.obj[j].chunk # 0
                /\ f.obj[j].tree = d.obj[j].tree
    <2>1. CASE j = i
      BY <1>a, <1>1, <1>2, <1>4, <2>1
    <2>2. CASE j # i
      BY <1>4, <2>2
    <2> QED
      BY <2>1, <2>2
  <1>9. Kept(d, f)
    BY <1>10 DEF Kept
  <1> QED
    BY <1>2, <1>4, <1>5, <1>8, <1>9, <1>10

(* What a write leaves of the objects and of the pages in use.             *)
Untouched(d, e) ==
    /\ e.obj = d.obj /\ e.stale = d.stale
    /\ d.bits \subseteq e.bits /\ \A x \in d.bits : e.nand[x] = d.nand[x]

LEMMA WriteIntact ==
    ASSUME NEW d, NEW exact, Intact(d, exact), NEW page \in PageSet, Signed(page), page.good,
           page.id # Unused, NEW useReserve, NEW e, e = WriteNewChunk(d, page, useReserve)
    PROVE  Intact(e, exact) /\ Answer(d, e, page) /\ Untouched(d, e)
  <1>1. Sound(d, 0) /\ Ready(d)
    BY DEF Intact
  <1>2. /\ Sound(e, 0) /\ Ready(e) /\ Lasts(d, e, {}, {})
        /\ e.obj = d.obj /\ e.stale = d.stale /\ Answer(d, e, page)
    BY <1>1, WriteKeeps
  <1>3. Intact(e, exact)
    BY <1>2, LastsIntact
  <1>4. d.bits \subseteq e.bits /\ \A x \in d.bits : e.nand[x] = d.nand[x]
    BY <1>2 DEF Lasts
  <1> QED
    BY <1>2, <1>3, <1>4 DEF Untouched

CopyOf(page) == [page EXCEPT !.serial = (@ + 1) % 4]

LEMMA CopyIs ==
    ASSUME NEW page \in PageSet, NEW copy, copy = CopyOf(page)
    PROVE  /\ copy \in PageSet /\ copy.id = page.id /\ copy.part = page.part
           /\ copy.live = page.live /\ copy.good = page.good /\ copy.dir = page.dir
           /\ copy.serial \in 0 .. 3
  <1>1. page.serial \in 0 .. 3
    BY DEF PageSet
  <1>2. (page.serial + 1) % 4 \in 0 .. 3
    BY <1>1
  <1> DEFINE s == (page.serial + 1) % 4
  <1>3. s \in 0 .. 3 /\ copy = [page EXCEPT !.serial = s]
    BY <1>2 DEF CopyOf
  <1> HIDE DEF s
  <1> QED
    BY <1>3 DEF PageSet

(* The page of an object that exists is copied.                            *)
LEMMA CopyIntact ==
    ASSUME NEW d, NEW exact, Intact(d, exact), NEW c \in d.bits
    PROVE  LET page == d.nand[c]
               i == page.id
               copy == CopyOf(page)
               e == Copied(WriteNewChunk(StaleToo(d, ~page.live), copy, TRUE), copy, c)
           IN  i \in Ids /\ d.obj[i].here /\ ~(d.obj[i].deleted /\ page.part # 0) =>
                   Intact(e, exact) /\ Kept(d, e)
  <1>a. PICK page : page = d.nand[c]
    OBVIOUS
  <1>b. PICK i : i = page.id
    OBVIOUS
  <1>c. PICK copy : copy = CopyOf(page)
    OBVIOUS
  <1>d. PICK e : e = Copied(WriteNewChunk(StaleToo(d, ~page.live), copy, TRUE), copy, c)
    OBVIOUS
  <1>e. SUFFICES ASSUME i \in Ids, d.obj[i].here, ~(d.obj[i].deleted /\ page.part # 0)
                 PROVE  Intact(e, exact) /\ Kept(d, e)
    BY <1>a, <1>b, <1>c, <1>d
  <1>1. /\ Sound(d, 0) /\ Ready(d) /\ Typed(d) /\ c \in Chunks /\ c # 0 /\ page \in PageSet
        /\ page.good /\ Signed(page) /\ Proper(d.obj[i]) /\ page.live \in BOOLEAN
    <2>1. Sound(d, 0) /\ Ready(d) /\ Proper(d.obj[i])
      BY <1>e DEF Intact
    <2>2. c \in Chunks /\ page \in PageSet /\ page.good /\ Signed(page)
      BY <1>a, <2>1, UsedGood
    <2> QED
      BY <2>1, <2>2, ChunksAre DEF Sound, PageSet
  <1>2. /\ copy \in PageSet /\ copy.id = i /\ copy.part = page.part
        /\ copy.live = page.live /\ copy.good /\ copy.dir = page.dir /\ copy.serial \in 0 .. 3
    BY <1>1, <1>b, <1>c, CopyIs
  <1>3. Signed(copy) /\ copy.id # Unused
    <2>1. copy.id = page.id /\ copy.part = page.part /\ copy.dir = page.dir
      BY <1>2, <1>b
    <2>2. Signed(copy)
      BY <1>1, <2>1 DEF Signed
    <2>3. i # Unused
      BY <1>e, DeviceAssumption
    <2> QED
      BY <1>2, <2>2, <2>3
  <1>4. PICK yes \in BOOLEAN : yes = ~page.live
    BY <1>1
  <1>5. PICK d1 : d1 = StaleToo(d, yes)
    OBVIOUS
  <1>6. /\ Intact(d1, exact) /\ d1.obj = d.obj /\ Alike(d, d1) /\ (yes => d1.stale)
    BY <1>5, StaleKeeps
  <1>7. PICK f : f = WriteNewChunk(d1, copy, TRUE)
    OBVIOUS
  <1>8. /\ Intact(f, exact) /\ f.obj = d1.obj /\ f.stale = d1.stale /\ Answer(d1, f, copy)
        /\ d1.bits \subseteq f.bits /\ \A x \in d1.bits : f.nand[x] = d1.nand[x]
    <2>1. copy \in PageSet /\ Signed(copy) /\ copy.good /\ copy.id # Unused /\ Intact(d1, exact)
      BY <1>2, <1>3, <1>6
    <2>2. Intact(f, exact) /\ Answer(d1, f, copy) /\ Untouched(d1, f)
      BY <1>7, <2>1, WriteIntact
    <2> QED
      BY <2>2 DEF Untouched
  <1>9. e = Copied(f, copy, c)
    BY <1>4, <1>5, <1>7, <1>d
  <1>10. /\ d1.bits = d.bits /\ d1.nand = d.nand /\ f.obj = d.obj
         /\ f.stale \/ copy.live
    BY <1>2, <1>4, <1>6, <1>8 DEF Alike
  <1>11. CASE f.result = 0
    <2>1. e = [f EXCEPT !.result = FALSE]
      BY <1>9, <1>11 DEF Copied
    <2>2. Intact(e, exact) /\ e.obj = f.obj
      BY <1>8, <2>1, ResultIntact
    <2> QED
      BY <1>10, <2>2, KeptSame
  <1>12. CASE f.result # 0
    <2>1. PICK x : x = f.result
      OBVIOUS
    <2>2. /\ x \in Chunks /\ x \notin d.bits /\ x \in f.bits /\ f.nand[x] = copy /\ x # c
          /\ c \in f.bits /\ f.nand[c] = page
      BY <1>8, <1>10, <1>12, <1>a, <2>1 DEF Answer
    <2>3. PICK g : g = Moved(f, copy)
      OBVIOUS
    <2>4. e = Collected(g, c, TRUE)
      BY <1>9, <1>12, <2>3 DEF Copied
    <2>5. f.obj[i] = d.obj[i]
      BY <1>10
    <2>6. /\ Intact(g, exact) /\ Kept(f, g) /\ Alike(f, g)
          /\ copy.part = 0 => g.obj[i].chunk = x
          /\ copy.part # 0 => /\ copy.part \in Parts /\ g.obj[i].tree[copy.part] = x
      <3>1. CASE copy.part = 0
        <4>1. g = With(f, i, Headed(f.obj[i], x, copy.serial))
          <5>1. copy.id = i /\ f.result = x
            BY <1>2, <2>1
          <5>2. g = [f EXCEPT !.obj[i].chunk = x, !.obj[i].serial = copy.serial]
            BY <2>3, <3>1, <5>1 DEF Moved
          <5> QED
            BY <5>2 DEF With, Headed
        <4>2. /\ f.nand[x].id = i /\ f.nand[x].part = 0 /\ (f.stale \/ f.nand[x].live)
              /\ f.obj[i].here /\ x \in f.bits
          BY <1>2, <1>10, <1>e, <2>2, <2>5, <3>1
        <4>3. Intact(g, exact) /\ Kept(f, g) /\ Alike(f, g) /\ g.obj[i].chunk = x
          BY <1>2, <1>8, <1>e, <4>1, <4>2, HeaderIntact
        <4> QED
          BY <3>1, <4>3
      <3>2. CASE copy.part # 0
        <4>1. PICK p : p = copy.part
          OBVIOUS
        <4>2. p \in Parts
          BY <1>2, <3>2, <4>1 DEF PageSet
        <4>3. g = PutChunkIntoFile(f, i, p, x, FALSE)
          BY <1>2, <2>1, <2>3, <3>2, <4>1 DEF Moved
        <4>4. /\ f.nand[x].id = i /\ f.nand[x].part = p /\ (f.stale \/ f.nand[x].live)
              /\ f.obj[i].here /\ x \in f.bits
          BY <1>2, <1>10, <1>e, <2>2, <2>5, <4>1
        <4>5. ~f.obj[i].soft
          BY <1>1, <1>2, <1>e, <2>5, <3>2 DEF Proper
        <4>6. Intact(g, exact) /\ Kept(f, g) /\ Alike(f, g) /\ g.obj[i].tree[p] = x
          <5>1. i \in Ids /\ Intact(f, exact)
            BY <1>8, <1>e
          <5>2. Intact(g, exact) /\ Kept(f, g) /\ Alike(f, g)
            BY <4>2, <4>3, <4>4, <4>5, <5>1, PutIntact
          <5>3. OneLeaf(f, g, i, p, x)
            BY <4>2, <4>3, <4>4, <4>5, <5>1, PutIntact
          <5> QED
            BY <5>2, <5>3 DEF OneLeaf
        <4> QED
          BY <3>2, <4>1, <4>2, <4>6
      <3> QED
        BY <3>1, <3>2
    <2>7. Typed(g) /\ g.bits = f.bits /\ g.nand = f.nand /\ Typed(f)
      BY <1>8, <2>6 DEF Intact, Sound, Alike
    <2>8. ASSUME NEW j \in Ids
          PROVE  /\ g.obj[j].chunk # c
                 /\ \A p \in Parts : FindChunkInFile(g, j, p) # c
      <3>1. Header(g, j)
        BY <2>6 DEF Intact, Points
      <3>2. /\ g.nand[c].id # j \/ g.nand[c].part # 0 => g.obj[j].chunk # c
            /\ \A p \in Parts : g.nand[c].id # j \/ g.nand[c].part # p \/ ~g.nand[c].live =>
                   FindChunkInFile(g, j, p) # c
        BY <1>1, <2>7, <3>1, Distinct
      <3>3. g.nand[c].id = i /\ g.nand[c].part = copy.part
        BY <1>2, <1>b, <2>2, <2>7
      <3>4. CASE j # i
        BY <3>2, <3>3, <3>4
      <3>5. CASE j = i /\ copy.part = 0
        <4>1. 0 \notin Parts
          BY DeviceAssumption
        <4> QED
          BY <2>2, <2>6, <3>2, <3>3, <3>5, <4>1
      <3>6. CASE j = i /\ copy.part # 0
        <4>1. g.obj[j].chunk # c
          BY <3>2, <3>3, <3>6
        <4>2. ASSUME NEW p \in Parts
              PROVE  FindChunkInFile(g, j, p) # c
          <5>1. CASE p # copy.part
            BY <3>2, <3>3, <5>1
          <5>2. CASE p = copy.part
            <6>1. FindChunkInFile(g, j, p) \in {0, g.obj[j].tree[p]}
              BY <2>7, FindIs
            <6> QED
              BY <1>1, <2>2, <2>6, <3>6, <5>2, <6>1
          <5> QED
            BY <5>1, <5>2
        <4> QED
          BY <4>1, <4>2
      <3> QED
        BY <3>4, <3>5, <3>6
    <2>9. PICK mark \in BOOLEAN : mark = TRUE
      OBVIOUS
    <2>10. Intact(e, exact) /\ e.obj = g.obj
      <3>1. e = Collected(g, c, mark) /\ c \in g.bits
        BY <2>2, <2>4, <2>7, <2>9
      <3> QED
        BY <2>6, <2>8, <3>1, CollectedIntact
    <2>11. Kept(d, e)
      BY <1>10, <2>6, <2>10 DEF Kept
    <2> QED
      BY <2>10, <2>11
  <1> QED
    BY <1>11, <1>12

(* A deleted file counts down.                                             *)
Counting(o, n) == [o EXCEPT !.n = n]

SameFile(o, r) ==
    /\ r.here = o.here /\ r.deleted = o.deleted /\ r.soft = o.soft /\ r.dir = o.dir
    /\ r.chunk = o.chunk /\ r.tree = o.tree

LEMMA SameFilePoints ==
    ASSUME NEW d, NEW e, Alike(d, e), e.stale = d.stale, NEW i \in Ids,
           SameFile(d.obj[i], e.obj[i]), Points(d, i)
    PROVE  Points(e, i)
  <1>1. /\ e.nand = d.nand /\ e.bits = d.bits /\ e.obj[i].chunk = d.obj[i].chunk
        /\ e.obj[i].tree = d.obj[i].tree
    BY DEF Alike, SameFile
  <1>2. Header(e, i)
    BY <1>1 DEF Points, Header
  <1>3. ASSUME NEW p \in Parts
        PROVE  Leaf(e, i, p)
    <2>1. FindChunkInFile(e, i, p) = FindChunkInFile(d, i, p)
      BY <1>1 DEF FindChunkInFile
    <2> QED
      BY <1>1, <2>1 DEF Points, Leaf
  <1> QED
    BY <1>2, <1>3 DEF Points

LEMMA SameFileKept ==
    ASSUME NEW d, NEW e, \A i \in Ids : SameFile(d.obj[i], e.obj[i])
    PROVE  Kept(d, e)
  BY DEF Kept, SameFile

(* What is said of an object is said of one that differs elsewhere.        *)
LEMMA FileIntact ==
    ASSUME NEW d, NEW exact, Intact(d, exact), NEW i \in Ids, NEW r \in Object,
           SameFile(d.obj[i], r), Proper(r), exact => Exact(r)
    PROVE  LET e == With(d, i, r)
           IN  /\ Intact(e, exact) /\ Kept(d, e) /\ Alike(d, e) /\ e.stale = d.stale
               /\ \A j \in Ids : e.obj[j] = IF j = i THEN r ELSE d.obj[j]
  <1>1. PICK e : e = With(d, i, r)
    OBVIOUS
  <1>2. Sound(d, 0) /\ Ready(d)
    BY DEF Intact
  <1>3. /\ Sound(e, 0) /\ Alike(d, e) /\ Ready(e) /\ e.obj[i] = r
        /\ \A j \in Ids : j # i => e.obj[j] = d.obj[j]
        /\ e.stale = d.stale
    BY <1>1, <1>2, WithKeeps
  <1>4. ASSUME NEW j \in Ids
        PROVE  /\ Points(e, j) /\ Proper(e.obj[j]) /\ SameFile(d.obj[j], e.obj[j])
               /\ exact => Exact(e.obj[j])
    <2>1. Points(d, j) /\ Proper(d.obj[j]) /\ (exact => Exact(d.obj[j]))
      BY DEF Intact
    <2>2. SameFile(d.obj[j], e.obj[j])
      BY <1>3 DEF SameFile
    <2>3. Points(e, j)
      BY <1>3, <2>1, <2>2, SameFilePoints
    <2> QED
      BY <1>3, <2>1, <2>2, <2>3
  <1>5. Intact(e, exact)
    BY <1>3, <1>4 DEF Intact
  <1>6. Kept(d, e)
    BY <1>4, SameFileKept
  <1>7. \A j \in Ids : e.obj[j] = IF j = i THEN r ELSE d.obj[j]
    BY <1>3
  <1> QED
    BY <1>1, <1>3, <1>5, <1>6, <1>7

(* A data page of a deleted file is dropped, and with the last the file.    *)
LEMMA DropIntact ==
    ASSUME NEW d, NEW exact, Intact(d, exact), NEW c \in d.bits
    PROVE  LET i == d.nand[c].id
               e == Collected(Dropped([d EXCEPT !.obj[i].n = @ - 1], i), c, FALSE)
           IN  i \in Ids /\ d.obj[i].here /\ d.obj[i].deleted /\ d.nand[c].part # 0 =>
                   Intact(e, exact) /\ Kept(d, e)
  <1>a. PICK i : i = d.nand[c].id
    OBVIOUS
  <1>b. PICK e : e = Collected(Dropped([d EXCEPT !.obj[i].n = @ - 1], i), c, FALSE)
    OBVIOUS
  <1>c. SUFFICES ASSUME i \in Ids, d.obj[i].here, d.obj[i].deleted, d.nand[c].part # 0
                 PROVE  Intact(e, exact) /\ Kept(d, e)
    BY <1>a, <1>b
  <1>d. PICK o : o = d.obj[i]
    OBVIOUS
  <1>1. /\ Sound(d, 0) /\ Typed(d) /\ c \in Chunks /\ c # 0 /\ o \in Object /\ o.n \in Int
        /\ d.obj \in [Ids -> Object]
    <2>1. Sound(d, 0) /\ Typed(d)
      BY DEF Intact, Sound
    <2>2. d.obj \in [Ids -> Object] /\ c \in Chunks
      BY <2>1 DEF Typed
    <2>3. o \in Object
      BY <1>c, <1>d, <2>2
    <2> QED
      BY <2>1, <2>2, <2>3, ChunksAre DEF Object
  <1>2. PICK r : r = Counting(o, o.n - 1)
    OBVIOUS
  <1>3. r \in Object /\ SameFile(o, r) /\ o.here /\ o.deleted
    BY <1>1, <1>2, <1>c, <1>d DEF Counting, Object, SameFile
  <1>4. Proper(o) /\ o.soft
    BY <1>c, <1>d, <1>3 DEF Intact, Proper
  <1>5. /\ UsedParts(r) = {} /\ Proper(r) /\ Exact(r) /\ r.soft /\ r.deleted
        /\ \A p \in Parts : r.tree[p] = 0
    <2>1. UsedParts(r) = UsedParts(o) /\ UsedParts(o) = {} /\ r.here /\ r.soft /\ r.deleted
      BY <1>3, <1>4 DEF SameFile, UsedParts, Proper
    <2>2. Proper(r)
      BY <1>3, <1>4, <2>1 DEF Proper, SameFile
    <2>3. Exact(r)
      BY <2>1 DEF Exact
    <2>4. \A p \in Parts : r.tree[p] = 0
      BY <2>1 DEF UsedParts
    <2> QED
      BY <2>1, <2>2, <2>3, <2>4
  <1>6. PICK d1 : d1 = With(d, i, r)
    OBVIOUS
  <1>7. /\ Intact(d1, exact) /\ Kept(d, d1) /\ Alike(d, d1) /\ d1.stale = d.stale
        /\ \A j \in Ids : d1.obj[j] = IF j = i THEN r ELSE d.obj[j]
    <2>1. i \in Ids /\ SameFile(d.obj[i], r) /\ (exact => Exact(r)) /\ r \in Object /\ Proper(r)
      BY <1>3, <1>5, <1>c, <1>d
    <2> QED
      BY <1>6, <2>1, FileIntact
  <1>8. d1 = [d EXCEPT !.obj[i].n = @ - 1]
    BY <1>1, <1>2, <1>6, <1>c, <1>d DEF With, Counting
  <1>9. PICK f : f = Dropped(d1, i)
    OBVIOUS
  <1>10. e = Collected(f, c, FALSE)
    BY <1>8, <1>9, <1>b
  <1>11. /\ c \in d1.bits /\ d1.nand[c] = d.nand[c] /\ Header(d1, i) /\ Typed(d1)
         /\ d1.obj[i] = r
    BY <1>7, <1>c DEF Alike, Intact, Points, Sound
  <1>12. /\ Intact(f, exact) /\ Kept(d1, f) /\ c \in f.bits /\ f.nand[c] = d.nand[c]
         /\ \A p \in Parts : f.obj[i].tree[p] = 0
    <2>1. CASE f = d1
      BY <1>5, <1>7, <1>11, <2>1, KeptSame
    <2>2. CASE f = DoGenericObjectDeletion(d1, i)
      <3>1. /\ Sound(d1, 0) /\ Ready(d1) /\ i \in Ids
            /\ \A j \in Ids : j # i => /\ Points(d1, j) /\ Proper(d1.obj[j])
                                       /\ exact => Exact(d1.obj[j])
        BY <1>7, <1>c DEF Intact
      <3>2. /\ Intact(f, exact) /\ f.obj[i] = NoObject
            /\ \A j \in Ids : j # i => f.obj[j] = d1.obj[j]
            /\ Lasts(d1, f, {d1.obj[i].chunk}, {})
        BY <1>11, <2>2, <3>1, GoneIntact
      <3>3. c # d1.obj[i].chunk
        BY <1>11, <1>1, <1>c, Distinct
      <3>4. c \in f.bits /\ f.nand[c] = d.nand[c]
        BY <1>11, <3>2, <3>3 DEF Lasts
      <3>5. \A p \in Parts : f.obj[i].tree[p] = 0
        BY <3>2, NoObjectIs
      <3>6. Kept(d1, f)
        <4>1. ~NoObject.here /\ d1.obj[i].deleted
          BY <1>5, <1>11, NoObjectIs
        <4>2. \A j \in Ids : j # i => f.obj[j] = d1.obj[j]
          BY <3>2
        <4> QED
          BY <3>2, <4>1, <4>2 DEF Kept
      <3> QED
        BY <3>2, <3>4, <3>5, <3>6
    <2> QED
      BY <1>9, <2>1, <2>2 DEF Dropped
  <1>13. ASSUME NEW j \in Ids
         PROVE  /\ f.obj[j].chunk # c
                /\ \A p \in Parts : FindChunkInFile(f, j, p) # c
    <2>1. Header(f, j) /\ Typed(f)
      BY <1>12 DEF Intact, Points, Sound
    <2>2. /\ f.nand[c].id # j \/ f.nand[c].part # 0 => f.obj[j].chunk # c
          /\ \A p \in Parts : f.nand[c].id # j \/ f.nand[c].part # p \/ ~f.nand[c].live =>
                 FindChunkInFile(f, j, p) # c
      BY <1>1, <2>1, Distinct
    <2>3. f.nand[c].id = i /\ f.nand[c].part # 0
      BY <1>12, <1>a, <1>c
    <2>4. CASE j # i
      BY <2>2, <2>3, <2>4
    <2>5. CASE j = i
      <3>1. \A p \in Parts : FindChunkInFile(f, j, p) = 0
        BY <1>12, <2>5, NoneLeaf
      <3> QED
        BY <1>1, <2>2, <2>3, <3>1
    <2> QED
      BY <2>4, <2>5
  <1>14. Intact(e, exact) /\ e.obj = f.obj
    <2>1. PICK mark \in BOOLEAN : mark = FALSE
      OBVIOUS
    <2>2. e = Collected(f, c, mark) /\ c \in f.bits /\ Intact(f, exact)
      BY <1>10, <1>12, <2>1
    <2>3. \A j \in Ids : f.obj[j].chunk # c
      BY <1>13
    <2>4. \A j \in Ids : \A p \in Parts : FindChunkInFile(f, j, p) # c
      BY <1>13
    <2> QED
      BY <2>2, <2>3, <2>4, CollectedIntact
  <1>15. Kept(d, e)
    <2>1. Kept(f, e) /\ Typed(f) /\ Typed(e)
      BY <1>12, <1>14, KeptSame DEF Intact, Sound
    <2>2. Kept(d, f)
      BY <1>1, <1>7, <1>11, <1>12, <2>1, KeptTwice
    <2> QED
      BY <1>1, <2>1, <2>2, KeptTwice
  <1> QED
    BY <1>14, <1>15

(* A page of a block that is collected.                                    *)
LEMMA PageIntact ==
    ASSUME NEW d, NEW exact, Intact(d, exact), NEW c \in d.bits
    PROVE  LET e == CollectPage(d, d.nand[c], c)
           IN  Intact(e, exact) /\ Kept(d, e)
  <1>a. PICK page : page = d.nand[c]
    OBVIOUS
  <1>b. PICK i : i = page.id
    OBVIOUS
  <1>c. PICK e : e = CollectPage(d, page, c)
    OBVIOUS
  <1>1. Typed(d) /\ c \in Chunks /\ c # 0
    BY ChunksAre DEF Intact, Sound, Typed
  <1>2. CASE i \notin Ids \/ ~d.obj[i].here
    <2>1. e = Collected(d, c, TRUE)
      BY <1>b, <1>c, <1>2 DEF CollectPage
    <2>2. ASSUME NEW j \in Ids
          PROVE  d.obj[j].chunk # c /\ \A p \in Parts : FindChunkInFile(d, j, p) # c
      <3>1. Header(d, j) /\ Proper(d.obj[j])
        BY DEF Intact, Points
      <3>2. /\ d.nand[c].id # j \/ d.nand[c].part # 0 => d.obj[j].chunk # c
            /\ \A p \in Parts : d.nand[c].id # j \/ d.nand[c].part # p \/ ~d.nand[c].live =>
                   FindChunkInFile(d, j, p) # c
        BY <1>1, <3>1, Distinct
      <3>3. d.nand[c].id = i
        BY <1>a, <1>b
      <3>4. CASE j # i
        BY <3>2, <3>3, <3>4
      <3>5. CASE j = i
        <4>1. d.obj[j] = NoObject
          BY <1>2, <3>1, <3>5 DEF Proper
        <4>2. \A p \in Parts : FindChunkInFile(d, j, p) = 0
          BY <4>1, NoObjectIs, NoneLeaf
        <4> QED
          BY <1>1, <4>1, <4>2, NoObjectIs
      <3> QED
        BY <3>4, <3>5
    <2>3. Intact(e, exact) /\ e.obj = d.obj
      <3>1. PICK mark \in BOOLEAN : mark = TRUE
        OBVIOUS
      <3>2. e = Collected(d, c, mark)
        BY <2>1, <3>1
      <3>3. \A j \in Ids : d.obj[j].chunk # c
        BY <2>2
      <3>4. \A j \in Ids : \A p \in Parts : FindChunkInFile(d, j, p) # c
        BY <2>2
      <3> QED
        BY <3>2, <3>3, <3>4, CollectedIntact
    <2> QED
      BY <1>a, <1>c, <2>3, KeptSame
  <1>3. CASE i \in Ids /\ d.obj[i].here /\ d.obj[i].deleted /\ page.part # 0
    <2>1. e = Collected(Dropped([d EXCEPT !.obj[i].n = @ - 1], i), c, FALSE)
      BY <1>b, <1>c, <1>3 DEF CollectPage
    <2>2. LET j == d.nand[c].id
              g == Collected(Dropped([d EXCEPT !.obj[j].n = @ - 1], j), c, FALSE)
          IN  j \in Ids /\ d.obj[j].here /\ d.obj[j].deleted /\ d.nand[c].part # 0 =>
                  Intact(g, exact) /\ Kept(d, g)
      BY DropIntact
    <2> QED
      BY <1>a, <1>b, <1>c, <1>3, <2>1, <2>2
  <1>4. CASE i \in Ids /\ d.obj[i].here /\ ~(d.obj[i].deleted /\ page.part # 0)
    <2>1. PICK copy : copy = CopyOf(page)
      OBVIOUS
    <2>2. e = Copied(WriteNewChunk(StaleToo(d, ~page.live), copy, TRUE), copy, c)
      BY <1>b, <1>c, <1>4, <2>1 DEF CollectPage, CopyOf, StaleToo
    <2>3. LET q == d.nand[c]
              j == q.id
              g == Copied(WriteNewChunk(StaleToo(d, ~q.live), CopyOf(q), TRUE), CopyOf(q), c)
          IN  j \in Ids /\ d.obj[j].here /\ ~(d.obj[j].deleted /\ q.part # 0) =>
                  Intact(g, exact) /\ Kept(d, g)
      BY CopyIntact
    <2> QED
      BY <1>a, <1>b, <1>c, <1>4, <2>1, <2>2, <2>3
  <1> QED
    BY <1>2, <1>3, <1>4

LEMMA ReadIntact ==
    ASSUME NEW d, NEW exact, Intact(d, exact), NEW c
    PROVE  LET e == ReadData(d, c)
           IN  Intact(e, exact) /\ Untouched(d, e)
  <1>1. PICK e : e = ReadData(d, c)
    OBVIOUS
  <1>2. Sound(d, 0) /\ Ready(d)
    BY DEF Intact
  <1>3. /\ Sound(e, 0) /\ Same(d, e) /\ Lasts(d, e, {}, {}) /\ e.nand = d.nand
        /\ e.bits = d.bits /\ Ready(e)
    BY <1>1, <1>2, ReadKeeps
  <1>4. e.obj = d.obj /\ e.stale = d.stale
    BY <1>3 DEF Same
  <1>5. Intact(e, exact)
    BY <1>3, <1>4, LastsIntact
  <1> QED
    BY <1>1, <1>3, <1>4, <1>5 DEF Untouched

LEMMA ChunkIntact ==
    ASSUME NEW d, NEW exact, Intact(d, exact), NEW c \in d.bits
    PROVE  LET e == CollectChunk(d, c)
           IN  Intact(e, exact) /\ Kept(d, e)
  <1>1. PICK f : f = ReadData(d, c)
    OBVIOUS
  <1>2. Intact(f, exact) /\ Untouched(d, f)
    BY <1>1, ReadIntact
  <1>3. c \in f.bits /\ f.nand[c] = d.nand[c] /\ f.obj = d.obj
    BY <1>2 DEF Untouched
  <1>4. PICK e : e = CollectPage(f, f.nand[c], c)
    OBVIOUS
  <1>5. Intact(e, exact) /\ Kept(f, e)
    BY <1>2, <1>3, <1>4, PageIntact
  <1>6. Kept(d, e)
    BY <1>3, <1>5 DEF Kept
  <1>7. e = CollectChunk(d, c)
    BY <1>1, <1>3, <1>4 DEF CollectChunk
  <1> QED
    BY <1>5, <1>6, <1>7

(* The pages of a block one after the other.                               *)
PageCollected(e, c) == IF e.result /\ c \in e.bits THEN CollectChunk(e, c) ELSE e

LEMMA CollectingSteps ==
    ASSUME NEW d, NEW b
    PROVE  \E f : /\ \A k \in 0 .. PerBlock :
                        f[k] = IF k = 0 THEN [d EXCEPT !.result = TRUE] ELSE PageCollected(f[k - 1], b * PerBlock + k - 1)
                  /\ GarbageCollectBlock(d, b) = f[PerBlock]
  <1> DEFINE Is(f, m) == f = [k \in 0 .. m |-> IF k = 0 THEN [d EXCEPT !.result = TRUE] ELSE PageCollected(f[k - 1], b * PerBlock + k - 1)]
             M == {m \in 0 .. PerBlock : \E f : Is(f, m)}
  <1>0. PerBlock \in Nat
    BY Sizes
  <1>1. 0 \in M
    <2> DEFINE f == [k \in 0 .. 0 |-> [d EXCEPT !.result = TRUE]]
    <2>1. Is(f, 0)
      OBVIOUS
    <2>2. 0 \in 0 .. PerBlock
      BY <1>0
    <2> HIDE DEF Is, f
    <2> QED
      BY <2>1, <2>2
  <1>2. ASSUME NEW m \in 0 .. PerBlock - 1, m \in M
        PROVE  m + 1 \in M
    <2>1. PICK f : Is(f, m)
      BY <1>2
    <2> DEFINE step(e, k) == PageCollected(e, b * PerBlock + k - 1)
               g == [k \in 0 .. m + 1 |-> IF k = m + 1 THEN step(f[m], m + 1) ELSE f[k]]
    <2>2. \A k \in 0 .. m : f[k] = IF k = 0 THEN [d EXCEPT !.result = TRUE] ELSE step(f[k - 1], k)
      BY <2>1
    <2> HIDE DEF Is
    <2>5. m \in Nat /\ m + 1 \in 0 .. PerBlock
      BY <1>0
    <2>6. g[m] = f[m] /\ g[m + 1] = step(f[m], m + 1) /\ (m + 1) - 1 = m
      BY <2>5
    <2>7. \A k \in 0 .. m : g[k] = f[k] /\ (k # 0 => k - 1 \in 0 .. m)
      BY <2>5
    <2>8. \A k \in 0 .. m + 1 : k = m + 1 \/ k \in 0 .. m
      BY <2>5
    <2>9. m + 1 # 0
      BY <2>5
    <2> HIDE DEF g, step
    <2>3. \A k \in 0 .. m + 1 : g[k] = IF k = 0 THEN [d EXCEPT !.result = TRUE] ELSE step(g[k - 1], k)
      BY <2>2, <2>6, <2>7, <2>8, <2>9
    <2>4. Is(g, m + 1)
      BY <2>3 DEF Is, g, step
    <2> QED
      BY <2>4, <2>5
  <1>3. \A m \in 0 .. PerBlock : m \in M
    <2> HIDE DEF M
    <2> QED
      BY <1>0, <1>1, <1>2, Upwards
  <1>4. \E f : Is(f, PerBlock)
    <2>1. PerBlock \in M
      <3> HIDE DEF M
      <3> QED
        BY <1>0, <1>3
    <2> HIDE DEF Is
    <2> QED
      BY <2>1
  <1> DEFINE f == CHOOSE f : Is(f, PerBlock)
  <1>5. Is(f, PerBlock)
    BY <1>4
  <1>6. GarbageCollectBlock(d, b) = f[PerBlock]
    BY DEF GarbageCollectBlock, PageCollected
  <1>7. \A k \in 0 .. PerBlock : f[k] = IF k = 0 THEN [d EXCEPT !.result = TRUE] ELSE PageCollected(f[k - 1], b * PerBlock + k - 1)
    <2> HIDE DEF f
    <2> QED
      BY <1>5
  <1> QED
    BY <1>6, <1>7

LEMMA BlockIntact ==
    ASSUME NEW d, NEW exact, Intact(d, exact), NEW b
    PROVE  LET e == GarbageCollectBlock(d, b)
           IN  Intact(e, exact) /\ Kept(d, e)
  <1>1. PICK f : /\ \A k \in 0 .. PerBlock :
                        f[k] = IF k = 0 THEN [d EXCEPT !.result = TRUE]
                               ELSE PageCollected(f[k - 1], b * PerBlock + k - 1)
                 /\ GarbageCollectBlock(d, b) = f[PerBlock]
    BY CollectingSteps
  <1> DEFINE Good(e) == Intact(e, exact) /\ Kept(d, e)
             T == {k \in 0 .. PerBlock : Good(f[k])}
  <1>2. PerBlock \in Nat
    BY Sizes
  <1>3. 0 \in T
    <2>0. 0 \in 0 .. PerBlock
      BY <1>2
    <2>1. f[0] = [d EXCEPT !.result = TRUE]
      <3>1. \A k \in 0 .. PerBlock : k = 0 => f[k] = [d EXCEPT !.result = TRUE]
        BY <1>1, Zenon
      <3> QED
        BY <2>0, <3>1
    <2>2. PICK s : s = f[0]
      OBVIOUS
    <2>3. PICK yes : yes = TRUE
      OBVIOUS
    <2>4. s = [d EXCEPT !.result = yes]
      BY <2>1, <2>2, <2>3
    <2>5. Intact(s, exact) /\ s.obj = d.obj
      BY <2>4, ResultIntact
    <2>6. Kept(d, s)
      BY <2>5, KeptSame
    <2> QED
      BY <1>2, <2>2, <2>5, <2>6
  <1>4. ASSUME NEW k \in 0 .. PerBlock - 1, k \in T
        PROVE  k + 1 \in T
    <2>1. k + 1 \in 0 .. PerBlock /\ k + 1 # 0 /\ (k + 1) - 1 = k
      BY <1>2
    <2>2. PICK s : s = f[k]
      OBVIOUS
    <2>3. PICK c : c = b * PerBlock + (k + 1) - 1
      OBVIOUS
    <2>4. PICK t : t = f[k + 1]
      OBVIOUS
    <2>5. t = PageCollected(s, c)
      BY <1>1, <2>1, <2>2, <2>3, <2>4
    <2>6. Intact(s, exact) /\ Kept(d, s)
      BY <1>4, <2>2
    <2>7. CASE t = s
      BY <2>1, <2>4, <2>6, <2>7
    <2>8. CASE c \in s.bits /\ t = CollectChunk(s, c)
      <3>1. Intact(t, exact) /\ Kept(s, t)
        BY <2>6, <2>8, ChunkIntact
      <3>2. Typed(d) /\ Typed(s) /\ Typed(t)
        BY <2>6, <3>1 DEF Intact, Sound
      <3>3. Kept(d, t)
        BY <2>6, <3>1, <3>2, KeptTwice
      <3> QED
        BY <2>1, <2>4, <3>1, <3>3
    <2> QED
      BY <2>5, <2>7, <2>8 DEF PageCollected
  <1>5. PerBlock \in T
    <2> HIDE DEF T
    <2> QED
      BY <1>2, <1>3, <1>4, Upwards
  <1> QED
    BY <1>1, <1>5

LEMMA CheckIntact ==
    ASSUME NEW d, NEW exact, Intact(d, exact)
    PROVE  LET e == CheckGarbageCollection(d)
           IN  Intact(e, exact) /\ Kept(d, e)
  <1>1. PICK f : f = FindDirtiestBlock(d, d.erased <= Reserved + 1)
    OBVIOUS
  <1>2. PICK e : e = CollectDirtiest(f)
    OBVIOUS
  <1>3. Sound(d, 0) /\ Ready(d)
    BY DEF Intact
  <1>4. Sound(f, 0) /\ Same(d, f) /\ Alike(d, f) /\ Ready(f)
    <2>1. PICK aggressive : aggressive = (d.erased <= Reserved + 1)
      OBVIOUS
    <2>2. f = FindDirtiestBlock(d, aggressive)
      BY <1>1, <2>1
    <2> QED
      BY <1>3, <2>2, DirtiestKeeps
  <1>5. Lasts(d, f, {}, {}) /\ f.obj = d.obj /\ f.stale = d.stale
    <2>1. Typed(f)
      BY <1>4 DEF Sound
    <2>2. Lasts(d, f, {}, {})
      BY <1>3, <1>4, <2>1, AlikeKeeps
    <2> QED
      BY <1>4, <2>2 DEF Same
  <1>6. Intact(f, exact) /\ Kept(d, f)
    BY <1>4, <1>5, LastsIntact, KeptSame
  <1>7. CASE e = f
    BY <1>1, <1>2, <1>6, <1>7 DEF CheckGarbageCollection
  <1>8. CASE e = GarbageCollectBlock(f, f.result)
    <2>1. Intact(e, exact) /\ Kept(f, e)
      BY <1>6, <1>8, BlockIntact
    <2>2. Typed(d) /\ Typed(f) /\ Typed(e)
      BY <1>3, <1>4, <2>1 DEF Intact, Sound
    <2>3. Kept(d, e)
      BY <1>6, <2>1, <2>2, KeptTwice
    <2> QED
      BY <1>1, <1>2, <2>1, <2>3 DEF CheckGarbageCollection
  <1> QED
    BY <1>2, <1>7, <1>8 DEF CollectDirtiest

-----------------------------------------------------------------------------
(* Writing a chunk of a file that is there.                                *)
LEMMA PageAfterIs ==
    ASSUME NEW d, Typed(d), NEW i \in Ids, NEW p \in Parts, NEW prev, prev = 0 \/ prev \in Chunks,
           NEW value \in Values, NEW page, page = PageAfter(d, i, p, prev, value)
    PROVE  /\ page \in PageSet /\ Signed(page) /\ page.good /\ page.live /\ page.id = i
           /\ page.part = p /\ page.id # Unused
  <1>1. PICK s : s = IF prev # 0 THEN d.nand[prev].serial + 1 ELSE 1
    OBVIOUS
  <1>2. s \in Int
    <2>1. prev # 0 => d.nand[prev] \in PageSet
      BY DEF Typed, Nand
    <2>2. prev # 0 => d.nand[prev].serial \in 0 .. 3
      BY <2>1 DEF PageSet
    <2> QED
      BY <1>1, <2>2
  <1>3. s % 4 \in 0 .. 3
    BY <1>2
  <1>4. page = Page(i, p, s, value, "none")
    BY <1>1 DEF PageAfter
  <1>5. p # 0 /\ i # Unused
    BY DeviceAssumption
  <1>6. page \in PageSet /\ page.good /\ page.live /\ page.id = i /\ page.part = p
    BY <1>3, <1>4 DEF Page, PageSet, Data, Dirs
  <1> QED
    BY <1>5, <1>6 DEF Signed

(* The chunk that the file had there is deleted.                           *)
LEMMA ReplaceIntact ==
    ASSUME NEW d, NEW exact, Intact(d, exact), NEW i \in Ids, NEW p \in Parts,
           d.obj[i].here, ~d.obj[i].soft,
           NEW prev, prev = 0 \/ (prev \in d.bits /\ d.nand[prev].id = i /\ d.nand[prev].part = p),
           NEW c, d.result = c, c = 0 \/ (c \in d.bits /\ c # prev /\ d.nand[c].id = i
                                         /\ d.nand[c].part = p /\ d.nand[c].live),
           NEW e, e = ReplaceChunk(d, i, p, prev)
    PROVE  Intact(e, exact) /\ Kept(d, e)
  <1>1. Typed(d)
    BY DEF Intact, Sound
  <1>2. prev # 0 => /\ prev \in d.bits /\ prev \in Chunks
                    /\ d.nand[prev].id = i /\ d.nand[prev].part = p
    BY <1>1 DEF Typed
  <1>3. CASE c = 0
    <2>1. PICK no : no = FALSE
      OBVIOUS
    <2>2. e = [d EXCEPT !.result = no]
      BY <1>3, <2>1 DEF ReplaceChunk
    <2>3. Intact(e, exact) /\ e.obj = d.obj
      BY <2>2, ResultIntact
    <2> QED
      BY <2>3, KeptSame
  <1>4. CASE c # 0
    <2>1. PICK f : f = PutChunkIntoFile(d, i, p, c, FALSE)
      OBVIOUS
    <2>2. Intact(f, exact) /\ Kept(d, f) /\ Alike(d, f) /\ OneLeaf(d, f, i, p, c)
      BY <1>4, <2>1, PutIntact
    <2>3. PICK mark \in BOOLEAN : mark = TRUE
      OBVIOUS
    <2>4. PICK g : g = DeleteChunk(f, prev, mark)
      OBVIOUS
    <2>5. PICK yes : yes = TRUE
      OBVIOUS
    <2>6. e = [g EXCEPT !.result = yes]
      BY <1>4, <2>1, <2>3, <2>4, <2>5 DEF ReplaceChunk
    <2>7. f.bits = d.bits /\ f.nand = d.nand /\ Typed(f) /\ f.obj[i].tree[p] = c
      BY <2>2 DEF Alike, Intact, Sound, OneLeaf
    <2>8. ASSUME NEW j \in Ids, prev # 0
          PROVE  f.obj[j].chunk # prev /\ \A q \in Parts : FindChunkInFile(f, j, q) # prev
      <3>1. Header(f, j)
        BY <2>2 DEF Intact, Points
      <3>2. /\ f.nand[prev].id # j \/ f.nand[prev].part # 0 => f.obj[j].chunk # prev
            /\ \A q \in Parts :
                   f.nand[prev].id # j \/ f.nand[prev].part # q \/ ~f.nand[prev].live =>
                       FindChunkInFile(f, j, q) # prev
        BY <1>2, <2>7, <2>8, <3>1, Distinct
      <3>3. f.nand[prev].id = i /\ f.nand[prev].part = p /\ p # 0
        BY <1>2, <2>7, <2>8, DeviceAssumption
      <3>4. FindChunkInFile(f, i, p) # prev
        <4>1. FindChunkInFile(f, i, p) \in {0, c}
          BY <2>7, FindIs
        <4> QED
          BY <1>4, <2>8, <4>1
      <3>5. f.obj[j].chunk # prev
        BY <3>2, <3>3
      <3>6. ASSUME NEW q \in Parts
            PROVE  FindChunkInFile(f, j, q) # prev
        BY <3>2, <3>3, <3>4
      <3> QED
        BY <3>5, <3>6
    <2>9. Intact(g, exact) /\ Same(f, g)
      <3>1. prev = 0 \/ prev \in f.bits
        BY <1>2, <2>7
      <3>2. \A j \in Ids : prev # 0 => f.obj[j].chunk # prev
        BY <2>8
      <3>3. \A j \in Ids : prev # 0 => \A q \in Parts : FindChunkInFile(f, j, q) # prev
        BY <2>8
      <3>4. Intact(f, exact)
        BY <2>2
      <3> QED
        BY <2>4, <3>1, <3>2, <3>3, <3>4, DeleteIntact
    <2>10. Intact(e, exact) /\ e.obj = g.obj
      BY <2>6, <2>9, ResultIntact
    <2>11. e.obj = f.obj
      BY <2>9, <2>10 DEF Same
    <2> QED
      BY <2>2, <2>10, <2>11 DEF Kept
  <1> QED
    BY <1>3, <1>4

LEMMA FileWritten ==
    ASSUME NEW d, NEW exact, Intact(d, exact), NEW i \in Ids, NEW p \in Parts,
           d.obj[i].here, ~d.obj[i].deleted, NEW value \in Values, NEW useReserve
    PROVE  LET e == WriteChunkDataToObject(d, i, p, value, useReserve)
           IN  Intact(e, exact) /\ Kept(d, e)
  <1>1. PICK f : f = CheckGarbageCollection(d)
    OBVIOUS
  <1>2. Intact(f, exact) /\ Kept(d, f)
    BY <1>1, CheckIntact
  <1>3. f.obj[i].here /\ ~f.obj[i].soft
    <2>1. Proper(d.obj[i]) /\ d.obj[i].deleted \in BOOLEAN
      BY ObjectIs DEF Intact, Sound, Object
    <2>2. f.obj[i].here /\ f.obj[i].soft = d.obj[i].soft
      BY <1>2 DEF Kept
    <2> QED
      BY <2>1, <2>2 DEF Proper
  <1>4. PICK prev : prev = FindChunkInFile(f, i, p)
    OBVIOUS
  <1>5. PICK page : page = PageAfter(f, i, p, prev, value)
    OBVIOUS
  <1>6. PICK g : g = WriteNewChunk(f, page, useReserve)
    OBVIOUS
  <1>7. PICK e : e = ReplaceChunk(g, i, p, prev)
    OBVIOUS
  <1>8. e = WriteChunkDataToObject(d, i, p, value, useReserve)
    BY <1>1, <1>3, <1>4, <1>5, <1>6, <1>7 DEF WriteChunkDataToObject, WriteCollected, RewriteChunk
  <1>9. Typed(f) /\ Typed(d) /\ prev \in {0} \cup Chunks
    <2>1. Typed(f) /\ Typed(d)
      BY <1>2 DEF Intact, Sound
    <2> QED
      BY <1>4, <2>1, FindIs
  <1>10. /\ page \in PageSet /\ Signed(page) /\ page.good /\ page.live /\ page.id = i
         /\ page.part = p /\ page.id # Unused
    BY <1>5, <1>9, PageAfterIs
  <1>11. Intact(g, exact) /\ Answer(f, g, page) /\ Untouched(f, g)
    BY <1>2, <1>6, <1>10, WriteIntact
  <1>12. /\ g.obj = f.obj /\ f.bits \subseteq g.bits
         /\ \A x \in f.bits : g.nand[x] = f.nand[x]
    BY <1>11 DEF Untouched
  <1>13. prev # 0 => prev \in f.bits
    BY <1>2, <1>4 DEF Intact, Points, Leaf, FindChunkInFile
  <1>14. prev = 0 \/ (prev \in g.bits /\ g.nand[prev].id = i /\ g.nand[prev].part = p)
    <2>1. prev # 0 => f.nand[prev].id = i /\ f.nand[prev].part = p
      BY <1>4 DEF FindChunkInFile
    <2> QED
      BY <1>12, <1>13, <2>1
  <1>15. PICK c : c = g.result
    OBVIOUS
  <1>16. c = 0 \/ (c \in g.bits /\ c # prev /\ g.nand[c].id = i /\ g.nand[c].part = p
                  /\ g.nand[c].live)
    BY <1>10, <1>11, <1>13, <1>15, ChunksAre DEF Answer
  <1>17. Intact(e, exact) /\ Kept(g, e)
    BY <1>3, <1>7, <1>11, <1>12, <1>14, <1>15, <1>16, ReplaceIntact
  <1>18. Kept(f, e)
    BY <1>12, <1>17 DEF Kept
  <1>19. Kept(d, e)
    <2>1. Typed(e)
      BY <1>17 DEF Intact, Sound
    <2> QED
      BY <1>2, <1>9, <1>18, <2>1, KeptTwice
  <1> QED
    BY <1>8, <1>17, <1>19

-----------------------------------------------------------------------------
(* Writing the header of an object that is there.                          *)
LEMMA SameFileIntact ==
    ASSUME NEW d, NEW exact, Intact(d, exact), NEW i \in Ids, NEW r \in Object,
           d.obj[i].here, SameFile(d.obj[i], r), r.n = d.obj[i].n
    PROVE  LET e == With(d, i, r)
           IN  /\ Intact(e, exact) /\ Kept(d, e) /\ Alike(d, e) /\ e.stale = d.stale
               /\ \A j \in Ids : e.obj[j] = IF j = i THEN r ELSE d.obj[j]
  <1>1. UsedParts(r) = UsedParts(d.obj[i])
    BY DEF SameFile, UsedParts
  <1>2. Proper(r)
    BY <1>1 DEF Intact, Proper, SameFile
  <1>3. exact => Exact(r)
    BY <1>1 DEF Intact, Exact, SameFile
  <1> QED
    BY <1>2, <1>3, FileIntact

Serialed(o, s) == [o EXCEPT !.serial = s]
Cleaned(o) == [o EXCEPT !.dirty = FALSE]

LEMMA SerialedIs ==
    ASSUME NEW o \in Object, NEW s \in 0 .. 3, NEW r, r = Serialed(o, s)
    PROVE  r \in Object /\ SameFile(o, r) /\ r.n = o.n /\ r.serial = s
  BY DEF Serialed, Object, SameFile

LEMMA CleanedIs ==
    ASSUME NEW o \in Object, NEW r, r = Cleaned(o)
    PROVE  r \in Object /\ SameFile(o, r) /\ r.n = o.n
  BY DEF Cleaned, Object, SameFile

LEMMA HeaderPageIs ==
    ASSUME NEW i \in Ids, NEW serial \in 0 .. 3, NEW kept \in Data,
           NEW dir \in {"root", "unlinked"}, NEW page, page = Page(i, 0, serial, kept, dir)
    PROVE  /\ page \in PageSet /\ Signed(page) /\ page.good /\ page.live /\ page.id = i
           /\ page.part = 0 /\ page.id # Unused
  <1>1. serial % 4 \in 0 .. 3 /\ i # Unused
    BY DeviceAssumption
  <1>2. page \in PageSet /\ page.good /\ page.live /\ page.id = i /\ page.part = 0 /\ page.dir = dir
    BY <1>1 DEF Page, PageSet, Dirs
  <1> QED
    BY <1>1, <1>2 DEF Signed

(* The header that the object had is deleted.                              *)
LEMMA ReplaceHeaderIntact ==
    ASSUME NEW d, NEW exact, Intact(d, exact), NEW i \in Ids, d.obj[i].here,
           NEW prev, prev = d.obj[i].chunk,
           NEW c, d.result = c, c = 0 \/ (c \in d.bits /\ c # prev /\ d.nand[c].id = i
                                         /\ d.nand[c].part = 0 /\ d.nand[c].live),
           NEW e, e = ReplaceHeader(d, i, prev)
    PROVE  /\ Intact(e, exact) /\ Kept(d, e) /\ e.result \in BOOLEAN
           /\ e.result => e.obj[i].chunk # 0
  <1>1. Typed(d) /\ d.obj[i] \in Object
    BY ObjectIs DEF Intact, Sound
  <1>2. prev # 0 => prev \in d.bits /\ prev \in Chunks /\ d.nand[prev].id = i /\ d.nand[prev].part = 0
    BY <1>1 DEF Intact, Points, Header, Typed
  <1>3. CASE c = 0
    <2>1. PICK no \in BOOLEAN : no = FALSE
      OBVIOUS
    <2>2. e = [d EXCEPT !.result = no]
      BY <1>3, <2>1 DEF ReplaceHeader
    <2>3. Intact(e, exact) /\ e.obj = d.obj /\ e.result = no
      BY <2>2, ResultIntact
    <2> QED
      BY <2>1, <2>3, KeptSame
  <1>4. CASE c # 0
    <2>1. PICK s : s = d.obj[i].serial
      OBVIOUS
    <2>2. s \in 0 .. 3
      BY <1>1, <2>1 DEF Object
    <2>3. PICK f : f = With(d, i, Headed(d.obj[i], c, s))
      OBVIOUS
    <2>4. /\ Intact(f, exact) /\ Kept(d, f) /\ Alike(d, f) /\ f.obj[i].chunk = c
          /\ f.obj[i].here
      <3>1. /\ c \in d.bits /\ d.nand[c].id = i /\ d.nand[c].part = 0
            /\ d.stale \/ d.nand[c].live
        BY <1>4
      <3>2. /\ Intact(f, exact) /\ Kept(d, f) /\ Alike(d, f) /\ f.obj[i].chunk = c
        BY <2>2, <2>3, <3>1, HeaderIntact
      <3>3. f.obj[i].here
        <4>1. Headed(d.obj[i], c, s).here
          BY <1>1, <2>1 DEF Headed, Object
        <4>2. f.obj[i] = Headed(d.obj[i], c, s)
          BY <1>1, <2>3, WithTwice
        <4> QED
          BY <4>1, <4>2
      <3> QED
        BY <3>2, <3>3
    <2>5. f = [d EXCEPT !.obj[i].chunk = c]
      <3>1. Headed(d.obj[i], c, s) = [d.obj[i] EXCEPT !.chunk = c]
        BY <1>1, <2>1 DEF Headed, Object
      <3> QED
        BY <2>3, <3>1 DEF With
    <2>6. PICK mark \in BOOLEAN : mark = TRUE
      OBVIOUS
    <2>7. PICK g : g = DeleteChunk(f, prev, mark)
      OBVIOUS
    <2>8. f.bits = d.bits /\ f.nand = d.nand /\ Typed(f)
      BY <2>4 DEF Alike, Intact, Sound
    <2>9. ASSUME NEW j \in Ids, prev # 0
          PROVE  f.obj[j].chunk # prev /\ \A q \in Parts : FindChunkInFile(f, j, q) # prev
      <3>1. Header(f, j)
        BY <2>4 DEF Intact, Points
      <3>2. /\ f.nand[prev].id # j \/ f.nand[prev].part # 0 => f.obj[j].chunk # prev
            /\ \A q \in Parts :
                   f.nand[prev].id # j \/ f.nand[prev].part # q \/ ~f.nand[prev].live =>
                       FindChunkInFile(f, j, q) # prev
        BY <1>2, <2>8, <2>9, <3>1, Distinct
      <3>3. f.nand[prev].id = i /\ f.nand[prev].part = 0 /\ 0 \notin Parts
        BY <1>2, <2>8, <2>9, DeviceAssumption
      <3>4. f.obj[j].chunk # prev
        BY <1>4, <2>4, <3>2, <3>3
      <3> QED
        BY <3>2, <3>3, <3>4
    <2>10. Intact(g, exact) /\ Same(f, g)
      <3>1. prev = 0 \/ prev \in f.bits
        BY <1>2, <2>8
      <3>2. \A j \in Ids : prev # 0 => f.obj[j].chunk # prev
        BY <2>9
      <3>3. \A j \in Ids : prev # 0 => \A q \in Parts : FindChunkInFile(f, j, q) # prev
        BY <2>9
      <3>4. Intact(f, exact)
        BY <2>4
      <3> QED
        BY <2>7, <3>1, <3>2, <3>3, <3>4, DeleteIntact
    <2>11. g.obj = f.obj /\ Typed(g)
      BY <2>10 DEF Same, Intact, Sound
    <2>12. PICK r : r = Cleaned(g.obj[i])
      OBVIOUS
    <2>13. r \in Object /\ SameFile(g.obj[i], r) /\ r.n = g.obj[i].n
      BY <2>11, <2>12, ObjectIs, CleanedIs
    <2>14. PICK h : h = With(g, i, r)
      OBVIOUS
    <2>15. /\ Intact(h, exact) /\ Kept(g, h)
           /\ \A j \in Ids : h.obj[j] = IF j = i THEN r ELSE g.obj[j]
      <3>1. g.obj[i].here /\ Intact(g, exact)
        BY <2>4, <2>10, <2>11
      <3> QED
        BY <2>13, <2>14, <3>1, SameFileIntact
    <2>16. PICK yes \in BOOLEAN : yes = TRUE
      OBVIOUS
    <2>17. e = [h EXCEPT !.result = yes]
      <3>1. e = [DeleteChunk(f, prev, TRUE) EXCEPT !.obj[i].dirty = FALSE, !.result = TRUE]
        BY <1>4, <2>5 DEF ReplaceHeader
      <3>2. e = [g EXCEPT !.obj[i].dirty = FALSE, !.result = yes]
        BY <2>6, <2>7, <2>16, <3>1
      <3>3. h = [g EXCEPT !.obj[i].dirty = FALSE]
        BY <2>12, <2>14 DEF With, Cleaned
      <3> QED
        BY <3>2, <3>3
    <2>18. Intact(e, exact) /\ e.obj = h.obj /\ e.result = yes
      BY <2>15, <2>17, ResultIntact
    <2>19. e.obj[i].chunk # 0
      <3>1. e.obj[i].chunk = g.obj[i].chunk
        BY <2>13, <2>15, <2>18 DEF SameFile
      <3> QED
        BY <1>4, <2>4, <2>11, <3>1
    <2>20. Kept(d, h)
      <3>1. Kept(f, h)
        BY <2>11, <2>15 DEF Kept
      <3>2. Typed(h)
        BY <2>15 DEF Intact, Sound
      <3> QED
        BY <1>1, <2>4, <2>8, <3>1, <3>2, KeptTwice
    <2> QED
      BY <2>16, <2>18, <2>19, <2>20 DEF Kept
  <1> QED
    BY <1>3, <1>4

LEMMA HeaderWritten ==
    ASSUME NEW d, NEW exact, Intact(d, exact), NEW i \in Ids, d.obj[i].here, ~d.obj[i].deleted,
           d.obj[i].dir \in {"root", "unlinked"}, NEW name \in Names \cup {"none"},
           name = "none" => d.obj[i].chunk # 0
    PROVE  LET e == UpdateObjectHeader(d, i, name)
           IN  /\ Intact(e, exact) /\ Kept(d, e) /\ e.result \in BOOLEAN
               /\ e.result => e.obj[i].chunk # 0
  <1>1. PICK f : f = CheckGarbageCollection(d)
    OBVIOUS
  <1>2. Intact(f, exact) /\ Kept(d, f)
    BY <1>1, CheckIntact
  <1>3. f.obj[i].here /\ f.obj[i].dir = d.obj[i].dir /\ (d.obj[i].chunk # 0 => f.obj[i].chunk # 0)
    BY <1>2 DEF Kept
  <1>4. Typed(f) /\ Typed(d) /\ f.obj[i] \in Object
    BY <1>2, ObjectIs DEF Intact, Sound
  <1>5. PICK prev : prev = f.obj[i].chunk
    OBVIOUS
  <1>6. PICK kept : kept = IF name # "none" THEN name ELSE f.nand[prev].data
    OBVIOUS
  <1>7. PICK serial : serial = (f.obj[i].serial + 1) % 4
    OBVIOUS
  <1>8. PICK h : h = ReadData(f, prev)
    OBVIOUS
  <1>9. PICK r : r = [h EXCEPT !.obj[i].serial = serial]
    OBVIOUS
  <1>10. PICK page : page = Page(i, 0, serial, kept, f.obj[i].dir)
    OBVIOUS
  <1>11. PICK g : g = WriteNewChunk(r, page, prev > 0)
    OBVIOUS
  <1>12. PICK e : e = ReplaceHeader(g, i, prev)
    OBVIOUS
  <1>13. e = UpdateObjectHeader(d, i, name)
    BY <1>1, <1>3, <1>5, <1>6, <1>7, <1>8, <1>9, <1>10, <1>11, <1>12 DEF UpdateObjectHeader, WriteHeader
  <1>14. serial \in 0 .. 3
    <2>1. f.obj[i].serial \in 0 .. 3
      BY <1>4 DEF Object
    <2> QED
      BY <1>7, <2>1
  <1>15. kept \in Data
    <2>1. CASE name = "none"
      <3>1. prev # 0 /\ prev \in Chunks
        BY <1>3, <1>4, <1>5, <2>1, ObjectIs
      <3>2. f.nand[prev] \in PageSet
        BY <1>4, <3>1 DEF Typed, Nand
      <3> QED
        BY <1>6, <2>1, <3>2 DEF PageSet
    <2>2. CASE name # "none"
      BY <1>6, <2>2 DEF Data
    <2> QED
      BY <2>1, <2>2
  <1>16. /\ page \in PageSet /\ Signed(page) /\ page.good /\ page.live /\ page.id = i
         /\ page.part = 0 /\ page.id # Unused
    <2>1. PICK dir \in {"root", "unlinked"} : dir = f.obj[i].dir
      BY <1>3
    <2>2. page = Page(i, 0, serial, kept, dir)
      BY <1>10, <2>1
    <2> QED
      BY <1>14, <1>15, <2>2, HeaderPageIs
  <1>17. Intact(h, exact) /\ Untouched(f, h)
    BY <1>2, <1>8, ReadIntact
  <1>18. h.obj = f.obj /\ Typed(h) /\ f.bits \subseteq h.bits
    BY <1>17 DEF Untouched, Intact, Sound
  <1>19. PICK o : o = Serialed(h.obj[i], serial)
    OBVIOUS
  <1>20. o \in Object /\ SameFile(h.obj[i], o) /\ o.n = h.obj[i].n
    BY <1>4, <1>14, <1>18, <1>19, SerialedIs
  <1>21. r = With(h, i, o)
    BY <1>9, <1>19 DEF With, Serialed
  <1>22. /\ Intact(r, exact) /\ Kept(h, r) /\ Alike(h, r)
         /\ \A j \in Ids : r.obj[j] = IF j = i THEN o ELSE h.obj[j]
    <2>1. h.obj[i].here /\ Intact(h, exact)
      BY <1>3, <1>17, <1>18
    <2> QED
      BY <1>20, <1>21, <2>1, SameFileIntact
  <1>23. r.obj[i].chunk = prev /\ r.obj[i].here /\ r.bits = h.bits
    BY <1>3, <1>5, <1>18, <1>20, <1>22 DEF SameFile, Alike
  <1>24. Intact(g, exact) /\ Answer(r, g, page) /\ Untouched(r, g)
    <2>1. PICK useReserve : useReserve = (prev > 0)
      OBVIOUS
    <2>2. g = WriteNewChunk(r, page, useReserve)
      BY <1>11, <2>1
    <2> QED
      BY <1>16, <1>22, <2>2, WriteIntact
  <1>25. g.obj = r.obj
    BY <1>24 DEF Untouched
  <1>26. prev # 0 => prev \in r.bits
    BY <1>22, <1>23 DEF Intact, Points, Header
  <1>27. PICK c : c = g.result
    OBVIOUS
  <1>28. c = 0 \/ (c \in g.bits /\ c # prev /\ g.nand[c].id = i /\ g.nand[c].part = 0
                  /\ g.nand[c].live)
    BY <1>16, <1>24, <1>26, <1>27, ChunksAre DEF Answer
  <1>29. /\ Intact(e, exact) /\ Kept(g, e) /\ e.result \in BOOLEAN
         /\ e.result => e.obj[i].chunk # 0
    <2>1. g.obj[i].here /\ prev = g.obj[i].chunk
      BY <1>23, <1>25
    <2> QED
      BY <1>12, <1>24, <1>27, <1>28, <2>1, ReplaceHeaderIntact
  <1>30. Kept(d, e)
    <2>1. Typed(r) /\ Typed(e)
      BY <1>22, <1>29 DEF Intact, Sound
    <2>2. Kept(f, r)
      BY <1>18, <1>22 DEF Kept
    <2>3. Kept(r, e)
      BY <1>25, <1>29 DEF Kept
    <2>4. Kept(d, r)
      BY <1>2, <1>4, <2>1, <2>2, KeptTwice
    <2> QED
      BY <1>4, <2>1, <2>3, <2>4, KeptTwice
  <1> QED
    BY <1>13, <1>29, <1>30

-----------------------------------------------------------------------------
(* Deleting a file: its chunks are counted as soft deleted in their blocks. *)
SoftAdded(d, k) == [b \in Blocks |-> [d.info[b] EXCEPT !.soft = @ + k[b]]]

LEMMA SoftKeeps ==
    ASSUME NEW d, Sound(d, 0), Ready(d), NEW k, \A b \in Blocks : k[b] \in Nat,
           NEW e, e = [d EXCEPT !.info = SoftAdded(d, k)]
    PROVE  /\ Sound(e, 0) /\ Ready(e) /\ Lasts(d, e, {}, {}) /\ e.obj = d.obj /\ e.stale = d.stale
           /\ e.luck = d.luck
  <1>1. Typed(d) /\ d.info \in [Blocks -> Info]
    BY DEF Sound, Typed
  <1> DEFINE info == SoftAdded(d, k)
  <1>2. ASSUME NEW b \in Blocks
        PROVE  /\ info[b] \in Info /\ info[b].state = d.info[b].state
               /\ info[b].inUse = d.info[b].inUse
    <2>1. PICK n \in Int : n = d.info[b].soft + k[b]
      BY <1>1 DEF Info
    <2>2. info[b] = [d.info[b] EXCEPT !.soft = n]
      BY <2>1 DEF SoftAdded
    <2> HIDE DEF info
    <2> QED
      BY <1>1, <2>2 DEF Info
  <1>3. info \in [Blocks -> Info]
    BY <1>2 DEF SoftAdded
  <1>4. e = [d EXCEPT !.info = info]
    OBVIOUS
  <1> HIDE DEF info
  <1>5. /\ e.obj = d.obj /\ e.luck = d.luck /\ e.stale = d.stale /\ e.nand = d.nand
        /\ e.images = d.images /\ e.info = info /\ e.bits = d.bits
        /\ e.erased = d.erased /\ e.ablock = d.ablock /\ e.result = d.result
        /\ e.apage = d.apage /\ e.finder = d.finder /\ e.checker = d.checker
    BY <1>1, <1>4 DEF Typed
  <1>6. Typed(e)
    <2>1. e = [d EXCEPT !.info = e.info]
      BY <1>4, <1>5
    <2> QED
      BY <1>1, <1>3, <1>5, <2>1 DEF Typed
  <1>7. \A b \in Blocks : Stated(e, b, 0) /\ Counted(e, b)
    BY <1>2, <1>5 DEF Sound, Stated, Counted, UsedIn
  <1>8. EmptyBlocks(e) = EmptyBlocks(d)
    BY <1>2, <1>5 DEF EmptyBlocks
  <1>9. Sound(e, 0)
    BY <1>5, <1>6, <1>7, <1>8 DEF Sound
  <1>10. Ready(e) /\ Lasts(d, e, {}, {})
    BY <1>2, <1>5 DEF Ready, Lasts
  <1> QED
    BY <1>5, <1>9, <1>10

NoLeaves == [p \in Parts |-> 0]
Softened(o) == [o EXCEPT !.tree = NoLeaves, !.soft = TRUE]

LEMMA SoftenedIs ==
    ASSUME NEW o \in Object, NEW r, r = Softened(o)
    PROVE  /\ r \in Object /\ r.here = o.here /\ r.deleted = o.deleted /\ r.soft
           /\ r.dir = o.dir /\ r.chunk = o.chunk /\ \A p \in Parts : r.tree[p] = 0
  <1>1. NoLeaves \in [Parts -> {0} \cup Chunks] /\ \A p \in Parts : NoLeaves[p] = 0
    BY DEF NoLeaves
  <1> QED
    BY <1>1 DEF Softened, Object

LEMMA SoftPoints ==
    ASSUME NEW d, NEW i \in Ids, Sound(d, 0), Ready(d), Header(d, i), d.obj[i].here,
           \A j \in Ids : j # i => Points(d, j), d.obj[i].deleted, ~d.obj[i].soft,
           d.obj[i].dir = "unlinked"
    PROVE  LET e == SoftDeleteFile(d, i)
           IN  /\ Sound(e, 0) /\ Ready(e) /\ \A j \in Ids : Points(e, j)
               /\ Proper(e.obj[i]) /\ Exact(e.obj[i])
               /\ e.obj[i].here => e.obj[i].chunk = d.obj[i].chunk
               /\ \A j \in Ids : j # i => e.obj[j] = d.obj[j]
               /\ e.stale = d.stale
  <1>a. PICK e : e = SoftDeleteFile(d, i)
    OBVIOUS
  <1>1. Typed(d) /\ d.obj[i] \in Object
    BY ObjectIs DEF Sound
  <1>2. CASE d.obj[i].n <= 0
    <2>1. e = DoGenericObjectDeletion(d, i)
      BY <1>a, <1>2 DEF SoftDeleteFile
    <2>2. /\ Sound(e, 0) /\ Ready(e) /\ \A j \in Ids : Points(e, j)
          /\ e.obj[i] = NoObject /\ \A j \in Ids : j # i => e.obj[j] = d.obj[j]
          /\ e.stale = d.stale
      <3>1. GoneOf(d, e, i)
        BY <2>1, GonePoints
      <3> QED
        BY <3>1 DEF GoneOf
    <2> QED
      BY <1>a, <2>2, NoObjectIs
  <1>3. CASE ~(d.obj[i].n <= 0)
    <2> DEFINE softIn(b) == Cardinality({p \in Parts : /\ d.obj[i].tree[p] # 0
                                                      /\ BlockOf(d.obj[i].tree[p]) = b})
    <2>1. PICK k : k = [b \in Blocks |-> softIn(b)]
      OBVIOUS
    <2>2. ASSUME NEW b \in Blocks
          PROVE  k[b] \in Nat /\ k[b] = softIn(b)
      <3>1. /\ IsFiniteSet(Parts)
            /\ {p \in Parts : d.obj[i].tree[p] # 0 /\ BlockOf(d.obj[i].tree[p]) = b} \subseteq Parts
        BY DeviceAssumption
      <3> QED
        BY <2>1, <3>1, FS_Subset, FS_CardinalityType
    <2>3. PICK f : f = [d EXCEPT !.info = SoftAdded(d, k)]
      OBVIOUS
    <2>4. /\ Sound(f, 0) /\ Ready(f) /\ Lasts(d, f, {}, {}) /\ f.obj = d.obj
          /\ f.stale = d.stale /\ f.luck = d.luck
      <3>1. \A b \in Blocks : k[b] \in Nat
        BY <2>2
      <3> HIDE DEF softIn
      <3> QED
        BY <2>3, <3>1, SoftKeeps
    <2>5. PICK r : r = Softened(f.obj[i])
      OBVIOUS
    <2>6. /\ r \in Object /\ r.here /\ r.deleted /\ r.soft /\ r.dir = "unlinked"
          /\ r.chunk = d.obj[i].chunk /\ \A p \in Parts : r.tree[p] = 0
      BY <1>1, <2>4, <2>5, SoftenedIs
    <2>7. e = With(f, i, r)
      <3>1. e = [d EXCEPT !.info = [b \in Blocks |-> [d.info[b] EXCEPT !.soft = @ + softIn(b)]],
                          !.obj[i].tree = NoLeaves, !.obj[i].soft = TRUE]
        BY <1>a, <1>3 DEF SoftDeleteFile, NoLeaves
      <3>2. [b \in Blocks |-> [d.info[b] EXCEPT !.soft = @ + softIn(b)]] = SoftAdded(d, k)
        BY <2>2 DEF SoftAdded
      <3> HIDE DEF softIn
      <3>3. PICK info : info = SoftAdded(d, k)
        OBVIOUS
      <3>4. e = [d EXCEPT !.info = info, !.obj[i].tree = NoLeaves, !.obj[i].soft = TRUE]
        BY <3>1, <3>2, <3>3
      <3>5. f = [d EXCEPT !.info = info]
        BY <2>3, <3>3
      <3> QED
        BY <1>1, <2>5, <3>4, <3>5 DEF With, Softened, Typed
    <2>8. /\ Sound(e, 0) /\ Alike(f, e) /\ Ready(e) /\ e.obj[i] = r
          /\ \A j \in Ids : j # i => e.obj[j] = f.obj[j]
          /\ e.luck = f.luck /\ e.stale = f.stale
      BY <2>4, <2>6, <2>7, WithKeeps
    <2>9. e.nand = f.nand /\ e.bits = f.bits
      BY <2>8 DEF Alike
    <2>10. \A j \in Ids : Header(d, j)
      BY DEF Points
    <2>11. PICK U : U = {}
      OBVIOUS
    <2>12. Lasts(d, f, U, U) /\ Typed(f)
      BY <2>4, <2>11 DEF Sound
    <2>13. ASSUME NEW j \in Ids
           PROVE  Header(f, j)
      <3>1. f.obj[j].chunk = d.obj[j].chunk /\ d.obj[j].chunk \notin U /\ (d.stale => f.stale)
        BY <2>4, <2>11
      <3> QED
        BY <2>10, <2>12, <3>1, HeadLasts
    <2>14. ASSUME NEW j \in Ids, j # i
           PROVE  Points(e, j)
      <3>1. ASSUME NEW p \in Parts
            PROVE  Leaf(f, j, p)
        <4>1. Leaf(d, j, p)
          BY <2>14 DEF Points
        <4>2. f.obj[j].tree[p] = d.obj[j].tree[p] /\ d.obj[j].tree[p] \notin U /\ (d.stale => f.stale)
          BY <2>4, <2>11
        <4> QED
          BY <1>1, <2>12, <4>1, <4>2, LeafLasts
      <3>2. Points(f, j)
        BY <2>13, <3>1 DEF Points
      <3> QED
        BY <2>8, <2>14, <3>2, AlikePoints
    <2>15. Points(e, i)
      <3>1. Header(e, i)
        BY <2>4, <2>6, <2>8, <2>9, <2>13 DEF Header
      <3>2. \A p \in Parts : Leaf(e, i, p)
        BY <2>6, <2>8, NoneLeaf
      <3> QED
        BY <3>1, <3>2 DEF Points
    <2>16. Proper(r) /\ Exact(r)
      BY <2>6 DEF Proper, Exact, UsedParts
    <2> QED
      BY <1>a, <2>4, <2>6, <2>8, <2>14, <2>15, <2>16
  <1> QED
    BY <1>2, <1>3

-----------------------------------------------------------------------------
(* The calls.  An object that somebody has named has a header.             *)
Named(d) == \A i \in Ids : d.obj[i].here /\ d.obj[i].dir # "lost+found" => d.obj[i].chunk # 0

NamedBut(d, i) ==
    \A j \in Ids : j # i /\ d.obj[j].here /\ d.obj[j].dir # "lost+found" => d.obj[j].chunk # 0

LEMMA KeptNamed ==
    ASSUME NEW d, NEW e, Kept(d, e)
    PROVE  /\ Named(d) => Named(e)
           /\ \A i \in Ids : NamedBut(d, i) => NamedBut(e, i)
  <1>1. ASSUME NEW j \in Ids, e.obj[j].here
        PROVE  /\ d.obj[j].here /\ e.obj[j].dir = d.obj[j].dir
               /\ d.obj[j].chunk # 0 => e.obj[j].chunk # 0
    BY <1>1 DEF Kept
  <1> QED
    BY <1>1 DEF Named, NamedBut

LEMMA WithPoints ==
    ASSUME NEW d, Sound(d, 0), Ready(d), \A j \in Ids : Points(d, j), NEW i \in Ids,
           NEW r \in Object, r.chunk = d.obj[i].chunk, r.tree = d.obj[i].tree
    PROVE  LET e == With(d, i, r)
           IN  /\ Sound(e, 0) /\ Ready(e) /\ \A j \in Ids : Points(e, j)
               /\ e.obj[i] = r /\ \A j \in Ids : j # i => e.obj[j] = d.obj[j]
               /\ e.stale = d.stale /\ e.nand = d.nand /\ e.bits = d.bits
  <1>1. PICK e : e = With(d, i, r)
    OBVIOUS
  <1>2. /\ Sound(e, 0) /\ Alike(d, e) /\ Ready(e) /\ e.obj[i] = r
        /\ \A j \in Ids : j # i => e.obj[j] = d.obj[j]
        /\ e.stale = d.stale
    BY <1>1, WithKeeps
  <1>3. e.nand = d.nand /\ e.bits = d.bits
    BY <1>2 DEF Alike
  <1>4. ASSUME NEW j \in Ids
        PROVE  Points(e, j)
    <2>1. e.obj[j].chunk = d.obj[j].chunk /\ e.obj[j].tree = d.obj[j].tree
      BY <1>2
    <2>2. Header(e, j)
      BY <1>2, <1>3, <2>1 DEF Points, Header
    <2>3. ASSUME NEW p \in Parts
          PROVE  Leaf(e, j, p)
      <3>1. FindChunkInFile(e, j, p) = FindChunkInFile(d, j, p)
        BY <1>3, <2>1 DEF FindChunkInFile
      <3> QED
        BY <1>2, <1>3, <2>1, <3>1 DEF Points, Leaf
    <2> QED
      BY <2>2, <2>3 DEF Points
  <1> QED
    BY <1>1, <1>2, <1>3, <1>4

LEMMA WithIntact ==
    ASSUME NEW d, NEW exact, Intact(d, exact), NEW i \in Ids, NEW r \in Object,
           r.chunk = d.obj[i].chunk, r.tree = d.obj[i].tree, Proper(r), exact => Exact(r)
    PROVE  LET e == With(d, i, r)
           IN  /\ Intact(e, exact) /\ e.obj[i] = r
               /\ \A j \in Ids : j # i => e.obj[j] = d.obj[j]
  <1>1. PICK e : e = With(d, i, r)
    OBVIOUS
  <1>2. Sound(d, 0) /\ Ready(d) /\ \A j \in Ids : Points(d, j)
    BY DEF Intact
  <1>3. /\ Sound(e, 0) /\ Ready(e) /\ \A j \in Ids : Points(e, j)
        /\ e.obj[i] = r /\ \A j \in Ids : j # i => e.obj[j] = d.obj[j]
    BY <1>1, <1>2, WithPoints
  <1>4. ASSUME NEW j \in Ids
        PROVE  Proper(e.obj[j]) /\ (exact => Exact(e.obj[j]))
    <2>1. CASE j = i
      BY <1>3, <2>1
    <2>2. CASE j # i
      <3>1. e.obj[j] = d.obj[j]
        BY <1>3, <2>2
      <3> QED
        BY <3>1 DEF Intact
    <2> QED
      BY <2>1, <2>2
  <1> QED
    BY <1>1, <1>3, <1>4 DEF Intact

(* Writing a chunk.                                                        *)
Longer(o, size) == [o EXCEPT !.dirty = TRUE, !.size = size]

LEMMA LongerIs ==
    ASSUME NEW o \in Object, NEW size \in {0} \cup Parts, NEW r, r = Longer(o, size)
    PROVE  r \in Object /\ SameFile(o, r) /\ r.n = o.n
  BY DEF Longer, Object, SameFile

LEMMA WriteCall ==
    ASSUME NEW d, NEW exact, Intact(d, exact), Named(d), NEW i \in Ids, NEW p \in Parts,
           d.obj[i].here, ~d.obj[i].deleted, NEW value \in Values
    PROVE  LET e == WriteDataToFile(d, i, p, value)
           IN  Intact(e, exact) /\ Named(e)
  <1>1. PICK useReserve : useReserve = FALSE
    OBVIOUS
  <1>2. PICK f : f = WriteChunkDataToObject(d, i, p, value, useReserve)
    OBVIOUS
  <1>3. Intact(f, exact) /\ Kept(d, f)
    BY <1>2, FileWritten
  <1>4. Typed(f) /\ f.obj[i] \in Object /\ f.obj[i].here
    BY <1>3, ObjectIs DEF Intact, Sound, Kept
  <1>5. PICK size : size = IF f.result THEN Max({f.obj[i].size, p}) ELSE f.obj[i].size
    OBVIOUS
  <1>6. size \in {0} \cup Parts
    <2>1. f.obj[i].size \in {0} \cup Parts /\ Parts \subseteq Nat
      BY <1>4, DeviceAssumption DEF Object
    <2>4. \A x \in {0} \cup Parts : x \in Int
      BY <2>1
    <2>2. f.obj[i].size \in Int /\ p \in Int
      BY <2>1, <2>4
    <2>3. Max({f.obj[i].size, p}) = IF f.obj[i].size < p THEN p ELSE f.obj[i].size
      BY <2>2, LargerIs
    <2> QED
      BY <1>5, <2>1, <2>3
  <1>7. PICK r : r = Longer(f.obj[i], size)
    OBVIOUS
  <1>8. r \in Object /\ SameFile(f.obj[i], r) /\ r.n = f.obj[i].n
    BY <1>4, <1>6, <1>7, LongerIs
  <1>9. PICK e : e = With(f, i, r)
    OBVIOUS
  <1>10. Intact(e, exact) /\ Kept(f, e)
    BY <1>3, <1>4, <1>8, <1>9, SameFileIntact
  <1>11. e = WriteDataToFile(d, i, p, value)
    <2>1. e = Grown(f, i, p)
      BY <1>5, <1>7, <1>9 DEF Grown, With, Longer
    <2> QED
      BY <1>1, <1>2, <2>1 DEF WriteDataToFile
  <1> QED
    BY <1>3, <1>10, <1>11, KeptNamed

LEMMA FlushCall ==
    ASSUME NEW d, NEW exact, Intact(d, exact), Named(d), NEW i \in Ids,
           d.obj[i].here, ~d.obj[i].deleted, d.obj[i].dir = "root"
    PROVE  LET e == FlushFile(d, i)
           IN  Intact(e, exact) /\ Named(e)
  <1>1. PICK name \in Names \cup {"none"} : name = "none"
    OBVIOUS
  <1>2. PICK f : f = UpdateObjectHeader(d, i, name)
    OBVIOUS
  <1>3. d.obj[i].chunk # 0 /\ d.obj[i].dir \in {"root", "unlinked"}
    BY DEF Named
  <1>4. Intact(f, exact) /\ Kept(d, f)
    BY <1>2, <1>3, HeaderWritten
  <1> QED
    BY <1>1, <1>2, <1>4, KeptNamed DEF FlushFile

(* Making a file.                                                          *)
NewFile(n) == [NewObject EXCEPT !.valid = TRUE, !.dirty = TRUE, !.dir = "root", !.name = n]

LEMMA NewFileIs ==
    ASSUME NEW n \in Names, NEW r, r = NewFile(n)
    PROVE  /\ r \in Object /\ r.here /\ ~r.deleted /\ r.dir = "root" /\ r.chunk = 0
           /\ r.tree = NoObject.tree /\ Proper(r) /\ Exact(r)
  <1>0. PICK o : o = NoObject
    OBVIOUS
  <1>1. r = [o EXCEPT !.here = TRUE, !.valid = TRUE, !.dirty = TRUE, !.dir = "root", !.name = n]
    BY <1>0 DEF NewFile, NewObject, NoObject
  <1>4. /\ o \in Object /\ o.chunk = 0 /\ \A p \in Parts : o.tree[p] = 0
        /\ ~o.deleted /\ ~o.soft /\ o.n = 0
    BY <1>0, NoObjectIs DEF NoObject
  <1>5. /\ r \in Object /\ r.here /\ ~r.deleted /\ ~r.soft /\ r.dir = "root" /\ r.chunk = 0
        /\ r.tree = o.tree /\ r.n = 0
    <2>1. r.here /\ ~r.deleted /\ ~r.soft /\ r.dir = "root" /\ r.chunk = 0
      BY <1>1, <1>4 DEF Object
    <2>2. r.tree = o.tree /\ r.n = 0
      BY <1>1, <1>4 DEF Object
    <2>3. "root" \in Dirs /\ n \in Data
      BY DEF Dirs, Data
    <2>4. r \in Object
      BY <1>1, <1>4, <2>3 DEF Object
    <2> QED
      BY <2>1, <2>2, <2>4
  <1>2. UsedParts(r) = {}
    BY <1>4, <1>5 DEF UsedParts
  <1> QED
    BY <1>0, <1>5, <1>2, FS_EmptySet DEF Proper, Exact

LEMMA GoneWhole ==
    ASSUME NEW d, NEW exact, Intact(d, exact), NEW i \in Ids,
           NEW e, e = DoGenericObjectDeletion(d, i)
    PROVE  Intact(e, exact) /\ GoneOf(d, e, i)
  <1>1. Sound(d, 0) /\ Ready(d) /\ Header(d, i) /\ \A j \in Ids : j # i => Points(d, j)
    BY DEF Intact, Points
  <1>2. GoneOf(d, e, i)
    BY <1>1, GonePoints
  <1>3. ASSUME NEW j \in Ids
        PROVE  Proper(e.obj[j]) /\ (exact => Exact(e.obj[j]))
    <2>1. CASE j = i
      BY <1>2, <2>1, NoObjectIs DEF GoneOf
    <2>2. CASE j # i
      <3>1. e.obj[j] = d.obj[j]
        BY <1>2, <2>2 DEF GoneOf
      <3> QED
        BY <3>1 DEF Intact
    <2> QED
      BY <2>1, <2>2
  <1> QED
    BY <1>2, <1>3 DEF Intact, GoneOf

LEMMA CreateCall ==
    ASSUME NEW d, NEW exact, Intact(d, exact), Named(d), NEW i \in Ids, NEW n \in Names,
           ~d.obj[i].here
    PROVE  LET e == MknodFile(d, i, n)
           IN  Intact(e, exact) /\ Named(e)
  <1>1. PICK r : r = NewFile(n)
    OBVIOUS
  <1>2. /\ r \in Object /\ r.here /\ ~r.deleted /\ r.dir = "root" /\ r.chunk = 0
        /\ r.tree = NoObject.tree /\ Proper(r) /\ Exact(r)
    BY <1>1, NewFileIs
  <1>3. d.obj[i] = NoObject
    BY DEF Intact, Proper
  <1>4. PICK f : f = With(d, i, r)
    OBVIOUS
  <1>5. Intact(f, exact) /\ f.obj[i] = r /\ \A j \in Ids : j # i => f.obj[j] = d.obj[j]
    <2>1. r.chunk = d.obj[i].chunk /\ r.tree = d.obj[i].tree
      BY <1>2, <1>3, NoObjectIs
    <2>2. r \in Object /\ Proper(r) /\ (exact => Exact(r))
      BY <1>2
    <2> QED
      BY <1>4, <2>1, <2>2, WithIntact
  <1>6. NamedBut(f, i)
    BY <1>5 DEF Named, NamedBut
  <1>7. PICK g : g = UpdateObjectHeader(f, i, n)
    OBVIOUS
  <1>8. /\ Intact(g, exact) /\ Kept(f, g) /\ g.result \in BOOLEAN
        /\ g.result => g.obj[i].chunk # 0
    <2>1. n # "none"
      BY DeviceAssumption
    <2>2. f.obj[i].here /\ ~f.obj[i].deleted /\ f.obj[i].dir \in {"root", "unlinked"}
      BY <1>2, <1>5
    <2>3. n \in Names \cup {"none"} /\ (n = "none" => f.obj[i].chunk # 0)
      BY <2>1
    <2> QED
      BY <1>5, <1>7, <2>2, <2>3, HeaderWritten
  <1>9. NamedBut(g, i)
    BY <1>6, <1>8, KeptNamed
  <1>10. MknodFile(d, i, n) = MadeOrNot(g, i)
    <2>1. f = [d EXCEPT !.obj[i] = NewFile(n)]
      BY <1>1, <1>4 DEF With
    <2> QED
      BY <1>7, <2>1 DEF MknodFile, NewFile
  <1>11. CASE g.result
    <2>1. MknodFile(d, i, n) = g
      BY <1>10, <1>11 DEF MadeOrNot
    <2>2. Named(g)
      BY <1>8, <1>9, <1>11 DEF Named, NamedBut
    <2> QED
      BY <1>8, <2>1, <2>2
  <1>12. CASE ~g.result
    <2>1. PICK h : h = DoGenericObjectDeletion(g, i)
      OBVIOUS
    <2>2. Intact(h, exact) /\ GoneOf(g, h, i)
      BY <1>8, <2>1, GoneWhole
    <2>3. Intact(h, exact) /\ h.obj[i] = NoObject /\ \A j \in Ids : j # i => h.obj[j] = g.obj[j]
      BY <2>2 DEF GoneOf
    <2>4. Named(h)
      BY <1>9, <2>3, NoObjectIs DEF Named, NamedBut
    <2>5. PICK no : no = FALSE
      OBVIOUS
    <2>6. PICK e : e = [h EXCEPT !.result = no]
      OBVIOUS
    <2>7. Intact(e, exact) /\ e.obj = h.obj
      BY <2>3, <2>6, ResultIntact
    <2>8. MknodFile(d, i, n) = e
      BY <1>10, <1>12, <2>1, <2>5, <2>6 DEF MadeOrNot
    <2> QED
      BY <2>4, <2>7, <2>8 DEF Named
  <1> QED
    BY <1>8, <1>11, <1>12

(* Removing a file: it moves, and goes or waits for the collector.          *)
Moving(o) == [o EXCEPT !.dir = "unlinked", !.dirty = TRUE]
Doomed(o) == [o EXCEPT !.deleted = TRUE]

LEMMA MovingIs ==
    ASSUME NEW o \in Object, o.here, ~o.deleted, Proper(o), NEW r, r = Moving(o)
    PROVE  /\ r \in Object /\ r.here /\ ~r.deleted /\ r.dir = "unlinked" /\ r.chunk = o.chunk
           /\ r.tree = o.tree /\ Proper(r) /\ (Exact(o) => Exact(r))
  <1>1. /\ r.here /\ ~r.deleted /\ r.dir = "unlinked" /\ r.chunk = o.chunk
        /\ r.tree = o.tree /\ r.soft = o.soft /\ r.n = o.n
    BY DEF Moving, Object
  <1>2. r \in Object
    BY DEF Moving, Object, Dirs
  <1>3. UsedParts(r) = UsedParts(o)
    BY <1>1 DEF UsedParts
  <1>4. ~o.soft
    BY DEF Proper
  <1> QED
    BY <1>1, <1>2, <1>3, <1>4 DEF Proper, Exact

LEMMA DoomedIs ==
    ASSUME NEW o \in Object, NEW r, r = Doomed(o)
    PROVE  /\ r \in Object /\ r.here = o.here /\ r.deleted /\ r.soft = o.soft
           /\ r.dir = o.dir /\ r.chunk = o.chunk /\ r.tree = o.tree
  BY DEF Doomed, Object

LEMMA UnlinkCall ==
    ASSUME NEW d, NEW exact, Intact(d, exact), Named(d), NEW i \in Ids,
           d.obj[i].here, ~d.obj[i].deleted, d.obj[i].dir = "root"
    PROVE  LET e == UnlinkFile(d, i)
           IN  Intact(e, exact) /\ Named(e)
  <1>1. d.obj[i] \in Object /\ Proper(d.obj[i]) /\ d.obj[i].chunk # 0
    BY ObjectIs DEF Intact, Sound, Named
  <1>2. PICK r : r = Moving(d.obj[i])
    OBVIOUS
  <1>3. /\ r \in Object /\ r.here /\ ~r.deleted /\ r.dir = "unlinked" /\ r.chunk = d.obj[i].chunk
        /\ r.tree = d.obj[i].tree /\ Proper(r) /\ (Exact(d.obj[i]) => Exact(r))
    BY <1>1, <1>2, MovingIs
  <1>4. PICK f : f = With(d, i, r)
    OBVIOUS
  <1>5. /\ Intact(f, exact) /\ f.obj[i] = r
        /\ \A j \in Ids : j # i => f.obj[j] = d.obj[j]
    <2>1. exact => Exact(r)
      BY <1>3 DEF Intact
    <2> QED
      BY <1>3, <1>4, <2>1, WithIntact
  <1>6. Named(f)
    BY <1>1, <1>3, <1>5 DEF Named
  <1>7. PICK name \in Names \cup {"none"} : name = "none"
    OBVIOUS
  <1>8. PICK g : g = UpdateObjectHeader(f, i, name)
    OBVIOUS
  <1>9. Intact(g, exact) /\ Kept(f, g)
    <2>1. /\ f.obj[i].here /\ ~f.obj[i].deleted /\ f.obj[i].dir \in {"root", "unlinked"}
          /\ f.obj[i].chunk # 0
      BY <1>1, <1>3, <1>5
    <2> QED
      BY <1>5, <1>8, <2>1, HeaderWritten
  <1>10. /\ Named(g) /\ g.obj[i].here /\ g.obj[i].dir = "unlinked" /\ ~g.obj[i].soft
         /\ g.obj[i].chunk # 0 /\ g.obj[i] \in Object
    <2>1. Named(g)
      BY <1>6, <1>9, KeptNamed
    <2>2. g.obj[i].here
      BY <1>3, <1>5, <1>9 DEF Kept
    <2>3. g.obj[i].dir = "unlinked" /\ g.obj[i].soft = r.soft
      BY <1>3, <1>5, <1>9, <2>2 DEF Kept
    <2>4. ~r.soft
      BY <1>3 DEF Proper
    <2>5. g.obj[i] \in Object
      BY <1>9, ObjectIs DEF Intact, Sound
    <2> QED
      BY <2>1, <2>2, <2>3, <2>4, <2>5 DEF Named
  <1>11. PICK q : q = Doomed(g.obj[i])
    OBVIOUS
  <1>12. /\ q \in Object /\ q.here /\ q.deleted /\ ~q.soft
         /\ q.dir = "unlinked" /\ q.chunk = g.obj[i].chunk /\ q.tree = g.obj[i].tree
    BY <1>10, <1>11, DoomedIs
  <1>13. PICK h : h = With(g, i, q)
    OBVIOUS
  <1>14. /\ Sound(h, 0) /\ Ready(h) /\ \A j \in Ids : Points(h, j)
         /\ h.obj[i] = q /\ \A j \in Ids : j # i => h.obj[j] = g.obj[j]
    <2>1. Sound(g, 0) /\ Ready(g) /\ \A j \in Ids : Points(g, j)
      BY <1>9 DEF Intact
    <2> QED
      BY <1>12, <1>13, <2>1, WithPoints
  <1>15. PICK s : s = SoftDeleteFile(h, i)
    OBVIOUS
  <1>16. /\ Sound(s, 0) /\ Ready(s) /\ \A j \in Ids : Points(s, j)
         /\ Proper(s.obj[i]) /\ Exact(s.obj[i])
         /\ s.obj[i].here => s.obj[i].chunk = h.obj[i].chunk
         /\ \A j \in Ids : j # i => s.obj[j] = h.obj[j]
    <2>1. /\ Header(h, i) /\ \A j \in Ids : j # i => Points(h, j)
      BY <1>14 DEF Points
    <2>2. h.obj[i].here /\ h.obj[i].deleted /\ ~h.obj[i].soft /\ h.obj[i].dir = "unlinked"
      BY <1>12, <1>14
    <2> QED
      BY <1>14, <1>15, <2>1, <2>2, SoftPoints
  <1>17. ASSUME NEW j \in Ids
         PROVE  /\ Proper(s.obj[j]) /\ (exact => Exact(s.obj[j]))
                /\ s.obj[j].here /\ s.obj[j].dir # "lost+found" => s.obj[j].chunk # 0
    <2>1. CASE j = i
      BY <1>10, <1>12, <1>14, <1>16, <2>1
    <2>2. CASE j # i
      <3>1. s.obj[j] = g.obj[j]
        BY <1>14, <1>16, <2>2
      <3> QED
        BY <1>9, <1>10, <3>1 DEF Intact, Named
    <2> QED
      BY <2>1, <2>2
  <1>18. Intact(s, exact) /\ Named(s)
    BY <1>16, <1>17 DEF Intact, Named
  <1>19. PICK answer : answer = g.result
    OBVIOUS
  <1>20. PICK e : e = [s EXCEPT !.result = answer]
    OBVIOUS
  <1>21. Intact(e, exact) /\ e.obj = s.obj
    BY <1>18, <1>20, ResultIntact
  <1>22. e = UnlinkFile(d, i)
    <2>1. f = [d EXCEPT !.obj[i].dir = "unlinked", !.obj[i].dirty = TRUE]
      BY <1>2, <1>4 DEF With, Moving
    <2>2. h = [g EXCEPT !.obj[i].deleted = TRUE]
      BY <1>11, <1>13 DEF With, Doomed
    <2>3. e = DeletedAnyway(g, i)
      BY <1>15, <1>19, <1>20, <2>2 DEF DeletedAnyway
    <2> QED
      BY <1>7, <1>8, <2>1, <2>3 DEF UnlinkFile
  <1> QED
    BY <1>18, <1>21, <1>22 DEF Named

(* Cutting a file: a chunk that is found in it is deleted and counted out,  *)
(* or it is only forgotten, where the code takes it for out of range.      *)
CutOf(o, r, p, n) ==
    /\ r \in Object /\ r.here = o.here /\ r.deleted = o.deleted /\ r.soft = o.soft
    /\ r.dir = o.dir /\ r.chunk = o.chunk /\ r.tree[p] = 0 /\ r.n = n
    /\ \A q \in Parts : q # p => r.tree[q] = o.tree[q]
    /\ UsedParts(r) = UsedParts(o) \ {p}

LEMMA CutObject ==
    ASSUME NEW o \in Object, NEW p \in Parts, NEW n \in Int
    PROVE  CutOf(o, Branch(o, p, 0, n), p, n)
  <1>0. PICK r : r = Branch(o, p, 0, n)
    OBVIOUS
  <1> DEFINE tree == [o.tree EXCEPT ![p] = 0]
  <1>1. /\ tree \in [Parts -> {0} \cup Chunks] /\ tree[p] = 0
        /\ \A q \in Parts : q # p => tree[q] = o.tree[q]
    BY DEF Object
  <1>2. r = [o EXCEPT !.tree = tree, !.n = n]
    BY <1>0 DEF Branch
  <1> HIDE DEF tree
  <1>3. /\ r.here = o.here /\ r.deleted = o.deleted /\ r.soft = o.soft
        /\ r.dir = o.dir /\ r.chunk = o.chunk /\ r.tree = tree /\ r.n = n
    BY <1>2 DEF Object
  <1>4. r \in Object
    BY <1>1, <1>2 DEF Object
  <1>5. UsedParts(r) = UsedParts(o) \ {p}
    BY <1>1, <1>3 DEF UsedParts
  <1> QED
    BY <1>0, <1>1, <1>3, <1>4, <1>5 DEF CutOf

LEMMA CutExact ==
    ASSUME NEW o \in Object, NEW p \in Parts, o.tree[p] # 0, Exact(o), ~o.soft,
           NEW r, r.n = o.n - 1, UsedParts(r) = UsedParts(o) \ {p}
    PROVE  Exact(r)
  <1>1. IsFiniteSet(UsedParts(o)) /\ p \in UsedParts(o)
    <2>1. UsedParts(o) \subseteq Parts /\ IsFiniteSet(Parts)
      BY DeviceAssumption DEF UsedParts
    <2> QED
      BY <2>1, FS_Subset DEF UsedParts
  <1>2. Cardinality(UsedParts(o) \ {p}) = Cardinality(UsedParts(o)) - 1
    BY <1>1, FS_RemoveElement
  <1> QED
    BY <1>2 DEF Exact

LEMMA CutIntact ==
    ASSUME NEW d, NEW exact, Intact(d, exact), NEW i \in Ids, NEW p \in Parts, NEW n \in Int,
           d.obj[i].here, ~d.obj[i].soft,
           NEW r, r = Branch(d.obj[i], p, 0, n), exact => Exact(r)
    PROVE  LET e == With(d, i, r)
           IN  /\ Intact(e, exact) /\ Alike(d, e) /\ Typed(e) /\ e.obj[i] = r
               /\ \A j \in Ids : j # i => e.obj[j] = d.obj[j]
  <1>1. PICK e : e = With(d, i, r)
    OBVIOUS
  <1>2. Sound(d, 0) /\ Ready(d) /\ d.obj[i] \in Object /\ Proper(d.obj[i])
    BY ObjectIs DEF Intact, Sound
  <1>3. /\ r \in Object /\ r.here = d.obj[i].here /\ r.deleted = d.obj[i].deleted
        /\ r.soft = d.obj[i].soft /\ r.dir = d.obj[i].dir /\ r.chunk = d.obj[i].chunk
        /\ r.tree[p] = 0 /\ \A q \in Parts : q # p => r.tree[q] = d.obj[i].tree[q]
    <2>1. CutOf(d.obj[i], r, p, n)
      BY <1>2, CutObject
    <2> QED
      BY <2>1 DEF CutOf
  <1>4. Proper(r)
    BY <1>2, <1>3 DEF Proper
  <1>5. /\ Sound(e, 0) /\ Alike(d, e) /\ Ready(e) /\ e.obj[i] = r
        /\ \A j \in Ids : j # i => e.obj[j] = d.obj[j]
        /\ e.stale = d.stale
    BY <1>1, <1>2, <1>3, WithKeeps
  <1>6. e.nand = d.nand /\ e.bits = d.bits /\ Typed(e)
    BY <1>5 DEF Alike, Sound
  <1>7. ASSUME NEW j \in Ids
        PROVE  Points(e, j) /\ Proper(e.obj[j]) /\ (exact => Exact(e.obj[j]))
    <2>1. Points(d, j) /\ Proper(d.obj[j]) /\ (exact => Exact(d.obj[j]))
      BY DEF Intact
    <2>2. CASE j # i
      BY <1>5, <2>1, <2>2, AlikePoints
    <2>3. CASE j = i
      <3>1. Header(e, i)
        BY <1>3, <1>5, <1>6, <2>1, <2>3 DEF Points, Header
      <3>2. ASSUME NEW q \in Parts
            PROVE  Leaf(e, i, q)
        <4>1. CASE q = p
          BY <1>3, <1>5, <4>1, NoneLeaf
        <4>2. CASE q # p
          <5>1. e.obj[i].tree[q] = d.obj[i].tree[q]
            BY <1>3, <1>5, <4>2
          <5>2. FindChunkInFile(e, i, q) = FindChunkInFile(d, i, q)
            BY <1>6, <5>1 DEF FindChunkInFile
          <5>3. Leaf(d, i, q)
            BY <2>1, <2>3 DEF Points
          <5> QED
            BY <1>5, <1>6, <5>1, <5>2, <5>3 DEF Leaf
        <4> QED
          BY <4>1, <4>2
      <3> QED
        BY <1>4, <1>5, <2>3, <3>1, <3>2 DEF Points
    <2> QED
      BY <2>2, <2>3
  <1> QED
    BY <1>1, <1>5, <1>6, <1>7 DEF Intact

(* What is forgotten stays so while files are cut.                         *)
LEMMA ForgottenLasts ==
    ASSUME NEW d, NEW e, Typed(d), Typed(e), 
           \A x \in Forgotten(d) : x \in e.bits /\ e.nand[x] = d.nand[x],
           \A j \in Ids : /\ d.obj[j].here => e.obj[j].here
                          /\ ~d.obj[j].deleted => ~e.obj[j].deleted
                          /\ \A q \in Parts : d.obj[j].tree[q] = 0 => e.obj[j].tree[q] = 0
    PROVE  Forgotten(d) \subseteq Forgotten(e)
  <1> SUFFICES ASSUME NEW x \in Forgotten(d)
               PROVE  x \in Forgotten(e)
    OBVIOUS
  <1>1. x \in d.bits /\ d.nand[x] \in PageSet
    BY DEF Forgotten, Typed, Nand
  <1>2. LET page == d.nand[x]
        IN  page.id \in Ids /\ page.part # 0 /\ page.live
            /\ d.obj[page.id].here /\ ~d.obj[page.id].deleted
            /\ d.obj[page.id].tree[page.part] = 0
    BY DEF Forgotten
  <1> DEFINE i == d.nand[x].id
             p == d.nand[x].part
  <1>3. p \in Parts
    BY <1>1, <1>2 DEF PageSet
  <1>4. x \in e.bits /\ e.nand[x] = d.nand[x]
    OBVIOUS
  <1>5. i \in Ids /\ p # 0 /\ d.nand[x].live /\ d.obj[i].here /\ ~d.obj[i].deleted
        /\ d.obj[i].tree[p] = 0
    BY <1>2
  <1>6. e.nand[x].id = i /\ e.nand[x].part = p /\ e.nand[x].live
    BY <1>4, <1>5
  <1> HIDE DEF i, p
  <1>7. e.obj[i].here /\ ~e.obj[i].deleted /\ e.obj[i].tree[p] = 0
    BY <1>3, <1>5
  <1> QED
    BY <1>3, <1>4, <1>5, <1>6, <1>7 DEF Forgotten

Shortened(d, i, p) ==
    LET c == FindChunkInFile(d, i, p)
        cut == [d EXCEPT !.obj[i].tree[p] = IF c = 0 THEN @ ELSE 0]
    IN  IF Daft(c) THEN cut ELSE DeleteChunk([cut EXCEPT !.obj[i].n = @ - 1], c, TRUE)

NearlyIntact(d, exact) == Intact(d, exact) \/ (Intact(d, FALSE) /\ Forgotten(d) # {})

LEMMA DaftNone == Daft(0)
  <1>1. Start \in Int /\ Start >= 1 /\ DaftFactor \in Nat /\ DaftFactor >= 1
    BY DeviceAssumption
  <1>2. 1 * DaftFactor <= Start * DaftFactor
    BY <1>1, ProductOrder
  <1>3. Start * DaftFactor \in Int
    BY <1>1
  <1> QED
    BY <1>1, <1>2, <1>3 DEF Daft

LEMMA ShortIntact ==
    ASSUME NEW d, NEW exact, Intact(d, exact), NEW i \in Ids, NEW p \in Parts,
           d.obj[i].here, ~d.obj[i].deleted
    PROVE  LET e == Shortened(d, i, p)
           IN  NearlyIntact(e, exact) /\ Kept(d, e) /\ Forgotten(d) \subseteq Forgotten(e)
  <1>1. PICK e : e = Shortened(d, i, p)
    OBVIOUS
  <1>2. PICK c : c = FindChunkInFile(d, i, p)
    OBVIOUS
  <1>3. PICK o : o = d.obj[i]
    OBVIOUS
  <1>4. /\ Typed(d) /\ o \in Object /\ Proper(o) /\ o.here /\ ~o.deleted /\ ~o.soft
        /\ o.tree \in [Parts -> {0} \cup Chunks] /\ o.n \in Int
    <2>1. Typed(d) /\ o \in Object /\ Proper(o) /\ o.here /\ ~o.deleted
      BY <1>3, ObjectIs DEF Intact, Sound
    <2> QED
      BY <2>1 DEF Proper, Object
  <1>5. CASE c = 0
    <2>1. e = [d EXCEPT !.obj[i].tree[p] = o.tree[p]]
      BY <1>1, <1>2, <1>3, <1>5, DaftNone DEF Shortened
    <2>2. [o EXCEPT !.tree[p] = o.tree[p]] = o
      <3>1. [o.tree EXCEPT ![p] = o.tree[p]] = o.tree
        BY <1>4
      <3>2. [o EXCEPT !.tree[p] = o.tree[p]] = [o EXCEPT !.tree = [o.tree EXCEPT ![p] = o.tree[p]]]
        OBVIOUS
      <3> QED
        BY <1>4, <3>1, <3>2 DEF Object
    <2>3. e = With(d, i, o)
      <3>1. e = [d EXCEPT !.obj[i] = [o EXCEPT !.tree[p] = o.tree[p]]]
        BY <1>3, <2>1
      <3> QED
        BY <2>2, <3>1 DEF With
    <2>4. SameFile(d.obj[i], o) /\ o.n = d.obj[i].n
      BY <1>3 DEF SameFile
    <2>5. /\ Intact(e, exact) /\ Kept(d, e) /\ Alike(d, e)
          /\ \A j \in Ids : e.obj[j] = IF j = i THEN o ELSE d.obj[j]
      BY <1>4, <2>3, <2>4, SameFileIntact
    <2>6. \A j \in Ids : e.obj[j] = d.obj[j]
      BY <1>3, <2>5
    <2>7. Forgotten(d) \subseteq Forgotten(e)
      BY <2>5, <2>6 DEF Alike, Forgotten
    <2> QED
      BY <1>1, <2>5, <2>7 DEF NearlyIntact
  <1>6. CASE c # 0
    <2>1. /\ c \in d.bits /\ c \in Chunks /\ o.tree[p] = c /\ d.nand[c].id = i
          /\ d.nand[c].part = p /\ d.nand[c].live
      <3>1. Leaf(d, i, p)
        BY DEF Intact, Points
      <3>2. o.tree[p] = c /\ d.nand[c].id = i /\ d.nand[c].part = p /\ d.nand[c].live
        BY <1>2, <1>3, <1>6 DEF FindChunkInFile
      <3>3. c \in d.bits
        BY <1>2, <1>3, <1>6, <3>1, <3>2 DEF Leaf
      <3> QED
        BY <1>4, <3>2, <3>3 DEF Typed
    <2>2. PICK x : x = (IF Daft(c) THEN FALSE ELSE exact)
      OBVIOUS
    <2>3. PICK n \in Int : n = IF Daft(c) THEN o.n ELSE o.n - 1
      BY <1>4
    <2>4. PICK r : r = Branch(o, p, 0, n)
      OBVIOUS
    <2>5. /\ r \in Object /\ r.here = o.here /\ r.deleted = o.deleted /\ r.soft = o.soft
          /\ r.dir = o.dir /\ r.chunk = o.chunk /\ r.tree[p] = 0 /\ r.n = n
          /\ \A q \in Parts : q # p => r.tree[q] = o.tree[q]
          /\ UsedParts(r) = UsedParts(o) \ {p}
      <3>1. CutOf(o, r, p, n)
        BY <1>4, <2>3, <2>4, CutObject
      <3> QED
        BY <3>1 DEF CutOf
    <2>6. x => Exact(r)
      <3>1. CASE Daft(c)
        BY <2>2, <3>1
      <3>2. CASE ~Daft(c)
        <4>1. SUFFICES ASSUME exact
                       PROVE  Exact(r)
          BY <2>2, <3>2
        <4>2. Exact(o) /\ r.n = o.n - 1
          BY <1>3, <2>3, <2>5, <3>2, <4>1 DEF Intact
        <4> QED
          BY <1>4, <1>6, <2>1, <2>5, <4>2, CutExact
      <3> QED
        BY <3>1, <3>2
    <2>7. Intact(d, x)
      BY <2>2 DEF Intact
    <2>8. PICK f : f = With(d, i, r)
      OBVIOUS
    <2>9. /\ Intact(f, x) /\ Alike(d, f) /\ Typed(f) /\ f.obj[i] = r
          /\ \A j \in Ids : j # i => f.obj[j] = d.obj[j]
      <3>1. d.obj[i].here /\ ~d.obj[i].soft /\ r = Branch(d.obj[i], p, 0, n)
        BY <1>3, <1>4, <2>4
      <3> QED
        BY <2>6, <2>7, <2>8, <3>1, CutIntact
    <2>10. f.nand = d.nand /\ f.bits = d.bits
      BY <2>9 DEF Alike
    <2>11. ASSUME NEW j \in Ids
           PROVE  /\ f.obj[j].here = d.obj[j].here /\ f.obj[j].deleted = d.obj[j].deleted
                  /\ f.obj[j].dir = d.obj[j].dir /\ f.obj[j].soft = d.obj[j].soft
                  /\ f.obj[j].chunk = d.obj[j].chunk
                  /\ \A q \in Parts : d.obj[j].tree[q] = 0 => f.obj[j].tree[q] = 0
      <3>1. CASE j = i
        BY <1>3, <2>5, <2>9, <3>1
      <3>2. CASE j # i
        BY <2>9, <3>2
      <3> QED
        BY <3>1, <3>2
    <2>12. Kept(d, f)
      BY <2>11 DEF Kept
    <2>13. \A y \in Forgotten(d) : y \in d.bits /\ y # c
      <3> SUFFICES ASSUME NEW y \in Forgotten(d)
                   PROVE  y \in d.bits /\ y # c
        OBVIOUS
      <3>1. y \in d.bits /\ d.obj[d.nand[y].id].tree[d.nand[y].part] = 0
        BY DEF Forgotten
      <3> QED
        BY <1>3, <1>6, <2>1, <3>1
    <2>14. CASE Daft(c)
      <3>1. e = f
        <4>1. e = [d EXCEPT !.obj[i].tree[p] = 0]
          BY <1>1, <1>2, <1>6, <2>14 DEF Shortened
        <4>2. r = [o EXCEPT !.tree[p] = 0]
          BY <1>4, <2>3, <2>4, <2>14 DEF Branch, Object
        <4> QED
          BY <1>3, <2>8, <4>1, <4>2 DEF With
      <3>2. c \in Forgotten(f)
        <4>1. f.nand[c].part # 0
          BY <2>1, <2>10, DeviceAssumption
        <4> QED
          BY <1>4, <2>1, <2>5, <2>9, <2>10, <4>1 DEF Forgotten
      <3>3. Forgotten(d) \subseteq Forgotten(f)
        BY <1>4, <2>9, <2>10, <2>11, <2>13, ForgottenLasts
      <3>4. Intact(f, FALSE)
        BY <2>2, <2>9, <2>14
      <3> QED
        BY <1>1, <2>12, <3>1, <3>2, <3>3, <3>4 DEF NearlyIntact
    <2>15. CASE ~Daft(c)
      <3>1. PICK mark \in BOOLEAN : mark = TRUE
        OBVIOUS
      <3>2. e = DeleteChunk(f, c, mark)
        <4>1. e = DeleteChunk([[d EXCEPT !.obj[i].tree[p] = 0] EXCEPT !.obj[i].n = @ - 1], c, TRUE)
          BY <1>1, <1>2, <1>6, <2>15 DEF Shortened
        <4>2. PICK m : m = [o EXCEPT !.tree = [o.tree EXCEPT ![p] = 0]]
          OBVIOUS
        <4>3. With(d, i, m) = [d EXCEPT !.obj[i].tree[p] = 0]
          BY <1>3, <4>2 DEF With
        <4>4. With(d, i, m).obj[i] = m /\ With(With(d, i, m), i, r) = With(d, i, r)
          BY <1>4, WithTwice
        <4>5. r = [m EXCEPT !.n = m.n - 1]
          BY <1>4, <2>3, <2>4, <2>15, <4>2 DEF Branch, Object
        <4>6. PICK w : w = With(d, i, m)
          OBVIOUS
        <4>7. e = DeleteChunk([w EXCEPT !.obj[i].n = @ - 1], c, TRUE)
          BY <4>1, <4>3, <4>6
        <4>8. w.obj[i] = m /\ With(w, i, r) = f
          BY <2>8, <4>4, <4>6
        <4>9. [w EXCEPT !.obj[i].n = @ - 1] = With(w, i, r)
          BY <4>5, <4>8 DEF With
        <4> QED
          BY <3>1, <4>7, <4>8, <4>9
      <3>3. ASSUME NEW j \in Ids
            PROVE  f.obj[j].chunk # c /\ \A q \in Parts : FindChunkInFile(f, j, q) # c
        <4>1. Header(f, j)
          BY <2>9 DEF Intact, Points
        <4>2. /\ f.nand[c].id # j \/ f.nand[c].part # 0 => f.obj[j].chunk # c
              /\ \A q \in Parts :
                     f.nand[c].id # j \/ f.nand[c].part # q \/ ~f.nand[c].live =>
                         FindChunkInFile(f, j, q) # c
          BY <2>1, <2>9, <4>1, Distinct
        <4>3. f.nand[c].id = i /\ f.nand[c].part = p /\ p # 0
          BY <2>1, <2>10, DeviceAssumption
        <4>4. FindChunkInFile(f, i, p) = 0
          BY <2>5, <2>9, NoneLeaf
        <4>5. f.obj[j].chunk # c
          BY <4>2, <4>3
        <4>6. ASSUME NEW q \in Parts
              PROVE  FindChunkInFile(f, j, q) # c
          BY <1>6, <4>2, <4>3, <4>4
        <4> QED
          BY <4>5, <4>6
      <3>4. Intact(e, x) /\ Same(f, e) /\ Lasts(f, e, {c}, IF mark THEN {} ELSE {c})
        <4>1. c = 0 \/ c \in f.bits
          BY <2>1, <2>10
        <4>2. \A j \in Ids : c # 0 => f.obj[j].chunk # c
          BY <3>3
        <4>3. \A j \in Ids : c # 0 => \A q \in Parts : FindChunkInFile(f, j, q) # c
          BY <3>3
        <4>4. Intact(f, x)
          BY <2>9
        <4> QED
          BY <3>2, <4>1, <4>2, <4>3, <4>4, DeleteIntact
      <3>5. e.obj = f.obj /\ Typed(e) /\ \A y \in f.bits : y # c => y \in e.bits /\ e.nand[y] = f.nand[y]
        BY <3>4 DEF Same, Lasts, Intact, Sound
      <3>6. Forgotten(d) \subseteq Forgotten(e)
        <4>1. \A y \in Forgotten(d) : y \in e.bits /\ e.nand[y] = d.nand[y]
          BY <2>10, <2>13, <3>5
        <4>2. \A j \in Ids : /\ d.obj[j].here => e.obj[j].here
                             /\ ~d.obj[j].deleted => ~e.obj[j].deleted
                             /\ \A q \in Parts : d.obj[j].tree[q] = 0 => e.obj[j].tree[q] = 0
          BY <2>11, <3>5
        <4> QED
          BY <1>4, <3>5, <4>1, <4>2, ForgottenLasts
      <3>7. Kept(d, e)
        BY <2>12, <3>5 DEF Kept
      <3>8. x = exact
        BY <2>2, <2>15
      <3> QED
        BY <1>1, <3>4, <3>6, <3>7, <3>8 DEF NearlyIntact
    <2> QED
      BY <2>14, <2>15
  <1> QED
    BY <1>5, <1>6

(* The chunks beyond the new end, from the last backwards.                  *)
LEMMA ResizingSteps ==
    ASSUME NEW d, NEW i, NEW size, d.obj[i].size - size \in Nat
    PROVE  \E f : /\ \A k \in 0 .. d.obj[i].size - size :
                        f[k] = IF k = 0 THEN d ELSE Shortened(f[k - 1], i, d.obj[i].size + 1 - k)
                  /\ size >= d.obj[i].size \/ ResizeFile(d, i, size) = [f[d.obj[i].size - size] EXCEPT !.obj[i].size = size]
  <1> DEFINE Is(f, m) == f = [k \in 0 .. m |-> IF k = 0 THEN d ELSE Shortened(f[k - 1], i, d.obj[i].size + 1 - k)]
             M == {m \in 0 .. d.obj[i].size - size : \E f : Is(f, m)}
  <1>0. d.obj[i].size - size \in Nat
    OBVIOUS
  <1>1. 0 \in M
    <2> DEFINE f == [k \in 0 .. 0 |-> d]
    <2>1. Is(f, 0)
      OBVIOUS
    <2>2. 0 \in 0 .. d.obj[i].size - size
      BY <1>0
    <2> HIDE DEF Is, f
    <2> QED
      BY <2>1, <2>2
  <1>2. ASSUME NEW m \in 0 .. d.obj[i].size - size - 1, m \in M
        PROVE  m + 1 \in M
    <2>1. PICK f : Is(f, m)
      BY <1>2
    <2> DEFINE step(e, k) == Shortened(e, i, d.obj[i].size + 1 - k)
               g == [k \in 0 .. m + 1 |-> IF k = m + 1 THEN step(f[m], m + 1) ELSE f[k]]
    <2>2. \A k \in 0 .. m : f[k] = IF k = 0 THEN d ELSE step(f[k - 1], k)
      BY <2>1
    <2> HIDE DEF Is
    <2>5. m \in Nat /\ m + 1 \in 0 .. d.obj[i].size - size
      BY <1>0
    <2>6. g[m] = f[m] /\ g[m + 1] = step(f[m], m + 1) /\ (m + 1) - 1 = m
      BY <2>5
    <2>7. \A k \in 0 .. m : g[k] = f[k] /\ (k # 0 => k - 1 \in 0 .. m)
      BY <2>5
    <2>8. \A k \in 0 .. m + 1 : k = m + 1 \/ k \in 0 .. m
      BY <2>5
    <2>9. m + 1 # 0
      BY <2>5
    <2> HIDE DEF g, step
    <2>3. \A k \in 0 .. m + 1 : g[k] = IF k = 0 THEN d ELSE step(g[k - 1], k)
      BY <2>2, <2>6, <2>7, <2>8, <2>9
    <2>4. Is(g, m + 1)
      BY <2>3 DEF Is, g, step
    <2> QED
      BY <2>4, <2>5
  <1>3. \A m \in 0 .. d.obj[i].size - size : m \in M
    <2> HIDE DEF M
    <2> QED
      BY <1>0, <1>1, <1>2, Upwards
  <1>4. \E f : Is(f, d.obj[i].size - size)
    <2>1. d.obj[i].size - size \in M
      <3> HIDE DEF M
      <3> QED
        BY <1>0, <1>3
    <2> HIDE DEF Is
    <2> QED
      BY <2>1
  <1> DEFINE f == CHOOSE f : Is(f, d.obj[i].size - size)
  <1>5. Is(f, d.obj[i].size - size)
    BY <1>4
  <1>6. size >= d.obj[i].size \/ ResizeFile(d, i, size) = [f[d.obj[i].size - size] EXCEPT !.obj[i].size = size]
    BY DEF ResizeFile, Shortened
  <1>7. \A k \in 0 .. d.obj[i].size - size : f[k] = IF k = 0 THEN d ELSE Shortened(f[k - 1], i, d.obj[i].size + 1 - k)
    <2> HIDE DEF f
    <2> QED
      BY <1>5
  <1> QED
    BY <1>6, <1>7

(* The end moves.                                                          *)
Ended(o, size) == [o EXCEPT !.size = size]

LEMMA EndedIs ==
    ASSUME NEW o \in Object, NEW size \in {0} \cup Parts, NEW r, r = Ended(o, size)
    PROVE  r \in Object /\ SameFile(o, r) /\ r.n = o.n
  BY DEF Ended, Object, SameFile

LEMMA NearlyShort ==
    ASSUME NEW d, NEW exact, NearlyIntact(d, exact), NEW i \in Ids, NEW p \in Parts,
           d.obj[i].here, ~d.obj[i].deleted
    PROVE  LET e == Shortened(d, i, p)
           IN  NearlyIntact(e, exact) /\ Kept(d, e)
  <1>1. PICK e : e = Shortened(d, i, p)
    OBVIOUS
  <1>2. CASE Intact(d, exact)
    BY <1>1, <1>2, ShortIntact
  <1>3. CASE Intact(d, FALSE) /\ Forgotten(d) # {}
    <2>1. PICK x : x = FALSE
      OBVIOUS
    <2>2. Intact(d, x)
      BY <1>3, <2>1
    <2>3. NearlyIntact(e, x) /\ Kept(d, e) /\ Forgotten(d) \subseteq Forgotten(e)
      BY <1>1, <2>2, ShortIntact
    <2>4. Intact(e, FALSE)
      BY <2>1, <2>3 DEF NearlyIntact
    <2> QED
      BY <1>1, <1>3, <2>3, <2>4 DEF NearlyIntact
  <1> QED
    BY <1>2, <1>3 DEF NearlyIntact

LEMMA NearlyTyped ==
    ASSUME NEW d, NEW exact, NearlyIntact(d, exact)
    PROVE  Typed(d)
  BY DEF NearlyIntact, Intact, Sound

LEMMA ResizeIntact ==
    ASSUME NEW d, NEW exact, Intact(d, exact), NEW i \in Ids, d.obj[i].here, ~d.obj[i].deleted,
           NEW size \in Nat, size < d.obj[i].size
    PROVE  LET e == ResizeFile(d, i, size)
           IN  NearlyIntact(e, exact) /\ Kept(d, e)
  <1>0. PICK last : last = d.obj[i].size
    OBVIOUS
  <1>a. last \in {0} \cup Parts /\ Typed(d)
    BY <1>0, ObjectIs DEF Intact, Sound, Object
  <1>b. last \in Nat /\ 1 .. last \subseteq Parts /\ last # 0 /\ size < last
    BY <1>0, <1>a, DeviceAssumption
  <1>c. PICK n : n = last - size
    OBVIOUS
  <1>d. n \in Nat /\ size \in {0} \cup Parts
    BY <1>b, <1>c
  <1>1. PICK f : /\ \A k \in 0 .. n :
                        f[k] = IF k = 0 THEN d ELSE Shortened(f[k - 1], i, last + 1 - k)
                 /\ ResizeFile(d, i, size) = [f[n] EXCEPT !.obj[i].size = size]
    <2>1. d.obj[i].size - size \in Nat
      BY <1>0, <1>c, <1>d
    <2>2. ~(size >= d.obj[i].size)
      BY <1>0, <1>b
    <2> QED
      BY <1>0, <1>c, <2>1, <2>2, ResizingSteps
  <1> DEFINE Good(e) == NearlyIntact(e, exact) /\ Kept(d, e)
             T == {k \in 0 .. n : Good(f[k])}
  <1>3. 0 \in T
    <2>0. 0 \in 0 .. n
      BY <1>d
    <2>1. f[0] = d
      <3>1. \A k \in 0 .. n : k = 0 => f[k] = d
        BY <1>1, Zenon
      <3> QED
        BY <2>0, <3>1
    <2>2. Kept(d, d)
      BY KeptSame
    <2>3. Good(d)
      BY <2>2 DEF NearlyIntact
    <2> QED
      BY <2>0, <2>1, <2>3
  <1>4. ASSUME NEW k \in 0 .. n - 1, k \in T
        PROVE  k + 1 \in T
    <2>1. k + 1 \in 0 .. n /\ k + 1 # 0 /\ (k + 1) - 1 = k
      BY <1>d
    <2>2. PICK s : s = f[k]
      OBVIOUS
    <2>3. PICK p : p = last + 1 - (k + 1)
      OBVIOUS
    <2>4. PICK t : t = f[k + 1]
      OBVIOUS
    <2>5. t = Shortened(s, i, p)
      BY <1>1, <2>1, <2>2, <2>3, <2>4
    <2>6. p \in Parts
      BY <1>b, <1>c, <1>d, <2>1, <2>3
    <2>7. NearlyIntact(s, exact) /\ Kept(d, s)
      BY <1>4, <2>2
    <2>8. s.obj[i].here /\ ~s.obj[i].deleted
      BY <2>7 DEF Kept
    <2>9. NearlyIntact(t, exact) /\ Kept(s, t)
      BY <2>5, <2>6, <2>7, <2>8, NearlyShort
    <2>10. Kept(d, t)
      <3>1. Typed(d) /\ Typed(s) /\ Typed(t)
        BY <1>a, <2>7, <2>9, NearlyTyped
      <3> QED
        BY <2>7, <2>9, <3>1, KeptTwice
    <2> QED
      BY <2>1, <2>4, <2>9, <2>10
  <1>5. n \in T
    <2> HIDE DEF T
    <2> QED
      BY <1>d, <1>3, <1>4, Upwards
  <1>6. PICK s : s = f[n]
    OBVIOUS
  <1>7. NearlyIntact(s, exact) /\ Kept(d, s) /\ s.obj[i].here
    BY <1>5, <1>6 DEF Kept
  <1>8. PICK r : r = Ended(s.obj[i], size)
    OBVIOUS
  <1>9. PICK e : e = With(s, i, r)
    OBVIOUS
  <1>10. e = ResizeFile(d, i, size)
    <2>1. e = [s EXCEPT !.obj[i].size = size]
      BY <1>8, <1>9 DEF With, Ended
    <2> QED
      BY <1>1, <1>6, <2>1
  <1>11. r \in Object /\ SameFile(s.obj[i], r) /\ r.n = s.obj[i].n
    <2>1. s.obj[i] \in Object
      BY <1>7, NearlyTyped, ObjectIs
    <2> QED
      BY <1>d, <1>8, <2>1, EndedIs
  <1>12. ASSUME NEW x, Intact(s, x)
         PROVE  /\ Intact(e, x) /\ Kept(s, e) /\ Alike(s, e)
                /\ \A j \in Ids : e.obj[j] = IF j = i THEN r ELSE s.obj[j]
    BY <1>7, <1>9, <1>11, <1>12, SameFileIntact
  <1>13. Kept(s, e) /\ Typed(e)
    BY <1>7, <1>12 DEF NearlyIntact, Intact, Sound
  <1>14. Kept(d, e)
    BY <1>a, <1>7, <1>13, NearlyTyped, KeptTwice
  <1>15. CASE Intact(s, exact)
    BY <1>10, <1>12, <1>14, <1>15 DEF NearlyIntact
  <1>16. CASE Intact(s, FALSE) /\ Forgotten(s) # {}
    <2>1. /\ Intact(e, FALSE) /\ Alike(s, e)
          /\ \A j \in Ids : e.obj[j] = IF j = i THEN r ELSE s.obj[j]
      BY <1>12, <1>16
    <2>2. \A x \in Forgotten(s) : x \in e.bits /\ e.nand[x] = s.nand[x]
      <3>1. e.nand = s.nand /\ e.bits = s.bits
        BY <2>1 DEF Alike
      <3> QED
        BY <3>1 DEF Forgotten
    <2>3. \A j \in Ids : /\ s.obj[j].here => e.obj[j].here
                         /\ ~s.obj[j].deleted => ~e.obj[j].deleted
                         /\ \A q \in Parts : s.obj[j].tree[q] = 0 => e.obj[j].tree[q] = 0
      BY <1>11, <2>1 DEF SameFile
    <2>4. Forgotten(s) \subseteq Forgotten(e)
      BY <1>7, <1>13, <2>2, <2>3, NearlyTyped, ForgottenLasts
    <2> QED
      BY <1>10, <1>14, <1>16, <2>1, <2>4 DEF NearlyIntact
  <1> QED
    BY <1>7, <1>15, <1>16 DEF NearlyIntact

(* Looking for a name reads headers.                                       *)
LEMMA FindCall ==
    ASSUME NEW d, NEW exact, Intact(d, exact), Named(d), NEW n
    PROVE  LET e == FindObjectByName(d, n)
           IN  Intact(e, exact) /\ Named(e) /\ e.obj = d.obj
  <1>1. PICK e : e = FindObjectByName(d, n)
    OBVIOUS
  <1>2. CASE e = d
    BY <1>1, <1>2
  <1>3. CASE e = ReadData(d, d.luck.worn)
    <2>1. Intact(e, exact) /\ Untouched(d, e)
      BY <1>3, ReadIntact
    <2>2. e.obj = d.obj
      BY <2>1 DEF Untouched
    <2> QED
      BY <1>1, <2>1, <2>2 DEF Named
  <1> QED
    BY <1>1, <1>2, <1>3 DEF FindObjectByName

LEMMA TruncateCall ==
    ASSUME NEW d, NEW exact, Intact(d, exact), Named(d), NEW i \in Ids,
           d.obj[i].here, ~d.obj[i].deleted, NEW size \in Nat, size < d.obj[i].size
    PROVE  LET e == ResizeFile(d, i, size)
           IN  NearlyIntact(e, exact) /\ Named(e)
  BY ResizeIntact, KeptNamed

(* What may go wrong in the call does not matter to the files.              *)
LEMMA LuckCall ==
    ASSUME NEW d, NEW exact, Intact(d, exact), Named(d),
           NEW luck, luck.worn \in {0} \cup d.bits, luck.erase \in EraseAnswers,
           luck = [worn |-> luck.worn, erase |-> luck.erase]
    PROVE  LET e == [d EXCEPT !.luck = luck]
           IN  Intact(e, exact) /\ Named(e) /\ e.obj = d.obj
  <1>1. PICK e : e = [d EXCEPT !.luck = luck]
    OBVIOUS
  <1>2. Typed(d) /\ Sound(d, 0) /\ Ready(d)
    BY DEF Intact, Sound
  <1>3. luck \in Luck
    BY <1>2 DEF Luck, Typed
  <1>4. /\ e.obj = d.obj /\ e.luck = luck /\ e.stale = d.stale /\ e.nand = d.nand
        /\ e.images = d.images /\ e.info = d.info /\ e.bits = d.bits
        /\ e.erased = d.erased /\ e.ablock = d.ablock /\ e.result = d.result
        /\ e.apage = d.apage /\ e.finder = d.finder /\ e.checker = d.checker
    BY <1>1, <1>2 DEF Typed
  <1>5. Typed(e)
    <2>1. e = [d EXCEPT !.luck = e.luck]
      BY <1>1, <1>4
    <2> QED
      BY <1>2, <1>3, <1>4, <2>1 DEF Typed
  <1>6. Alike(d, e)
    BY <1>4 DEF Alike
  <1>7. Sound(e, 0) /\ Lasts(d, e, {}, {}) /\ Ready(e)
    BY <1>2, <1>5, <1>6, AlikeKeeps
  <1>8. Intact(e, exact)
    BY <1>4, <1>7, LastsIntact
  <1> QED
    BY <1>1, <1>4, <1>8 DEF Named

(* The end of a call.                                                      *)
LEMMA SettledCall ==
    ASSUME NEW d, NEW exact, Intact(d, exact), Named(d)
    PROVE  LET e == Settled(d)
           IN  Intact(e, exact) /\ Named(e) /\ e.stale = d.stale
  <1>1. PICK e : e = Settled(d)
    OBVIOUS
  <1>2. Typed(d) /\ Sound(d, 0) /\ Ready(d)
    BY DEF Intact, Sound
  <1>3. NoLuck \in Luck /\ {} \in SUBSET Nand
    BY DEF NoLuck, Luck
  <1>4. /\ e.obj = d.obj /\ e.luck = NoLuck /\ e.stale = d.stale /\ e.nand = d.nand
        /\ e.images = {} /\ e.info = d.info /\ e.bits = d.bits
        /\ e.erased = d.erased /\ e.ablock = d.ablock /\ e.result = TRUE
        /\ e.apage = d.apage /\ e.finder = d.finder /\ e.checker = d.checker
    BY <1>1, <1>2 DEF Typed, Settled
  <1>5. Typed(e)
    <2>1. e = [d EXCEPT !.images = e.images, !.result = e.result, !.luck = e.luck]
      BY <1>1, <1>4 DEF Settled
    <2> QED
      BY <1>2, <1>3, <1>4, <2>1 DEF Typed
  <1>6. \A b \in Blocks : Stated(e, b, 0) /\ Counted(e, b)
    BY <1>2, <1>4 DEF Sound, Stated, Counted, UsedIn
  <1>7. EmptyBlocks(e) = EmptyBlocks(d)
    BY <1>4 DEF EmptyBlocks
  <1>8. Sound(e, 0) /\ Ready(e)
    BY <1>2, <1>4, <1>5, <1>6, <1>7 DEF Sound, Ready
  <1>9. Lasts(d, e, {}, {})
    BY <1>4 DEF Lasts
  <1>10. Intact(e, exact)
    BY <1>4, <1>8, <1>9, LastsIntact
  <1> QED
    BY <1>1, <1>4, <1>10 DEF Named

-----------------------------------------------------------------------------
(* The scan.  What is known of an object as far as the pages were read, of *)
(* the device between two blocks, and of the block b in the midst, whose   *)
(* first k pages were read.                                                *)
Found(o) ==
    /\ ~o.here => o = NoObject
    /\ o.here => o.dir # "none"
    /\ ~o.soft
    /\ o.deleted => o.dir \in {"root", "unlinked"}
    /\ o.dir \in {"root", "unlinked"} => o.chunk # 0
    /\ Exact(o)

ScanBut(d, i) ==
    /\ Sound(d, 0) /\ ~d.stale /\ (d.ablock # 0 => d.apage > 0)
    /\ \A j \in Ids : j # i => Points(d, j) /\ Found(d.obj[j])

Scanning(d) ==
    /\ Sound(d, 0) /\ ~d.stale /\ (d.ablock # 0 => d.apage > 0)
    /\ \A j \in Ids : Points(d, j) /\ Found(d.obj[j])

ScanDone(d, b) ==
    \A q \in Blocks : IF q <= b THEN d.info[q].state # "UNKNOWN"
                      ELSE d.info[q].state = "UNKNOWN" /\ UsedIn(d, q) = {}

Midst(d, b, k) ==
    /\ \A q \in Blocks : q # b => IF q < b THEN d.info[q].state # "UNKNOWN"
                                  ELSE d.info[q].state = "UNKNOWN" /\ UsedIn(d, q) = {}
    /\ d.info[b].state = "UNKNOWN" /\ ~BadIn(d.nand, b)
    /\ \A c \in PagesOf(b) : IF Off(c) < k THEN ~Blank(d.nand, c) ELSE c \notin d.bits

NotAt(d, j, c) == d.obj[j].chunk # c /\ \A p \in Parts : FindChunkInFile(d, j, p) # c

LEMMA MidstLasts ==
    ASSUME NEW d, NEW b \in Blocks, NEW k, Midst(d, b, k), NEW e, NEW C,
           Unread(d, e, C), \A x \in C : x = 0 \/ d.nand[x].id # Unused,
           \A q \in Blocks : e.info[q].state = "UNKNOWN" => d.info[q].state = "UNKNOWN"
    PROVE  Midst(e, b, k)
  <1>1. ASSUME NEW q \in Blocks, q # b
        PROVE  IF q < b THEN e.info[q].state # "UNKNOWN"
               ELSE e.info[q].state = "UNKNOWN" /\ UsedIn(e, q) = {}
    BY <1>1 DEF Midst, Unread
  <1>2. /\ e.info[b].state = "UNKNOWN" /\ UsedIn(e, b) = UsedIn(d, b)
        /\ \A x \in PagesOf(b) :
              /\ x \notin C => e.nand[x] = d.nand[x]
              /\ e.nand[x].id = d.nand[x].id
              /\ e.nand[x].good = d.nand[x].good
    BY DEF Midst, Unread
  <1>3. ~BadIn(e.nand, b)
    BY <1>2, FirstPages DEF Midst, BadIn
  <1>4. ASSUME NEW c \in PagesOf(b)
        PROVE  IF Off(c) < k THEN ~Blank(e.nand, c) ELSE c \notin e.bits
    <2>1. CASE Off(c) < k
      <3>1. ~Blank(d.nand, c)
        BY <2>1 DEF Midst
      <3>2. c # 0
        BY ChunksAre DEF PagesOf
      <3>3. CASE c \in C
        BY <1>2, <2>1, <3>2, <3>3 DEF Blank
      <3>4. CASE c \notin C
        BY <1>2, <2>1, <3>1, <3>4 DEF Blank
      <3> QED
        BY <3>3, <3>4
    <2>2. CASE ~(Off(c) < k)
      BY <1>2, <2>2 DEF Midst, UsedIn
    <2> QED
      BY <2>1, <2>2
  <1> QED
    BY <1>1, <1>2, <1>3, <1>4 DEF Midst

(* An object is changed while the flash is scanned.                        *)
LEMMA ScanWith ==
    ASSUME NEW d, NEW i \in Ids, ScanBut(d, i), NEW b \in Blocks, NEW k, Midst(d, b, k),
           NEW r \in Object, Found(r), NEW e, e = With(d, i, r), Points(e, i)
    PROVE  /\ Scanning(e) /\ Midst(e, b, k) /\ e.obj[i] = r
           /\ e.nand = d.nand /\ e.bits = d.bits
           /\ \A j \in Ids : j # i => e.obj[j] = d.obj[j]
  <1>1. /\ Sound(e, 0) /\ Alike(d, e) /\ Unread(d, e, {}) /\ e.obj[i] = r
        /\ \A j \in Ids : j # i => e.obj[j] = d.obj[j]
        /\ e.stale = d.stale
    BY WithKeeps DEF ScanBut
  <1>2. /\ e.nand = d.nand /\ e.bits = d.bits /\ e.info = d.info
        /\ e.ablock = d.ablock /\ e.apage = d.apage
    BY <1>1 DEF Alike
  <1>3. ASSUME NEW j \in Ids
        PROVE  Points(e, j) /\ Found(e.obj[j])
    <2>1. CASE j = i
      BY <1>1, <2>1
    <2>2. CASE j # i
      BY <1>1, <2>2, AlikePoints DEF ScanBut
    <2> QED
      BY <2>1, <2>2
  <1>4. Scanning(e)
    BY <1>1, <1>2, <1>3 DEF Scanning, ScanBut
  <1>5. Midst(e, b, k)
    <2>1. PICK C : C = {}
      OBVIOUS
    <2>2. Unread(d, e, C) /\ \A x \in C : x = 0 \/ d.nand[x].id # Unused
      BY <1>1, <2>1
    <2> QED
      BY <1>2, <2>2, MidstLasts
  <1> QED
    BY <1>1, <1>2, <1>4, <1>5

(* A page is deleted while the flash is scanned.                           *)
ScanDeleted(d, e, c) ==
    /\ Sound(e, 0) /\ ~e.stale /\ (e.ablock # 0 => e.apage > 0) /\ e.obj = d.obj
    /\ Lasts(d, e, {c}, {})
    /\ \A j \in Ids : Found(e.obj[j]) /\ (NotAt(d, j, c) \/ c = 0 => Points(e, j))

LEMMA ScanDelete ==
    ASSUME NEW d, Scanning(d), NEW b \in Blocks, NEW k, Midst(d, b, k),
           NEW c, c = 0 \/ c \in d.bits, c # 0 => d.nand[c].id # Unused,
           NEW e, e = DeleteChunk(d, c, TRUE)
    PROVE  ScanDeleted(d, e, c) /\ Midst(e, b, k)
  <1>1. PICK mark \in BOOLEAN : mark = TRUE
    OBVIOUS
  <1>2. /\ Sound(e, 0) /\ Same(d, e) /\ Lasts(d, e, {c}, IF mark THEN {} ELSE {c})
        /\ Unread(d, e, {c})
    <2>1. c # 0 /\ d.info[BlockOf(c)].state = "UNKNOWN" => ~Blank(d.nand, c)
      BY DEF Blank
    <2>2. Sound(d, 0) /\ e = DeleteChunk(d, c, mark)
      BY <1>1 DEF Scanning
    <2> QED
      BY <2>1, <2>2, DeleteKeeps
  <1>3. Lasts(d, e, {c}, {})
    BY <1>1, <1>2
  <1>4. Typed(d) /\ Typed(e) /\ e.obj = d.obj /\ e.stale = d.stale
    BY <1>2 DEF Scanning, Sound, Same
  <1>5. Midst(e, b, k)
    <2>1. PICK C : C = {c}
      OBVIOUS
    <2>2. Unread(d, e, C) /\ \A x \in C : x = 0 \/ d.nand[x].id # Unused
      BY <1>2, <2>1
    <2>3. \A q \in Blocks : e.info[q].state = "UNKNOWN" => d.info[q].state = "UNKNOWN"
      BY <1>3 DEF Lasts
    <2> QED
      BY <2>2, <2>3, MidstLasts
  <1>6. ASSUME NEW j \in Ids, NotAt(d, j, c) \/ c = 0
        PROVE  Points(e, j)
    <2>1. PICK U : U = {}
      OBVIOUS
    <2>2. U \subseteq {c} /\ Lasts(d, e, {c}, U)
      BY <1>3, <2>1
    <2>3. c # 0 => d.obj[j].chunk # c
      BY <1>6 DEF NotAt
    <2>4. c # 0 => \A p \in Parts : FindChunkInFile(d, j, p) # c
      BY <1>6 DEF NotAt
    <2>5. Points(d, j)
      BY DEF Scanning
    <2> QED
      BY <1>2, <1>4, <2>2, <2>3, <2>4, <2>5, DeletePoints
  <1> QED
    BY <1>2, <1>3, <1>4, <1>5, <1>6 DEF ScanDeleted, Scanning, Same

(* A page is taken into use.                                               *)
LEMMA InUseKeeps ==
    ASSUME NEW d, Sound(d, 0), NEW c \in Chunks, c \notin d.bits,
           d.info[BlockOf(c)].state = "UNKNOWN", NEW e, e = InUse(d, c)
    PROVE  /\ Sound(e, 0) /\ Same(d, e) /\ e.nand = d.nand /\ e.bits = d.bits \cup {c}
           /\ \A q \in Blocks : e.info[q].state = d.info[q].state
           /\ \A q \in Blocks : q # BlockOf(c) => UsedIn(e, q) = UsedIn(d, q)
           /\ Lasts(d, e, {}, {})
  <1> DEFINE b == BlockOf(c)
             info == [d.info EXCEPT ![b].inUse = @ + 1]
             bits == d.bits \cup {c}
  <1>1. /\ Typed(d) /\ b \in Blocks /\ c \in PagesOf(b) /\ d.info[b] \in Info
        /\ d.info \in [Blocks -> Info] /\ d.bits \subseteq Chunks /\ d.info[b].inUse \in Int
    BY ChunksAre DEF Sound, Typed, Info
  <1>2. /\ info \in [Blocks -> Info] /\ info[b].inUse = d.info[b].inUse + 1
        /\ \A q \in Blocks : /\ info[q].state = d.info[q].state
                             /\ q # b => info[q] = d.info[q]
    <2>1. info[b] = [d.info[b] EXCEPT !.inUse = d.info[b].inUse + 1]
      BY <1>1
    <2>2. /\ info[b] \in Info /\ info[b].inUse = d.info[b].inUse + 1
          /\ info[b].state = d.info[b].state
      BY <1>1, <2>1 DEF Info
    <2>3. \A q \in Blocks : q # b => info[q] = d.info[q]
      BY <1>1
    <2>4. info \in [Blocks -> Info]
      BY <1>1, <2>2, <2>3
    <2> QED
      BY <2>2, <2>3, <2>4
  <1>3. e = [d EXCEPT !.bits = bits, !.info = info]
    BY <1>1 DEF InUse, Typed
  <1> HIDE DEF info, bits
  <1>4. /\ e.obj = d.obj /\ e.luck = d.luck /\ e.stale = d.stale /\ e.nand = d.nand
        /\ e.images = d.images /\ e.info = info /\ e.bits = bits
        /\ e.erased = d.erased /\ e.ablock = d.ablock /\ e.result = d.result
        /\ e.apage = d.apage /\ e.finder = d.finder /\ e.checker = d.checker
    BY <1>1, <1>3 DEF Typed
  <1>5. bits \subseteq Chunks
    BY <1>1 DEF bits
  <1>6. Typed(e)
    <2>1. e = [d EXCEPT !.bits = e.bits, !.info = e.info]
      BY <1>3, <1>4
    <2> QED
      BY <1>1, <1>2, <1>4, <1>5, <2>1 DEF Typed
  <1>7. /\ UsedIn(e, b) = UsedIn(d, b) \cup {c}
        /\ \A q \in Blocks : q # b => UsedIn(e, q) = UsedIn(d, q)
    BY <1>1, <1>4 DEF UsedIn, bits, PagesOf
  <1>8. Cardinality(UsedIn(e, b)) = Cardinality(UsedIn(d, b)) + 1
    <2>1. IsFiniteSet(UsedIn(d, b)) /\ c \notin UsedIn(d, b)
      <3>1. UsedIn(d, b) = UsedIn(d, b) \cap Chunks
        BY <1>1 DEF UsedIn, PagesOf
      <3> QED
        BY <3>1, Finite DEF UsedIn
    <2> QED
      BY <1>7, <2>1, FS_AddElement
  <1>9. ASSUME NEW q \in Blocks
        PROVE  Stated(e, q, 0) /\ Counted(e, q)
    <2>1. Stated(d, q, 0) /\ Counted(d, q)
      BY DEF Sound
    <2>2. Stated(e, q, 0)
      BY <1>2, <1>4, <2>1 DEF Stated
    <2>3. CASE q = b
      <3>1. d.info[b].inUse = Cardinality(UsedIn(d, b)) /\ d.ablock # b
        BY <2>1, <2>3 DEF Counted
      <3> QED
        BY <1>2, <1>4, <1>8, <2>2, <2>3, <3>1 DEF Counted
    <2>4. CASE q # b
      BY <1>2, <1>4, <1>7, <2>1, <2>2, <2>4 DEF Counted
    <2> QED
      BY <2>3, <2>4
  <1>10. EmptyBlocks(e) = EmptyBlocks(d)
    BY <1>2, <1>4 DEF EmptyBlocks
  <1>11. Sound(e, 0)
    BY <1>4, <1>6, <1>9, <1>10 DEF Sound
  <1> QED
    BY <1>2, <1>4, <1>7, <1>11 DEF Same, Lasts, bits

(* The next page of the block is in use, and nothing points at it yet.     *)
LEMMA ScanInUse ==
    ASSUME NEW d, Scanning(d), NEW b \in Blocks, NEW k, Midst(d, b, k), k \in Nat,
           NEW c \in PagesOf(b), Off(c) = k, ~Blank(d.nand, c), NEW e, e = InUse(d, c)
    PROVE  /\ Scanning(e) /\ Midst(e, b, k + 1) /\ c \in e.bits /\ e.nand = d.nand
           /\ \A j \in Ids : NotAt(e, j, c)
  <1>1. c \in Chunks /\ BlockOf(c) = b /\ c # 0
    BY ChunksAre DEF PagesOf
  <1>2. c \notin d.bits /\ d.info[b].state = "UNKNOWN"
    BY DEF Midst
  <1>3. /\ Sound(e, 0) /\ Same(d, e) /\ e.nand = d.nand /\ e.bits = d.bits \cup {c}
        /\ \A q \in Blocks : e.info[q].state = d.info[q].state
        /\ \A q \in Blocks : q # b => UsedIn(e, q) = UsedIn(d, q)
    BY <1>1, <1>2, InUseKeeps DEF Scanning
  <1>4. e.obj = d.obj /\ e.stale = d.stale /\ e.ablock = d.ablock /\ e.apage = d.apage
    BY <1>3 DEF Same
  <1>5. ASSUME NEW j \in Ids
        PROVE  Points(e, j) /\ NotAt(e, j, c) /\ Found(e.obj[j])
    <2>1. Points(d, j) /\ Found(d.obj[j])
      BY DEF Scanning
    <2>2. Header(e, j) /\ e.obj[j].chunk # c
      BY <1>1, <1>2, <1>3, <1>4, <2>1 DEF Points, Header
    <2>3. ASSUME NEW p \in Parts
          PROVE  Leaf(e, j, p) /\ FindChunkInFile(e, j, p) # c
      <3>1. FindChunkInFile(e, j, p) = FindChunkInFile(d, j, p)
        BY <1>3, <1>4 DEF FindChunkInFile
      <3>2. Leaf(d, j, p) /\ FindChunkInFile(d, j, p) \in {0, d.obj[j].tree[p]}
        BY <2>1, FindIs DEF Points, Scanning, Sound
      <3> QED
        BY <1>1, <1>2, <1>3, <1>4, <3>1, <3>2 DEF Leaf
    <2> QED
      BY <1>4, <2>1, <2>2, <2>3 DEF Points, NotAt
  <1>6. Scanning(e)
    BY <1>3, <1>4, <1>5 DEF Scanning
  <1>7. Midst(e, b, k + 1)
    <2>1. ASSUME NEW x \in PagesOf(b)
          PROVE  IF Off(x) < k + 1 THEN ~Blank(e.nand, x) ELSE x \notin e.bits
      <3>1. x \in Chunks /\ BlockOf(x) = b /\ Off(x) \in Nat
        BY ChunksAre DEF PagesOf
      <3>2. CASE x = c
        BY <1>3, <3>1, <3>2 DEF Blank
      <3>3. CASE x # c
        <4>1. Off(x) # k
          BY <1>1, <3>1, <3>3, SameOff
        <4>2. Off(x) < k + 1 <=> Off(x) < k
          BY <3>1, <4>1
        <4> QED
          BY <1>3, <3>3, <4>2 DEF Midst, Blank
      <3> QED
        BY <3>2, <3>3
    <2> QED
      BY <1>1, <1>3, <2>1 DEF Midst
  <1> QED
    BY <1>3, <1>5, <1>6, <1>7

(* The object of a page is created unless it is there.                     *)
LEMMA NewObjectIs ==
    /\ NewObject \in Object /\ Found(NewObject) /\ NewObject.here /\ NewObject.chunk = 0
    /\ \A p \in Parts : NewObject.tree[p] = 0
  <1>1. /\ NewObject.here /\ ~NewObject.deleted /\ ~NewObject.soft
        /\ NewObject.dir = "lost+found" /\ NewObject.chunk = 0 /\ NewObject.n = 0
        /\ \A p \in Parts : NewObject.tree[p] = 0
    BY DEF NewObject, NoObject
  <1>2. NewObject \in Object
    BY NoObjectIs DEF NewObject, Object
  <1>3. UsedParts(NewObject) = {}
    BY <1>1 DEF UsedParts
  <1> QED
    BY <1>1, <1>2, <1>3, FS_EmptySet DEF Found, Exact

Created(d, e, b, k, i, c) ==
    /\ Scanning(e) /\ Midst(e, b, k) /\ e.obj[i].here /\ e.nand = d.nand
    /\ e.bits = d.bits /\ \A j \in Ids : NotAt(e, j, c)

LEMMA ScanCreate ==
    ASSUME NEW d, Scanning(d), NEW b \in Blocks, NEW k, Midst(d, b, k), NEW i \in Ids,
           NEW c, c # 0, \A j \in Ids : NotAt(d, j, c), NEW e, e = FindOrCreateObject(d, i)
    PROVE  Created(d, e, b, k, i, c)
  <1>1. CASE d.obj[i].here
    BY <1>1 DEF FindOrCreateObject, Created
  <1>2. CASE ~d.obj[i].here
    <2>1. PICK r : r = NewObject
      OBVIOUS
    <2>2. e = With(d, i, r)
      BY <1>2, <2>1 DEF FindOrCreateObject, With
    <2>3. /\ r \in Object /\ Found(r) /\ r.here /\ r.chunk = 0
          /\ \A p \in Parts : r.tree[p] = 0
      BY <2>1, NewObjectIs
    <2>4. ScanBut(d, i) /\ Sound(d, 0)
      BY DEF Scanning, ScanBut
    <2>5. e.obj[i] = r
      BY <2>2, <2>3, <2>4, WithKeeps
    <2>6. Header(e, i) /\ \A p \in Parts : Leaf(e, i, p) /\ FindChunkInFile(e, i, p) = 0
      BY <2>3, <2>5, NoneHead, NoneLeaf
    <2>7. Points(e, i)
      BY <2>6 DEF Points
    <2>8. /\ Scanning(e) /\ Midst(e, b, k)
          /\ e.nand = d.nand /\ e.bits = d.bits
          /\ \A j \in Ids : j # i => e.obj[j] = d.obj[j]
      BY <2>2, <2>3, <2>4, <2>7, ScanWith
    <2>9. ASSUME NEW j \in Ids
          PROVE  NotAt(e, j, c)
      <3>1. CASE j = i
        BY <2>3, <2>5, <2>6, <3>1 DEF NotAt
      <3>2. CASE j # i
        <4>1. \A p \in Parts : FindChunkInFile(e, j, p) = FindChunkInFile(d, j, p)
          BY <2>8, <3>2 DEF FindChunkInFile
        <4> QED
          BY <2>8, <3>2, <4>1 DEF NotAt
      <3> QED
        BY <3>1, <3>2
    <2> QED
      BY <2>3, <2>5, <2>8, <2>9 DEF Created
  <1> QED
    BY <1>1, <1>2

(* Reading a header may mark its block.                                    *)
LEMMA ScanRead ==
    ASSUME NEW d, Scanning(d), NEW b \in Blocks, NEW k, Midst(d, b, k),
           NEW c, \A j \in Ids : NotAt(d, j, c), NEW e, e = ReadData(d, c)
    PROVE  /\ Scanning(e) /\ Midst(e, b, k) /\ e.nand = d.nand
           /\ e.bits = d.bits /\ \A j \in Ids : NotAt(e, j, c)
  <1>1. /\ Sound(e, 0) /\ Same(d, e) /\ Unread(d, e, {}) /\ e.nand = d.nand /\ e.bits = d.bits
        /\ \A q \in Blocks : e.info[q].state = d.info[q].state
    BY ReadKeeps DEF Scanning
  <1>2. e.obj = d.obj /\ e.stale = d.stale /\ e.ablock = d.ablock /\ e.apage = d.apage
    BY <1>1 DEF Same
  <1>3. Midst(e, b, k)
    <2>1. PICK C : C = {}
      OBVIOUS
    <2>2. Unread(d, e, C) /\ \A x \in C : x = 0 \/ d.nand[x].id # Unused
      BY <1>1, <2>1
    <2> QED
      BY <1>1, <2>2, MidstLasts
  <1>4. ASSUME NEW j \in Ids
        PROVE  Points(e, j) /\ NotAt(e, j, c) /\ Found(e.obj[j])
    <2>1. Points(d, j) /\ Found(d.obj[j])
      BY DEF Scanning
    <2>2. Header(e, j) /\ e.obj[j].chunk = d.obj[j].chunk
      BY <1>1, <1>2, <2>1 DEF Points, Header
    <2>3. \A p \in Parts : FindChunkInFile(e, j, p) = FindChunkInFile(d, j, p)
      BY <1>1, <1>2 DEF FindChunkInFile
    <2>4. \A p \in Parts : Leaf(e, j, p)
      BY <1>1, <1>2, <2>1, <2>3 DEF Points, Leaf
    <2> QED
      BY <1>2, <2>1, <2>2, <2>3, <2>4 DEF Points, NotAt
  <1> QED
    BY <1>1, <1>2, <1>3, <1>4 DEF Scanning

(* A data page claims its place in the tree.                               *)
Placed(d, e, x, i, p, c, r, f) ==
    /\ Typed(d) /\ Typed(e) /\ e.obj = d.obj /\ ~d.stale /\ Lasts(d, e, {x}, {})
    /\ Points(d, i) /\ (x # 0 => x = FindChunkInFile(d, i, p)) /\ e.stale = d.stale
    /\ c \in e.bits /\ c # 0 /\ e.nand[c].id = i /\ e.nand[c].part = p /\ e.nand[c].live
    /\ r.chunk = d.obj[i].chunk /\ r.tree[p] = c
    /\ \A q \in Parts : q # p => r.tree[q] = d.obj[i].tree[q]
    /\ f.nand = e.nand /\ f.bits = e.bits /\ f.stale = e.stale /\ f.obj[i] = r /\ Typed(f)

LEMMA PutOther ==
    ASSUME NEW d, NEW e, NEW x, NEW i \in Ids, NEW p \in Parts, NEW c, NEW r, NEW f,
           Placed(d, e, x, i, p, c, r, f)
    PROVE  Points(f, i)
  <1>0. /\ Typed(d) /\ Typed(e) /\ e.obj = d.obj /\ ~d.stale /\ Lasts(d, e, {x}, {})
        /\ Points(d, i) /\ (x # 0 => x = FindChunkInFile(d, i, p)) /\ e.stale = d.stale
        /\ c \in e.bits /\ c # 0 /\ e.nand[c].id = i /\ e.nand[c].part = p /\ e.nand[c].live
        /\ r.chunk = d.obj[i].chunk /\ r.tree[p] = c
        /\ \A q \in Parts : q # p => r.tree[q] = d.obj[i].tree[q]
        /\ f.nand = e.nand /\ f.bits = e.bits /\ f.stale = e.stale /\ f.obj[i] = r /\ Typed(f)
    BY DEF Placed
  <1>1. d.obj[i].chunk # 0 => d.obj[i].chunk # x
    <2>1. SUFFICES ASSUME x # 0, d.obj[i].chunk = x PROVE FALSE
      OBVIOUS
    <2>2. d.nand[x].part = p
      BY <1>0, <2>1, FindIs
    <2>3. d.nand[x].part = 0 /\ p # 0
      BY <1>0, <2>1, DeviceAssumption DEF Points, Header
    <2> QED
      BY <1>0, <2>2, <2>3
  <1>2. Header(e, i)
    BY <1>0, <1>1, HeadLasts DEF Points
  <1>3. Header(f, i)
    BY <1>0, <1>2 DEF Header
  <1>4. ASSUME NEW q \in Parts
        PROVE  Leaf(f, i, q)
    <2>1. CASE q = p
      <3>1. FindChunkInFile(f, i, q) = c
        BY <1>0, <2>1 DEF FindChunkInFile
      <3> QED
        BY <1>0, <2>1, <3>1 DEF Leaf
    <2>2. CASE q # p
      <3>1. FindChunkInFile(d, i, q) # 0 => d.obj[i].tree[q] # x
        <4>1. SUFFICES ASSUME FindChunkInFile(d, i, q) # 0, d.obj[i].tree[q] = x PROVE FALSE
          OBVIOUS
        <4>2. x # 0 /\ d.nand[x].part = q
          BY <1>0, <4>1, FindIs
        <4>3. d.nand[x].part = p
          BY <1>0, <4>2, FindIs
        <4> QED
          BY <1>0, <2>2, <4>2, <4>3
      <3>2. Leaf(e, i, q)
        <4>1. Leaf(d, i, q)
          BY <1>0 DEF Points
        <4>2. PICK U : U = {}
          OBVIOUS
        <4>3. Lasts(d, e, {x}, U)
          BY <1>0, <4>2
        <4>4. FindChunkInFile(d, i, q) # 0 =>
                  d.obj[i].tree[q] \notin U /\ (e.stale \/ d.obj[i].tree[q] \notin {x})
          BY <1>0, <3>1, <4>2
        <4> QED
          BY <1>0, <4>1, <4>3, <4>4, LeafLasts
      <3>3. f.obj[i].tree[q] = e.obj[i].tree[q]
        BY <1>0, <2>2
      <3>4. FindChunkInFile(f, i, q) = FindChunkInFile(e, i, q)
        BY <1>0, <3>3 DEF FindChunkInFile
      <3> QED
        BY <1>0, <3>2, <3>3, <3>4 DEF Leaf
    <2> QED
      BY <1>0, <2>1, <2>2
  <1> QED
    BY <1>0, <1>3, <1>4 DEF Points

PutIn(d, i, p, c) == [d EXCEPT !.obj[i].tree[p] = c]
OneMore(d, i) == [d EXCEPT !.obj[i].n = @ + 1]

LEMMA PutWith ==
    ASSUME NEW d, Typed(d), NEW i \in Ids, NEW p \in Parts, NEW c \in Chunks
    PROVE  LET o == d.obj[i]
           IN  /\ PutIn(d, i, p, c) = With(d, i, Branch(o, p, c, o.n))
               /\ OneMore(PutIn(d, i, p, c), i) = With(d, i, Branch(o, p, c, o.n + 1))
  <1>1. PICK o : o = d.obj[i]
    OBVIOUS
  <1>2. o \in Object
    BY <1>1, ObjectIs
  <1>3. PICK m : m = [o EXCEPT !.tree = [o.tree EXCEPT ![p] = c]]
    OBVIOUS
  <1>4. With(d, i, m) = [d EXCEPT !.obj[i].tree[p] = c]
    BY <1>1, <1>3 DEF With
  <1>5. m = Branch(o, p, c, o.n)
    BY <1>2, <1>3 DEF Branch, Object
  <1>6. [m EXCEPT !.n = m.n + 1] = Branch(o, p, c, o.n + 1)
    BY <1>2, <1>3 DEF Branch, Object
  <1>7. PICK r : r = Branch(o, p, c, o.n + 1)
    OBVIOUS
  <1>8. With(d, i, m).obj[i] = m /\ With(With(d, i, m), i, r) = With(d, i, r)
    BY WithTwice
  <1>9. PICK w : w = With(d, i, m)
    OBVIOUS
  <1>10. OneMore(w, i) = With(w, i, [w.obj[i] EXCEPT !.n = @ + 1])
    BY DEF With, OneMore
  <1>11. OneMore(w, i) = With(d, i, r)
    BY <1>6, <1>7, <1>8, <1>9, <1>10
  <1>12. w = PutIn(d, i, p, c)
    BY <1>4, <1>9 DEF PutIn
  <1> QED
    BY <1>1, <1>5, <1>7, <1>9, <1>11, <1>12

(* d before the page that had the place is deleted, g after that.          *)
Claim(d, g, b, k, i, p, x, c, n) ==
    /\ Typed(d) /\ ~d.stale /\ Sound(g, 0) /\ ~g.stale /\ (g.ablock # 0 => g.apage > 0)
    /\ g.obj = d.obj /\ Midst(g, b, k) /\ Lasts(d, g, {x}, {})
    /\ x # 0 => x = FindChunkInFile(d, i, p)
    /\ \A j \in Ids : j # i => Points(g, j)
    /\ \A j \in Ids : Found(g.obj[j])
    /\ Points(d, i) /\ c \in Chunks /\ c \in d.bits /\ c # x /\ d.obj[i].here
    /\ d.nand[c].id = i /\ d.nand[c].part = p /\ d.nand[c].live
    /\ n = IF d.obj[i].tree[p] = 0 THEN d.obj[i].n + 1 ELSE d.obj[i].n

LEMMA ScanPlace ==
    ASSUME NEW d, NEW g, NEW b \in Blocks, NEW k, NEW i \in Ids, NEW p \in Parts,
           NEW x, NEW c, NEW n, Claim(d, g, b, k, i, p, x, c, n)
    PROVE  LET e == With(g, i, Branch(d.obj[i], p, c, n))
           IN  Scanning(e) /\ Midst(e, b, k) /\ e.obj[i].here
  <1>0. /\ Typed(d) /\ ~d.stale /\ Sound(g, 0) /\ ~g.stale /\ (g.ablock # 0 => g.apage > 0)
        /\ g.obj = d.obj /\ Midst(g, b, k) /\ Lasts(d, g, {x}, {})
        /\ x # 0 => x = FindChunkInFile(d, i, p)
        /\ \A j \in Ids : j # i => Points(g, j)
        /\ \A j \in Ids : Found(g.obj[j])
        /\ Points(d, i) /\ c \in Chunks /\ c \in d.bits /\ c # x /\ d.obj[i].here
        /\ d.nand[c].id = i /\ d.nand[c].part = p /\ d.nand[c].live
        /\ n = IF d.obj[i].tree[p] = 0 THEN d.obj[i].n + 1 ELSE d.obj[i].n
    BY DEF Claim
  <1>1. PICK o : o = d.obj[i]
    OBVIOUS
  <1>2. PICK r : r = Branch(o, p, c, n)
    OBVIOUS
  <1>3. PICK e : e = With(g, i, r)
    OBVIOUS
  <1>4. o \in Object /\ c # 0 /\ i # Unused /\ Found(o) /\ o.here
    BY <1>0, <1>1, ObjectIs, ChunksAre, DeviceAssumption
  <1>5. /\ r \in Object /\ r.here = o.here /\ r.deleted = o.deleted /\ r.soft = o.soft
        /\ r.dir = o.dir /\ r.chunk = o.chunk /\ r.tree[p] = c
        /\ \A q \in Parts : q # p => r.tree[q] = o.tree[q]
        /\ Exact(o) => Exact(r)
    <2>1. o \in Object /\ n = IF o.tree[p] = 0 THEN o.n + 1 ELSE o.n
      BY <1>0, <1>1, <1>4
    <2> QED
      BY SMTT(30), <1>0, <1>2, <2>1, PutObject
  <1>6. Found(r)
    BY <1>0, <1>4, <1>5 DEF Found
  <1>7. Typed(g) /\ ScanBut(g, i)
    BY <1>0 DEF Sound, ScanBut
  <1>8. /\ Sound(e, 0) /\ Alike(g, e) /\ e.obj[i] = r /\ e.stale = g.stale
    <2>1. r \in Object
      BY <1>0, <1>5
    <2> QED
      BY <1>0, <1>3, <2>1, WithKeeps
  <1>9. Typed(e) /\ e.nand = g.nand /\ e.bits = g.bits
    BY <1>0, <1>8 DEF Sound, Alike
  <1>10. c \in g.bits /\ g.nand[c] = d.nand[c] /\ c # 0
    BY <1>0, <1>4 DEF Lasts
  <1>11. r.chunk = d.obj[i].chunk /\ \A q \in Parts : q # p => r.tree[q] = d.obj[i].tree[q]
    BY <1>0, <1>1, <1>5
  <1>12. g.nand[c].id = i /\ g.nand[c].part = p /\ g.nand[c].live /\ r.tree[p] = c
    BY <1>0, <1>5, <1>10
  <1>13. g.stale = d.stale
    BY <1>0, <1>7 DEF Typed
  <1>14. Points(e, i)
    <2>1. Placed(d, g, x, i, p, c, r, e)
      BY <1>0, <1>7, <1>8, <1>9, <1>10, <1>11, <1>12, <1>13 DEF Placed
    <2> QED
      BY <2>1, PutOther
  <1>15. Scanning(e) /\ Midst(e, b, k) /\ e.obj[i] = r
    <2>1. r \in Object
      BY <1>0, <1>5
    <2> QED
      BY <1>0, <1>3, <1>6, <1>7, <1>14, <2>1, ScanWith
  <1> QED
    BY <1>0, <1>1, <1>2, <1>3, <1>4, <1>5, <1>15

LEMMA ScanPut ==
    ASSUME NEW d, Scanning(d), NEW b \in Blocks, NEW k, Midst(d, b, k), NEW i \in Ids,
           NEW p \in Parts, NEW c \in d.bits, \A j \in Ids : NotAt(d, j, c), d.obj[i].here,
           d.nand[c].id = i, d.nand[c].part = p, d.nand[c].live
    PROVE  LET e == PutChunkIntoFile(d, i, p, c, TRUE)
           IN  Scanning(e) /\ Midst(e, b, k) /\ e.obj[i].here
  <1>0. PICK e : e = PutChunkIntoFile(d, i, p, c, TRUE)
    OBVIOUS
  <1>1. PICK o : o = d.obj[i]
    OBVIOUS
  <1>2. PICK x : x = FindChunkInFile(d, i, p)
    OBVIOUS
  <1>3. /\ Sound(d, 0) /\ Typed(d) /\ o \in Object /\ Points(d, i)
        /\ ~d.stale /\ c \in Chunks /\ c # 0 /\ i # Unused
    <2>1. Sound(d, 0) /\ Typed(d) /\ Points(d, i) /\ ~d.stale
      BY DEF Scanning, Sound
    <2>2. c \in Chunks
      BY <2>1 DEF Typed
    <2> QED
      BY <1>1, <2>1, <2>2, ObjectIs, ChunksAre, DeviceAssumption
  <1>4. /\ x \in {0, o.tree[p]} /\ (o.tree[p] # 0 => x # 0) /\ x # c
        /\ x # 0 => x \in d.bits /\ d.nand[x].id = i
    <2>1. Leaf(d, i, p)
      BY <1>3 DEF Points
    <2>2. x # c
      BY <1>2, <1>3 DEF NotAt
    <2> QED
      BY <1>1, <1>2, <1>3, <2>1, <2>2, FindIs DEF Leaf
  <1>5. PICK n : n = IF o.tree[p] = 0 THEN o.n + 1 ELSE o.n
    OBVIOUS
  <1>6. n = IF d.obj[i].tree[p] = 0 THEN d.obj[i].n + 1 ELSE d.obj[i].n
    BY <1>1, <1>5
  <1>7. c \in Chunks /\ c \in d.bits /\ c # x /\ (x # 0 => x = FindChunkInFile(d, i, p))
    BY <1>2, <1>3, <1>4
  <1>10. CASE o.tree[p] = 0
    <2>1. e = With(d, i, Branch(d.obj[i], p, c, n))
      <3>1. e = OneMore(PutIn(d, i, p, c), i)
        BY <1>0, <1>1, <1>10 DEF PutChunkIntoFile, OneMore, PutIn
      <3>2. n = d.obj[i].n + 1
        BY <1>6, <1>1, <1>10
      <3> QED
        BY <1>3, <3>1, <3>2, PutWith
    <2>2. Lasts(d, d, {x}, {})
      BY DEF Lasts
    <2>3. d.ablock # 0 => d.apage > 0
      BY DEF Scanning
    <2>4. /\ \A j \in Ids : j # i => Points(d, j)
          /\ \A j \in Ids : Found(d.obj[j])
      BY DEF Scanning
    <2>5. Claim(d, d, b, k, i, p, x, c, n)
      BY <1>3, <1>6, <1>7, <2>2, <2>3, <2>4 DEF Claim
    <2> QED
      BY ZenonT(40), <1>0, <2>1, <2>5, ScanPlace
  <1>11. CASE o.tree[p] # 0 /\ (d.nand[x].serial + 1) % 4 = d.nand[c].serial
    <2>1. PICK g : g = DeleteChunk(d, x, TRUE)
      OBVIOUS
    <2>2. ScanDeleted(d, g, x) /\ Midst(g, b, k)
      <3>1. (x = 0 \/ x \in d.bits) /\ (x # 0 => d.nand[x].id # Unused)
        BY <1>3, <1>4
      <3> QED
        BY <2>1, <3>1, ScanDelete
    <2>3. g.obj = d.obj /\ Typed(g)
      BY <2>2 DEF ScanDeleted, Sound
    <2>4. e = With(g, i, Branch(d.obj[i], p, c, n))
      <3>1. e = PutIn(g, i, p, c)
        <4>1. /\ d.obj[i].tree[p] # 0
              /\ (d.nand[FindChunkInFile(d, i, p)].serial + 1) % 4 = d.nand[c].serial
          BY <1>1, <1>2, <1>11
        <4> QED
          BY <1>0, <1>2, <2>1, <4>1 DEF PutChunkIntoFile, PutIn
      <3>2. e = With(g, i, Branch(g.obj[i], p, c, g.obj[i].n))
        BY <1>3, <2>3, <3>1, PutWith
      <3>3. g.obj[i] = d.obj[i] /\ n = d.obj[i].n
        BY <1>1, <1>6, <1>11, <2>3
      <3> QED
        BY <3>2, <3>3
    <2>5. ASSUME NEW j \in Ids, j # i
          PROVE  Points(g, j)
      <3>1. x # 0 => NotAt(d, j, x)
        <4>1. SUFFICES ASSUME x # 0 PROVE NotAt(d, j, x)
          OBVIOUS
        <4>2. x \in Chunks /\ d.nand[x].id # j
          BY <1>3, <1>4, <2>5, <4>1 DEF Typed
        <4>3. Header(d, j)
          BY DEF Scanning, Points
        <4> QED
          BY <1>3, <4>2, <4>3, Distinct DEF NotAt
      <3> QED
        BY <2>2, <3>1 DEF ScanDeleted
    <2>6. /\ Sound(g, 0) /\ ~g.stale /\ (g.ablock # 0 => g.apage > 0) /\ Lasts(d, g, {x}, {})
          /\ \A j \in Ids : Found(g.obj[j])
      BY <2>2 DEF ScanDeleted
    <2>7. Claim(d, g, b, k, i, p, x, c, n)
      BY <1>3, <1>6, <1>7, <2>2, <2>3, <2>5, <2>6 DEF Claim
    <2> QED
      BY ZenonT(40), <1>0, <2>4, <2>7, ScanPlace
  <1>12. CASE o.tree[p] # 0 /\ (d.nand[x].serial + 1) % 4 # d.nand[c].serial
    <2>1. e = DeleteChunk(d, c, TRUE)
      BY <1>0, <1>1, <1>2, <1>4, <1>12 DEF PutChunkIntoFile
    <2>2. ScanDeleted(d, e, c) /\ Midst(e, b, k)
      BY <1>3, <2>1, ScanDelete
    <2> QED
      BY <1>0, <2>2 DEF ScanDeleted, Scanning
  <1> QED
    BY <1>10, <1>11, <1>12

LEMMA ScanSized ==
    ASSUME NEW d, Scanning(d), NEW b \in Blocks, NEW k, Midst(d, b, k), NEW i \in Ids,
           NEW p \in Parts, d.obj[i].here, NEW e, e = [d EXCEPT !.obj[i].size = Max({@, p})]
    PROVE  Scanning(e) /\ Midst(e, b, k)
  <1>1. Sound(d, 0) /\ Typed(d) /\ d.obj[i] \in Object /\ Points(d, i) /\ Found(d.obj[i])
    BY ObjectIs DEF Scanning, Sound
  <1>2. PICK size : size = Max({d.obj[i].size, p})
    OBVIOUS
  <1>3. size \in {0} \cup Parts
    <2>1. d.obj[i].size \in {0} \cup Parts
      BY <1>1 DEF Object
    <2>2. d.obj[i].size \in Int /\ p \in Int
      BY <2>1, DeviceAssumption
    <2> QED
      BY <1>2, <2>1, <2>2, LargerIs
  <1>4. PICK r : r = Ended(d.obj[i], size)
    OBVIOUS
  <1>5. r \in Object /\ SameFile(d.obj[i], r) /\ r.n = d.obj[i].n
    BY <1>1, <1>3, <1>4, EndedIs
  <1>6. e = With(d, i, r)
    BY <1>2, <1>4 DEF With, Ended
  <1>7. Found(r)
    <2>1. UsedParts(r) = UsedParts(d.obj[i])
      BY <1>5 DEF SameFile, UsedParts
    <2>2. Exact(r)
      BY <1>1, <1>5, <2>1 DEF Found, SameFile, Exact
    <2>3. r.here /\ r.dir = d.obj[i].dir /\ r.soft = d.obj[i].soft /\ r.chunk = d.obj[i].chunk
          /\ r.deleted = d.obj[i].deleted
      BY <1>5 DEF SameFile
    <2> QED
      BY <1>1, <2>2, <2>3 DEF Found
  <1>8. Points(e, i)
    <2>1. Alike(d, e) /\ e.stale = d.stale /\ e.obj[i] = r
      <3>1. PICK f : f = With(d, i, r)
        OBVIOUS
      <3>2. Sound(d, 0) /\ r \in Object
        BY <1>1, <1>5
      <3>3. Alike(d, f) /\ f.stale = d.stale /\ f.obj[i] = r
        BY <3>1, <3>2, WithKeeps
      <3> QED
        BY <1>6, <3>1, <3>3
    <2> QED
      BY <1>1, <1>5, <2>1, SameFilePoints
  <1>9. ScanBut(d, i)
    BY DEF Scanning, ScanBut
  <1> QED
    BY <1>5, <1>6, <1>7, <1>8, <1>9, ScanWith

(* A data page is read.                                                    *)
LEMMA ScanDataKeeps ==
    ASSUME NEW d, Scanning(d), NEW b \in Blocks, NEW k, Midst(d, b, k), k \in Nat,
           NEW c \in PagesOf(b), Off(c) = k, d.nand[c].live, d.nand[c].id \in Ids,
           d.nand[c].part \in Parts
    PROVE  LET e == ScanData(d, c)
           IN  Scanning(e) /\ Midst(e, b, k + 1)
  <1>0. PICK e : e = ScanData(d, c)
    OBVIOUS
  <1>1. PICK i \in Ids : i = d.nand[c].id
    OBVIOUS
  <1>2. PICK p \in Parts : p = d.nand[c].part
    OBVIOUS
  <1>3. PICK f : f = InUse(d, c)
    OBVIOUS
  <1>4. PICK g : g = FindOrCreateObject(f, i)
    OBVIOUS
  <1>5. PICK h : h = PutChunkIntoFile(g, i, p, c, TRUE)
    OBVIOUS
  <1>6. PICK m : m = k + 1
    OBVIOUS
  <1>7. e = [h EXCEPT !.obj[i].size = Max({@, p})]
    BY <1>0, <1>1, <1>2, <1>3, <1>4, <1>5 DEF ScanData
  <1>8. c # 0 /\ ~Blank(d.nand, c)
    BY <1>1, ChunksAre, DeviceAssumption DEF Blank, PagesOf
  <1>9. /\ Scanning(f) /\ Midst(f, b, m) /\ c \in f.bits /\ f.nand = d.nand
        /\ \A j \in Ids : NotAt(f, j, c)
    BY <1>3, <1>6, <1>8, ScanInUse
  <1>10. /\ Scanning(g) /\ Midst(g, b, m) /\ g.obj[i].here /\ g.nand = f.nand
         /\ g.bits = f.bits /\ \A j \in Ids : NotAt(g, j, c)
    <2>1. Created(f, g, b, m, i, c)
      BY <1>4, <1>8, <1>9, ScanCreate
    <2> QED
      BY <2>1 DEF Created
  <1>11. Scanning(h) /\ Midst(h, b, m) /\ h.obj[i].here
    <2>1. c \in g.bits /\ g.nand[c].id = i /\ g.nand[c].part = p /\ g.nand[c].live
      BY <1>1, <1>2, <1>9, <1>10
    <2> QED
      BY <1>5, <1>10, <2>1, ScanPut
  <1>12. Scanning(e) /\ Midst(e, b, m)
    BY <1>7, <1>11, ScanSized
  <1> QED
    BY <1>0, <1>6, <1>12

(* A header is adopted.                                                    *)
Doubted(o) == [o EXCEPT !.valid = FALSE]

LEMMA AdoptingIs ==
    ASSUME NEW o \in Object, NEW page \in PageSet, page.dir \in {"root", "unlinked"},
           NEW c \in Chunks, NEW r, r = Adopting(o, page, c)
    PROVE  /\ r \in Object /\ r.here = o.here /\ r.soft = o.soft /\ r.dir = page.dir
           /\ r.chunk = c /\ r.tree = o.tree /\ r.n = o.n
  <1>1. PICK gone \in BOOLEAN : gone = (o.deleted \/ page.dir = "unlinked")
    OBVIOUS
  <1>2. PICK name \in Data : name = page.data
    BY DEF PageSet
  <1>3. PICK dir \in Dirs : dir = page.dir
    BY DEF PageSet
  <1>4. r = [o EXCEPT !.valid = TRUE, !.dirty = FALSE, !.chunk = c, !.name = name,
                      !.dir = dir, !.deleted = gone]
    BY <1>1, <1>2, <1>3 DEF Adopting
  <1>5. r \in Object
    BY <1>4 DEF Object
  <1>6. /\ r.here = o.here /\ r.soft = o.soft /\ r.dir = dir
        /\ r.chunk = c /\ r.tree = o.tree /\ r.n = o.n
    BY <1>4 DEF Object
  <1> QED
    BY <1>3, <1>5, <1>6

LEMMA DoubtedIs ==
    ASSUME NEW o \in Object, NEW r, r = Doubted(o)
    PROVE  /\ r \in Object /\ r.here = o.here /\ ~r.valid
           /\ \A page, c : Adopting(r, page, c) = Adopting(o, page, c)
  <1>1. r \in Object /\ r.here = o.here /\ ~r.valid
    BY DEF Doubted, Object
  <1>2. ASSUME NEW page, NEW c
        PROVE  Adopting(r, page, c) = Adopting(o, page, c)
    BY DEF Doubted, Adopting, Object
  <1> QED
    BY <1>1, <1>2

LEMMA AdoptedWith ==
    ASSUME NEW d, NEW i \in Ids, ~d.obj[i].valid, NEW c
    PROVE  Adopted(d, i, c) = With(d, i, Adopting(d.obj[i], d.nand[c], c))
  BY DEF Adopted, With

LEMMA ScanAdopt ==
    ASSUME NEW d, NEW i \in Ids, ScanBut(d, i), NEW b \in Blocks, NEW k, Midst(d, b, k),
           \A p \in Parts : Leaf(d, i, p), Found(d.obj[i]), d.obj[i].here,
           NEW c \in d.bits, d.nand[c].id = i, d.nand[c].part = 0, d.nand[c].live,
           d.nand[c].dir \in {"root", "unlinked"}
    PROVE  LET e == With(d, i, Adopting(d.obj[i], d.nand[c], c))
           IN  Scanning(e) /\ Midst(e, b, k)
  <1>1. PICK o : o = d.obj[i]
    OBVIOUS
  <1>2. PICK page : page = d.nand[c]
    OBVIOUS
  <1>3. PICK r : r = Adopting(o, page, c)
    OBVIOUS
  <1>4. PICK e : e = With(d, i, r)
    OBVIOUS
  <1>5. Sound(d, 0) /\ Typed(d) /\ o \in Object /\ page \in PageSet /\ c \in Chunks /\ c # 0
    <2>1. Sound(d, 0) /\ Typed(d)
      BY DEF ScanBut, Sound
    <2>2. c \in Chunks
      BY <2>1 DEF Typed
    <2>3. page \in PageSet
      BY <1>2, <2>1, <2>2 DEF Typed, Nand
    <2> QED
      BY <1>1, <2>1, <2>2, <2>3, ObjectIs, ChunksAre
  <1>6. /\ r \in Object /\ r.here = o.here /\ r.soft = o.soft /\ r.dir = page.dir
        /\ r.chunk = c /\ r.tree = o.tree /\ r.n = o.n
    BY <1>2, <1>3, <1>5, AdoptingIs
  <1>7. Found(r)
    <2>1. UsedParts(r) = UsedParts(o)
      BY <1>6 DEF UsedParts
    <2>2. Exact(r)
      BY <1>1, <1>6, <2>1 DEF Exact, Found
    <2>3. r.here /\ r.dir \in {"root", "unlinked"} /\ ~r.soft /\ r.chunk # 0
      BY <1>1, <1>2, <1>5, <1>6 DEF Found
    <2> QED
      BY <2>2, <2>3 DEF Found
  <1>8. /\ Alike(d, e) /\ e.stale = d.stale /\ e.obj[i] = r
    <2>1. Sound(d, 0) /\ r \in Object
      BY <1>5, <1>6
    <2> QED
      BY <1>4, <2>1, WithKeeps
  <1>9. Points(e, i)
    <2>1. e.nand = d.nand /\ e.bits = d.bits
      BY <1>8 DEF Alike
    <2>2. Header(e, i)
      BY <1>6, <1>8, <2>1 DEF Header
    <2>3. ASSUME NEW p \in Parts
          PROVE  Leaf(e, i, p)
      <3>1. e.obj[i].tree[p] = d.obj[i].tree[p]
        BY <1>1, <1>6, <1>8
      <3>2. FindChunkInFile(e, i, p) = FindChunkInFile(d, i, p)
        BY <2>1, <3>1 DEF FindChunkInFile
      <3> QED
        BY <1>8, <2>1, <3>1, <3>2 DEF Leaf
    <2> QED
      BY <2>2, <2>3 DEF Points
  <1>10. Scanning(e) /\ Midst(e, b, k)
    <2>1. r \in Object
      BY <1>6
    <2> QED
      BY <1>4, <1>7, <1>9, <2>1, ScanWith
  <1> QED
    BY <1>1, <1>2, <1>3, <1>4, <1>10

(* Of two headers one is deleted.                                          *)
LEMMA ScanDispute ==
    ASSUME NEW d, Scanning(d), NEW b \in Blocks, NEW k, Midst(d, b, k), NEW i \in Ids,
           NEW c \in d.bits, \A j \in Ids : NotAt(d, j, c), d.obj[i].here,
           d.nand[c].id = i, d.nand[c].part = 0, d.nand[c].live,
           d.nand[c].dir \in {"root", "unlinked"}
    PROVE  LET e == Adopted(Disputed(d, i, c), i, c)
           IN  Scanning(e) /\ Midst(e, b, k)
  <1>0. PICK e : e = Adopted(Disputed(d, i, c), i, c)
    OBVIOUS
  <1>1. PICK o : o = d.obj[i]
    OBVIOUS
  <1>2. PICK x : x = o.chunk
    OBVIOUS
  <1>3. /\ Sound(d, 0) /\ Typed(d) /\ o \in Object /\ Points(d, i) /\ Found(o)
        /\ ~d.stale /\ c \in Chunks /\ c # 0 /\ i # Unused /\ x # c
    <2>1. Sound(d, 0) /\ Typed(d) /\ Points(d, i) /\ ~d.stale /\ Found(o)
      BY <1>1 DEF Scanning, Sound
    <2>2. c \in Chunks
      BY <2>1 DEF Typed
    <2> QED
      BY <1>1, <1>2, <2>1, <2>2, ObjectIs, ChunksAre, DeviceAssumption DEF NotAt
  <1>4. CASE ~o.valid
    <2>1. e = With(d, i, Adopting(d.obj[i], d.nand[c], c))
      <3>1. Disputed(d, i, c) = d
        BY <1>1, <1>4 DEF Disputed
      <3> QED
        BY <1>0, <1>1, <1>4, <3>1, AdoptedWith
    <2>2. ScanBut(d, i) /\ Found(d.obj[i])
      BY DEF Scanning, ScanBut
    <2>3. \A p \in Parts : Leaf(d, i, p)
      BY <1>3 DEF Points
    <2> QED
      BY <1>0, <2>1, <2>2, <2>3, ScanAdopt
  <1>5. CASE o.valid /\ (o.serial + 1) % 4 = d.nand[c].serial
    <2>1. PICK g : g = DeleteChunk(d, x, TRUE)
      OBVIOUS
    <2>2. ScanDeleted(d, g, x) /\ Midst(g, b, k)
      <3>1. (x = 0 \/ x \in d.bits) /\ (x # 0 => d.nand[x].id # Unused)
        BY <1>1, <1>2, <1>3 DEF Points, Header
      <3> QED
        BY <2>1, <3>1, ScanDelete
    <2>3. /\ g.obj = d.obj /\ Typed(g) /\ Sound(g, 0) /\ ~g.stale /\ Lasts(d, g, {x}, {})
          /\ g.obj[i] = o
      BY <1>1, <2>2 DEF ScanDeleted, Sound
    <2>4. c \in g.bits /\ g.nand[c] = d.nand[c]
      BY <1>3, <2>3 DEF Lasts
    <2>5. PICK q : q = Doubted(o)
      OBVIOUS
    <2>6. q \in Object /\ ~q.valid /\ Adopting(q, g.nand[c], c) = Adopting(o, g.nand[c], c)
      BY <1>3, <2>5, DoubtedIs
    <2>7. PICK f : f = With(g, i, q)
      OBVIOUS
    <2>8. f.obj[i] = q /\ f.nand = g.nand
      BY <2>3, <2>6, <2>7, WithKeeps DEF Alike
    <2>9. Disputed(d, i, c) = f
      <3>1. f = [g EXCEPT !.obj[i].valid = FALSE]
        BY <2>3, <2>5, <2>7 DEF With, Doubted
      <3> QED
        BY <1>1, <1>2, <1>5, <2>1, <3>1 DEF Disputed
    <2>10. PICK r : r = Adopting(o, g.nand[c], c)
      OBVIOUS
    <2>11. e = With(f, i, r)
      <3>1. Adopted(f, i, c) = With(f, i, Adopting(f.obj[i], f.nand[c], c))
        BY <2>6, <2>8, AdoptedWith
      <3> QED
        BY <1>0, <2>6, <2>8, <2>9, <2>10, <3>1
    <2>12. e = With(g, i, r)
      BY <2>3, <2>7, <2>11, WithTwice
    <2>13. ASSUME NEW j \in Ids, j # i
           PROVE  Points(g, j)
      <3>1. x # 0 => NotAt(d, j, x)
        <4>1. SUFFICES ASSUME x # 0 PROVE NotAt(d, j, x)
          OBVIOUS
        <4>2. x \in Chunks /\ d.nand[x].id # j
          BY <1>1, <1>2, <1>3, <2>13, <4>1, ObjectIs DEF Points, Header
        <4>3. Header(d, j)
          BY DEF Scanning, Points
        <4> QED
          BY <1>3, <4>2, <4>3, Distinct DEF NotAt
      <3> QED
        BY <2>2, <3>1 DEF ScanDeleted
    <2>14. ASSUME NEW p \in Parts
           PROVE  Leaf(g, i, p)
      <3>1. FindChunkInFile(d, i, p) # 0 => d.obj[i].tree[p] # x
        <4>1. SUFFICES ASSUME FindChunkInFile(d, i, p) # 0, d.obj[i].tree[p] = x PROVE FALSE
          OBVIOUS
        <4>2. x # 0 /\ d.nand[x].part = p
          BY <1>3, <4>1, FindIs
        <4>3. d.nand[x].part = 0 /\ p # 0
          BY <1>1, <1>2, <1>3, <4>2, DeviceAssumption DEF Points, Header
        <4> QED
          BY <4>2, <4>3
      <3>2. PICK U : U = {}
        OBVIOUS
      <3>3. Lasts(d, g, {x}, U) /\ Leaf(d, i, p)
        BY <1>3, <2>3, <3>2 DEF Points
      <3>4. FindChunkInFile(d, i, p) # 0 =>
                d.obj[i].tree[p] \notin U /\ (g.stale \/ d.obj[i].tree[p] \notin {x})
        BY <3>1, <3>2
      <3>5. g.obj[i].tree[p] = d.obj[i].tree[p] /\ (d.stale => g.stale)
        BY <1>1, <1>3, <2>3
      <3> QED
        BY <1>3, <2>3, <3>3, <3>4, <3>5, LeafLasts
    <2>15. ScanBut(g, i) /\ Found(g.obj[i])
      BY <2>2, <2>13 DEF ScanBut, ScanDeleted
    <2>16. /\ g.obj[i].here /\ g.nand[c].id = i /\ g.nand[c].part = 0 /\ g.nand[c].live
           /\ g.nand[c].dir \in {"root", "unlinked"} /\ r = Adopting(g.obj[i], g.nand[c], c)
      BY <1>1, <2>3, <2>4, <2>10
    <2>17. c \in g.bits
      BY <2>4
    <2> QED
      BY <1>0, <2>2, <2>12, <2>14, <2>15, <2>16, <2>17, ScanAdopt
  <1>6. CASE o.valid /\ (o.serial + 1) % 4 # d.nand[c].serial
    <2>1. PICK g : g = DeleteChunk(d, c, TRUE)
      OBVIOUS
    <2>2. ScanDeleted(d, g, c) /\ Midst(g, b, k)
      BY <1>3, <2>1, ScanDelete
    <2>3. Disputed(d, i, c) = g
      BY <1>1, <1>6, <2>1 DEF Disputed
    <2>4. g.obj[i].valid
      BY <1>1, <1>6, <2>2 DEF ScanDeleted
    <2>5. e = g
      BY <1>0, <2>3, <2>4 DEF Adopted
    <2>6. Scanning(g)
      BY <2>2 DEF ScanDeleted, Scanning
    <2> QED
      BY <1>0, <2>2, <2>5, <2>6
  <1> QED
    BY <1>4, <1>5, <1>6

LEMMA ScanHeaderKeeps ==
    ASSUME NEW d, Scanning(d), NEW b \in Blocks, NEW k, Midst(d, b, k), k \in Nat,
           NEW c \in PagesOf(b), Off(c) = k, d.nand[c].live, d.nand[c].id \in Ids,
           d.nand[c].part = 0
    PROVE  LET e == ScanHeader(d, c)
           IN  Scanning(e) /\ Midst(e, b, k + 1)
  <1>0. PICK e : e = ScanHeader(d, c)
    OBVIOUS
  <1>1. PICK i \in Ids : i = d.nand[c].id
    OBVIOUS
  <1>2. PICK f : f = InUse(d, c)
    OBVIOUS
  <1>3. PICK g : g = ReadData(f, c)
    OBVIOUS
  <1>4. PICK h : h = FindOrCreateObject(g, i)
    OBVIOUS
  <1>5. PICK m : m = k + 1
    OBVIOUS
  <1>6. e = Adopted(Disputed(h, i, c), i, c)
    BY <1>0, <1>1, <1>2, <1>3, <1>4 DEF ScanHeader
  <1>7. c # 0 /\ ~Blank(d.nand, c) /\ c \in Chunks /\ i # Unused
    BY <1>1, ChunksAre, DeviceAssumption DEF Blank, PagesOf
  <1>8. /\ Scanning(f) /\ Midst(f, b, m) /\ c \in f.bits /\ f.nand = d.nand
        /\ \A j \in Ids : NotAt(f, j, c)
    BY <1>2, <1>5, <1>7, ScanInUse
  <1>9. /\ Scanning(g) /\ Midst(g, b, m) /\ g.nand = f.nand
        /\ g.bits = f.bits /\ \A j \in Ids : NotAt(g, j, c)
    BY <1>3, <1>8, ScanRead
  <1>10. /\ Scanning(h) /\ Midst(h, b, m) /\ h.obj[i].here /\ h.nand = g.nand
         /\ h.bits = g.bits /\ \A j \in Ids : NotAt(h, j, c)
    <2>1. Created(g, h, b, m, i, c)
      BY <1>4, <1>7, <1>9, ScanCreate
    <2> QED
      BY <2>1 DEF Created
  <1>11. d.nand[c].dir \in {"root", "unlinked"}
    <2>1. Signed(d.nand[c]) /\ d.nand[c] \in PageSet
      BY <1>7 DEF Scanning, Sound, Flash, Nand
    <2> QED
      BY <1>1, <1>7, <2>1 DEF Signed, PageSet, Dirs
  <1>12. Scanning(e) /\ Midst(e, b, m)
    <2>1. /\ c \in h.bits /\ h.nand[c].id = i /\ h.nand[c].part = 0 /\ h.nand[c].live
          /\ h.nand[c].dir \in {"root", "unlinked"}
      BY <1>1, <1>8, <1>9, <1>10, <1>11
    <2> QED
      BY <1>6, <1>10, <2>1, ScanDispute
  <1> QED
    BY <1>0, <1>5, <1>12

(* A block that is written as far as its first blank page.                 *)
LEMMA FirstBlank ==
    ASSUME NEW d, Sound(d, 0), NEW b \in Blocks, NEW k \in 0 .. PerBlock, Midst(d, b, k),
           \A c \in PagesOf(b) : Off(c) = k => Blank(d.nand, c)
    PROVE  Filled(d.nand, b, k, 0)
  <1>1. PICK j \in 0 .. PerBlock : Filled(d.nand, b, j, 0)
    BY DEF Sound, Flash, Midst
  <1>2. PerBlock \in Nat /\ b * PerBlock \in Int
    BY Sizes
  <1>3. CASE j < k
    <2>1. PICK c : c = b * PerBlock + j
      OBVIOUS
    <2>2. j \in 0 .. PerBlock - 1
      BY <1>2, <1>3
    <2>3. c \in PagesOf(b) /\ Off(c) = j
      BY <2>1, <2>2, PagesAre DEF PagesOf
    <2>4. ~Blank(d.nand, c)
      BY <1>3, <2>3 DEF Midst
    <2>5. d.nand[c] = ErasedPage
      <3>1. Off(c) >= j
        BY <2>2, <2>3
      <3> QED
        BY <1>1, <2>3, <3>1 DEF Filled
    <2> QED
      BY <2>4, <2>5, Erased DEF Blank
  <1>4. CASE k < j
    <2>1. PICK c : c = b * PerBlock + k
      OBVIOUS
    <2>2. k \in 0 .. PerBlock - 1
      BY <1>2, <1>4
    <2>3. c \in PagesOf(b) /\ Off(c) = k /\ c # 0
      BY <2>1, <2>2, PagesAre, ChunksAre DEF PagesOf
    <2>4. Blank(d.nand, c)
      BY <2>3
    <2>5. ~(Off(c) >= j)
      BY <1>4, <2>2, <2>3
    <2>6. ~Blank(d.nand, c)
      BY <1>1, <2>3, <2>5 DEF Filled
    <2> QED
      BY <2>4, <2>6
  <1>5. j = k \/ j < k \/ k < j
    BY <1>2
  <1> QED
    BY <1>1, <1>3, <1>4, <1>5

(* The state of a block is set.                                            *)
Turned(d, b, state) == [d EXCEPT !.info[b].state = state]

TurnedOf(d, e, b, state) ==
    /\ Typed(e) /\ e.info[b].state = state /\ e.info[b].inUse = d.info[b].inUse
    /\ \A q \in Blocks : q # b => e.info[q] = d.info[q]
    /\ e.obj = d.obj /\ e.luck = d.luck /\ e.stale = d.stale /\ e.nand = d.nand
    /\ e.images = d.images /\ e.bits = d.bits /\ e.erased = d.erased
    /\ e.ablock = d.ablock /\ e.apage = d.apage

LEMMA TurnedIs ==
    ASSUME NEW d, Typed(d), NEW b \in Blocks, NEW state \in {"EMPTY", "ALLOCATING", "FULL", "DEAD"},
           NEW e, e = Turned(d, b, state)
    PROVE  TurnedOf(d, e, b, state)
  <1> DEFINE info == [d.info EXCEPT ![b].state = state]
  <1>1. d.info \in [Blocks -> Info] /\ d.info[b] \in Info
    BY DEF Typed
  <1>2. info[b] = [d.info[b] EXCEPT !.state = state]
    BY <1>1
  <1>3. info[b] \in Info /\ info[b].state = state /\ info[b].inUse = d.info[b].inUse
    BY <1>1, <1>2 DEF Info
  <1>4. \A q \in Blocks : q # b => info[q] = d.info[q]
    BY <1>1
  <1>5. info \in [Blocks -> Info]
    BY <1>1, <1>3, <1>4
  <1>6. e = [d EXCEPT !.info = info]
    BY DEF Turned
  <1> HIDE DEF info
  <1>7. /\ e.obj = d.obj /\ e.luck = d.luck /\ e.stale = d.stale /\ e.nand = d.nand
        /\ e.images = d.images /\ e.info = info /\ e.bits = d.bits
        /\ e.erased = d.erased /\ e.ablock = d.ablock /\ e.result = d.result
        /\ e.apage = d.apage /\ e.finder = d.finder /\ e.checker = d.checker
    BY <1>6 DEF Typed
  <1>8. Typed(e)
    <2>1. e = [d EXCEPT !.info = e.info]
      BY <1>6, <1>7
    <2> QED
      BY <1>5, <1>7, <2>1 DEF Typed
  <1> QED
    BY <1>3, <1>4, <1>7, <1>8 DEF TurnedOf

(* What is known when a block is done.                                     *)
Around(d, b) ==
    \A q \in Blocks : q # b => IF q < b THEN d.info[q].state # "UNKNOWN"
                               ELSE d.info[q].state = "UNKNOWN" /\ UsedIn(d, q) = {}

LEMMA CloseScan ==
    ASSUME NEW d, Scanning(d), NEW b \in Blocks, Around(d, b), d.info[b].state = "UNKNOWN",
           NEW e, Typed(e), e.nand = d.nand, e.images = d.images, e.bits = d.bits, e.obj = d.obj,
           e.stale = d.stale, \A q \in Blocks : q # b => e.info[q] = d.info[q],
           e.info[b].state # "UNKNOWN",
           \A q \in Blocks : q # b => (e.ablock = q <=> d.ablock = q) /\ (e.ablock = q => e.apage = d.apage),
           e.ablock # 0 => e.apage > 0, Stated(e, b, 0), Counted(e, b),
           e.erased = d.erased + Cardinality({b} \cap EmptyBlocks(e))
    PROVE  Scanning(e) /\ ScanDone(e, b)
  <1>1. Typed(d) /\ Sound(d, 0) /\ b \in Int /\ Blocks \subseteq Int
    BY Sizes DEF Scanning, Sound
  <1>2. ASSUME NEW q \in Blocks
        PROVE  Stated(e, q, 0) /\ Counted(e, q)
    <2>1. CASE q = b
      BY <2>1
    <2>2. CASE q # b
      <3>1. Stated(d, q, 0) /\ Counted(d, q)
        BY <1>1 DEF Sound
      <3>2. /\ e.info[q] = d.info[q] /\ (e.ablock = q <=> d.ablock = q)
            /\ e.ablock = q => e.apage = d.apage
        BY <2>2
      <3>3. Stated(e, q, 0)
        BY <3>1, <3>2 DEF Stated, Counted
      <3>4. UsedIn(e, q) = UsedIn(d, q)
        BY DEF UsedIn
      <3>5. Counted(e, q)
        BY <3>1, <3>2, <3>4 DEF Counted
      <3> QED
        BY <3>3, <3>5
    <2> QED
      BY <2>1, <2>2
  <1>3. e.erased = Cardinality(EmptyBlocks(e))
    <2>1. b \notin EmptyBlocks(d) /\ EmptyBlocks(d) \subseteq Blocks
      BY DEF EmptyBlocks
    <2>2. IsFiniteSet(EmptyBlocks(d)) /\ d.erased = Cardinality(EmptyBlocks(d))
      <3>1. IsFiniteSet(EmptyBlocks(d))
        BY <2>1, Finite, FS_Subset
      <3> QED
        BY <1>1, <3>1 DEF Sound
    <2>3. \A q \in Blocks : q # b => (q \in EmptyBlocks(e) <=> q \in EmptyBlocks(d))
      BY DEF EmptyBlocks
    <2>4. EmptyBlocks(e) \subseteq Blocks
      BY DEF EmptyBlocks
    <2>5. CASE b \in EmptyBlocks(e)
      <3>1. EmptyBlocks(e) = EmptyBlocks(d) \cup {b}
        BY <2>1, <2>3, <2>4, <2>5
      <3>2. {b} \cap EmptyBlocks(e) = {b}
        BY <2>5
      <3>3. Cardinality(EmptyBlocks(e)) = Cardinality(EmptyBlocks(d)) + 1
        BY <2>1, <2>2, <3>1, FS_AddElement
      <3>4. Cardinality({b} \cap EmptyBlocks(e)) = 1
        BY <3>2, FS_Singleton
      <3> QED
        BY <2>2, <3>3, <3>4
    <2>6. CASE b \notin EmptyBlocks(e)
      <3>1. EmptyBlocks(e) = EmptyBlocks(d)
        BY <2>1, <2>3, <2>4, <2>6
      <3>2. {b} \cap EmptyBlocks(e) = {}
        BY <2>6
      <3>3. Cardinality({b} \cap EmptyBlocks(e)) = 0
        BY <3>2, FS_EmptySet
      <3>4. d.erased \in Int
        BY <1>1 DEF Typed
      <3> QED
        BY <2>2, <3>1, <3>3, <3>4
    <2> QED
      BY <2>5, <2>6
  <1>4. Sound(e, 0)
    BY <1>1, <1>2, <1>3 DEF Sound
  <1>5. ASSUME NEW j \in Ids
        PROVE  Points(e, j) /\ Found(e.obj[j])
    <2>1. Points(d, j) /\ Found(d.obj[j])
      BY DEF Scanning
    <2>2. Header(e, j)
      BY <2>1 DEF Points, Header
    <2>3. ASSUME NEW p \in Parts
          PROVE  Leaf(e, j, p)
      <3>1. FindChunkInFile(e, j, p) = FindChunkInFile(d, j, p)
        BY DEF FindChunkInFile
      <3> QED
        BY <2>1, <3>1 DEF Points, Leaf
    <2> QED
      BY <2>1, <2>2, <2>3 DEF Points
  <1>6. Scanning(e)
    BY <1>4, <1>5 DEF Scanning
  <1>7. ScanDone(e, b)
    <2>1. ASSUME NEW q \in Blocks
          PROVE  IF q <= b THEN e.info[q].state # "UNKNOWN"
                 ELSE e.info[q].state = "UNKNOWN" /\ UsedIn(e, q) = {}
      <3>1. CASE q = b
        BY <1>1, <3>1
      <3>2. CASE q # b
        <4>1. q <= b <=> q < b
          BY <1>1, <3>2
        <4>2. UsedIn(e, q) = UsedIn(d, q) /\ e.info[q] = d.info[q]
          BY <3>2 DEF UsedIn
        <4> QED
          BY <3>2, <4>1, <4>2 DEF Around
      <3> QED
        BY <3>1, <3>2
    <2> QED
      BY <2>1 DEF ScanDone
  <1> QED
    BY <1>6, <1>7

(* The four ways in which a block is done.                                 *)
LEMMA MidstAround ==
    ASSUME NEW d, NEW b \in Blocks, NEW k, Midst(d, b, k)
    PROVE  Around(d, b) /\ d.info[b].state = "UNKNOWN" /\ ~BadIn(d.nand, b)
  BY DEF Midst, Around

LEMMA DeadClosed ==
    ASSUME NEW d, Scanning(d), NEW b \in Blocks, Around(d, b), d.info[b].state = "UNKNOWN",
           UsedIn(d, b) = {}, BadIn(d.nand, b), NEW e, e = Turned(d, b, "DEAD")
    PROVE  Scanning(e) /\ ScanDone(e, b) /\ e.info[b].state = "DEAD"
  <1>1. Typed(d) /\ Counted(d, b) /\ (d.ablock # 0 => d.apage > 0)
    BY DEF Scanning, Sound
  <1>2. /\ Typed(e) /\ e.info[b].state = "DEAD"
        /\ \A q \in Blocks : q # b => e.info[q] = d.info[q]
        /\ e.obj = d.obj /\ e.stale = d.stale /\ e.nand = d.nand
        /\ e.images = d.images /\ e.bits = d.bits /\ e.erased = d.erased
        /\ e.ablock = d.ablock /\ e.apage = d.apage
    <2>1. PICK state \in {"EMPTY", "ALLOCATING", "FULL", "DEAD"} : state = "DEAD"
      OBVIOUS
    <2>2. e = Turned(d, b, state)
      BY <2>1
    <2>3. TurnedOf(d, e, b, state)
      BY <1>1, <2>2, TurnedIs
    <2> QED
      BY <2>1, <2>3 DEF TurnedOf
  <1>3. Stated(e, b, 0)
    BY <1>2 DEF Stated
  <1>4. Counted(e, b)
    <2>1. UsedIn(e, b) = {} /\ e.ablock # b
      BY <1>1, <1>2 DEF UsedIn, Counted
    <2> QED
      BY <1>2, <2>1 DEF Counted
  <1>5. Cardinality({b} \cap EmptyBlocks(e)) = 0 /\ d.erased \in Int
    <2>1. {b} \cap EmptyBlocks(e) = {}
      BY <1>2 DEF EmptyBlocks
    <2> QED
      BY <1>1, <2>1, FS_EmptySet DEF Typed
  <1>6. e.erased = d.erased + Cardinality({b} \cap EmptyBlocks(e))
    BY <1>2, <1>5
  <1> QED
    BY <1>1, <1>2, <1>3, <1>4, <1>6, CloseScan

LEMMA FullClosed ==
    ASSUME NEW d, Scanning(d), NEW b \in Blocks, Midst(d, b, PerBlock),
           NEW e, e = Turned(d, b, "FULL")
    PROVE  Scanning(e) /\ ScanDone(e, b) /\ e.info[b].state = "FULL"
  <1>1. Typed(d) /\ Sound(d, 0) /\ Counted(d, b) /\ (d.ablock # 0 => d.apage > 0)
    BY DEF Scanning, Sound
  <1>2. /\ Typed(e) /\ e.info[b].state = "FULL" /\ e.info[b].inUse = d.info[b].inUse
        /\ \A q \in Blocks : q # b => e.info[q] = d.info[q]
        /\ e.obj = d.obj /\ e.stale = d.stale /\ e.nand = d.nand
        /\ e.images = d.images /\ e.bits = d.bits /\ e.erased = d.erased
        /\ e.ablock = d.ablock /\ e.apage = d.apage
    <2>1. PICK state \in {"EMPTY", "ALLOCATING", "FULL", "DEAD"} : state = "FULL"
      OBVIOUS
    <2>2. e = Turned(d, b, state)
      BY <2>1
    <2>3. TurnedOf(d, e, b, state)
      BY <1>1, <2>2, TurnedIs
    <2> QED
      BY <2>1, <2>3 DEF TurnedOf
  <1>a. Around(d, b) /\ d.info[b].state = "UNKNOWN"
    BY MidstAround
  <1>3. Stated(e, b, 0)
    <2>1. \A c \in PagesOf(b) : Off(c) # PerBlock
      BY ChunksAre, Sizes DEF PagesOf
    <2>2. PerBlock \in 0 .. PerBlock
      BY Sizes
    <2>3. Filled(d.nand, b, PerBlock, 0)
      BY <1>1, <2>1, <2>2, FirstBlank
    <2> QED
      BY <1>2, <2>3 DEF Stated
  <1>4. Counted(e, b)
    <2>1. UsedIn(e, b) = UsedIn(d, b) /\ e.ablock # b
      BY <1>1, <1>2, <1>a DEF UsedIn, Counted
    <2> QED
      BY <1>1, <1>2, <1>a, <2>1 DEF Counted
  <1>5. Cardinality({b} \cap EmptyBlocks(e)) = 0 /\ d.erased \in Int
    <2>1. {b} \cap EmptyBlocks(e) = {}
      BY <1>2 DEF EmptyBlocks
    <2> QED
      BY <1>1, <2>1, FS_EmptySet DEF Typed
  <1>6. e.erased = d.erased + Cardinality({b} \cap EmptyBlocks(e))
    BY <1>2, <1>5
  <1> QED
    BY <1>1, <1>2, <1>3, <1>4, <1>6, <1>a, CloseScan

LEMMA EmptyClosed ==
    ASSUME NEW d, Scanning(d), NEW b \in Blocks, Midst(d, b, 0), Blank(d.nand, b * PerBlock),
           NEW w, w = [d EXCEPT !.erased = @ + 1], NEW e, e = Turned(w, b, "EMPTY")
    PROVE  Scanning(e) /\ ScanDone(e, b) /\ e.info[b].state = "EMPTY"
  <1>1. Typed(d) /\ Sound(d, 0) /\ Counted(d, b) /\ (d.ablock # 0 => d.apage > 0)
    BY DEF Scanning, Sound
  <1>0. PICK n \in Int : n = d.erased + 1
    BY <1>1 DEF Typed
  <1>b. /\ w.obj = d.obj /\ w.luck = d.luck /\ w.stale = d.stale /\ w.nand = d.nand
        /\ w.images = d.images /\ w.info = d.info /\ w.bits = d.bits
        /\ w.erased = n /\ w.ablock = d.ablock /\ w.result = d.result
        /\ w.apage = d.apage /\ w.finder = d.finder /\ w.checker = d.checker
    BY <1>0, <1>1 DEF Typed
  <1>c. Typed(w)
    <2>1. w = [d EXCEPT !.erased = w.erased]
      BY <1>0, <1>b
    <2> QED
      BY <1>1, <1>b, <2>1 DEF Typed
  <1>2. /\ Typed(e) /\ e.info[b].state = "EMPTY" /\ e.info[b].inUse = w.info[b].inUse
        /\ \A q \in Blocks : q # b => e.info[q] = w.info[q]
        /\ e.obj = w.obj /\ e.stale = w.stale /\ e.nand = w.nand
        /\ e.images = w.images /\ e.bits = w.bits /\ e.erased = w.erased
        /\ e.ablock = w.ablock /\ e.apage = w.apage
    <2>1. PICK state \in {"EMPTY", "ALLOCATING", "FULL", "DEAD"} : state = "EMPTY"
      OBVIOUS
    <2>2. e = Turned(w, b, state)
      BY <2>1
    <2>3. TurnedOf(w, e, b, state)
      BY <1>c, <2>2, TurnedIs
    <2> QED
      BY <2>1, <2>3 DEF TurnedOf
  <1>a. Around(d, b) /\ d.info[b].state = "UNKNOWN"
    BY MidstAround
  <1>3. Stated(e, b, 0)
    <2>1. \A c \in PagesOf(b) : Off(c) = 0 => c = b * PerBlock
      BY FirstPages, SameOff DEF PagesOf
    <2>2. 0 \in 0 .. PerBlock
      BY Sizes
    <2>3. Filled(d.nand, b, 0, 0)
      BY <1>1, <2>1, <2>2, FirstBlank
    <2> QED
      BY <1>2, <1>b, <2>3 DEF Stated
  <1>4. Counted(e, b)
    <2>1. UsedIn(d, b) = {}
      BY ChunksAre DEF Midst, UsedIn, PagesOf
    <2>2. UsedIn(e, b) = {} /\ e.ablock # b
      BY <1>1, <1>2, <1>a, <1>b, <2>1 DEF UsedIn, Counted
    <2>3. d.info[b].inUse = Cardinality(UsedIn(d, b))
      BY <1>1, <1>a DEF Counted
    <2>4. e.info[b].inUse = Cardinality(UsedIn(e, b))
      BY <1>2, <1>b, <2>1, <2>2, <2>3
    <2>5. e.info[b].state = "EMPTY"
      BY <1>2
    <2> QED
      BY <2>2, <2>4, <2>5 DEF Counted
  <1>5. Cardinality({b} \cap EmptyBlocks(e)) = 1
    <2>1. {b} \cap EmptyBlocks(e) = {b}
      BY <1>2 DEF EmptyBlocks
    <2> QED
      BY <2>1, FS_Singleton
  <1>6. e.erased = d.erased + Cardinality({b} \cap EmptyBlocks(e))
    BY <1>0, <1>2, <1>5, <1>b
  <1>7. /\ e.nand = d.nand /\ e.images = d.images /\ e.bits = d.bits /\ e.obj = d.obj
        /\ e.stale = d.stale /\ e.ablock = d.ablock /\ e.apage = d.apage
        /\ \A q \in Blocks : q # b => e.info[q] = d.info[q]
    BY <1>2, <1>b
  <1> QED
    BY <1>1, <1>2, <1>3, <1>4, <1>6, <1>7, <1>a, CloseScan

LEMMA PartialIs ==
    ASSUME NEW nand, NEW b \in Blocks, NEW k, k \in 1 .. PerBlock - 1, Filled(nand, b, k, 0)
    PROVE  Partial(nand, b)
  <1>1. PICK c : c = b * PerBlock + k
    OBVIOUS
  <1>2. PICK x : x = b * PerBlock
    OBVIOUS
  <1>3. k \in 0 .. PerBlock - 1 /\ k >= k /\ ~(0 >= k)
    BY Sizes
  <1>4. c \in PagesOf(b) /\ Off(c) = k /\ x \in PagesOf(b) /\ Off(x) = 0 /\ x # 0
    BY <1>1, <1>2, <1>3, PagesAre, FirstPages, ChunksAre DEF PagesOf
  <1>5. nand[c] = ErasedPage
    BY <1>3, <1>4 DEF Filled
  <1>6. ~Blank(nand, x)
    BY <1>3, <1>4 DEF Filled
  <1>7. ~BadIn(nand, b)
    BY FirstPages DEF BadIn, Filled
  <1>8. Blank(nand, c)
    BY <1>5, Erased DEF Blank
  <1> QED
    BY <1>4, <1>6, <1>7, <1>8 DEF Partial

LEMMA AllocatingClosed ==
    ASSUME NEW d, Scanning(d), NEW b \in Blocks, NEW k \in 1 .. PerBlock - 1, Midst(d, b, k),
           Blank(d.nand, b * PerBlock + k),
           NEW w, w = [d EXCEPT !.ablock = b, !.apage = k], NEW e, e = Turned(w, b, "ALLOCATING")
    PROVE  Scanning(e) /\ ScanDone(e, b) /\ e.info[b].state = "ALLOCATING"
  <1>1. /\ Typed(d) /\ Sound(d, 0) /\ Counted(d, b) /\ (d.ablock # 0 => d.apage > 0)
        /\ k \in Nat /\ k > 0 /\ k < PerBlock /\ k \in 0 .. PerBlock - 1 /\ k \in 0 .. PerBlock
    BY Sizes DEF Scanning, Sound
  <1>b. /\ w.obj = d.obj /\ w.luck = d.luck /\ w.stale = d.stale /\ w.nand = d.nand
        /\ w.images = d.images /\ w.info = d.info /\ w.bits = d.bits
        /\ w.erased = d.erased /\ w.ablock = b /\ w.result = d.result
        /\ w.apage = k /\ w.finder = d.finder /\ w.checker = d.checker
    BY <1>1 DEF Typed
  <1>c. Typed(w)
    <2>1. w = [d EXCEPT !.ablock = w.ablock, !.apage = w.apage]
      BY <1>b
    <2> QED
      BY <1>1, <1>b, <2>1 DEF Typed
  <1>2. /\ Typed(e) /\ e.info[b].state = "ALLOCATING" /\ e.info[b].inUse = w.info[b].inUse
        /\ \A q \in Blocks : q # b => e.info[q] = w.info[q]
        /\ e.obj = w.obj /\ e.stale = w.stale /\ e.nand = w.nand
        /\ e.images = w.images /\ e.bits = w.bits /\ e.erased = w.erased
        /\ e.ablock = w.ablock /\ e.apage = w.apage
    <2>1. PICK state \in {"EMPTY", "ALLOCATING", "FULL", "DEAD"} : state = "ALLOCATING"
      OBVIOUS
    <2>2. e = Turned(w, b, state)
      BY <2>1
    <2>3. TurnedOf(w, e, b, state)
      BY <1>c, <2>2, TurnedIs
    <2> QED
      BY <2>1, <2>3 DEF TurnedOf
  <1>a. Around(d, b) /\ d.info[b].state = "UNKNOWN" /\ ~BadIn(d.nand, b)
    BY MidstAround
  <1>d. Filled(d.nand, b, k, 0)
    <2>1. PICK c : c = b * PerBlock + k
      OBVIOUS
    <2>2. c \in Chunks /\ BlockOf(c) = b /\ Off(c) = k
      BY <1>1, <2>1, PagesAre
    <2>3. \A x \in PagesOf(b) : Off(x) = k => x = c
      BY <2>2, SameOff DEF PagesOf
    <2> QED
      BY <1>1, <2>1, <2>3, FirstBlank
  <1>3. Stated(e, b, 0)
    BY <1>2, <1>b, <1>d DEF Stated
  <1>4. Counted(e, b)
    <2>1. UsedIn(e, b) = UsedIn(d, b) /\ e.ablock = b /\ e.apage = k
      BY <1>2, <1>b DEF UsedIn
    <2>2. d.info[b].inUse = Cardinality(UsedIn(d, b))
      BY <1>1, <1>a DEF Counted
    <2>3. \A c \in UsedIn(d, b) : Off(c) < k
      BY DEF Midst, UsedIn
    <2> QED
      BY <1>1, <1>2, <1>b, <2>1, <2>2, <2>3 DEF Counted
  <1>5. Cardinality({b} \cap EmptyBlocks(e)) = 0 /\ d.erased \in Int
    <2>1. {b} \cap EmptyBlocks(e) = {}
      BY <1>2 DEF EmptyBlocks
    <2> QED
      BY <1>1, <2>1, FS_EmptySet DEF Typed
  <1>6. e.erased = d.erased + Cardinality({b} \cap EmptyBlocks(e))
    BY <1>2, <1>5, <1>b
  <1>7. ASSUME NEW q \in Blocks, q # b
        PROVE  d.ablock # q
    <2>1. SUFFICES ASSUME d.ablock = q PROVE FALSE
      OBVIOUS
    <2>2. d.info[q].state = "ALLOCATING" /\ d.apage > 0 /\ d.apage < PerBlock /\ d.apage \in Nat
      BY <1>1, <2>1, Sizes DEF Sound, Counted, Typed
    <2>3. Filled(d.nand, q, d.apage, 0)
      BY <1>1, <2>2 DEF Sound, Stated
    <2>4. d.apage \in 1 .. PerBlock - 1
      BY <2>2, Sizes
    <2>5. Partial(d.nand, q)
      BY <2>3, <2>4, PartialIs
    <2>6. Partial(d.nand, b)
      BY <1>d, PartialIs
    <2> QED
      BY <1>1, <1>7, <2>5, <2>6 DEF Sound, Flash
  <1>8. /\ e.nand = d.nand /\ e.images = d.images /\ e.bits = d.bits /\ e.obj = d.obj
        /\ e.stale = d.stale /\ e.ablock = b /\ e.apage > 0
        /\ \A q \in Blocks : q # b => e.info[q] = d.info[q]
    BY <1>1, <1>2, <1>b
  <1>9. \A q \in Blocks : q # b => (e.ablock = q <=> d.ablock = q) /\ (e.ablock = q => e.apage = d.apage)
    BY <1>7, <1>8
  <1>10. e.info[b].state # "UNKNOWN" /\ Typed(e)
    BY <1>2
  <1>11. Scanning(e) /\ ScanDone(e, b)
    BY <1>3, <1>4, <1>6, <1>8, <1>9, <1>10, <1>a, CloseScan
  <1> QED
    BY <1>2, <1>11

(* The pages of a block, one after the other.  When the block's state is   *)
(* known the rest of its pages is passed over.                             *)
Reading(s, b, k) ==
    /\ s = [d |-> s.d, state |-> s.state]
    /\ IF s.state = "SCANNING" THEN Scanning(s.d) /\ Midst(s.d, b, k)
       ELSE /\ Scanning(BlockState(s, b)) /\ ScanDone(BlockState(s, b), b)
            /\ BlockState(s, b).info[b].state # "FULL"

LEMMA ReadOn ==
    ASSUME NEW d, NEW b \in Blocks, NEW k, Scanning(d), Midst(d, b, k),
           NEW s, s = [d |-> d, state |-> "SCANNING"]
    PROVE  Reading(s, b, k)
  BY DEF Reading

LEMMA ReadEnd ==
    ASSUME NEW d, NEW b \in Blocks, NEW k, NEW state, state \notin {"SCANNING", "FULL"},
           NEW e, e = Turned(d, b, state), Scanning(e), ScanDone(e, b), e.info[b].state = state,
           NEW s, s = [d |-> d, state |-> state]
    PROVE  Reading(s, b, k)
  <1>1. s.d = d /\ s.state = state
    OBVIOUS
  <1>2. BlockState(s, b) = e
    BY <1>1 DEF BlockState, Turned
  <1> QED
    BY <1>1, <1>2 DEF Reading

LEMMA PageStep ==
    ASSUME NEW s, NEW b \in Blocks, NEW k \in 0 .. PerBlock - 1, Reading(s, b, k),
           NEW c, c = b * PerBlock + k, NEW t, t = ScanChunk(s, c)
    PROVE  Reading(t, b, k + 1)
  <1>1. /\ c \in Chunks /\ BlockOf(c) = b /\ Off(c) = k /\ c \in PagesOf(b)
        /\ k \in Nat /\ b * PerBlock \in Int /\ PerBlock \in Nat
    BY PagesAre, Sizes DEF PagesOf
  <1>2. CASE s.state # "SCANNING"
    <2>1. t = s
      BY <1>2 DEF ScanChunk
    <2> QED
      BY <1>2, <2>1 DEF Reading
  <1>3. CASE s.state = "SCANNING"
    <2>1. PICK d : d = s.d
      OBVIOUS
    <2>2. Scanning(d) /\ Midst(d, b, k) /\ s = [d |-> d, state |-> "SCANNING"]
      BY <1>3, <2>1 DEF Reading
    <2>3. d.nand[c] \in PageSet
      BY <1>1, <2>2 DEF Scanning, Sound, Flash, Nand
    <2>4. CASE ~d.nand[c].live
      <3>1. t = s
        BY <2>1, <2>4 DEF ScanChunk
      <3>2. Midst(d, b, k + 1)
        <4>1. ASSUME NEW x \in PagesOf(b)
              PROVE  IF Off(x) < k + 1 THEN ~Blank(d.nand, x) ELSE x \notin d.bits
          <5>1. Off(x) \in Int
            BY ChunksAre DEF PagesOf
          <5>2. CASE Off(x) = k
            <6>1. x = c
              BY <1>1, <5>2, SameOff DEF PagesOf
            <6> QED
              BY <1>1, <2>4, <5>2, <6>1 DEF Blank
          <5>3. CASE Off(x) # k
            <6>1. Off(x) < k + 1 <=> Off(x) < k
              BY <1>1, <5>1, <5>3
            <6> QED
              BY <2>2, <6>1 DEF Midst
          <5> QED
            BY <5>2, <5>3
        <4> QED
          BY <2>2, <4>1 DEF Midst
      <3> QED
        BY <2>2, <3>1, <3>2, ReadOn
    <2>5. CASE d.nand[c].live /\ d.nand[c].id = Unused /\ c = b * PerBlock
      <3>1. PICK w : w = [d EXCEPT !.erased = @ + 1]
        OBVIOUS
      <3>2. PICK state : state = "EMPTY"
        OBVIOUS
      <3>3. t = [d |-> w, state |-> state]
        <4>1. t = [s EXCEPT !.state = "EMPTY", !.d.erased = @ + 1]
          BY <1>1, <1>3, <2>1, <2>5 DEF ScanChunk
        <4> QED
          BY <2>1, <2>2, <3>1, <3>2, <4>1
      <3>4. PICK e : e = Turned(w, b, "EMPTY")
        OBVIOUS
      <3>5. k = 0 /\ Blank(d.nand, b * PerBlock)
        BY <1>1, <2>5 DEF Blank
      <3>6. Midst(d, b, 0)
        BY <2>2, <3>5
      <3>7. Scanning(e) /\ ScanDone(e, b) /\ e.info[b].state = "EMPTY"
        BY <2>2, <3>1, <3>4, <3>5, <3>6, EmptyClosed
      <3>8. e = Turned(w, b, state) /\ e.info[b].state = state /\ state \notin {"SCANNING", "FULL"}
        BY <3>2, <3>4, <3>7
      <3> QED
        BY <3>3, <3>7, <3>8, ReadEnd
    <2>6. CASE d.nand[c].live /\ d.nand[c].id = Unused /\ c # b * PerBlock
      <3>1. PICK w : w = [d EXCEPT !.ablock = b, !.apage = k]
        OBVIOUS
      <3>2. PICK state : state = "ALLOCATING"
        OBVIOUS
      <3>3. t = [d |-> w, state |-> state]
        <4>1. t = [s EXCEPT !.state = "ALLOCATING", !.d.ablock = b, !.d.apage = c - b * PerBlock]
          BY <1>1, <1>3, <2>1, <2>6 DEF ScanChunk
        <4>2. c - b * PerBlock = k
          BY <1>1
        <4> QED
          BY <2>1, <2>2, <3>1, <3>2, <4>1, <4>2
      <3>4. PICK e : e = Turned(w, b, "ALLOCATING")
        OBVIOUS
      <3>5. k \in 1 .. PerBlock - 1 /\ Blank(d.nand, b * PerBlock + k)
        BY <1>1, <2>6 DEF Blank
      <3>7. Scanning(e) /\ ScanDone(e, b) /\ e.info[b].state = "ALLOCATING"
        BY <2>2, <3>1, <3>4, <3>5, AllocatingClosed
      <3>8. e = Turned(w, b, state) /\ e.info[b].state = state /\ state \notin {"SCANNING", "FULL"}
        BY <3>2, <3>4, <3>7
      <3> QED
        BY <3>3, <3>7, <3>8, ReadEnd
    <2>7. CASE d.nand[c].live /\ d.nand[c].id # Unused
      <3>1. d.nand[c].id \in Ids /\ d.nand[c].part \in {0} \cup Parts
        BY <2>3, <2>7 DEF PageSet
      <3>2. PICK e : e = IF d.nand[c].part > 0 THEN ScanData(d, c) ELSE ScanHeader(d, c)
        OBVIOUS
      <3>3. t = [d |-> e, state |-> "SCANNING"]
        <4>1. t = [s EXCEPT !.d = IF s.d.nand[c].part > 0 THEN ScanData(s.d, c) ELSE ScanHeader(s.d, c)]
          BY <1>3, <2>1, <2>7 DEF ScanChunk
        <4> QED
          BY <2>1, <2>2, <3>2, <4>1
      <3>4. Scanning(e) /\ Midst(e, b, k + 1)
        <4>1. CASE d.nand[c].part = 0
          <5>1. e = ScanHeader(d, c)
            BY <3>2, <4>1
          <5> QED
            BY <1>1, <2>2, <2>7, <3>1, <4>1, <5>1, ScanHeaderKeeps
        <4>2. CASE d.nand[c].part \in Parts
          <5>1. e = ScanData(d, c)
            BY <3>2, <4>2, DeviceAssumption
          <5> QED
            BY <1>1, <2>2, <2>7, <3>1, <4>2, <5>1, ScanDataKeeps
        <4> QED
          BY <3>1, <4>1, <4>2
      <3> QED
        BY <3>3, <3>4, ReadOn
    <2> QED
      BY <2>4, <2>5, <2>6, <2>7
  <1> QED
    BY <1>2, <1>3

(* The pages of a block in their order.                                    *)
LEMMA ScanningPages ==
    ASSUME NEW d, NEW b
    PROVE  \E f : /\ \A k \in 0 .. PerBlock :
                        f[k] = IF k = 0 THEN [d |-> d, state |-> IF IsBlockBad(d, b) THEN "DEAD" ELSE "SCANNING"] ELSE ScanChunk(f[k - 1], b * PerBlock + k - 1)
                  /\ ScanBlock(d, b) = EndOfBlock(BlockState(f[PerBlock], b), b)
  <1> DEFINE Is(f, m) == f = [k \in 0 .. m |-> IF k = 0 THEN [d |-> d, state |-> IF IsBlockBad(d, b) THEN "DEAD" ELSE "SCANNING"] ELSE ScanChunk(f[k - 1], b * PerBlock + k - 1)]
             M == {m \in 0 .. PerBlock : \E f : Is(f, m)}
  <1>0. PerBlock \in Nat
    BY Sizes
  <1>1. 0 \in M
    <2> DEFINE f == [k \in 0 .. 0 |-> [d |-> d, state |-> IF IsBlockBad(d, b) THEN "DEAD" ELSE "SCANNING"]]
    <2>1. Is(f, 0)
      OBVIOUS
    <2>2. 0 \in 0 .. PerBlock
      BY <1>0
    <2> HIDE DEF Is, f
    <2> QED
      BY <2>1, <2>2
  <1>2. ASSUME NEW m \in 0 .. PerBlock - 1, m \in M
        PROVE  m + 1 \in M
    <2>1. PICK f : Is(f, m)
      BY <1>2
    <2> DEFINE step(e, k) == ScanChunk(e, b * PerBlock + k - 1)
               g == [k \in 0 .. m + 1 |-> IF k = m + 1 THEN step(f[m], m + 1) ELSE f[k]]
    <2>2. \A k \in 0 .. m : f[k] = IF k = 0 THEN [d |-> d, state |-> IF IsBlockBad(d, b) THEN "DEAD" ELSE "SCANNING"] ELSE step(f[k - 1], k)
      BY <2>1
    <2> HIDE DEF Is
    <2>5. m \in Nat /\ m + 1 \in 0 .. PerBlock
      BY <1>0
    <2>6. g[m] = f[m] /\ g[m + 1] = step(f[m], m + 1) /\ (m + 1) - 1 = m
      BY <2>5
    <2>7. \A k \in 0 .. m : g[k] = f[k] /\ (k # 0 => k - 1 \in 0 .. m)
      BY <2>5
    <2>8. \A k \in 0 .. m + 1 : k = m + 1 \/ k \in 0 .. m
      BY <2>5
    <2>9. m + 1 # 0
      BY <2>5
    <2> HIDE DEF g, step
    <2>3. \A k \in 0 .. m + 1 : g[k] = IF k = 0 THEN [d |-> d, state |-> IF IsBlockBad(d, b) THEN "DEAD" ELSE "SCANNING"] ELSE step(g[k - 1], k)
      BY <2>2, <2>6, <2>7, <2>8, <2>9
    <2>4. Is(g, m + 1)
      BY <2>3 DEF Is, g, step
    <2> QED
      BY <2>4, <2>5
  <1>3. \A m \in 0 .. PerBlock : m \in M
    <2> HIDE DEF M
    <2> QED
      BY <1>0, <1>1, <1>2, Upwards
  <1>4. \E f : Is(f, PerBlock)
    <2>1. PerBlock \in M
      <3> HIDE DEF M
      <3> QED
        BY <1>0, <1>3
    <2> HIDE DEF Is
    <2> QED
      BY <2>1
  <1> DEFINE f == CHOOSE f : Is(f, PerBlock)
  <1>5. Is(f, PerBlock)
    BY <1>4
  <1>6. ScanBlock(d, b) = EndOfBlock(BlockState(f[PerBlock], b), b)
    BY DEF ScanBlock
  <1>7. \A k \in 0 .. PerBlock : f[k] = IF k = 0 THEN [d |-> d, state |-> IF IsBlockBad(d, b) THEN "DEAD" ELSE "SCANNING"] ELSE ScanChunk(f[k - 1], b * PerBlock + k - 1)
    <2> HIDE DEF f
    <2> QED
      BY <1>5
  <1> QED
    BY <1>6, <1>7

LEMMA ScanStarts ==
    ASSUME NEW d, Scanning(d), NEW b \in Blocks, Around(d, b), d.info[b].state = "UNKNOWN",
           UsedIn(d, b) = {},
           NEW s, s = [d |-> d, state |-> IF IsBlockBad(d, b) THEN "DEAD" ELSE "SCANNING"]
    PROVE  Reading(s, b, 0)
  <1>1. IsBlockBad(d, b) <=> BadIn(d.nand, b)
    BY DEF IsBlockBad, BadIn
  <1>2. CASE BadIn(d.nand, b)
    <2>1. PICK e : e = Turned(d, b, "DEAD")
      OBVIOUS
    <2>2. Scanning(e) /\ ScanDone(e, b) /\ e.info[b].state = "DEAD"
      BY <1>2, <2>1, DeadClosed
    <2>3. PICK state : state = "DEAD"
      OBVIOUS
    <2>4. /\ e = Turned(d, b, state) /\ e.info[b].state = state
          /\ state \notin {"SCANNING", "FULL"} /\ s = [d |-> d, state |-> state]
      BY <1>1, <1>2, <2>1, <2>2, <2>3
    <2> QED
      BY <2>2, <2>4, ReadEnd
  <1>3. CASE ~BadIn(d.nand, b)
    <2>1. Midst(d, b, 0)
      <3>1. \A c \in PagesOf(b) : ~(Off(c) < 0) /\ c \notin d.bits
        BY ChunksAre DEF PagesOf, UsedIn
      <3> QED
        BY <1>3, <3>1 DEF Midst, Around
    <2>2. s = [d |-> d, state |-> "SCANNING"]
      BY <1>1, <1>3
    <2> QED
      BY <2>1, <2>2, ReadOn
  <1> QED
    BY <1>2, <1>3

(* A block with no page in use is erased at once.                          *)
LEMMA ScanEnds ==
    ASSUME NEW d, Scanning(d), NEW b \in Blocks, ScanDone(d, b), NEW e, e = EndOfBlock(d, b)
    PROVE  Scanning(e) /\ ScanDone(e, b)
  <1>1. CASE e = d
    BY <1>1
  <1>2. CASE e = BlockBecameDirty(d, b) /\ d.info[b].inUse = 0 /\ d.info[b].state = "FULL"
    <2>1. Sound(d, 0) /\ Typed(d) /\ IsFiniteSet(UsedIn(d, b))
      BY Finite DEF Scanning, Sound, UsedIn, PagesOf, Typed
    <2>2. Cardinality(UsedIn(d, b)) = 0
      BY <1>2, <2>1 DEF Sound, Counted
    <2>3. UsedIn(d, b) = {}
      BY <2>1, <2>2, FS_EmptySet
    <2>4. /\ Sound(e, 0) /\ Same(d, e) /\ Lasts(d, e, {}, {}) /\ Unread(d, e, {})
      BY <1>2, <2>1, <2>3, BlockKeeps
    <2>5. e.obj = d.obj /\ e.stale = d.stale /\ e.ablock = d.ablock /\ e.apage = d.apage
      BY <2>4 DEF Same
    <2>6. PICK U : U = {}
      OBVIOUS
    <2>7. Lasts(d, e, U, U) /\ Typed(e)
      BY <2>4, <2>6 DEF Sound
    <2>8. ASSUME NEW j \in Ids
          PROVE  Points(e, j) /\ Found(e.obj[j])
      <3>1. Points(d, j) /\ Found(d.obj[j])
        BY DEF Scanning
      <3>2. Header(e, j)
        BY <2>5, <2>6, <2>7, <3>1, HeadLasts DEF Points
      <3>3. ASSUME NEW p \in Parts
            PROVE  Leaf(e, j, p)
        <4>1. Leaf(d, j, p)
          BY <3>1 DEF Points
        <4> QED
          BY <2>1, <2>5, <2>6, <2>7, <4>1, LeafLasts
      <3> QED
        BY <2>5, <3>1, <3>2, <3>3 DEF Points
    <2>9. Scanning(e)
      BY <2>4, <2>5, <2>8 DEF Scanning
    <2>10. ScanDone(e, b)
      BY <2>4 DEF ScanDone, Lasts, Unread
    <2> QED
      BY <2>9, <2>10
  <1> QED
    BY <1>1, <1>2 DEF EndOfBlock

LEMMA BlockScanned ==
    ASSUME NEW d, Scanning(d), NEW b \in Blocks, ScanDone(d, b - 1), NEW e, e = ScanBlock(d, b)
    PROVE  Scanning(e) /\ ScanDone(e, b)
  <1>1. Around(d, b) /\ d.info[b].state = "UNKNOWN" /\ UsedIn(d, b) = {}
    <2>1. \A q \in Blocks : q <= b - 1 <=> q < b
      BY Sizes
    <2>2. ~(b < b)
      BY Sizes
    <2> QED
      BY <2>1, <2>2 DEF ScanDone, Around
  <1>2. PICK f : /\ \A k \in 0 .. PerBlock :
                        f[k] = IF k = 0
                               THEN [d |-> d, state |-> IF IsBlockBad(d, b) THEN "DEAD" ELSE "SCANNING"]
                               ELSE ScanChunk(f[k - 1], b * PerBlock + k - 1)
                 /\ ScanBlock(d, b) = EndOfBlock(BlockState(f[PerBlock], b), b)
    BY ScanningPages
  <1> DEFINE T == {k \in 0 .. PerBlock : Reading(f[k], b, k)}
  <1>3. PerBlock \in Nat /\ b * PerBlock \in Int
    BY Sizes
  <1>4. 0 \in T
    <2>0. 0 \in 0 .. PerBlock
      BY <1>3
    <2>1. PICK s : s = f[0]
      OBVIOUS
    <2>2. s = [d |-> d, state |-> IF IsBlockBad(d, b) THEN "DEAD" ELSE "SCANNING"]
      <3>1. \A k \in 0 .. PerBlock :
               k = 0 => f[k] = [d |-> d, state |-> IF IsBlockBad(d, b) THEN "DEAD" ELSE "SCANNING"]
        BY <1>2, Zenon
      <3> QED
        BY <2>0, <2>1, <3>1
    <2>3. Reading(s, b, 0)
      BY <1>1, <2>2, ScanStarts
    <2> QED
      BY <2>0, <2>1, <2>3
  <1>5. ASSUME NEW k \in 0 .. PerBlock - 1, k \in T
        PROVE  k + 1 \in T
    <2>1. k + 1 \in 0 .. PerBlock /\ k + 1 # 0 /\ (k + 1) - 1 = k
      BY <1>3
    <2>2. PICK s : s = f[k]
      OBVIOUS
    <2>3. PICK c : c = b * PerBlock + k
      OBVIOUS
    <2>4. PICK t : t = f[k + 1]
      OBVIOUS
    <2>5. c = b * PerBlock + (k + 1) - 1
      BY <1>3, <2>1, <2>3
    <2>6. t = ScanChunk(s, c)
      <3>1. f[k + 1] = ScanChunk(f[(k + 1) - 1], b * PerBlock + (k + 1) - 1)
        BY <1>2, <2>1
      <3> QED
        BY <2>1, <2>2, <2>4, <2>5, <3>1
    <2>7. Reading(s, b, k)
      BY <1>5, <2>2
    <2>8. Reading(t, b, k + 1)
      BY <2>3, <2>6, <2>7, PageStep
    <2> QED
      BY <2>1, <2>4, <2>8
  <1>6. PerBlock \in T
    <2> HIDE DEF T
    <2> QED
      BY <1>3, <1>4, <1>5, Upwards
  <1>7. PICK s : s = f[PerBlock]
    OBVIOUS
  <1>8. Reading(s, b, PerBlock)
    BY <1>6, <1>7
  <1>9. PICK g : g = BlockState(s, b)
    OBVIOUS
  <1>10. Scanning(g) /\ ScanDone(g, b)
    <2>1. CASE s.state = "SCANNING"
      <3>1. PICK x : x = s.d
        OBVIOUS
      <3>2. g = Turned(x, b, "FULL")
        BY <1>9, <2>1, <3>1 DEF BlockState, Turned
      <3>3. Scanning(x) /\ Midst(x, b, PerBlock)
        BY <1>8, <2>1, <3>1 DEF Reading
      <3> QED
        BY <3>2, <3>3, FullClosed
    <2>2. CASE s.state # "SCANNING"
      BY <1>8, <1>9, <2>2 DEF Reading
    <2> QED
      BY <2>1, <2>2
  <1>11. e = EndOfBlock(g, b)
    BY <1>2, <1>7, <1>9
  <1> QED
    BY <1>10, <1>11, ScanEnds

(* The blocks in their order.                                              *)
LEMMA ScanningBlocks ==
    ASSUME NEW d
    PROVE  \E f : /\ \A k \in 0 .. Cardinality(Blocks) :
                        f[k] = IF k = 0 THEN d ELSE ScanBlock(f[k - 1], Start + k - 1)
                  /\ AllBlocksScanned(d) = f[Cardinality(Blocks)]
  <1> DEFINE Is(f, m) == f = [k \in 0 .. m |-> IF k = 0 THEN d ELSE ScanBlock(f[k - 1], Start + k - 1)]
             M == {m \in 0 .. Cardinality(Blocks) : \E f : Is(f, m)}
  <1>0. Cardinality(Blocks) \in Nat
    BY BlockNumber
  <1>1. 0 \in M
    <2> DEFINE f == [k \in 0 .. 0 |-> d]
    <2>1. Is(f, 0)
      OBVIOUS
    <2>2. 0 \in 0 .. Cardinality(Blocks)
      BY <1>0
    <2> HIDE DEF Is, f
    <2> QED
      BY <2>1, <2>2
  <1>2. ASSUME NEW m \in 0 .. Cardinality(Blocks) - 1, m \in M
        PROVE  m + 1 \in M
    <2>1. PICK f : Is(f, m)
      BY <1>2
    <2> DEFINE step(e, k) == ScanBlock(e, Start + k - 1)
               g == [k \in 0 .. m + 1 |-> IF k = m + 1 THEN step(f[m], m + 1) ELSE f[k]]
    <2>2. \A k \in 0 .. m : f[k] = IF k = 0 THEN d ELSE step(f[k - 1], k)
      BY <2>1
    <2> HIDE DEF Is
    <2>5. m \in Nat /\ m + 1 \in 0 .. Cardinality(Blocks)
      BY <1>0
    <2>6. g[m] = f[m] /\ g[m + 1] = step(f[m], m + 1) /\ (m + 1) - 1 = m
      BY <2>5
    <2>7. \A k \in 0 .. m : g[k] = f[k] /\ (k # 0 => k - 1 \in 0 .. m)
      BY <2>5
    <2>8. \A k \in 0 .. m + 1 : k = m + 1 \/ k \in 0 .. m
      BY <2>5
    <2>9. m + 1 # 0
      BY <2>5
    <2> HIDE DEF g, step
    <2>3. \A k \in 0 .. m + 1 : g[k] = IF k = 0 THEN d ELSE step(g[k - 1], k)
      BY <2>2, <2>6, <2>7, <2>8, <2>9
    <2>4. Is(g, m + 1)
      BY <2>3 DEF Is, g, step
    <2> QED
      BY <2>4, <2>5
  <1>3. \A m \in 0 .. Cardinality(Blocks) : m \in M
    <2> HIDE DEF M
    <2> QED
      BY <1>0, <1>1, <1>2, Upwards
  <1>4. \E f : Is(f, Cardinality(Blocks))
    <2>1. Cardinality(Blocks) \in M
      <3> HIDE DEF M
      <3> QED
        BY <1>0, <1>3
    <2> HIDE DEF Is
    <2> QED
      BY <2>1
  <1> DEFINE f == CHOOSE f : Is(f, Cardinality(Blocks))
  <1>5. Is(f, Cardinality(Blocks))
    BY <1>4
  <1>6. AllBlocksScanned(d) = f[Cardinality(Blocks)]
    BY DEF AllBlocksScanned
  <1>7. \A k \in 0 .. Cardinality(Blocks) : f[k] = IF k = 0 THEN d ELSE ScanBlock(f[k - 1], Start + k - 1)
    <2> HIDE DEF f
    <2> QED
      BY <1>5
  <1> QED
    BY <1>6, <1>7

LEMMA BlocksScanned ==
    ASSUME NEW d, Scanning(d), ScanDone(d, Start - 1), NEW e, e = AllBlocksScanned(d)
    PROVE  Scanning(e) /\ Ready(e)
  <1>0. PICK n : n = Cardinality(Blocks)
    OBVIOUS
  <1>1. n \in Nat /\ n = End - Start + 1 /\ Start \in Nat /\ End \in Nat
    BY <1>0, BlockNumber, Sizes
  <1>2. PICK f : /\ \A k \in 0 .. n : f[k] = IF k = 0 THEN d ELSE ScanBlock(f[k - 1], Start + k - 1)
                 /\ AllBlocksScanned(d) = f[n]
    BY <1>0, ScanningBlocks
  <1> DEFINE T == {k \in 0 .. n : Scanning(f[k]) /\ ScanDone(f[k], Start + k - 1)}
  <1>4. 0 \in T
    <2>0. 0 \in 0 .. n
      BY <1>1
    <2>1. f[0] = d
      <3>1. \A k \in 0 .. n : k = 0 => f[k] = d
        BY <1>2, Zenon
      <3> QED
        BY <2>0, <3>1
    <2>2. Start + 0 - 1 = Start - 1
      BY <1>1
    <2> QED
      BY <2>0, <2>1, <2>2
  <1>5. ASSUME NEW k \in 0 .. n - 1, k \in T
        PROVE  k + 1 \in T
    <2>1. k + 1 \in 0 .. n /\ k + 1 # 0 /\ (k + 1) - 1 = k
      BY <1>1
    <2>2. PICK s : s = f[k]
      OBVIOUS
    <2>3. PICK b : b = Start + k
      OBVIOUS
    <2>4. PICK t : t = f[k + 1]
      OBVIOUS
    <2>5. b = Start + (k + 1) - 1 /\ b - 1 = Start + k - 1 /\ b \in Blocks
      BY <1>1, <2>3 DEF Blocks
    <2>6. t = ScanBlock(s, b)
      <3>1. f[k + 1] = ScanBlock(f[(k + 1) - 1], Start + (k + 1) - 1)
        BY <1>2, <2>1
      <3> QED
        BY <2>1, <2>2, <2>4, <2>5, <3>1
    <2>7. Scanning(s) /\ ScanDone(s, b - 1)
      BY <1>5, <2>2, <2>5
    <2>8. Scanning(t) /\ ScanDone(t, b)
      BY <2>5, <2>6, <2>7, BlockScanned
    <2> QED
      BY <2>1, <2>4, <2>5, <2>8
  <1>6. n \in T
    <2> HIDE DEF T
    <2> QED
      BY <1>1, <1>4, <1>5, Upwards
  <1>7. Scanning(e) /\ ScanDone(e, End)
    <2>1. Start + n - 1 = End
      BY <1>1
    <2> QED
      BY <1>2, <1>6, <2>1
  <1>8. \A q \in Blocks : q <= End
    BY DEF Blocks
  <1> QED
    BY <1>7, <1>8 DEF ScanDone, Ready

(* The objects in some order, each once.                                   *)
LEMMA EachOnce ==
    LET ids == SetToSeq(Ids)
        n == Len(ids)
    IN  /\ n \in Nat /\ \A k \in 1 .. n : ids[k] \in Ids
        /\ \A k, l \in 1 .. n : ids[k] = ids[l] => k = l
        /\ \A i \in Ids : \E k \in 1 .. n : ids[k] = i
  <1>1. PICK n : n = Cardinality(Ids)
    OBVIOUS
  <1>2. n \in Nat /\ ExistsBijection(1 .. n, Ids)
    BY <1>1, DeviceAssumption, FS_CardinalityType
  <1>3. PICK ids : ids = SetToSeq(Ids)
    OBVIOUS
  <1>4. ids \in [1 .. n -> Ids] /\ IsInjective(ids)
    <2>1. \E f \in [1 .. n -> Ids] : IsInjective(f)
      BY <1>2 DEF ExistsBijection, Bijection, Injection
    <2> QED
      BY <1>1, <1>3, <2>1 DEF SetToSeq
  <1>5. ids \in Injection(1 .. n, Ids)
    BY <1>4 DEF Injection
  <1>6. Cardinality(1 .. n) = n
    BY <1>2, FS_Interval
  <1>7. ids \in Surjection(1 .. n, Ids)
    BY <1>1, <1>5, <1>6, DeviceAssumption, FS_Injection
  <1>8. \A i \in Ids : \E k \in 1 .. n : ids[k] = i
    BY <1>7 DEF Surjection
  <1>9. \A k, l \in 1 .. n : ids[k] = ids[l] => k = l
    BY <1>4 DEF IsInjective
  <1>10. Len(ids) = n
    BY <1>2, <1>4
  <1> QED
    BY <1>2, <1>3, <1>4, <1>8, <1>9, <1>10

(* The objects in S are as the pages said, the others are done with.       *)
Swept(o) ==
    /\ Exact(o) /\ (Proper(o) \/ (o.deleted /\ o.dir = "root"))
    /\ o.here /\ o.dir # "lost+found" => o.chunk # 0

Sweeping(d, S) ==
    /\ Sound(d, 0) /\ Ready(d) /\ ~d.stale
    /\ \A j \in Ids : Points(d, j) /\ IF j \in S THEN Found(d.obj[j]) ELSE Swept(d.obj[j])

Sweep(d, i) ==
    IF d.obj[i].dir = "unlinked" /\ d.obj[i].deleted THEN SoftDeleteFile(d, i) ELSE d

LEMMA FoundSwept ==
    ASSUME NEW o \in Object, Found(o), ~(o.dir = "unlinked" /\ o.deleted)
    PROVE  Swept(o)
  <1>1. o.here /\ o.dir # "lost+found" => o.chunk # 0
    BY DEF Found, Object, Dirs
  <1> QED
    BY <1>1 DEF Found, Swept, Proper

LEMMA SweepStep ==
    ASSUME NEW d, NEW S, S \subseteq Ids, NEW i \in S, Sweeping(d, S), NEW e, e = Sweep(d, i),
           NEW R, R = S \ {i}
    PROVE  Sweeping(e, R)
  <1>1. i \in Ids /\ Found(d.obj[i]) /\ d.obj[i] \in Object
    BY ObjectIs DEF Sweeping, Sound
  <1>2. CASE d.obj[i].dir = "unlinked" /\ d.obj[i].deleted
    <2>1. e = SoftDeleteFile(d, i)
      BY <1>2 DEF Sweep
    <2>2. d.obj[i].here /\ ~d.obj[i].soft /\ d.obj[i].chunk # 0
      <3>1. d.obj[i].here
        <4>1. SUFFICES ASSUME d.obj[i] = NoObject PROVE FALSE
          BY <1>1 DEF Found
        <4> QED
          BY <1>2, <4>1, NoObjectIs
      <3> QED
        BY <1>1, <1>2, <3>1 DEF Found
    <2>3. Sound(d, 0) /\ Ready(d) /\ Header(d, i) /\ \A j \in Ids : j # i => Points(d, j)
      BY <1>1 DEF Sweeping, Points
    <2>4. /\ Sound(e, 0) /\ Ready(e) /\ \A j \in Ids : Points(e, j)
          /\ Proper(e.obj[i]) /\ Exact(e.obj[i])
          /\ e.obj[i].here => e.obj[i].chunk = d.obj[i].chunk
          /\ \A j \in Ids : j # i => e.obj[j] = d.obj[j]
          /\ e.stale = d.stale
      BY <1>1, <1>2, <2>1, <2>2, <2>3, SoftPoints
    <2>5. Swept(e.obj[i])
      BY <2>2, <2>4 DEF Swept
    <2>6. ASSUME NEW j \in Ids
          PROVE  IF j \in R THEN Found(e.obj[j]) ELSE Swept(e.obj[j])
      <3>1. CASE j = i
        BY <2>5, <3>1
      <3>2. CASE j # i
        <4>1. e.obj[j] = d.obj[j] /\ (j \in R <=> j \in S)
          BY <2>4, <3>2
        <4> QED
          BY <4>1 DEF Sweeping
      <3> QED
        BY <3>1, <3>2
    <2> QED
      BY <2>4, <2>6 DEF Sweeping
  <1>3. CASE ~(d.obj[i].dir = "unlinked" /\ d.obj[i].deleted)
    <2>1. e = d
      BY <1>3 DEF Sweep
    <2>2. Swept(d.obj[i])
      BY <1>1, <1>3, FoundSwept
    <2>3. \A j \in Ids : j # i => (j \in R <=> j \in S)
      OBVIOUS
    <2> QED
      BY <1>1, <2>1, <2>2, <2>3 DEF Sweeping
  <1> QED
    BY <1>2, <1>3

(* At the end of the scan.                                                 *)
LEMMA Sweeps ==
    ASSUME NEW d
    PROVE  \E f : /\ \A k \in 0 .. Len(SetToSeq(Ids)) :
                        f[k] = IF k = 0 THEN AllBlocksScanned(d) ELSE Sweep(f[k - 1], SetToSeq(Ids)[k])
                  /\ Scan(d) = f[Len(SetToSeq(Ids))]
  <1> DEFINE Is(f, m) == f = [k \in 0 .. m |-> IF k = 0 THEN AllBlocksScanned(d) ELSE Sweep(f[k - 1], SetToSeq(Ids)[k])]
             M == {m \in 0 .. Len(SetToSeq(Ids)) : \E f : Is(f, m)}
  <1>0. Len(SetToSeq(Ids)) \in Nat
    BY EachOnce
  <1>1. 0 \in M
    <2> DEFINE f == [k \in 0 .. 0 |-> AllBlocksScanned(d)]
    <2>1. Is(f, 0)
      OBVIOUS
    <2>2. 0 \in 0 .. Len(SetToSeq(Ids))
      BY <1>0
    <2> HIDE DEF Is, f
    <2> QED
      BY <2>1, <2>2
  <1>2. ASSUME NEW m \in 0 .. Len(SetToSeq(Ids)) - 1, m \in M
        PROVE  m + 1 \in M
    <2>1. PICK f : Is(f, m)
      BY <1>2
    <2> DEFINE step(e, k) == Sweep(e, SetToSeq(Ids)[k])
               g == [k \in 0 .. m + 1 |-> IF k = m + 1 THEN step(f[m], m + 1) ELSE f[k]]
    <2>2. \A k \in 0 .. m : f[k] = IF k = 0 THEN AllBlocksScanned(d) ELSE step(f[k - 1], k)
      BY <2>1
    <2> HIDE DEF Is
    <2>5. m \in Nat /\ m + 1 \in 0 .. Len(SetToSeq(Ids))
      BY <1>0
    <2>6. g[m] = f[m] /\ g[m + 1] = step(f[m], m + 1) /\ (m + 1) - 1 = m
      BY <2>5
    <2>7. \A k \in 0 .. m : g[k] = f[k] /\ (k # 0 => k - 1 \in 0 .. m)
      BY <2>5
    <2>8. \A k \in 0 .. m + 1 : k = m + 1 \/ k \in 0 .. m
      BY <2>5
    <2>9. m + 1 # 0
      BY <2>5
    <2> HIDE DEF g, step
    <2>3. \A k \in 0 .. m + 1 : g[k] = IF k = 0 THEN AllBlocksScanned(d) ELSE step(g[k - 1], k)
      BY <2>2, <2>6, <2>7, <2>8, <2>9
    <2>4. Is(g, m + 1)
      BY <2>3 DEF Is, g, step
    <2> QED
      BY <2>4, <2>5
  <1>3. \A m \in 0 .. Len(SetToSeq(Ids)) : m \in M
    <2> HIDE DEF M
    <2> QED
      BY <1>0, <1>1, <1>2, Upwards
  <1>4. \E f : Is(f, Len(SetToSeq(Ids)))
    <2>1. Len(SetToSeq(Ids)) \in M
      <3> HIDE DEF M
      <3> QED
        BY <1>0, <1>3
    <2> HIDE DEF Is
    <2> QED
      BY <2>1
  <1> DEFINE f == CHOOSE f : Is(f, Len(SetToSeq(Ids)))
  <1>5. Is(f, Len(SetToSeq(Ids)))
    BY <1>4
  <1>6. Scan(d) = f[Len(SetToSeq(Ids))]
    BY DEF Scan, Sweep
  <1>7. \A k \in 0 .. Len(SetToSeq(Ids)) : f[k] = IF k = 0 THEN AllBlocksScanned(d) ELSE Sweep(f[k - 1], SetToSeq(Ids)[k])
    <2> HIDE DEF f
    <2> QED
      BY <1>5
  <1> QED
    BY <1>6, <1>7

LEMMA ScanCall ==
    ASSUME NEW d, Scanning(d), ScanDone(d, Start - 1), NEW e, e = Scan(d),
           "undead" \notin Spoils(e), NEW exact
    PROVE  Intact(e, exact) /\ Named(e) /\ ~e.stale
  <1>1. PICK ids : ids = SetToSeq(Ids)
    OBVIOUS
  <1>2. PICK n : n = Len(ids)
    OBVIOUS
  <1>3. /\ n \in Nat /\ \A k \in 1 .. n : ids[k] \in Ids
        /\ \A k, l \in 1 .. n : ids[k] = ids[l] => k = l
        /\ \A i \in Ids : \E k \in 1 .. n : ids[k] = i
    BY <1>1, <1>2, EachOnce
  <1>4. PICK f : /\ \A k \in 0 .. n :
                        f[k] = IF k = 0 THEN AllBlocksScanned(d) ELSE Sweep(f[k - 1], ids[k])
                 /\ Scan(d) = f[n]
    BY <1>1, <1>2, Sweeps
  <1> DEFINE Rest(k) == {ids[l] : l \in k + 1 .. n}
             T == {k \in 0 .. n : Sweeping(f[k], Rest(k))}
  <1>5. 0 \in T
    <2>0. 0 \in 0 .. n
      BY <1>3
    <2>1. PICK g : g = AllBlocksScanned(d)
      OBVIOUS
    <2>2. f[0] = g
      <3>1. \A k \in 0 .. n : k = 0 => f[k] = AllBlocksScanned(d)
        BY <1>4, Zenon
      <3> QED
        BY <2>0, <2>1, <3>1
    <2>3. Scanning(g) /\ Ready(g)
      BY <2>1, BlocksScanned
    <2>4. \A j \in Ids : j \in Rest(0)
      BY <1>3
    <2>5. Sweeping(g, Rest(0))
      BY <2>3, <2>4 DEF Sweeping, Scanning
    <2> QED
      BY <2>0, <2>2, <2>5
  <1>6. ASSUME NEW k \in 0 .. n - 1, k \in T
        PROVE  k + 1 \in T
    <2>1. /\ k + 1 \in 0 .. n /\ k + 1 # 0 /\ (k + 1) - 1 = k
          /\ k + 1 \in 1 .. n /\ k + 1 \in k + 1 .. n
      BY <1>3
    <2>2. PICK g : g = f[k]
      OBVIOUS
    <2>3. PICK i : i = ids[k + 1]
      OBVIOUS
    <2>4. PICK h : h = f[k + 1]
      OBVIOUS
    <2>5. h = Sweep(g, i)
      <3>1. f[k + 1] = Sweep(f[(k + 1) - 1], ids[k + 1])
        BY <1>4, <2>1
      <3> QED
        BY <2>1, <2>2, <2>3, <2>4, <3>1
    <2>6. PICK S : S = Rest(k)
      OBVIOUS
    <2>7. PICK R : R = Rest(k + 1)
      OBVIOUS
    <2>8. S \subseteq Ids /\ i \in S
      <3>1. \A l \in k + 1 .. n : l \in 1 .. n
        BY <1>3
      <3> QED
        BY <1>3, <2>1, <2>3, <2>6, <3>1
    <2>9. R = S \ {i}
      <3>1. \A l \in k + 1 .. n : l \in 1 .. n /\ (l = k + 1 \/ l \in (k + 1) + 1 .. n)
        BY <1>3
      <3>2. \A l \in (k + 1) + 1 .. n : l \in k + 1 .. n /\ l # k + 1
        BY <1>3
      <3>3. ASSUME NEW x \in R
            PROVE  x \in S \ {i}
        <4>1. PICK l \in (k + 1) + 1 .. n : x = ids[l]
          BY <2>7
        <4>2. l \in k + 1 .. n /\ l # k + 1 /\ l \in 1 .. n
          BY <3>1, <3>2
        <4>3. x # i
          BY <1>3, <2>1, <2>3, <4>1, <4>2
        <4> QED
          BY <2>6, <4>1, <4>2, <4>3
      <3>4. ASSUME NEW x \in S \ {i}
            PROVE  x \in R
        <4>1. PICK l \in k + 1 .. n : x = ids[l]
          BY <2>6
        <4>2. l # k + 1
          BY <2>3, <4>1
        <4> QED
          BY <2>7, <3>1, <4>1, <4>2
      <3> QED
        BY <3>3, <3>4
    <2>10. Sweeping(g, S)
      BY <1>6, <2>2, <2>6
    <2>11. Sweeping(h, R)
      BY <2>5, <2>8, <2>9, <2>10, SweepStep
    <2> QED
      BY <2>1, <2>4, <2>7, <2>11
  <1>7. n \in T
    <2> HIDE DEF T
    <2> QED
      BY <1>3, <1>5, <1>6, Upwards
  <1>8. \A j \in Ids : j \notin Rest(n)
    BY <1>3
  <1>9. e = f[n]
    BY <1>4
  <1>10. Sweeping(e, Rest(n))
    BY <1>7, <1>9
  <1>11. Sound(e, 0) /\ Ready(e) /\ ~e.stale /\ \A j \in Ids : Points(e, j) /\ Swept(e.obj[j])
    BY <1>8, <1>10 DEF Sweeping
  <1>12. \A j \in Ids : ~(e.obj[j].dir = "root" /\ e.obj[j].deleted)
    BY DEF Spoils
  <1>13. \A j \in Ids : Proper(e.obj[j]) /\ Exact(e.obj[j])
    BY <1>11, <1>12 DEF Swept
  <1> QED
    BY <1>11, <1>13 DEF Intact, Named, Swept

-----------------------------------------------------------------------------
(* Power cuts and mounts.                                                  *)
LEMMA UnmountedScans ==
    ASSUME NEW nand, Flash(nand), NEW luck \in Luck
    PROVE  LET d == [Unmounted(nand, 0) EXCEPT !.luck = luck]
           IN  Scanning(d) /\ ScanDone(d, Start - 1)
  <1>1. PICK d : d = [Unmounted(nand, 0) EXCEPT !.luck = luck]
    OBVIOUS
  <1>2. PICK fresh : fresh = [Clean EXCEPT !.state = "UNKNOWN"]
    OBVIOUS
  <1>3. fresh \in Info /\ fresh.state = "UNKNOWN" /\ fresh.inUse = 0
    <2>1. PICK no \in BOOLEAN : no = FALSE
      OBVIOUS
    <2>2. PICK r : r = [state |-> "UNKNOWN", inUse |-> 0, soft |-> 0, retire |-> no]
      OBVIOUS
    <2>3. r \in Info /\ r.state = "UNKNOWN" /\ r.inUse = 0
      BY <2>2 DEF Info
    <2>4. r = fresh
      BY <1>2, <2>1, <2>2 DEF Clean
    <2> QED
      BY <2>3, <2>4
  <1>4. /\ d.nand = nand /\ d.bits = {} /\ d.erased = 0 /\ d.ablock = 0 /\ d.apage = 0
        /\ d.images = {} /\ d.luck = luck /\ d.stale = FALSE
        /\ d.obj = [i \in Ids |-> NoObject] /\ d.info = [b \in Blocks |-> fresh]
    BY <1>1, <1>2 DEF Unmounted
  <1>5. /\ \A b \in Blocks : d.info[b] = fresh /\ UsedIn(d, b) = {}
        /\ \A i \in Ids : d.obj[i] = NoObject
    BY <1>4 DEF UsedIn
  <1>6. Typed(d)
    <2>1. luck \in Luck /\ {} \in SUBSET Nand /\ nand \in Nand
      BY DEF Flash
    <2>2. d.obj \in [Ids -> Object] /\ d.info \in [Blocks -> Info]
      BY <1>3, <1>4, NoObjectIs
    <2>3. d = [nand |-> d.nand, info |-> d.info, bits |-> d.bits, erased |-> d.erased,
               ablock |-> d.ablock, apage |-> d.apage, finder |-> d.finder,
               checker |-> d.checker, obj |-> d.obj, result |-> d.result,
               images |-> d.images, luck |-> d.luck, stale |-> d.stale]
      BY <1>1 DEF Unmounted
    <2>4. /\ d.nand \in Nand /\ d.bits \in SUBSET Chunks /\ d.erased \in Int
          /\ d.ablock \in {0} \cup Blocks /\ d.apage \in Nat
          /\ d.images \in SUBSET Nand /\ d.luck \in Luck
      BY <1>4, <2>1
    <2>5. d.stale \in BOOLEAN
      BY <1>4
    <2> HIDE <1>4
    <2> QED
      BY <2>2, <2>3, <2>4, <2>5 DEF Typed
  <1>7. ASSUME NEW b \in Blocks
        PROVE  Stated(d, b, 0) /\ Counted(d, b)
    <2>1. 0 # b /\ Cardinality({}) = 0
      BY Sizes, FS_EmptySet
    <2> QED
      BY <1>3, <1>4, <1>5, <2>1 DEF Stated, Counted
  <1>8. d.erased = Cardinality(EmptyBlocks(d))
    <2>1. EmptyBlocks(d) = {}
      BY <1>3, <1>5 DEF EmptyBlocks
    <2> QED
      BY <1>4, <2>1, FS_EmptySet
  <1>9. Sound(d, 0)
    BY <1>4, <1>6, <1>7, <1>8 DEF Sound
  <1>10. ASSUME NEW i \in Ids
         PROVE  Points(d, i) /\ Found(d.obj[i])
    <2>1. Header(d, i)
      BY <1>5, NoObjectIs DEF Header
    <2>2. \A p \in Parts : Leaf(d, i, p)
      BY <1>5, NoObjectIs DEF Leaf, FindChunkInFile
    <2>3. Found(NoObject)
      BY NoObjectIs DEF Found, NoObject
    <2> QED
      BY <1>5, <2>1, <2>2, <2>3 DEF Points
  <1>11. Scanning(d)
    BY <1>4, <1>9, <1>10 DEF Scanning
  <1>12. ScanDone(d, Start - 1)
    <2>1. \A q \in Blocks : ~(q <= Start - 1)
      BY Sizes
    <2> QED
      BY <1>3, <1>5, <2>1 DEF ScanDone
  <1> QED
    BY <1>1, <1>11, <1>12

LEMMA FreshFlash == Flash(FreshNand)
  <1>1. PICK nand : nand = FreshNand
    OBVIOUS
  <1>2. ASSUME NEW c \in Chunks
        PROVE  /\ nand[c] \in PageSet /\ Signed(nand[c]) /\ Blank(nand, c)
               /\ nand[c].good <=> BlockOf(c) \notin FactoryBad
               /\ nand[c].good => nand[c] = ErasedPage
    <2>1. PICK good \in BOOLEAN : good <=> BlockOf(c) \notin FactoryBad
      OBVIOUS
    <2>2. PICK page : page = [ErasedPage EXCEPT !.good = good]
      OBVIOUS
    <2>3. page \in PageSet /\ Signed(page) /\ page.id = Unused /\ page.live /\ page.good = good
      BY <2>2, Erased DEF PageSet, ErasedPage, Signed
    <2>4. good => page = ErasedPage
      BY <2>2 DEF ErasedPage
    <2>5. nand[c] = page
      <3>1. (BlockOf(c) \notin FactoryBad) = good
        BY <2>1
      <3> QED
        BY <1>1, <2>2, <3>1 DEF FreshNand
    <2> QED
      BY <2>1, <2>3, <2>4, <2>5 DEF Blank
  <1>3. nand \in Nand
    BY <1>1, <1>2 DEF FreshNand, Nand
  <1>4. ASSUME NEW b \in Blocks, ~BadIn(nand, b)
        PROVE  \E k \in 0 .. PerBlock : Filled(nand, b, k, 0)
    <2>1. nand[b * PerBlock].good /\ b * PerBlock \in PagesOf(b)
      BY <1>4, FirstPages DEF BadIn
    <2>2. b \notin FactoryBad
      BY <1>2, <2>1 DEF PagesOf
    <2>3. \A c \in PagesOf(b) : nand[c].good /\ nand[c] = ErasedPage
      <3>1. \A c \in PagesOf(b) : nand[c].good
        BY <1>2, <2>2 DEF PagesOf
      <3> QED
        BY <1>2, <3>1 DEF PagesOf
    <2>4. \A c \in PagesOf(b) : Off(c) >= 0
      BY ChunksAre DEF PagesOf
    <2>5. Filled(nand, b, 0, 0)
      BY <2>3, <2>4 DEF Filled
    <2>6. 0 \in 0 .. PerBlock
      BY Sizes
    <2> QED
      BY <2>5, <2>6
  <1>5. \A b \in Blocks : ~Partial(nand, b)
    BY <1>2 DEF Partial, PagesOf
  <1> QED
    BY <1>1, <1>2, <1>3, <1>4, <1>5 DEF Flash

-----------------------------------------------------------------------------
(* The device between the calls: what Intact says, with the trees counted  *)
(* as long as no chunk was forgotten; and the flash that is not mounted.   *)
DeviceInv ==
    /\ on \in BOOLEAN
    /\ "undead" \notin spoiled =>
         IF on THEN /\ Intact(dev, "forgotten" \notin spoiled) /\ Named(dev)
                    /\ dev.stale => "stale" \in spoiled
         ELSE dev = Unmounted(dev.nand, 0) /\ Flash(dev.nand)

LEMMA RootIs ==
    ASSUME NEW d, NEW exact, Intact(d, exact), NEW i \in Ids, d.obj[i].dir = "root"
    PROVE  d.obj[i].here /\ ~d.obj[i].deleted
  <1>1. Proper(d.obj[i])
    BY DEF Intact
  <1>2. d.obj[i] # NoObject
    BY DEF NoObject
  <1> QED
    BY <1>1, <1>2 DEF Proper

LEMMA CallStarts ==
    ASSUME DeviceInv, on, "undead" \notin spoiled,
           NEW worn \in {0} \cup dev.bits, NEW erase \in EraseAnswers,
           NEW luck, luck = [worn |-> worn, erase |-> erase]
    PROVE  \E exact \in BOOLEAN :
               /\ exact <=> "forgotten" \notin spoiled
               /\ Intact([dev EXCEPT !.luck = luck], exact) /\ Named([dev EXCEPT !.luck = luck])
               /\ [dev EXCEPT !.luck = luck].obj = dev.obj
  <1>1. PICK exact \in BOOLEAN : exact <=> "forgotten" \notin spoiled
    OBVIOUS
  <1>2. Intact(dev, exact) /\ Named(dev)
    BY <1>1 DEF DeviceInv, Intact
  <1>3. /\ luck.worn \in {0} \cup dev.bits /\ luck.erase \in EraseAnswers
        /\ luck = [worn |-> luck.worn, erase |-> luck.erase]
    OBVIOUS
  <1>4. LET e == [dev EXCEPT !.luck = luck]
        IN  Intact(e, exact) /\ Named(e) /\ e.obj = dev.obj
    BY <1>2, <1>3, LuckCall
  <1> QED
    BY <1>1, <1>4

LEMMA CallEnds ==
    ASSUME NEW d, NEW exact \in BOOLEAN, NearlyIntact(d, exact), Named(d),
           "forgotten" \notin spoiled => exact,
           NEW after, NEW between, Finish(d, after, between), "undead" \notin spoiled'
    PROVE  DeviceInv'
  <1>1. spoiled' = spoiled \cup Spoils(d)
    BY DEF Finish
  <1>2. CASE dev' = Settled(d) /\ on' = TRUE
    <2>1. PICK x \in BOOLEAN : x <=> "forgotten" \notin spoiled'
      OBVIOUS
    <2>2. x => exact
      BY <1>1, <2>1
    <2>3. Intact(d, x)
      <3>1. CASE Intact(d, exact)
        BY <2>2, <3>1 DEF Intact
      <3>2. CASE Intact(d, FALSE) /\ Forgotten(d) # {}
        <4>1. "forgotten" \in Spoils(d)
          BY <3>2 DEF Spoils
        <4>2. ~x
          BY <1>1, <2>1, <4>1
        <4> QED
          BY <3>2, <4>2 DEF Intact
      <3> QED
        BY <3>1, <3>2 DEF NearlyIntact
    <2>4. PICK e : e = Settled(d)
      OBVIOUS
    <2>5. Intact(e, x) /\ Named(e) /\ e.stale = d.stale
      BY <2>3, <2>4, SettledCall
    <2>6. d.stale => "stale" \in spoiled'
      BY <1>1 DEF Spoils
    <2>7. Intact(e, "forgotten" \notin spoiled')
      BY <2>1, <2>5 DEF Intact
    <2>8. Intact(dev', "forgotten" \notin spoiled') /\ Named(dev') /\ (dev'.stale => "stale" \in spoiled')
      BY <1>2, <2>4, <2>5, <2>6, <2>7
    <2> QED
      BY <1>2, <2>8 DEF DeviceInv
  <1>3. CASE on' = FALSE /\ \E image \in d.images : dev' = Unmounted(image, 0)
    <2>1. PICK image \in d.images : dev' = Unmounted(image, 0)
      BY <1>3
    <2>2. Flash(image)
      BY DEF NearlyIntact, Intact, Sound
    <2>3. dev'.nand = image
      BY <2>1 DEF Unmounted
    <2> QED
      BY <1>3, <2>1, <2>2, <2>3 DEF DeviceInv
  <1> QED
    BY <1>2, <1>3 DEF Finish

LEMMA NearlyWhole ==
    ASSUME NEW d, NEW exact, Intact(d, exact)
    PROVE  NearlyIntact(d, exact)
  BY DEF NearlyIntact

LEMMA DeviceStarts == ASSUME Init PROVE DeviceInv
  <1>1. dev = Unmounted(FreshNand, 0) /\ on = FALSE
    BY DEF Init
  <1>2. dev.nand = FreshNand
    BY <1>1 DEF Unmounted
  <1> QED
    BY <1>1, <1>2, FreshFlash DEF DeviceInv

-----------------------------------------------------------------------------
(* The actions.  A call is some operator on the device with its luck, and   *)
(* then Finish.                                                            *)
Lucky(worn, erase) == [dev EXCEPT !.luck = [worn |-> worn, erase |-> erase]]
Ends(e) == \E after, between : Finish(e, after, between)

LEMMA EndsSpoil ==
    ASSUME NEW e, Ends(e), "undead" \notin spoiled'
    PROVE  "undead" \notin spoiled /\ "undead" \notin Spoils(e)
  BY DEF Ends, Finish

LEMMA CallKeeps ==
    ASSUME DeviceInv, on, NEW worn \in {0} \cup dev.bits, NEW erase \in EraseAnswers,
           NEW d, d = Lucky(worn, erase), NEW e,
           \A exact \in BOOLEAN :
               Intact(d, exact) /\ Named(d) /\ d.obj = dev.obj
                   => NearlyIntact(e, exact) /\ Named(e),
           Ends(e), "undead" \notin spoiled'
    PROVE  DeviceInv'
  <1>1. "undead" \notin spoiled
    BY EndsSpoil
  <1>2. PICK luck : luck = [worn |-> worn, erase |-> erase]
    OBVIOUS
  <1>3. d = [dev EXCEPT !.luck = luck]
    BY <1>2 DEF Lucky
  <1>4. PICK exact \in BOOLEAN :
            /\ exact <=> "forgotten" \notin spoiled
            /\ Intact(d, exact) /\ Named(d) /\ d.obj = dev.obj
    BY <1>1, <1>2, <1>3, CallStarts
  <1>5. NearlyIntact(e, exact) /\ Named(e) /\ ("forgotten" \notin spoiled => exact)
    BY <1>4
  <1>6. PICK after, between : Finish(e, after, between)
    BY DEF Ends
  <1> QED
    BY <1>5, <1>6, CallEnds

LEMMA CreateKeeps ==
    ASSUME DeviceInv, NEW n \in Names, NEW i \in Ids, Create(n, i), "undead" \notin spoiled'
    PROVE  DeviceInv'
  <1>1. PICK worn \in {0} \cup dev.bits, erase \in EraseAnswers :
            on /\ Ends(MknodFile(Lucky(worn, erase), i, n))
    BY DEF Create, Call, WithLuck, Answered, Ends, Lucky
  <1>2. PICK d, e : d = Lucky(worn, erase) /\ e = MknodFile(d, i, n)
    OBVIOUS
  <1>3. ASSUME NEW exact \in BOOLEAN, Intact(d, exact), Named(d), d.obj = dev.obj
        PROVE  NearlyIntact(e, exact) /\ Named(e)
    <2>1. ~d.obj[i].here
      BY <1>3 DEF Create
    <2>2. Intact(e, exact) /\ Named(e)
      BY <1>2, <1>3, <2>1, CreateCall
    <2> QED
      BY <2>2, NearlyWhole
  <1> QED
    BY <1>1, <1>2, <1>3, CallKeeps

LEMMA WriteStep ==
    ASSUME DeviceInv, NEW n \in Names, NEW i \in Ids, NEW p \in Parts, NEW v \in Values,
           Write(n, i, p, v), "undead" \notin spoiled'
    PROVE  DeviceInv'
  <1>1. PICK worn \in {0} \cup dev.bits, erase \in EraseAnswers :
            on /\ Ends(WriteDataToFile(FindObjectByName(Lucky(worn, erase), n), i, p, v))
    BY DEF Write, Call, WithLuck, Answered, Ends, Lucky
  <1>2. PICK d, f, e : /\ d = Lucky(worn, erase) /\ f = FindObjectByName(d, n)
                       /\ e = WriteDataToFile(f, i, p, v)
    OBVIOUS
  <1>3. ASSUME NEW exact \in BOOLEAN, Intact(d, exact), Named(d), d.obj = dev.obj
        PROVE  NearlyIntact(e, exact) /\ Named(e)
    <2>1. d.obj[i].dir = "root"
      BY <1>3 DEF Write, InRoot
    <2>2. Intact(f, exact) /\ Named(f) /\ f.obj = d.obj
      BY <1>2, <1>3, FindCall
    <2>3. f.obj[i].here /\ ~f.obj[i].deleted
      BY <2>1, <2>2, RootIs
    <2>4. Intact(e, exact) /\ Named(e)
      BY <1>2, <2>2, <2>3, WriteCall
    <2> QED
      BY <2>4, NearlyWhole
  <1> QED
    BY <1>1, <1>2, <1>3, CallKeeps

LEMMA FlushKeeps ==
    ASSUME DeviceInv, NEW n \in Names, NEW i \in Ids, Flush(n, i), "undead" \notin spoiled'
    PROVE  DeviceInv'
  <1>1. PICK worn \in {0} \cup dev.bits, erase \in EraseAnswers :
            on /\ Ends(FlushFile(Lucky(worn, erase), i))
    BY DEF Flush, Call, WithLuck, Ends, Lucky
  <1>2. PICK d, e : d = Lucky(worn, erase) /\ e = FlushFile(d, i)
    OBVIOUS
  <1>3. ASSUME NEW exact \in BOOLEAN, Intact(d, exact), Named(d), d.obj = dev.obj
        PROVE  NearlyIntact(e, exact) /\ Named(e)
    <2>1. d.obj[i].dir = "root"
      BY <1>3 DEF Flush, InRoot
    <2>2. d.obj[i].here /\ ~d.obj[i].deleted
      BY <1>3, <2>1, RootIs
    <2>3. Intact(e, exact) /\ Named(e)
      BY <1>2, <1>3, <2>1, <2>2, FlushCall
    <2> QED
      BY <2>3, NearlyWhole
  <1> QED
    BY <1>1, <1>2, <1>3, CallKeeps

LEMMA TruncateKeeps ==
    ASSUME DeviceInv, NEW n \in Names, NEW i \in Ids, NEW size \in 0 .. Cardinality(Parts),
           Truncate(n, i, size), "undead" \notin spoiled'
    PROVE  DeviceInv'
  <1>1. PICK worn \in {0} \cup dev.bits, erase \in EraseAnswers :
            on /\ Ends(ResizeFile(FindObjectByName(Lucky(worn, erase), n), i, size))
    BY DEF Truncate, Call, WithLuck, Ends, Lucky
  <1>2. PICK d, f, e : /\ d = Lucky(worn, erase) /\ f = FindObjectByName(d, n)
                       /\ e = ResizeFile(f, i, size)
    OBVIOUS
  <1>3. ASSUME NEW exact \in BOOLEAN, Intact(d, exact), Named(d), d.obj = dev.obj
        PROVE  NearlyIntact(e, exact) /\ Named(e)
    <2>1. d.obj[i].dir = "root" /\ size < d.obj[i].size
      BY <1>3 DEF Truncate, InRoot
    <2>2. Intact(f, exact) /\ Named(f) /\ f.obj = d.obj
      BY <1>2, <1>3, FindCall
    <2>3. f.obj[i].here /\ ~f.obj[i].deleted
      BY <2>1, <2>2, RootIs
    <2>4. size \in Nat /\ size < f.obj[i].size
      BY <2>1, <2>2
    <2> QED
      BY <1>2, <2>2, <2>3, <2>4, TruncateCall
  <1> QED
    BY <1>1, <1>2, <1>3, CallKeeps

LEMMA UnlinkKeeps ==
    ASSUME DeviceInv, NEW n \in Names, NEW i \in Ids, Unlink(n, i), "undead" \notin spoiled'
    PROVE  DeviceInv'
  <1>1. PICK worn \in {0} \cup dev.bits, erase \in EraseAnswers :
            on /\ Ends(UnlinkFile(FindObjectByName(Lucky(worn, erase), n), i))
    BY DEF Unlink, Call, WithLuck, Ends, Lucky
  <1>2. PICK d, f, e : /\ d = Lucky(worn, erase) /\ f = FindObjectByName(d, n)
                       /\ e = UnlinkFile(f, i)
    OBVIOUS
  <1>3. ASSUME NEW exact \in BOOLEAN, Intact(d, exact), Named(d), d.obj = dev.obj
        PROVE  NearlyIntact(e, exact) /\ Named(e)
    <2>1. d.obj[i].dir = "root"
      BY <1>3 DEF Unlink, InRoot
    <2>2. Intact(f, exact) /\ Named(f) /\ f.obj = d.obj
      BY <1>2, <1>3, FindCall
    <2>3. f.obj[i].here /\ ~f.obj[i].deleted /\ f.obj[i].dir = "root"
      BY <2>1, <2>2, RootIs
    <2>4. Intact(e, exact) /\ Named(e)
      BY <1>2, <2>2, <2>3, UnlinkCall
    <2> QED
      BY <2>4, NearlyWhole
  <1> QED
    BY <1>1, <1>2, <1>3, CallKeeps

LEMMA PowerCutKeeps ==
    ASSUME DeviceInv, PowerCut, "undead" \notin spoiled'
    PROVE  DeviceInv'
  <1>1. on /\ on' = FALSE /\ spoiled' = spoiled /\ dev' = Unmounted(dev.nand, 0)
    BY DEF PowerCut
  <1>2. Flash(dev.nand)
    BY <1>1 DEF DeviceInv, Intact, Sound
  <1>3. dev'.nand = dev.nand
    BY <1>1 DEF Unmounted
  <1> QED
    BY <1>1, <1>2, <1>3 DEF DeviceInv

LEMMA MountKeeps ==
    ASSUME DeviceInv, Mount, "undead" \notin spoiled'
    PROVE  DeviceInv'
  <1>1. PICK worn \in {0} \cup Chunks, erase \in EraseAnswers :
            ~on /\ Ends(Scan(Lucky(worn, erase)))
    BY DEF Mount, Mounted, WithLuck, Ends, Lucky
  <1>2. PICK d, e : d = Lucky(worn, erase) /\ e = Scan(d)
    OBVIOUS
  <1>3. "undead" \notin spoiled /\ "undead" \notin Spoils(e)
    BY <1>1, <1>2, EndsSpoil
  <1>4. PICK nand : nand = dev.nand
    OBVIOUS
  <1>5. dev = Unmounted(nand, 0) /\ Flash(nand)
    BY <1>1, <1>3, <1>4 DEF DeviceInv
  <1>6. PICK luck : luck = [worn |-> worn, erase |-> erase]
    OBVIOUS
  <1>7. luck \in Luck /\ d = [Unmounted(nand, 0) EXCEPT !.luck = luck]
    BY <1>2, <1>5, <1>6 DEF Lucky, Luck
  <1>8. Scanning(d) /\ ScanDone(d, Start - 1)
    BY <1>5, <1>7, UnmountedScans
  <1>9. PICK exact \in BOOLEAN : exact
    OBVIOUS
  <1>10. Intact(e, exact) /\ Named(e)
    BY <1>2, <1>3, <1>8, ScanCall
  <1>11. PICK after, between : Finish(e, after, between)
    BY <1>1, <1>2 DEF Ends
  <1> QED
    BY <1>9, <1>10, <1>11, NearlyWhole, CallEnds

LEMMA NextKeeps == ASSUME DeviceInv, Next, "undead" \notin spoiled' PROVE DeviceInv'
  <1>1. ASSUME NEW n \in Names, NEW i \in Ids, Create(n, i) PROVE DeviceInv'
    BY <1>1, CreateKeeps
  <1>2. ASSUME NEW n \in Names, NEW i \in Ids, NEW p \in Parts, NEW v \in Values, Write(n, i, p, v)
        PROVE  DeviceInv'
    BY <1>2, WriteStep
  <1>3. ASSUME NEW n \in Names, NEW i \in Ids, Flush(n, i) PROVE DeviceInv'
    BY <1>3, FlushKeeps
  <1>4. ASSUME NEW n \in Names, NEW i \in Ids, NEW size \in 0 .. Cardinality(Parts), Truncate(n, i, size)
        PROVE  DeviceInv'
    BY <1>4, TruncateKeeps
  <1>5. ASSUME NEW n \in Names, NEW i \in Ids, Unlink(n, i) PROVE DeviceInv'
    BY <1>5, UnlinkKeeps
  <1>6. CASE PowerCut
    BY <1>6, PowerCutKeeps
  <1>7. CASE Mount
    BY <1>7, MountKeeps
  <1> QED
    BY <1>1, <1>2, <1>3, <1>4, <1>5, <1>6, <1>7 DEF Next

LEMMA EndsOn == ASSUME NEW e, Ends(e) PROVE on' \in BOOLEAN
  BY DEF Ends, Finish

LEMMA NextOn == ASSUME Next PROVE on' \in BOOLEAN
  <1>1. ASSUME NEW n, NEW i, Create(n, i) PROVE on' \in BOOLEAN
    <2>1. \E e : Ends(e)
      BY <1>1 DEF Create, Call, WithLuck, Answered, Ends
    <2> QED
      BY <2>1, EndsOn
  <1>2. ASSUME NEW n, NEW i, NEW p, NEW v, Write(n, i, p, v) PROVE on' \in BOOLEAN
    <2>1. \E e : Ends(e)
      BY <1>2 DEF Write, Call, WithLuck, Answered, Ends
    <2> QED
      BY <2>1, EndsOn
  <1>3. ASSUME NEW n, NEW i, Flush(n, i) PROVE on' \in BOOLEAN
    <2>1. \E e : Ends(e)
      BY <1>3 DEF Flush, Call, WithLuck, Ends
    <2> QED
      BY <2>1, EndsOn
  <1>4. ASSUME NEW n, NEW i, NEW size, Truncate(n, i, size) PROVE on' \in BOOLEAN
    <2>1. \E e : Ends(e)
      BY <1>4 DEF Truncate, Call, WithLuck, Ends
    <2> QED
      BY <2>1, EndsOn
  <1>5. ASSUME NEW n, NEW i, Unlink(n, i) PROVE on' \in BOOLEAN
    <2>1. \E e : Ends(e)
      BY <1>5 DEF Unlink, Call, WithLuck, Ends
    <2> QED
      BY <2>1, EndsOn
  <1>6. ASSUME PowerCut PROVE on' \in BOOLEAN
    BY <1>6 DEF PowerCut
  <1>7. ASSUME Mount PROVE on' \in BOOLEAN
    <2>1. \E e : Ends(e)
      BY <1>7 DEF Mount, Mounted, WithLuck, Ends
    <2> QED
      BY <2>1, EndsOn
  <1> QED
    BY <1>1, <1>2, <1>3, <1>4, <1>5, <1>6, <1>7 DEF Next

LEMMA DeviceStep == ASSUME DeviceInv, [Next]_vars PROVE DeviceInv'
  <1>1. CASE "undead" \in spoiled' /\ Next
    BY <1>1, NextOn DEF DeviceInv
  <1>2. CASE "undead" \notin spoiled' /\ Next
    BY <1>2, NextKeeps
  <1>3. CASE UNCHANGED vars
    BY <1>3 DEF vars, DeviceInv
  <1> QED
    BY <1>1, <1>2, <1>3

(* Unless a file in the root was marked deleted: on a mounted device the     *)
(* pages, the counters, the trees and the headers fit each other, and an     *)
(* unmounted one has a flash that the scan can make such a device of.        *)
THEOREM DeviceInvariant == Spec => []DeviceInv
  BY DeviceStarts, DeviceStep, PTL DEF Spec

LEMMA InvAccounts == DeviceInv => BlocksAccounted
  <1> SUFFICES ASSUME DeviceInv, on, "undead" \notin spoiled PROVE BlocksAccounted
    BY DEF BlocksAccounted
  <1>1. Sound(dev, 0)
    BY DEF DeviceInv, Intact
  <1>2. dev.erased = Cardinality({b \in Blocks : dev.info[b].state = "EMPTY"})
    BY <1>1 DEF Sound, EmptyBlocks
  <1>3. ASSUME NEW b \in Blocks
        PROVE  /\ dev.info[b].state # "DEAD" =>
                      dev.info[b].inUse = Cardinality(dev.bits \cap PagesOf(b))
               /\ dev.info[b].state \in {"EMPTY", "DEAD"} => dev.bits \cap PagesOf(b) = {}
               /\ dev.info[b].state = "ALLOCATING" <=> dev.ablock = b
    <2>1. Counted(dev, b)
      BY <1>1 DEF Sound
    <2> QED
      BY <2>1 DEF Counted, UsedIn
  <1>4. ASSUME NEW b \in Blocks, dev.info[b].state = "EMPTY", NEW c \in PagesOf(b)
        PROVE  dev.nand[c] = ErasedPage
    <2>1. Filled(dev.nand, b, 0, 0)
      BY <1>1, <1>4 DEF Sound, Stated
    <2>2. Off(c) >= 0
      BY ChunksAre, Sizes DEF PagesOf
    <2> QED
      BY <2>1, <2>2 DEF Filled
  <1> QED
    BY <1>2, <1>3, <1>4 DEF BlocksAccounted

LEMMA InvOwns == DeviceInv => TreesOwnPages
  <1> DEFINE used(i) == {p \in Parts : dev.obj[i].tree[p] # 0}
  <1>1. ASSUME DeviceInv, on, spoiled = {}, NEW i \in Ids, dev.obj[i].here
        PROVE  LET o == dev.obj[i]
               IN  /\ o.chunk # 0 => /\ o.chunk \in dev.bits /\ dev.nand[o.chunk].live
                                     /\ dev.nand[o.chunk].id = i
                                     /\ dev.nand[o.chunk].part = 0
                   /\ \A p \in used(i) : o.tree[p] \in dev.bits /\ FindChunkInFile(dev, i, p) # 0
                   /\ ~o.soft => o.n = Cardinality(used(i))
    <2>1. PICK exact \in BOOLEAN : exact
      OBVIOUS
    <2>2. Intact(dev, exact) /\ ~dev.stale
      BY <1>1, <2>1 DEF DeviceInv, Intact
    <2>3. Header(dev, i) /\ (\A p \in Parts : Leaf(dev, i, p)) /\ Exact(dev.obj[i])
      BY <2>1, <2>2 DEF Intact, Points
    <2>4. LET o == dev.obj[i]
          IN  o.chunk # 0 => /\ o.chunk \in dev.bits /\ dev.nand[o.chunk].live
                             /\ dev.nand[o.chunk].id = i /\ dev.nand[o.chunk].part = 0
      BY <2>2, <2>3 DEF Header
    <2>5. ASSUME NEW p \in used(i)
          PROVE  dev.obj[i].tree[p] \in dev.bits /\ FindChunkInFile(dev, i, p) # 0
      <3>1. p \in Parts /\ dev.obj[i].tree[p] # 0
        OBVIOUS
      <3>2. FindChunkInFile(dev, i, p) # 0
        BY <2>2, <2>3, <3>1 DEF Leaf
      <3>3. dev.obj[i].tree[p] \in dev.bits
        BY <2>3, <3>1, <3>2 DEF Leaf
      <3> QED
        BY <3>2, <3>3
    <2>6. ~dev.obj[i].soft => dev.obj[i].n = Cardinality(used(i))
      BY <2>3 DEF Exact, UsedParts
    <2> QED
      BY <2>4, <2>5, <2>6
  <1> QED
    BY <1>1 DEF TreesOwnPages

(* The counters that allocation and collection trust are exact after every   *)
(* call, power cut and mount.                                              *)
THEOREM CountersAreExact == Spec => []BlocksAccounted
  BY DeviceInvariant, InvAccounts, PTL

(* Headers and trees point at live pages of their own object, so that no      *)
(* page is counted out twice and none in use is erased.                      *)
THEOREM TreesAreOwned == Spec => []TreesOwnPages
  BY DeviceInvariant, InvOwns, PTL

=============================================================================
