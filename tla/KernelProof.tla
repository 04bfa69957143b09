---------------------------- MODULE KernelProof -----------------------------
(***************************************************************************)
(* Proofs about the parts of T-OS that others call: pages, heap, tasks,    *)
(* division and the reading of formats.                                    *)
(*                                                                         *)
(* Pages: the allocator never hands the same page to two callers and never *)
(* loses one.  The inductive invariant is the conjunction of the four      *)
(* invariants TLC checks; none of them but TypeOK is inductive alone,      *)
(* because disjoint runs follow from the bitmap being exact and the bitmap *)
(* stays exact because the runs are disjoint and lie outside the image.    *)
(*                                                                         *)
(* Heap: whatever is allocated, reallocated and freed in any order, the    *)
(* blocks cover the pool and their two tags agree; and as long as no       *)
(* allocation took the block at the list's head whole, the list is one     *)
(* circle of exactly the free blocks, a scan of it ends, and no block is   *)
(* handed to two callers.  The list is kept by sets (Ring): next and prev  *)
(* undo each other on the free blocks, and no part of them is closed under *)
(* next, so that who follows next from any of them comes to all.           *)
(*                                                                         *)
(* Tasks: for any number of them and whether the memory pool lasts or runs *)
(* out, every variable keeps its type, and a TCB is in one place at a      *)
(* time.  The argument (Apart): every operation either moves one task      *)
(* between two lists or hands the processor from one task to another;      *)
(* TaskSwitch keeps the places apart whenever it is entered with lists     *)
(* that do.                                                                *)
(*                                                                         *)
(* Division: the routines return what they are called for whatever the     *)
(* width of the words is.  The invariant is that of the recursion: what is *)
(* left to divide and what was found so far make up the dividend.          *)
(*                                                                         *)
(* Formats: the reader of a format does not pass its end unless a          *)
(* conversion is not finished there.                                       *)
(***************************************************************************)
EXTENDS PageAlloc, BoundTag, TaskScheduler, Division, Formatting, NumberLemmas,
        FiniteSetTheorems, SequenceTheorems

PagesInv == TypeOK /\ RunsDisjoint /\ BitmapExact /\ OutsideImage

LEMMA InitPagesInv == Init => PagesInv
  BY PagesAssumption
  DEF Init, PagesInv, TypeOK, RunsDisjoint, BitmapExact, OutsideImage, Pages, Run

(* A run that is handed out touches no page of the runs held before.       *)
LEMMA TakenRun ==
  ASSUME PagesInv, NEW n \in 1 .. MaxRun, NEW i \in Fits(n),
         first' = i, used' = used \cup (i .. i + n - 1),
         held' = held \cup {[start |-> i, num |-> n]}
  PROVE  PagesInv'
<1> DEFINE new == [start |-> i, num |-> n]
<1>1. /\ i \in Nat /\ n \in Nat /\ n > 0 /\ i >= first /\ i + n <= NumPages
      /\ i .. (i + n - 1) \cap used = {}
      /\ new.start = i /\ new.num = n /\ PagesOf(new) = i .. (i + n - 1)
  BY PagesAssumption DEF Fits, PagesInv, TypeOK, PagesOf
<1>2. \A r \in held : PagesOf(r) \subseteq used
  <2> SUFFICES ASSUME NEW r \in held, NEW p \in PagesOf(r) PROVE p \in used
    OBVIOUS
  <2>1. r \in Run /\ r.start + r.num <= NumPages
    BY DEF PagesInv, TypeOK, OutsideImage
  <2>2. p \in Pages
    BY <2>1, PagesAssumption DEF PagesOf, Pages, Run
  <2> QED BY <2>2 DEF PagesInv, BitmapExact
<1>3. TypeOK'
  <2>1. i .. (i + n - 1) \subseteq Pages
    BY <1>1, PagesAssumption DEF Pages
  <2>3. used' \subseteq Pages
    BY <2>1 DEF PagesInv, TypeOK
  <2>2. new \in Run
    <3>1. i \in Pages
      BY <1>1, PagesAssumption DEF Pages
    <3> QED BY <3>1 DEF Run
  <2> HIDE DEF new
  <2>4. held' \subseteq Run
    BY <2>2 DEF PagesInv, TypeOK, new
  <2> QED BY <2>3, <2>4, <1>1, PagesAssumption DEF PagesInv, TypeOK
<1>4. RunsDisjoint'
  <2> SUFFICES ASSUME NEW r \in held', NEW s \in held', r # s
               PROVE  PagesOf(r) \cap PagesOf(s) = {}
    BY DEF RunsDisjoint, PagesOf
  <2>1. CASE r = new \/ s = new
    BY <2>1, <1>1, <1>2
  <2>2. CASE r # new /\ s # new
    BY <2>2 DEF PagesInv, RunsDisjoint
  <2> QED BY <2>1, <2>2
<1>5. BitmapExact'
  <2> SUFFICES ASSUME NEW p \in Pages
               PROVE  p \in used' <=> \/ p < ReservedPages
                                      \/ \E r \in held' : p \in PagesOf(r)
    BY DEF BitmapExact, PagesOf
  <2>1. p \in used' <=> p \in used \/ p \in PagesOf(new)
    BY <1>1
  <2>2. (\E r \in held' : p \in PagesOf(r))
          <=> (\E r \in held : p \in PagesOf(r)) \/ p \in PagesOf(new)
    OBVIOUS
  <2> QED BY <2>1, <2>2 DEF PagesInv, BitmapExact
<1>6. OutsideImage'
  BY <1>1, PagesAssumption DEF PagesInv, OutsideImage, TypeOK
<1> QED BY <1>3, <1>4, <1>5, <1>6 DEF PagesInv

(* Giving a run back clears its bits only: no other run and no page of the *)
(* image has one of them.                                                  *)
LEMMA GivenBackRun ==
  ASSUME PagesInv, NEW r \in held, FreePages(r)
  PROVE  PagesInv'
<1>1. /\ r \in Run /\ r.start \in Nat /\ r.num \in Nat
      /\ ReservedPages <= r.start /\ r.start + r.num <= NumPages
      /\ first \in Nat /\ first >= ReservedPages
  BY PagesAssumption DEF PagesInv, TypeOK, OutsideImage, Run, Pages
<1>2. held' = held \ {r} /\ used' = used \ PagesOf(r)
  BY DEF FreePages
<1>3. TypeOK'
  <2>1. first' \in 0 .. NumPages
    BY <1>1, PagesAssumption DEF FreePages, PagesInv, TypeOK
  <2>2. used' \subseteq Pages /\ held' \subseteq Run
    BY <1>2, PagesAssumption DEF PagesInv, TypeOK
  <2> QED BY <2>1, <2>2 DEF TypeOK
<1>4. RunsDisjoint'
  BY <1>2 DEF PagesInv, RunsDisjoint, PagesOf
<1>5. BitmapExact'
  <2>1. PagesOf(r) \cap (0 .. ReservedPages - 1) = {}
    BY <1>1, PagesAssumption DEF PagesOf
  <2>2. \A s \in held' : PagesOf(s) \cap PagesOf(r) = {}
    BY <1>2 DEF PagesInv, RunsDisjoint
  <2> SUFFICES ASSUME NEW p \in Pages
               PROVE  p \in used' <=> \/ p < ReservedPages
                                      \/ \E s \in held' : p \in PagesOf(s)
    BY DEF BitmapExact, PagesOf
  <2>3. (\E s \in held : p \in PagesOf(s))
          <=> (\E s \in held' : p \in PagesOf(s)) \/ p \in PagesOf(r)
    BY <1>2
  <2>4. p < ReservedPages => p \in 0 .. ReservedPages - 1
    BY PagesAssumption DEF Pages
  <2> QED BY <2>1, <2>2, <2>3, <2>4, <1>2 DEF PagesInv, BitmapExact
<1>6. OutsideImage'
  BY <1>1, <1>2, PagesAssumption DEF FreePages, PagesInv, OutsideImage
<1> QED BY <1>3, <1>4, <1>5, <1>6 DEF PagesInv

LEMMA NextPagesInv == PagesInv /\ [Next]_vars => PagesInv'
<1> SUFFICES ASSUME PagesInv, [Next]_vars PROVE PagesInv'
  OBVIOUS
<1>1. ASSUME NEW n \in 1 .. MaxRun, AllocPages(n) PROVE PagesInv'
  <2>1. CASE \E i \in Fits(n) :
               /\ first' = i /\ used' = used \cup (i .. i + n - 1)
               /\ held' = held \cup {[start |-> i, num |-> n]}
    BY <2>1, TakenRun
  <2>2. CASE UNCHANGED vars
    BY <2>2 DEF vars, PagesInv, TypeOK, RunsDisjoint, BitmapExact,
                OutsideImage
  <2> QED BY <1>1, <2>1, <2>2 DEF AllocPages
<1>2. ASSUME NEW r \in held, FreePages(r) PROVE PagesInv'
  BY <1>2, GivenBackRun
<1>3. CASE UNCHANGED vars
  BY <1>3 DEF vars, PagesInv, TypeOK, RunsDisjoint, BitmapExact, OutsideImage
<1> QED BY <1>1, <1>2, <1>3 DEF Next

(* The invariants of the page allocator hold in every state of every       *)
(* behaviour, for all values of the constants.                             *)
THEOREM PagesInvariant == Spec => []PagesInv
<1> QED BY InitPagesInv, NextPagesInv, PTL DEF Spec

(* TEE_AllocPages never hands out a page that a caller still holds.        *)
THEOREM PagesNeverShared == Spec => []RunsDisjoint
<1>1. PagesInv => RunsDisjoint
  BY DEF PagesInv
<1> QED BY <1>1, PagesInvariant, PTL

(* The bitmap always says exactly which pages are taken.                   *)
THEOREM PagesNeverLost == Spec => []BitmapExact
<1>1. PagesInv => BitmapExact
  BY DEF PagesInv
<1> QED BY <1>1, PagesInvariant, PTL

-----------------------------------------------------------------------------
Link == 0 .. PoolSize
Headers == [prev : Link, next : Link, tag : BOOLEAN, size : Link]

HeapTyped ==
    /\ Blocks \subseteq Word
    /\ head \in [Blocks -> Headers]
    /\ free_list \in Link
    /\ owned \subseteq [block : Word, size : Nat]
    /\ taken \in BOOLEAN
    /\ fault \in {"no", "spin", "hang", "wild"}

Ring(h, F) ==
    /\ \A y \in F : /\ h[y].next \in F /\ h[y].prev \in F
                    /\ h[h[y].next].prev = y /\ h[h[y].prev].next = y
    /\ \A T \in SUBSET F : T # {} /\ (\A y \in T : h[y].next \in T) => T = F

ListExact ==
    /\ free_list \in FreeBlocks
    /\ Ring(head, FreeBlocks)
    /\ \A y \in FreeBlocks : RightOf(y) \notin FreeBlocks
    /\ fault \in {"no", "spin"}

HeapInv ==
    HeapTyped /\ BoundaryTags /\ (~taken => ListExact /\ HeldApart)

-----------------------------------------------------------------------------
(* Rings.                                                                  *)

(* Only links make a ring.                                                 *)
LEMMA RingSame ==
    ASSUME NEW h, NEW g, NEW F, Ring(h, F),
           \A y \in F : g[y].next = h[y].next /\ g[y].prev = h[y].prev
    PROVE  Ring(g, F)
  <1>1. \A y \in F : /\ g[y].next \in F /\ g[y].prev \in F
                     /\ g[g[y].next].prev = y /\ g[g[y].prev].next = y
    BY DEF Ring
  <1>2. ASSUME NEW T \in SUBSET F, T # {}, \A y \in T : g[y].next \in T
        PROVE  T = F
    <2>1. \A y \in T : h[y].next \in T
      BY <1>2
    <2> QED
      BY <1>2, <2>1 DEF Ring
  <1> QED
    BY <1>1, <1>2 DEF Ring

(* A ring without one of its blocks, its neighbours linked to each other.  *)
LEMMA RingWithout ==
    ASSUME NEW h, NEW g, NEW F, Ring(h, F), NEW p \in F,
           \A y \in F \ {p} :
              /\ g[y].next = IF h[y].next = p THEN h[p].next ELSE h[y].next
              /\ g[y].prev = IF h[y].prev = p THEN h[p].prev ELSE h[y].prev
    PROVE  Ring(g, F \ {p})
  <1> DEFINE E == F \ {p}
  <1>0. /\ \A y \in F : /\ h[y].next \in F /\ h[y].prev \in F
                        /\ h[h[y].next].prev = y /\ h[h[y].prev].next = y
    BY DEF Ring
  <1>1. ASSUME NEW y \in E
        PROVE  /\ g[y].next \in E /\ g[y].prev \in E
               /\ g[g[y].next].prev = y /\ g[g[y].prev].next = y
    <2>1. CASE h[y].next = p
      <3>1. g[y].next = h[p].next /\ h[p].prev = y /\ h[p].next # p
        BY <1>0, <2>1
      <3>2. g[y].next \in E /\ g[g[y].next].prev = y
        BY <1>0, <3>1
      <3> QED
        BY <1>0, <3>2, <2>1
    <2>2. CASE h[y].next # p
      <3>1. g[y].next \in E /\ g[g[y].next].prev = y
        BY <1>0, <2>2
      <3> QED
        BY <1>0, <3>1, <2>2
    <2> QED
      BY <2>1, <2>2
  <1>2. ASSUME NEW T \in SUBSET E, T # {}, \A y \in T : g[y].next \in T
        PROVE  T = E
    <2>1. CASE h[p].prev \in T
      <3> DEFINE U == T \cup {p}
      <3>1. \A y \in U : h[y].next \in U
        BY <1>0, <1>2, <2>1
      <3>2. U \in SUBSET F /\ U # {}
        OBVIOUS
      <3>3. U = F
        BY <3>1, <3>2 DEF Ring
      <3> QED
        BY <3>3
    <2>2. CASE h[p].prev \notin T
      <3>1. \A y \in T : h[y].next \in T
        BY <1>0, <1>2, <2>2
      <3>2. T = F
        BY <3>1, <1>2 DEF Ring
      <3> QED
        BY <3>2
    <2> QED
      BY <2>1, <2>2
  <1> QED
    BY <1>1, <1>2 DEF Ring

(* A ring with a block put behind one of its blocks.                       *)
LEMMA RingWith ==
    ASSUME NEW h, NEW g, NEW F, Ring(h, F), NEW w \in F, NEW m, m \notin F,
           g[m].next = h[w].next, g[m].prev = w, g[w].next = m,
           g[h[w].next].prev = m,
           \A y \in F \ {w} : g[y].next = h[y].next,
           \A y \in F \ {h[w].next} : g[y].prev = h[y].prev
    PROVE  Ring(g, F \cup {m})
  <1> DEFINE E == F \cup {m}
  <1>0. /\ \A y \in F : /\ h[y].next \in F /\ h[y].prev \in F
                        /\ h[h[y].next].prev = y /\ h[h[y].prev].next = y
    BY DEF Ring
  <1>1. ASSUME NEW y \in E
        PROVE  /\ g[y].next \in E /\ g[y].prev \in E
               /\ g[g[y].next].prev = y /\ g[g[y].prev].next = y
    <2>1. CASE y = m
      BY <1>0, <2>1
    <2>2. CASE y \in F
      <3>1. g[y].next \in E /\ g[g[y].next].prev = y
        BY <1>0, <2>2
      <3>2. g[y].prev \in E /\ g[g[y].prev].next = y
        BY <1>0, <2>2
      <3> QED
        BY <3>1, <3>2
    <2> QED
      BY <2>1, <2>2
  <1>2. ASSUME NEW T \in SUBSET E, T # {}, \A y \in T : g[y].next \in T
        PROVE  T = E
    <2> DEFINE U == T \ {m}
    <2>1. \A y \in U : h[y].next \in U
      <3> SUFFICES ASSUME NEW y \in U PROVE h[y].next \in U
        OBVIOUS
      <3>1. y \in F /\ h[y].next \in F
        BY <1>0
      <3>2. CASE y = w
        BY <1>2, <3>1, <3>2
      <3>3. CASE y # w
        BY <1>2, <3>1, <3>3
      <3> QED
        BY <3>2, <3>3
    <2>2. U # {}
      BY <1>0, <1>2
    <2>3. U = F
      BY <2>1, <2>2 DEF Ring
    <2>4. m \in T
      BY <1>2, <2>3
    <2> QED
      BY <2>3, <2>4
  <1> QED
    BY <1>1, <1>2 DEF Ring

(* A ring with f in the place of r.                                        *)
LEMMA RingRenamed ==
    ASSUME NEW h, NEW g, NEW F, Ring(h, F), NEW r \in F, NEW m, m \notin F,
           g[m].next = IF h[r].next = r THEN m ELSE h[r].next,
           g[m].prev = IF h[r].prev = r THEN m ELSE h[r].prev,
           \A y \in F \ {r} :
              /\ g[y].next = IF h[y].next = r THEN m ELSE h[y].next
              /\ g[y].prev = IF h[y].prev = r THEN m ELSE h[y].prev
    PROVE  Ring(g, (F \ {r}) \cup {m})
  <1> DEFINE E == (F \ {r}) \cup {m}
  <1>0. /\ \A y \in F : /\ h[y].next \in F /\ h[y].prev \in F
                        /\ h[h[y].next].prev = y /\ h[h[y].prev].next = y
    BY DEF Ring
  <1>1. ASSUME NEW y \in E
        PROVE  /\ g[y].next \in E /\ g[y].prev \in E
               /\ g[g[y].next].prev = y /\ g[g[y].prev].next = y
    <2>1. CASE y = m
      BY <1>0, <2>1
    <2>2. CASE y \in F \ {r}
      <3>1. g[y].next \in E /\ g[g[y].next].prev = y
        BY <1>0, <2>2
      <3>2. g[y].prev \in E /\ g[g[y].prev].next = y
        BY <1>0, <2>2
      <3> QED
        BY <3>1, <3>2
    <2> QED
      BY <2>1, <2>2
  <1>2. ASSUME NEW T \in SUBSET E, T # {}, \A y \in T : g[y].next \in T
        PROVE  T = E
    <2> DEFINE U == IF m \in T THEN (T \ {m}) \cup {r} ELSE T
    <2>1. \A y \in U : h[y].next \in U
      <3> SUFFICES ASSUME NEW y \in U PROVE h[y].next \in U
        OBVIOUS
      <3>1. y \in F /\ h[y].next \in F
        BY <1>0, <1>2
      <3>2. CASE y = r
        BY <1>2, <3>1, <3>2
      <3>3. CASE y # r
        <4>1. y \in T /\ g[y].next \in T
          BY <1>2, <3>3
        <4> QED
          BY <3>1, <3>3, <4>1
      <3> QED
        BY <3>2, <3>3
    <2>2. U \in SUBSET F /\ U # {}
      BY <1>2
    <2>3. U = F
      BY <2>1, <2>2 DEF Ring
    <2> QED
      BY <1>2, <2>3
  <1> QED
    BY <1>1, <1>2 DEF Ring

-----------------------------------------------------------------------------
(* The blocks in the pool.                                                 *)
LEMMA Places ==
    ASSUME HeapTyped, BoundaryTags
    PROVE  /\ PoolSize \in Nat /\ 1 \in Blocks
           /\ \A y \in Blocks :
                 /\ y \in Nat /\ 1 <= y /\ y <= PoolSize
                 /\ head[y] \in Headers
                 /\ head[y].size \in Nat
                 /\ FootAddr(y) = y + 4 + head[y].size
                 /\ RightOf(y) = y + 5 + head[y].size
                 /\ FootAddr(y) \in Nat /\ RightOf(y) \in Nat
                 /\ FootAddr(y) \in DOMAIN foot /\ foot[FootAddr(y)] = y
                 /\ RightOf(y) <= PoolSize + 1
                 /\ RightOf(y) <= PoolSize => RightOf(y) \in Blocks
                 /\ \A c \in Blocks : y < c => RightOf(y) <= c
  <1>1. PoolSize \in Nat /\ 1 \in Blocks
    BY HeapAssumption DEF BoundaryTags
  <1> SUFFICES ASSUME NEW y \in Blocks
               PROVE  /\ y \in Nat /\ 1 <= y /\ y <= PoolSize
                      /\ head[y] \in Headers
                      /\ head[y].size \in Nat
                      /\ FootAddr(y) = y + 4 + head[y].size
                      /\ RightOf(y) = y + 5 + head[y].size
                      /\ FootAddr(y) \in Nat /\ RightOf(y) \in Nat
                      /\ FootAddr(y) \in DOMAIN foot /\ foot[FootAddr(y)] = y
                      /\ RightOf(y) <= PoolSize + 1
                      /\ RightOf(y) <= PoolSize => RightOf(y) \in Blocks
                      /\ \A c \in Blocks : y < c => RightOf(y) <= c
    BY <1>1
  <1>2. head[y] \in Headers /\ y \in 1 .. PoolSize
    BY DEF HeapTyped, Word
  <1>3. head[y].size \in Nat
    BY <1>2, <1>1 DEF Headers, Link
  <1>4. /\ FootAddr(y) = y + 4 + head[y].size
        /\ RightOf(y) = y + 5 + head[y].size
    BY <1>2, <1>3 DEF FootAddr, RightOf, HEAD, FOOT
  <1>5. RightOf(y) \in Blocks \cup {PoolSize + 1}
    BY DEF BoundaryTags
  <1>6. RightOf(y) \in Blocks => RightOf(y) \in 1 .. PoolSize
    BY DEF HeapTyped, Word
  <1>7. FootAddr(y) \in DOMAIN foot /\ foot[FootAddr(y)] = y
    BY DEF BoundaryTags
  <1>8. \A c \in Blocks : y < c => RightOf(y) <= c
    BY DEF BoundaryTags
  <1> QED
    BY <1>1, <1>2, <1>3, <1>4, <1>5, <1>6, <1>7, <1>8

(* What BoundTag_Free finds below a block is its neighbour's FOOT.         *)
LEMMA LeftNeighbour ==
    ASSUME HeapTyped, BoundaryTags, NEW m \in Blocks, m > 1
    PROVE  /\ foot[m - FOOT] \in Blocks
           /\ foot[m - FOOT] < m /\ RightOf(foot[m - FOOT]) = m
  <1> DEFINE Below == {y \in Blocks : y < m}
  <1>0. 1 \in Blocks /\ m \in Nat /\ \A y \in Blocks : y \in Nat
    BY Places
  <1>1. Below \in SUBSET Nat /\ Below # {} /\ m \in Nat /\ \A y \in Below : y <= m
    <2>1. 1 \in Below
      BY <1>0
    <2>2. \A y \in Below : y \in Nat /\ y <= m
      BY <1>0
    <2> QED
      BY <2>1, <2>2, <1>0
  <1>2. PICK y \in Below : \A c \in Below : c <= y
    BY <1>1, GreatestNumber
  <1>3. y \in Blocks /\ y < m /\ RightOf(y) <= m /\ RightOf(y) > y /\ m <= PoolSize
    <2>1. y \in Blocks /\ y < m
      BY <1>2
    <2>2. RightOf(y) <= m
      BY <2>1, Places
    <2>3. y \in 1 .. PoolSize /\ head[y].size \in Nat /\ RightOf(y) = y + 5 + head[y].size
      BY <2>1, Places
    <2>4. m <= PoolSize
      BY Places
    <2> QED
      BY <2>1, <2>2, <2>3, <2>4
  <1>4. RightOf(y) \in Blocks
    <2>1. RightOf(y) \in Nat /\ (RightOf(y) <= PoolSize => RightOf(y) \in Blocks)
      BY <1>3, Places
    <2> QED
      BY <1>0, <1>3, <2>1, HeapAssumption
  <1>5. RightOf(y) = m
    <2> SUFFICES ASSUME RightOf(y) # m PROVE FALSE
      OBVIOUS
    <2>3. RightOf(y) \in Nat
      BY <1>3, Places
    <2>1. RightOf(y) < m
      BY <1>0, <1>3, <2>3
    <2>2. RightOf(y) <= y
      BY <1>2, <1>4, <2>1
    <2> QED
      BY <1>0, <1>3, <2>2, <2>3
  <1>6. FootAddr(y) = m - FOOT
    BY <1>3, <1>5, Places DEF FOOT
  <1> QED
    BY <1>3, <1>5, <1>6, Places

(* The tags are right as long as sizes and FOOTs stay.                     *)
LEMMA SizesStay ==
    ASSUME HeapTyped, BoundaryTags, head' \in [Blocks -> Headers], foot' = foot,
           \A y \in Blocks : head'[y].size = head[y].size
    PROVE  /\ BoundaryTags' /\ Blocks' = Blocks
           /\ \A y \in Blocks : RightOf(y)' = RightOf(y)
  <1>1. Blocks' = Blocks
    BY DEF Blocks
  <1>2. \A y \in Blocks : FootAddr(y)' = FootAddr(y) /\ RightOf(y)' = RightOf(y)
    BY DEF FootAddr, RightOf
  <1> QED
    BY <1>1, <1>2 DEF BoundaryTags

(* BoundTag_Alloc cuts a block in two.                                     *)
LEMMA SplitPlaces ==
    ASSUME HeapTyped, BoundaryTags, NEW p \in Blocks, NEW n \in Nat,
           BigEnough(p, n + Overhead), ~Whole(p, n + Overhead),
           Split(p, n + Overhead),
           NEW new, new = UpperEnd(p, n + Overhead)
    PROVE  /\ new \in Word /\ new \notin Blocks /\ p < new /\ new < RightOf(p)
           /\ Blocks' = Blocks \cup {new}
           /\ head' \in [Blocks' -> Headers]
           /\ head'[new].tag /\ head'[new].size = n
           /\ \A y \in Blocks : /\ head'[y].tag = head[y].tag
                                 /\ head'[y].next = head[y].next
                                 /\ head'[y].prev = head[y].prev
           /\ \A y \in Blocks \ {p} : head'[y].size = head[y].size
           /\ RightOf(p)' = new /\ RightOf(new)' = RightOf(p)
           /\ \A y \in Blocks \ {p} : RightOf(y)' = RightOf(y)
           /\ BoundaryTags'
  <1> DEFINE z == head[p].size
  <1>1. /\ p \in Nat /\ z \in Nat /\ head[p] \in Headers
        /\ FootAddr(p) = p + 4 + z /\ RightOf(p) = p + 5 + z
        /\ PoolSize \in Nat /\ 1 <= p /\ RightOf(p) <= PoolSize + 1
    BY Places
  <1>2. z - (n + 5) >= 6
    BY <1>1 DEF Whole, EPSILON, Overhead, HEAD, FOOT
  <1>3. new = p + z - n /\ new \in Nat
    <2>1. new = p + 5 + z - (n + 5)
      BY <1>1 DEF UpperEnd, Overhead, HEAD, FOOT
    <2> QED
      BY <2>1, <1>1, <1>2
  <1>4. new \in Word /\ p < new /\ new < RightOf(p)
    BY <1>1, <1>2, <1>3 DEF Word
  <1>5. new \notin Blocks
    BY <1>1, <1>3, <1>4, Places
  <1>6. /\ head' = [y \in Blocks \cup {new} |->
                      IF y = new THEN Header(new, new, TRUE, n)
                      ELSE IF y = p THEN [head[p] EXCEPT !.size = z - (n + 5)]
                      ELSE head[y]]
        /\ foot' = [x \in DOMAIN foot \cup {new - 1} |->
                      IF x = new - 1 THEN p
                      ELSE IF x = FootAddr(p) THEN new ELSE foot[x]]
    <2>1. n + Overhead = n + 5 /\ (n + 5) - Overhead = n
      BY DEF Overhead, HEAD, FOOT
    <2> QED
      BY <2>1 DEF Split, FOOT
  <1>7. Blocks' = Blocks \cup {new}
    BY <1>6 DEF Blocks
  <1>8. Header(new, new, TRUE, n) \in Headers
    BY <1>1, <1>2, <1>3, <1>4 DEF Header, Headers, Link, Word
  <1>9. [head[p] EXCEPT !.size = z - (n + 5)] \in Headers
    BY <1>1, <1>2 DEF Headers, Link
  <1>10. head' \in [Blocks' -> Headers]
    BY <1>6, <1>7, <1>8, <1>9, Places
  <1>11. head'[new].tag /\ head'[new].size = n
    BY <1>6 DEF Header
  <1>12. /\ \A y \in Blocks : /\ head'[y].tag = head[y].tag
                               /\ head'[y].next = head[y].next
                               /\ head'[y].prev = head[y].prev
         /\ \A y \in Blocks \ {p} : head'[y].size = head[y].size
         /\ head'[p].size = z - (n + 5)
    BY <1>1, <1>5, <1>6 DEF Headers
  <1>13. /\ FootAddr(p)' = new - 1 /\ RightOf(p)' = new
         /\ FootAddr(new)' = FootAddr(p) /\ RightOf(new)' = RightOf(p)
         /\ \A y \in Blocks \ {p} : FootAddr(y)' = FootAddr(y) /\ RightOf(y)' = RightOf(y)
    BY <1>1, <1>3, <1>11, <1>12 DEF FootAddr, RightOf, HEAD, FOOT
  <1>14. \A y \in Blocks \ {p} :
            FootAddr(y) # new - 1 /\ FootAddr(y) # FootAddr(p) /\ FootAddr(y) \in DOMAIN foot
            /\ foot[FootAddr(y)] = y
    <2> SUFFICES ASSUME NEW y \in Blocks \ {p}
                 PROVE  /\ FootAddr(y) # new - 1 /\ FootAddr(y) # FootAddr(p)
                        /\ FootAddr(y) \in DOMAIN foot /\ foot[FootAddr(y)] = y
      OBVIOUS
    <2>1. FootAddr(y) < p \/ FootAddr(y) >= RightOf(p)
      <3>1. /\ y \in Nat /\ head[y].size \in Nat /\ FootAddr(y) = y + 4 + head[y].size
            /\ RightOf(y) = y + 5 + head[y].size
        BY Places
      <3>2. CASE y < p
        <4>1. RightOf(y) <= p
          BY <3>2, Places
        <4> QED
          BY <1>1, <3>1, <4>1
      <3>3. CASE p < y
        <4>1. RightOf(p) <= y
          BY <3>3, Places
        <4> QED
          BY <1>1, <3>1, <4>1
      <3> QED
        BY <1>1, <3>1, <3>2, <3>3
    <2>2. /\ FootAddr(y) \in Nat /\ FootAddr(y) \in DOMAIN foot
          /\ foot[FootAddr(y)] = y
      BY Places
    <2>3. foot[FootAddr(p)] = p
      BY <1>1, Places
    <2>4. p \in Nat /\ RightOf(p) \in Nat
      BY <1>1, Places
    <2>5. FootAddr(y) # new - 1
      BY <2>1, <2>2, <2>4, <1>1, <1>3, <1>4
    <2>6. FootAddr(y) # FootAddr(p)
      BY <2>2, <2>3
    <2> QED
      BY <2>2, <2>5, <2>6
  <1>15. BoundaryTags'
    <2>1. 1 \in Blocks'
      BY <1>7, Places
    <2>2. DOMAIN foot' = {FootAddr(y)' : y \in Blocks'}
      <3>1. DOMAIN foot' = {FootAddr(y) : y \in Blocks} \cup {new - 1}
        BY <1>6 DEF BoundaryTags
      <3>2. \A y \in Blocks : \E c \in Blocks' : FootAddr(y) = FootAddr(c)'
        BY <1>7, <1>13
      <3>3. \A c \in Blocks' : FootAddr(c)' = new - 1 \/ \E y \in Blocks : FootAddr(y) = FootAddr(c)'
        BY <1>7, <1>13
      <3> QED
        BY <3>1, <3>2, <3>3, <1>7, <1>13
    <2>3. ASSUME NEW y \in Blocks'
          PROVE  /\ foot'[FootAddr(y)'] = y
                 /\ RightOf(y)' \in Blocks' \cup {PoolSize + 1}
                 /\ \A c \in Blocks' : y < c => RightOf(y)' <= c
      <3>1. CASE y = new
        <4>1. foot'[FootAddr(p)] = new
          BY <1>1, <1>3, <1>2, <1>6, Places
        <4>2. \A c \in Blocks : new < c => RightOf(p) <= c
          BY <1>1, <1>3, <1>4, Places
        <4> QED
          BY <3>1, <4>1, <4>2, <1>7, <1>13, <1>3, Places
      <3>2. CASE y = p
        <4>1. foot'[new - 1] = p
          BY <1>6
        <4>2. \A c \in Blocks : p < c => new <= c
          BY <1>1, <1>3, <1>4, Places
        <4> QED
          BY <3>2, <4>1, <4>2, <1>3, <1>7, <1>13
      <3>3. CASE y \in Blocks \ {p}
        <4>1. foot'[FootAddr(y)] = y
          BY <3>3, <1>6, <1>14
        <4>2. y < new => RightOf(y) <= new
          BY <1>1, <1>3, <1>4, <3>3, Places
        <4> QED
          BY <3>3, <4>1, <4>2, <1>7, <1>13, Places
      <3> QED
        BY <3>1, <3>2, <3>3, <1>7
    <2> QED
      BY <2>1, <2>2, <2>3 DEF BoundaryTags
  <1> QED
    BY <1>4, <1>5, <1>7, <1>10, <1>11, <1>12, <1>13, <1>15

(* BoundTag_Free makes one block of f and its free neighbours: from B to   *)
(* the end of f, or of R when that is free.                                *)
LEMMA MergePlaces ==
    ASSUME HeapTyped, BoundaryTags, NEW m \in Blocks,
           NEW links \in [Blocks -> Headers],
           \A y \in Blocks : links[y].size = head[y].size,
           Merge(m, links),
           NEW B, B = Base(m), NEW R, R = RightOf(m),
           NEW next, next = IF RightFree(m) THEN RightOf(R) ELSE R
    PROVE  /\ B \in Blocks /\ (LeftFree(m) => B # m /\ RightOf(B) = m /\ ~head[B].tag)
           /\ ~LeftFree(m) => B = m
           /\ RightFree(m) => R \in Blocks /\ R # B /\ R # m /\ ~head[R].tag
           /\ Blocks' = {c \in Blocks : c = B \/ ~(c = m \/ (RightFree(m) /\ c = R))}
           /\ head' \in [Blocks' -> Headers]
           /\ \A c \in Blocks' \ {B} : head'[c] = links[c]
           /\ head'[B].prev = links[B].prev /\ head'[B].next = links[B].next
           /\ ~head'[B].tag
           /\ RightOf(B)' = next /\ B < next
           /\ \A c \in Blocks' \ {B} : RightOf(c)' = RightOf(c)
           /\ free_list' \in {free_list, B}
           /\ free_list \in Blocks' => free_list' = free_list
           /\ free_list \in Blocks \ Blocks' => free_list' = B
           /\ BoundaryTags'
  <1> DEFINE E == End(m)
             z == head[m].size
  <1>1. /\ m \in Nat /\ z \in Nat /\ 1 <= m /\ m <= PoolSize
        /\ R = m + 5 + z /\ FootAddr(m) = m + 4 + z
        /\ R <= PoolSize + 1 /\ PoolSize \in Nat
        /\ R <= PoolSize => R \in Blocks
        /\ \A c \in Blocks : m < c => R <= c
    BY Places
  <1>2. /\ LeftFree(m) => /\ B \in Blocks /\ B < m /\ RightOf(B) = m /\ ~head[B].tag
                          /\ FootAddr(B) = m - 1
        /\ ~LeftFree(m) => B = m
    <2>1. ~LeftFree(m) => B = m
      BY DEF Base
    <2>2. ASSUME LeftFree(m)
          PROVE  /\ B \in Blocks /\ B < m /\ RightOf(B) = m /\ ~head[B].tag
                 /\ FootAddr(B) = m - 1
      <3>1. B = foot[m - FOOT] /\ m > 1 /\ ~head[B].tag
        BY <2>2 DEF Base, LeftFree
      <3>2. B \in Blocks /\ B < m /\ RightOf(B) = m
        BY <3>1, LeftNeighbour
      <3> QED
        BY <3>1, <3>2, Places
    <2> QED
      BY <2>1, <2>2
  <1>3. B \in Blocks /\ B \in Nat /\ 1 <= B /\ B <= m /\ B <= PoolSize
    <2>1. CASE LeftFree(m)
      <3>1. B \in Blocks /\ B < m
        BY <2>1, <1>2
      <3>2. B \in Nat /\ 1 <= B /\ B <= PoolSize
        BY <3>1, Places
      <3> QED
        BY <3>1, <3>2, <1>1
    <2>2. CASE ~LeftFree(m)
      BY <2>2, <1>1, <1>2
    <2> QED
      BY <2>1, <2>2
  <1>4. /\ RightFree(m) => /\ R \in Blocks /\ ~head[R].tag /\ R \in Nat
                           /\ E = FootAddr(R) /\ RightOf(R) = E + 1 /\ E >= R + 4
        /\ ~RightFree(m) => E = R - 1 /\ E = FootAddr(m)
    <2>1. ASSUME RightFree(m)
          PROVE  /\ R \in Blocks /\ ~head[R].tag /\ R \in Nat
                 /\ E = FootAddr(R) /\ RightOf(R) = E + 1 /\ E >= R + 4
      <3>1. R <= PoolSize /\ ~head[R].tag /\ E = FootAddr(R)
        BY <2>1 DEF RightFree, End
      <3>2. R \in Blocks
        BY <3>1, <1>1
      <3> QED
        BY <3>1, <3>2, Places
    <2>2. ~RightFree(m) => E = FootAddr(m)
      BY DEF End
    <2> QED
      BY <2>1, <2>2, <1>1
  <1>5. /\ next = E + 1 /\ E \in Nat /\ E >= m + 4 /\ E >= B + 4 /\ E <= PoolSize
        /\ next \in Blocks \cup {PoolSize + 1}
        /\ E \in DOMAIN foot
    <2>1. CASE RightFree(m)
      <3>1. next = E + 1 /\ E \in Nat /\ E >= R + 4
        BY <2>1, <1>4, Places
      <3>2. E \in DOMAIN foot /\ next \in Blocks \cup {PoolSize + 1} /\ E <= PoolSize
        BY <2>1, <3>1, <1>1, <1>4, Places DEF BoundaryTags
      <3> QED
        BY <3>1, <3>2, <1>1, <1>3
    <2>2. CASE ~RightFree(m)
      <3>1. next = E + 1 /\ E = m + 4 + z
        BY <2>2, <1>1, <1>4
      <3>2. E \in DOMAIN foot /\ next \in Blocks \cup {PoolSize + 1}
        BY <2>2, <1>4, Places DEF BoundaryTags
      <3> QED
        BY <3>1, <3>2, <1>1, <1>3
    <2> QED
      BY <2>1, <2>2
  <1>6. \A c \in Blocks : c > E => c >= next
    BY <1>3, <1>5, Places
  <1>7. \A c \in Blocks :
           /\ c \in Inside(m) <=> c # B /\ (c = m \/ (RightFree(m) /\ c = R))
           /\ c < B \/ c = B \/ c \in Inside(m) \/ c >= next
    <2> SUFFICES ASSUME NEW c \in Blocks
                 PROVE  /\ c \in Inside(m) <=> c # B /\ (c = m \/ (RightFree(m) /\ c = R))
                        /\ c < B \/ c = B \/ c \in Inside(m) \/ c >= next
      OBVIOUS
    <2>1. c \in Nat /\ (c \in Inside(m) <=> B < c /\ c < E)
      BY <1>3, <1>5, Places DEF Inside
    <2>2. c > B => c >= m
      BY <1>2, <1>3, <2>1, Places
    <2>3. c > m => c >= R
      BY <1>1
    <2>4. RightFree(m) /\ c > R => c >= next
      BY <1>4, <1>5, Places
    <2> QED
      BY <1>1, <1>2, <1>3, <1>4, <1>5, <2>1, <2>2, <2>3, <2>4
  <1>8. /\ head' = [y \in Blocks \ Inside(m) |->
                      IF y = B THEN Header(links[y].prev, links[y].next, FALSE, E - y - HEAD)
                      ELSE links[y]]
        /\ foot' = [[x \in DOMAIN foot \ Inside(m) |-> foot[x]] EXCEPT ![E] = B]
        /\ free_list' = IF free_list \in Inside(m) THEN B ELSE free_list
    BY DEF Merge, MergedHeads, Restrict
  <1>9. Blocks' = Blocks \ Inside(m)
    BY <1>8 DEF Blocks
  <1>10. Blocks' = {c \in Blocks : c = B \/ ~(c = m \/ (RightFree(m) /\ c = R))}
    BY <1>7, <1>9
  <1>11. B \in Blocks' /\ (\A c \in Blocks' : c \in Blocks /\ c \notin Inside(m))
    BY <1>3, <1>10, <1>9
  <1>12. /\ \A c \in Blocks' \ {B} : head'[c] = links[c]
         /\ head'[B] = Header(links[B].prev, links[B].next, FALSE, E - B - 4)
    BY <1>8, <1>9, <1>11 DEF HEAD
  <1>13. head'[B] \in Headers
    <2>1. links[B].prev \in Link /\ links[B].next \in Link
      BY <1>3 DEF Headers
    <2>2. E - B - 4 \in Link
      BY <1>1, <1>3, <1>5 DEF Link
    <2> QED
      BY <1>12, <2>1, <2>2 DEF Header, Headers
  <1>14. head' \in [Blocks' -> Headers]
    BY <1>8, <1>9, <1>11, <1>12, <1>13
  <1>15. /\ FootAddr(B)' = E /\ RightOf(B)' = next
         /\ \A c \in Blocks' \ {B} : FootAddr(c)' = FootAddr(c) /\ RightOf(c)' = RightOf(c)
    <2>1. head'[B].size = E - B - 4
      BY <1>12 DEF Header
    <2>2. FootAddr(B)' = E /\ RightOf(B)' = next
      BY <2>1, <1>3, <1>5 DEF FootAddr, RightOf, HEAD, FOOT
    <2>3. \A c \in Blocks' \ {B} : head'[c].size = head[c].size
      BY <1>11, <1>12
    <2> QED
      BY <2>2, <2>3 DEF FootAddr, RightOf
  <1>16. \A c \in Blocks' \ {B} :
            /\ FootAddr(c) \in DOMAIN foot /\ FootAddr(c) \notin Inside(m) /\ FootAddr(c) # E
            /\ foot[FootAddr(c)] = c
            /\ c < B => RightOf(c) <= B
            /\ c < B \/ c >= next
    <2> SUFFICES ASSUME NEW c \in Blocks' \ {B}
                 PROVE  /\ FootAddr(c) \in DOMAIN foot /\ FootAddr(c) \notin Inside(m)
                        /\ FootAddr(c) # E /\ foot[FootAddr(c)] = c
                        /\ c < B => RightOf(c) <= B
                        /\ c < B \/ c >= next
      OBVIOUS
    <2>1. c \in Blocks /\ (c < B \/ c >= next)
      BY <1>7, <1>11
    <2>2. /\ FootAddr(c) \in DOMAIN foot /\ foot[FootAddr(c)] = c
          /\ c \in Nat /\ FootAddr(c) >= c /\ FootAddr(c) \in Nat
          /\ RightOf(c) = FootAddr(c) + 1
          /\ c < B => RightOf(c) <= B
      BY <2>1, <1>3, Places
    <2>3. FootAddr(c) < B \/ FootAddr(c) > E
      BY <2>1, <2>2, <1>3, <1>5
    <2> QED
      BY <2>1, <2>2, <2>3, <1>3, <1>5 DEF Inside
  <1>17. BoundaryTags'
    <2>1. 1 \in Blocks'
      <3>1. 1 \in Blocks
        BY Places
      <3>2. 1 \notin Inside(m)
        BY <1>3 DEF Inside
      <3> QED
        BY <3>1, <3>2, <1>9
    <2>2. DOMAIN foot' = DOMAIN foot \ Inside(m)
      BY <1>8
    <2>3. E \notin Inside(m) /\ E \in DOMAIN foot'
      BY <2>2, <1>3, <1>5 DEF Inside
    <2>4. foot'[E] = B /\ \A x \in DOMAIN foot' \ {E} : foot'[x] = foot[x]
      BY <1>8, <2>2, <2>3
    <2>5. \A c \in Blocks' : FootAddr(c)' \in DOMAIN foot' /\ foot'[FootAddr(c)'] = c
      BY <1>15, <1>16, <2>2, <2>3, <2>4
    <2>6. \A x \in DOMAIN foot' : \E c \in Blocks' : x = FootAddr(c)'
      <3> SUFFICES ASSUME NEW x \in DOMAIN foot', x # E
                   PROVE  \E c \in Blocks' : x = FootAddr(c)'
        BY <1>11, <1>15
      <3>1. PICK c \in Blocks : x = FootAddr(c)
        BY <2>2 DEF BoundaryTags
      <3>2. CASE c \in Blocks' \ {B}
        BY <3>1, <3>2, <1>15
      <3>3. CASE c \notin Blocks' \ {B}
        <4>1. c = B \/ c = m \/ (RightFree(m) /\ c = R)
          BY <3>3, <1>10
        <4>2. FootAddr(c) >= B + 1 /\ FootAddr(c) <= E /\ FootAddr(c) \in Nat
          <5>1. CASE c = m
            BY <5>1, <1>1, <1>3, <1>4, <1>5, Places
          <5>2. CASE c = B /\ c # m
            BY <5>2, <1>1, <1>2, <1>3, <1>5, Places
          <5>3. CASE RightFree(m) /\ c = R
            BY <5>3, <1>1, <1>3, <1>4, <1>5, Places
          <5> QED
            BY <4>1, <5>1, <5>2, <5>3
        <4>3. x \in Inside(m)
          BY <3>1, <4>2, <1>3, <1>5 DEF Inside
        <4> QED
          BY <4>3, <2>2
      <3> QED
        BY <3>2, <3>3
    <2>7. DOMAIN foot' = {FootAddr(c)' : c \in Blocks'}
      BY <2>5, <2>6
    <2>8. ASSUME NEW y \in Blocks'
          PROVE  /\ RightOf(y)' \in Blocks' \cup {PoolSize + 1}
                 /\ \A c \in Blocks' : y < c => RightOf(y)' <= c
      <3>1. CASE y = B
        <4>1. next \notin Inside(m)
          BY <1>3, <1>5 DEF Inside
        <4>2. \A c \in Blocks' : B < c => next <= c
          BY <1>3, <1>11, <1>16, Places
        <4> QED
          BY <3>1, <4>1, <4>2, <1>5, <1>9, <1>15
      <3>2. CASE y # B
        <4>1. y \in Blocks /\ RightOf(y)' = RightOf(y) /\ (y < B \/ y >= next)
          BY <3>2, <1>11, <1>15, <1>16
        <4>2. RightOf(y) <= B \/ RightOf(y) > E
          <5>1. y < B => RightOf(y) <= B
            BY <3>2, <1>16
          <5>2. y \in Nat /\ RightOf(y) \in Nat /\ RightOf(y) > y
            BY <4>1, Places
          <5> QED
            BY <4>1, <5>1, <5>2, <1>5
        <4>3. RightOf(y) \notin Inside(m) /\ RightOf(y) \in Blocks \cup {PoolSize + 1}
          <5>1. RightOf(y) \notin Inside(m)
            BY <4>1, <4>2, <1>3, <1>5, Places DEF Inside
          <5>2. RightOf(y) \in Blocks \cup {PoolSize + 1}
            BY <4>1 DEF BoundaryTags
          <5> QED
            BY <5>1, <5>2
        <4>4. \A c \in Blocks' : y < c => RightOf(y) <= c
          BY <4>1, <1>11, Places
        <4> QED
          BY <4>1, <4>3, <4>4, <1>9
      <3> QED
        BY <3>1, <3>2
    <2> QED
      BY <2>1, <2>5, <2>7, <2>8 DEF BoundaryTags
  <1>18. /\ RightFree(m) => R # B /\ R # m
         /\ LeftFree(m) => B # m
         /\ B < next
         /\ free_list' \in {free_list, B}
         /\ free_list \in Blocks' => free_list' = free_list
         /\ free_list \in Blocks \ Blocks' => free_list' = B
    BY <1>1, <1>2, <1>3, <1>5, <1>8, <1>9
  <1> QED
    BY <1>2, <1>3, <1>4, <1>10, <1>12, <1>14, <1>15, <1>17, <1>18 DEF Header

-----------------------------------------------------------------------------
(* The scan of BoundTag_Alloc.                                             *)
LEMMA FinitelyMany ==
    ASSUME HeapTyped
    PROVE  /\ IsFiniteSet(Blocks) /\ Cardinality(Blocks) \in Nat
           /\ IsFiniteSet(FreeBlocks) /\ Cardinality(FreeBlocks) <= Cardinality(Blocks)
           /\ Cardinality(FreeBlocks) \in Nat
  <1>1. IsFiniteSet(1 .. PoolSize)
    BY HeapAssumption, FS_Interval
  <1>2. IsFiniteSet(Blocks)
    BY <1>1, FS_Subset DEF HeapTyped, Word
  <1>3. FreeBlocks \in SUBSET Blocks
    BY DEF FreeBlocks
  <1> QED
    BY <1>2, <1>3, FS_Subset, FS_CardinalityType

(* The recursive function Visits is what its definition says.              *)
LEMMA VisitsStep ==
    ASSUME HeapTyped
    PROVE  /\ Visits \in [0 .. Cardinality(Blocks) -> Link]
           /\ DOMAIN Visits = 0 .. Cardinality(Blocks)
           /\ \A k \in DOMAIN Visits :
                 Visits[k] = IF k = 0 THEN free_list
                             ELSE IF Visits[k - 1] \in Blocks
                                  THEN head[Visits[k - 1]].next ELSE NULL
  <1> DEFINE C == Cardinality(Blocks)
             g == [p \in Link |-> IF p \in Blocks THEN head[p].next ELSE NULL]
  <1>1. C \in Nat
    BY FinitelyMany
  <1>2. g \in [Link -> Link]
    <2>1. \A p \in Blocks : head[p].next \in Link
      BY DEF HeapTyped, Headers
    <2>2. NULL \in Link
      BY HeapAssumption DEF NULL, Link
    <2> QED
      BY <2>1, <2>2
  <1>3. free_list \in Link
    BY DEF HeapTyped
  <1>4. PICK m \in [0 .. C -> Link] :
           \A k \in 0 .. C : m[k] = IF k = 0 THEN free_list ELSE g[m[k - 1]]
    <2> HIDE DEF g, C
    <2>1. PICK m : Iterates(m, Link, free_list, g, C)
      BY <1>1, <1>2, <1>3, Iterate
    <2> QED
      BY <2>1 DEF Iterates
  <1>5. \A k \in 0 .. C : k # 0 => m[k - 1] \in Link
    BY <1>1, <1>4
  <1>6. m = [k \in 0 .. C |-> IF k = 0 THEN free_list
                              ELSE IF m[k - 1] \in Blocks THEN head[m[k - 1]].next ELSE NULL]
    BY <1>4, <1>5
  <1>7. Visits = [k \in 0 .. C |-> IF k = 0 THEN free_list
                                   ELSE IF Visits[k - 1] \in Blocks
                                        THEN head[Visits[k - 1]].next ELSE NULL]
    BY <1>6 DEF Visits
  <1>8. Visits \in [0 .. C -> Link]
    <2>1. \A p \in Blocks : head[p].next \in Link
      BY DEF HeapTyped, Headers
    <2>2. NULL \in Link
      BY HeapAssumption DEF NULL, Link
    <2> QED
      BY <2>1, <2>2, <1>3, <1>7
  <1> QED
    BY <1>7, <1>8

LEMMA VisitsFree ==
    ASSUME HeapTyped, ListExact
    PROVE  Visits \in [0 .. Cardinality(Blocks) -> FreeBlocks]
  <1> DEFINE C == Cardinality(Blocks)
             Bad == {k \in 0 .. C : Visits[k] \notin FreeBlocks}
  <1>0. C \in Nat
    BY FinitelyMany
  <1>1. Bad = {}
    <2> SUFFICES ASSUME Bad # {} PROVE FALSE
      OBVIOUS
    <2>1. Bad \in SUBSET Nat
      OBVIOUS
    <2>2. PICK k \in Bad : \A j \in Bad : k <= j
      BY <2>1, LeastNumber
    <2>3. k # 0
      BY <2>2, <1>0, VisitsStep DEF ListExact
    <2>4. k - 1 \in 0 .. C /\ k - 1 \notin Bad
      BY <2>2, <2>3, <1>0
    <2>5. Visits[k - 1] \in FreeBlocks
      BY <2>4
    <2>6. Visits[k - 1] \in Blocks /\ Visits[k] = head[Visits[k - 1]].next
      BY <2>2, <2>3, <2>5, VisitsStep DEF FreeBlocks
    <2>7. Visits[k] \in FreeBlocks
      BY <2>5, <2>6 DEF ListExact, Ring
    <2> QED
      BY <2>2, <2>7
  <1>2. \A k \in 0 .. C : Visits[k] \in FreeBlocks
    BY <1>1
  <1>3. Visits \in [0 .. C -> Link]
    BY VisitsStep
  <1> QED
    BY <1>2, <1>3

(* With more steps than there are blocks the scan comes twice to one, and  *)
(* what it met on the way is closed under next: the whole ring.            *)
LEMMA VisitsAll ==
    ASSUME HeapTyped, ListExact
    PROVE  {Visits[k] : k \in DOMAIN Visits} = FreeBlocks
  <1> DEFINE C == Cardinality(Blocks)
             S == 0 .. C
  <1>0. C \in Nat /\ DOMAIN Visits = S
    BY FinitelyMany, VisitsStep
  <1>1. Visits \in [S -> FreeBlocks]
    BY VisitsFree
  <1>2. IsFiniteSet(S) /\ Cardinality(S) = C + 1
    BY <1>0, FS_Interval
  <1>3. Cardinality(FreeBlocks) < Cardinality(S) /\ IsFiniteSet(FreeBlocks)
    BY <1>0, <1>2, FinitelyMany
  <1>4. \E x, y \in S : x # y /\ Visits[x] = Visits[y]
    BY <1>1, <1>2, <1>3, FS_PigeonHole
  <1>5. PICK i \in S, j \in S : i < j /\ Visits[i] = Visits[j]
    BY <1>4
  <1> DEFINE T == {Visits[k] : k \in 0 .. j - 1}
  <1>6. T \in SUBSET FreeBlocks /\ T # {}
    <2>1. 0 \in 0 .. j - 1 /\ \A k \in 0 .. j - 1 : k \in S
      BY <1>0, <1>5
    <2> QED
      BY <2>1, <1>1
  <1>7. \A y \in T : head[y].next \in T
    <2> SUFFICES ASSUME NEW k \in 0 .. j - 1 PROVE head[Visits[k]].next \in T
      OBVIOUS
    <2>1. k \in S /\ k + 1 \in S /\ k + 1 # 0 /\ (k + 1) - 1 = k
      BY <1>0, <1>5
    <2>2. Visits[k] \in Blocks
      BY <2>1, <1>1 DEF FreeBlocks
    <2>3. Visits[k + 1] = head[Visits[k]].next
      BY <2>1, <2>2, <1>0, VisitsStep
    <2>4. CASE k + 1 = j
      BY <2>3, <2>4, <1>5
    <2>5. CASE k + 1 # j
      BY <2>3, <2>5, <1>5
    <2> QED
      BY <2>4, <2>5
  <1>8. T = FreeBlocks
    BY <1>6, <1>7 DEF ListExact, Ring
  <1> QED
    BY <1>0, <1>1, <1>5, <1>8

(* The scan ends, at a free block.                                         *)
LEMMA ScanEnds ==
    ASSUME HeapTyped, ListExact, NEW total
    PROVE  /\ \A p : ScanFinds(p, total) => p \in FreeBlocks
           /\ \E p \in FreeBlocks : ScanFinds(p, total)
  <1> DEFINE C == Cardinality(Blocks)
             K == {k \in 0 .. C : Stops(Visits[k], total)}
  <1>0. C \in Nat /\ DOMAIN Visits = 0 .. C /\ Visits \in [0 .. C -> FreeBlocks]
    BY FinitelyMany, VisitsStep, VisitsFree
  <1>1. \A p : ScanFinds(p, total) => p \in FreeBlocks
    BY <1>0 DEF ScanFinds
  <1>2. K # {}
    <2>1. head[free_list].prev \in FreeBlocks /\ head[head[free_list].prev].next = free_list
      BY DEF ListExact, Ring
    <2>2. PICK k \in DOMAIN Visits : Visits[k] = head[free_list].prev
      BY <2>1, VisitsAll
    <2>3. Stops(Visits[k], total)
      BY <2>1, <2>2 DEF Stops
    <2> QED
      BY <2>3, <1>0
  <1>3. K \in SUBSET Nat
    OBVIOUS
  <1>4. PICK k \in K : \A j \in K : k <= j
    BY <1>2, <1>3, LeastNumber
  <1>5. \A j \in 0 .. k - 1 : ~Stops(Visits[j], total)
    BY <1>0, <1>4
  <1>6. ScanFinds(Visits[k], total)
    BY <1>0, <1>4, <1>5 DEF ScanFinds
  <1> QED
    BY <1>0, <1>1, <1>4, <1>6

-----------------------------------------------------------------------------
(* The links that the operations write.                                    *)
LEMMA UnlinkLinks ==
    ASSUME HeapTyped, NEW p, Linked(p)
    PROVE  /\ Unlink(p) \in [Blocks -> Headers]
           /\ \A y \in Blocks :
                 /\ Unlink(p)[y].size = head[y].size /\ Unlink(p)[y].tag = head[y].tag
                 /\ Unlink(p)[y].next =
                       IF y = head[p].prev THEN head[p].next ELSE head[y].next
                 /\ Unlink(p)[y].prev =
                       IF y = head[p].next THEN head[p].prev ELSE head[y].prev
  <1>1. p \in Blocks /\ head[p].prev \in Blocks /\ head[p].next \in Blocks
    BY DEF Linked
  <1>2. head \in [Blocks -> Headers] /\ \A y \in Blocks : y \in Link
    BY HeapAssumption DEF HeapTyped, Word, Link
  <1> DEFINE h == [head EXCEPT ![head[p].prev].next = head[p].next]
  <1>3. /\ h \in [Blocks -> Headers]
        /\ \A y \in Blocks :
              /\ h[y].size = head[y].size /\ h[y].tag = head[y].tag
              /\ h[y].prev = head[y].prev
              /\ h[y].next = IF y = head[p].prev THEN head[p].next ELSE head[y].next
    BY <1>1, <1>2 DEF Headers
  <1>4. Unlink(p) = [h EXCEPT ![head[p].next].prev = head[p].prev]
    BY DEF Unlink
  <1> HIDE DEF h
  <1> QED
    BY <1>1, <1>2, <1>3, <1>4 DEF Headers

LEMMA BehindHeadLinks ==
    ASSUME HeapTyped, Linked(free_list), NEW m \in Blocks,
           NEW links, links = LinkBehindHead(m)
    PROVE  /\ links \in [Blocks -> Headers]
           /\ \A y \in Blocks : links[y].size = head[y].size /\ links[y].tag = head[y].tag
           /\ m # free_list /\ m # head[free_list].next =>
                 /\ links[m].next = head[free_list].next /\ links[m].prev = free_list
                 /\ links[free_list].next = m /\ links[head[free_list].next].prev = m
                 /\ \A y \in Blocks \ {m, free_list} : links[y].next = head[y].next
                 /\ \A y \in Blocks \ {m, head[free_list].next} :
                       links[y].prev = head[y].prev
  <1> DEFINE w == free_list
             x == head[w].next
             h1 == [head EXCEPT ![x].prev = m]
             h2 == [h1 EXCEPT ![m].next = x]
             h3 == [h2 EXCEPT ![w].next = m]
  <1>1. w \in Blocks /\ x \in Blocks
    BY DEF Linked
  <1>2. head \in [Blocks -> Headers] /\ \A y \in Blocks : y \in Link
    BY HeapAssumption DEF HeapTyped, Word, Link
  <1>3. links = [h3 EXCEPT ![m].prev = w]
    BY DEF LinkBehindHead
  <1> HIDE DEF w, x
  <1>4. /\ h1 \in [Blocks -> Headers]
        /\ \A y \in Blocks :
              /\ h1[y].size = head[y].size /\ h1[y].tag = head[y].tag
              /\ h1[y].next = head[y].next
              /\ h1[y].prev = IF y = x THEN m ELSE head[y].prev
    BY <1>1, <1>2 DEF Headers
  <1> HIDE DEF h1
  <1>5. /\ h2 \in [Blocks -> Headers]
        /\ \A y \in Blocks :
              /\ h2[y].size = head[y].size /\ h2[y].tag = head[y].tag
              /\ h2[y].next = IF y = m THEN x ELSE head[y].next
              /\ h2[y].prev = IF y = x THEN m ELSE head[y].prev
    BY <1>1, <1>2, <1>4 DEF Headers
  <1> HIDE DEF h2
  <1>6. /\ h3 \in [Blocks -> Headers]
        /\ \A y \in Blocks :
              /\ h3[y].size = head[y].size /\ h3[y].tag = head[y].tag
              /\ h3[y].next = IF y = w THEN m ELSE IF y = m THEN x ELSE head[y].next
              /\ h3[y].prev = IF y = x THEN m ELSE head[y].prev
    BY <1>1, <1>2, <1>5 DEF Headers
  <1> HIDE DEF h3
  <1>7. /\ links \in [Blocks -> Headers]
        /\ \A y \in Blocks :
              /\ links[y].size = head[y].size /\ links[y].tag = head[y].tag
              /\ links[y].next = IF y = w THEN m ELSE IF y = m THEN x ELSE head[y].next
              /\ links[y].prev = IF y = m THEN w ELSE IF y = x THEN m ELSE head[y].prev
    BY <1>1, <1>2, <1>3, <1>6 DEF Headers
  <1>8. w = free_list /\ x = head[free_list].next
    BY DEF w, x
  <1> QED
    BY <1>1, <1>7, <1>8

LEMMA InPlaceLinks ==
    ASSUME HeapTyped, NEW R, Linked(R), NEW m \in Blocks,
           NEW links, links = LinkInPlaceOf(R, m)
    PROVE  /\ links \in [Blocks -> Headers]
           /\ \A y \in Blocks : links[y].size = head[y].size /\ links[y].tag = head[y].tag
           /\ m # R /\ head[R].next # m /\ head[R].prev # m
                    /\ (head[R].next = R <=> head[R].prev = R) =>
                 /\ links[m].next = IF head[R].next = R THEN m ELSE head[R].next
                 /\ links[m].prev = IF head[R].prev = R THEN m ELSE head[R].prev
                 /\ \A y \in Blocks \ {R, m} :
                       /\ links[y].next = IF y = head[R].prev THEN m ELSE head[y].next
                       /\ links[y].prev = IF y = head[R].next THEN m ELSE head[y].prev
  <1> DEFINE x == head[R].next
             h1 == [head EXCEPT ![m].next = x]
             h2 == [h1 EXCEPT ![x].prev = m]
             q == h2[R].prev
             h3 == [h2 EXCEPT ![m].prev = q]
  <1>1. R \in Blocks /\ x \in Blocks /\ head[R].prev \in Blocks
    BY DEF Linked
  <1>2. head \in [Blocks -> Headers] /\ \A y \in Blocks : y \in Link
    BY HeapAssumption DEF HeapTyped, Word, Link
  <1>3. links = [h3 EXCEPT ![q].next = m]
    BY DEF LinkInPlaceOf
  <1>4. x = head[R].next
    OBVIOUS
  <1> HIDE DEF x
  <1>5. /\ h1 \in [Blocks -> Headers]
        /\ \A y \in Blocks :
              /\ h1[y].size = head[y].size /\ h1[y].tag = head[y].tag
              /\ h1[y].next = IF y = m THEN x ELSE head[y].next
              /\ h1[y].prev = head[y].prev
    BY <1>1, <1>2 DEF Headers
  <1> HIDE DEF h1
  <1>6. /\ h2 \in [Blocks -> Headers]
        /\ \A y \in Blocks :
              /\ h2[y].size = head[y].size /\ h2[y].tag = head[y].tag
              /\ h2[y].next = IF y = m THEN x ELSE head[y].next
              /\ h2[y].prev = IF y = x THEN m ELSE head[y].prev
    BY <1>1, <1>2, <1>5 DEF Headers
  <1>7. q = IF R = x THEN m ELSE head[R].prev
    BY <1>1, <1>6
  <1>8. q \in Blocks
    BY <1>1, <1>7
  <1> HIDE DEF h2, q
  <1>9. /\ h3 \in [Blocks -> Headers]
        /\ \A y \in Blocks :
              /\ h3[y].size = head[y].size /\ h3[y].tag = head[y].tag
              /\ h3[y].next = IF y = m THEN x ELSE head[y].next
              /\ h3[y].prev = IF y = m THEN q ELSE IF y = x THEN m ELSE head[y].prev
    BY <1>1, <1>2, <1>6, <1>8 DEF Headers
  <1> HIDE DEF h3
  <1>10. /\ links \in [Blocks -> Headers]
         /\ \A y \in Blocks :
              /\ links[y].size = head[y].size /\ links[y].tag = head[y].tag
              /\ links[y].next = IF y = q THEN m ELSE IF y = m THEN x ELSE head[y].next
              /\ links[y].prev = IF y = m THEN q ELSE IF y = x THEN m ELSE head[y].prev
    BY <1>1, <1>2, <1>3, <1>8, <1>9 DEF Headers
  <1> QED
    BY <1>1, <1>4, <1>7, <1>10

-----------------------------------------------------------------------------
(* The actions, one by one.                                                *)
LEMMA HeapInitInv == HeapInit => HeapInv
  <1> SUFFICES ASSUME HeapInit PROVE HeapInv
    OBVIOUS
  <1>0. PoolSize \in Nat /\ PoolSize >= 5
    BY HeapAssumption DEF Overhead, HEAD, FOOT
  <1>1. Blocks = {1} /\ head[1] = Header(1, 1, FALSE, PoolSize - 5)
    BY DEF HeapInit, Blocks, Overhead, HEAD, FOOT
  <1>2. Header(1, 1, FALSE, PoolSize - 5) \in Headers
    BY <1>0 DEF Header, Headers, Link
  <1>3. head \in [Blocks -> Headers]
    BY <1>1, <1>2 DEF HeapInit, Blocks, Overhead, HEAD, FOOT
  <1>4. HeapTyped
    <2>1. 1 \in Word /\ 1 \in Link
      BY <1>0 DEF Word, Link
    <2> QED
      BY <1>1, <1>3, <2>1 DEF HeapTyped, HeapInit
  <1>5. head[1].next = 1 /\ head[1].prev = 1 /\ ~head[1].tag /\ head[1].size = PoolSize - 5
    BY <1>1 DEF Header
  <1>6. FootAddr(1) = PoolSize /\ RightOf(1) = PoolSize + 1
    BY <1>0, <1>5 DEF FootAddr, RightOf, HEAD, FOOT
  <1>7. BoundaryTags
    BY <1>0, <1>1, <1>6 DEF BoundaryTags, HeapInit
  <1>8. FreeBlocks = {1}
    BY <1>1, <1>5 DEF FreeBlocks
  <1>9. Ring(head, FreeBlocks)
    BY <1>5, <1>8 DEF Ring
  <1>10. ListExact
    BY <1>0, <1>6, <1>8, <1>9 DEF ListExact, HeapInit
  <1> QED
    BY <1>4, <1>7, <1>10 DEF HeapInv, HeldApart, HeapInit

(* A free block that is no caller's is handed out, whole.                  *)
LEMMA TakeWholeInv ==
    ASSUME HeapInv, NEW n \in Nat, NEW old, NEW p \in Blocks,
           ~taken => p \in FreeBlocks,
           BigEnough(p, n + Overhead), p = free_list \/ Linked(p), TakeWhole(p),
           owned' = (owned \ old) \cup {[block |-> p, size |-> n]}, UNCHANGED fault
    PROVE  HeapInv'
  <1>1. HeapTyped /\ BoundaryTags /\ (~taken => ListExact /\ HeldApart)
    BY DEF HeapInv
  <1>2. p \in Word /\ NULL \in Link /\ \A y \in Blocks : y \in Link
    BY <1>1, HeapAssumption DEF HeapTyped, Word, Link, NULL
  <1>3. owned' \subseteq [block : Word, size : Nat] /\ fault' \in {"no", "spin", "hang", "wild"}
    BY <1>1, <1>2 DEF HeapTyped
  <1>4. foot' = foot
    BY DEF TakeWhole
  <1>5. CASE p = free_list
    <2>1. head' = [head EXCEPT ![p].tag = TRUE] /\ free_list' = NULL /\ taken' = TRUE
      BY <1>5 DEF TakeWhole
    <2>2. head' \in [Blocks -> Headers] /\ \A y \in Blocks : head'[y].size = head[y].size
      BY <1>1, <2>1 DEF HeapTyped, Headers
    <2>3. BoundaryTags' /\ Blocks' = Blocks
      BY <1>1, <1>4, <2>2, SizesStay
    <2>4. HeapTyped'
      BY <1>1, <1>2, <1>3, <2>1, <2>2, <2>3 DEF HeapTyped
    <2> QED
      BY <2>1, <2>3, <2>4 DEF HeapInv
  <1>6. CASE p # free_list
    <2>1. /\ head' = [Unlink(p) EXCEPT ![p] = Header(NULL, NULL, TRUE, @.size)]
          /\ free_list' = free_list /\ taken' = taken /\ Linked(p)
      BY <1>6 DEF TakeWhole
    <2>2. /\ Unlink(p) \in [Blocks -> Headers]
          /\ \A y \in Blocks :
                /\ Unlink(p)[y].size = head[y].size /\ Unlink(p)[y].tag = head[y].tag
                /\ Unlink(p)[y].next = IF y = head[p].prev THEN head[p].next ELSE head[y].next
                /\ Unlink(p)[y].prev = IF y = head[p].next THEN head[p].prev ELSE head[y].prev
      BY <1>1, <2>1, UnlinkLinks
    <2>3. Header(NULL, NULL, TRUE, Unlink(p)[p].size) \in Headers
      BY <1>2, <2>2 DEF Header, Headers
    <2>4. head' \in [Blocks -> Headers]
      BY <2>1, <2>2, <2>3
    <2>5. /\ head'[p] = Header(NULL, NULL, TRUE, head[p].size)
          /\ \A y \in Blocks \ {p} : head'[y] = Unlink(p)[y]
      BY <2>1, <2>2
    <2>6. /\ \A y \in Blocks : head'[y].size = head[y].size
          /\ head'[p].tag /\ \A y \in Blocks \ {p} : head'[y].tag = head[y].tag
      BY <2>2, <2>5 DEF Header
    <2>7. BoundaryTags' /\ Blocks' = Blocks /\ \A y \in Blocks : RightOf(y)' = RightOf(y)
      BY <1>1, <1>4, <2>4, <2>6, SizesStay
    <2>8. HeapTyped'
      BY <1>1, <1>2, <1>3, <2>1, <2>4, <2>7 DEF HeapTyped
    <2>9. ASSUME ~taken
          PROVE  ListExact' /\ HeldApart'
      <3>1. p \in FreeBlocks /\ ListExact /\ HeldApart
        BY <1>1, <2>9
      <3>2. FreeBlocks' = FreeBlocks \ {p}
        BY <2>6, <2>7 DEF FreeBlocks
      <3>3. Ring(head, FreeBlocks) /\ \A y \in FreeBlocks : y \in Blocks
        BY <3>1 DEF ListExact, FreeBlocks
      <3>4. \A y \in FreeBlocks \ {p} :
               /\ head'[y].next = IF head[y].next = p THEN head[p].next ELSE head[y].next
               /\ head'[y].prev = IF head[y].prev = p THEN head[p].prev ELSE head[y].prev
        BY <2>2, <2>5, <3>1, <3>3 DEF Ring
      <3>5. Ring(head', FreeBlocks \ {p})
        BY <3>1, <3>3, <3>4, RingWithout
      <3>6. ListExact'
        BY <1>6, <2>1, <2>7, <3>1, <3>2, <3>3, <3>5 DEF ListExact
      <3>7. HeldApart'
        <4>1. head[p].size \in Nat /\ head[p].size >= n
          BY <1>1, Places DEF BigEnough, Overhead, HEAD, FOOT
        <4>2. \A r \in owned : /\ r.block \in Blocks /\ r.block # p
                               /\ head[r.block].tag /\ head[r.block].size >= r.size
          BY <3>1 DEF HeldApart, FreeBlocks
        <4>3. \A r \in owned' : /\ r.block \in Blocks'
                                /\ head'[r.block].tag /\ head'[r.block].size >= r.size
          BY <4>1, <4>2, <2>6, <2>7
        <4>4. \A r, s \in owned' : r # s => r.block # s.block
          BY <3>1, <4>2 DEF HeldApart
        <4> QED
          BY <4>3, <4>4 DEF HeldApart
      <3> QED
        BY <3>6, <3>7
    <2> QED
      BY <2>1, <2>7, <2>8, <2>9 DEF HeapInv
  <1> QED
    BY <1>5, <1>6

(* The upper end of a free block is handed out.                            *)
LEMMA SplitInv ==
    ASSUME HeapInv, NEW n \in Nat, NEW old, NEW p \in Blocks,
           ~taken => p \in FreeBlocks,
           BigEnough(p, n + Overhead), ~Whole(p, n + Overhead), Split(p, n + Overhead),
           owned' = (owned \ old) \cup {[block |-> UpperEnd(p, n + Overhead), size |-> n]},
           UNCHANGED fault
    PROVE  HeapInv'
  <1>1. HeapTyped /\ BoundaryTags /\ (~taken => ListExact /\ HeldApart)
    BY DEF HeapInv
  <1>2. PICK new : new = UpperEnd(p, n + Overhead)
    OBVIOUS
  <1>3. /\ new \in Word /\ new \notin Blocks
        /\ Blocks' = Blocks \cup {new}
        /\ head' \in [Blocks' -> Headers]
        /\ head'[new].tag /\ head'[new].size = n
        /\ \A y \in Blocks : /\ head'[y].tag = head[y].tag
                              /\ head'[y].next = head[y].next
                              /\ head'[y].prev = head[y].prev
        /\ \A y \in Blocks \ {p} : head'[y].size = head[y].size
        /\ RightOf(p)' = new
        /\ \A y \in Blocks \ {p} : RightOf(y)' = RightOf(y)
        /\ BoundaryTags'
    BY <1>1, <1>2, SplitPlaces
  <1>4. free_list' = free_list /\ taken' = taken
    BY DEF Split
  <1>5. owned' = (owned \ old) \cup {[block |-> new, size |-> n]}
    BY <1>2
  <1>6. HeapTyped'
    <2>1. Blocks' \subseteq Word /\ owned' \subseteq [block : Word, size : Nat]
      BY <1>1, <1>3, <1>5 DEF HeapTyped
    <2> QED
      BY <1>1, <1>3, <1>4, <2>1 DEF HeapTyped
  <1>7. ASSUME ~taken
        PROVE  ListExact' /\ HeldApart'
    <2>1. p \in FreeBlocks /\ ListExact /\ HeldApart
      BY <1>1, <1>7
    <2>2. FreeBlocks' = FreeBlocks
      BY <1>3 DEF FreeBlocks
    <2>3. Ring(head, FreeBlocks) /\ \A y \in FreeBlocks : y \in Blocks
      BY <2>1 DEF ListExact, FreeBlocks
    <2>4. \A y \in FreeBlocks : head'[y].next = head[y].next /\ head'[y].prev = head[y].prev
      BY <1>3, <2>3
    <2>5. Ring(head', FreeBlocks)
      BY <2>3, <2>4, RingSame
    <2>6. \A y \in FreeBlocks : RightOf(y)' \notin FreeBlocks
      BY <1>3, <2>1, <2>3 DEF ListExact
    <2>7. ListExact'
      BY <1>4, <2>1, <2>2, <2>5, <2>6 DEF ListExact
    <2>8. HeldApart'
      <3>1. \A r \in owned : /\ r.block \in Blocks /\ r.block # p /\ r.block # new
                             /\ head[r.block].tag /\ head[r.block].size >= r.size
        BY <1>3, <2>1 DEF HeldApart, FreeBlocks
      <3>2. \A r \in owned' : /\ r.block \in Blocks'
                              /\ head'[r.block].tag /\ head'[r.block].size >= r.size
        BY <1>3, <1>5, <3>1
      <3>3. \A r, s \in owned' : r # s => r.block # s.block
        BY <1>5, <2>1, <3>1 DEF HeldApart
      <3> QED
        BY <3>2, <3>3 DEF HeldApart
    <2> QED
      BY <2>7, <2>8
  <1> QED
    BY <1>3, <1>4, <1>6, <1>7 DEF HeapInv

LEMMA AllocateInv ==
    ASSUME HeapInv, NEW n \in Nat, NEW old, Allocate(n, old)
    PROVE  HeapInv'
  <1> DEFINE total == n + Overhead
             Gives(y) == owned' = (owned \ old) \cup {[block |-> y, size |-> n]}
  <1>1. HeapTyped /\ BoundaryTags /\ (~taken => ListExact /\ HeldApart)
    BY DEF HeapInv
  <1>2. ~taken => /\ \A p : ScanFinds(p, total) => p \in FreeBlocks
                  /\ \E p \in FreeBlocks : ScanFinds(p, total)
    BY <1>1, ScanEnds
  <1>3. CASE \E p \in Blocks :
                /\ ScanFinds(p, total) /\ BigEnough(p, total)
                /\ \/ /\ Whole(p, total) /\ (p = free_list \/ Linked(p))
                      /\ TakeWhole(p) /\ Gives(p)
                   \/ ~Whole(p, total) /\ Split(p, total) /\ Gives(UpperEnd(p, total))
                /\ UNCHANGED fault
    <2>1. PICK p \in Blocks :
                /\ ScanFinds(p, total) /\ BigEnough(p, total)
                /\ \/ /\ Whole(p, total) /\ (p = free_list \/ Linked(p))
                      /\ TakeWhole(p) /\ Gives(p)
                   \/ ~Whole(p, total) /\ Split(p, total) /\ Gives(UpperEnd(p, total))
                /\ UNCHANGED fault
      BY <1>3
    <2>2. ~taken => p \in FreeBlocks
      BY <1>2, <2>1
    <2>3. CASE Whole(p, total)
      BY <2>1, <2>2, <2>3, TakeWholeInv
    <2>4. CASE ~Whole(p, total)
      BY <2>1, <2>2, <2>4, SplitInv
    <2> QED
      BY <2>3, <2>4
  <1>4. CASE UNCHANGED heapVars
    BY <1>4 DEF HeapInv, heapVars, HeapTyped, BoundaryTags, ListExact, HeldApart, FreeBlocks,
                Blocks, FootAddr, RightOf
  <1>5. CASE fault' \in {"wild", "hang"} /\ UNCHANGED <<head, foot, free_list, owned, taken>>
             /\ taken
    <2>1. HeapTyped'
      BY <1>1, <1>5 DEF HeapTyped, Blocks
    <2>2. BoundaryTags'
      BY <1>1, <1>5 DEF BoundaryTags, Blocks, FootAddr, RightOf
    <2> QED
      BY <1>5, <2>1, <2>2 DEF HeapInv
  <1>6. ASSUME NEW p \in Word, ScanFinds(p, total), p \notin Blocks \/ ~Linked(p)
        PROVE  taken
    <2> SUFFICES ASSUME ~taken PROVE FALSE
      OBVIOUS
    <2>1. p \in FreeBlocks /\ Ring(head, FreeBlocks)
      BY <1>1, <1>2, <1>6 DEF ListExact
    <2>2. Linked(p)
      BY <2>1 DEF Ring, Linked, FreeBlocks
    <2> QED
      BY <1>6, <2>1, <2>2 DEF FreeBlocks
  <1>7. ASSUME \A p \in Word \cup {NULL} : ~ScanFinds(p, total)
        PROVE  taken
    <2>1. FreeBlocks \subseteq Word
      BY <1>1 DEF FreeBlocks, HeapTyped
    <2> QED
      BY <1>2, <1>7, <2>1
  <1>8. \/ \E p \in Blocks :
              /\ ScanFinds(p, total) /\ BigEnough(p, total)
              /\ \/ /\ Whole(p, total) /\ (p = free_list \/ Linked(p))
                    /\ TakeWhole(p) /\ Gives(p)
                 \/ ~Whole(p, total) /\ Split(p, total) /\ Gives(UpperEnd(p, total))
              /\ UNCHANGED fault
        \/ UNCHANGED heapVars
        \/ /\ \/ \E p \in Word : ScanFinds(p, total) /\ (p \notin Blocks \/ ~Linked(p))
              \/ \A p \in Word \cup {NULL} : ~ScanFinds(p, total)
           /\ fault' \in {"wild", "hang"} /\ UNCHANGED <<head, foot, free_list, owned, taken>>
    BY DEF Allocate
  <1> QED
    BY <1>3, <1>4, <1>5, <1>6, <1>7, <1>8

-----------------------------------------------------------------------------
(* BoundTag_Free of a block that a caller holds.                           *)
LEMMA MergeInv ==
    ASSUME HeapInv, NEW r \in owned, NEW m, m = r.block, m \in Blocks,
           NEW links \in [Blocks -> Headers],
           \A y \in Blocks : links[y].size = head[y].size /\ links[y].tag = head[y].tag,
           Merge(m, links), owned' = owned \ {r}, UNCHANGED <<taken, fault>>,
           NEW B, B = Base(m), NEW R, R = RightOf(m),
           ~taken => \A G \in SUBSET Blocks :
              (\A y \in Blocks :
                  y \in G <=> y = B \/ (y \in FreeBlocks /\ ~(RightFree(m) /\ y = R)))
              => Ring(links, G)
    PROVE  HeapInv'
  <1>1. HeapTyped /\ BoundaryTags /\ (~taken => ListExact /\ HeldApart)
    BY DEF HeapInv
  <1>2. PICK next : next = IF RightFree(m) THEN RightOf(R) ELSE R
    OBVIOUS
  <1>3. /\ B \in Blocks /\ (LeftFree(m) => B # m /\ RightOf(B) = m /\ ~head[B].tag)
        /\ ~LeftFree(m) => B = m
        /\ RightFree(m) => R \in Blocks /\ R # B /\ R # m /\ ~head[R].tag
        /\ Blocks' = {c \in Blocks : c = B \/ ~(c = m \/ (RightFree(m) /\ c = R))}
        /\ head' \in [Blocks' -> Headers]
        /\ \A c \in Blocks' \ {B} : head'[c] = links[c]
        /\ head'[B].prev = links[B].prev /\ head'[B].next = links[B].next
        /\ ~head'[B].tag
        /\ RightOf(B)' = next /\ B < next
        /\ \A c \in Blocks' \ {B} : RightOf(c)' = RightOf(c)
        /\ free_list' \in {free_list, B}
        /\ free_list \in Blocks' => free_list' = free_list
        /\ free_list \in Blocks \ Blocks' => free_list' = B
        /\ BoundaryTags'
    BY <1>1, <1>2, MergePlaces
  <1>4. HeapTyped'
    <2>1. Blocks' \subseteq Word /\ owned' \subseteq [block : Word, size : Nat]
      BY <1>1, <1>3 DEF HeapTyped
    <2>2. free_list' \in Link
      BY <1>1, <1>3, HeapAssumption DEF HeapTyped, Word, Link
    <2> QED
      BY <1>1, <1>3, <2>1, <2>2 DEF HeapTyped
  <1>5. ASSUME ~taken
        PROVE  ListExact' /\ HeldApart'
    <2>1. ListExact /\ HeldApart /\ m \notin FreeBlocks /\ \A y \in FreeBlocks : y \in Blocks
      BY <1>1, <1>5 DEF HeldApart, FreeBlocks
    <2>2. FreeBlocks' \in SUBSET Blocks
      BY <1>3 DEF FreeBlocks
    <2>3. \A y \in Blocks :
             y \in FreeBlocks' <=> y = B \/ (y \in FreeBlocks /\ ~(RightFree(m) /\ y = R))
      BY <1>3, <2>1 DEF FreeBlocks
    <2>4. Ring(links, FreeBlocks')
      BY <1>5, <2>2, <2>3
    <2>5. \A y \in FreeBlocks' : head'[y].next = links[y].next /\ head'[y].prev = links[y].prev
      BY <1>3 DEF FreeBlocks
    <2>6. Ring(head', FreeBlocks')
      BY <2>4, <2>5, RingSame
    <2>7. free_list' \in FreeBlocks'
      <3>1. free_list \in FreeBlocks /\ B \in FreeBlocks'
        BY <1>3, <2>1, <2>3 DEF ListExact
      <3>2. CASE free_list \in Blocks'
        <4>1. free_list = B \/ ~(RightFree(m) /\ free_list = R)
          BY <1>3, <3>2
        <4> QED
          BY <1>3, <2>1, <2>3, <3>1, <3>2, <4>1
      <3>3. CASE free_list \notin Blocks'
        BY <1>3, <2>1, <3>1, <3>3
      <3> QED
        BY <3>2, <3>3
    <2>8. ASSUME NEW y \in FreeBlocks'
          PROVE  RightOf(y)' \notin FreeBlocks'
      <3>1. y \in Blocks /\ y \in Blocks' /\ \A c \in FreeBlocks' : c \in Blocks
        BY <2>2 DEF FreeBlocks
      <3>2. CASE y = B
        <4>1. next \notin FreeBlocks
          <5>1. CASE RightFree(m)
            <6>1. R \in FreeBlocks /\ next = RightOf(R)
              BY <1>2, <1>3, <5>1 DEF FreeBlocks
            <6> QED
              BY <6>1, <2>1 DEF ListExact
          <5>2. CASE ~RightFree(m)
            <6>1. next = R /\ (R \in Blocks => R <= PoolSize /\ R \in Nat)
              BY <1>1, <1>2, <5>2, Places
            <6> QED
              BY <6>1, <5>2 DEF RightFree, FreeBlocks
          <5> QED
            BY <5>1, <5>2
        <4>2. next # B
          <5>1. B \in Nat
            BY <1>1, <1>3, Places
          <5> QED
            BY <5>1, <1>3
        <4> QED
          BY <3>1, <3>2, <4>1, <4>2, <1>3, <2>3
      <3>3. CASE y # B
        <4>1. y \in FreeBlocks /\ RightOf(y)' = RightOf(y)
          BY <3>1, <3>3, <1>3, <2>3
        <4>2. RightOf(y) \notin FreeBlocks
          BY <4>1, <2>1 DEF ListExact
        <4>3. RightOf(y) # B
          <5>1. CASE LeftFree(m)
            BY <5>1, <1>3, <4>2 DEF FreeBlocks
          <5>2. CASE ~LeftFree(m)
            <6>1. B = m /\ (m > 1 => head[foot[m - FOOT]].tag)
              BY <5>2, <1>3 DEF LeftFree
            <6>2. RightOf(y) > 1 /\ foot[RightOf(y) - FOOT] = y
              <7>1. /\ y \in Nat /\ y >= 1 /\ head[y].size \in Nat
                    /\ FootAddr(y) = y + 4 + head[y].size
                    /\ RightOf(y) = y + 5 + head[y].size
                    /\ foot[FootAddr(y)] = y
                BY <1>1, <3>1, Places
              <7>2. RightOf(y) - FOOT = FootAddr(y) /\ RightOf(y) > 1
                BY <7>1 DEF FOOT
              <7> QED
                BY <7>1, <7>2
            <6>3. ~head[y].tag
              BY <4>1 DEF FreeBlocks
            <6> QED
              BY <6>1, <6>2, <6>3
          <5> QED
            BY <5>1, <5>2
        <4> QED
          BY <3>1, <4>1, <4>2, <4>3, <2>3
      <3> QED
        BY <3>2, <3>3
    <2>9. ListExact'
      BY <2>1, <2>6, <2>7, <2>8 DEF ListExact
    <2>10. HeldApart'
      <3>1. ASSUME NEW s \in owned'
            PROVE  /\ s.block \in Blocks'
                   /\ head'[s.block].tag /\ head'[s.block].size >= s.size
        <4>1. s \in owned /\ s.block # m /\ s.block \in Blocks
              /\ head[s.block].tag /\ head[s.block].size >= s.size
          BY <2>1 DEF HeldApart
        <4>2. s.block # B /\ ~(RightFree(m) /\ s.block = R)
          BY <4>1, <1>3
        <4> QED
          BY <4>1, <4>2, <1>3
      <3>2. \A s, t \in owned' : s # t => s.block # t.block
        BY <2>1 DEF HeldApart
      <3> QED
        BY <3>1, <3>2 DEF HeldApart
    <2> QED
      BY <2>9, <2>10
  <1> QED
    BY <1>3, <1>4, <1>5 DEF HeapInv

LEMMA ReleaseInv ==
    ASSUME HeapInv, NEW r \in owned, ValidAllocated(r.block), owned' = owned \ {r},
           Release(r.block), UNCHANGED taken
    PROVE  HeapInv'
  <1>1. HeapTyped /\ BoundaryTags /\ (~taken => ListExact /\ HeldApart)
    BY DEF HeapInv
  <1>2. PICK m, B, R : m = r.block /\ B = Base(m) /\ R = RightOf(m)
    OBVIOUS
  <1>3. m \in Blocks /\ m \in Nat /\ m # 0 /\ (R <= PoolSize => R \in Blocks)
    BY <1>1, <1>2, Places DEF ValidAllocated
  <1>4. owned' \subseteq [block : Word, size : Nat]
    BY <1>1 DEF HeapTyped
  <1>5. CASE free_list = NULL
    <2>1. taken
      BY <1>1, <1>5, Places DEF ListExact, FreeBlocks, NULL
    <2>2. head' = [head EXCEPT ![m].tag = FALSE] /\ free_list' = m /\ foot' = foot /\ fault' = fault
      BY <1>2, <1>5 DEF Release
    <2>3. head' \in [Blocks -> Headers] /\ \A y \in Blocks : head'[y].size = head[y].size
      BY <1>1, <1>3, <2>2 DEF HeapTyped, Headers
    <2>4. BoundaryTags' /\ Blocks' = Blocks
      BY <1>1, <2>2, <2>3, SizesStay
    <2>5. free_list' \in Link
      BY <1>1, <1>3, <2>2, HeapAssumption DEF HeapTyped, Word, Link
    <2>6. HeapTyped'
      BY <1>1, <1>4, <2>2, <2>3, <2>4, <2>5 DEF HeapTyped
    <2> QED
      BY <2>1, <2>4, <2>6 DEF HeapInv
  <1>6. ASSUME ~taken
        PROVE  /\ ListExact /\ HeldApart /\ Ring(head, FreeBlocks)
               /\ m \notin FreeBlocks /\ free_list \in FreeBlocks
               /\ \A y \in FreeBlocks : y \in Blocks
    BY <1>1, <1>2, <1>6 DEF ListExact, HeldApart, FreeBlocks
  <1>7. /\ LeftFree(m) => B \in FreeBlocks /\ B # m
        /\ ~LeftFree(m) => B = m
        /\ RightFree(m) => R \in FreeBlocks /\ R # m /\ R # B
    <2>1. ~LeftFree(m) => B = m
      BY <1>2 DEF Base
    <2>2. RightFree(m) => R \in FreeBlocks /\ R > m
      BY <1>1, <1>2, <1>3, Places DEF RightFree, FreeBlocks
    <2>3. LeftFree(m) => B \in FreeBlocks /\ B < m
      BY <1>1, <1>2, <1>3, LeftNeighbour DEF LeftFree, Base, FreeBlocks
    <2>4. \A y \in FreeBlocks : y \in Nat
      BY <1>1, Places DEF FreeBlocks
    <2> QED
      BY <1>3, <2>1, <2>2, <2>3, <2>4
  <1> DEFINE IsGone(G) ==
                \A y \in Blocks :
                   y \in G <=> y = B \/ (y \in FreeBlocks /\ ~(RightFree(m) /\ y = R))
  <1>8. ASSUME NEW links \in [Blocks -> Headers],
               \A y \in Blocks : links[y].size = head[y].size /\ links[y].tag = head[y].tag,
               Merge(m, links), fault' = fault,
               ~taken => \A G \in SUBSET Blocks : IsGone(G) => Ring(links, G)
        PROVE  HeapInv'
    BY <1>2, <1>3, <1>8, MergeInv
  <1>9. CASE free_list # NULL /\ ~LeftFree(m) /\ ~RightFree(m) /\ Linked(free_list)
             /\ Merge(m, LinkBehindHead(m)) /\ fault' = fault
    <2>1. PICK links : links = LinkBehindHead(m)
      OBVIOUS
    <2>2. /\ links \in [Blocks -> Headers]
          /\ \A y \in Blocks : links[y].size = head[y].size /\ links[y].tag = head[y].tag
          /\ m # free_list /\ m # head[free_list].next =>
                /\ links[m].next = head[free_list].next /\ links[m].prev = free_list
                /\ links[free_list].next = m /\ links[head[free_list].next].prev = m
                /\ \A y \in Blocks \ {m, free_list} : links[y].next = head[y].next
                /\ \A y \in Blocks \ {m, head[free_list].next} :
                      links[y].prev = head[y].prev
      BY <1>1, <1>3, <1>9, <2>1, BehindHeadLinks
    <2>3. ASSUME ~taken, NEW G \in SUBSET Blocks, IsGone(G)
          PROVE  Ring(links, G)
      <3>1. head[free_list].next \in FreeBlocks
        BY <1>6, <2>3 DEF Ring
      <3>2. G = FreeBlocks \cup {m}
        BY <1>3, <1>6, <1>7, <1>9, <2>3
      <3>3. Ring(links, FreeBlocks \cup {m})
        BY <1>6, <2>2, <2>3, <3>1, RingWith
      <3> QED
        BY <3>2, <3>3
    <2> QED
      BY <1>8, <1>9, <2>1, <2>2, <2>3
  <1>10. CASE free_list # NULL /\ LeftFree(m) /\ ~RightFree(m) /\ Merge(m, head) /\ fault' = fault
    <2>1. head \in [Blocks -> Headers]
      BY <1>1 DEF HeapTyped
    <2>2. ASSUME ~taken, NEW G \in SUBSET Blocks, IsGone(G)
          PROVE  Ring(head, G)
      <3>1. G = FreeBlocks
        BY <1>6, <1>7, <1>10, <2>2
      <3> QED
        BY <1>6, <2>2, <3>1
    <2> QED
      BY <1>8, <1>10, <2>1, <2>2
  <1>11. CASE free_list # NULL /\ ~LeftFree(m) /\ RightFree(m) /\ Linked(R)
              /\ Merge(m, LinkInPlaceOf(R, m)) /\ fault' = fault
    <2>1. PICK links : links = LinkInPlaceOf(R, m)
      OBVIOUS
    <2>2. /\ links \in [Blocks -> Headers]
          /\ \A y \in Blocks : links[y].size = head[y].size /\ links[y].tag = head[y].tag
          /\ m # R /\ head[R].next # m /\ head[R].prev # m
                   /\ (head[R].next = R <=> head[R].prev = R) =>
                /\ links[m].next = IF head[R].next = R THEN m ELSE head[R].next
                /\ links[m].prev = IF head[R].prev = R THEN m ELSE head[R].prev
                /\ \A y \in Blocks \ {R, m} :
                      /\ links[y].next = IF y = head[R].prev THEN m ELSE head[y].next
                      /\ links[y].prev = IF y = head[R].next THEN m ELSE head[y].prev
      BY <1>1, <1>3, <1>11, <2>1, InPlaceLinks
    <2>3. ASSUME ~taken, NEW G \in SUBSET Blocks, IsGone(G)
          PROVE  Ring(links, G)
      <3>1. /\ R \in FreeBlocks /\ m # R /\ head[R].next # m /\ head[R].prev # m
            /\ head[R].next = R <=> head[R].prev = R
        BY <1>6, <1>7, <1>11, <2>3 DEF Ring
      <3>2. G = (FreeBlocks \ {R}) \cup {m}
        BY <1>3, <1>6, <1>7, <1>11, <2>3
      <3>3. \A y \in FreeBlocks \ {R} :
               /\ links[y].next = IF head[y].next = R THEN m ELSE head[y].next
               /\ links[y].prev = IF head[y].prev = R THEN m ELSE head[y].prev
        BY <1>6, <2>2, <2>3, <3>1 DEF Ring
      <3>4. Ring(links, (FreeBlocks \ {R}) \cup {m})
        BY <1>6, <2>2, <2>3, <3>1, <3>3, RingRenamed
      <3> QED
        BY <3>2, <3>4
    <2> QED
      BY <1>8, <1>11, <2>1, <2>2, <2>3
  <1>12. CASE free_list # NULL /\ LeftFree(m) /\ RightFree(m) /\ Linked(R)
              /\ Merge(m, Unlink(R)) /\ fault' = fault
    <2>1. PICK links : links = Unlink(R)
      OBVIOUS
    <2>2. /\ links \in [Blocks -> Headers]
          /\ \A y \in Blocks :
                /\ links[y].size = head[y].size /\ links[y].tag = head[y].tag
                /\ links[y].next = IF y = head[R].prev THEN head[R].next ELSE head[y].next
                /\ links[y].prev = IF y = head[R].next THEN head[R].prev ELSE head[y].prev
      BY <1>1, <1>12, <2>1, UnlinkLinks
    <2>3. ASSUME ~taken, NEW G \in SUBSET Blocks, IsGone(G)
          PROVE  Ring(links, G)
      <3>1. G = FreeBlocks \ {R} /\ R \in FreeBlocks
        BY <1>6, <1>7, <1>12, <2>3
      <3>2. \A y \in FreeBlocks \ {R} :
               /\ links[y].next = IF head[y].next = R THEN head[R].next ELSE head[y].next
               /\ links[y].prev = IF head[y].prev = R THEN head[R].prev ELSE head[y].prev
        BY <1>6, <2>2, <2>3, <3>1 DEF Ring
      <3>3. Ring(links, FreeBlocks \ {R})
        BY <1>6, <2>3, <3>1, <3>2, RingWithout
      <3> QED
        BY <3>1, <3>3
    <2> QED
      BY <1>8, <1>12, <2>1, <2>2, <2>3
  <1>13. CASE /\ free_list # NULL
              /\ \/ ~LeftFree(m) /\ ~RightFree(m) /\ ~Linked(free_list)
                 \/ RightFree(m) /\ ~Linked(R)
              /\ fault' = "wild" /\ UNCHANGED <<head, foot, free_list>>
    <2>1. taken
      <3> SUFFICES ASSUME ~taken PROVE FALSE
        OBVIOUS
      <3>1. \A y \in FreeBlocks : Linked(y)
        BY <1>6 DEF Ring, Linked
      <3> QED
        BY <1>6, <1>7, <1>13, <3>1
    <2>2. HeapTyped'
      BY <1>1, <1>4, <1>13 DEF HeapTyped, Blocks
    <2>3. BoundaryTags'
      BY <1>1, <1>13 DEF BoundaryTags, Blocks, FootAddr, RightOf
    <2> QED
      BY <2>1, <2>2, <2>3 DEF HeapInv
  <1>14. Release(m) /\ R = RightOf(m)
    BY <1>2
  <1> QED
    BY <1>5, <1>9, <1>10, <1>11, <1>12, <1>13, <1>14 DEF Release

-----------------------------------------------------------------------------
(* The invariant.                                                          *)
LEMMA SpinInv ==
    ASSUME HeapInv, NEW r \in owned, Spin(r.block)
    PROVE  HeapInv'
  <1>1. UNCHANGED <<head, foot, free_list, owned, taken>>
    BY DEF Spin
  <1>2. fault' \in {"wild", "spin"} /\ (~taken => fault' = "spin")
    BY DEF Spin, HeapInv, HeldApart
  <1>3. HeapTyped' /\ BoundaryTags'
    BY <1>1, <1>2 DEF HeapInv, HeapTyped, BoundaryTags, Blocks, FootAddr, RightOf
  <1>4. FreeBlocks' = FreeBlocks /\ \A y : RightOf(y)' = RightOf(y)
    BY <1>1 DEF FreeBlocks, Blocks, FootAddr, RightOf
  <1>5. ~taken => ListExact' /\ HeldApart'
    BY <1>1, <1>2, <1>4 DEF HeapInv, ListExact, HeldApart, Blocks
  <1> QED
    BY <1>1, <1>3, <1>5 DEF HeapInv

LEMMA HeapInvStep == HeapInv /\ [HeapNext]_heapVars => HeapInv'
  <1> SUFFICES ASSUME HeapInv, [HeapNext]_heapVars PROVE HeapInv'
    OBVIOUS
  <1>1. Sizes \subseteq Nat
    BY HeapAssumption
  <1>2. CASE \E n \in Sizes : Malloc(n)
    BY <1>1, <1>2, AllocateInv DEF Malloc
  <1>3. CASE \E r \in owned, n \in Sizes : Realloc(r, n)
    BY <1>1, <1>3, AllocateInv, SpinInv DEF Realloc
  <1>4. CASE \E r \in owned : Free(r)
    BY <1>4, ReleaseInv, SpinInv DEF Free
  <1>5. CASE UNCHANGED heapVars
    <2>1. FreeBlocks' = FreeBlocks /\ \A y : RightOf(y)' = RightOf(y) /\ FootAddr(y)' = FootAddr(y)
      BY <1>5 DEF FreeBlocks, Blocks, FootAddr, RightOf, heapVars
    <2>2. HeapTyped' /\ BoundaryTags'
      BY <1>5, <2>1 DEF HeapInv, HeapTyped, BoundaryTags, Blocks, heapVars
    <2> QED
      BY <1>5, <2>1, <2>2 DEF HeapInv, ListExact, HeldApart, Blocks, heapVars
  <1> QED
    BY <1>2, <1>3, <1>4, <1>5 DEF HeapNext

(* In every state the heap's fields have their types, the two tags agree,  *)
(* and until an allocation takes the list's head whole the list is one     *)
(* ring of the free blocks and every caller has a block of its own.        *)
THEOREM HeapInvariant == HeapSpec => []HeapInv
  <1>1. HeapInit => HeapInv
    BY HeapInitInv
  <1>2. HeapInv /\ [HeapNext]_heapVars => HeapInv'
    BY HeapInvStep
  <1> QED
    BY <1>1, <1>2, PTL DEF HeapSpec

(* For every pool: the blocks cover it with a FOOT that names each HEAD,   *)
(* and the scan of the list meets exactly the free blocks and ends, until  *)
(* an allocation takes the list's head whole.                              *)
THEOREM PoolStaysExact == HeapSpec => []PoolExact
  <1>1. HeapInv => PoolExact
    <2> SUFFICES ASSUME HeapInv PROVE PoolExact
      OBVIOUS
    <2>1. BoundaryTags /\ HeapTyped
      BY DEF HeapInv
    <2>2. ASSUME ~taken
          PROVE  /\ {Visits[k] : k \in DOMAIN Visits} = FreeBlocks
                 /\ \A y \in FreeBlocks : head[head[y].next].prev = y
                 /\ \A y \in FreeBlocks : RightOf(y) \notin FreeBlocks
                 /\ fault \in {"no", "spin"}
      <3>1. ListExact
        BY <2>2 DEF HeapInv
      <3>2. {Visits[k] : k \in DOMAIN Visits} = FreeBlocks
        BY <2>1, <3>1, VisitsAll
      <3> QED
        BY <3>1, <3>2 DEF ListExact, Ring
    <2> QED
      BY <2>1, <2>2 DEF PoolExact, FreeListExact
  <1> QED
    BY <1>1, HeapInvariant, PTL

(* For every pool: until an allocation takes the list's head whole, every  *)
(* block a caller holds is allocated, as large as it asked for, and nobody *)
(* else's.                                                                 *)
THEOREM BlocksHeldApart == HeapSpec => []HeldApartUntilTaken
  <1>1. HeapInv => HeldApartUntilTaken
    BY DEF HeapInv, HeldApartUntilTaken
  <1> QED
    BY <1>1, HeapInvariant, PTL

-----------------------------------------------------------------------------
(* The lists r and s and the running task c hold tasks of T, each once.    *)
Apart(r, s, c, T) ==
    /\ r \in Seq(T) /\ s \subseteq T
    /\ \A i, j \in DOMAIN r : i # j => r[i] # r[j]
    /\ \A i \in DOMAIN r : r[i] # c /\ r[i] \notin s
    /\ c \notin s

SchedInv == SchedTypeOK /\ Apart(ready, suspended, current, Tasks)

-----------------------------------------------------------------------------
(* OnePlace is a part of the invariant.                                    *)
LEMMA InvPlaces == SchedInv => OnePlace
  BY DEF SchedInv, Apart, OnePlace, OnReady

(* Task ids count from 1, and NoTask is none of them.                      *)
LEMMA TasksAreIds ==
    ASSUME SchedTypeOK
    PROVE  /\ Tasks = 1..Len(entry) /\ Len(entry) \in Nat
           /\ NoTask \notin Tasks
  BY DEF SchedTypeOK, Tasks, NoTask

(* A suspended task may be put at the tail of the ready list.              *)
LEMMA AppendApart ==
    ASSUME NEW T, NEW r, NEW s, NEW c, NEW t \in s, Apart(r, s, c, T)
    PROVE  /\ Apart(Append(r, t), s \ {t}, c, T)
           /\ Append(r, t) # <<>>
  <1>1. r \in Seq(T) /\ t \in T /\ t # c
    BY DEF Apart
  <1>2. /\ Append(r, t) \in Seq(T) /\ DOMAIN Append(r, t) = 1..(Len(r) + 1)
        /\ \A i \in 1..Len(r) : Append(r, t)[i] = r[i]
        /\ Append(r, t)[Len(r) + 1] = t
        /\ DOMAIN r = 1..Len(r) /\ Len(r) \in Nat
    BY <1>1
  <1>3. ASSUME NEW i \in 1..(Len(r) + 1), NEW j \in 1..(Len(r) + 1), i # j
        PROVE  Append(r, t)[i] # Append(r, t)[j]
    <2>1. \A k \in 1..Len(r) : r[k] # t
      BY <1>2 DEF Apart
    <2>2. i \in 1..Len(r) \/ i = Len(r) + 1
      BY <1>2
    <2>3. j \in 1..Len(r) \/ j = Len(r) + 1
      BY <1>2
    <2> QED
      BY <1>2, <1>3, <2>1, <2>2, <2>3 DEF Apart
  <1>4. ASSUME NEW i \in 1..(Len(r) + 1)
        PROVE  Append(r, t)[i] # c /\ Append(r, t)[i] \notin s \ {t}
    BY <1>1, <1>2 DEF Apart
  <1>5. s \ {t} \subseteq T /\ c \notin s \ {t}
    BY DEF Apart
  <1>6. Append(r, t) # <<>>
    BY <1>1, <1>2
  <1> QED
    BY <1>2, <1>3, <1>4, <1>5, <1>6 DEF Apart

(* Taking the head off, or an element out, leaves the rest apart.          *)
LEMMA TailApart ==
    ASSUME NEW T, NEW r, NEW s, NEW c, Apart(r, s, c, T), r # <<>>
    PROVE  /\ Apart(Tail(r), s, c, T) /\ Apart(Tail(r), s, Head(r), T)
           /\ Head(r) \in T /\ Head(r) # c
           /\ \A i \in DOMAIN Tail(r) : Tail(r)[i] # c
  <1>1. r \in Seq(T) /\ Len(r) \in Nat /\ Len(r) > 0 /\ DOMAIN r = 1..Len(r)
    BY DEF Apart
  <1>2. /\ Head(r) = r[1] /\ Head(r) \in T
        /\ Tail(r) \in Seq(T) /\ DOMAIN Tail(r) = 1..(Len(r) - 1)
        /\ \A i \in 1..(Len(r) - 1) : Tail(r)[i] = r[i + 1]
    BY <1>1, HeadTailProperties
  <1>3. \A i \in 1..(Len(r) - 1) : i + 1 \in DOMAIN r /\ i + 1 # 1
    BY <1>1
  <1>4. 1 \in DOMAIN r
    BY <1>1
  <1> QED
    BY <1>2, <1>3, <1>4 DEF Apart

(* A list stays apart from the others when one of its tasks leaves it.     *)
LEMMA RemoveApart ==
    ASSUME NEW T, NEW r, NEW s, NEW c, Apart(r, s, c, T), NEW n \in DOMAIN r
    PROVE  Apart(RemoveAt(r, n), s, c, T)
  <1>1. r \in Seq(T) /\ Len(r) \in Nat /\ n \in 1..Len(r) /\ DOMAIN r = 1..Len(r)
    BY DEF Apart
  <1>2. /\ RemoveAt(r, n) \in Seq(T)
        /\ DOMAIN RemoveAt(r, n) = 1..(Len(r) - 1)
        /\ \A i \in 1..(Len(r) - 1) :
              RemoveAt(r, n)[i] = r[IF i < n THEN i ELSE i + 1]
    <2> DEFINE front == SubSeq(r, 1, n - 1)
               back == SubSeq(r, n + 1, Len(r))
    <2>1. /\ front \in Seq(T) /\ Len(front) = n - 1
          /\ \A i \in 1..(n - 1) : front[i] = r[i]
      BY <1>1, SubSeqProperties
    <2>2. /\ back \in Seq(T) /\ Len(back) = Len(r) - n
          /\ \A i \in 1..(Len(r) - n) : back[i] = r[n + i]
      BY <1>1, SubSeqProperties
    <2> HIDE DEF front, back
    <2>3. /\ front \o back \in Seq(T) /\ Len(front \o back) = Len(front) + Len(back)
          /\ \A i \in 1..(Len(front) + Len(back)) :
                (front \o back)[i] = IF i <= Len(front) THEN front[i] ELSE back[i - Len(front)]
      BY <2>1, <2>2, ConcatProperties
    <2>4. Len(front) + Len(back) = Len(r) - 1
      BY <1>1, <2>1, <2>2
    <2>5. ASSUME NEW i \in 1..(Len(r) - 1)
          PROVE  (front \o back)[i] = r[IF i < n THEN i ELSE i + 1]
      <3>1. CASE i < n
        <4>1. i \in 1..(n - 1) /\ i <= Len(front)
          BY <1>1, <2>1, <3>1
        <4>2. (front \o back)[i] = front[i]
          BY <2>3, <2>4, <4>1
        <4> QED
          BY <2>1, <3>1, <4>1, <4>2
      <3>2. CASE ~(i < n)
        <4>1. /\ ~(i <= Len(front)) /\ i - Len(front) \in 1..(Len(r) - n)
              /\ n + (i - Len(front)) = i + 1
          BY <1>1, <2>1, <3>2
        <4>2. (front \o back)[i] = back[i - Len(front)]
          BY <2>3, <2>4, <4>1
        <4> QED
          BY <2>2, <3>2, <4>1, <4>2
      <3> QED
        BY <3>1, <3>2
    <2>6. RemoveAt(r, n) = front \o back
      BY DEF RemoveAt, front, back
    <2>7. DOMAIN (front \o back) = 1..(Len(r) - 1)
      BY <2>3, <2>4
    <2> QED
      BY <2>3, <2>5, <2>6, <2>7
  <1>3. \A i \in 1..(Len(r) - 1) : (IF i < n THEN i ELSE i + 1) \in DOMAIN r
    BY <1>1
  <1>4. \A i, j \in 1..(Len(r) - 1) :
            i # j => (IF i < n THEN i ELSE i + 1) # (IF j < n THEN j ELSE j + 1)
    BY <1>1
  <1> QED
    BY <1>2, <1>3, <1>4 DEF Apart

-----------------------------------------------------------------------------
(* The switch itself: the running task goes to the list the code chooses   *)
(* for it, the head of the ready list runs.                                *)
LEMMA SwitchApart ==
    ASSUME SchedInv, NEW rdy, NEW susp,
           Apart(rdy, susp, current, Tasks), TaskSwitch(rdy, susp)
    PROVE  /\ Apart(ready', suspended', current', Tasks)
           /\ current' \in Tasks \cup {NoTask}
           /\ dead' \in {"no", "hang", "wild"}
  <1>1. CASE TaskNextReady(rdy) = NoTask /\ ready' = rdy /\ suspended' = susp
                 /\ UNCHANGED <<current, dead>>
    BY <1>1 DEF SchedInv, SchedTypeOK
  <1>2. CASE /\ TaskNextReady(rdy) # NoTask
             /\ current' = Head(rdy)
             /\ ready' = IF current = MainTask THEN Append(Tail(rdy), current)
                                               ELSE Tail(rdy)
             /\ suspended' = IF current \in {NoTask, MainTask}
                             THEN susp ELSE susp \cup {current}
             /\ dead' = IF Head(rdy) \in stackless THEN "wild" ELSE dead
    <2>1. rdy # <<>>
      BY <1>2 DEF TaskNextReady
    <2>2. /\ Apart(Tail(rdy), susp, Head(rdy), Tasks)
          /\ Head(rdy) \in Tasks /\ Head(rdy) # current
          /\ \A i \in DOMAIN Tail(rdy) : Tail(rdy)[i] # current
      BY <2>1, TailApart
    <2>3. Apart(ready', suspended', Head(rdy), Tasks)
      <3>1. CASE current = NoTask
        BY <1>2, <2>2, <3>1 DEF NoTask, MainTask
      <3>2. CASE current = MainTask
        <4>1. current \in Tasks /\ current \notin susp
          BY <3>2 DEF SchedInv, SchedTypeOK, Apart, NoTask, MainTask
        <4>2. Apart(Tail(rdy), susp \cup {current}, Head(rdy), Tasks)
          BY <2>2, <4>1 DEF Apart
        <4>3. Apart(Append(Tail(rdy), current), (susp \cup {current}) \ {current},
                    Head(rdy), Tasks)
          BY <4>2, AppendApart
        <4>4. (susp \cup {current}) \ {current} = susp
          BY <4>1
        <4> QED
          BY <1>2, <3>2, <4>3, <4>4
      <3>3. CASE current \notin {NoTask, MainTask}
        <4>1. current \in Tasks
          BY <3>3 DEF SchedInv, SchedTypeOK
        <4> QED
          BY <1>2, <2>2, <3>3, <4>1 DEF Apart
      <3> QED
        BY <3>1, <3>2, <3>3
    <2> QED
      BY <1>2, <2>2, <2>3 DEF SchedInv, SchedTypeOK
  <1> QED
    BY <1>1, <1>2 DEF TaskSwitch

(* TaskStart of any task, started already or not there at all.             *)
LEMMA StartApart ==
    ASSUME SchedInv, NEW t, TaskStart(t)
    PROVE  /\ Apart(ready', suspended', current', Tasks)
           /\ current' \in Tasks \cup {NoTask}
           /\ dead' \in {"no", "hang", "wild"}
  <1>1. CASE t \in suspended /\ TaskSwitch(Append(ready, t), suspended \ {t})
    <2>1. Apart(Append(ready, t), suspended \ {t}, current, Tasks)
      BY <1>1, AppendApart DEF SchedInv
    <2> QED
      BY <1>1, <2>1, SwitchApart
  <1>2. CASE UNCHANGED <<current, ready, suspended, dead>>
    BY <1>2 DEF SchedInv, SchedTypeOK
  <1> QED
    BY <1>1, <1>2 DEF TaskStart

(* No task exists when the scheduler starts.                               *)
LEMMA SchedInvInit == SchedInit => SchedInv
  BY DEF SchedInit, SchedInv, SchedTypeOK, Apart, Tasks, NoTask

(* A task that TaskCreate made is suspended; the tasks before it keep      *)
(* their ids and their places.                                             *)
LEMMA CreateStep ==
    ASSUME SchedInv, Create
    PROVE  SchedInv'
  <1>1. UNCHANGED <<current, ready, dead>>
    BY DEF Create
  <1>2. PICK e \in Services, id \in {NoTask, Len(entry) + 1} : TaskCreate(e, id)
    BY DEF Create
  <1>3. Tasks = 1..Len(entry) /\ Len(entry) \in Nat /\ NoTask \notin Tasks
    BY TasksAreIds DEF SchedInv
  <1>4. CASE id = NoTask /\ UNCHANGED <<suspended, entry, stackless>>
    BY <1>1, <1>4 DEF SchedInv, SchedTypeOK, Tasks
  <1>5. CASE /\ id = Len(entry) + 1
             /\ entry' = Append(entry, e)
             /\ suspended' = suspended \cup {id}
             /\ \/ UNCHANGED stackless
                \/ stackless' = stackless \cup {id}
    <2>1. /\ entry' \in Seq(Services \cup {MainEntry})
          /\ Len(entry') = Len(entry) + 1
      BY <1>5 DEF SchedInv, SchedTypeOK
    <2>2. Tasks' = 1..Len(entry') /\ Tasks' = Tasks \cup {id} /\ id \notin Tasks
          /\ id # NoTask
      BY <1>3, <1>5, <2>1 DEF Tasks, NoTask
    <2>3. ready \in Seq(Tasks') /\ \A i \in DOMAIN ready : ready[i] \in Tasks
      BY <2>2 DEF SchedInv, SchedTypeOK
    <2>4. current # id
      BY <1>3, <2>2 DEF SchedInv, SchedTypeOK
    <2>5. Apart(ready, suspended', current, Tasks')
      BY <1>5, <2>2, <2>3, <2>4 DEF SchedInv, Apart
    <2> QED
      BY <1>1, <1>5, <2>1, <2>2, <2>3, <2>5 DEF SchedInv, SchedTypeOK, Apart
  <1> QED
    BY <1>2, <1>4, <1>5 DEF TaskCreate

(* What TA_CloseSessionEntryPoint does takes a task off the ready list and *)
(* leaves the suspended list as it is.                                     *)
LEMMA DeleteStep ==
    ASSUME SchedInv, Delete
    PROVE  SchedInv'
  <1>1. UNCHANGED <<current, suspended, entry, stackless>>
    BY DEF Delete
  <1>2. PICK t \in Tasks : TaskDelReadyByID(t) /\ TaskDelSuspudByID(t)
    BY DEF Delete
  <1>3. dead' \in {"no", "hang", "wild"}
    BY <1>2 DEF TaskDelSuspudByID, SchedInv, SchedTypeOK
  <1>4. Apart(ready', suspended, current, Tasks)
    <2>1. CASE \E i \in DOMAIN ready : ready' = RemoveAt(ready, i)
      BY <2>1, RemoveApart DEF SchedInv
    <2>2. CASE UNCHANGED ready
      BY <2>2 DEF SchedInv
    <2> QED
      BY <1>2, <2>1, <2>2 DEF TaskDelReadyByID
  <1> QED
    BY <1>1, <1>3, <1>4 DEF SchedInv, SchedTypeOK, Apart, Tasks

(* Every call of the scheduler keeps the invariant.                        *)
LEMMA SchedInvStep == SchedInv /\ [SchedNext]_schedVars => SchedInv'
  <1> SUFFICES ASSUME SchedInv, [SchedNext]_schedVars PROVE SchedInv'
    OBVIOUS
  <1>1. ASSUME Apart(ready', suspended', current', Tasks),
               current' \in Tasks \cup {NoTask}, dead' \in {"no", "hang", "wild"},
               UNCHANGED <<entry, stackless>>
        PROVE  SchedInv'
    BY <1>1 DEF SchedInv, SchedTypeOK, Apart, Tasks
  <1>2. CASE CreateMain
    <2>1. CASE /\ entry = <<>>
               /\ entry' = <<MainEntry>> /\ suspended' = {MainTask}
               /\ UNCHANGED <<current, ready, stackless, dead>>
      <3>1. Tasks = {} /\ Tasks' = {MainTask}
        BY <2>1 DEF Tasks, MainTask
      <3>2. ready = <<>> /\ current = NoTask /\ stackless = {}
        BY <3>1, <1>2 DEF SchedInv, SchedTypeOK, CreateMain
      <3>3. entry' \in Seq(Services \cup {MainEntry})
        BY <2>1
      <3> QED
        BY <2>1, <3>1, <3>2, <3>3
           DEF SchedInv, SchedTypeOK, Apart, NoTask, MainTask
    <2>2. CASE TaskStart(MainTask) /\ UNCHANGED <<entry, stackless>>
      BY <1>1, <2>2, StartApart
    <2> QED
      BY <1>2, <2>1, <2>2 DEF CreateMain
  <1>3. CASE Start
    BY <1>1, <1>3, StartApart DEF Start
  <1>4. CASE Yield
    BY <1>1, <1>4, SwitchApart DEF Yield, TaskHandleReturn, SchedInv
  <1>5. CASE UNCHANGED schedVars
    BY <1>5 DEF schedVars, SchedInv, SchedTypeOK, Apart, Tasks
  <1> QED
    BY <1>2, <1>3, <1>4, <1>5, CreateStep, DeleteStep DEF SchedNext

(* Types and places are an inductive invariant of the scheduler.           *)
THEOREM SchedulerInvariant == SchedSpec => []SchedInv
  <1> QED
    BY SchedInvInit, SchedInvStep, PTL DEF SchedSpec

(* Whatever the running tasks create, start, yield to and delete, a TCB is *)
(* linked into one list at most, once, and never while its task runs.      *)
THEOREM TasksInOnePlace == SchedSpec => []OnePlace
  <1> QED
    BY SchedulerInvariant, InvPlaces, PTL

-----------------------------------------------------------------------------
(* Division.                                                               *)
Excepted == b >= 2 * Top /\ IsPowerOf2(Narrow(b))

(* The recursive function at work on a / b.                                *)
Recursing ==
    /\ b > 0 /\ dividend \in Nat /\ acc \in Nat
    /\ a = acc * b + dividend

(* Its loop: tmp is b shifted as often as res is 1.                        *)
Shifting ==
    /\ tmp \in Nat /\ res \in Nat \ {0}
    /\ tmp = res * b /\ tmp <= dividend

IInv ==
    /\ f \in Routines
    /\ a \in Words(f) /\ b \in Words(f)
    /\ pc \in {"idle", "recurse", "shift", "done", "hang"}
    /\ pc \in {"recurse", "shift"} => Recursing
    /\ pc = "shift" => Shifting
    /\ pc = "done" /\ b # 0 /\ ~Excepted => Exact

-----------------------------------------------------------------------------
(* A product of naturals is no less than either factor that is not 0.      *)
LEMMA Factors ==
    ASSUME NEW m \in Nat, NEW n \in Nat \ {0}
    PROVE  m * n \in Nat /\ m <= m * n
<1>1. m * n \in Nat /\ (n - 1) * m \in Nat /\ m * n = m + (n - 1) * m
  OBVIOUS
<1> QED BY <1>1

(* Words are longer than 0, and the long ones are the longer.              *)
LEMMA WordTops ==
    /\ Top \in Nat \ {0} /\ LongTop \in Nat \ {0} /\ Top <= LongTop
    /\ \A g \in Routines : TopOf(g) \in Nat \ {0} /\ Top <= TopOf(g)
<1>1. Top \in Nat \ {0} /\ LongTop \in Nat \ {0} /\ LongTop = 2 * Top * Top
  BY DivisionAssumption
<1>2. Top <= 2 * Top * Top
  <2>1. Top <= Top * Top /\ Top * Top \in Nat
    BY <1>1, Factors
  <2>2. 2 * Top * Top = 2 * (Top * Top)
    BY <1>1
  <2> QED BY <1>1, <2>1, <2>2
<1> QED BY <1>1, <1>2 DEF TopOf

LEMMA QuotientBound ==
    ASSUME NEW x \in Nat, NEW y \in Nat \ {0}, NEW q \in Nat, NEW r \in Nat,
           x = q * y + r, r < y
    PROVE  q \in 0 .. x /\ r \in 0 .. y - 1
<1>1. q * y \in Nat /\ q <= q * y
  BY Factors
<1> QED BY <1>1

(* What a routine returns is exact when the quotient and the remainder are.*)
LEMMA ReturnExact ==
    ASSUME NEW g \in Routines, NEW x \in Nat, NEW y \in Nat \ {0},
           NEW q \in Nat, NEW r \in Nat, x = q * y + r, r < y,
           Return(g, q, r), f' = g, a' = x, b' = y
    PROVE  pc' = "done" /\ Exact'
<1>1. pc' = "done"
  BY DEF Return
<1>2. q \in 0 .. x /\ r \in 0 .. y - 1
  BY QuotientBound
<1>3. g \in {"uidiv", "uldivmod"} => quot' = q
  BY DEF Return
<1>4. g # "uidiv" => rem' = r
  BY DEF Return
<1>5. g \in {"uidiv", "uldivmod"} => \E s \in 0 .. y - 1 : x = quot' * y + s
  BY <1>2, <1>3
<1>6. g # "uidiv" => \E p \in 0 .. x : x = p * y + rem' /\ rem' \in 0 .. y - 1
  BY <1>2, <1>4
<1> QED
  BY <1>1, <1>5, <1>6 DEF Exact

(* A shift and a mask divide by a power of two; so does \div by any number.*)
LEMMA ShiftDivides ==
    ASSUME NEW x \in Nat, NEW y \in Nat \ {0}
    PROVE  /\ x \div y \in Nat /\ x % y \in Nat /\ x % y < y
           /\ x = (x \div y) * y + (x % y)
<1>1. x \div y \in Int /\ x % y \in 0 .. y - 1 /\ x = y * (x \div y) + (x % y)
  OBVIOUS
<1>2. x \div y >= 0
  OBVIOUS
<1> QED BY <1>1, <1>2

LEMMA EnterKeeps ==
    ASSUME IInv, NEW g \in Routines, NEW x \in Words(g), NEW y \in Words(g),
           Enter(g, x, y)
    PROVE  IInv'
<1>1. f' = g /\ a' = x /\ b' = y /\ x \in Nat /\ y \in Nat
  BY WordTops DEF Enter, Words
<1>2. f' \in Routines /\ a' \in Words(f)' /\ b' \in Words(f)'
  BY <1>1 DEF Words, TopOf
<1>3. CASE y = 0 /\ (Return(g, 0, 0) \/ pc' = "hang")
  BY <1>1, <1>2, <1>3 DEF IInv, Return
<1>4. CASE y # 0 /\ x < y /\ Return(g, 0, x)
  <2>1. pc' = "done" /\ Exact'
    <3>1. x = 0 * y + x
      BY <1>1
    <3> QED BY <1>1, <1>4, <3>1, ReturnExact
  <2> QED BY <2>1, <1>2 DEF IInv
<1>5. CASE /\ y # 0 /\ x >= y /\ IsPowerOf2(Narrow(y))
           /\ LET q == x \div Narrow(y)
              IN  Return(g, q, IF g = "uldivmod" THEN (x - q * y) % (2 * LongTop)
                               ELSE x % Narrow(y))
  <2>1. pc' = "done"
    BY <1>5 DEF Return
  <2>2. CASE y >= 2 * Top
    <3>1. Excepted'
      BY <1>1, <1>5, <2>2 DEF Excepted, IsPowerOf2, Narrow
    <3> QED BY <3>1, <2>1, <1>2 DEF IInv
  <2>3. CASE y < 2 * Top
    <3>1. Narrow(y) = y
      BY <2>3, <1>1, WordTops DEF Narrow
    <3> DEFINE q == x \div y
    <3>2. /\ q \in Nat /\ x % y \in Nat /\ x % y < y
          /\ x = q * y + (x % y)
      BY <1>1, <1>5, ShiftDivides
    <3>3. (x - q * y) % (2 * LongTop) = x % y
      <4>1. x - q * y = x % y
        BY <3>2, <1>1
      <4>2. x % y < 2 * LongTop
        BY <3>2, <2>3, <1>1, WordTops
      <4> HIDE DEF q
      <4>3. \A n \in Nat : n < 2 * LongTop => n % (2 * LongTop) = n
        BY WordTops
      <4> QED BY <4>1, <4>2, <4>3, <3>2
    <3>4. Return(g, q, x % y)
      BY <1>5, <3>1, <3>3
    <3>5. Exact'
      <4> HIDE DEF q
      <4> QED BY <3>2, <3>4, <1>1, <1>5, ReturnExact
    <3> QED BY <2>1, <3>5, <1>2 DEF IInv
  <2> QED BY <2>2, <2>3, <1>1, WordTops
<1>6. CASE y # 0 /\ pc' = "recurse" /\ dividend' = x /\ acc' = 0
  BY <1>1, <1>2, <1>6 DEF IInv, Recursing
<1> QED
  BY <1>3, <1>4, <1>5, <1>6 DEF Enter

LEMMA RecurseKeeps == IInv /\ Recurse => IInv'
<1> SUFFICES ASSUME IInv, Recurse PROVE IInv'
  OBVIOUS
<1>1. /\ f' = f /\ a' = a /\ b' = b /\ dividend' = dividend /\ acc' = acc
      /\ f \in Routines /\ a \in Words(f) /\ b \in Words(f) /\ Recursing
  BY DEF Recurse, IInv
<1>2. a \in Nat /\ b \in Nat \ {0} /\ dividend \in Nat /\ acc \in Nat
  BY <1>1, WordTops DEF Words, Recursing
<1>3. f' \in Routines /\ a' \in Words(f)' /\ b' \in Words(f)'
  BY <1>1 DEF Words, TopOf
<1>4. CASE dividend < b /\ Return(f, acc, dividend)
  <2>1. pc' = "done" /\ Exact'
    BY <1>1, <1>2, <1>4, ReturnExact DEF Recursing
  <2> QED BY <2>1, <1>3 DEF IInv
<1>5. CASE dividend >= b /\ pc' = "shift" /\ tmp' = b /\ res' = 1
  BY <1>1, <1>2, <1>3, <1>5 DEF IInv, Recursing, Shifting
<1> QED BY <1>4, <1>5 DEF Recurse

LEMMA ShiftKeeps == IInv /\ Shift => IInv'
<1> SUFFICES ASSUME IInv, Shift PROVE IInv'
  OBVIOUS
<1>1. /\ f' = f /\ a' = a /\ b' = b /\ pc = "shift"
      /\ f \in Routines /\ a \in Words(f) /\ b \in Words(f)
      /\ Recursing /\ Shifting
  BY DEF Shift, IInv
<1>2. /\ a \in Nat /\ b \in Nat \ {0} /\ dividend \in Nat /\ acc \in Nat
      /\ tmp \in Nat /\ res \in Nat \ {0}
  BY <1>1, WordTops DEF Words, Recursing, Shifting
<1>3. f' \in Routines /\ a' \in Words(f)' /\ b' \in Words(f)'
  BY <1>1 DEF Words, TopOf
<1>4. CASE /\ More /\ tmp' = 2 * tmp /\ res' = 2 * res
           /\ UNCHANGED <<pc, dividend, acc>>
  <2>1. Recursing'
    BY <1>1, <1>4 DEF Recursing
  <2>2. 2 * (res * b) = (2 * res) * b
    BY <1>2
  <2>3. Shifting'
    BY <1>1, <1>2, <1>4, <2>2 DEF Shifting, More
  <2> QED BY <2>1, <2>3, <1>1, <1>3, <1>4 DEF IInv
<1>5. CASE /\ pc' = "recurse" /\ dividend' = dividend - tmp /\ acc' = acc + res
  <2>1. (acc + res) * b = acc * b + res * b
    BY <1>2
  <2>2. acc * b \in Nat /\ res * b \in Nat
    BY <1>2
  <2>3. Recursing'
    BY <1>1, <1>2, <1>5, <2>1, <2>2 DEF Recursing, Shifting
  <2> QED BY <2>3, <1>3, <1>5 DEF IInv
<1> QED BY <1>4, <1>5 DEF Shift

(* In the loop no variable leaves its word: tmp and the quotient found so  *)
(* far are no more than the dividend.                                      *)
LEMMA NothingWraps ==
    ASSUME IInv, pc = "shift"
    PROVE  tmp \in Words(f) /\ acc + res \in Words(f)
<1>1. /\ f \in Routines /\ a \in Words(f) /\ Recursing /\ Shifting
      /\ b \in Nat \ {0}
  BY WordTops DEF IInv, Words, Recursing
<1>2. acc * b \in Nat /\ res * b \in Nat /\ acc <= acc * b /\ res <= res * b
  BY <1>1, Factors DEF Recursing, Shifting
<1>3. tmp <= a /\ acc + res <= a
  BY <1>1, <1>2 DEF Recursing, Shifting, Words
<1> QED
  BY <1>1, <1>3, WordTops DEF Words, Recursing, Shifting

LEMMA DivisionInductive == DivSpec => []IInv
<1>1. DivInit => IInv
  BY WordTops DEF DivInit, IInv, Routines, Words, TopOf
<1>2. IInv /\ [DivNext]_divVars => IInv'
  <2> SUFFICES ASSUME IInv, [DivNext]_divVars PROVE IInv'
    OBVIOUS
  <2>1. CASE \E g \in Routines : \E x, y \in Words(g) : Enter(g, x, y)
    BY <2>1, EnterKeeps
  <2>2. CASE Recurse
    BY <2>2, RecurseKeeps
  <2>3. CASE Shift
    BY <2>3, ShiftKeeps
  <2>4. CASE UNCHANGED divVars
    BY <2>4 DEF divVars, IInv, Recursing, Shifting, Excepted, Exact, Words, TopOf
  <2> QED BY <2>1, <2>2, <2>3, <2>4 DEF DivNext
<1> QED BY <1>1, <1>2, PTL DEF DivSpec

(* For words of every width: each routine returns the quotient, or the     *)
(* remainder, it is called for, but for the 64 bit one with a divisor that *)
(* does not fit 32 bits and whose low word is a power of two, and the loop *)
(* of none of them wraps.                                                  *)
THEOREM RoutinesDivide == DivSpec => []DivisionExact
<1>1. IInv => DivisionExact
  BY NothingWraps DEF DivisionExact, IInv, Excepted
<1> QED BY <1>1, DivisionInductive, PTL

-----------------------------------------------------------------------------
(* Reading a format.  Its characters are read in order, and a % with the   *)
(* letter that belongs to it at once.                                      *)
FormatInv == fmt \in Seq(STRING) /\ at \in Nat \ {0} /\ ReadsFormat

(* A conversion that is finished within the format ends within it.         *)
LEMMA LetterWithin ==
    ASSUME fmt \in Seq(STRING), at \in Nat \ {0}, at <= Len(fmt), fmt[at] = "%"
    PROVE  /\ Letter \in Nat /\ Letter > at
           /\ Letter > Len(fmt) => Unfinished
  <1> DEFINE rest == SubSeq(fmt, at + 1, Len(fmt))
  <1>1. /\ Len(fmt) \in Nat /\ rest \in Seq(STRING) /\ Len(rest) = Len(fmt) - at
        /\ \A k \in 1 .. Len(rest) : rest[k] = fmt[at + k]
    OBVIOUS
  <1> HIDE DEF rest
  <1>2. Letter \in Nat /\ Letter > at
    BY DEF Letter, AfterPad
  <1>3. ASSUME Letter > Len(fmt)
        PROVE  Unfinished
    <2>1. SUFFICES \/ rest \in {<< >>, <<"l">>, <<"0">>}
                   \/ /\ rest[1] = "0"
                      /\ Len(rest) = 2 \/ (Len(rest) = 3 /\ rest[3] = "l")
      <3>1. at \in DOMAIN fmt
        BY <1>1
      <3> QED
        BY <3>1 DEF Unfinished, rest
    <2>2. Len(rest) = 0 => rest = << >>
      BY <1>1
    <2>3. ASSUME NEW c, c = rest[1], Len(rest) = 1 PROVE rest = <<c>>
      <3>3. c \in STRING
        <4>1. 1 \in 1 .. Len(rest)
          BY <2>3
        <4> QED
          BY <1>1, <2>3, <4>1
      <3>1. <<c>> \in Seq(STRING) /\ Len(<<c>>) = 1 /\ <<c>>[1] = c
        BY <3>3
      <3>2. \A k \in 1 .. 1 : rest[k] = <<c>>[k]
        BY <2>3, <3>1
      <3> QED
        BY <1>1, <2>3, <3>1, <3>2, SeqEqual
    <2>4. CASE HasPad
      <3>1. Len(rest) >= 1 /\ rest[1] = "0"
        BY <1>1, <2>4 DEF HasPad, At
      <3>2. AfterPad = at + 3
        BY <2>4 DEF AfterPad
      <3>3. CASE At(AfterPad) = "l"
        <4>1. Letter = at + 4 /\ Len(rest) <= 3
          BY <1>1, <1>3, <3>2, <3>3 DEF Letter
        <4>2. at + 3 <= Len(fmt) /\ fmt[at + 3] = "l"
          BY <1>1, <3>2, <3>3 DEF At
        <4>3. Len(rest) = 3 /\ rest[3] = "l"
          BY <1>1, <4>1, <4>2
        <4> QED
          BY <3>1, <4>3
      <3>4. CASE At(AfterPad) # "l"
        <4>1. Letter = at + 3 /\ Len(rest) <= 2
          BY <1>1, <1>3, <3>2, <3>4 DEF Letter
        <4>2. Len(rest) = 2 \/ rest = <<"0">>
          BY <1>1, <2>3, <3>1, <4>1
        <4> QED
          BY <3>1, <4>2
      <3> QED
        BY <3>3, <3>4
    <2>5. CASE ~HasPad
      <3>1. AfterPad = at + 1
        BY <2>5 DEF AfterPad
      <3>2. CASE At(AfterPad) = "l"
        <4>1. Letter = at + 2 /\ Len(rest) <= 1
          BY <1>1, <1>3, <3>1, <3>2 DEF Letter
        <4>2. at + 1 <= Len(fmt) /\ fmt[at + 1] = "l"
          BY <1>1, <3>1, <3>2 DEF At
        <4>3. rest = <<"l">>
          <5>1. Len(rest) = 1
            BY <1>1, <4>1, <4>2
          <5>2. rest[1] = "l"
            <6>1. 1 \in 1 .. Len(rest)
              BY <5>1
            <6>2. rest[1] = fmt[at + 1]
              BY <1>1, <6>1
            <6> QED
              BY <4>2, <6>2
          <5> QED
            BY <2>3, <5>1, <5>2
        <4> QED
          BY <4>3
      <3>3. CASE At(AfterPad) # "l"
        <4>1. Letter = at + 1 /\ Len(rest) = 0
          BY <1>1, <1>3, <3>1, <3>3 DEF Letter
        <4> QED
          BY <2>2, <4>1
      <3> QED
        BY <3>2, <3>3
    <2> QED
      BY <2>4, <2>5
  <1> QED
    BY <1>2, <1>3

(* ReadsFormat holds of every format: sw_vsprintf stops at its end, unless *)
(* what stands there is the beginning of a conversion.                     *)
THEOREM FormatsAreRead == FormatSpec => []ReadsFormat
  <1>1. FormatInit => FormatInv
    BY FormatsAssumption DEF FormatInit, FormatInv, ReadsFormat
  <1>2. FormatInv /\ [FormatNext]_formatVars => FormatInv'
    <2> SUFFICES ASSUME FormatInv, [FormatNext]_formatVars PROVE FormatInv'
      OBVIOUS
    <2> USE DEF FormatInv
    <2>0. Len(fmt) \in Nat
      OBVIOUS
    <2>1. CASE CopyCharacter \/ BreakLine
      BY <2>0, <2>1 DEF CopyCharacter, BreakLine, ReadsFormat
    <2>2. CASE ConvertNumber \/ ConvertOther
      <3>1. at <= Len(fmt) /\ fmt[at] = "%" /\ at' = Letter + 1 /\ fmt' = fmt
        BY <2>2 DEF ConvertNumber, ConvertOther
      <3>2. Unfinished' <=> Unfinished
        BY <3>1 DEF Unfinished
      <3> QED
        BY <2>0, <3>1, <3>2, LetterWithin DEF ReadsFormat
    <2>3. CASE UNCHANGED formatVars
      BY <2>3 DEF formatVars, ReadsFormat, Unfinished
    <2> QED
      BY <2>1, <2>2, <2>3 DEF FormatNext
  <1>3. FormatInv => ReadsFormat
    BY DEF FormatInv
  <1> QED
    BY <1>1, <1>2, <1>3, PTL DEF FormatSpec

=============================================================================
