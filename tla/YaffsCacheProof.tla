-------------------------- MODULE YaffsCacheProof --------------------------
(***************************************************************************)
(* Proofs about YaffsCache, for any files, handles, lines, chunks and      *)
(* sizes: a file reads as its writers were told, and a closed file leaves  *)
(* no data in the cache only.                                              *)
(*                                                                         *)
(* A relation between two states of io says what each part of the code     *)
(* leaves seen: Keeps (flushes, loads, reads), Writes (one piece), Took    *)
(* (some pieces), Grown (a write), Resized (a cut) and Stored (chunks of a *)
(* file that no line has). Then each call keeps CacheInv.                  *)
(***************************************************************************)
EXTENDS YaffsCache, NumberLemmas, FiniteSetTheorems, TLAPS

-----------------------------------------------------------------------------
(* The bytes that a file may have, and the records of the model.           *)
Top == MaxChunks * ChunkSize
Byte == Bytes \union {0}
Data == [1 .. ChunkSize -> Byte]
Chunk == [data : Data, n : 0 .. ChunkSize]
Line == [file : OpenFiles \union {NoFile}, chunk : ChunkNumbers, dirty : BOOLEAN,
         use : Nat, data : Data, n : 0 .. ChunkSize]
Result == BOOLEAN \union Nat \union Seq(Byte)
IO == [store : [OpenFiles -> [ChunkNumbers -> Chunk]], size : [OpenFiles -> 0 .. Top],
       dirty : [OpenFiles -> BOOLEAN], lines : [1 .. Lines -> Line], last : Nat,
       erased : Nat, lost : SUBSET OpenFiles, result : Result]

(* Line k has chunk c of file f.                                           *)
Holds(s, k, f, c) == k \in 1 .. Lines /\ s.lines[k].file = f /\ s.lines[k].chunk = c

(* The data of a chunk as a read finds it: in its line, or on the flash.   *)
Sees(s, f, c) ==
    LET k == FindChunkCache(s, f, c)
    IN  IF k = 0 THEN s.store[f][c].data ELSE s.lines[k].data

(* No two lines have the same chunk; a line that is not dirty has what the *)
(* flash has; and behind the byte count of a chunk, on the flash or in a   *)
(* dirty line, there are zeros, so nothing is behind the end that a mount  *)
(* finds.                                                                  *)
Distinct(s) ==
    \A f \in OpenFiles : \A c \in ChunkNumbers : \A j, k \in 1 .. Lines :
        Holds(s, j, f, c) /\ Holds(s, k, f, c) => j = k
Clean(s) ==
    \A k \in 1 .. Lines :
        s.lines[k].file # NoFile /\ ~s.lines[k].dirty
           => s.lines[k].data = s.store[s.lines[k].file][s.lines[k].chunk].data
ZeroFrom(data, n) == \A j \in 1 .. ChunkSize : j > n => data[j] = 0
Tails(s) ==
    /\ \A f \in OpenFiles \ s.lost : \A c \in ChunkNumbers :
          ZeroFrom(s.store[f][c].data, s.store[f][c].n)
    /\ \A k \in 1 .. Lines :
          s.lines[k].file \in OpenFiles \ s.lost /\ s.lines[k].dirty
             => ZeroFrom(s.lines[k].data, s.lines[k].n)
Sound(s) == s \in IO /\ Distinct(s) /\ Clean(s) /\ Tails(s)

(* The least and the greatest of a set, and of two numbers.                *)
LEMMA LeastOf ==
    ASSUME NEW S \in SUBSET Nat, S # {}
    PROVE  Min(S) \in S /\ \A n \in S : Min(S) <= n
  BY LeastNumber DEF Min

LEMMA MinOfTwo ==
    ASSUME NEW a \in Int, NEW b \in Int
    PROVE  Min({a, b}) = IF a <= b THEN a ELSE b
  BY DEF Min

LEMMA MaxOfTwo ==
    ASSUME NEW a \in Int, NEW b \in Int
    PROVE  Max({a, b}) = IF a >= b THEN a ELSE b
  BY DEF Max

(* FindChunkCache finds a line with the chunk if there is one.             *)
LEMMA Find ==
    ASSUME NEW s, NEW f, NEW c
    PROVE  \/ FindChunkCache(s, f, c) = 0 /\ \A k \in 1 .. Lines : ~Holds(s, k, f, c)
           \/ Holds(s, FindChunkCache(s, f, c), f, c) /\ FindChunkCache(s, f, c) # 0
  <1> DEFINE hits == {k \in LinesOf(s, f) : s.lines[k].chunk = c}
  <1>1. \A k : k \in hits <=> Holds(s, k, f, c)
    BY DEF LinesOf, Holds
  <1>2. CASE hits = {}
    BY <1>1, <1>2 DEF FindChunkCache, Holds
  <1>3. CASE hits # {}
    <2>1. hits \in SUBSET Nat
      BY CacheAssumption DEF LinesOf
    <2>2. Min(hits) \in hits
      BY <2>1, <1>3, LeastOf
    <2>3. FindChunkCache(s, f, c) = Min(hits)
      BY <1>3 DEF FindChunkCache
    <2>4. Min(hits) \in 1 .. Lines
      BY <2>2 DEF LinesOf
    <2>5. Holds(s, Min(hits), f, c)
      BY <1>1, <2>2
    <2> HIDE DEF hits
    <2> QED
      BY <2>3, <2>4, <2>5
  <1> QED
    BY <1>2, <1>3

(* With distinct lines, what is seen is in the one that has the chunk.     *)
LEMMA Sight ==
    ASSUME NEW s, Distinct(s), NEW f \in OpenFiles, NEW c \in ChunkNumbers
    PROVE  /\ \A k : Holds(s, k, f, c) =>
                 FindChunkCache(s, f, c) = k /\ Sees(s, f, c) = s.lines[k].data
           /\ (\A k : ~Holds(s, k, f, c)) =>
                 FindChunkCache(s, f, c) = 0 /\ Sees(s, f, c) = s.store[f][c].data
  <1>1. ASSUME NEW k, Holds(s, k, f, c)
        PROVE  FindChunkCache(s, f, c) = k /\ Sees(s, f, c) = s.lines[k].data
    <2>1. Holds(s, FindChunkCache(s, f, c), f, c) /\ FindChunkCache(s, f, c) # 0
      BY Find, <1>1 DEF Holds
    <2>2. FindChunkCache(s, f, c) = k
      BY <2>1, <1>1 DEF Distinct, Holds
    <2> QED
      BY <2>1, <2>2 DEF Sees
  <1>2. ASSUME \A k : ~Holds(s, k, f, c)
        PROVE  FindChunkCache(s, f, c) = 0 /\ Sees(s, f, c) = s.store[f][c].data
    <2>1. FindChunkCache(s, f, c) = 0
      BY Find, <1>2
    <2> QED
      BY <2>1 DEF Sees
  <1> QED
    BY <1>1, <1>2

(* Something written to f is in the cache only.                            *)
HasDirty(s, f) == \E k \in 1 .. Lines : s.lines[k].file = f /\ s.lines[k].dirty

(* From s to t nothing that is seen changes, but for files that lost data, *)
(* and no file gets a dirty line.                                          *)
Keeps(s, t) ==
    /\ Sound(t)
    /\ t.size = s.size /\ t.dirty = s.dirty
    /\ s.lost \subseteq t.lost
    /\ \A f \in OpenFiles \ t.lost : \A c \in ChunkNumbers : Sees(t, f, c) = Sees(s, f, c)
    /\ \A f \in OpenFiles : HasDirty(t, f) => HasDirty(s, f)

(* Lines are only emptied.                                                 *)
Sheds(s, t) == \A k \in 1 .. Lines : t.lines[k] = s.lines[k] \/ t.lines[k].file = NoFile

(* Keeps is reflexive and transitive.                                      *)
LEMMA KeepsItself ==
    ASSUME NEW s, Sound(s)
    PROVE  Keeps(s, s)
  BY DEF Keeps

LEMMA KeepsOn ==
    ASSUME NEW s, NEW t, NEW u, Keeps(s, t), Keeps(t, u)
    PROVE  Keeps(s, u)
  BY DEF Keeps

(* The kinds of results.                                                   *)
LEMMA Results == TRUE \in Result /\ FALSE \in Result /\ Nat \subseteq Result /\ Seq(Byte) \subseteq Result
  BY DEF Result

(* A chunk that may use the reserve finds room.                            *)
Room(s) == s.erased > Reserved \/ s.erased > 0

(* Line k of f, written to its chunk if there is room, and empty.          *)
LineFlushed(s, t, f, k) ==
    /\ t \in IO
    /\ \A g \in OpenFiles : \A d \in ChunkNumbers :
          t.store[g][d] = IF Room(s) /\ g = f /\ d = s.lines[k].chunk
                          THEN [data |-> s.lines[k].data, n |-> s.lines[k].n]
                          ELSE s.store[g][d]
    /\ t.lines[k] = [s.lines[k] EXCEPT !.dirty = FALSE, !.file = NoFile]
    /\ \A j \in 1 .. Lines : j # k => t.lines[j] = s.lines[j]
    /\ t.lost = IF Room(s) THEN s.lost ELSE s.lost \union {f}
    /\ t.result \in BOOLEAN /\ (t.result <=> Room(s))
    /\ t.size = s.size /\ t.dirty = s.dirty /\ t.last = s.last

(* FlushLine does that.                                                    *)
LEMMA FlushLineFields ==
    ASSUME NEW s \in IO, NEW f \in OpenFiles, NEW k \in 1 .. Lines, s.lines[k].file = f
    PROVE  LineFlushed(s, FlushLine(s, f, k), f, k)
  <1> DEFINE t == FlushLine(s, f, k)
  <1>0. PICK ok \in BOOLEAN : ok <=> Room(s)
    OBVIOUS
  <1> DEFINE c == s.lines[k].chunk
             new == [data |-> s.lines[k].data, n |-> s.lines[k].n]
             lines == [s.lines EXCEPT ![k] = [s.lines[k] EXCEPT !.dirty = FALSE, !.file = NoFile]]
             store == [s.store EXCEPT ![f][c] = new]
  <1>1. s.lines[k] \in Line /\ new \in Chunk /\ c \in ChunkNumbers
    BY DEF IO, Line, Chunk
  <1>2. lines \in [1 .. Lines -> Line]
    BY <1>1 DEF IO, Line
  <1>3. store \in [OpenFiles -> [ChunkNumbers -> Chunk]]
    BY <1>1 DEF IO
  <1>4. PICK st \in {store, s.store}, r \in BOOLEAN, lost \in {s.lost, s.lost \union {f}} :
           /\ st = IF ok THEN store ELSE s.store
           /\ lost = IF ok THEN s.lost ELSE s.lost \union {f}
           /\ r <=> ok
    OBVIOUS
  <1>11. PICK er \in Nat : er = IF ok THEN s.erased - 1 ELSE s.erased
    <2>1. s.erased \in Nat /\ Reserved \in Nat
      BY CacheAssumption DEF IO
    <2>2. ok => s.erased - 1 \in Nat
      BY <1>0, <2>1 DEF Room
    <2> QED
      BY <2>1, <2>2
  <1>5. t = [s EXCEPT !.store = st, !.result = r, !.lines = lines, !.lost = lost, !.erased = er]
    <2>1. CASE ok
      <3>1. r = TRUE /\ st = store /\ lost = s.lost /\ er = s.erased - 1
        BY <1>11, <1>4, <2>1
      <3> DEFINE w == [s EXCEPT !.store = store, !.result = TRUE, !.erased = s.erased - 1]
      <3>2. WriteChunk(s, f, c, s.lines[k].data, s.lines[k].n, TRUE) = w
        BY <1>0, <2>1 DEF WriteChunk, Room, IO
      <3>3. w.lines = s.lines /\ w.result = TRUE /\ w.lost = s.lost
        BY DEF IO
      <3>4. t = Emptied(w, k)
        BY <3>2 DEF FlushLine
      <3>5. t = [w EXCEPT !.lines = lines, !.lost = s.lost]
        BY <3>3, <3>4 DEF Emptied, IO
      <3>6. t = [s EXCEPT !.store = store, !.result = TRUE, !.lines = lines, !.lost = s.lost,
                          !.erased = s.erased - 1]
        <4> HIDE DEF store, lines
        <4> QED
          BY ONLY <3>5, s \in IO, k \in 1 .. Lines DEF IO, Line
      <3> QED
        BY <3>1, <3>6
    <2>2. CASE ~ok
      <3>1. r = FALSE /\ st = s.store /\ lost = s.lost \union {f} /\ er = s.erased
        BY <1>11, <1>4, <2>2
      <3> DEFINE w == [s EXCEPT !.result = FALSE]
      <3>2. WriteChunk(s, f, c, s.lines[k].data, s.lines[k].n, TRUE) = w
        BY <1>0, <2>2 DEF WriteChunk, Room, IO
      <3>3. w.lines = s.lines /\ w.result = FALSE /\ w.lost = s.lost
        BY DEF IO
      <3>4. t = Emptied(w, k)
        BY <3>2 DEF FlushLine
      <3>5. t = [w EXCEPT !.lines = lines, !.lost = s.lost \union {f}]
        BY <3>3, <3>4 DEF Emptied, IO
      <3>6. t = [s EXCEPT !.store = s.store, !.result = FALSE, !.lines = lines, !.lost = s.lost \union {f},
                          !.erased = s.erased]
        BY ONLY <3>5, s \in IO, k \in 1 .. Lines DEF IO, Line
      <3> QED
        BY <3>1, <3>6
    <2> QED
      BY <2>1, <2>2
  <1>6. st \in [OpenFiles -> [ChunkNumbers -> Chunk]] /\ lost \in SUBSET OpenFiles /\ r \in Result
    BY <1>3, <1>4, Results DEF IO
  <1> HIDE DEF store, lines
  <1>7. t \in IO
    BY <1>2, <1>5, <1>6 DEF IO
  <1>8. t.result = r /\ t.store = st /\ t.lines = lines /\ t.lost = lost
          /\ t.size = s.size /\ t.dirty = s.dirty /\ t.last = s.last
    BY <1>5 DEF IO
  <1>9. \A g \in OpenFiles : \A d \in ChunkNumbers :
                 store[g][d] = IF g = f /\ d = c THEN new ELSE s.store[g][d]
    BY <1>1 DEF store, IO
  <1>10. /\ lines[k] = [s.lines[k] EXCEPT !.dirty = FALSE, !.file = NoFile]
         /\ \A j \in 1 .. Lines : j # k => lines[j] = s.lines[j]
    BY DEF lines, IO
  <1> QED
    BY <1>0, <1>4, <1>7, <1>8, <1>9, <1>10 DEF LineFlushed

(* The data is seen on the flash as it was in the line, or f lost it.      *)
LEMMA FlushLineKeeps ==
    ASSUME NEW s, Sound(s), NEW f \in OpenFiles, NEW k \in 1 .. Lines,
           s.lines[k].file = f, s.lines[k].dirty,
           NEW t, t = FlushLine(s, f, k)
    PROVE  /\ Keeps(s, t)
           /\ t.result \in BOOLEAN /\ (~t.result => f \in t.lost)
           /\ t.lines[k].file = NoFile
           /\ \A j \in 1 .. Lines : j # k => t.lines[j] = s.lines[j]
  <1> DEFINE c == s.lines[k].chunk
             new == [data |-> s.lines[k].data, n |-> s.lines[k].n]
  <1>1. s \in IO /\ c \in ChunkNumbers /\ new \in Chunk
    BY DEF Sound, IO, Line, Chunk
  <1>2. PICK ok \in BOOLEAN : ok <=> Room(s)
    OBVIOUS
  <1>3. /\ t \in IO
        /\ \A g \in OpenFiles : \A d \in ChunkNumbers :
                 t.store[g][d] = IF ok /\ g = f /\ d = c THEN new ELSE s.store[g][d]
        /\ t.lines[k] = [s.lines[k] EXCEPT !.dirty = FALSE, !.file = NoFile]
        /\ \A j \in 1 .. Lines : j # k => t.lines[j] = s.lines[j]
        /\ t.lost = IF ok THEN s.lost ELSE s.lost \union {f}
        /\ t.result \in BOOLEAN /\ (t.result <=> ok)
        /\ t.size = s.size /\ t.dirty = s.dirty /\ t.last = s.last
    <2>1. LineFlushed(s, t, f, k)
      BY <1>1, FlushLineFields
    <2> QED
      BY <1>2, <2>1 DEF LineFlushed
  <1>4. t.lines[k].file = NoFile /\ \A j \in 1 .. Lines : j # k => t.lines[j] = s.lines[j]
    BY <1>1, <1>3 DEF IO, Line
  <1>5. \A g \in OpenFiles : \A d \in ChunkNumbers :
           t.store[g][d] = IF ok /\ g = f /\ d = c THEN new ELSE s.store[g][d]
    BY <1>3
  <1>6. \A g \in OpenFiles : \A d : \A j : Holds(t, j, g, d) => Holds(s, j, g, d) /\ j # k
    BY <1>4, CacheAssumption DEF Holds
  <1>7. \A d : \A j : Holds(s, j, f, d) /\ j # k => d # c
    BY <1>1 DEF Sound, Distinct, Holds
  <1>8. Distinct(t)
    BY <1>6 DEF Sound, Distinct
  <1>9. Clean(t)
    <2> SUFFICES ASSUME NEW j \in 1 .. Lines, t.lines[j].file # NoFile, ~t.lines[j].dirty
                 PROVE  t.lines[j].data = t.store[t.lines[j].file][t.lines[j].chunk].data
      BY DEF Clean
    <2>1. j # k /\ t.lines[j] = s.lines[j]
      BY <1>4
    <2>2. s.lines[j].file \in OpenFiles /\ s.lines[j].chunk \in ChunkNumbers
      BY <1>1, <2>1 DEF IO, Line
    <2>3. s.lines[j].data = s.store[s.lines[j].file][s.lines[j].chunk].data
      BY <2>1 DEF Sound, Clean
    <2>4. ~(s.lines[j].file = f /\ s.lines[j].chunk = c)
      BY <1>7, <2>1 DEF Holds
    <2> QED
      BY SMTT(30), <1>5, <2>1, <2>2, <2>3, <2>4
  <1>10. Tails(t)
    <2>1. ASSUME NEW g \in OpenFiles \ t.lost, NEW d \in ChunkNumbers
          PROVE  ZeroFrom(t.store[g][d].data, t.store[g][d].n)
      <3>1. g \in OpenFiles \ s.lost
        BY <1>3
      <3>2. CASE ok /\ g = f /\ d = c
        <4>1. ZeroFrom(s.lines[k].data, s.lines[k].n)
          BY <3>1, <3>2 DEF Sound, Tails
        <4> QED
          BY <1>5, <3>2, <4>1
      <3>3. CASE ~(ok /\ g = f /\ d = c)
        BY <1>5, <3>1, <3>3 DEF Sound, Tails
      <3> QED
        BY <3>2, <3>3
    <2>2. ASSUME NEW j \in 1 .. Lines, t.lines[j].file \in OpenFiles \ t.lost, t.lines[j].dirty
          PROVE  ZeroFrom(t.lines[j].data, t.lines[j].n)
      <3>1. t.lines[j] = s.lines[j]
        BY <1>4, <2>2, CacheAssumption
      <3> QED
        BY <1>3, <2>2, <3>1 DEF Sound, Tails
    <2> QED
      BY <2>1, <2>2 DEF Tails
  <1>11. ASSUME NEW g \in OpenFiles \ t.lost, NEW d \in ChunkNumbers
         PROVE  Sees(t, g, d) = Sees(s, g, d)
    <2>0. Distinct(s)
      BY DEF Sound
    <2>1. CASE \E j : Holds(t, j, g, d)
      <3>1. PICK j : Holds(t, j, g, d)
        BY <2>1
      <3>2. Holds(s, j, g, d) /\ t.lines[j] = s.lines[j]
        BY <1>4, <1>6, <3>1 DEF Holds
      <3> QED
        BY <1>8, <2>0, <3>1, <3>2, Sight
    <2>2. CASE \A j : ~Holds(t, j, g, d)
      <3>1. Sees(t, g, d) = t.store[g][d].data
        BY <1>8, <2>2, Sight
      <3>2. CASE g = f /\ d = c
        <4>1. Holds(s, k, g, d)
          BY <3>2 DEF Holds
        <4>2. Sees(s, g, d) = s.lines[k].data
          BY <2>0, <4>1, Sight
        <4>3. ok
          BY <1>3, <3>2
        <4> QED
          BY <1>5, <3>1, <3>2, <4>2, <4>3
      <3>3. CASE ~(g = f /\ d = c)
        <4>1. \A j : ~Holds(s, j, g, d)
          BY <1>4, <2>2, <3>3 DEF Holds
        <4>2. Sees(s, g, d) = s.store[g][d].data
          BY <2>0, <4>1, Sight
        <4> QED
          BY <1>5, <3>1, <3>3, <4>2
      <3> QED
        BY <3>2, <3>3
    <2> QED
      BY <2>1, <2>2
  <1>12. ASSUME NEW g \in OpenFiles, HasDirty(t, g) PROVE HasDirty(s, g)
    BY <1>4, <1>12, CacheAssumption DEF HasDirty
  <1>13. s.lost \subseteq t.lost
    BY <1>3
  <1> QED
    BY <1>3, <1>4, <1>8, <1>9, <1>10, <1>11, <1>12, <1>13 DEF Keeps, Sound

(* The dirty lines of a file.                                              *)
DirtyOf(s, f) == {k \in 1 .. Lines : s.lines[k].file = f /\ s.lines[k].dirty}

(* One step of a flush: a dirty line less, or a refusal, or nothing to do. *)
LEMMA FlushLowestKeeps ==
    ASSUME NEW s, Sound(s), NEW f \in OpenFiles, s.result \in BOOLEAN,
           NEW t, t = FlushLowest(s, f)
    PROVE  /\ Keeps(s, t) /\ Sheds(s, t) /\ t.result \in BOOLEAN
           /\ ~s.result \/ DirtyOf(s, f) = {} => t = s
           /\ s.result /\ DirtyOf(s, f) # {} =>
                 /\ ~t.result => f \in t.lost
                 /\ \E k \in DirtyOf(s, f) :
                       t.lines[k].file = NoFile /\ DirtyOf(t, f) \subseteq DirtyOf(s, f) \ {k}
  <1>1. DirtyChunks(s, f) = {s.lines[k].chunk : k \in DirtyOf(s, f)}
    BY DEF DirtyChunks, DirtyOf, LinesOf
  <1>2. CASE ~s.result \/ DirtyOf(s, f) = {}
    <2>1. t = s
      BY <1>1, <1>2 DEF FlushLowest
    <2> QED
      BY <1>2, <2>1, KeepsItself DEF Sheds
  <1>3. CASE s.result /\ DirtyOf(s, f) # {}
    <2> DEFINE chunks == DirtyChunks(s, f)
    <2>1. chunks \in SUBSET Nat /\ chunks # {}
      <3>1. \A k \in 1 .. Lines : s.lines[k].chunk \in Nat
        BY SMTT(30), CacheAssumption DEF Sound, IO, Line, ChunkNumbers
      <3>2. \A k \in DirtyOf(s, f) : k \in 1 .. Lines
        BY DEF DirtyOf
      <3> QED
        BY <1>1, <1>3, <3>1, <3>2
    <2>2. PICK k \in DirtyOf(s, f) : Min(chunks) = s.lines[k].chunk
      BY <1>1, <2>1, LeastOf
    <2>3. k \in 1 .. Lines /\ s.lines[k].file = f /\ s.lines[k].dirty
          /\ s.lines[k].chunk \in ChunkNumbers
      BY <2>2 DEF DirtyOf, Sound, IO, Line
    <2>4. FindChunkCache(s, f, Min(chunks)) = k
      BY <2>2, <2>3, Sight DEF Sound, Holds
    <2>5. t = FlushLine(s, f, k)
      BY <1>3, <2>1, <2>4 DEF FlushLowest
    <2>6. /\ Keeps(s, t)
          /\ t.result \in BOOLEAN /\ (~t.result => f \in t.lost)
          /\ t.lines[k].file = NoFile
          /\ \A j \in 1 .. Lines : j # k => t.lines[j] = s.lines[j]
      BY <2>3, <2>5, FlushLineKeeps
    <2>7. Sheds(s, t)
      BY <2>6 DEF Sheds
    <2>8. DirtyOf(t, f) \subseteq DirtyOf(s, f) \ {k}
      BY <2>6, CacheAssumption DEF DirtyOf
    <2> QED
      BY <1>3, <2>2, <2>6, <2>7, <2>8
  <1> QED
    BY <1>2, <1>3

(* Sheds is transitive.                                                    *)
LEMMA ShedsOn ==
    ASSUME NEW s, NEW t, NEW u, Sheds(s, t), Sheds(t, u)
    PROVE  Sheds(s, u)
  BY DEF Sheds

(* A flush is a recursion over the lines.                                  *)
LEMMA FlushSteps ==
    ASSUME NEW s, NEW f
    PROVE  \E h : /\ \A k \in 0 .. Lines :
                       h[k] = IF k = 0 THEN [s EXCEPT !.result = TRUE] ELSE FlushLowest(h[k - 1], f)
                 /\ FlushFilesChunkCache(s, f) = h[Lines]
  <1> DEFINE Is(h, m) == h = [k \in 0 .. m |-> IF k = 0 THEN [s EXCEPT !.result = TRUE]
                                             ELSE FlushLowest(h[k - 1], f)]
             T == {m \in 0 .. Lines : \E h : Is(h, m)}
  <1>1. 0 \in T
    <2> DEFINE h == [k \in 0 .. 0 |-> [s EXCEPT !.result = TRUE]]
    <2>1. Is(h, 0)
      OBVIOUS
    <2>2. 0 \in 0 .. Lines
      BY CacheAssumption
    <2> HIDE DEF Is, h
    <2> QED
      BY <2>1, <2>2
  <1>2. ASSUME NEW m \in 0 .. Lines - 1, m \in T
        PROVE  m + 1 \in T
    <2>1. PICK h : Is(h, m)
      BY <1>2
    <2> DEFINE g == [k \in 0 .. m + 1 |-> IF k = m + 1 THEN FlushLowest(h[m], f) ELSE h[k]]
    <2>2. \A k \in 0 .. m : h[k] = IF k = 0 THEN [s EXCEPT !.result = TRUE]
                                    ELSE FlushLowest(h[k - 1], f)
      BY <2>1
    <2> HIDE DEF Is
    <2>5. m \in Nat /\ m + 1 \in 0 .. Lines
      BY CacheAssumption
    <2>6. g[m] = h[m] /\ g[m + 1] = FlushLowest(h[m], f) /\ (m + 1) - 1 = m
      BY <2>5
    <2>7. \A k \in 0 .. m : g[k] = h[k] /\ (k # 0 => k - 1 \in 0 .. m)
      BY <2>5
    <2>8. \A k \in 0 .. m + 1 : k = m + 1 \/ k \in 0 .. m
      BY <2>5
    <2>9. m + 1 # 0
      BY <2>5
    <2> HIDE DEF g
    <2>3. \A k \in 0 .. m + 1 : g[k] = IF k = 0 THEN [s EXCEPT !.result = TRUE]
                                        ELSE FlushLowest(g[k - 1], f)
      BY <2>2, <2>6, <2>7, <2>8, <2>9
    <2>4. Is(g, m + 1)
      BY <2>3 DEF Is, g
    <2> QED
      BY <2>4, <2>5
  <1>3. \A m \in 0 .. Lines : m \in T
    <2> HIDE DEF T
    <2> QED
      BY <1>1, <1>2, Upwards, CacheAssumption
  <1>4. \E h : Is(h, Lines)
    <2>1. Lines \in 0 .. Lines
      BY CacheAssumption
    <2>2. Lines \in T
      <3> HIDE DEF T
      <3> QED
        BY <1>3, <2>1
    <2> QED
      BY <2>2
  <1> DEFINE h == CHOOSE h : Is(h, Lines)
  <1>5. Is(h, Lines)
    BY <1>4
  <1>6. FlushFilesChunkCache(s, f) = h[Lines]
    BY DEF FlushFilesChunkCache
  <1> HIDE DEF h
  <1>7. \A k \in 0 .. Lines :
           h[k] = IF k = 0 THEN [s EXCEPT !.result = TRUE] ELSE FlushLowest(h[k - 1], f)
    BY <1>5
  <1> QED
    BY <1>6, <1>7

(* The same but for which lines were used when, and for the result.        *)
Alike(s, t) ==
    /\ t \in IO
    /\ t.store = s.store /\ t.size = s.size /\ t.dirty = s.dirty
    /\ t.erased = s.erased /\ t.lost = s.lost
    /\ \A k \in 1 .. Lines :
          /\ t.lines[k].file = s.lines[k].file /\ t.lines[k].chunk = s.lines[k].chunk
          /\ t.lines[k].dirty = s.lines[k].dirty
          /\ t.lines[k].data = s.lines[k].data /\ t.lines[k].n = s.lines[k].n

(* Nobody sees that.                                                       *)
LEMMA AlikeKeeps ==
    ASSUME NEW s, Sound(s), NEW t, Alike(s, t)
    PROVE  /\ Keeps(s, t)
           /\ \A f : DirtyOf(t, f) = DirtyOf(s, f)
  <1>1. \A f, c, k : Holds(t, k, f, c) <=> Holds(s, k, f, c)
    BY DEF Alike, Holds
  <1>2. Distinct(t)
    BY <1>1 DEF Sound, Distinct
  <1>3. Clean(t)
    BY DEF Sound, Clean, Alike
  <1>4. Tails(t)
    BY DEF Sound, Tails, Alike
  <1>5. \A f : DirtyOf(t, f) = DirtyOf(s, f)
    BY DEF DirtyOf, Alike
  <1>6. ASSUME NEW f \in OpenFiles \ t.lost, NEW c \in ChunkNumbers
        PROVE  Sees(t, f, c) = Sees(s, f, c)
    <2>1. Distinct(s)
      BY DEF Sound
    <2>2. CASE \E k : Holds(s, k, f, c)
      <3>1. PICK k : Holds(s, k, f, c) /\ k \in 1 .. Lines
        BY <2>2 DEF Holds
      <3>2. Holds(t, k, f, c)
        BY <1>1, <3>1
      <3>3. Sees(s, f, c) = s.lines[k].data /\ Sees(t, f, c) = t.lines[k].data
        BY <1>2, <2>1, <3>1, <3>2, Sight
      <3> QED
        BY <3>1, <3>3 DEF Alike
    <2>3. CASE \A k : ~Holds(s, k, f, c)
      <3>1. Sees(s, f, c) = s.store[f][c].data /\ Sees(t, f, c) = t.store[f][c].data
        BY <1>1, <1>2, <2>1, <2>3, Sight
      <3> QED
        BY <3>1 DEF Alike
    <2> QED
      BY <2>2, <2>3
  <1>7. ASSUME NEW f \in OpenFiles, HasDirty(t, f) PROVE HasDirty(s, f)
    BY <1>7 DEF HasDirty, Alike
  <1>8. t \in IO /\ t.size = s.size /\ t.dirty = s.dirty /\ t.erased = s.erased /\ s.lost \subseteq t.lost
    BY DEF Alike
  <1> QED
    BY <1>2, <1>3, <1>4, <1>5, <1>6, <1>7, <1>8 DEF Keeps, Sound

(* A result is not seen.                                                   *)
LEMMA NewResult ==
    ASSUME NEW s, Sound(s), NEW r \in Result, NEW t, t = [s EXCEPT !.result = r]
    PROVE  /\ Keeps(s, t) /\ Sheds(s, t) /\ t.result = r
           /\ t.lines = s.lines /\ t.store = s.store
           /\ \A f : DirtyOf(t, f) = DirtyOf(s, f)
  <1>1. s \in IO
    BY DEF Sound
  <1>2. t \in IO /\ t.result = r /\ t.lines = s.lines /\ t.store = s.store /\ t.size = s.size
        /\ t.dirty = s.dirty /\ t.erased = s.erased /\ t.lost = s.lost
    BY <1>1 DEF IO
  <1>3. Alike(s, t)
    BY <1>2 DEF Alike
  <1> QED
    BY <1>2, <1>3, AlikeKeeps DEF Sheds

(* FlushFilesChunkCache leaves no dirty line of f, unless f lost data: in  *)
(* as many steps as there are lines, since each step empties one.          *)
LEMMA FlushKeeps ==
    ASSUME NEW s, Sound(s), NEW f \in OpenFiles, NEW t, t = FlushFilesChunkCache(s, f)
    PROVE  /\ Keeps(s, t) /\ Sheds(s, t) /\ t.result \in BOOLEAN
           /\ DirtyOf(t, f) = {} \/ f \in t.lost
           /\ DirtyOf(s, f) # {} => \E k \in 1 .. Lines : t.lines[k].file = NoFile
  <1>1. PICK h : /\ \A k \in 0 .. Lines :
                       h[k] = IF k = 0 THEN [s EXCEPT !.result = TRUE] ELSE FlushLowest(h[k - 1], f)
                 /\ t = h[Lines]
    BY FlushSteps
  <1> DEFINE some(u) == \E k \in 1 .. Lines : u.lines[k].file = NoFile
             P(k) == /\ Keeps(s, h[k]) /\ Sheds(s, h[k]) /\ h[k].result \in BOOLEAN
                     /\ ~h[k].result => f \in h[k].lost
                     /\ h[k].result => Cardinality(DirtyOf(h[k], f)) <= Lines - k
                     /\ DirtyOf(s, f) # {} => some(h[k]) \/ (k = 0 /\ DirtyOf(h[k], f) # {} /\ h[k].result)
             T == {k \in 0 .. Lines : P(k)}
  <1>2. \A u : DirtyOf(u, f) \in SUBSET (1 .. Lines) /\ IsFiniteSet(DirtyOf(u, f))
               /\ Cardinality(DirtyOf(u, f)) \in 0 .. Lines
    <2> TAKE u
    <2>1. DirtyOf(u, f) \in SUBSET (1 .. Lines)
      BY DEF DirtyOf
    <2>2. IsFiniteSet(1 .. Lines) /\ Cardinality(1 .. Lines) = Lines
      BY FS_Interval, CacheAssumption
    <2>3. IsFiniteSet(DirtyOf(u, f)) /\ Cardinality(DirtyOf(u, f)) <= Lines
      BY <2>1, <2>2, FS_Subset
    <2> QED
      BY <2>1, <2>3, FS_CardinalityType
  <1>3. 0 \in T
    <2>0. 0 \in 0 .. Lines
      BY CacheAssumption
    <2>1. h[0] = [s EXCEPT !.result = TRUE] /\ 0 \in 0 .. Lines
      BY <1>1, <2>0
    <2>4. PICK r \in Result : r = TRUE
      BY Results
    <2>2. /\ Keeps(s, h[0]) /\ Sheds(s, h[0]) /\ h[0].result = TRUE
          /\ DirtyOf(h[0], f) = DirtyOf(s, f)
      <3>1. \A q \in Result : \A u : u = [s EXCEPT !.result = q] =>
               /\ Keeps(s, u) /\ Sheds(s, u) /\ u.result = q
               /\ DirtyOf(u, f) = DirtyOf(s, f)
        BY NewResult
      <3>2. h[0] = [s EXCEPT !.result = r]
        BY <2>1, <2>4
      <3>3. Keeps(s, h[0]) /\ Sheds(s, h[0])
        BY <3>1, <3>2
      <3>4. h[0].result = r
        BY <3>1, <3>2
      <3>5. DirtyOf(h[0], f) = DirtyOf(s, f)
        BY <3>1, <3>2
      <3> QED
        BY <2>4, <3>3, <3>4, <3>5
    <2>3. Cardinality(DirtyOf(h[0], f)) <= Lines - 0
      BY <1>2, CacheAssumption
    <2> QED
      BY <2>1, <2>2, <2>3
  <1>4. ASSUME NEW k \in 0 .. Lines - 1, k \in T
        PROVE  k + 1 \in T
    <2>1. k + 1 \in 0 .. Lines /\ k + 1 # 0 /\ (k + 1) - 1 = k /\ k \in Nat /\ Lines \in Nat
      BY CacheAssumption
    <2>2. h[k + 1] = FlushLowest(h[k], f)
      BY <1>1, <2>1
    <2>3. P(k)
      BY <1>4
    <2>4. Sound(h[k])
      BY <2>3 DEF Keeps
    <2> DEFINE u == h[k]
               v == h[k + 1]
    <2>5. /\ Keeps(u, v) /\ Sheds(u, v) /\ v.result \in BOOLEAN
          /\ ~u.result \/ DirtyOf(u, f) = {} => v = u
          /\ u.result /\ DirtyOf(u, f) # {} =>
                 /\ ~v.result => f \in v.lost
                 /\ \E i \in DirtyOf(u, f) :
                       v.lines[i].file = NoFile /\ DirtyOf(v, f) \subseteq DirtyOf(u, f) \ {i}
      BY <2>2, <2>3, <2>4, FlushLowestKeeps
    <2>6. Keeps(s, v) /\ Sheds(s, v)
      BY <2>3, <2>5, KeepsOn, ShedsOn
    <2>7. CASE ~u.result \/ DirtyOf(u, f) = {}
      <3>1. v = u
        BY <2>5, <2>7
      <3>2. DirtyOf(v, f) = {} => Cardinality(DirtyOf(v, f)) <= Lines - (k + 1)
        BY <2>1, FS_EmptySet
      <3>3. P(k + 1)
        BY <2>3, <2>6, <2>7, <3>1, <3>2
      <3> QED
        BY <2>1, <3>3
    <2>8. CASE u.result /\ DirtyOf(u, f) # {}
      <3>1. PICK i \in DirtyOf(u, f) : v.lines[i].file = NoFile /\ DirtyOf(v, f) \subseteq DirtyOf(u, f) \ {i}
        BY <2>5, <2>8
      <3>2. some(v)
        BY <1>2, <3>1
      <3>3. Cardinality(DirtyOf(u, f) \ {i}) = Cardinality(DirtyOf(u, f)) - 1
            /\ IsFiniteSet(DirtyOf(u, f) \ {i})
        BY <1>2, <3>1, FS_RemoveElement
      <3>4. Cardinality(DirtyOf(v, f)) <= Cardinality(DirtyOf(u, f) \ {i})
        BY <3>1, <3>3, FS_Subset
      <3>5. Cardinality(DirtyOf(v, f)) \in Nat /\ Cardinality(DirtyOf(u, f)) \in Nat
        BY <1>2, CacheAssumption
      <3>6. Cardinality(DirtyOf(u, f)) <= Lines - k
        BY <2>3, <2>8
      <3>7. Cardinality(DirtyOf(v, f)) <= Lines - (k + 1)
        BY <2>1, <3>3, <3>4, <3>5, <3>6
      <3>8. P(k + 1)
        BY <2>5, <2>6, <2>8, <3>2, <3>7
      <3> QED
        BY <2>1, <3>8
    <2> QED
      BY <2>3, <2>7, <2>8
  <1>5. \A k \in 0 .. Lines : k \in T
    <2> HIDE DEF T
    <2> QED
      BY <1>3, <1>4, Upwards, CacheAssumption
  <1>6. P(Lines) /\ Lines # 0
    BY <1>5, CacheAssumption
  <1>7. DirtyOf(t, f) = {} \/ f \in t.lost
    <2>1. t.result => Cardinality(DirtyOf(t, f)) <= 0
      BY <1>1, <1>6, CacheAssumption
    <2>2. Cardinality(DirtyOf(t, f)) <= 0 => DirtyOf(t, f) = {}
      BY <1>2, FS_EmptySet, CacheAssumption
    <2> QED
      BY <1>1, <1>6, <2>1, <2>2
  <1> QED
    BY <1>1, <1>6, <1>7

(* GrabChunkCacheWorker finds an empty line if there is one.               *)
LEMMA WorkerKeeps ==
    ASSUME NEW s, Sound(s), NEW t, t = GrabChunkCacheWorker(s)
    PROVE  /\ Keeps(s, t) /\ Sheds(s, t) /\ t.lines = s.lines
           /\ \/ t.result = 0 /\ \A k \in 1 .. Lines : s.lines[k].file # NoFile
              \/ t.result \in 1 .. Lines /\ s.lines[t.result].file = NoFile
  <1> DEFINE empty == LinesOf(s, NoFile)
             r == IF empty = {} THEN 0 ELSE Min(empty)
  <1>1. \/ r = 0 /\ \A k \in 1 .. Lines : s.lines[k].file # NoFile
        \/ r \in 1 .. Lines /\ s.lines[r].file = NoFile
    <2>1. empty \in SUBSET Nat
      BY CacheAssumption DEF LinesOf
    <2>2. CASE empty = {}
      BY <2>2 DEF LinesOf
    <2>3. CASE empty # {}
      <3>1. Min(empty) \in empty
        BY <2>1, <2>3, LeastOf
      <3> QED
        BY <2>3, <3>1 DEF LinesOf
    <2> QED
      BY <2>2, <2>3
  <1>2. r \in Result
    BY <1>1, Results, CacheAssumption
  <1>3. t = [s EXCEPT !.result = r]
    BY DEF GrabChunkCacheWorker
  <1> HIDE DEF r
  <1> QED
    BY <1>1, <1>2, <1>3, NewResult

(* There is a least recently used line.                                    *)
LEMMA Oldest ==
    ASSUME NEW s \in IO
    PROVE  \E k \in 1 .. Lines : \A j \in 1 .. Lines :
              s.lines[k].use < s.lines[j].use \/ (s.lines[k].use = s.lines[j].use /\ k <= j)
  <1> DEFINE uses == {s.lines[k].use : k \in 1 .. Lines}
  <1>1. \A k \in 1 .. Lines : s.lines[k].use \in Nat
    BY DEF IO, Line
  <1>2. PICK m \in uses : \A u \in uses : m <= u
    <2>1. uses \in SUBSET Nat /\ uses # {}
      BY <1>1, CacheAssumption
    <2> HIDE DEF uses
    <2> QED
      BY <2>1, LeastNumber
  <1> DEFINE first == {k \in 1 .. Lines : s.lines[k].use = m}
  <1>3. PICK k \in first : \A j \in first : k <= j
    <2>1. first \in SUBSET Nat /\ first # {}
      BY <1>2, CacheAssumption
    <2> HIDE DEF first
    <2> QED
      BY <2>1, LeastNumber
  <1>4. ASSUME NEW j \in 1 .. Lines
        PROVE  s.lines[k].use < s.lines[j].use \/ (s.lines[k].use = s.lines[j].use /\ k <= j)
    <2>1. k \in 1 .. Lines /\ s.lines[k].use = m /\ m <= s.lines[j].use
      BY <1>2, <1>3
    <2>2. CASE s.lines[j].use = m
      BY <1>3, <2>1, <2>2
    <2>3. CASE s.lines[j].use # m
      BY <1>1, <2>1, <2>3
    <2> QED
      BY <2>2, <2>3
  <1> QED
    BY <1>3, <1>4

(* GrabChunkCache returns a line that may be overwritten: it is empty, or  *)
(* it is not dirty.                                                        *)
LEMMA GrabKeeps ==
    ASSUME NEW s, Sound(s), NEW t, t = GrabChunkCache(s)
    PROVE  /\ Keeps(s, t) /\ Sheds(s, t) /\ t.result \in 1 .. Lines
           /\ t.lines[t.result].file = NoFile \/ ~t.lines[t.result].dirty
  <1> DEFINE w == GrabChunkCacheWorker(s)
             o == CHOOSE k \in 1 .. Lines : \A j \in 1 .. Lines :
                     w.lines[k].use < w.lines[j].use \/ (w.lines[k].use = w.lines[j].use /\ k <= j)
  <1>1. /\ Keeps(s, w) /\ Sheds(s, w) /\ w.lines = s.lines
        /\ \/ w.result = 0 /\ \A k \in 1 .. Lines : s.lines[k].file # NoFile
           \/ w.result \in 1 .. Lines /\ s.lines[w.result].file = NoFile
    BY WorkerKeeps
  <1>2. Sound(w) /\ w \in IO
    BY <1>1 DEF Keeps, Sound
  <1>3. o \in 1 .. Lines
    BY <1>2, Oldest
  <1> HIDE DEF w
  <1>4. CASE w.result # 0
    <2>1. t = w
      BY <1>4 DEF GrabChunkCache, PushOut, w
    <2> QED
      BY <1>1, <1>4, <2>1
  <1>5. CASE w.result = 0
    <2>1. w.lines[o].file \in OpenFiles
      <3> HIDE DEF o
      <3>1. w.lines[o].file # NoFile
        BY <1>1, <1>3, <1>5
      <3> QED
        BY <1>2, <1>3, <3>1 DEF IO, Line
    <2>2. CASE w.lines[o].dirty
      <3> DEFINE f == w.lines[o].file
                 u == FlushFilesChunkCache(w, f)
      <3>1. t = GrabChunkCacheWorker(u)
        BY <1>5, <2>2 DEF GrabChunkCache, PushOut, w
      <3>2. DirtyOf(w, f) # {}
        BY <1>3, <2>2 DEF DirtyOf
      <3> HIDE DEF o
      <3>3. Keeps(w, u) /\ Sheds(w, u) /\ \E k \in 1 .. Lines : u.lines[k].file = NoFile
        BY <1>2, <2>1, <3>2, FlushKeeps
      <3>4. Sound(u)
        BY <3>3 DEF Keeps
      <3> HIDE DEF u
      <3>5. Keeps(u, t) /\ Sheds(u, t) /\ t.lines = u.lines
            /\ t.result \in 1 .. Lines /\ u.lines[t.result].file = NoFile
        BY <3>1, <3>3, <3>4, WorkerKeeps
      <3>6. Keeps(s, t) /\ Sheds(s, t)
        BY <1>1, <3>3, <3>5, KeepsOn, ShedsOn
      <3> QED
        BY <3>5, <3>6
    <2>3. CASE ~w.lines[o].dirty
      <3>1. t = [w EXCEPT !.result = o]
        BY <1>5, <2>3 DEF GrabChunkCache, PushOut, w
      <3> HIDE DEF o
      <3>2. o \in Result
        BY <1>3, Results, CacheAssumption
      <3>3. Keeps(w, t) /\ Sheds(w, t) /\ t.result = o /\ t.lines = w.lines
        BY <1>2, <3>1, <3>2, NewResult
      <3> QED
        BY <1>1, <1>3, <2>3, <3>3, KeepsOn, ShedsOn
    <2> QED
      BY <2>2, <2>3
  <1> QED
    BY <1>4, <1>5

(* A chunk that no line has is read into a line that may be overwritten.   *)
LEMMA LoadKeeps ==
    ASSUME NEW s, Sound(s), NEW f \in OpenFiles, NEW c \in ChunkNumbers, NEW k \in 1 .. Lines,
           s.result = k, s.lines[k].file = NoFile \/ ~s.lines[k].dirty,
           \A j : ~Holds(s, j, f, c), NEW t, t = Load(s, f, c)
    PROVE  Keeps(s, t) /\ t.result = k /\ Holds(t, k, f, c)
  <1> DEFINE l == [s.lines[k] EXCEPT !.file = f, !.chunk = c, !.dirty = FALSE,
                                     !.data = s.store[f][c].data, !.n = 0]
  <1>1. s \in IO /\ Distinct(s)
    BY DEF Sound
  <1>2. l \in Line /\ l.file = f /\ l.chunk = c /\ l.dirty = FALSE /\ l.data = s.store[f][c].data
    <2>1. s.store[f][c].data \in Data /\ 0 \in 0 .. ChunkSize
      BY <1>1, CacheAssumption DEF IO, Chunk
    <2>2. s.lines[k] \in Line
      BY <1>1 DEF IO
    <2> QED
      BY <2>1, <2>2 DEF Line
  <1>3. t = [s EXCEPT !.lines = [s.lines EXCEPT ![k] = l]]
    BY DEF Load
  <1> HIDE DEF l
  <1>4. /\ t \in IO /\ t.store = s.store /\ t.size = s.size /\ t.dirty = s.dirty
        /\ t.erased = s.erased /\ t.lost = s.lost /\ t.result = k
        /\ t.lines = [s.lines EXCEPT ![k] = l]
    <2> DEFINE ls == [s.lines EXCEPT ![k] = l]
    <2>1. ls \in [1 .. Lines -> Line]
      BY <1>1, <1>2 DEF IO
    <2> HIDE DEF ls
    <2>2. t = [s EXCEPT !.lines = ls]
      BY <1>3 DEF ls
    <2>3. t \in IO
      BY <1>1, <2>1, <2>2 DEF IO
    <2>4. /\ t.store = s.store /\ t.size = s.size /\ t.dirty = s.dirty
          /\ t.erased = s.erased /\ t.lost = s.lost /\ t.result = s.result
          /\ t.lines = ls
      BY <1>1, <2>2 DEF IO
    <2> QED
      BY <2>3, <2>4 DEF ls
  <1>5. t.lines[k] = l /\ \A j \in 1 .. Lines : j # k => t.lines[j] = s.lines[j]
    BY <1>1, <1>4 DEF IO
  <1>6. Holds(t, k, f, c)
    BY <1>2, <1>5 DEF Holds
  <1>7. \A g, d, j : Holds(t, j, g, d) => (Holds(s, j, g, d) /\ j # k) \/ (j = k /\ g = f /\ d = c)
    BY <1>2, <1>5 DEF Holds
  <1>8. Distinct(t)
    BY <1>1, <1>7 DEF Distinct
  <1>9. Clean(t)
    BY <1>2, <1>4, <1>5 DEF Sound, Clean
  <1>10. Tails(t)
    BY <1>2, <1>4, <1>5 DEF Sound, Tails
  <1>11. ASSUME NEW g \in OpenFiles \ t.lost, NEW d \in ChunkNumbers
         PROVE  Sees(t, g, d) = Sees(s, g, d)
    <2>1. CASE g = f /\ d = c
      BY <1>1, <1>2, <1>5, <1>6, <1>8, <2>1, Sight
    <2>2. CASE ~(g = f /\ d = c)
      <3>1. CASE \E j : Holds(t, j, g, d)
        <4>1. PICK j : Holds(t, j, g, d)
          BY <3>1
        <4>2. Holds(s, j, g, d) /\ j # k /\ j \in 1 .. Lines
          BY <1>7, <2>2, <4>1 DEF Holds
        <4> QED
          BY <1>1, <1>5, <1>8, <4>1, <4>2, Sight
      <3>2. CASE \A j : ~Holds(t, j, g, d)
        <4>1. Sees(t, g, d) = s.store[g][d].data
          BY <1>4, <1>8, <3>2, Sight
        <4>2. CASE Holds(s, k, g, d)
          <5>1. Sees(s, g, d) = s.lines[k].data
            BY <1>1, <4>2, Sight
          <5>2. s.lines[k].file = g /\ s.lines[k].chunk = d /\ g # NoFile
            BY <4>2, CacheAssumption DEF Holds
          <5> QED
            BY <4>1, <5>1, <5>2 DEF Sound, Clean
        <4>3. CASE ~Holds(s, k, g, d)
          <5>1. \A j : ~Holds(s, j, g, d)
            BY <1>5, <3>2, <4>3 DEF Holds
          <5> QED
            BY <1>1, <4>1, <5>1, Sight
        <4> QED
          BY <4>2, <4>3
      <3> QED
        BY <3>1, <3>2
    <2> QED
      BY <2>1, <2>2
  <1>12. ASSUME NEW g \in OpenFiles, HasDirty(t, g) PROVE HasDirty(s, g)
    BY <1>2, <1>5, <1>12 DEF HasDirty
  <1>13. s.lost \subseteq t.lost
    BY <1>4
  <1> QED
    BY <1>4, <1>6, <1>8, <1>9, <1>10, <1>11, <1>12, <1>13 DEF Keeps, Sound

(* InCache finds or loads the chunk, and changes nothing that is seen.     *)
LEMMA InCacheKeeps ==
    ASSUME NEW s, Sound(s), NEW f \in OpenFiles, NEW c \in ChunkNumbers,
           NEW t, t = InCache(s, f, c)
    PROVE  Keeps(s, t) /\ t.result \in 1 .. Lines /\ Holds(t, t.result, f, c)
  <1> DEFINE hit == FindChunkCache(s, f, c)
             g == GrabChunkCache(s)
  <1>1. CASE hit # 0
    <2>1. Holds(s, hit, f, c) /\ hit \in 1 .. Lines
      BY <1>1, Find DEF Holds
    <2>2. t = [s EXCEPT !.result = hit]
      BY <1>1 DEF InCache
    <2>3. hit \in Result
      BY <2>1, Results, CacheAssumption
    <2> HIDE DEF hit
    <2>4. Keeps(s, t) /\ t.result = hit /\ t.lines = s.lines
      BY <2>2, <2>3, NewResult
    <2> QED
      BY <2>1, <2>4 DEF Holds
  <1>2. CASE hit = 0
    <2>1. \A j : ~Holds(s, j, f, c)
      BY <1>2, Find DEF Holds
    <2>2. t = Load(g, f, c)
      BY <1>2 DEF InCache
    <2> HIDE DEF g
    <2>3. /\ Keeps(s, g) /\ Sheds(s, g) /\ g.result \in 1 .. Lines
          /\ g.lines[g.result].file = NoFile \/ ~g.lines[g.result].dirty
      BY GrabKeeps DEF g
    <2>4. \A j : ~Holds(g, j, f, c)
      BY <2>1, <2>3, CacheAssumption DEF Holds, Sheds
    <2>5. Sound(g)
      BY <2>3 DEF Keeps
    <2>6. Keeps(g, t) /\ t.result = g.result /\ Holds(t, t.result, f, c)
      BY <2>2, <2>3, <2>4, <2>5, LoadKeeps
    <2> QED
      BY <2>3, <2>6, KeepsOn
  <1> QED
    BY <1>1, <1>2

(* The reset of the counters of use is not seen either.                    *)
LEMMA ResetKeeps ==
    ASSUME NEW s \in IO, NEW t, t = ResetUse(s)
    PROVE  Alike(s, t) /\ t.result = s.result
  <1> DEFINE ls == [j \in 1 .. Lines |-> IF j = 1 THEN s.lines[j] ELSE [s.lines[j] EXCEPT !.use = 0]]
  <1>1. CASE s.last > UseLimit
    <2>1. ls \in [1 .. Lines -> Line]
      <3>1. \A j \in 1 .. Lines : s.lines[j] \in Line
        BY DEF IO
      <3>2. \A j \in 1 .. Lines : ls[j] \in Line
        BY <3>1 DEF Line
      <3> QED
        BY <3>2
    <2>2. \A k \in 1 .. Lines :
          /\ ls[k].file = s.lines[k].file /\ ls[k].chunk = s.lines[k].chunk
          /\ ls[k].dirty = s.lines[k].dirty
          /\ ls[k].data = s.lines[k].data /\ ls[k].n = s.lines[k].n
      <3>1. \A j \in 1 .. Lines : s.lines[j] \in Line
        BY DEF IO
      <3> QED
        BY <3>1 DEF Line
    <2>3. t = [s EXCEPT !.last = 0, !.lines = ls]
      BY <1>1 DEF ResetUse
    <2> HIDE DEF ls
    <2>4. t.lines = ls
      BY <2>3 DEF IO
    <2>6. t \in IO
      <3>1. PICK z \in Nat : t = [s EXCEPT !.last = z, !.lines = ls]
        BY <2>3
      <3> QED
        BY <2>1, <3>1 DEF IO
    <2>5. t.store = s.store /\ t.size = s.size /\ t.dirty = s.dirty
          /\ t.erased = s.erased /\ t.lost = s.lost /\ t.result = s.result
      BY <2>3 DEF IO
    <2> QED
      BY <2>2, <2>4, <2>5, <2>6 DEF Alike
  <1>2. CASE ~(s.last > UseLimit)
    BY <1>2 DEF ResetUse, Alike
  <1> QED
    BY <1>1, <1>2

(* A line was used, to write to it if w.                                   *)
Used(s, t, w) ==
    /\ t \in IO
    /\ t.store = s.store /\ t.size = s.size /\ t.dirty = s.dirty
    /\ t.erased = s.erased /\ t.lost = s.lost /\ t.result = s.result
    /\ \A k \in 1 .. Lines :
          /\ t.lines[k].file = s.lines[k].file /\ t.lines[k].chunk = s.lines[k].chunk
          /\ IF w /\ k = s.result THEN t.lines[k].dirty ELSE t.lines[k].dirty = s.lines[k].dirty
          /\ t.lines[k].data = s.lines[k].data /\ t.lines[k].n = s.lines[k].n

(* UseChunkCache does that.                                                *)
LEMMA UseFields ==
    ASSUME NEW s \in IO, NEW k \in 1 .. Lines, k = s.result, NEW w \in BOOLEAN
    PROVE  Used(s, UseChunkCache(s, w), w)
  <1> DEFINE r == ResetUse(s)
             t == UseChunkCache(s, w)
             l == [r.lines[k] EXCEPT !.use = r.last + 1, !.dirty = w \/ r.lines[k].dirty]
             ls == [r.lines EXCEPT ![k] = l]
  <1>1. Alike(s, r) /\ r.result = s.result
    BY ResetKeeps
  <1>2. r \in IO
    BY <1>1 DEF Alike
  <1> HIDE DEF r
  <1>3. r.lines[k] \in Line /\ r.last + 1 \in Nat
    <2>1. r.lines[k] \in Line
      BY <1>2 DEF IO
    <2>2. r.last \in Nat
      BY <1>2 DEF IO
    <2> QED
      BY <2>1, <2>2
  <1>4. /\ l \in Line /\ l.file = r.lines[k].file /\ l.chunk = r.lines[k].chunk
        /\ IF w THEN l.dirty ELSE l.dirty = r.lines[k].dirty
        /\ l.data = r.lines[k].data /\ l.n = r.lines[k].n
    BY <1>3 DEF Line
  <1>5. t = [r EXCEPT !.last = r.last + 1, !.lines = ls]
    <2>1. t = [r EXCEPT !.last = r.last + 1, !.lines[k] = l]
      BY <1>1 DEF UseChunkCache, CountUse, r
    <2> HIDE DEF l
    <2> QED
      BY <2>1
  <1> HIDE DEF l
  <1>6. ls \in [1 .. Lines -> Line] /\ ls[k] = l /\ \A j \in 1 .. Lines : j # k => ls[j] = r.lines[j]
    BY <1>2, <1>4 DEF IO
  <1> HIDE DEF ls, t
  <1>7. t \in IO /\ t.lines = ls /\ t.store = r.store /\ t.size = r.size /\ t.dirty = r.dirty
        /\ t.erased = r.erased /\ t.lost = r.lost /\ t.result = r.result
    BY <1>2, <1>3, <1>5, <1>6 DEF IO
  <1>8. ASSUME NEW j \in 1 .. Lines
        PROVE  /\ t.lines[j].file = s.lines[j].file /\ t.lines[j].chunk = s.lines[j].chunk
               /\ IF w /\ j = s.result THEN t.lines[j].dirty ELSE t.lines[j].dirty = s.lines[j].dirty
               /\ t.lines[j].data = s.lines[j].data /\ t.lines[j].n = s.lines[j].n
    <2>1. /\ r.lines[j].file = s.lines[j].file /\ r.lines[j].chunk = s.lines[j].chunk
          /\ r.lines[j].dirty = s.lines[j].dirty
          /\ r.lines[j].data = s.lines[j].data /\ r.lines[j].n = s.lines[j].n
      BY <1>1 DEF Alike
    <2>2. CASE j = k
      BY <1>4, <1>6, <1>7, <2>1, <2>2
    <2>3. CASE j # k
      BY <1>6, <1>7, <2>1, <2>3 DEF IO, Line
    <2> QED
      BY <2>2, <2>3
  <1> QED
    BY <1>1, <1>7, <1>8 DEF Used, Alike, t

-----------------------------------------------------------------------------
(* Where chunk c begins.                                                   *)
Base(c) == (c - 1) * ChunkSize

(* Products grow with their factors.                                       *)
LEMMA Times ==
    ASSUME NEW a \in Nat, NEW b \in Nat, a <= b, NEW d \in Nat
    PROVE  a * d \in Nat /\ a * d <= b * d
  <1>1. PICK e \in Nat : b = a + e
    <2>1. b - a \in Nat /\ b = a + (b - a)
      OBVIOUS
    <2> QED
      BY <2>1
  <1>2. (a + e) * d = a * d + e * d
    OBVIOUS
  <1>3. a * d \in Nat /\ e * d \in Nat
    OBVIOUS
  <1> QED
    BY <1>1, <1>2, <1>3

(* Chunks lie one behind the other, up to Top.                             *)
LEMMA Bases ==
    /\ \A c \in Nat \ {0} : Base(c) \in Nat /\ Base(c + 1) = Base(c) + ChunkSize /\ c * ChunkSize = Base(c + 1)
    /\ \A c, d \in Nat \ {0} : c < d => Base(c) + ChunkSize <= Base(d)
    /\ Base(1) = 0 /\ Base(MaxChunks + 1) = Top /\ Top \in Nat
  <1>1. ASSUME NEW c \in Nat \ {0}
        PROVE  Base(c) \in Nat /\ Base(c + 1) = Base(c) + ChunkSize /\ c * ChunkSize = Base(c + 1)
    <2>1. c - 1 \in Nat /\ (c + 1) - 1 = c /\ ChunkSize \in Nat
      BY CacheAssumption
    <2>2. (c - 1) * ChunkSize \in Nat
      BY <2>1, Times
    <2>3. c * ChunkSize = (c - 1) * ChunkSize + ChunkSize
      BY <2>1
    <2> QED
      BY <2>1, <2>2, <2>3 DEF Base
  <1>2. ASSUME NEW c \in Nat \ {0}, NEW d \in Nat \ {0}, c < d
        PROVE  Base(c) + ChunkSize <= Base(d)
    <2>1. c \in Nat /\ d - 1 \in Nat /\ c <= d - 1 /\ ChunkSize \in Nat
      BY <1>2, CacheAssumption
    <2>2. c * ChunkSize <= (d - 1) * ChunkSize
      BY <2>1, Times
    <2> QED
      BY <1>1, <2>2 DEF Base
  <1>3. Base(1) = 0 /\ Base(MaxChunks + 1) = Top
    <2>1. 1 - 1 = 0 /\ (MaxChunks + 1) - 1 = MaxChunks /\ 0 * ChunkSize = 0
      BY CacheAssumption
    <2> QED
      BY <2>1 DEF Base, Top
  <1>4. Top \in Nat
    <2>1. MaxChunks + 1 \in Nat \ {0}
      BY CacheAssumption
    <2>2. Base(MaxChunks + 1) \in Nat
      BY <1>1, <2>1
    <2> QED
      BY <1>3, <2>2
  <1> QED
    BY <1>1, <1>2, <1>3, <1>4

(* An offset is in its chunk, at its remainder, and in no other chunk.     *)
LEMMA PlaceOf ==
    ASSUME NEW o \in Nat
    PROVE  /\ ChunkAt(o) \in Nat \ {0} /\ o % ChunkSize \in 0 .. ChunkSize - 1
           /\ o = Base(ChunkAt(o)) + (o % ChunkSize)
  <1>1. ChunkSize \in Nat \ {0}
    BY CacheAssumption
  <1>2. o \div ChunkSize \in Nat /\ o % ChunkSize \in 0 .. ChunkSize - 1
        /\ o = (o \div ChunkSize) * ChunkSize + (o % ChunkSize)
    BY <1>1
  <1>3. Base(ChunkAt(o)) = (o \div ChunkSize) * ChunkSize
    BY <1>2 DEF Base, ChunkAt
  <1> QED
    BY <1>2, <1>3 DEF ChunkAt

LEMMA OnlyPlace ==
    ASSUME NEW o \in Nat, NEW c \in Nat \ {0}, Base(c) <= o, o < Base(c) + ChunkSize
    PROVE  ChunkAt(o) = c /\ o % ChunkSize = o - Base(c)
  <1> DEFINE d == ChunkAt(o)
             m == o % ChunkSize
  <1>1. d \in Nat \ {0} /\ m \in 0 .. ChunkSize - 1 /\ o = Base(d) + m
    BY PlaceOf
  <1> HIDE DEF d, m
  <1>2. Base(c) \in Nat /\ Base(d) \in Nat /\ ChunkSize \in Nat
    BY <1>1, Bases, CacheAssumption
  <1>3. ~(c < d)
    <2> SUFFICES ASSUME c < d PROVE FALSE
      OBVIOUS
    <2>1. Base(c) + ChunkSize <= Base(d)
      BY <1>1, Bases
    <2> QED
      BY <1>1, <1>2, <2>1
  <1>4. ~(d < c)
    <2> SUFFICES ASSUME d < c PROVE FALSE
      OBVIOUS
    <2>1. Base(d) + ChunkSize <= Base(c)
      BY <1>1, Bases
    <2> QED
      BY <1>1, <1>2, <2>1
  <1>5. c = d
    BY <1>1, <1>3, <1>4
  <1> QED
    BY <1>1, <1>2, <1>5 DEF d, m

(* p is a part of n bytes from offset that lies in one chunk.              *)
PieceOf(p, offset, n) ==
    /\ p.chunk \in ChunkNumbers
    /\ p.start \in 0 .. ChunkSize - 1 /\ p.len \in 1 .. ChunkSize - p.start
    /\ p.from = Base(p.chunk) + p.start
    /\ offset <= p.from /\ p.from + p.len <= offset + n

(* P cuts n bytes from offset into such parts, one behind the other.       *)
InPieces(P, offset, n) ==
    /\ Len(P) \in Nat
    /\ \A k \in 1 .. Len(P) : PieceOf(P[k], offset, n)
    /\ Len(P) = 0 => n = 0
    /\ Len(P) # 0 => P[1].from = offset /\ P[Len(P)].from + P[Len(P)].len = offset + n
    /\ \A k \in 1 .. Len(P) - 1 : P[k + 1].from = P[k].from + P[k].len

(* The chunk of the last byte is not before that of the first, and has a   *)
(* number.                                                                 *)
LEMMA ChunksFrom ==
    ASSUME NEW offset \in Nat, NEW n \in Nat, offset + n <= Top, n # 0
    PROVE  /\ ChunkAt(offset) \in ChunkNumbers /\ ChunkAt(offset + n - 1) \in ChunkNumbers
           /\ ChunkAt(offset) <= ChunkAt(offset + n - 1)
           /\ Base(ChunkAt(offset)) <= offset /\ offset < Base(ChunkAt(offset)) + ChunkSize
           /\ Base(ChunkAt(offset + n - 1)) < offset + n
           /\ offset + n <= Base(ChunkAt(offset + n - 1)) + ChunkSize
  <1> DEFINE c == ChunkAt(offset)
             last == offset + n - 1
             d == ChunkAt(last)
  <1>1. last \in Nat /\ ChunkSize \in Nat /\ MaxChunks \in Nat \ {0} /\ MaxChunks + 1 \in Nat \ {0}
    BY CacheAssumption
  <1>2. c \in Nat \ {0} /\ Base(c) <= offset /\ offset < Base(c) + ChunkSize /\ Base(c) \in Nat
    <2>1. /\ ChunkAt(offset) \in Nat \ {0} /\ offset % ChunkSize \in 0 .. ChunkSize - 1
          /\ offset = Base(ChunkAt(offset)) + (offset % ChunkSize)
      BY PlaceOf
    <2>2. Base(c) \in Nat
      BY <2>1, Bases
    <2> HIDE DEF c
    <2> QED
      BY <1>1, <2>1, <2>2 DEF c
  <1>3. d \in Nat \ {0} /\ Base(d) <= last /\ last < Base(d) + ChunkSize /\ Base(d) \in Nat
    <2>1. /\ ChunkAt(last) \in Nat \ {0} /\ last % ChunkSize \in 0 .. ChunkSize - 1
          /\ last = Base(ChunkAt(last)) + (last % ChunkSize)
      BY <1>1, PlaceOf
    <2>2. Base(d) \in Nat
      BY <2>1, Bases
    <2> HIDE DEF last
    <2> QED
      BY <1>1, <2>1, <2>2
  <1> HIDE DEF c, d
  <1>4. c <= d
    <2> SUFFICES ASSUME d < c PROVE FALSE
      BY <1>2, <1>3
    <2>1. Base(d) + ChunkSize <= Base(c)
      BY <1>2, <1>3, Bases
    <2> QED
      BY <1>1, <1>2, <1>3, <2>1
  <1>5. d <= MaxChunks
    <2> SUFFICES ASSUME MaxChunks < d PROVE FALSE
      BY <1>1, <1>3
    <2>1. Base(MaxChunks + 1) <= Base(d)
      <3>1. CASE d = MaxChunks + 1
        BY <1>3, <3>1
      <3>2. CASE d # MaxChunks + 1
        <4>1. Base(MaxChunks + 1) + ChunkSize <= Base(d)
          BY <1>1, <1>3, <3>2, Bases
        <4>2. Base(MaxChunks + 1) \in Nat
          BY <1>1, Bases
        <4> QED
          BY <1>1, <1>3, <4>1, <4>2
      <3> QED
        BY <3>1, <3>2
    <2> QED
      BY <1>1, <1>3, <2>1, Bases
  <1> QED
    BY <1>1, <1>2, <1>3, <1>4, <1>5 DEF c, d, ChunkNumbers

(* Pieces does that.                                                       *)
LEMMA PiecesAre ==
    ASSUME NEW offset \in Nat, NEW n \in Nat, offset + n <= Top
    PROVE  InPieces(Pieces(offset, n), offset, n)
  <1> DEFINE P == Pieces(offset, n)
  <1>1. CASE n = 0
    <2>1. Len(P) = 0
      BY <1>1 DEF Pieces
    <2> QED
      BY <1>1, <2>1 DEF InPieces
  <1>2. CASE n # 0
    <2> DEFINE c == ChunkAt(offset)
               d == ChunkAt(offset + n - 1)
               L == d - c + 1
               at(k) == c + k - 1
               from(k) == IF k = 1 THEN offset ELSE Base(at(k))
               end(k) == IF k = L THEN offset + n ELSE Base(at(k)) + ChunkSize
    <2>1. /\ c \in ChunkNumbers /\ d \in ChunkNumbers /\ c <= d
          /\ Base(c) <= offset /\ offset < Base(c) + ChunkSize
          /\ Base(d) < offset + n /\ offset + n <= Base(d) + ChunkSize
      BY <1>2, ChunksFrom
    <2>2. c \in Nat \ {0} /\ d \in Nat \ {0} /\ L \in Nat \ {0} /\ ChunkSize \in Nat \ {0}
      BY <2>1, CacheAssumption DEF ChunkNumbers
    <2>3. P = [k \in 1 .. L |->
                 LET e == c + k - 1
                     f == Max({offset, (e - 1) * ChunkSize})
                 IN  [chunk |-> e, start |-> f % ChunkSize, from |-> f,
                      len |-> Min({offset + n, e * ChunkSize}) - f]]
      BY <1>2 DEF Pieces
    <2>4. Len(P) = L
      BY <2>2, <2>3
    <2> HIDE DEF c, d, P
    <2>5. ASSUME NEW k \in 1 .. L
          PROVE  /\ at(k) \in ChunkNumbers /\ at(k) \in Nat \ {0} /\ Base(at(k)) \in Nat
                 /\ Max({offset, (at(k) - 1) * ChunkSize}) = from(k)
                 /\ Min({offset + n, at(k) * ChunkSize}) = end(k)
                 /\ Base(at(k)) <= from(k) /\ from(k) < end(k) /\ end(k) <= Base(at(k)) + ChunkSize
                 /\ from(k) % ChunkSize = from(k) - Base(at(k))
                 /\ offset <= from(k) /\ end(k) <= offset + n /\ from(k) \in Nat
      <3>1. at(k) \in Nat \ {0} /\ at(k) \in ChunkNumbers /\ (k = 1 => at(k) = c) /\ (k # 1 => c < at(k))
            /\ (k = L => at(k) = d) /\ (k # L => at(k) < d)
        <4>1. k \in Nat /\ 1 <= k /\ k <= d - c + 1 /\ c <= MaxChunks /\ d <= MaxChunks /\ MaxChunks \in Nat
          BY <2>1, <2>2, CacheAssumption DEF ChunkNumbers
        <4>2. at(k) \in Nat \ {0} /\ c <= at(k) /\ at(k) <= d
          BY <2>2, <4>1
        <4>3. at(k) \in ChunkNumbers
          BY <2>2, <4>1, <4>2 DEF ChunkNumbers
        <4>4. (k = 1 => at(k) = c) /\ (k # 1 => c < at(k)) /\ (k = L => at(k) = d) /\ (k # L => at(k) < d)
          BY <2>2, <4>1
        <4> QED
          BY <4>2, <4>3, <4>4
      <3> DEFINE e == at(k)
      <3> HIDE DEF e
      <3>2. Base(e) \in Nat /\ Base(c) \in Nat /\ Base(d) \in Nat /\ e * ChunkSize = Base(e) + ChunkSize
            /\ (e - 1) * ChunkSize = Base(e)
        BY <2>2, <3>1, Bases DEF e, Base
      <3>3. k # 1 => offset < Base(e)
        <4>1. k # 1 => Base(c) + ChunkSize <= Base(e)
          BY <2>2, <3>1, Bases DEF e
        <4> QED
          BY <2>1, <2>2, <3>2, <4>1
      <3>4. k # L => Base(e) + ChunkSize < offset + n
        <4>1. k # L => Base(e) + ChunkSize <= Base(d)
          BY <2>2, <3>1, Bases DEF e
        <4> QED
          BY <2>1, <2>2, <3>2, <4>1
      <3>5. k = 1 => Base(e) <= offset /\ offset < Base(e) + ChunkSize
        BY <2>1, <3>1 DEF e
      <3>6. k = L => Base(e) < offset + n /\ offset + n <= Base(e) + ChunkSize
        BY <2>1, <3>1 DEF e
      <3> DEFINE fr == IF k = 1 THEN offset ELSE Base(e)
                 en == IF k = L THEN offset + n ELSE Base(e) + ChunkSize
      <3>7. Base(e) <= fr /\ fr < en /\ en <= Base(e) + ChunkSize /\ offset <= fr /\ en <= offset + n /\ fr \in Nat
        BY <1>2, <2>2, <3>2, <3>3, <3>4, <3>5, <3>6
      <3>8. Max({offset, (e - 1) * ChunkSize}) = fr
        <4>1. Max({offset, Base(e)}) = IF offset >= Base(e) THEN offset ELSE Base(e)
          BY <3>2, MaxOfTwo
        <4>2. IF offset >= Base(e) THEN fr = offset \/ offset = Base(e) ELSE fr = Base(e)
          BY <3>2, <3>3, <3>5
        <4>3. (IF offset >= Base(e) THEN offset ELSE Base(e)) = fr
          BY <3>2, <3>3, <3>5
        <4> HIDE DEF fr
        <4> QED
          BY <3>2, <4>1, <4>3
      <3>9. Min({offset + n, e * ChunkSize}) = en
        <4>1. Min({offset + n, Base(e) + ChunkSize})
                = IF offset + n <= Base(e) + ChunkSize THEN offset + n ELSE Base(e) + ChunkSize
          BY <2>2, <3>2, MinOfTwo
        <4> QED
          BY <2>2, <3>2, <3>4, <3>6, <4>1
      <3>10. fr % ChunkSize = fr - Base(e)
        <4>1. fr \in Nat /\ e \in Nat \ {0} /\ Base(e) <= fr /\ fr < Base(e) + ChunkSize
          BY <2>2, <3>1, <3>2, <3>7 DEF e
        <4> HIDE DEF fr
        <4> QED
          BY <4>1, OnlyPlace
      <3> QED
        BY <3>1, <3>2, <3>7, <3>8, <3>9, <3>10 DEF e
    <2>6. ASSUME NEW k \in 1 .. L
          PROVE  /\ PieceOf(P[k], offset, n)
                 /\ P[k].chunk = at(k) /\ P[k].from = from(k) /\ P[k].from + P[k].len = end(k)
                 /\ P[k].from \in Nat
      <3>1. P[k] = [chunk |-> at(k), start |-> Max({offset, (at(k) - 1) * ChunkSize}) % ChunkSize,
                    from |-> Max({offset, (at(k) - 1) * ChunkSize}),
                    len |-> Min({offset + n, at(k) * ChunkSize}) - Max({offset, (at(k) - 1) * ChunkSize})]
        BY <2>3
      <3> DEFINE fr == from(k)
                 en == end(k)
                 e == at(k)
      <3>2. P[k] = [chunk |-> e, start |-> fr % ChunkSize, from |-> fr, len |-> en - fr]
        <4>1. Max({offset, (at(k) - 1) * ChunkSize}) = fr /\ Min({offset + n, at(k) * ChunkSize}) = en
          BY <2>5
        <4> HIDE DEF from, end
        <4> QED
          BY <3>1, <4>1
      <3>3. /\ e \in ChunkNumbers /\ Base(e) \in Nat
            /\ Base(e) <= fr /\ fr < en /\ en <= Base(e) + ChunkSize
            /\ fr % ChunkSize = fr - Base(e)
            /\ offset <= fr /\ en <= offset + n /\ fr \in Nat /\ en \in Nat
        <4>1. Base(e) \in Nat
          BY <2>5
        <4>2. offset + n \in Nat /\ Base(e) + ChunkSize \in Nat
          BY <2>2, <4>1
        <4>3. en \in Nat
          BY <4>2
        <4> HIDE DEF en
        <4> QED
          BY <2>5, <4>3 DEF en
      <3> HIDE DEF e, fr, en
      <3>4. PieceOf(P[k], offset, n) /\ P[k].chunk = e /\ P[k].from = fr /\ P[k].from + P[k].len = en
        BY <2>2, <3>2, <3>3 DEF PieceOf
      <3> QED
        BY <3>3, <3>4 DEF e, fr, en
    <2>8. P[1].from = offset /\ P[L].from + P[L].len = offset + n
      <3>1. 1 \in 1 .. L /\ L \in 1 .. L
        BY <2>2
      <3> QED
        BY <2>6, <3>1
    <2>9. ASSUME NEW k \in 1 .. L - 1 PROVE P[k + 1].from = P[k].from + P[k].len
      <3>1. k \in 1 .. L /\ k + 1 \in 1 .. L /\ k # L /\ k + 1 # 1
        BY <2>2
      <3>2. at(k + 1) = at(k) + 1
        BY <2>2
      <3>3. Base(at(k) + 1) = Base(at(k)) + ChunkSize
        BY <2>5, <3>1, Bases
      <3>4. P[k + 1].from = Base(at(k)) + ChunkSize
        BY <2>6, <3>1, <3>2, <3>3
      <3>5. P[k].from + P[k].len = Base(at(k)) + ChunkSize
        BY <2>6, <3>1
      <3> QED
        BY <3>4, <3>5
    <2> QED
      BY <1>2, <2>2, <2>4, <2>6, <2>8, <2>9 DEF InPieces, P
  <1> QED
    BY <1>1, <1>2

-----------------------------------------------------------------------------
(* What is seen is data.                                                   *)
LEMMA SoundTypes ==
    ASSUME NEW s, Sound(s)
    PROVE  /\ s \in IO /\ Distinct(s)
           /\ \A k \in 1 .. Lines : s.lines[k] \in Line /\ s.lines[k].data \in Data
           /\ \A f \in OpenFiles : \A c \in ChunkNumbers :
                 s.store[f][c] \in Chunk /\ s.store[f][c].data \in Data /\ Sees(s, f, c) \in Data
  <1>1. s \in IO /\ Distinct(s)
    BY DEF Sound
  <1>2. \A k \in 1 .. Lines : s.lines[k] \in Line /\ s.lines[k].data \in Data
    BY <1>1 DEF IO, Line
  <1>3. \A f \in OpenFiles : \A c \in ChunkNumbers : s.store[f][c] \in Chunk /\ s.store[f][c].data \in Data
    BY <1>1 DEF IO, Chunk
  <1>4. \A f \in OpenFiles : \A c \in ChunkNumbers : Sees(s, f, c) \in Data
    <2> SUFFICES ASSUME NEW f \in OpenFiles, NEW c \in ChunkNumbers
                 PROVE  Sees(s, f, c) \in Data
      OBVIOUS
    <2>1. CASE \E k : Holds(s, k, f, c)
      BY <1>1, <1>2, <2>1, Sight DEF Holds
    <2>2. CASE \A k : ~Holds(s, k, f, c)
      BY <1>1, <1>3, <2>2, Sight
    <2> QED
      BY <2>1, <2>2
  <1> QED
    BY <1>1, <1>2, <1>3, <1>4

(* Data is a sequence, as a read appends it.                               *)
LEMMA DataIsSeq ==
    ASSUME NEW d \in Data
    PROVE  d \in Seq(Byte) /\ Len(d) = ChunkSize
  BY CacheAssumption DEF Data

(* A use to read is not seen.                                              *)
LEMMA UseKeeps ==
    ASSUME NEW s, Sound(s), NEW k \in 1 .. Lines, k = s.result, NEW t, t = UseChunkCache(s, FALSE)
    PROVE  Keeps(s, t) /\ t.result = k /\ t.lines[k].data = s.lines[k].data
  <1>1. s \in IO
    BY DEF Sound
  <1>2. Used(s, t, FALSE)
    BY <1>1, UseFields
  <1>3. \A j \in 1 .. Lines : t.lines[j].dirty = s.lines[j].dirty
    <2>1. \A j \in 1 .. Lines : s.lines[j].dirty \in BOOLEAN
      BY <1>1 DEF IO, Line
    <2> QED
      BY <1>2, <2>1 DEF Used
  <1>4. Alike(s, t)
    BY <1>2, <1>3 DEF Used, Alike
  <1> QED
    BY <1>2, <1>4, AlikeKeeps DEF Used

(* A piece is read as it is seen, whether through the cache or not.        *)
LEMMA ReadPieceKeeps ==
    ASSUME NEW s, Sound(s), s.result \in Seq(Byte), NEW f \in OpenFiles,
           NEW p, NEW offset \in Nat, NEW n \in Nat, PieceOf(p, offset, n),
           NEW t, t = ReadPiece(s, f, p)
    PROVE  /\ Keeps(s, t) /\ t.result \in Seq(Byte)
           /\ Len(t.result) = Len(s.result) + p.len
           /\ \A i \in 1 .. Len(s.result) : t.result[i] = s.result[i]
           /\ f \notin t.lost =>
                 \A i \in 1 .. p.len : t.result[Len(s.result) + i] = Sees(s, f, p.chunk)[p.start + i]
  <1> DEFINE c == p.chunk
             got == s.result
  <1>0. c \in ChunkNumbers /\ p.start \in Nat /\ p.len \in Nat /\ p.start + p.len <= ChunkSize
        /\ p.len <= ChunkSize /\ ChunkSize \in Nat
    BY CacheAssumption DEF PieceOf
  <1>1. ASSUME NEW d \in Data, NEW r, r = got \o SubSeq(d, p.start + 1, p.start + p.len)
        PROVE  /\ r \in Seq(Byte) /\ Len(r) = Len(got) + p.len
               /\ \A i \in 1 .. Len(got) : r[i] = got[i]
               /\ \A i \in 1 .. p.len : r[Len(got) + i] = d[p.start + i]
    <2>1. d \in Seq(Byte) /\ Len(d) = ChunkSize
      BY DataIsSeq
    <2> DEFINE q == SubSeq(d, p.start + 1, p.start + p.len)
    <2>2. q \in Seq(Byte) /\ Len(q) = p.len /\ \A i \in 1 .. p.len : q[i] = d[p.start + i]
      <3>1. \A a \in Nat, b \in Nat : a + b <= Len(d) =>
               /\ SubSeq(d, a + 1, a + b) \in Seq(Byte) /\ Len(SubSeq(d, a + 1, a + b)) = b
               /\ \A i \in 1 .. b : SubSeq(d, a + 1, a + b)[i] = d[a + i]
        BY <2>1
      <3> QED
        BY <1>0, <2>1, <3>1
    <2> HIDE DEF q
    <2> QED
      BY SMTT(30), <1>1, <2>2 DEF q
  <1>2. CASE FindChunkCache(s, f, c) # 0 \/ p.len < ChunkSize
    <2> DEFINE u == InCache(s, f, c)
               k == u.result
               v == UseChunkCache(u, FALSE)
    <2>1. t = ReadLine(v, p, got)
      BY <1>2 DEF ReadPiece
    <2>2. Keeps(s, u) /\ k \in 1 .. Lines /\ Holds(u, k, f, c)
      BY <1>0, InCacheKeeps
    <2> HIDE DEF u
    <2>3. Sound(u)
      BY <2>2 DEF Keeps
    <2>4. Keeps(u, v) /\ v.result = k /\ v.lines[k].data = u.lines[k].data
      BY ZenonT(30), <2>2, <2>3, UseKeeps
    <2> HIDE DEF v
    <2>5. Sound(v) /\ u.lines[k].data \in Data
      BY <2>2, <2>3, <2>4, SoundTypes DEF Keeps
    <2> DEFINE d == u.lines[k].data
               r == got \o SubSeq(d, p.start + 1, p.start + p.len)
    <2>6. t = [v EXCEPT !.result = r]
      BY <2>1, <2>4 DEF ReadLine
    <2>7. /\ r \in Seq(Byte) /\ Len(r) = Len(got) + p.len
          /\ \A i \in 1 .. Len(got) : r[i] = got[i]
          /\ \A i \in 1 .. p.len : r[Len(got) + i] = d[p.start + i]
      BY <1>1, <2>5
    <2>8. Sees(u, f, c) = d
      BY <1>0, <2>2, <2>3, Sight DEF Sound
    <2> HIDE DEF r, d, k
    <2>9. r \in Result
      BY <2>7, Results
    <2>10. Keeps(v, t) /\ t.result = r
      BY <2>5, <2>6, <2>9, NewResult
    <2>11. Keeps(s, t)
      BY <2>2, <2>4, <2>10, KeepsOn
    <2>12. f \notin t.lost => Sees(s, f, c) = d
      BY <1>0, <2>2, <2>4, <2>8, <2>10 DEF Keeps
    <2> QED
      BY <2>7, <2>10, <2>11, <2>12
  <1>3. CASE ~(FindChunkCache(s, f, c) # 0 \/ p.len < ChunkSize)
    <2> DEFINE d == s.store[f][c].data
               r == got \o d
    <2>1. p.len = ChunkSize /\ p.start = 0
      BY <1>0, <1>3
    <2>2. t = [s EXCEPT !.result = r]
      BY <1>3 DEF ReadPiece
    <2>3. d \in Data
      BY <1>0, SoundTypes
    <2>4. Sees(s, f, c) = d
      BY <1>3 DEF Sees
    <2>5. d \in Seq(Byte) /\ Len(d) = ChunkSize
      BY <2>3, DataIsSeq
    <2> HIDE DEF d
    <2>6. /\ r \in Seq(Byte) /\ Len(r) = Len(got) + p.len
          /\ \A i \in 1 .. Len(got) : r[i] = got[i]
          /\ \A i \in 1 .. p.len : r[Len(got) + i] = d[p.start + i]
      BY <1>0, <2>1, <2>5
    <2> HIDE DEF r
    <2>7. r \in Result
      BY <2>6, Results
    <2>8. Keeps(s, t) /\ t.result = r
      BY <2>2, <2>7, NewResult
    <2> QED
      BY <2>4, <2>6, <2>8
  <1> QED
    BY <1>2, <1>3

(* After k pieces the bytes read are those seen from the offset on.        *)
LEMMA ReadSteps ==
    ASSUME NEW s, NEW f, NEW offset, NEW n, NEW P, P = Pieces(offset, n), Len(P) \in Nat
    PROVE  \E h : /\ \A k \in 0 .. Len(P) :
                       h[k] = IF k = 0 THEN [s EXCEPT !.result = << >>] ELSE ReadPiece(h[k - 1], f, P[k])
                 /\ ReadDataFromFile(s, f, offset, n) = h[Len(P)]
  <1> DEFINE first == [s EXCEPT !.result = << >>]
             Is(h, m) == h = [k \in 0 .. m |-> IF k = 0 THEN first ELSE ReadPiece(h[k - 1], f, P[k])]
             T == {m \in 0 .. Len(P) : \E h : Is(h, m)}
  <1>1. 0 \in T
    <2> DEFINE h == [k \in 0 .. 0 |-> first]
    <2>1. Is(h, 0)
      OBVIOUS
    <2>2. 0 \in 0 .. Len(P)
      OBVIOUS
    <2> HIDE DEF Is, h
    <2> QED
      BY <2>1, <2>2
  <1>2. ASSUME NEW m \in 0 .. Len(P) - 1, m \in T
        PROVE  m + 1 \in T
    <2>1. PICK h : Is(h, m)
      BY <1>2
    <2> DEFINE g == [k \in 0 .. m + 1 |-> IF k = m + 1 THEN ReadPiece(h[m], f, P[m + 1]) ELSE h[k]]
    <2>2. \A k \in 0 .. m : h[k] = IF k = 0 THEN first ELSE ReadPiece(h[k - 1], f, P[k])
      BY <2>1
    <2> HIDE DEF Is
    <2>3. m \in Nat /\ m + 1 \in 0 .. Len(P) /\ m + 1 # 0
      OBVIOUS
    <2>4. g[m] = h[m] /\ g[m + 1] = ReadPiece(h[m], f, P[m + 1]) /\ (m + 1) - 1 = m
      BY <2>3
    <2>5. \A k \in 0 .. m : g[k] = h[k] /\ (k # 0 => k - 1 \in 0 .. m)
      BY <2>3
    <2>6. \A k \in 0 .. m + 1 : k = m + 1 \/ k \in 0 .. m
      BY <2>3
    <2> HIDE DEF g, first
    <2>7. \A k \in 0 .. m + 1 : g[k] = IF k = 0 THEN first ELSE ReadPiece(g[k - 1], f, P[k])
      BY <2>2, <2>3, <2>4, <2>5, <2>6
    <2>8. Is(g, m + 1)
      BY <2>7 DEF Is, g
    <2> QED
      BY <2>3, <2>8
  <1>3. \A m \in 0 .. Len(P) : m \in T
    <2> HIDE DEF T
    <2> QED
      BY <1>1, <1>2, Upwards
  <1>4. \E h : Is(h, Len(P))
    BY <1>3
  <1> DEFINE h == CHOOSE h : Is(h, Len(P))
  <1>5. Is(h, Len(P))
    BY <1>4
  <1>6. ReadDataFromFile(s, f, offset, n) = h[Len(P)]
    BY DEF ReadDataFromFile
  <1> HIDE DEF h
  <1>7. \A k \in 0 .. Len(P) : h[k] = IF k = 0 THEN first ELSE ReadPiece(h[k - 1], f, P[k])
    BY <1>5
  <1> QED
    BY <1>6, <1>7

(* The byte seen at an offset.                                             *)
SeenAt(s, f, o) == Sees(s, f, ChunkAt(o))[(o % ChunkSize) + 1]

(* A byte of a piece is the one seen at its offset.                        *)
LEMMA SeenInPiece ==
    ASSUME NEW s, NEW f, NEW p, NEW offset \in Nat, NEW n \in Nat, PieceOf(p, offset, n),
           NEW i \in 1 .. p.len
    PROVE  SeenAt(s, f, p.from + i - 1) = Sees(s, f, p.chunk)[p.start + i]
  <1> DEFINE c == p.chunk
             o == p.from + i - 1
  <1>1. c \in Nat \ {0} /\ p.start \in Nat /\ p.len \in Nat /\ p.start + p.len <= ChunkSize
        /\ ChunkSize \in Nat /\ i \in Nat
    BY CacheAssumption DEF PieceOf, ChunkNumbers
  <1>2. Base(c) \in Nat /\ p.from = Base(c) + p.start
    BY <1>1, Bases DEF PieceOf
  <1>3. o \in Nat /\ Base(c) <= o /\ o < Base(c) + ChunkSize /\ (o - Base(c)) + 1 = p.start + i
    BY <1>1, <1>2
  <1> HIDE DEF o, c
  <1>4. ChunkAt(o) = c /\ (o % ChunkSize) + 1 = p.start + i
    BY <1>1, <1>3, OnlyPlace
  <1> QED
    BY <1>4 DEF SeenAt, o, c

(* What a read returns: the bytes that are seen from its offset on.        *)
LEMMA ReadKeeps ==
    ASSUME NEW s, Sound(s), NEW f \in OpenFiles, NEW offset \in Nat, NEW n \in Nat,
           offset + n <= Top, NEW t, t = ReadDataFromFile(s, f, offset, n)
    PROVE  /\ Keeps(s, t) /\ t.result \in Seq(Byte) /\ Len(t.result) = n
           /\ f \notin t.lost => \A i \in 1 .. n : t.result[i] = SeenAt(s, f, offset + i - 1)
  <1> DEFINE P == Pieces(offset, n)
             end(k) == IF k = 0 THEN offset ELSE P[k].from + P[k].len
  <1>1. InPieces(P, offset, n)
    BY PiecesAre
  <1> HIDE DEF P
  <1>2. Len(P) \in Nat
    BY <1>1 DEF InPieces
  <1>3. PICK h : /\ \A k \in 0 .. Len(P) :
                       h[k] = IF k = 0 THEN [s EXCEPT !.result = << >>] ELSE ReadPiece(h[k - 1], f, P[k])
                 /\ t = h[Len(P)]
    BY <1>2, ReadSteps DEF P
  <1> DEFINE R(k) == LET r == h[k].result
                     IN  /\ Keeps(s, h[k]) /\ r \in Seq(Byte) /\ offset + Len(r) = end(k)
                         /\ f \notin h[k].lost =>
                               \A i \in 1 .. Len(r) : r[i] = SeenAt(s, f, offset + i - 1)
             T == {k \in 0 .. Len(P) : R(k)}
  <1>4. 0 \in T
    <2>1. 0 \in 0 .. Len(P)
      BY <1>2
    <2>2. h[0] = [s EXCEPT !.result = << >>]
      BY <1>3, <2>1
    <2>3. << >> \in Seq(Byte) /\ << >> \in Result /\ Len(<< >>) = 0
      <3>1. << >> \in Seq(Byte) /\ Len(<< >>) = 0
        OBVIOUS
      <3> QED
        BY <3>1, Results
    <2>4. Keeps(s, h[0]) /\ h[0].result = << >>
      BY <2>2, <2>3, NewResult
    <2>5. R(0)
      BY <2>3, <2>4
    <2> QED
      BY <2>1, <2>5
  <1>5. ASSUME NEW k \in 0 .. Len(P) - 1, k \in T
        PROVE  k + 1 \in T
    <2>1. k + 1 \in 1 .. Len(P) /\ k + 1 \in 0 .. Len(P) /\ k + 1 # 0 /\ (k + 1) - 1 = k
      BY <1>2
    <2> DEFINE u == h[k]
               v == h[k + 1]
               p == P[k + 1]
    <2>2. v = ReadPiece(u, f, p)
      BY <1>3, <2>1
    <2>3. /\ Keeps(s, u) /\ u.result \in Seq(Byte) /\ offset + Len(u.result) = end(k)
          /\ f \notin u.lost => \A i \in 1 .. Len(u.result) : u.result[i] = SeenAt(s, f, offset + i - 1)
      BY <1>5
    <2>4. PieceOf(p, offset, n) /\ p.from = end(k)
      BY <1>1, <2>1 DEF InPieces
    <2>5. Sound(u)
      BY <2>3 DEF Keeps
    <2>6. end(k + 1) = p.from + p.len
      BY <2>1
    <2> HIDE DEF u, v, p, end
    <2>7. /\ Keeps(u, v) /\ v.result \in Seq(Byte)
          /\ Len(v.result) = Len(u.result) + p.len
          /\ \A i \in 1 .. Len(u.result) : v.result[i] = u.result[i]
          /\ f \notin v.lost =>
                \A i \in 1 .. p.len : v.result[Len(u.result) + i] = Sees(u, f, p.chunk)[p.start + i]
      BY SMTT(30), <2>2, <2>3, <2>4, <2>5, ReadPieceKeeps
    <2>8. Keeps(s, v)
      BY <2>3, <2>7, KeepsOn
    <2>9. Len(u.result) \in Nat /\ p.len \in Nat /\ p.chunk \in ChunkNumbers
      BY SMTT(30), <2>3, <2>4, CacheAssumption DEF PieceOf
    <2>10. offset + Len(v.result) = end(k + 1)
      BY <2>3, <2>4, <2>6, <2>7, <2>9
    <2>11. ASSUME f \notin v.lost, NEW i \in 1 .. Len(v.result)
           PROVE  v.result[i] = SeenAt(s, f, offset + i - 1)
      <3>1. f \notin u.lost
        BY <2>7, <2>11 DEF Keeps
      <3>2. CASE i <= Len(u.result)
        BY <2>3, <2>7, <2>9, <3>1, <3>2
      <3>3. CASE i > Len(u.result)
        <4> DEFINE j == i - Len(u.result)
        <4>1. j \in 1 .. p.len /\ Len(u.result) + j = i /\ p.from + j - 1 = offset + i - 1
          BY SMTT(30), <2>3, <2>4, <2>7, <2>9, <3>3
        <4> HIDE DEF j
        <4>2. v.result[i] = Sees(u, f, p.chunk)[p.start + j]
          BY <2>7, <2>11, <4>1
        <4>3. Sees(u, f, p.chunk) = Sees(s, f, p.chunk)
          BY <2>3, <2>9, <3>1 DEF Keeps
        <4>4. SeenAt(s, f, p.from + j - 1) = Sees(s, f, p.chunk)[p.start + j]
          <5>1. PieceOf(p, offset, n) /\ j \in 1 .. p.len
            BY <2>4, <4>1
          <5> QED
            BY <5>1, SeenInPiece
        <4> QED
          BY <4>1, <4>2, <4>3, <4>4
      <3> QED
        BY <2>7, <2>9, <3>2, <3>3
    <2>12. R(k + 1)
      BY <2>7, <2>8, <2>10, <2>11 DEF v
    <2> QED
      BY <2>1, <2>12
  <1>6. \A k \in 0 .. Len(P) : k \in T
    <2> HIDE DEF T
    <2> QED
      BY <1>2, <1>4, <1>5, Upwards
  <1>7. R(Len(P))
    BY <1>2, <1>6
  <1>8. Len(t.result) = n
    <2>1. end(Len(P)) = offset + n
      BY <1>1, <1>2 DEF InPieces
    <2> HIDE DEF end
    <2> QED
      BY <1>3, <1>7, <2>1
  <1> QED
    BY <1>3, <1>7, <1>8

-----------------------------------------------------------------------------
(* From s to t piece p of f is overwritten with bytes, and nothing else    *)
(* changes that is seen.                                                   *)
Writes(s, t, f, p, bytes) ==
    /\ Sound(t)
    /\ t.size = s.size /\ t.dirty = s.dirty
    /\ s.lost \subseteq t.lost /\ t.result \in BOOLEAN
    /\ \A g \in OpenFiles \ t.lost : \A d \in ChunkNumbers :
          Sees(t, g, d) = IF t.result /\ g = f /\ d = p.chunk
                          THEN Patch(Sees(s, g, d), p.start, bytes) ELSE Sees(s, g, d)
    /\ \A g \in OpenFiles \ {f} : HasDirty(t, g) => HasDirty(s, g)

(* What keeps everything may come first.                                   *)
LEMMA KeepsThenWrites ==
    ASSUME NEW s, NEW u, NEW t, NEW f, NEW p, NEW bytes, Keeps(s, u), Writes(u, t, f, p, bytes)
    PROVE  Writes(s, t, f, p, bytes)
  <1>1. \A g \in OpenFiles \ t.lost : \A d \in ChunkNumbers : Sees(u, g, d) = Sees(s, g, d)
    BY DEF Keeps, Writes
  <1> QED
    BY <1>1 DEF Keeps, Writes

(* Patch puts bytes over data.                                             *)
LEMMA PatchIs ==
    ASSUME NEW d \in Data, NEW start \in Nat, NEW bytes \in Seq(Byte)
    PROVE  /\ Patch(d, start, bytes) \in Data
           /\ \A j \in 1 .. ChunkSize :
                 Patch(d, start, bytes)[j] = IF start < j /\ j <= start + Len(bytes)
                                            THEN bytes[j - start] ELSE d[j]
  <1>1. DOMAIN bytes = 1 .. Len(bytes) /\ Len(bytes) \in Nat
    OBVIOUS
  <1>2. \A j \in 1 .. ChunkSize : j - start \in DOMAIN bytes <=> start < j /\ j <= start + Len(bytes)
    BY <1>1
  <1>3. \A j \in 1 .. ChunkSize : d[j] \in Byte
    BY DEF Data
  <1>4. \A j \in DOMAIN bytes : bytes[j] \in Byte
    OBVIOUS
  <1> QED
    BY <1>2, <1>3, <1>4 DEF Patch, Data

(* Behind p and the end of f there are zeros in the chunk of p: a line is  *)
(* written back with the larger of the two as its byte count.              *)
ZeroBehind(s, f, p) ==
    f \notin s.lost =>
       \A j \in 1 .. ChunkSize : j > p.start + p.len /\ Base(p.chunk) + j > s.size[f]
                                => Sees(s, f, p.chunk)[j] = 0

(* Line k is dirty, with data x and byte count m.                          *)
Changed(s, t, k, x, m) ==
    /\ t \in IO
    /\ t.store = s.store /\ t.size = s.size /\ t.dirty = s.dirty
    /\ t.erased = s.erased /\ t.lost = s.lost
    /\ \A j \in 1 .. Lines :
         /\ t.lines[j].file = s.lines[j].file /\ t.lines[j].chunk = s.lines[j].chunk
         /\ j # k => /\ t.lines[j].dirty = s.lines[j].dirty
                     /\ t.lines[j].data = s.lines[j].data /\ t.lines[j].n = s.lines[j].n
    /\ t.lines[k].dirty /\ t.lines[k].data = x /\ t.lines[k].n = m

(* So the chunk of line k is seen as x, and no other differently.          *)
LEMMA LineChanged ==
    ASSUME NEW s, Sound(s), NEW f \in OpenFiles, NEW c \in ChunkNumbers, NEW k \in 1 .. Lines,
           Holds(s, k, f, c), NEW t, NEW x, NEW m, Changed(s, t, k, x, m),
           f \notin s.lost => ZeroFrom(x, m)
    PROVE  /\ Sound(t)
           /\ \A g \in OpenFiles : \A d \in ChunkNumbers :
                 Sees(t, g, d) = IF g = f /\ d = c THEN x ELSE Sees(s, g, d)
           /\ \A g \in OpenFiles \ {f} : HasDirty(t, g) => HasDirty(s, g)
  <1>1. s \in IO /\ Distinct(s)
    BY DEF Sound
  <1>2. t.lines[k].file = f /\ t.lines[k].chunk = c
    BY DEF Changed, Holds
  <1>3. \A g, d, j : Holds(t, j, g, d) <=> Holds(s, j, g, d)
    BY DEF Holds, Changed
  <1>4. Distinct(t)
    BY <1>1, <1>3 DEF Distinct
  <1>5. Clean(t)
    BY DEF Sound, Clean, Changed
  <1>6. Tails(t)
    <2>1. ASSUME NEW g \in OpenFiles \ t.lost, NEW d \in ChunkNumbers
          PROVE  ZeroFrom(t.store[g][d].data, t.store[g][d].n)
      BY DEF Sound, Tails, Changed
    <2>2. ASSUME NEW j \in 1 .. Lines, t.lines[j].file \in OpenFiles \ t.lost, t.lines[j].dirty
          PROVE  ZeroFrom(t.lines[j].data, t.lines[j].n)
      <3>1. CASE j = k
        BY <1>2, <2>2, <3>1 DEF Changed
      <3>2. CASE j # k
        BY <2>2, <3>2 DEF Sound, Tails, Changed
      <3> QED
        BY <3>1, <3>2
    <2> QED
      BY <2>1, <2>2 DEF Tails
  <1>7. ASSUME NEW g \in OpenFiles, NEW d \in ChunkNumbers
        PROVE  Sees(t, g, d) = IF g = f /\ d = c THEN x ELSE Sees(s, g, d)
    <2>1. CASE g = f /\ d = c
      <3>1. Holds(t, k, f, c)
        BY <1>3
      <3>2. Sees(t, f, c) = x
        BY <1>4, <3>1, Sight DEF Changed
      <3> QED
        BY <2>1, <3>2
    <2>2. CASE ~(g = f /\ d = c)
      <3>1. CASE \E j : Holds(s, j, g, d)
        <4>1. PICK j : Holds(s, j, g, d)
          BY <3>1
        <4>2. Holds(t, j, g, d) /\ j # k /\ j \in 1 .. Lines
          BY <1>3, <2>2, <4>1 DEF Holds
        <4>3. Sees(t, g, d) = t.lines[j].data /\ Sees(s, g, d) = s.lines[j].data
          BY <1>1, <1>4, <4>1, <4>2, Sight
        <4> QED
          BY <2>2, <4>2, <4>3 DEF Changed
      <3>2. CASE \A j : ~Holds(s, j, g, d)
        <4>1. Sees(t, g, d) = t.store[g][d].data /\ Sees(s, g, d) = s.store[g][d].data
          BY <1>1, <1>3, <1>4, <3>2, Sight
        <4> QED
          BY <2>2, <4>1 DEF Changed
      <3> QED
        BY <3>1, <3>2
    <2> QED
      BY <2>1, <2>2
  <1>8. ASSUME NEW g \in OpenFiles \ {f}, HasDirty(t, g) PROVE HasDirty(s, g)
    BY <1>2, <1>8 DEF HasDirty, Changed
  <1> QED
    BY <1>4, <1>5, <1>6, <1>7, <1>8 DEF Sound, Changed

(* A piece is written to its line.                                         *)
LEMMA WriteLineWrites ==
    ASSUME NEW s, Sound(s), NEW f \in OpenFiles, NEW p, NEW offset \in Nat, NEW n \in Nat,
           PieceOf(p, offset, n), NEW bytes \in Seq(Byte), Len(bytes) = p.len,
           NEW k \in 1 .. Lines, k = s.result, Holds(s, k, f, p.chunk), ZeroBehind(s, f, p),
           NEW t, t = WriteLine(UseChunkCache(s, TRUE), f, p, bytes)
    PROVE  Writes(s, t, f, p, bytes)
  <1> DEFINE c == p.chunk
             v == UseChunkCache(s, TRUE)
             had == Min({ChunkSize, v.size[f] - (c - 1) * ChunkSize})
             m == Max({had, p.start + p.len})
             l == [v.lines[k] EXCEPT !.data = Patch(v.lines[k].data, p.start, bytes), !.n = m]
             ls == [v.lines EXCEPT ![k] = l]
  <1>1. s \in IO /\ Distinct(s) /\ s.lines[k].data \in Data /\ Sees(s, f, c) = s.lines[k].data
    BY SoundTypes, Sight DEF PieceOf
  <1>2. Used(s, v, TRUE)
    BY <1>1, UseFields
  <1>3. /\ v \in IO /\ v.store = s.store /\ v.size = s.size /\ v.dirty = s.dirty
        /\ v.erased = s.erased /\ v.lost = s.lost /\ v.result = k
        /\ \A j \in 1 .. Lines :
             /\ v.lines[j].file = s.lines[j].file /\ v.lines[j].chunk = s.lines[j].chunk
             /\ j # k => v.lines[j].dirty = s.lines[j].dirty
             /\ v.lines[j].data = s.lines[j].data /\ v.lines[j].n = s.lines[j].n
        /\ v.lines[k].dirty
    <2>1. \A j \in 1 .. Lines : s.lines[j].dirty \in BOOLEAN
      BY <1>1 DEF IO, Line
    <2> HIDE DEF v
    <2>2. k \in 1 .. Lines /\ k = s.result
      OBVIOUS
    <2> QED
      BY ONLY <1>2, <2>1, <2>2 DEF Used
  <1>4. c \in ChunkNumbers /\ c \in Nat \ {0} /\ p.start \in Nat /\ p.len \in Nat /\ p.start + p.len \in 0 .. ChunkSize
        /\ ChunkSize \in Nat
    BY ONLY SMTT(30), CacheAssumption, PieceOf(p, offset, n) DEF PieceOf, ChunkNumbers
  <1>5. s.size[f] \in Nat /\ Base(c) \in Nat
    <2>1. s.size \in [OpenFiles -> 0 .. Top]
      BY <1>1 DEF IO
    <2>2. s.size[f] \in 0 .. Top
      BY <2>1
    <2>3. \A i \in 0 .. Top : i \in Nat
      BY Bases
    <2> QED
      BY <1>4, <2>2, <2>3, Bases
  <1>6. m \in 0 .. ChunkSize /\ m >= p.start + p.len /\ (m < ChunkSize => m >= s.size[f] - Base(c))
    <2>1. had = IF ChunkSize <= s.size[f] - Base(c) THEN ChunkSize ELSE s.size[f] - Base(c)
      <3>1. had = Min({ChunkSize, s.size[f] - Base(c)})
        BY <1>3 DEF Base
      <3>2. s.size[f] - Base(c) \in Int /\ ChunkSize \in Int
        BY <1>4, <1>5
      <3> QED
        BY <3>1, <3>2, MinOfTwo
    <2>2. had \in Int /\ had <= ChunkSize /\ (had < ChunkSize => had = s.size[f] - Base(c))
      <3> HIDE DEF had
      <3> QED
        BY <1>4, <1>5, <2>1
    <2> HIDE DEF had
    <2>3. m = IF had >= p.start + p.len THEN had ELSE p.start + p.len
      BY <1>4, <2>2, MaxOfTwo
    <2> HIDE DEF m
    <2> QED
      BY <1>4, <1>5, <2>2, <2>3
  <1>7. t = [v EXCEPT !.lines = ls, !.result = TRUE]
    BY <1>3 DEF WriteLine
  <1> DEFINE patched == Patch(s.lines[k].data, p.start, bytes)
  <1>8. patched \in Data /\ \A j \in 1 .. ChunkSize :
                 patched[j] = IF p.start < j /\ j <= p.start + p.len
                              THEN bytes[j - p.start] ELSE s.lines[k].data[j]
    <2> DEFINE old == s.lines[k].data
    <2>1. old \in Data
      BY <1>1
    <2> HIDE DEF old
    <2>2. /\ Patch(old, p.start, bytes) \in Data
          /\ \A j \in 1 .. ChunkSize :
                 Patch(old, p.start, bytes)[j] = IF p.start < j /\ j <= p.start + Len(bytes)
                                                 THEN bytes[j - p.start] ELSE old[j]
      BY <1>4, <2>1, PatchIs
    <2>3. Len(bytes) = p.len
      OBVIOUS
    <2> QED
      BY ONLY <2>2, <2>3 DEF old
  <1> HIDE DEF m, v
  <1>9. l \in Line /\ l.file = f /\ l.chunk = c /\ l.dirty /\ l.data = patched /\ l.n = m
    <2>1. v.lines[k] \in Line
      BY <1>3 DEF IO
    <2>2. v.lines[k].data = s.lines[k].data
      BY <1>3
    <2> HIDE DEF patched
    <2>3. l = [v.lines[k] EXCEPT !.data = patched, !.n = m]
      BY <2>2 DEF patched
    <2>4. v.lines[k].file = f /\ v.lines[k].chunk = c /\ v.lines[k].dirty
      BY <1>3 DEF Holds
    <2> HIDE DEF l
    <2> QED
      BY <1>6, <1>8, <2>1, <2>3, <2>4 DEF Line
  <1> HIDE DEF l, patched
  <1>10. ls \in [1 .. Lines -> Line] /\ ls[k] = l /\ \A j \in 1 .. Lines : j # k => ls[j] = v.lines[j]
    BY <1>3, <1>9 DEF IO
  <1> HIDE DEF ls
  <1>11. t \in IO /\ t.lines = ls /\ t.result = TRUE /\ t.store = s.store /\ t.size = s.size /\ t.dirty = s.dirty
         /\ t.erased = s.erased /\ t.lost = s.lost
    <2>1. PICK r \in Result : r = TRUE
      BY Results
    <2>2. t = [v EXCEPT !.lines = ls, !.result = r]
      BY <1>7, <2>1
    <2>3. t \in IO
      BY <1>3, <1>10, <2>2 DEF IO
    <2>4. t.lines = ls /\ t.result = r /\ t.store = v.store /\ t.size = v.size /\ t.dirty = v.dirty
         /\ t.erased = v.erased /\ t.lost = v.lost
      BY <1>3, <2>2 DEF IO
    <2> QED
      BY <1>3, <2>1, <2>3, <2>4
  <1>12. Changed(s, t, k, patched, m)
    <2>1. \A j \in 1 .. Lines : j # k => t.lines[j] = v.lines[j]
      BY ONLY <1>10, <1>11
    <2>2. t.lines[k] = l /\ s.lines[k].file = f /\ s.lines[k].chunk = c
      BY <1>10, <1>11 DEF Holds
    <2> QED
      BY ONLY <1>3, <1>9, <1>11, <2>1, <2>2 DEF Changed
  <1>13. f \notin t.lost => ZeroFrom(patched, m)
    <2> SUFFICES ASSUME f \notin s.lost, NEW j \in 1 .. ChunkSize, j > m
                 PROVE  patched[j] = 0
      BY <1>11 DEF ZeroFrom
    <2>1. j \in Nat /\ m \in Nat /\ m < ChunkSize /\ j > p.start + p.len /\ Base(c) + j > s.size[f]
      <3> HIDE DEF m, c
      <3>1. j \in 1 .. ChunkSize /\ j > m
        OBVIOUS
      <3> QED
        BY ONLY <1>4, <1>5, <1>6, <3>1
    <2>2. patched[j] = s.lines[k].data[j]
      BY <1>4, <1>8, <2>1
    <2>3. Sees(s, f, c)[j] = 0
      BY <2>1 DEF ZeroBehind
    <2> QED
      BY <1>1, <2>2, <2>3
  <1>14. /\ Sound(t)
         /\ \A g \in OpenFiles : \A d \in ChunkNumbers :
               Sees(t, g, d) = IF g = f /\ d = c THEN patched ELSE Sees(s, g, d)
         /\ \A g \in OpenFiles \ {f} : HasDirty(t, g) => HasDirty(s, g)
    <2>1. f \notin s.lost => ZeroFrom(patched, m)
      BY <1>11, <1>13
    <2>2. Sound(s) /\ f \in OpenFiles /\ k \in 1 .. Lines /\ Holds(s, k, f, c)
      OBVIOUS
    <2> HIDE DEF c
    <2> QED
      BY ONLY <1>4, <1>12, <2>1, <2>2, LineChanged
  <1>15. ASSUME NEW g \in OpenFiles, NEW d \in ChunkNumbers
         PROVE  Sees(t, g, d) = IF g = f /\ d = c THEN Patch(Sees(s, g, d), p.start, bytes)
                                ELSE Sees(s, g, d)
    <2>1. CASE g = f /\ d = c
      <3>1. Sees(s, g, d) = s.lines[k].data
        BY ONLY <1>1, <2>1
      <3>2. Sees(t, g, d) = patched
        BY ONLY <1>14, <2>1, g \in OpenFiles, d \in ChunkNumbers
      <3> QED
        BY ONLY <2>1, <3>1, <3>2 DEF patched
    <2>2. CASE ~(g = f /\ d = c)
      BY ONLY <1>14, <2>2, g \in OpenFiles, d \in ChunkNumbers
    <2> QED
      BY ONLY <2>1, <2>2
  <1> QED
    BY ONLY <1>11, <1>14, <1>15 DEF Writes

(* Invalidate empties lines.                                               *)
LEMMA InvalidateFields ==
    ASSUME NEW s \in IO, NEW L, NEW t, t = Invalidate(s, L)
    PROVE  /\ t \in IO
           /\ t.store = s.store /\ t.size = s.size /\ t.dirty = s.dirty
           /\ t.erased = s.erased /\ t.lost = s.lost /\ t.result = s.result
           /\ \A k \in 1 .. Lines : t.lines[k] = IF k \in L THEN [s.lines[k] EXCEPT !.file = NoFile]
                                                ELSE s.lines[k]
           /\ \A k \in L : k \in 1 .. Lines => t.lines[k].file = NoFile
  <1> DEFINE ls == [k \in 1 .. Lines |-> IF k \in L THEN [s.lines[k] EXCEPT !.file = NoFile]
                                        ELSE s.lines[k]]
  <1>1. \A k \in 1 .. Lines : s.lines[k] \in Line
    BY DEF IO
  <1>2. \A k \in 1 .. Lines : ls[k] \in Line
    BY <1>1 DEF Line
  <1>3. ls \in [1 .. Lines -> Line]
    BY <1>2
  <1>4. \A k \in L : k \in 1 .. Lines => ls[k].file = NoFile
    BY <1>1 DEF Line
  <1>5. t = [s EXCEPT !.lines = ls]
    BY DEF Invalidate
  <1> HIDE DEF ls
  <1>6. t \in IO
    BY <1>3, <1>5 DEF IO
  <1>7. t.lines = ls /\ t.store = s.store /\ t.size = s.size /\ t.dirty = s.dirty
           /\ t.erased = s.erased /\ t.lost = s.lost /\ t.result = s.result
    BY <1>5 DEF IO
  <1> QED
    BY <1>4, <1>6, <1>7 DEF ls

(* Chunk c is written, if ok, past the cache, and its line dropped.        *)
Around(s, t, f, c, x, ok) ==
    /\ t \in IO
    /\ t.size = s.size /\ t.dirty = s.dirty /\ s.lost \subseteq t.lost
    /\ \A g \in OpenFiles : \A d \in ChunkNumbers :
          t.store[g][d] = IF ok /\ g = f /\ d = c THEN [data |-> x, n |-> ChunkSize] ELSE s.store[g][d]
    /\ \A k \in 1 .. Lines : IF Holds(s, k, f, c) THEN t.lines[k].file = NoFile
                                ELSE t.lines[k] = s.lines[k]
    /\ ~ok /\ f \notin t.lost => \A k \in 1 .. Lines : Holds(s, k, f, c) => ~s.lines[k].dirty

(* Then it is seen as x if ok, and as it was if not, unless f lost data.   *)
LEMMA AroundCache ==
    ASSUME NEW s, Sound(s), NEW f \in OpenFiles, NEW c \in ChunkNumbers, NEW x \in Data,
           NEW ok \in BOOLEAN, NEW t, Around(s, t, f, c, x, ok)
    PROVE  /\ Sound(t)
           /\ \A g \in OpenFiles \ t.lost : \A d \in ChunkNumbers :
                 Sees(t, g, d) = IF ok /\ g = f /\ d = c THEN x ELSE Sees(s, g, d)
           /\ \A g \in OpenFiles : HasDirty(t, g) => HasDirty(s, g)
  <1>1. s \in IO /\ Distinct(s) /\ t \in IO
    BY DEF Sound, Around
  <1>2. \A g \in OpenFiles : \A d, j : Holds(t, j, g, d) =>
           Holds(s, j, g, d) /\ ~(g = f /\ d = c) /\ t.lines[j] = s.lines[j]
    BY CacheAssumption DEF Holds, Around
  <1>3. Distinct(t)
    BY <1>1, <1>2 DEF Distinct
  <1>4. \A j \in 1 .. Lines : t.lines[j].file # NoFile =>
           t.lines[j] = s.lines[j] /\ ~(t.lines[j].file = f /\ t.lines[j].chunk = c)
    BY DEF Around, Holds
  <1>5. Clean(t)
    <2> SUFFICES ASSUME NEW j \in 1 .. Lines, t.lines[j].file # NoFile, ~t.lines[j].dirty
                 PROVE  t.lines[j].data = t.store[t.lines[j].file][t.lines[j].chunk].data
      BY DEF Clean
    <2>1. t.lines[j] = s.lines[j] /\ ~(s.lines[j].file = f /\ s.lines[j].chunk = c)
      BY <1>4
    <2>2. s.lines[j].file \in OpenFiles /\ s.lines[j].chunk \in ChunkNumbers
      BY <1>1, <2>1 DEF IO, Line
    <2>3. s.lines[j].data = s.store[s.lines[j].file][s.lines[j].chunk].data
      BY <2>1 DEF Sound, Clean
    <2> QED
      BY SMTT(30), <2>1, <2>2, <2>3 DEF Around
  <1>6. Tails(t)
    <2>1. ASSUME NEW g \in OpenFiles \ t.lost, NEW d \in ChunkNumbers
          PROVE  ZeroFrom(t.store[g][d].data, t.store[g][d].n)
      <3>1. CASE ok /\ g = f /\ d = c
        <4>1. t.store[g][d].n = ChunkSize
          BY <3>1 DEF Around
        <4> QED
          BY <4>1, CacheAssumption DEF ZeroFrom
      <3>2. CASE ~(ok /\ g = f /\ d = c)
        <4>1. t.store[g][d] = s.store[g][d] /\ g \notin s.lost
          BY <3>2 DEF Around
        <4> QED
          BY <4>1 DEF Sound, Tails
      <3> QED
        BY <3>1, <3>2
    <2>2. ASSUME NEW j \in 1 .. Lines, t.lines[j].file \in OpenFiles \ t.lost, t.lines[j].dirty
          PROVE  ZeroFrom(t.lines[j].data, t.lines[j].n)
      <3>1. t.lines[j] = s.lines[j] /\ s.lines[j].file \notin s.lost
        BY <1>4, <2>2, CacheAssumption DEF Around
      <3> QED
        BY <2>2, <3>1 DEF Sound, Tails
    <2> QED
      BY <2>1, <2>2 DEF Tails
  <1>7. ASSUME NEW g \in OpenFiles \ t.lost, NEW d \in ChunkNumbers
        PROVE  Sees(t, g, d) = IF ok /\ g = f /\ d = c THEN x ELSE Sees(s, g, d)
    <2>1. CASE \E j : Holds(t, j, g, d)
      <3>1. PICK j : Holds(t, j, g, d)
        BY <2>1
      <3>2. Holds(s, j, g, d) /\ ~(g = f /\ d = c) /\ t.lines[j] = s.lines[j]
        BY <1>2, <3>1
      <3>3. Sees(t, g, d) = t.lines[j].data /\ Sees(s, g, d) = s.lines[j].data
        BY <1>1, <1>3, <3>1, <3>2, Sight
      <3> QED
        BY <3>2, <3>3
    <2>2. CASE \A j : ~Holds(t, j, g, d)
      <3>1. Sees(t, g, d) = t.store[g][d].data
        BY <1>3, <2>2, Sight
      <3>2. CASE g = f /\ d = c
        <4>1. CASE ok
          BY <3>1, <3>2, <4>1 DEF Around
        <4>2. CASE ~ok
          <5>1. Sees(t, g, d) = s.store[f][c].data
            BY <3>1, <3>2, <4>2 DEF Around
          <5>2. CASE \E j : Holds(s, j, f, c)
            <6>1. PICK j : Holds(s, j, f, c)
              BY <5>2
            <6>2. ~s.lines[j].dirty /\ s.lines[j].file = f /\ s.lines[j].chunk = c /\ j \in 1 .. Lines
              BY <3>2, <4>2, <6>1 DEF Around, Holds
            <6>3. s.lines[j].data = s.store[f][c].data
              BY <6>2, CacheAssumption DEF Sound, Clean
            <6>4. Sees(s, f, c) = s.lines[j].data
              BY <1>1, <6>1, Sight
            <6> QED
              BY <3>2, <4>2, <5>1, <6>3, <6>4
          <5>3. CASE \A j : ~Holds(s, j, f, c)
            <6>1. Sees(s, f, c) = s.store[f][c].data
              BY <1>1, <5>3, Sight
            <6> QED
              BY <3>2, <4>2, <5>1, <6>1
          <5> QED
            BY <5>2, <5>3
        <4> QED
          BY <4>1, <4>2
      <3>3. CASE ~(g = f /\ d = c)
        <4>1. \A j : ~Holds(s, j, g, d)
          BY <2>2, <3>3 DEF Around, Holds
        <4>2. Sees(s, g, d) = s.store[g][d].data
          BY <1>1, <4>1, Sight
        <4> QED
          BY <3>1, <3>3, <4>2 DEF Around
      <3> QED
        BY <3>2, <3>3
    <2> QED
      BY <2>1, <2>2
  <1>8. ASSUME NEW g \in OpenFiles, HasDirty(t, g) PROVE HasDirty(s, g)
    BY <1>4, <1>8, CacheAssumption DEF HasDirty
  <1> QED
    BY <1>1, <1>3, <1>5, <1>6, <1>7, <1>8 DEF Sound

(* A patch of a whole chunk is the chunk.                                  *)
LEMMA PatchAll ==
    ASSUME NEW d \in Data, NEW bytes \in Data
    PROVE  Patch(d, 0, bytes) = bytes
  <1>1. DOMAIN bytes = 1 .. ChunkSize
    BY DEF Data
  <1>2. \A k \in 1 .. ChunkSize : k - 0 = k
    OBVIOUS
  <1>3. Patch(d, 0, bytes) = [k \in 1 .. ChunkSize |-> bytes[k]]
    BY <1>1, <1>2 DEF Patch
  <1> QED
    BY <1>3 DEF Data

(* Whether a chunk may be written, and what is then.                       *)
Fits(s, reserve) == s.erased > Reserved \/ (reserve /\ s.erased > 0)

Written(s, t, f, c, x, m, reserve) ==
    /\ t \in IO /\ t.size = s.size /\ t.dirty = s.dirty
    /\ t.lost = s.lost /\ t.lines = s.lines
    /\ t.result \in BOOLEAN /\ (t.result <=> Fits(s, reserve))
    /\ \A g \in OpenFiles : \A d \in ChunkNumbers :
          t.store[g][d] = IF Fits(s, reserve) /\ g = f /\ d = c
                          THEN [data |-> x, n |-> m] ELSE s.store[g][d]

(* WriteChunk does that.                                                   *)
LEMMA WriteChunkFields ==
    ASSUME NEW s \in IO, NEW f \in OpenFiles, NEW c \in ChunkNumbers, NEW x \in Data,
           NEW m \in 0 .. ChunkSize, NEW reserve \in BOOLEAN
    PROVE  Written(s, WriteChunk(s, f, c, x, m, reserve), f, c, x, m, reserve)
  <1> DEFINE t == WriteChunk(s, f, c, x, m, reserve)
  <1>0. PICK ok \in BOOLEAN : ok <=> Fits(s, reserve)
    OBVIOUS
  <1> DEFINE new == [data |-> x, n |-> m]
             store == [s.store EXCEPT ![f][c] = new]
  <1>1. new \in Chunk
    BY DEF Chunk
  <1>2. store \in [OpenFiles -> [ChunkNumbers -> Chunk]]
    BY <1>1 DEF IO
  <1>3. \A g \in OpenFiles : \A d \in ChunkNumbers :
           store[g][d] = IF g = f /\ d = c THEN new ELSE s.store[g][d]
    BY DEF IO
  <1>4. CASE ok
    <2>1. t = [s EXCEPT !.store = store, !.result = TRUE, !.erased = s.erased - 1]
      BY <1>0, <1>4 DEF WriteChunk, Fits
    <2> HIDE DEF store, t
    <2>2. PICK r \in Result : r = TRUE
      BY Results
    <2>6. PICK er \in Nat : er = s.erased - 1
      <3>1. s.erased \in Nat /\ Reserved \in Nat
        BY CacheAssumption DEF IO
      <3>2. s.erased - 1 \in Nat
        BY <1>0, <1>4, <3>1 DEF Fits
      <3> QED
        BY <3>2
    <2>3. t = [s EXCEPT !.store = store, !.result = r, !.erased = er]
      BY <2>1, <2>2, <2>6
    <2>4. t \in IO
      BY <1>2, <2>3 DEF IO
    <2>5. /\ t.store = store /\ t.size = s.size /\ t.dirty = s.dirty
          /\ t.lost = s.lost /\ t.lines = s.lines /\ t.result = r
      BY <2>3 DEF IO
    <2> QED
      BY <1>0, <1>3, <1>4, <2>2, <2>4, <2>5 DEF Written, t
  <1>5. CASE ~ok
    <2>1. t = [s EXCEPT !.result = FALSE]
      BY <1>0, <1>5 DEF WriteChunk, Fits
    <2> HIDE DEF t
    <2>2. PICK r \in Result : r = FALSE
      BY Results
    <2>3. t = [s EXCEPT !.result = r]
      BY <2>1, <2>2
    <2>4. t \in IO
      BY <2>3 DEF IO
    <2>5. /\ t.store = s.store /\ t.size = s.size /\ t.dirty = s.dirty
          /\ t.lost = s.lost /\ t.lines = s.lines /\ t.result = r
      BY <2>3 DEF IO
    <2> QED
      BY <1>0, <1>5, <2>2, <2>4, <2>5 DEF Written, t
  <1> QED
    BY <1>4, <1>5

(* A whole chunk goes around the cache.                                    *)
LEMMA BypassAround ==
    ASSUME NEW s, Sound(s), NEW f \in OpenFiles, NEW c \in ChunkNumbers, NEW x \in Data,
           NEW t, t = Bypassed(WriteChunk(s, f, c, x, ChunkSize, FALSE), f,
                               {FindChunkCache(s, f, c)} \ {0})
    PROVE  t.result \in BOOLEAN /\ Around(s, t, f, c, x, t.result)
  <1> DEFINE w == WriteChunk(s, f, c, x, ChunkSize, FALSE)
             L == {FindChunkCache(s, f, c)} \ {0}
             i == Invalidate(w, L)
             gone == ~w.result /\ \E k \in L : w.lines[k].dirty
             lost == IF gone THEN w.lost \union {f} ELSE w.lost
  <1>1. s \in IO /\ Distinct(s)
    BY DEF Sound
  <1>2. PICK ok \in BOOLEAN : ok <=> s.erased > Reserved
    OBVIOUS
  <1>3. /\ w \in IO /\ w.size = s.size /\ w.dirty = s.dirty
        /\ w.lost = s.lost /\ w.lines = s.lines /\ w.result \in BOOLEAN /\ (w.result <=> ok)
        /\ \A g \in OpenFiles : \A d \in ChunkNumbers :
              w.store[g][d] = IF ok /\ g = f /\ d = c THEN [data |-> x, n |-> ChunkSize] ELSE s.store[g][d]
    <2>1. ChunkSize \in 0 .. ChunkSize
      BY CacheAssumption
    <2>2. Written(s, w, f, c, x, ChunkSize, FALSE)
      BY <1>1, <2>1, WriteChunkFields
    <2>3. ok <=> Fits(s, FALSE)
      BY <1>2 DEF Fits
    <2> HIDE DEF w
    <2> QED
      BY <2>2, <2>3 DEF Written
  <1>4. \A k \in 1 .. Lines : k \in L <=> Holds(s, k, f, c)
    <2>1. ASSUME NEW k \in 1 .. Lines, Holds(s, k, f, c) PROVE k \in L
      BY <1>1, <2>1, Sight
    <2>2. ASSUME NEW k \in 1 .. Lines, k \in L PROVE Holds(s, k, f, c)
      BY <2>2, Find
    <2> QED
      BY <2>1, <2>2
  <1>5. t = [i EXCEPT !.lost = lost]
    <2>1. i.lost = w.lost
      <3> HIDE DEF w, L
      <3> QED
        BY <1>3, InvalidateFields
    <2>2. t = [i EXCEPT !.lost = IF gone THEN i.lost \union {f} ELSE i.lost]
      BY DEF Bypassed
    <2> HIDE DEF w, i, gone
    <2> QED
      BY <2>1, <2>2
  <1> HIDE DEF w, L
  <1>6. /\ i \in IO
        /\ i.store = w.store /\ i.size = w.size /\ i.dirty = w.dirty
        /\ i.erased = w.erased /\ i.lost = w.lost /\ i.result = w.result
        /\ \A k \in 1 .. Lines : i.lines[k] = IF k \in L THEN [w.lines[k] EXCEPT !.file = NoFile]
                                              ELSE w.lines[k]
        /\ \A k \in L : k \in 1 .. Lines => i.lines[k].file = NoFile
    BY <1>3, InvalidateFields
  <1> HIDE DEF i
  <1>7. lost \in SUBSET OpenFiles /\ s.lost \subseteq lost
    BY <1>3 DEF IO
  <1>8. ~ok /\ f \notin lost => \A k \in 1 .. Lines : Holds(s, k, f, c) => ~s.lines[k].dirty
    BY <1>3, <1>4
  <1> HIDE DEF lost
  <1>9. /\ t \in IO /\ t.lost = lost
        /\ t.store = i.store /\ t.size = i.size /\ t.dirty = i.dirty
        /\ t.erased = i.erased /\ t.lines = i.lines /\ t.result = i.result
    BY <1>5, <1>6, <1>7 DEF IO
  <1>10. \A k \in 1 .. Lines : IF Holds(s, k, f, c) THEN t.lines[k].file = NoFile
                                ELSE t.lines[k] = s.lines[k]
    BY <1>3, <1>4, <1>6, <1>9
  <1>11. t.result \in BOOLEAN /\ (t.result <=> ok)
    BY <1>3, <1>6, <1>9
  <1> QED
    <2>1. Around(s, t, f, c, x, ok)
      <3>1. t \in IO /\ t.size = s.size /\ t.dirty = s.dirty /\ s.lost \subseteq t.lost
        BY ONLY <1>3, <1>6, <1>7, <1>9
      <3>2. t.store = w.store
        BY ONLY <1>6, <1>9
      <3>3. \A g \in OpenFiles : \A d \in ChunkNumbers :
               t.store[g][d] = IF ok /\ g = f /\ d = c THEN [data |-> x, n |-> ChunkSize] ELSE s.store[g][d]
        BY ONLY <1>3, <3>2
      <3>4. ~ok /\ f \notin t.lost => \A k \in 1 .. Lines : Holds(s, k, f, c) => ~s.lines[k].dirty
        BY ONLY <1>8, <1>9
      <3> QED
        BY ONLY <1>10, <3>1, <3>3, <3>4 DEF Around
    <2>2. t.result = ok
      BY <1>11
    <2> QED
      BY ONLY <1>11, <2>1, <2>2

(* A piece is written or refused, in the cache or around it; if refused,   *)
(* nothing is seen of it.                                                  *)
LEMMA WritePieceWrites ==
    ASSUME NEW s, Sound(s), NEW f \in OpenFiles, NEW p, NEW offset \in Nat, NEW n \in Nat,
           PieceOf(p, offset, n), NEW bytes \in Seq(Byte), Len(bytes) = p.len,
           ZeroBehind(s, f, p),
           NEW t, t = WritePiece(s, f, p, bytes)
    PROVE  Writes(s, t, f, p, bytes)
  <1> DEFINE c == p.chunk
             hit == FindChunkCache(s, f, c)
  <1>1. c \in ChunkNumbers /\ p.start \in Nat /\ p.len \in Nat /\ p.start + p.len <= ChunkSize
        /\ ChunkSize \in Nat
    BY CacheAssumption DEF PieceOf
  <1>2. CASE p.len = ChunkSize
    <2>1. t = Bypassed(WriteChunk(s, f, c, bytes, ChunkSize, FALSE), f, {hit} \ {0})
      BY <1>2 DEF WritePiece
    <2>2. bytes \in Data
      <3>1. bytes \in [1 .. Len(bytes) -> Byte]
        OBVIOUS
      <3> QED
        BY <1>2, <3>1 DEF Data
    <2>3. t.result \in BOOLEAN /\ Around(s, t, f, c, bytes, t.result)
      BY <1>1, <2>1, <2>2, BypassAround
    <2>4. /\ Sound(t)
          /\ \A g \in OpenFiles \ t.lost : \A d \in ChunkNumbers :
                Sees(t, g, d) = IF t.result /\ g = f /\ d = c THEN bytes ELSE Sees(s, g, d)
          /\ \A g \in OpenFiles : HasDirty(t, g) => HasDirty(s, g)
      BY <1>1, <2>2, <2>3, AroundCache
    <2>5. p.start = 0
      BY <1>1, <1>2
    <2>6. \A g \in OpenFiles : \A d \in ChunkNumbers : Patch(Sees(s, g, d), p.start, bytes) = bytes
      BY <2>2, <2>5, PatchAll, SoundTypes
    <2>7. \A g \in OpenFiles \ t.lost : \A d \in ChunkNumbers :
                Sees(t, g, d) = IF t.result /\ g = f /\ d = c
                                THEN Patch(Sees(s, g, d), p.start, bytes) ELSE Sees(s, g, d)
      BY <2>4, <2>6
    <2> QED
      BY ONLY <2>3, <2>4, <2>7 DEF Writes, Around
  <1>3. CASE p.len # ChunkSize /\ hit = 0 /\ s.erased < Reserved
    <2>1. t = [s EXCEPT !.result = FALSE]
      BY <1>3 DEF WritePiece
    <2>2. PICK r \in Result : r = FALSE
      BY Results
    <2>3. t = [s EXCEPT !.result = r]
      BY <2>1, <2>2
    <2>4. Keeps(s, t) /\ t.result = r
      BY <2>3, NewResult
    <2> QED
      BY ONLY <2>2, <2>4 DEF Writes, Keeps
  <1>4. CASE p.len # ChunkSize /\ ~(hit = 0 /\ s.erased < Reserved)
    <2> DEFINE u == InCache(s, f, c)
               k == u.result
    <2>1. t = WriteLine(UseChunkCache(u, TRUE), f, p, bytes)
      BY <1>4 DEF WritePiece
    <2>2. Keeps(s, u) /\ k \in 1 .. Lines /\ Holds(u, k, f, c)
      BY <1>1, InCacheKeeps
    <2> HIDE DEF u
    <2>3. Sound(u) /\ ZeroBehind(u, f, p)
      BY <1>1, <2>2 DEF Keeps, ZeroBehind
    <2>4. Writes(u, t, f, p, bytes)
      BY <2>1, <2>2, <2>3, WriteLineWrites
    <2> QED
      BY <2>2, <2>4, KeepsThenWrites
  <1> QED
    BY <1>2, <1>3, <1>4

-----------------------------------------------------------------------------
(* From s to t the first done bytes were written at offset.                *)
Took(s, t, f, offset, done, bytes) ==
    /\ Sound(t)
    /\ t.size = s.size /\ t.dirty = s.dirty /\ s.lost \subseteq t.lost
    /\ \A g \in OpenFiles \ t.lost : \A d \in ChunkNumbers : \A j \in 1 .. ChunkSize :
          Sees(t, g, d)[j] = IF g = f /\ Base(d) + j > offset /\ Base(d) + j <= offset + done
                             THEN bytes[(Base(d) + j) - offset] ELSE Sees(s, g, d)[j]
    /\ \A g \in OpenFiles \ {f} : HasDirty(t, g) => HasDirty(s, g)

(* None at first.                                                          *)
LEMMA TookNone ==
    ASSUME NEW s, Sound(s), NEW f, NEW offset \in Nat, NEW bytes
    PROVE  Took(s, s, f, offset, 0, bytes)
  <1>1. \A d \in ChunkNumbers : \A j \in 1 .. ChunkSize :
           ~(Base(d) + j > offset /\ Base(d) + j <= offset + 0)
    <2> SUFFICES ASSUME NEW d \in ChunkNumbers, NEW j \in 1 .. ChunkSize
                 PROVE  ~(Base(d) + j > offset /\ Base(d) + j <= offset + 0)
      OBVIOUS
    <2>1. d \in Nat \ {0}
      BY CacheAssumption DEF ChunkNumbers
    <2>2. Base(d) \in Nat
      BY <2>1, Bases
    <2> QED
      BY <2>2
  <1> QED
    BY <1>1 DEF Took

(* Where the byte of a chunk is told to be in a piece, it is this chunk's. *)
LEMMA PieceSpan ==
    ASSUME NEW p, NEW offset \in Nat, NEW n \in Nat, PieceOf(p, offset, n),
           NEW d \in ChunkNumbers, NEW j \in 1 .. ChunkSize
    PROVE  /\ Base(d) \in Nat /\ p.from \in Nat /\ p.len \in Nat /\ p.start \in Nat
           /\ (Base(d) + j > p.from /\ Base(d) + j <= p.from + p.len)
                 <=> (d = p.chunk /\ p.start < j /\ j <= p.start + p.len)
           /\ d = p.chunk => Base(d) + j - p.from = j - p.start
  <1> DEFINE c == p.chunk
  <1>1. /\ c \in Nat \ {0} /\ d \in Nat \ {0} /\ ChunkSize \in Nat /\ j \in Nat
        /\ p.start \in Nat /\ p.len \in Nat /\ p.start + p.len <= ChunkSize
        /\ p.from = Base(c) + p.start
    BY CacheAssumption DEF PieceOf, ChunkNumbers
  <1>2. Base(c) \in Nat /\ Base(d) \in Nat
    BY <1>1, Bases
  <1>3. d < c => Base(d) + ChunkSize <= Base(c)
    BY <1>1, Bases
  <1>4. c < d => Base(c) + ChunkSize <= Base(d)
    BY <1>1, Bases
  <1>5. j <= ChunkSize
    OBVIOUS
  <1> HIDE DEF c
  <1>6. d < c \/ d = c \/ c < d
    BY <1>1
  <1> QED
    BY ONLY <1>1, <1>2, <1>3, <1>4, <1>5, <1>6 DEF c

(* A byte of patched data.                                                 *)
LEMMA PatchAt ==
    ASSUME NEW d \in Data, NEW start \in Nat, NEW part \in Seq(Byte), NEW len, Len(part) = len,
           NEW j \in 1 .. ChunkSize, NEW new, new = Patch(d, start, part)
    PROVE  new[j] = IF start < j /\ j <= start + len THEN part[j - start] ELSE d[j]
  <1>1. Patch(d, start, part)[j] = IF start < j /\ j <= start + Len(part) THEN part[j - start] ELSE d[j]
    BY PatchIs, Zenon
  <1> QED
    BY ONLY <1>1, Len(part) = len, new = Patch(d, start, part)

(* A byte of a written piece.                                              *)
LEMMA ByteTaken ==
    ASSUME NEW at \in Nat, NEW offset \in Nat, NEW done \in Nat, NEW len \in Nat,
           NEW ok \in BOOLEAN, NEW same \in BOOLEAN, NEW b, NEW x, NEW y, NEW z, NEW more,
           more = IF ok THEN done + len ELSE done,
           y = IF same /\ at > offset /\ at <= offset + done THEN b ELSE z,
           x = IF ok /\ same /\ at > offset + done /\ at <= offset + done + len THEN b ELSE y
    PROVE  x = IF same /\ at > offset /\ at <= offset + more THEN b ELSE z
  <1>1. CASE ok /\ same /\ at > offset + done /\ at <= offset + done + len
    <2>1. at > offset /\ at <= offset + more
      BY <1>1
    <2> QED
      BY <1>1, <2>1
  <1>2. CASE ~(ok /\ same /\ at > offset + done /\ at <= offset + done + len)
    <2>1. same => (at <= offset + more /\ at > offset <=> at <= offset + done /\ at > offset)
      BY <1>2
    <2> QED
      BY <1>2, <2>1
  <1> QED
    BY <1>1, <1>2

(* part is what bytes have behind done; a byte of p is a byte of all.      *)
Slice(part, bytes, done, len) == \A i \in 1 .. len : part[i] = bytes[done + i]

Within(at, d, j, p, offset, done, part, bytes) ==
    /\ at \in Nat /\ p.len \in Nat
    /\ (at > offset + done /\ at <= offset + done + p.len)
          <=> (d = p.chunk /\ p.start < j /\ j <= p.start + p.len)
    /\ d = p.chunk /\ p.start < j /\ j <= p.start + p.len => part[j - p.start] = bytes[at - offset]

(* What is within the piece that follows done bytes.                       *)
LEMMA PieceTaken ==
    ASSUME NEW p, NEW offset \in Nat, NEW n \in Nat, PieceOf(p, offset, n), NEW done \in Nat,
           p.from = offset + done, NEW part, NEW bytes,
           Slice(part, bytes, done, p.len),
           NEW d \in ChunkNumbers, NEW j \in 1 .. ChunkSize, NEW at, at = Base(d) + j
    PROVE  Within(at, d, j, p, offset, done, part, bytes)
  <1>1. /\ Base(d) \in Nat /\ p.from \in Nat /\ p.len \in Nat /\ p.start \in Nat
        /\ (at > p.from /\ at <= p.from + p.len)
               <=> (d = p.chunk /\ p.start < j /\ j <= p.start + p.len)
        /\ d = p.chunk => at - p.from = j - p.start
    BY PieceSpan
  <1>2. at \in Nat
    BY <1>1
  <1>3. ASSUME d = p.chunk, p.start < j, j <= p.start + p.len
        PROVE  part[j - p.start] = bytes[at - offset]
    <2>1. j - p.start \in 1 .. p.len /\ done + (j - p.start) = at - offset
      BY <1>1, <1>2, <1>3
    <2> QED
      BY <2>1 DEF Slice
  <1> QED
    BY <1>1, <1>2, <1>3 DEF Within

(* A piece more.                                                           *)
LEMMA TookMore ==
    ASSUME NEW s, NEW u, NEW t, NEW f \in OpenFiles, NEW offset \in Nat, NEW n \in Nat, NEW done \in Nat,
           NEW bytes, Took(s, u, f, offset, done, bytes),
           NEW p, PieceOf(p, offset, n), p.from = offset + done,
           NEW part, part \in Seq(Byte), Len(part) = p.len,
           Slice(part, bytes, done, p.len),
           Writes(u, t, f, p, part)
    PROVE  Took(s, t, f, offset, IF t.result THEN done + p.len ELSE done, bytes)
  <1> DEFINE more == IF t.result THEN done + p.len ELSE done
  <1>1. ASSUME NEW g \in OpenFiles \ t.lost, NEW d \in ChunkNumbers, NEW j \in 1 .. ChunkSize
        PROVE  Sees(t, g, d)[j] = IF g = f /\ Base(d) + j > offset /\ Base(d) + j <= offset + more
                                  THEN bytes[(Base(d) + j) - offset] ELSE Sees(s, g, d)[j]
    <2> DEFINE at == Base(d) + j
               x == Sees(t, g, d)
               y == Sees(u, g, d)
               z == Sees(s, g, d)
               b == bytes[at - offset]
    <2>1. /\ at \in Nat /\ p.len \in Nat
          /\ (at > offset + done /\ at <= offset + done + p.len)
                <=> (d = p.chunk /\ p.start < j /\ j <= p.start + p.len)
          /\ d = p.chunk /\ p.start < j /\ j <= p.start + p.len => part[j - p.start] = b
      <3> HIDE DEF at
      <3>1. at = Base(d) + j
        BY DEF at
      <3>2. Within(at, d, j, p, offset, done, part, bytes)
        BY ONLY <3>1, PieceOf(p, offset, n), p.from = offset + done, Slice(part, bytes, done, p.len),
                offset \in Nat, n \in Nat, done \in Nat, d \in ChunkNumbers, j \in 1 .. ChunkSize, PieceTaken
      <3> QED
        BY ONLY <3>2 DEF Within
    <2>2. y[j] = IF g = f /\ at > offset /\ at <= offset + done THEN b ELSE z[j]
      <3>1. g \in OpenFiles \ u.lost
        BY DEF Writes
      <3> QED
        BY ONLY <3>1, Took(s, u, f, offset, done, bytes), d \in ChunkNumbers, j \in 1 .. ChunkSize DEF Took
    <2>3. t.result \in BOOLEAN /\ x = IF t.result /\ g = f /\ d = p.chunk
                                      THEN Patch(y, p.start, part) ELSE y
      BY DEF Writes
    <2>4. y \in Data
      BY SoundTypes DEF Took, Writes
    <2> HIDE DEF at, x, y, z, b
    <2>5. Patch(y, p.start, part)[j]
             = IF p.start < j /\ j <= p.start + p.len THEN part[j - p.start] ELSE y[j]
      <3>1. p.start \in Nat
        BY CacheAssumption DEF PieceOf
      <3> QED
        BY <2>4, <3>1, PatchAt
    <2>6. x[j] = IF t.result /\ g = f /\ at > offset + done /\ at <= offset + done + p.len
                 THEN b ELSE y[j]
      BY ONLY <2>1, <2>3, <2>5
    <2>7. (g = f) \in BOOLEAN
      OBVIOUS
    <2>8. x[j] = IF g = f /\ at > offset /\ at <= offset + more THEN b ELSE z[j]
      BY <2>1, <2>2, <2>3, <2>6, <2>7, ByteTaken
    <2> QED
      BY <2>8 DEF x, z, b, at
  <1>2. \A g \in OpenFiles \ {f} : HasDirty(t, g) => HasDirty(s, g)
    BY DEF Took, Writes
  <1>3. Sound(t) /\ t.size = s.size /\ t.dirty = s.dirty /\ s.lost \subseteq t.lost
    BY DEF Took, Writes
  <1> HIDE DEF more
  <1>4. Took(s, t, f, offset, more, bytes)
    BY ONLY <1>1, <1>2, <1>3 DEF Took
  <1> QED
    BY <1>4 DEF more

(* The bytes of a piece.                                                   *)
PartOf(bytes, p, offset) == SubSeq(bytes, p.from - offset + 1, p.from - offset + p.len)

(* WriteDataToFile is a recursion over the pieces.                         *)
LEMMA WriteSteps ==
    ASSUME NEW s, NEW f, NEW offset, NEW bytes, NEW P, P = Pieces(offset, Len(bytes)), Len(P) \in Nat
    PROVE  \E h : /\ \A k \in 0 .. Len(P) :
                       h[k] = IF k = 0 THEN [io |-> s, failed |-> FALSE, done |-> 0]
                              ELSE WriteNext(h[k - 1], f, P[k], PartOf(bytes, P[k], offset))
                  /\ WriteDataToFile(s, f, offset, bytes) = EndWrite(h[Len(P)], f, offset)
  <1> DEFINE first == [io |-> s, failed |-> FALSE, done |-> 0]
             Next(h, k) == WriteNext(h, f, P[k], PartOf(bytes, P[k], offset))
             Is(h, m) == h = [k \in 0 .. m |-> IF k = 0 THEN first ELSE Next(h[k - 1], k)]
             T == {m \in 0 .. Len(P) : \E h : Is(h, m)}
  <1>1. 0 \in T
    <2> DEFINE h == [k \in 0 .. 0 |-> first]
    <2>1. Is(h, 0)
      OBVIOUS
    <2>2. 0 \in 0 .. Len(P)
      OBVIOUS
    <2> HIDE DEF Is, h
    <2> QED
      BY <2>1, <2>2
  <1>2. ASSUME NEW m \in 0 .. Len(P) - 1, m \in T
        PROVE  m + 1 \in T
    <2>1. PICK h : Is(h, m)
      BY <1>2
    <2> HIDE DEF first, Next
    <2> DEFINE g == [k \in 0 .. m + 1 |-> IF k = m + 1 THEN Next(h[m], m + 1) ELSE h[k]]
    <2>2. \A k \in 0 .. m : h[k] = IF k = 0 THEN first ELSE Next(h[k - 1], k)
      BY <2>1
    <2> HIDE DEF Is
    <2>3. m \in Nat /\ m + 1 \in 0 .. Len(P) /\ m + 1 # 0
      OBVIOUS
    <2>4. g[m] = h[m] /\ g[m + 1] = Next(h[m], m + 1) /\ (m + 1) - 1 = m
      BY <2>3
    <2>5. \A k \in 0 .. m : g[k] = h[k] /\ (k # 0 => k - 1 \in 0 .. m)
      BY <2>3
    <2>6. \A k \in 0 .. m + 1 : k = m + 1 \/ k \in 0 .. m
      BY <2>3
    <2> HIDE DEF g
    <2>7. \A k \in 0 .. m + 1 : g[k] = IF k = 0 THEN first ELSE Next(g[k - 1], k)
      BY <2>2, <2>3, <2>4, <2>5, <2>6
    <2>8. Is(g, m + 1)
      BY <2>7 DEF Is, g
    <2> QED
      BY <2>3, <2>8
  <1>3. \A m \in 0 .. Len(P) : m \in T
    <2> HIDE DEF T
    <2> QED
      BY <1>1, <1>2, Upwards
  <1>4. \E h : Is(h, Len(P))
    BY <1>3
  <1> DEFINE h == CHOOSE h : Is(h, Len(P))
  <1>5. Is(h, Len(P))
    BY <1>4
  <1>6. WriteDataToFile(s, f, offset, bytes) = EndWrite(h[Len(P)], f, offset)
    BY DEF WriteDataToFile, PartOf
  <1> HIDE DEF h
  <1>7. \A k \in 0 .. Len(P) : h[k] = IF k = 0 THEN first ELSE Next(h[k - 1], k)
    BY <1>5
  <1> QED
    BY <1>6, <1>7

(* A subsequence, and so the bytes of a piece, are what they are told to   *)
(* be.                                                                     *)
LEMMA SubSeqIs ==
    ASSUME NEW S, NEW q \in Seq(S), NEW a \in Nat, NEW b \in Nat, a + b <= Len(q)
    PROVE  /\ SubSeq(q, a + 1, a + b) \in Seq(S) /\ Len(SubSeq(q, a + 1, a + b)) = b
           /\ \A i \in 1 .. b : SubSeq(q, a + 1, a + b)[i] = q[a + i]
  OBVIOUS

LEMMA PartIs ==
    ASSUME NEW bytes, bytes \in Seq(Byte), NEW p, NEW offset \in Nat, PieceOf(p, offset, Len(bytes)),
           NEW done \in Nat, p.from = offset + done
    PROVE  /\ PartOf(bytes, p, offset) \in Seq(Byte) /\ Len(PartOf(bytes, p, offset)) = p.len
           /\ Slice(PartOf(bytes, p, offset), bytes, done, p.len)
  <1>1. p.len \in Nat /\ done + p.len <= Len(bytes) /\ p.from - offset = done
    <2>1. Len(bytes) \in Nat
      OBVIOUS
    <2>2. /\ p.start \in Nat /\ p.len \in 1 .. ChunkSize - p.start /\ ChunkSize \in Nat
          /\ p.from + p.len <= offset + Len(bytes)
      BY ONLY CacheAssumption, PieceOf(p, offset, Len(bytes)) DEF PieceOf
    <2>3. p.len \in Nat
      BY ONLY <2>2
    <2> QED
      BY ONLY <2>1, <2>2, <2>3, offset \in Nat, done \in Nat, p.from = offset + done
  <1>2. /\ SubSeq(bytes, done + 1, done + p.len) \in Seq(Byte)
        /\ Len(SubSeq(bytes, done + 1, done + p.len)) = p.len
        /\ \A i \in 1 .. p.len : SubSeq(bytes, done + 1, done + p.len)[i] = bytes[done + i]
    BY ONLY SMTT(30), <1>1, bytes \in Seq(Byte), SubSeqIs
  <1>3. PartOf(bytes, p, offset) = SubSeq(bytes, done + 1, done + p.len)
    BY ONLY <1>1, offset \in Nat, done \in Nat, p.from = offset + done DEF PartOf
  <1> QED
    BY ONLY <1>2, <1>3 DEF Slice

(* Nothing is seen behind the end of a file.                               *)
ZeroPast(s, f) ==
    f \notin s.lost =>
       \A c \in ChunkNumbers : \A j \in 1 .. ChunkSize : Base(c) + j > s.size[f] => Sees(s, f, c)[j] = 0

(* After some pieces there are still zeros behind the end, in the chunk of *)
(* the next one.                                                           *)
LEMMA ZeroBehindNext ==
    ASSUME NEW s, NEW u, NEW f \in OpenFiles, ZeroPast(s, f), NEW offset \in Nat, NEW done \in Nat, NEW bytes,
           Took(s, u, f, offset, done, bytes), NEW p, NEW n \in Nat, PieceOf(p, offset, n),
           p.from = offset + done
    PROVE  ZeroBehind(u, f, p)
  <1> SUFFICES ASSUME f \notin u.lost, NEW j \in 1 .. ChunkSize, j > p.start + p.len,
                      Base(p.chunk) + j > u.size[f]
               PROVE  Sees(u, f, p.chunk)[j] = 0
    BY DEF ZeroBehind
  <1> DEFINE c == p.chunk
  <1>1. f \in OpenFiles \ u.lost /\ c \in ChunkNumbers /\ j \in 1 .. ChunkSize
    BY DEF PieceOf
  <1>2. Base(c) \in Nat /\ p.from \in Nat /\ p.len \in Nat /\ p.start \in Nat /\ p.from = Base(c) + p.start
    BY <1>1, PieceSpan DEF PieceOf
  <1>3. ~(Base(c) + j <= offset + done)
    BY <1>2
  <1>4. Sees(u, f, c)[j] = Sees(s, f, c)[j]
    BY ONLY <1>1, <1>3, Took(s, u, f, offset, done, bytes) DEF Took
  <1>5. u.size = s.size /\ f \notin s.lost
    BY <1>1 DEF Took
  <1> QED
    BY <1>1, <1>4, <1>5 DEF ZeroPast

(* The same chunks and lines, so the same is seen.                         *)
SameCache(s, t) == t \in IO /\ t.store = s.store /\ t.lines = s.lines /\ t.lost = s.lost

LEMMA SameCacheSeen ==
    ASSUME NEW s, Sound(s), NEW t, SameCache(s, t)
    PROVE  /\ Sound(t)
           /\ \A f, c : Sees(t, f, c) = Sees(s, f, c)
           /\ \A f : HasDirty(t, f) <=> HasDirty(s, f)
  <1>1. \A f, c : FindChunkCache(t, f, c) = FindChunkCache(s, f, c)
    BY DEF SameCache, FindChunkCache, LinesOf
  <1>2. \A f, c : Sees(t, f, c) = Sees(s, f, c)
    BY <1>1 DEF SameCache, Sees
  <1>3. Distinct(t)
    BY DEF Sound, Distinct, Holds, SameCache
  <1>4. Clean(t)
    BY DEF Sound, Clean, SameCache
  <1>5. Tails(t)
    BY DEF Sound, Tails, SameCache
  <1>6. \A f : HasDirty(t, f) <=> HasDirty(s, f)
    BY DEF HasDirty, SameCache
  <1> QED
    BY <1>2, <1>3, <1>4, <1>5, <1>6 DEF Sound, SameCache

(* Where a write is: x.done bytes taken, up to place at unless refused.    *)
Writing(x, s, f, offset, bytes, at) ==
    /\ Took(s, x.io, f, offset, x.done, bytes)
    /\ x.failed \in BOOLEAN /\ x.done \in 0 .. Len(bytes)
    /\ ~x.failed => at = offset + x.done

(* One piece more, unless one was refused.                                 *)
LEMMA WriteNextTakes ==
    ASSUME NEW s, NEW f \in OpenFiles, ZeroPast(s, f), NEW offset \in Nat,
           NEW bytes, bytes \in Seq(Byte), NEW x, NEW p, PieceOf(p, offset, Len(bytes)),
           Writing(x, s, f, offset, bytes, p.from),
           NEW y, y = WriteNext(x, f, p, PartOf(bytes, p, offset))
    PROVE  Writing(y, s, f, offset, bytes, p.from + p.len)
  <1>1. CASE x.failed
    <2>1. y = x
      BY <1>1 DEF WriteNext
    <2> QED
      BY ONLY <1>1, <2>1, Writing(x, s, f, offset, bytes, p.from) DEF Writing
  <1>2. CASE ~x.failed
    <2> DEFINE part == PartOf(bytes, p, offset)
               t == WritePiece(x.io, f, p, part)
               done == x.done
               n == Len(bytes)
    <2>1. Took(s, x.io, f, offset, done, bytes) /\ done \in 0 .. n /\ p.from = offset + done
      BY ONLY <1>2, Writing(x, s, f, offset, bytes, p.from) DEF Writing
    <2>2. n \in Nat
      BY ONLY bytes \in Seq(Byte)
    <2>3. y = [io |-> t, failed |-> ~t.result, done |-> IF t.result THEN done + p.len ELSE done]
      BY ONLY <1>2, y = WriteNext(x, f, p, PartOf(bytes, p, offset)) DEF WriteNext, PieceDone
    <2> HIDE DEF n
    <2>4. done \in Nat /\ PieceOf(p, offset, n)
      BY ONLY <2>1, <2>2, PieceOf(p, offset, Len(bytes)) DEF n
    <2>5. part \in Seq(Byte) /\ Len(part) = p.len /\ Slice(part, bytes, done, p.len)
      BY ONLY <2>1, <2>4, bytes \in Seq(Byte), offset \in Nat, PartIs DEF n
    <2> HIDE DEF part, done
    <2>6. ZeroBehind(x.io, f, p)
      BY ONLY <2>1, <2>2, <2>4, f \in OpenFiles, offset \in Nat, ZeroPast(s, f), ZeroBehindNext
    <2>7. Sound(x.io)
      BY ONLY <2>1 DEF Took
    <2>8. Writes(x.io, t, f, p, part)
      BY ONLY <2>2, <2>4, <2>5, <2>6, <2>7, f \in OpenFiles, offset \in Nat, WritePieceWrites
    <2> HIDE DEF t
    <2>9. Took(s, t, f, offset, IF t.result THEN done + p.len ELSE done, bytes)
      BY ONLY <2>1, <2>2, <2>4, <2>5, <2>8, f \in OpenFiles, offset \in Nat, TookMore
    <2>10. t.result \in BOOLEAN
      BY ONLY <2>8 DEF Writes
    <2>11. p.len \in Nat /\ done + p.len <= n
      <3>1. /\ p.start \in Nat /\ p.len \in 1 .. ChunkSize - p.start /\ ChunkSize \in Nat
            /\ p.from + p.len <= offset + n
        BY ONLY <2>4, CacheAssumption DEF PieceOf
      <3>2. p.len \in Nat
        BY ONLY <3>1
      <3> QED
        BY ONLY <2>1, <2>2, <2>4, <3>1, <3>2, offset \in Nat
    <2>12. CASE t.result
      <3>1. y.io = t /\ y.failed = FALSE /\ y.done = done + p.len
        BY ONLY <2>3, <2>10, <2>12
      <3>2. p.from + p.len = offset + (done + p.len) /\ done + p.len \in 0 .. n
        BY ONLY <2>1, <2>2, <2>4, <2>11, offset \in Nat
      <3>3. Took(s, t, f, offset, done + p.len, bytes)
        BY ONLY <2>9, <2>12
      <3> QED
        BY ONLY <3>1, <3>2, <3>3 DEF Writing, n
    <2>13. CASE ~t.result
      <3>1. y.io = t /\ y.failed = TRUE /\ y.done = done
        BY ONLY <2>3, <2>10, <2>13
      <3>2. Took(s, t, f, offset, done, bytes)
        BY ONLY <2>9, <2>13
      <3> QED
        BY ONLY <2>1, <3>1, <3>2 DEF Writing, n
    <2> QED
      BY ONLY <2>10, <2>12, <2>13
  <1>3. x.failed \in BOOLEAN
    BY ONLY Writing(x, s, f, offset, bytes, p.from) DEF Writing
  <1> QED
    BY ONLY <1>1, <1>2, <1>3

(* All of them.                                                            *)
LEMMA WriteTakes ==
    ASSUME NEW s, Sound(s), NEW f \in OpenFiles, ZeroPast(s, f), NEW offset \in Nat,
           NEW bytes, bytes \in Seq(Byte), offset + Len(bytes) <= Top,
           NEW t, t = WriteDataToFile(s, f, offset, bytes)
    PROVE  \E x : t = EndWrite(x, f, offset) /\ Took(s, x.io, f, offset, x.done, bytes)
                  /\ x.done \in 0 .. Len(bytes)
  <1> DEFINE n == Len(bytes)
             P == Pieces(offset, n)
             end(k) == IF k = 0 THEN offset ELSE P[k].from + P[k].len
  <1>1. n \in Nat
    BY ONLY bytes \in Seq(Byte)
  <1>2. InPieces(P, offset, n)
    BY ONLY <1>1, offset \in Nat, offset + Len(bytes) <= Top, PiecesAre
  <1>3. Len(P) \in Nat
    BY ONLY <1>2 DEF InPieces
  <1>4. PICK h : /\ \A k \in 0 .. Len(P) :
                       h[k] = IF k = 0 THEN [io |-> s, failed |-> FALSE, done |-> 0]
                              ELSE WriteNext(h[k - 1], f, P[k], PartOf(bytes, P[k], offset))
                 /\ t = EndWrite(h[Len(P)], f, offset)
    BY ONLY <1>3, t = WriteDataToFile(s, f, offset, bytes), WriteSteps
  <1> HIDE DEF P
  <1> DEFINE R(k) == Writing(h[k], s, f, offset, bytes, end(k))
             T == {k \in 0 .. Len(P) : R(k)}
  <1>5. 0 \in T
    <2>1. 0 \in 0 .. Len(P)
      BY ONLY <1>3
    <2>2. h[0] = [io |-> s, failed |-> FALSE, done |-> 0]
      BY ONLY <1>4, <2>1
    <2>3. Took(s, s, f, offset, 0, bytes)
      BY ONLY Sound(s), offset \in Nat, TookNone
    <2>4. 0 \in 0 .. n /\ offset = offset + 0
      BY ONLY <1>1, offset \in Nat
    <2>5. R(0)
      BY ONLY <2>2, <2>3, <2>4 DEF Writing
    <2> QED
      BY ONLY <2>1, <2>5
  <1>6. ASSUME NEW k \in 0 .. Len(P) - 1, k \in T
        PROVE  k + 1 \in T
    <2>1. k + 1 \in 1 .. Len(P) /\ k + 1 \in 0 .. Len(P) /\ k + 1 # 0 /\ (k + 1) - 1 = k
      BY ONLY <1>3, k \in 0 .. Len(P) - 1
    <2> DEFINE p == P[k + 1]
    <2>2. h[k + 1] = WriteNext(h[k], f, p, PartOf(bytes, p, offset))
      BY ONLY <1>4, <2>1
    <2>3. PieceOf(p, offset, n) /\ p.from = end(k)
      <3>1. PieceOf(p, offset, n)
        BY ONLY <1>2, <2>1 DEF InPieces
      <3>2. CASE k = 0
        <4>1. p = P[1] /\ Len(P) # 0
          BY ONLY <2>1, <3>2
        <4> QED
          BY ONLY <1>2, <3>1, <3>2, <4>1 DEF InPieces
      <3>3. CASE k # 0
        <4>1. k \in 1 .. Len(P) - 1
          BY ONLY <1>3, <3>3, k \in 0 .. Len(P) - 1
        <4>2. p.from = P[k].from + P[k].len
          BY ONLY <1>2, <4>1 DEF InPieces
        <4> QED
          BY ONLY <3>1, <3>3, <4>2
      <3> QED
        BY ONLY <3>2, <3>3
    <2>4. Writing(h[k], s, f, offset, bytes, p.from)
      BY ONLY <1>6, <2>3
    <2>5. end(k + 1) = p.from + p.len
      BY ONLY <2>1
    <2> HIDE DEF p, end
    <2>6. Writing(h[k + 1], s, f, offset, bytes, p.from + p.len)
      BY ONLY <2>2, <2>3, <2>4, f \in OpenFiles, ZeroPast(s, f), offset \in Nat, bytes \in Seq(Byte),
              WriteNextTakes
    <2>7. R(k + 1)
      BY ONLY <2>5, <2>6
    <2> QED
      BY ONLY <2>1, <2>7
  <1>7. \A k \in 0 .. Len(P) : k \in T
    <2> HIDE DEF T
    <2> QED
      BY ONLY <1>3, <1>5, <1>6, Upwards
  <1>8. R(Len(P))
    BY ONLY <1>3, <1>7
  <1> QED
    BY ONLY <1>4, <1>8 DEF Writing

(* Each offset has its place in a chunk, and each place its offset.        *)
LEMMA OffsetPlace ==
    ASSUME NEW o \in Offsets
    PROVE  /\ o \in Nat /\ o < Top
           /\ ChunkAt(o) \in ChunkNumbers /\ (o % ChunkSize) + 1 \in 1 .. ChunkSize
           /\ Base(ChunkAt(o)) + ((o % ChunkSize) + 1) = o + 1 /\ Base(ChunkAt(o)) \in Nat
  <1>1. o \in Nat /\ o + 1 <= Top /\ Top \in Nat /\ ChunkSize \in Nat
    <2>1. Offsets = 0 .. Top - 1
      BY DEF Offsets, Top
    <2> QED
      BY <2>1, Bases, CacheAssumption
  <1>2. ChunkAt(o) \in ChunkNumbers
    <2>1. PICK n \in Nat : n = 1
      OBVIOUS
    <2>2. o + n <= Top /\ n # 0
      BY <1>1, <2>1
    <2> QED
      BY ONLY <1>1, <2>2, n \in Nat, ChunksFrom
  <1>3. /\ ChunkAt(o) \in Nat \ {0} /\ o % ChunkSize \in 0 .. ChunkSize - 1
        /\ o = Base(ChunkAt(o)) + (o % ChunkSize)
    BY <1>1, PlaceOf
  <1>4. Base(ChunkAt(o)) \in Nat
    BY <1>3, Bases
  <1> DEFINE m == o % ChunkSize
             b == Base(ChunkAt(o))
  <1> HIDE DEF m, b
  <1>5. m \in 0 .. ChunkSize - 1 /\ o = b + m /\ b \in Nat
    BY <1>3, <1>4 DEF m, b
  <1>6. m + 1 \in 1 .. ChunkSize /\ b + (m + 1) = o + 1 /\ o < Top
    BY <1>1, <1>5
  <1> QED
    BY <1>1, <1>2, <1>4, <1>6 DEF m, b

LEMMA PlaceOffset ==
    ASSUME NEW c \in ChunkNumbers, NEW j \in 1 .. ChunkSize
    PROVE  \E o \in Offsets : ChunkAt(o) = c /\ (o % ChunkSize) + 1 = j /\ Base(c) + j = o + 1
  <1>1. c \in Nat \ {0} /\ c <= MaxChunks /\ MaxChunks \in Nat /\ ChunkSize \in Nat
    BY CacheAssumption DEF ChunkNumbers
  <1>2. Base(c) \in Nat /\ Base(c) + ChunkSize <= Top /\ Top \in Nat
    <2>1. c < MaxChunks + 1 /\ MaxChunks + 1 \in Nat \ {0}
      BY <1>1
    <2>2. Base(c) + ChunkSize <= Base(MaxChunks + 1)
      BY <1>1, <2>1, Bases
    <2> QED
      BY <1>1, <2>2, Bases
  <1> DEFINE o == Base(c) + (j - 1)
  <1>3. o \in Nat /\ o \in 0 .. Top - 1 /\ Base(c) <= o /\ o < Base(c) + ChunkSize
        /\ (o - Base(c)) + 1 = j /\ Base(c) + j = o + 1
    BY <1>1, <1>2
  <1> HIDE DEF o
  <1>4. o \in Offsets
    BY <1>3 DEF Offsets, Top
  <1>5. ChunkAt(o) = c /\ o % ChunkSize = o - Base(c)
    BY <1>1, <1>3, OnlyPlace
  <1> QED
    BY <1>3, <1>4, <1>5

(* What a write leaves: done bytes of it are seen, nothing else changed.   *)
Grown(s, t, f, offset, done, bytes) ==
    /\ Sound(t) /\ t.result = done
    /\ t.size = [s.size EXCEPT ![f] = IF s.size[f] >= offset + done THEN s.size[f] ELSE offset + done]
    /\ t.dirty = [s.dirty EXCEPT ![f] = TRUE]
    /\ s.lost \subseteq t.lost
    /\ \A g \in OpenFiles \ t.lost : \A o \in Offsets :
          SeenAt(t, g, o) = IF g = f /\ o >= offset /\ o < offset + done
                            THEN bytes[(o - offset) + 1] ELSE SeenAt(s, g, o)
    /\ \A g \in OpenFiles \ {f} : HasDirty(t, g) => HasDirty(s, g)

(* The same, offset by offset.                                             *)
LEMMA TookSeen ==
    ASSUME NEW s, NEW u, NEW f \in OpenFiles, NEW offset \in Nat, NEW done \in Nat, NEW bytes,
           Took(s, u, f, offset, done, bytes), NEW g \in OpenFiles \ u.lost, NEW o \in Offsets
    PROVE  SeenAt(u, g, o) = IF g = f /\ o >= offset /\ o < offset + done
                             THEN bytes[(o - offset) + 1] ELSE SeenAt(s, g, o)
  <1> DEFINE d == ChunkAt(o)
             j == (o % ChunkSize) + 1
  <1>1. o \in Nat /\ d \in ChunkNumbers /\ j \in 1 .. ChunkSize /\ Base(d) + j = o + 1
    BY OffsetPlace
  <1> HIDE DEF d, j
  <1>2. Sees(u, g, d)[j] = IF g = f /\ Base(d) + j > offset /\ Base(d) + j <= offset + done
                           THEN bytes[(Base(d) + j) - offset] ELSE Sees(s, g, d)[j]
    BY <1>1 DEF Took
  <1>3. Sees(u, g, d)[j] = IF g = f /\ o + 1 > offset /\ o + 1 <= offset + done
                           THEN bytes[(o + 1) - offset] ELSE Sees(s, g, d)[j]
    BY ONLY <1>1, <1>2
  <1>4. (o + 1 > offset /\ o + 1 <= offset + done) <=> (o >= offset /\ o < offset + done)
    BY ONLY <1>1, offset \in Nat, done \in Nat
  <1>5. (o + 1) - offset = (o - offset) + 1
    BY ONLY <1>1, offset \in Nat
  <1>6. Sees(u, g, d)[j] = IF g = f /\ o >= offset /\ o < offset + done
                           THEN bytes[(o - offset) + 1] ELSE Sees(s, g, d)[j]
    BY ONLY <1>3, <1>4, <1>5
  <1> QED
    BY <1>6 DEF SeenAt, d, j

(* What WriteDataToFile does to a file behind whose end there are zeros.   *)
LEMMA WriteKeeps ==
    ASSUME NEW s, Sound(s), NEW f \in OpenFiles, ZeroPast(s, f), NEW offset \in Nat,
           NEW bytes, bytes \in Seq(Byte), offset + Len(bytes) <= Top,
           NEW t, t = WriteDataToFile(s, f, offset, bytes)
    PROVE  \E done \in 0 .. Len(bytes) : Grown(s, t, f, offset, done, bytes)
  <1>1. PICK x : t = EndWrite(x, f, offset) /\ Took(s, x.io, f, offset, x.done, bytes)
                 /\ x.done \in 0 .. Len(bytes)
    BY WriteTakes
  <1> DEFINE u == x.io
             done == x.done
             n == Len(bytes)
             size == IF s.size[f] >= offset + done THEN s.size[f] ELSE offset + done
             sizes == [s.size EXCEPT ![f] = size]
             dirty == [s.dirty EXCEPT ![f] = TRUE]
  <1>2. n \in Nat /\ Top \in Nat /\ done \in 0 .. n /\ offset + n <= Top
    BY ONLY <1>1, bytes \in Seq(Byte), offset + Len(bytes) <= Top, Bases
  <1>3. Took(s, u, f, offset, done, bytes)
    BY ONLY <1>1
  <1> HIDE DEF u, n
  <1>4. Sound(u) /\ u \in IO /\ s.lost \subseteq u.lost /\ u.size = s.size /\ u.dirty = s.dirty
    BY ONLY <1>3 DEF Took, Sound
  <1>5. s.size \in [OpenFiles -> 0 .. Top] /\ s.dirty \in [OpenFiles -> BOOLEAN]
    BY ONLY <1>4 DEF IO
  <1>6. s.size[f] \in 0 .. Top
    BY ONLY <1>5, f \in OpenFiles
  <1> HIDE DEF done
  <1>7. size \in 0 .. Top
    BY ONLY <1>2, <1>6, offset \in Nat
  <1>8. Max({u.size[f], offset + done}) = size
    <2>1. s.size[f] \in Int /\ offset + done \in Int
      BY ONLY <1>2, <1>6, offset \in Nat
    <2> QED
      BY ONLY <1>4, <2>1, MaxOfTwo
  <1> HIDE DEF size
  <1>9. sizes \in [OpenFiles -> 0 .. Top] /\ dirty \in [OpenFiles -> BOOLEAN]
    BY ONLY <1>5, <1>7, f \in OpenFiles
  <1>10. done \in Result
    BY ONLY <1>2, Results
  <1>11. t = [u EXCEPT !.size = sizes, !.dirty = dirty, !.result = done]
    <2>1. t = [u EXCEPT !.size[f] = size, !.dirty[f] = TRUE, !.result = done]
      BY ONLY <1>1, <1>8 DEF EndWrite, u, done
    <2> QED
      BY ONLY <1>4, <2>1
  <1> HIDE DEF sizes, dirty
  <1>12. /\ t \in IO /\ t.store = u.store /\ t.lines = u.lines /\ t.lost = u.lost
         /\ t.size = sizes /\ t.dirty = dirty /\ t.result = done
    BY ONLY <1>4, <1>9, <1>10, <1>11 DEF IO
  <1>13. SameCache(u, t)
    BY ONLY <1>12 DEF SameCache
  <1>14. Sound(t) /\ (\A g, c : Sees(t, g, c) = Sees(u, g, c)) /\ \A g : HasDirty(t, g) <=> HasDirty(u, g)
    BY ONLY <1>4, <1>13, SameCacheSeen
  <1>15. ASSUME NEW g \in OpenFiles \ t.lost, NEW o \in Offsets
         PROVE  SeenAt(t, g, o) = IF g = f /\ o >= offset /\ o < offset + done
                                  THEN bytes[(o - offset) + 1] ELSE SeenAt(s, g, o)
    <2>1. SeenAt(t, g, o) = SeenAt(u, g, o)
      BY ONLY <1>14 DEF SeenAt
    <2>2. done \in Nat /\ g \in OpenFiles \ u.lost
      BY ONLY <1>2, <1>12, g \in OpenFiles \ t.lost
    <2>3. SeenAt(u, g, o) = IF g = f /\ o >= offset /\ o < offset + done
                            THEN bytes[(o - offset) + 1] ELSE SeenAt(s, g, o)
      BY ONLY <1>3, <2>2, f \in OpenFiles, offset \in Nat, o \in Offsets, TookSeen
    <2> QED
      BY ONLY <2>1, <2>3
  <1>16. \A g \in OpenFiles \ {f} : HasDirty(t, g) => HasDirty(s, g)
    BY ONLY <1>3, <1>14 DEF Took
  <1>17. Grown(s, t, f, offset, done, bytes)
    <2>1. t.size = [s.size EXCEPT ![f] = IF s.size[f] >= offset + done THEN s.size[f] ELSE offset + done]
      BY ONLY <1>12 DEF sizes, size
    <2>2. t.dirty = [s.dirty EXCEPT ![f] = TRUE]
      BY ONLY <1>12 DEF dirty
    <2> QED
      BY ONLY <1>4, <1>12, <1>14, <1>15, <1>16, <2>1, <2>2 DEF Grown
  <1> QED
    BY ONLY <1>2, <1>17 DEF n

(* No line has a chunk of the file.                                        *)
Absent(s, f) == \A k \in 1 .. Lines : s.lines[k].file # f

(* Dropping the lines of a file changes what is seen of this file only,    *)
(* and only if one was dirty.                                              *)
LEMMA UncachedFields ==
    ASSUME NEW s, Sound(s), NEW f \in OpenFiles, NEW t, t = Uncached(s, f)
    PROVE  /\ Sound(t) /\ Absent(t, f) /\ t.store = s.store /\ t.size = s.size /\ t.dirty = s.dirty
           /\ t.erased = s.erased /\ t.lost = s.lost
           /\ \A g \in OpenFiles \ t.lost : g # f \/ ~HasDirty(s, f) =>
                 \A c \in ChunkNumbers : Sees(t, g, c) = Sees(s, g, c)
           /\ \A g \in OpenFiles : HasDirty(t, g) => HasDirty(s, g)
  <1>1. s \in IO /\ Distinct(s)
    BY DEF Sound
  <1>2. /\ t \in IO
        /\ t.store = s.store /\ t.size = s.size /\ t.dirty = s.dirty
        /\ t.erased = s.erased /\ t.lost = s.lost
        /\ \A k \in 1 .. Lines : t.lines[k] = IF k \in LinesOf(s, f) THEN [s.lines[k] EXCEPT !.file = NoFile]
                                              ELSE s.lines[k]
        /\ \A k \in LinesOf(s, f) : k \in 1 .. Lines => t.lines[k].file = NoFile
    BY ONLY <1>1, t = Uncached(s, f), InvalidateFields DEF Uncached
  <1>3. \A k \in 1 .. Lines : IF s.lines[k].file = f THEN t.lines[k].file = NoFile
                              ELSE t.lines[k] = s.lines[k]
    BY ONLY <1>2 DEF LinesOf
  <1>4. Absent(t, f)
    BY <1>3, CacheAssumption DEF Absent
  <1>5. \A g \in OpenFiles : \A d, j : Holds(t, j, g, d) <=> Holds(s, j, g, d) /\ g # f
    BY <1>3, CacheAssumption DEF Holds
  <1>6. Distinct(t)
    BY <1>1, <1>5 DEF Distinct
  <1>7. Clean(t)
    BY <1>2, <1>3 DEF Sound, Clean
  <1>8. Tails(t)
    BY <1>2, <1>3, CacheAssumption DEF Sound, Tails
  <1>9. ASSUME NEW g \in OpenFiles \ t.lost, g # f \/ ~HasDirty(s, f), NEW d \in ChunkNumbers
        PROVE  Sees(t, g, d) = Sees(s, g, d)
    <2>1. CASE \E j : Holds(t, j, g, d)
      <3>1. PICK j : Holds(t, j, g, d)
        BY <2>1
      <3>2. Holds(s, j, g, d) /\ g # f /\ j \in 1 .. Lines /\ s.lines[j].file = g
        BY <1>5, <3>1 DEF Holds
      <3>3. t.lines[j] = s.lines[j]
        BY <1>3, <3>2
      <3>4. Sees(t, g, d) = t.lines[j].data /\ Sees(s, g, d) = s.lines[j].data
        BY <1>1, <1>6, <3>1, <3>2, Sight
      <3> QED
        BY <3>3, <3>4
    <2>2. CASE \A j : ~Holds(t, j, g, d)
      <3>1. Sees(t, g, d) = s.store[g][d].data
        BY <1>2, <1>6, <2>2, Sight
      <3>2. CASE \E j : Holds(s, j, g, d)
        <4>1. PICK j : Holds(s, j, g, d)
          BY <3>2
        <4>2. g = f /\ j \in 1 .. Lines /\ s.lines[j].file = f /\ s.lines[j].chunk = d
          BY <1>5, <2>2, <4>1 DEF Holds
        <4>3. ~s.lines[j].dirty
          BY <1>9, <4>2 DEF HasDirty
        <4>4. s.lines[j].data = s.store[g][d].data
          BY <4>2, <4>3, CacheAssumption DEF Sound, Clean
        <4>5. Sees(s, g, d) = s.lines[j].data
          BY <1>1, <4>1, Sight
        <4> QED
          BY <3>1, <4>4, <4>5
      <3>3. CASE \A j : ~Holds(s, j, g, d)
        <4>1. Sees(s, g, d) = s.store[g][d].data
          BY <1>1, <3>3, Sight
        <4> QED
          BY <3>1, <4>1
      <3> QED
        BY <3>2, <3>3
    <2> QED
      BY <2>1, <2>2
  <1>10. ASSUME NEW g \in OpenFiles, HasDirty(t, g) PROVE HasDirty(s, g)
    BY <1>3, <1>10, CacheAssumption DEF HasDirty
  <1> QED
    BY <1>2, <1>4, <1>6, <1>7, <1>8, <1>9, <1>10 DEF Sound

(* After a flush it changes nothing.                                       *)
LEMMA UncachedKeeps ==
    ASSUME NEW s, Sound(s), NEW f \in OpenFiles, HasDirty(s, f) => f \in s.lost,
           NEW t, t = Uncached(s, f)
    PROVE  Keeps(s, t) /\ Absent(t, f)
  BY UncachedFields DEF Keeps

(* A change of the chunks of a file that no line has, and of its size.     *)
Stored(s, t, f, chunks, size) ==
    /\ t \in IO /\ t.lines = s.lines
    /\ t.size = [s.size EXCEPT ![f] = size]
    /\ \A g \in OpenFiles \ {f} : t.store[g] = s.store[g]
    /\ t.store[f] = chunks /\ s.lost \ {f} \subseteq t.lost
    /\ f \notin t.lost => \A c \in ChunkNumbers : ZeroFrom(chunks[c].data, chunks[c].n)

(* Then the file is seen as its chunks are, and no other differently.      *)
LEMMA StoredKeeps ==
    ASSUME NEW s, Sound(s), NEW f \in OpenFiles, Absent(s, f), NEW chunks, NEW size,
           NEW t, Stored(s, t, f, chunks, size)
    PROVE  /\ Sound(t) /\ Absent(t, f)
           /\ \A g \in OpenFiles \ {f} : \A c \in ChunkNumbers : Sees(t, g, c) = Sees(s, g, c)
           /\ \A c \in ChunkNumbers : Sees(t, f, c) = chunks[c].data
           /\ \A g : HasDirty(t, g) <=> HasDirty(s, g)
  <1>1. s \in IO /\ Distinct(s) /\ t \in IO /\ t.lines = s.lines
    BY DEF Sound, Stored
  <1>2. Absent(t, f)
    BY <1>1 DEF Absent
  <1>3. \A g, c : FindChunkCache(t, g, c) = FindChunkCache(s, g, c)
    BY <1>1 DEF FindChunkCache, LinesOf
  <1>4. Distinct(t)
    BY <1>1 DEF Distinct, Holds
  <1>5. Clean(t)
    <2> SUFFICES ASSUME NEW k \in 1 .. Lines, t.lines[k].file # NoFile, ~t.lines[k].dirty
                 PROVE  t.lines[k].data = t.store[t.lines[k].file][t.lines[k].chunk].data
      BY DEF Clean
    <2>1. s.lines[k].data = s.store[s.lines[k].file][s.lines[k].chunk].data
      BY <1>1 DEF Sound, Clean
    <2>2. t.lines[k].file \in OpenFiles \ {f}
      BY <1>1, <1>2 DEF IO, Line, Absent
    <2>3. t.store[t.lines[k].file] = s.store[s.lines[k].file]
      BY <1>1, <2>2 DEF Stored
    <2> QED
      BY <1>1, <2>1, <2>3
  <1>6. Tails(t)
    <2>1. ASSUME NEW g \in OpenFiles \ t.lost, NEW c \in ChunkNumbers
          PROVE  ZeroFrom(t.store[g][c].data, t.store[g][c].n)
      <3>1. CASE g = f
        BY <3>1 DEF Stored
      <3>2. CASE g # f
        <4>1. g \in OpenFiles \ s.lost /\ t.store[g] = s.store[g]
          BY <3>2 DEF Stored
        <4> QED
          BY <4>1 DEF Sound, Tails
      <3> QED
        BY <3>1, <3>2
    <2>2. ASSUME NEW k \in 1 .. Lines, t.lines[k].file \in OpenFiles \ t.lost, t.lines[k].dirty
          PROVE  ZeroFrom(t.lines[k].data, t.lines[k].n)
      <3>1. s.lines[k].file \in OpenFiles \ s.lost
        BY <1>1, <1>2, <2>2 DEF Stored, Absent
      <3> QED
        BY <1>1, <2>2, <3>1 DEF Sound, Tails
    <2> QED
      BY <2>1, <2>2 DEF Tails
  <1>7. \A g \in OpenFiles \ {f} : \A c \in ChunkNumbers : Sees(t, g, c) = Sees(s, g, c)
    BY <1>1, <1>3 DEF Sees, Stored
  <1>8. ASSUME NEW c \in ChunkNumbers PROVE Sees(t, f, c) = chunks[c].data
    <2>1. \A k : ~Holds(t, k, f, c)
      BY <1>2 DEF Holds, Absent
    <2>2. Sees(t, f, c) = t.store[f][c].data
      BY <1>4, <2>1, Sight
    <2> QED
      BY <2>2 DEF Stored
  <1>9. \A g : HasDirty(t, g) <=> HasDirty(s, g)
    BY <1>1 DEF HasDirty
  <1> QED
    BY <1>1, <1>2, <1>4, <1>5, <1>6, <1>7, <1>8, <1>9 DEF Sound

(* The chunks of a file without those behind a new end.                    *)
CutTo(i, f, newSize) == [c \in ChunkNumbers |-> IF Base(c) >= newSize THEN NoChunk ELSE i.store[f][c]]

(* A chunk that is not there has zeros.                                    *)
LEMMA EmptyChunk == Zeros \in Data /\ NoChunk \in Chunk /\ \A n : ZeroFrom(NoChunk.data, n)
  <1>1. Zeros \in Data
    BY DEF Zeros, Data, Byte
  <1>2. NoChunk \in Chunk
    BY <1>1, CacheAssumption DEF NoChunk, Chunk
  <1>3. \A n : ZeroFrom(NoChunk.data, n)
    BY DEF NoChunk, Zeros, ZeroFrom
  <1> QED
    BY <1>1, <1>2, <1>3

(* CutChunks leaves those.                                                 *)
LEMMA CutFields ==
    ASSUME NEW s \in IO, NEW f \in OpenFiles, NEW newSize \in Offsets, NEW t, t = CutChunks(s, f, newSize)
    PROVE  /\ t \in IO /\ t.dirty = s.dirty /\ t.erased = s.erased /\ t.lines = s.lines /\ t.lost = s.lost
           /\ t.size = [s.size EXCEPT ![f] = newSize]
           /\ \A g \in OpenFiles \ {f} : t.store[g] = s.store[g]
           /\ t.store[f] = CutTo(s, f, newSize)
  <1> DEFINE store == [s.store EXCEPT ![f] = CutTo(s, f, newSize)]
             size == [s.size EXCEPT ![f] = newSize]
  <1>1. CutTo(s, f, newSize) \in [ChunkNumbers -> Chunk]
    <2>1. \A c \in ChunkNumbers : s.store[f][c] \in Chunk
      BY DEF IO
    <2> QED
      BY <2>1, EmptyChunk DEF CutTo
  <1>2. newSize \in 0 .. Top
    BY Bases DEF Offsets, Top
  <1>3. store \in [OpenFiles -> [ChunkNumbers -> Chunk]] /\ size \in [OpenFiles -> 0 .. Top]
    BY <1>1, <1>2 DEF IO
  <1>4. t = [s EXCEPT !.store = store, !.size = size]
    <2>1. t = [s EXCEPT !.store[f] = [c \in ChunkNumbers |->
                              IF (c - 1) * ChunkSize >= newSize THEN NoChunk ELSE s.store[f][c]],
                        !.size[f] = newSize]
      BY DEF CutChunks
    <2>2. [c \in ChunkNumbers |-> IF (c - 1) * ChunkSize >= newSize THEN NoChunk ELSE s.store[f][c]]
             = CutTo(s, f, newSize)
      BY DEF CutTo, Base
    <2> QED
      BY <2>1, <2>2
  <1>5. store[f] = CutTo(s, f, newSize) /\ \A g \in OpenFiles \ {f} : store[g] = s.store[g]
    BY DEF IO
  <1> HIDE DEF store, size
  <1>6. /\ t \in IO /\ t.store = store /\ t.size = size /\ t.dirty = s.dirty /\ t.erased = s.erased
        /\ t.lines = s.lines /\ t.lost = s.lost
    BY <1>3, <1>4 DEF IO
  <1> QED
    BY <1>5, <1>6 DEF size

(* The place of an end in its chunk: what is before it, what behind.       *)
LEMMA EndPlace ==
    ASSUME NEW size \in Offsets, NEW c \in ChunkNumbers, NEW j \in 1 .. ChunkSize
    PROVE  LET last == ChunkAt(size)
               rest == size % ChunkSize
           IN  /\ rest \in 0 .. ChunkSize - 1 /\ last \in ChunkNumbers
               /\ Base(c) >= size => Base(c) + j > size
               /\ ~(Base(c) >= size) /\ c # last => ~(Base(c) + j > size)
               /\ c = last => (Base(c) + j > size <=> j > rest)
               /\ rest # 0 => ~(Base(last) >= size)
               /\ rest = 0 => Base(last) >= size
  <1> DEFINE last == ChunkAt(size)
             rest == size % ChunkSize
  <1>1. size \in Nat /\ last \in ChunkNumbers /\ last \in Nat \ {0} /\ c \in Nat \ {0} /\ ChunkSize \in Nat \ {0}
    BY OffsetPlace, CacheAssumption DEF ChunkNumbers
  <1>2. rest \in 0 .. ChunkSize - 1 /\ size = Base(last) + rest
    BY <1>1, PlaceOf
  <1>3. Base(last) \in Nat /\ Base(c) \in Nat
    BY <1>1, Bases
  <1>4. (c < last => Base(c) + ChunkSize <= Base(last)) /\ (last < c => Base(last) + ChunkSize <= Base(c))
    BY <1>1, Bases
  <1> HIDE DEF last, rest
  <1>5. j \in 1 .. ChunkSize
    OBVIOUS
  <1>6. Base(c) >= size => Base(c) + j > size
    BY ONLY <1>1, <1>3, <1>5
  <1>7. ~(Base(c) >= size) /\ c # last => ~(Base(c) + j > size)
    BY ONLY <1>1, <1>2, <1>3, <1>4, <1>5
  <1>8. c = last => (Base(c) + j > size <=> j > rest)
    BY ONLY <1>1, <1>2, <1>3, <1>5
  <1>9. (rest # 0 => ~(Base(last) >= size)) /\ (rest = 0 => Base(last) >= size)
    BY ONLY <1>1, <1>2, <1>3
  <1> QED
    BY <1>1, <1>2, <1>6, <1>7, <1>8, <1>9 DEF last, rest

(* From s to t a file got shorter, if it did: zeros are seen behind its    *)
(* new end, and nothing else changes.                                      *)
Resized(s, t, f, newSize) ==
    /\ Sound(t) /\ Absent(t, f)
    /\ t.size = [s.size EXCEPT ![f] = IF newSize < s.size[f] THEN newSize ELSE s.size[f]]
    /\ t.dirty = s.dirty /\ s.lost \subseteq t.lost
    /\ \A g \in OpenFiles \ t.lost : \A o \in Offsets :
          SeenAt(t, g, o) = IF g = f /\ newSize < s.size[f] /\ o >= newSize THEN 0 ELSE SeenAt(s, g, o)
    /\ \A g \in OpenFiles : HasDirty(t, g) => HasDirty(s, g)

(* The last chunk of a file that is cut in the middle of it.               *)
LastData(s, f, last, rest) == [k \in 1 .. ChunkSize |-> IF k <= rest THEN s.store[f][last].data[k] ELSE 0]

(* WriteLastChunk writes it, or the file lost data.                        *)
LEMMA LastChunkFields ==
    ASSUME NEW s \in IO, NEW f \in OpenFiles, NEW last \in ChunkNumbers, NEW rest \in 0 .. ChunkSize - 1,
           NEW t, t = WriteLastChunk(s, f, last, rest)
    PROVE  /\ t \in IO /\ t.dirty = s.dirty /\ t.lines = s.lines /\ t.size = s.size
           /\ s.lost \subseteq t.lost
           /\ \A g \in OpenFiles \ {f} : t.store[g] = s.store[g]
           /\ f \notin t.lost =>
                 /\ t.store[f][last] = [data |-> LastData(s, f, last, rest), n |-> rest]
                 /\ \A c \in ChunkNumbers \ {last} : t.store[f][c] = s.store[f][c]
  <1> DEFINE x == LastData(s, f, last, rest)
             w == WriteChunk(s, f, last, x, rest, TRUE)
  <1>1. x \in Data /\ rest \in 0 .. ChunkSize
    <2>1. s.store[f][last].data \in Data
      BY DEF IO, Chunk
    <2> QED
      BY <2>1, CacheAssumption DEF LastData, Data, Byte
  <1> HIDE DEF x
  <1>2. Written(s, w, f, last, x, rest, TRUE)
    BY <1>1, WriteChunkFields
  <1>3. t = LostUnlessDone(w, f)
    BY DEF WriteLastChunk, LastData, x
  <1> HIDE DEF w
  <1>4. t = [w EXCEPT !.lost = IF w.result THEN w.lost ELSE w.lost \union {f}]
    BY ONLY <1>3 DEF LostUnlessDone
  <1>5. PICK lost \in SUBSET OpenFiles : /\ lost = IF w.result THEN w.lost ELSE w.lost \union {f}
                                         /\ w.lost \subseteq lost
    <2> DEFINE l == IF w.result THEN w.lost ELSE w.lost \union {f}
    <2>1. w.lost \in SUBSET OpenFiles
      BY ONLY <1>2 DEF Written, IO
    <2>2. w.result \in BOOLEAN
      BY ONLY <1>2 DEF Written
    <2>3. l \in SUBSET OpenFiles /\ w.lost \subseteq l
      BY ONLY <2>1, <2>2, f \in OpenFiles
    <2> HIDE DEF l
    <2>4. \E lost \in SUBSET OpenFiles : lost = l /\ w.lost \subseteq lost
      BY ONLY <2>3
    <2> QED
      BY ONLY <2>4 DEF l
  <1>6. t = [w EXCEPT !.lost = lost]
    BY ONLY <1>4, <1>5
  <1>7. w \in IO
    BY ONLY <1>2 DEF Written
  <1>8. /\ t \in IO /\ t.store = w.store /\ t.size = w.size /\ t.dirty = w.dirty /\ t.erased = w.erased
        /\ t.lines = w.lines /\ t.lost = lost
    BY ONLY <1>5, <1>6, <1>7 DEF IO
  <1>9. ASSUME NEW g \in OpenFiles \ {f} PROVE t.store[g] = s.store[g]
    <2>1. \A d \in ChunkNumbers : t.store[g][d] = s.store[g][d]
      <3>1. \A d \in ChunkNumbers : w.store[g][d] = s.store[g][d]
        BY ONLY <1>2, g \in OpenFiles \ {f} DEF Written
      <3> QED
        BY ONLY <1>8, <3>1
    <2>2. t.store[g] \in [ChunkNumbers -> Chunk] /\ s.store[g] \in [ChunkNumbers -> Chunk]
      BY <1>8 DEF IO
    <2> QED
      BY ONLY <2>1, <2>2
  <1>10. ASSUME f \notin t.lost
         PROVE  /\ t.store[f][last] = [data |-> x, n |-> rest]
                /\ \A c \in ChunkNumbers \ {last} : t.store[f][c] = s.store[f][c]
    <2>1. w.result
      BY <1>5, <1>8, <1>10
    <2>2. Fits(s, TRUE)
      BY ONLY <1>2, <2>1 DEF Written
    <2> QED
      BY ONLY <1>2, <1>8, <2>2, f \in OpenFiles, last \in ChunkNumbers DEF Written
  <1> QED
    BY <1>2, <1>5, <1>8, <1>9, <1>10 DEF Written, x

(* What the chunks of a file that was cut show.                            *)
LEMMA CutSeen ==
    ASSUME NEW s, Sound(s), NEW f \in OpenFiles, Absent(s, f), NEW newSize \in Offsets,
           newSize < s.size[f], NEW t, NEW chunks, Stored(s, t, f, chunks, newSize),
           f \notin t.lost =>
              \A c \in ChunkNumbers :
                 chunks[c].data = IF Base(c) >= newSize THEN Zeros
                                  ELSE IF c = ChunkAt(newSize)
                                  THEN LastData(s, f, c, newSize % ChunkSize) ELSE s.store[f][c].data,
           t.dirty = s.dirty, s.lost \subseteq t.lost
    PROVE  Resized(s, t, f, newSize)
  <1>1. /\ Sound(t) /\ Absent(t, f)
        /\ \A g \in OpenFiles \ {f} : \A c \in ChunkNumbers : Sees(t, g, c) = Sees(s, g, c)
        /\ \A c \in ChunkNumbers : Sees(t, f, c) = chunks[c].data
        /\ \A g : HasDirty(t, g) <=> HasDirty(s, g)
    BY StoredKeeps
  <1>2. ASSUME NEW c \in ChunkNumbers PROVE Sees(s, f, c) = s.store[f][c].data
    <2>1. \A k : ~Holds(s, k, f, c)
      BY DEF Holds, Absent
    <2> QED
      BY <2>1, Sight DEF Sound
  <1>3. ASSUME NEW g \in OpenFiles \ t.lost, NEW o \in Offsets
        PROVE  SeenAt(t, g, o) = IF g = f /\ newSize < s.size[f] /\ o >= newSize THEN 0
                                 ELSE SeenAt(s, g, o)
    <2> DEFINE c == ChunkAt(o)
               j == (o % ChunkSize) + 1
               last == ChunkAt(newSize)
               rest == newSize % ChunkSize
    <2>1. o \in Nat /\ newSize \in Nat /\ c \in ChunkNumbers /\ j \in 1 .. ChunkSize /\ Base(c) + j = o + 1
      BY OffsetPlace
    <2>2. CASE g # f
      BY <1>1, <2>1, <2>2 DEF SeenAt
    <2>3. CASE g = f
      <3>1. chunks[c].data = IF Base(c) >= newSize THEN Zeros
                             ELSE IF c = last THEN LastData(s, f, c, rest) ELSE s.store[f][c].data
        BY <2>1, <2>3
      <3>2. SeenAt(t, g, o) = chunks[c].data[j] /\ SeenAt(s, g, o) = s.store[f][c].data[j]
        BY <1>1, <1>2, <2>1, <2>3 DEF SeenAt
      <3>3. /\ Base(c) >= newSize => Base(c) + j > newSize
            /\ ~(Base(c) >= newSize) /\ c # last => ~(Base(c) + j > newSize)
            /\ c = last => (Base(c) + j > newSize <=> j > rest)
            /\ rest \in 0 .. ChunkSize - 1
        BY <2>1, EndPlace
      <3>4. Zeros[j] = 0
        BY <2>1 DEF Zeros
      <3>5. LastData(s, f, c, rest)[j] = IF j <= rest THEN s.store[f][c].data[j] ELSE 0
        BY <2>1 DEF LastData
      <3> HIDE DEF c, j, last, rest
      <3>6. j <= rest <=> ~(j > rest)
        BY ONLY <2>1, <3>3
      <3>7. Base(c) + j > newSize <=> o >= newSize
        BY ONLY <2>1
      <3>8. chunks[c].data[j] = IF o >= newSize THEN 0 ELSE s.store[f][c].data[j]
        <4>1. CASE Base(c) >= newSize
          BY ONLY <3>1, <3>3, <3>4, <3>7, <4>1
        <4>2. CASE ~(Base(c) >= newSize) /\ c = last
          BY ONLY <3>1, <3>3, <3>5, <3>6, <3>7, <4>2
        <4>3. CASE ~(Base(c) >= newSize) /\ c # last
          BY ONLY <3>1, <3>3, <3>7, <4>3
        <4> QED
          BY ONLY <4>1, <4>2, <4>3
      <3> QED
        BY ONLY <2>3, <3>2, <3>8, newSize < s.size[f]
    <2> QED
      BY <2>2, <2>3
  <1>4. t.size = [s.size EXCEPT ![f] = IF newSize < s.size[f] THEN newSize ELSE s.size[f]]
        /\ t.dirty = s.dirty
    BY DEF Stored
  <1> QED
    BY <1>1, <1>3, <1>4 DEF Resized

(* What keeps everything may come first.                                   *)
LEMMA KeepsThenResized ==
    ASSUME NEW s, NEW i, Keeps(s, i), NEW t, NEW f \in OpenFiles, NEW newSize, Resized(i, t, f, newSize)
    PROVE  Resized(s, t, f, newSize)
  <1>1. \A g \in OpenFiles \ t.lost : \A o \in Offsets : SeenAt(i, g, o) = SeenAt(s, g, o)
    BY OffsetPlace DEF Keeps, Resized, SeenAt
  <1>2. i.size = s.size /\ i.dirty = s.dirty /\ s.lost \subseteq i.lost
        /\ \A g \in OpenFiles : HasDirty(i, g) => HasDirty(s, g)
    BY DEF Keeps
  <1>3. \A g \in OpenFiles \ t.lost : \A o \in Offsets :
           SeenAt(t, g, o) = IF g = f /\ newSize < s.size[f] /\ o >= newSize THEN 0 ELSE SeenAt(s, g, o)
    BY <1>1, <1>2 DEF Resized
  <1> QED
    BY <1>2, <1>3 DEF Resized

(* ResizeFile does that.                                                   *)
LEMMA ResizeKeeps ==
    ASSUME NEW s, Sound(s), NEW f \in OpenFiles, NEW newSize \in Offsets, NEW t, t = ResizeFile(s, f, newSize)
    PROVE  Resized(s, t, f, newSize)
  <1> DEFINE w == FlushFilesChunkCache(s, f)
             i == Uncached(w, f)
             cut == CutChunks(i, f, newSize)
             last == ChunkAt(newSize)
             rest == newSize % ChunkSize
  <1>1. Keeps(s, w) /\ (HasDirty(w, f) => f \in w.lost)
    <2>1. Keeps(s, w) /\ (DirtyOf(w, f) = {} \/ f \in w.lost)
      BY FlushKeeps
    <2> HIDE DEF w
    <2> QED
      BY <2>1 DEF DirtyOf, HasDirty
  <1>2. Keeps(w, i) /\ Absent(i, f)
    <2> HIDE DEF w
    <2>1. Sound(w)
      BY <1>1 DEF Keeps
    <2> QED
      BY <1>1, <2>1, UncachedKeeps
  <1> HIDE DEF w
  <1>3. Keeps(s, i) /\ Sound(i) /\ i \in IO /\ i.size = s.size
    <2>1. Keeps(s, i)
      BY <1>1, <1>2, KeepsOn
    <2> HIDE DEF i
    <2> QED
      BY <2>1 DEF Keeps, Sound
  <1>4. t = IF newSize >= s.size[f] THEN i ELSE IF rest = 0 THEN cut ELSE WriteLastChunk(cut, f, last, rest)
    BY DEF ResizeFile, w
  <1> HIDE DEF i
  <1>5. newSize \in Nat /\ s.size[f] \in Nat /\ newSize \in 0 .. Top
    <2>1. i.size[f] \in 0 .. Top
      BY <1>3 DEF IO
    <2> QED
      BY <1>3, <2>1, OffsetPlace, Bases DEF Offsets, Top
  <1>6. Resized(i, t, f, newSize)
    <2>1. CASE newSize >= s.size[f]
      <3>1. t = i /\ ~(newSize < i.size[f])
        BY <1>3, <1>4, <1>5, <2>1
      <3>2. i.size = [i.size EXCEPT ![f] = i.size[f]]
        BY <1>3 DEF IO
      <3> QED
        BY <1>2, <1>3, <3>1, <3>2 DEF Resized
    <2>2. CASE ~(newSize >= s.size[f]) /\ rest = 0
      <3>1. t = cut
        BY <1>4, <2>2
      <3>2. /\ t \in IO /\ t.dirty = i.dirty /\ t.erased = i.erased /\ t.lines = i.lines /\ t.lost = i.lost
            /\ t.size = [i.size EXCEPT ![f] = newSize]
            /\ \A g \in OpenFiles \ {f} : t.store[g] = i.store[g]
            /\ t.store[f] = CutTo(i, f, newSize)
        BY <1>3, <3>1, CutFields
      <3>3. f \notin t.lost => \A c \in ChunkNumbers :
               ZeroFrom(CutTo(i, f, newSize)[c].data, CutTo(i, f, newSize)[c].n)
        BY <1>3, <3>2, EmptyChunk DEF Sound, Tails, CutTo
      <3>4. Stored(i, t, f, CutTo(i, f, newSize), newSize)
        BY <3>2, <3>3 DEF Stored
      <3>5. \A c \in ChunkNumbers : c = last => Base(c) >= newSize
        <4>1. 1 \in 1 .. ChunkSize
          BY CacheAssumption
        <4> QED
          BY <2>2, <4>1, EndPlace
      <3>6. \A c \in ChunkNumbers :
               CutTo(i, f, newSize)[c].data
                  = IF Base(c) >= newSize THEN Zeros
                    ELSE IF c = ChunkAt(newSize)
                    THEN LastData(i, f, c, newSize % ChunkSize) ELSE i.store[f][c].data
        BY <3>5 DEF CutTo, NoChunk
      <3>7. newSize < i.size[f]
        BY <1>3, <1>5, <2>2
      <3> QED
        BY <1>2, <1>3, <3>2, <3>4, <3>6, <3>7, CutSeen
    <2>3. CASE ~(newSize >= s.size[f]) /\ rest # 0
      <3>1. t = WriteLastChunk(cut, f, last, rest)
        BY <1>4, <2>3
      <3>2. /\ cut \in IO /\ cut.dirty = i.dirty /\ cut.erased = i.erased /\ cut.lines = i.lines
            /\ cut.lost = i.lost /\ cut.size = [i.size EXCEPT ![f] = newSize]
            /\ \A g \in OpenFiles \ {f} : cut.store[g] = i.store[g]
            /\ cut.store[f] = CutTo(i, f, newSize)
        BY <1>3, CutFields
      <3> HIDE DEF cut
      <3>3. rest \in 0 .. ChunkSize - 1 /\ last \in ChunkNumbers /\ ~(Base(last) >= newSize)
        <4>1. 1 \in 1 .. ChunkSize /\ 1 \in ChunkNumbers
          BY CacheAssumption DEF ChunkNumbers
        <4> QED
          BY <2>3, <4>1, EndPlace
      <3> HIDE DEF last, rest
      <3>4. /\ t \in IO /\ t.dirty = cut.dirty /\ t.lines = cut.lines
            /\ t.size = cut.size /\ cut.lost \subseteq t.lost
            /\ \A g \in OpenFiles \ {f} : t.store[g] = cut.store[g]
            /\ f \notin t.lost =>
                  /\ t.store[f][last] = [data |-> LastData(cut, f, last, rest), n |-> rest]
                  /\ \A c \in ChunkNumbers \ {last} : t.store[f][c] = cut.store[f][c]
        BY <3>1, <3>2, <3>3, LastChunkFields
      <3> DEFINE chunks == t.store[f]
      <3>5. cut.store[f][last] = i.store[f][last]
        BY <3>2, <3>3 DEF CutTo
      <3>6. LastData(cut, f, last, rest) = LastData(i, f, last, rest)
        BY <3>5 DEF LastData
      <3>7. ASSUME f \notin t.lost, NEW c \in ChunkNumbers
            PROVE  /\ chunks[c].data = IF Base(c) >= newSize THEN Zeros
                                       ELSE IF c = last THEN LastData(i, f, c, rest) ELSE i.store[f][c].data
                   /\ ZeroFrom(chunks[c].data, chunks[c].n)
        <4>1. CASE c = last
          <5>1. chunks[c].data = LastData(i, f, last, rest) /\ chunks[c].n = rest
            BY <3>4, <3>6, <3>7, <4>1
          <5>2. ZeroFrom(LastData(i, f, last, rest), rest)
            BY <3>3, CacheAssumption DEF ZeroFrom, LastData
          <5> QED
            BY <3>3, <4>1, <5>1, <5>2
        <4>2. CASE c # last
          <5>1. chunks[c] = IF Base(c) >= newSize THEN NoChunk ELSE i.store[f][c]
            BY <3>2, <3>4, <3>7, <4>2 DEF CutTo
          <5>2. f \in OpenFiles \ i.lost
            BY <3>2, <3>4, <3>7
          <5>3. ZeroFrom(i.store[f][c].data, i.store[f][c].n)
            BY <1>3, <5>2 DEF Sound, Tails
          <5>4. NoChunk.data = Zeros
            BY DEF NoChunk
          <5> HIDE DEF chunks
          <5> QED
            BY <4>2, <5>1, <5>3, <5>4, EmptyChunk
        <4> QED
          BY <4>1, <4>2
      <3>8. Stored(i, t, f, chunks, newSize)
        BY <3>2, <3>4, <3>7 DEF Stored
      <3>9. newSize < i.size[f] /\ i.lost \subseteq t.lost /\ t.dirty = i.dirty
        BY <1>3, <1>5, <2>3, <3>2, <3>4
      <3> HIDE DEF chunks
      <3> QED
        BY <1>2, <1>3, <3>7, <3>8, <3>9, CutSeen DEF last, rest
    <2> QED
      BY <2>1, <2>2, <2>3
  <1> QED
    BY <1>3, <1>6, KeepsThenResized

-----------------------------------------------------------------------------
(* The invariant. A file that lost nothing is seen as its writers were     *)
(* told, with zeros behind its end; and who has unwritten data of it is a  *)
(* handle, and the object knows, unless its header was written since.      *)
ToldOf(s, tells, f) ==
    f \notin s.lost =>
       \A o \in Offsets : SeenAt(s, f, o) = tells[f][o] /\ (o >= s.size[f] => tells[f][o] = 0)

OwnerOf(s, handles, since, f) ==
    f \notin since \union s.lost /\ HasDirty(s, f)
       => (\E d \in Descriptors : handles[d].file = f) /\ s.dirty[f]

Handle == [file : OpenFiles \union {NoFile}, position : Nat, append : BOOLEAN]

CacheTyped ==
    /\ io.result = 0
    /\ hs \in [Descriptors -> Handle]
    /\ told \in [OpenFiles -> [Offsets -> Byte]]
    /\ touched \subseteq OpenFiles
Told == \A f \in OpenFiles : ToldOf(io, told, f)
OwnersKnow == \A f \in OpenFiles : OwnerOf(io, hs, touched, f)
CacheInv == Sound(io) /\ CacheTyped /\ Told /\ OwnersKnow

(* So nothing is seen behind the end of a file.                            *)
LEMMA ToldZeroPast ==
    ASSUME NEW s, NEW tells, NEW f, ToldOf(s, tells, f), s.size[f] \in Nat
    PROVE  ZeroPast(s, f)
  <1> SUFFICES ASSUME f \notin s.lost, NEW c \in ChunkNumbers, NEW j \in 1 .. ChunkSize,
                      Base(c) + j > s.size[f]
               PROVE  Sees(s, f, c)[j] = 0
    BY DEF ZeroPast
  <1>1. PICK o \in Offsets : ChunkAt(o) = c /\ (o % ChunkSize) + 1 = j /\ Base(c) + j = o + 1
    BY PlaceOffset
  <1>2. o \in Nat
    BY OffsetPlace
  <1>3. o >= s.size[f]
    BY <1>1, <1>2
  <1>4. SeenAt(s, f, o) = 0
    BY <1>3 DEF ToldOf
  <1> QED
    BY ONLY <1>1, <1>4 DEF SeenAt

(* A call ends with another number of erased blocks, which nobody sees; so *)
(* it keeps the invariant if its cache is sound and tells the truth.       *)
LEMMA CallEnds ==
    ASSUME NEW s, Sound(s), CacheCall(s)
    PROVE  /\ Sound(io') /\ io'.result = 0
           /\ \A f, tells : ToldOf(s, tells, f) => ToldOf(io', tells, f)
           /\ \A f, handles, since : OwnerOf(s, handles, since, f) => OwnerOf(io', handles, since, f)
  <1>1. PICK e \in 0 .. Reserved + MaxFree : io' = [s EXCEPT !.erased = e, !.result = 0]
    BY ONLY CacheCall(s), Zenon DEF CacheCall
  <1>2. s \in IO
    BY DEF Sound
  <1>3. PICK r \in Result : r = 0
    BY Results
  <1>4. e \in Nat
    BY CacheAssumption
  <1>5. PICK t : t = io'
    OBVIOUS
  <1>6. t = [s EXCEPT !.erased = e, !.result = r]
    BY <1>1, <1>3, <1>5
  <1>7. /\ t \in IO /\ t.store = s.store /\ t.lines = s.lines /\ t.lost = s.lost
        /\ t.size = s.size /\ t.dirty = s.dirty /\ t.result = r
    BY ONLY <1>2, <1>4, <1>6, r \in Result DEF IO
  <1>8. SameCache(s, t)
    BY <1>7 DEF SameCache
  <1>9. Sound(t) /\ (\A f, c : Sees(t, f, c) = Sees(s, f, c)) /\ \A f : HasDirty(t, f) <=> HasDirty(s, f)
    BY ONLY Sound(s), <1>8, SameCacheSeen
  <1>10. \A f, o : SeenAt(t, f, o) = SeenAt(s, f, o)
    BY ONLY <1>9 DEF SeenAt
  <1>11. \A f, tells : ToldOf(s, tells, f) => ToldOf(t, tells, f)
    BY ONLY <1>7, <1>10 DEF ToldOf
  <1>12. \A f, handles, since : OwnerOf(s, handles, since, f) => OwnerOf(t, handles, since, f)
    BY ONLY <1>7, <1>9 DEF OwnerOf
  <1> QED
    BY ONLY <1>3, <1>5, <1>7, <1>9, <1>11, <1>12

LEMMA Concludes ==
    ASSUME NEW s, Sound(s), CacheCall(s),
           \A f \in OpenFiles : ToldOf(s, told', f),
           \A f \in OpenFiles : OwnerOf(s, hs', touched', f),
           hs' \in [Descriptors -> Handle], told' \in [OpenFiles -> [Offsets -> Byte]],
           touched' \subseteq OpenFiles
    PROVE  CacheInv'
  <1>1. /\ Sound(io') /\ io'.result = 0
        /\ \A f, tells : ToldOf(s, tells, f) => ToldOf(io', tells, f)
        /\ \A f, handles, since : OwnerOf(s, handles, since, f) => OwnerOf(io', handles, since, f)
    BY CallEnds
  <1>2. \A f \in OpenFiles : ToldOf(io', told', f) /\ OwnerOf(io', hs', touched', f)
    BY <1>1
  <1> QED
    BY <1>1, <1>2 DEF CacheInv, CacheTyped, Told, OwnersKnow

(* What writers are told of a file that was cut, and that it is true.      *)
LEMMA CutTold ==
    ASSUME NEW tells \in [OpenFiles -> [Offsets -> Byte]], NEW f \in OpenFiles, NEW size
    PROVE  LET cut == [tells EXCEPT ![f] = Cut(tells[f], size)]
           IN  /\ cut \in [OpenFiles -> [Offsets -> Byte]]
               /\ \A o \in Offsets : cut[f][o] = IF o < size THEN tells[f][o] ELSE 0
               /\ \A g \in OpenFiles \ {f} : cut[g] = tells[g]
  <1> DEFINE c == Cut(tells[f], size)
  <1>1. c \in [Offsets -> Byte] /\ \A o \in Offsets : c[o] = IF o < size THEN tells[f][o] ELSE 0
    BY DEF Cut, Byte
  <1> HIDE DEF c
  <1> QED
    BY <1>1 DEF c

LEMMA ResizedTold ==
    ASSUME NEW s, NEW t, NEW f \in OpenFiles, NEW size \in Offsets, Resized(s, t, f, size), s \in IO,
           NEW tells \in [OpenFiles -> [Offsets -> Byte]], \A g \in OpenFiles : ToldOf(s, tells, g),
           NEW g \in OpenFiles
    PROVE  ToldOf(t, [tells EXCEPT ![f] = Cut(tells[f], size)], g)
  <1> DEFINE cut == [tells EXCEPT ![f] = Cut(tells[f], size)]
  <1>1. /\ \A o \in Offsets : cut[f][o] = IF o < size THEN tells[f][o] ELSE 0
        /\ \A h \in OpenFiles \ {f} : cut[h] = tells[h]
    BY CutTold
  <1> HIDE DEF cut
  <1>2. SUFFICES ASSUME g \notin t.lost, NEW o \in Offsets
                 PROVE  SeenAt(t, g, o) = cut[g][o] /\ (o >= t.size[g] => cut[g][o] = 0)
    BY DEF ToldOf, cut
  <1>3. g \notin s.lost
    BY <1>2 DEF Resized
  <1>4. SeenAt(s, g, o) = tells[g][o] /\ (o >= s.size[g] => tells[g][o] = 0)
    BY <1>3 DEF ToldOf
  <1>5. SeenAt(t, g, o) = IF g = f /\ size < s.size[f] /\ o >= size THEN 0 ELSE SeenAt(s, g, o)
    BY <1>2 DEF Resized
  <1>6. o \in Nat /\ size \in Nat /\ s.size \in [OpenFiles -> 0 .. Top]
    BY OffsetPlace DEF IO
  <1>7. s.size[f] \in 0 .. Top /\ Top \in Nat
    BY <1>6, Bases
  <1>8. CASE g = f
    <2>1. t.size[f] = IF size < s.size[f] THEN size ELSE s.size[f]
      BY <1>6 DEF Resized
    <2>2. cut[f][o] = IF o < size THEN tells[f][o] ELSE 0
      BY <1>1
    <2>3. SeenAt(t, f, o) = cut[f][o]
      BY ONLY <1>4, <1>5, <1>6, <1>7, <1>8, <2>2
    <2>4. o >= t.size[f] => cut[f][o] = 0
      BY ONLY <1>4, <1>6, <1>7, <1>8, <2>1, <2>2
    <2> QED
      BY <1>8, <2>3, <2>4
  <1>9. CASE g # f
    <2>1. t.size[g] = s.size[g] /\ cut[g] = tells[g]
      BY <1>1, <1>6, <1>9 DEF Resized
    <2> QED
      BY <1>4, <1>5, <1>9, <2>1
  <1> QED
    BY <1>8, <1>9

(* A cut adds no dirty line.                                               *)
LEMMA ResizedOwner ==
    ASSUME NEW s, NEW t, NEW f \in OpenFiles, NEW size, Resized(s, t, f, size),
           NEW handles, NEW since, NEW g \in OpenFiles, OwnerOf(s, handles, since, g)
    PROVE  OwnerOf(t, handles, since, g)
  <1>1. t.dirty = s.dirty /\ s.lost \subseteq t.lost /\ (HasDirty(t, g) => HasDirty(s, g))
    BY DEF Resized
  <1> QED
    BY <1>1 DEF OwnerOf

(* A header is written, and nothing else is.                               *)
LEMMA HeaderKeeps ==
    ASSUME NEW s, Sound(s), NEW f \in OpenFiles, NEW t, t = WriteHeader(s, f)
    PROVE  /\ SameCache(s, t) /\ t.size = s.size
           /\ \A g \in OpenFiles \ {f} : t.dirty[g] = s.dirty[g]
  <1>1. s \in IO
    BY DEF Sound
  <1>2. PICK b \in BOOLEAN : b <=> s.dirty[f] /\ s.erased = 0
    OBVIOUS
  <1> DEFINE dirty == [s.dirty EXCEPT ![f] = b]
  <1>3. dirty \in [OpenFiles -> BOOLEAN] /\ \A g \in OpenFiles \ {f} : dirty[g] = s.dirty[g]
    BY <1>1 DEF IO
  <1>4. t = [s EXCEPT !.dirty = dirty]
    <2>1. t = [s EXCEPT !.dirty[f] = (s.dirty[f] /\ s.erased = 0)]
      BY DEF WriteHeader
    <2>2. (s.dirty[f] /\ s.erased = 0) = b
      BY <1>2
    <2> QED
      BY <2>1, <2>2
  <1> HIDE DEF dirty
  <1>5. /\ t \in IO /\ t.store = s.store /\ t.lines = s.lines /\ t.lost = s.lost /\ t.size = s.size
        /\ t.dirty = dirty
    BY ONLY <1>1, <1>3, <1>4 DEF IO
  <1> QED
    BY <1>3, <1>5 DEF SameCache

(* What is told stays true as long as the same is seen.                    *)
LEMMA SameTold ==
    ASSUME NEW s, Sound(s), NEW t, SameCache(s, t), t.size = s.size
    PROVE  /\ Sound(t)
           /\ \A f, tells : ToldOf(s, tells, f) => ToldOf(t, tells, f)
  <1>1. Sound(t) /\ (\A f, c : Sees(t, f, c) = Sees(s, f, c)) /\ t.lost = s.lost
    BY SameCacheSeen DEF SameCache
  <1>2. \A f, o : SeenAt(t, f, o) = SeenAt(s, f, o)
    BY ONLY <1>1 DEF SeenAt
  <1> QED
    BY <1>1, <1>2 DEF ToldOf

LEMMA KeepsTold ==
    ASSUME NEW s, NEW t, Keeps(s, t), NEW f \in OpenFiles, NEW tells, ToldOf(s, tells, f)
    PROVE  ToldOf(t, tells, f)
  <1> SUFFICES ASSUME f \notin t.lost, NEW o \in Offsets
               PROVE  SeenAt(t, f, o) = tells[f][o] /\ (o >= t.size[f] => tells[f][o] = 0)
    BY DEF ToldOf
  <1>1. f \notin s.lost /\ t.size = s.size /\ \A c \in ChunkNumbers : Sees(t, f, c) = Sees(s, f, c)
    BY DEF Keeps
  <1>2. SeenAt(t, f, o) = SeenAt(s, f, o)
    BY <1>1, OffsetPlace DEF SeenAt
  <1> QED
    BY <1>1, <1>2 DEF ToldOf

(* So does who owns what.                                                  *)
LEMMA KeepsOwner ==
    ASSUME NEW s, NEW t, Keeps(s, t), NEW f \in OpenFiles, NEW handles, NEW since,
           OwnerOf(s, handles, since, f)
    PROVE  OwnerOf(t, handles, since, f)
  BY DEF Keeps, OwnerOf

(* A file may be cut to nothing.                                           *)
LEMMA ZeroOffset == 0 \in Offsets
  <1>1. 1 \in ChunkNumbers /\ 1 \in 1 .. ChunkSize
    BY CacheAssumption DEF ChunkNumbers
  <1>2. PICK o \in Offsets : Base(1) + 1 = o + 1
    BY <1>1, PlaceOffset
  <1>3. o \in Nat /\ Base(1) = 0
    BY OffsetPlace, Bases
  <1>4. o = 0
    BY ONLY <1>2, <1>3
  <1> QED
    BY <1>4

-----------------------------------------------------------------------------
(* The invariant holds at the start, and each call keeps it.               *)
LEMMA CacheStarts == CacheInit => CacheInv
  <1> SUFFICES ASSUME CacheInit PROVE CacheInv
    OBVIOUS
  <1>1. io \in IO /\ io.result = 0
    <2> DEFINE store == [f \in OpenFiles |-> [c \in ChunkNumbers |-> NoChunk]]
               size == [f \in OpenFiles |-> 0]
               dirty == [f \in OpenFiles |-> FALSE]
               lines == [k \in 1 .. Lines |-> NoLine]
    <2>1. store \in [OpenFiles -> [ChunkNumbers -> Chunk]]
      BY EmptyChunk
    <2>2. size \in [OpenFiles -> 0 .. Top] /\ dirty \in [OpenFiles -> BOOLEAN]
      BY Bases
    <2>3. NoLine \in Line
      BY EmptyChunk, CacheAssumption DEF NoLine, Line, ChunkNumbers
    <2>4. lines \in [1 .. Lines -> Line]
      BY <2>3
    <2>5. Reserved + 1 \in Nat /\ 0 \in Result /\ 0 \in Nat
      BY CacheAssumption, Results
    <2>6. io = [store |-> store, size |-> size, dirty |-> dirty, lines |-> lines, last |-> 0,
                erased |-> Reserved + 1, lost |-> {}, result |-> 0]
      BY DEF CacheInit
    <2> HIDE DEF store, size, dirty, lines
    <2> QED
      BY <2>1, <2>2, <2>4, <2>5, <2>6 DEF IO
  <1>2. /\ \A f \in OpenFiles : \A c \in ChunkNumbers : io.store[f][c] = NoChunk
        /\ \A f \in OpenFiles : io.size[f] = 0
        /\ \A k \in 1 .. Lines : io.lines[k] = NoLine
    BY DEF CacheInit
  <1>3. \A k \in 1 .. Lines : io.lines[k].file = NoFile /\ ~io.lines[k].dirty
    BY <1>2 DEF NoLine
  <1>4. Distinct(io) /\ Clean(io) /\ \A f \in OpenFiles : ~HasDirty(io, f)
    BY <1>3, CacheAssumption DEF Distinct, Holds, Clean, HasDirty
  <1>5. Tails(io)
    BY <1>2, <1>3, EmptyChunk DEF Tails
  <1>6. ASSUME NEW f \in OpenFiles PROVE ToldOf(io, told, f)
    <2> SUFFICES ASSUME NEW o \in Offsets
                 PROVE  SeenAt(io, f, o) = told[f][o] /\ (o >= io.size[f] => told[f][o] = 0)
      BY DEF ToldOf
    <2>1. told[f][o] = 0
      BY DEF CacheInit
    <2>2. ChunkAt(o) \in ChunkNumbers /\ (o % ChunkSize) + 1 \in 1 .. ChunkSize
      BY OffsetPlace
    <2>3. \A k : ~Holds(io, k, f, ChunkAt(o))
      BY <1>3, CacheAssumption DEF Holds
    <2>4. Sees(io, f, ChunkAt(o)) = io.store[f][ChunkAt(o)].data
      BY <1>4, <2>2, <2>3, Sight
    <2>5. Sees(io, f, ChunkAt(o)) = Zeros
      BY <1>2, <2>2, <2>4 DEF NoChunk
    <2>6. SeenAt(io, f, o) = 0
      BY <2>2, <2>5 DEF SeenAt, Zeros
    <2> QED
      BY <2>1, <2>6
  <1>7. \A f \in OpenFiles : OwnerOf(io, hs, touched, f)
    BY <1>4 DEF OwnerOf
  <1>8. hs \in [Descriptors -> Handle] /\ told \in [OpenFiles -> [Offsets -> Byte]] /\ touched \subseteq OpenFiles
    <2>1. FreeHandle \in Handle
      BY DEF FreeHandle, Handle
    <2> QED
      BY <2>1 DEF CacheInit, Byte
  <1> QED
    BY <1>1, <1>4, <1>5, <1>6, <1>7, <1>8 DEF CacheInv, CacheTyped, Told, OwnersKnow, Sound

LEMMA OpenKeeps ==
    ASSUME CacheInv, NEW d \in Descriptors, NEW f \in OpenFiles, NEW append \in BOOLEAN,
           NEW trunc \in BOOLEAN, OpenHandle(d, f, append, trunc)
    PROVE  CacheInv'
  <1> DEFINE s == IF trunc THEN ResizeFile(io, f, 0) ELSE io
  <1>1. /\ hs[d].file = NoFile /\ CacheCall(s)
        /\ hs' = [hs EXCEPT ![d] = [file |-> f, position |-> 0, append |-> append]]
        /\ told' = IF trunc THEN [told EXCEPT ![f] = Cut(told[f], 0)] ELSE told
        /\ touched' = touched
    BY DEF OpenHandle
  <1>2. /\ Sound(io) /\ io \in IO /\ hs \in [Descriptors -> Handle]
        /\ told \in [OpenFiles -> [Offsets -> Byte]] /\ touched \subseteq OpenFiles
        /\ \A g \in OpenFiles : ToldOf(io, told, g) /\ OwnerOf(io, hs, touched, g)
    BY DEF CacheInv, CacheTyped, Told, OwnersKnow, Sound
  <1>3. hs' \in [Descriptors -> Handle]
    BY <1>1, <1>2 DEF Handle
  <1>4. Sound(s) /\ \A g \in OpenFiles : ToldOf(s, told', g) /\ OwnerOf(s, hs, touched, g)
    <2>1. CASE trunc
      <3>1. Resized(io, s, f, 0)
        BY <1>2, <2>1, ZeroOffset, ResizeKeeps
      <3>2. \A g \in OpenFiles : ToldOf(s, [told EXCEPT ![f] = Cut(told[f], 0)], g)
        <4> HIDE DEF s
        <4> QED
          BY <1>2, <3>1, ZeroOffset, ResizedTold
      <3>3. \A g \in OpenFiles : OwnerOf(s, hs, touched, g)
        <4> HIDE DEF s
        <4> QED
          BY <1>2, <3>1, ResizedOwner
      <3>4. Sound(s)
        BY ONLY <3>1 DEF Resized
      <3> QED
        BY <1>1, <2>1, <3>2, <3>3, <3>4
    <2>2. CASE ~trunc
      BY <1>1, <1>2, <2>2
    <2> QED
      BY <2>1, <2>2
  <1> HIDE DEF s
  <1>5. ASSUME NEW g \in OpenFiles PROVE OwnerOf(s, hs', touched', g)
    <2>1. ASSUME NEW e \in Descriptors, hs[e].file = g PROVE hs'[e].file = g
      <3>1. e # d
        BY <1>1, <2>1, CacheAssumption
      <3> QED
        BY <1>1, <1>2, <2>1, <3>1
    <2>2. OwnerOf(s, hs, touched, g)
      BY <1>4
    <2> QED
      BY ONLY <1>1, <2>1, <2>2 DEF OwnerOf
  <1>6. told' \in [OpenFiles -> [Offsets -> Byte]]
    BY <1>1, <1>2, CutTold
  <1> QED
    BY <1>1, <1>2, <1>3, <1>4, <1>5, <1>6, Concludes

LEMMA CloseKeeps ==
    ASSUME CacheInv, NEW d \in Descriptors, CloseHandle(d)
    PROVE  CacheInv'
  <1> DEFINE f == hs[d].file
             w == FlushFilesChunkCache(io, f)
             s == FlushFile(io, f)
  <1>1. /\ f # NoFile /\ CacheCall(s)
        /\ hs' = [hs EXCEPT ![d] = FreeHandle] /\ told' = told /\ touched' = touched
    BY DEF CloseHandle
  <1>2. /\ Sound(io) /\ io \in IO /\ hs \in [Descriptors -> Handle]
        /\ told \in [OpenFiles -> [Offsets -> Byte]] /\ touched \subseteq OpenFiles
        /\ \A g \in OpenFiles : ToldOf(io, told, g) /\ OwnerOf(io, hs, touched, g)
    BY DEF CacheInv, CacheTyped, Told, OwnersKnow, Sound
  <1>3. f \in OpenFiles
    BY <1>1, <1>2 DEF Handle
  <1>4. hs' \in [Descriptors -> Handle]
    <2>1. FreeHandle \in Handle
      BY DEF FreeHandle, Handle
    <2> QED
      BY <1>1, <1>2, <2>1
  <1>5. \A e \in Descriptors : e # d => hs'[e] = hs[e]
    BY <1>1, <1>2
  <1> HIDE DEF f
  <1>6. /\ Sound(s) /\ \A g \in OpenFiles : ToldOf(s, told, g)
        /\ \A g \in OpenFiles \ {f} : OwnerOf(s, hs, touched, g)
        /\ HasDirty(s, f) => f \in s.lost \/ f \in touched
    <2>1. CASE io.dirty[f]
      <3>1. s = WriteHeader(w, f)
        BY <2>1 DEF FlushFile
      <3>2. Keeps(io, w) /\ (DirtyOf(w, f) = {} \/ f \in w.lost)
        BY <1>2, <1>3, FlushKeeps
      <3> HIDE DEF w, s
      <3>3. Sound(w)
        BY <3>2 DEF Keeps
      <3>4. SameCache(w, s) /\ s.size = w.size /\ \A g \in OpenFiles \ {f} : s.dirty[g] = w.dirty[g]
        BY <1>3, <3>1, <3>3, HeaderKeeps
      <3>5. Sound(s) /\ \A g \in OpenFiles : ToldOf(s, told, g)
        <4>1. \A g \in OpenFiles : ToldOf(w, told, g)
          BY <1>2, <3>2, KeepsTold
        <4> QED
          BY <3>3, <3>4, <4>1, SameTold
      <3>6. s.lost = w.lost /\ \A g : HasDirty(s, g) <=> HasDirty(w, g)
        BY <3>3, <3>4, SameCacheSeen DEF SameCache
      <3>7. \A g \in OpenFiles \ {f} : OwnerOf(s, hs, touched, g)
        <4>1. \A g \in OpenFiles : OwnerOf(w, hs, touched, g)
          BY <1>2, <3>2, KeepsOwner
        <4> QED
          BY ONLY <3>4, <3>6, <4>1 DEF OwnerOf
      <3>8. HasDirty(s, f) => f \in s.lost
        BY ONLY <3>2, <3>6 DEF HasDirty, DirtyOf
      <3> QED
        BY <3>5, <3>7, <3>8
    <2>2. CASE ~io.dirty[f]
      <3>1. s = io
        BY <2>2 DEF FlushFile
      <3>2. HasDirty(io, f) => f \in io.lost \/ f \in touched
        BY <1>2, <1>3, <2>2 DEF OwnerOf
      <3> QED
        BY <1>2, <3>1, <3>2
    <2> QED
      BY <2>1, <2>2
  <1> HIDE DEF s
  <1>7. ASSUME NEW g \in OpenFiles PROVE OwnerOf(s, hs', touched', g)
    <2>1. CASE g = f
      BY ONLY <1>1, <1>6, <2>1 DEF OwnerOf
    <2>2. CASE g # f
      <3>1. OwnerOf(s, hs, touched, g)
        BY <1>6, <2>2
      <3>2. ASSUME NEW e \in Descriptors, hs[e].file = g PROVE hs'[e].file = g
        <4>1. e # d
          BY <2>2, <3>2 DEF f
        <4> QED
          BY <1>5, <3>2, <4>1
      <3> QED
        BY ONLY <1>1, <3>1, <3>2 DEF OwnerOf
    <2> QED
      BY <2>1, <2>2
  <1> QED
    BY <1>1, <1>2, <1>4, <1>6, <1>7, Concludes

LEMMA SeekKeeps ==
    ASSUME CacheInv, NEW d \in Descriptors, NEW pos \in Offsets, Seek(d, pos)
    PROVE  CacheInv'
  <1>1. CacheCall(io) /\ hs' = [hs EXCEPT ![d].position = pos] /\ told' = told /\ touched' = touched
    BY DEF Seek
  <1>2. /\ Sound(io) /\ hs \in [Descriptors -> Handle]
        /\ told \in [OpenFiles -> [Offsets -> Byte]] /\ touched \subseteq OpenFiles
        /\ \A g \in OpenFiles : ToldOf(io, told, g) /\ OwnerOf(io, hs, touched, g)
    BY DEF CacheInv, CacheTyped, Told, OwnersKnow
  <1>3. pos \in Nat
    BY OffsetPlace
  <1>4. hs' \in [Descriptors -> Handle] /\ \A e \in Descriptors : hs'[e].file = hs[e].file
    BY <1>1, <1>2, <1>3 DEF Handle
  <1>5. \A g \in OpenFiles : OwnerOf(io, hs', touched', g)
    BY <1>1, <1>2, <1>4 DEF OwnerOf
  <1> QED
    BY <1>1, <1>2, <1>4, <1>5, Concludes

LEMMA ReadCallKeeps ==
    ASSUME CacheInv, NEW d \in Descriptors, NEW n \in Sizes, Read(d, n)
    PROVE  CacheInv'
  <1> DEFINE f == hs[d].file
             pos == hs[d].position
             len == Min({n, io.size[f] - pos})
             r == ReadDataFromFile(io, f, pos, len)
  <1>1. /\ f # NoFile /\ pos < io.size[f] /\ CacheCall(r)
        /\ hs' = [hs EXCEPT ![d].position = pos + Len(r.result)]
        /\ told' = told /\ touched' = touched
    BY DEF Read
  <1>2. /\ Sound(io) /\ io \in IO /\ hs \in [Descriptors -> Handle]
        /\ told \in [OpenFiles -> [Offsets -> Byte]] /\ touched \subseteq OpenFiles
        /\ \A g \in OpenFiles : ToldOf(io, told, g) /\ OwnerOf(io, hs, touched, g)
    BY DEF CacheInv, CacheTyped, Told, OwnersKnow, Sound
  <1>3. f \in OpenFiles /\ pos \in Nat
    BY <1>1, <1>2 DEF Handle
  <1>4. io.size[f] \in 0 .. Top /\ Top \in Nat /\ n \in Nat
    BY <1>2, <1>3, Bases, CacheAssumption DEF IO
  <1>5. len \in Nat /\ pos + len <= Top
    <2>1. len = IF n <= io.size[f] - pos THEN n ELSE io.size[f] - pos
      BY <1>3, <1>4, MinOfTwo
    <2> HIDE DEF f, pos, len
    <2> QED
      BY ONLY <1>1, <1>3, <1>4, <2>1
  <1> HIDE DEF f, pos, len
  <1>6. Keeps(io, r) /\ r.result \in Seq(Byte) /\ Len(r.result) = len
    BY <1>2, <1>3, <1>5, ReadKeeps
  <1> HIDE DEF r
  <1>7. Sound(r) /\ \A g \in OpenFiles : ToldOf(r, told, g) /\ OwnerOf(r, hs, touched, g)
    <2>1. Sound(r)
      BY <1>6 DEF Keeps
    <2> QED
      BY <1>2, <1>6, <2>1, KeepsTold, KeepsOwner
  <1>8. hs' \in [Descriptors -> Handle] /\ \A e \in Descriptors : hs'[e].file = hs[e].file
    <2>1. PICK z \in Nat : z = pos + Len(r.result)
      BY <1>3, <1>5, <1>6
    <2>2. hs' = [hs EXCEPT ![d].position = z]
      BY ONLY <1>1, <2>1
    <2> QED
      BY ONLY <1>2, <2>2, z \in Nat, d \in Descriptors DEF Handle
  <1>9. \A g \in OpenFiles : OwnerOf(r, hs', touched', g)
    BY <1>1, <1>7, <1>8 DEF OwnerOf
  <1> QED
    BY <1>1, <1>2, <1>7, <1>8, <1>9, Concludes

(* What the writers of f are told after done bytes b were taken at pos.    *)
Overwritten(tells, f, pos, done, b) ==
    [tells EXCEPT ![f] = [o \in Offsets |-> IF o \in pos .. pos + done - 1 THEN b ELSE tells[f][o]]]

(* WriteHandle writes one byte many times.                                 *)
AllAre(bytes, n, b) == \A i \in 1 .. n : bytes[i] = b

(* Then that is what is seen.                                              *)
LEMMA GrownTold ==
    ASSUME NEW s, s \in IO, NEW t, NEW f \in OpenFiles, NEW pos \in Nat, NEW done \in Nat, NEW bytes, NEW b,
           Grown(s, t, f, pos, done, bytes), AllAre(bytes, done, b),
           NEW tells, tells \in [OpenFiles -> [Offsets -> Byte]],
           NEW g \in OpenFiles, ToldOf(s, tells, g)
    PROVE  ToldOf(t, Overwritten(tells, f, pos, done, b), g)
  <1> DEFINE new == [o \in Offsets |-> IF o \in pos .. pos + done - 1 THEN b ELSE tells[f][o]]
             news == [tells EXCEPT ![f] = new]
  <1>1. \A h \in OpenFiles : news[h] = IF h = f THEN new ELSE tells[h]
    BY ONLY f \in OpenFiles, tells \in [OpenFiles -> [Offsets -> Byte]]
  <1> HIDE DEF news
  <1> SUFFICES ASSUME g \notin t.lost, NEW o \in Offsets
               PROVE  SeenAt(t, g, o) = news[g][o] /\ (o >= t.size[g] => news[g][o] = 0)
    BY DEF ToldOf, Overwritten, news
  <1>2. g \notin s.lost /\ o \in Nat
    BY OffsetPlace DEF Grown
  <1>3. SeenAt(s, g, o) = tells[g][o] /\ (o >= s.size[g] => tells[g][o] = 0)
    BY ONLY <1>2, ToldOf(s, tells, g), o \in Offsets DEF ToldOf
  <1>4. SeenAt(t, g, o) = IF g = f /\ o >= pos /\ o < pos + done THEN bytes[(o - pos) + 1]
                          ELSE SeenAt(s, g, o)
    BY ONLY Grown(s, t, f, pos, done, bytes), g \in OpenFiles, g \notin t.lost, o \in Offsets DEF Grown
  <1>5. s.size \in [OpenFiles -> 0 .. Top] /\ Top \in Nat
    BY ONLY s \in IO, Bases DEF IO
  <1>6. CASE g = f
    <2>1. o \in pos .. pos + done - 1 <=> o >= pos /\ o < pos + done
      BY ONLY <1>2, pos \in Nat, done \in Nat
    <2>2. news[g][o] = IF o >= pos /\ o < pos + done THEN b ELSE tells[g][o]
      BY ONLY <1>1, <1>6, <2>1, g \in OpenFiles, o \in Offsets
    <2>3. o >= pos /\ o < pos + done => bytes[(o - pos) + 1] = b
      <3>1. o >= pos /\ o < pos + done => (o - pos) + 1 \in 1 .. done
        BY ONLY <1>2, pos \in Nat, done \in Nat
      <3> QED
        BY ONLY <3>1, AllAre(bytes, done, b) DEF AllAre
    <2>4. t.size[f] = IF s.size[f] >= pos + done THEN s.size[f] ELSE pos + done
      BY ONLY Grown(s, t, f, pos, done, bytes), <1>5, f \in OpenFiles DEF Grown
    <2>5. s.size[f] \in Nat
      BY ONLY <1>5, f \in OpenFiles
    <2>6. o >= t.size[f] => ~(o < pos + done) /\ o >= s.size[f]
      BY ONLY <1>2, <2>4, <2>5, pos \in Nat, done \in Nat
    <2> QED
      BY ONLY <1>3, <1>4, <1>6, <2>2, <2>3, <2>6
  <1>7. CASE g # f
    <2>1. t.size[g] = s.size[g]
      BY ONLY Grown(s, t, f, pos, done, bytes), <1>5, <1>7, g \in OpenFiles DEF Grown
    <2>2. news[g] = tells[g]
      BY ONLY <1>1, <1>7, g \in OpenFiles
    <2> QED
      BY ONLY <1>3, <1>4, <1>7, <2>1, <2>2
  <1> QED
    BY ONLY <1>6, <1>7

LEMMA WriteCallKeeps ==
    ASSUME CacheInv, NEW d \in Descriptors, NEW b \in Bytes, NEW n \in Sizes, WriteHandle(d, b, n)
    PROVE  CacheInv'
  <1> DEFINE f == hs[d].file
             pos == IF hs[d].append THEN io.size[f] ELSE hs[d].position
             bytes == [k \in 1 .. n |-> b]
             w == WriteDataToFile(io, f, pos, bytes)
  <1>1. /\ f # NoFile /\ pos + n <= MaxChunks * ChunkSize /\ CacheCall(w)
        /\ hs' = [hs EXCEPT ![d].position = pos + w.result]
        /\ told' = [told EXCEPT ![f] = [o \in Offsets |->
                       IF o \in pos .. pos + w.result - 1 THEN b ELSE told[f][o]]]
        /\ touched' = touched \ {f}
    BY DEF WriteHandle
  <1>2. /\ Sound(io) /\ io \in IO /\ hs \in [Descriptors -> Handle]
        /\ told \in [OpenFiles -> [Offsets -> Byte]] /\ touched \subseteq OpenFiles
        /\ \A g \in OpenFiles : ToldOf(io, told, g) /\ OwnerOf(io, hs, touched, g)
    BY DEF CacheInv, CacheTyped, Told, OwnersKnow, Sound
  <1>3. f \in OpenFiles /\ hs[d].position \in Nat /\ hs[d].append \in BOOLEAN
    BY <1>1, <1>2 DEF Handle
  <1>4. io.size[f] \in 0 .. Top /\ Top \in Nat /\ n \in Nat
    BY <1>2, <1>3, Bases, CacheAssumption DEF IO
  <1>5. pos \in Nat /\ pos + n <= Top
    BY <1>1, <1>3, <1>4 DEF Top
  <1>6. bytes \in Seq(Byte) /\ Len(bytes) = n /\ \A i \in 1 .. n : bytes[i] = b
    BY <1>4 DEF Byte
  <1>7. ZeroPast(io, f)
    <2>1. io.size[f] \in Nat
      BY ONLY <1>4
    <2> QED
      BY ONLY <1>2, <1>3, <2>1, ToldZeroPast
  <1> HIDE DEF f, pos, bytes
  <1>8. PICK done \in 0 .. n : Grown(io, w, f, pos, done, bytes)
    <2>1. pos + Len(bytes) <= Top
      BY ONLY <1>5, <1>6
    <2>2. \E done \in 0 .. Len(bytes) : Grown(io, w, f, pos, done, bytes)
      BY ONLY <1>2, <1>3, <1>5, <1>6, <1>7, <2>1, WriteKeeps
    <2> QED
      BY ONLY <1>6, <2>2
  <1> HIDE DEF w
  <1>9. done \in Nat /\ w.result = done /\ Sound(w)
    BY ONLY <1>4, <1>8, done \in 0 .. n DEF Grown
  <1>10. \A g \in OpenFiles : ToldOf(w, told', g)
    <2>1. told' = Overwritten(told, f, pos, done, b)
      BY ONLY <1>1, <1>9 DEF Overwritten
    <2>2. AllAre(bytes, done, b)
      BY ONLY <1>4, <1>6, done \in 0 .. n DEF AllAre
    <2>3. \A g \in OpenFiles : ToldOf(w, Overwritten(told, f, pos, done, b), g)
      BY ONLY <1>2, <1>3, <1>5, <1>8, <1>9, <2>2, GrownTold
    <2> QED
      BY ONLY <2>1, <2>3
  <1>11. told' \in [OpenFiles -> [Offsets -> Byte]]
    <2> DEFINE new == [o \in Offsets |-> IF o \in pos .. pos + w.result - 1 THEN b ELSE told[f][o]]
    <2>1. new \in [Offsets -> Byte]
      BY ONLY <1>2, <1>3, b \in Bytes DEF Byte
    <2> HIDE DEF new
    <2>2. told' = [told EXCEPT ![f] = new]
      BY ONLY <1>1 DEF new
    <2> QED
      BY ONLY <1>2, <2>1, <2>2
  <1>12. hs' \in [Descriptors -> Handle] /\ \A e \in Descriptors : hs'[e].file = hs[e].file
    <2>1. PICK z \in Nat : z = pos + w.result
      BY ONLY <1>5, <1>9
    <2>2. hs' = [hs EXCEPT ![d].position = z]
      BY ONLY <1>1, <2>1
    <2> QED
      BY ONLY <1>2, <2>2, z \in Nat, d \in Descriptors DEF Handle
  <1>13. ASSUME NEW g \in OpenFiles PROVE OwnerOf(w, hs', touched', g)
    <2>1. w.dirty = [io.dirty EXCEPT ![f] = TRUE] /\ io.lost \subseteq w.lost
          /\ \A h \in OpenFiles \ {f} : HasDirty(w, h) => HasDirty(io, h)
      BY ONLY <1>8 DEF Grown
    <2>2. io.dirty \in [OpenFiles -> BOOLEAN]
      BY ONLY <1>2 DEF IO
    <2>3. CASE g = f
      <3>1. w.dirty[f] /\ hs'[d].file = f
        BY <1>3, <1>12, <2>1, <2>2 DEF f
      <3> QED
        BY <2>3, <3>1 DEF OwnerOf
    <2>4. CASE g # f
      <3>1. OwnerOf(io, hs, touched, g)
        BY <1>2
      <3>2. w.dirty[g] = io.dirty[g] /\ (HasDirty(w, g) => HasDirty(io, g))
        BY ONLY <2>1, <2>2, <2>4, g \in OpenFiles
      <3>3. g \notin touched' => g \notin touched
        BY ONLY <1>1, <2>4
      <3> QED
        BY ONLY <1>12, <2>1, <3>1, <3>2, <3>3 DEF OwnerOf
    <2> QED
      BY ONLY <2>3, <2>4
  <1>14. touched' \subseteq OpenFiles
    BY ONLY <1>1, <1>2
  <1> QED
    BY ONLY <1>1, <1>9, <1>10, <1>11, <1>12, <1>13, <1>14, Concludes

(* A header may be written at the end of a call.                           *)
LEMMA HeaderEnds ==
    ASSUME CacheInv, NEW f \in OpenFiles, NEW i, Sound(i),
           NEW cut \in [OpenFiles -> [Offsets -> Byte]],
           \A g \in OpenFiles : ToldOf(i, cut, g) /\ OwnerOf(i, hs, touched, g),
           CacheCall(WriteHeader(i, f)), told' = cut, touched' = touched \union {f}, hs' = hs
    PROVE  CacheInv'
  <1> DEFINE s == WriteHeader(i, f)
  <1>1. hs \in [Descriptors -> Handle] /\ touched \subseteq OpenFiles
    BY DEF CacheInv, CacheTyped
  <1>2. SameCache(i, s) /\ s.size = i.size /\ \A g \in OpenFiles \ {f} : s.dirty[g] = i.dirty[g]
    BY HeaderKeeps
  <1>3. CacheCall(s)
    OBVIOUS
  <1> HIDE DEF s
  <1>4. Sound(s) /\ \A g \in OpenFiles : ToldOf(s, cut, g)
    BY <1>2, SameTold
  <1>5. s.lost = i.lost /\ \A g : HasDirty(s, g) <=> HasDirty(i, g)
    BY <1>2, SameCacheSeen DEF SameCache
  <1>6. ASSUME NEW g \in OpenFiles PROVE OwnerOf(s, hs', touched', g)
    <2>1. CASE g = f
      BY <2>1 DEF OwnerOf
    <2>2. CASE g # f
      <3>1. OwnerOf(i, hs, touched, g) /\ s.dirty[g] = i.dirty[g]
        BY <1>2, <2>2
      <3>2. hs' = hs /\ touched' = touched \union {f}
        OBVIOUS
      <3> QED
        BY ONLY <1>5, <3>1, <3>2 DEF OwnerOf
    <2> QED
      BY <2>1, <2>2
  <1> QED
    BY <1>1, <1>3, <1>4, <1>6, Concludes

LEMMA SetAttributesKeeps ==
    ASSUME CacheInv, NEW f \in OpenFiles, NEW size \in Offsets, SetAttributes(f, size)
    PROVE  CacheInv'
  <1> DEFINE r == ResizeFile(io, f, size)
             cut == [told EXCEPT ![f] = Cut(told[f], size)]
  <1>1. CacheCall(WriteHeader(r, f)) /\ told' = cut /\ touched' = touched \union {f} /\ hs' = hs
    BY DEF SetAttributes
  <1>2. /\ Sound(io) /\ io \in IO /\ hs \in [Descriptors -> Handle]
        /\ told \in [OpenFiles -> [Offsets -> Byte]] /\ touched \subseteq OpenFiles
        /\ \A g \in OpenFiles : ToldOf(io, told, g) /\ OwnerOf(io, hs, touched, g)
    BY DEF CacheInv, CacheTyped, Told, OwnersKnow, Sound
  <1>3. Resized(io, r, f, size)
    BY <1>2, ResizeKeeps
  <1> HIDE DEF r
  <1>4. cut \in [OpenFiles -> [Offsets -> Byte]]
    BY <1>2, CutTold
  <1>5. \A g \in OpenFiles : ToldOf(r, cut, g)
    BY <1>2, <1>3, ResizedTold
  <1>6. Sound(r) /\ \A g \in OpenFiles : OwnerOf(r, hs, touched, g)
    BY <1>2, <1>3, ResizedOwner DEF Resized
  <1> HIDE DEF cut
  <1> QED
    BY <1>1, <1>4, <1>5, <1>6, HeaderEnds

LEMMA ChangeHeaderKeeps ==
    ASSUME CacheInv, NEW f \in OpenFiles, ChangeHeader(f)
    PROVE  CacheInv'
  <1>1. CacheCall(WriteHeader(io, f)) /\ told' = told /\ touched' = touched \union {f} /\ hs' = hs
    BY DEF ChangeHeader
  <1>2. /\ Sound(io) /\ told \in [OpenFiles -> [Offsets -> Byte]]
        /\ \A g \in OpenFiles : ToldOf(io, told, g) /\ OwnerOf(io, hs, touched, g)
    BY DEF CacheInv, CacheTyped, Told, OwnersKnow
  <1> QED
    BY <1>1, <1>2, HeaderEnds

LEMMA DeleteKeeps ==
    ASSUME CacheInv, NEW f \in OpenFiles, DeleteAndCreate(f)
    PROVE  CacheInv'
  <1> DEFINE i == Uncached(io, f)
             none == [c \in ChunkNumbers |-> NoChunk]
             s == [i EXCEPT !.store[f] = none, !.size[f] = 0, !.dirty[f] = FALSE, !.lost = i.lost \ {f}]
             cut == [told EXCEPT ![f] = Cut(told[f], 0)]
  <1>1. ~IsOpen(f) /\ CacheCall(s) /\ told' = cut /\ touched' = touched \ {f} /\ hs' = hs
    BY DEF DeleteAndCreate, Uncached
  <1>2. /\ Sound(io) /\ io \in IO /\ hs \in [Descriptors -> Handle]
        /\ told \in [OpenFiles -> [Offsets -> Byte]] /\ touched \subseteq OpenFiles
        /\ \A g \in OpenFiles : ToldOf(io, told, g) /\ OwnerOf(io, hs, touched, g)
    BY DEF CacheInv, CacheTyped, Told, OwnersKnow, Sound
  <1>3. /\ Sound(i) /\ Absent(i, f) /\ i.size = io.size /\ i.dirty = io.dirty /\ i.lost = io.lost
        /\ \A g \in OpenFiles \ i.lost : g # f \/ ~HasDirty(io, f) =>
              \A c \in ChunkNumbers : Sees(i, g, c) = Sees(io, g, c)
        /\ \A g \in OpenFiles : HasDirty(i, g) => HasDirty(io, g)
    BY <1>2, UncachedFields
  <1>4. /\ cut \in [OpenFiles -> [Offsets -> Byte]]
        /\ \A o \in Offsets : cut[f][o] = IF o < 0 THEN told[f][o] ELSE 0
        /\ \A g \in OpenFiles \ {f} : cut[g] = told[g]
    BY <1>2, CutTold
  <1> HIDE DEF i, cut
  <1>5. i \in IO
    BY <1>3 DEF Sound
  <1>6. none \in [ChunkNumbers -> Chunk] /\ \A c \in ChunkNumbers : none[c] = NoChunk
    BY EmptyChunk
  <1> HIDE DEF none
  <1>7. /\ s \in IO /\ s.lines = i.lines /\ s.size = [i.size EXCEPT ![f] = 0]
        /\ s.store = [i.store EXCEPT ![f] = none] /\ s.dirty = [i.dirty EXCEPT ![f] = FALSE]
        /\ s.lost = i.lost \ {f}
    <2> DEFINE store == [i.store EXCEPT ![f] = none]
               size == [i.size EXCEPT ![f] = 0]
               dirty == [i.dirty EXCEPT ![f] = FALSE]
               lost == i.lost \ {f}
    <2>1. store \in [OpenFiles -> [ChunkNumbers -> Chunk]] /\ dirty \in [OpenFiles -> BOOLEAN]
          /\ lost \in SUBSET OpenFiles
      BY ONLY <1>5, <1>6 DEF IO
    <2>2. 0 \in 0 .. Top
      BY Bases
    <2>3. size \in [OpenFiles -> 0 .. Top]
      BY ONLY <1>5, <2>2 DEF IO
    <2>4. s = [i EXCEPT !.store = store, !.size = size, !.dirty = dirty, !.lost = lost]
      BY ONLY <1>5 DEF IO
    <2> HIDE DEF store, size, dirty, lost, s
    <2>5. /\ s \in IO /\ s.lines = i.lines /\ s.size = size /\ s.store = store /\ s.dirty = dirty
          /\ s.lost = lost
      BY ONLY <1>5, <2>1, <2>3, <2>4 DEF IO
    <2> QED
      BY <2>5 DEF store, size, dirty, lost
  <1> HIDE DEF s
  <1>8. Stored(i, s, f, none, 0)
    <2>1. (\A g \in OpenFiles \ {f} : s.store[g] = i.store[g]) /\ s.store[f] = none
      BY ONLY <1>5, <1>7, f \in OpenFiles DEF IO
    <2>2. \A c \in ChunkNumbers : ZeroFrom(none[c].data, none[c].n)
      BY <1>6, EmptyChunk
    <2> QED
      BY ONLY <1>7, <2>1, <2>2 DEF Stored
  <1>9. /\ Sound(s) /\ Absent(s, f)
        /\ \A g \in OpenFiles \ {f} : \A c \in ChunkNumbers : Sees(s, g, c) = Sees(i, g, c)
        /\ \A c \in ChunkNumbers : Sees(s, f, c) = none[c].data
        /\ \A g : HasDirty(s, g) <=> HasDirty(i, g)
    BY <1>3, <1>8, StoredKeeps
  <1>10. ASSUME NEW g \in OpenFiles PROVE ToldOf(s, cut, g)
    <2> SUFFICES ASSUME g \notin s.lost, NEW o \in Offsets
                 PROVE  SeenAt(s, g, o) = cut[g][o] /\ (o >= s.size[g] => cut[g][o] = 0)
      BY DEF ToldOf
    <2>1. o \in Nat /\ ChunkAt(o) \in ChunkNumbers /\ (o % ChunkSize) + 1 \in 1 .. ChunkSize
      BY OffsetPlace
    <2>2. CASE g = f
      <3>1. cut[f][o] = 0
        BY <1>4, <2>1
      <3>2. SeenAt(s, f, o) = Zeros[(o % ChunkSize) + 1]
        BY <1>6, <1>9, <2>1 DEF SeenAt, NoChunk
      <3>3. SeenAt(s, f, o) = 0
        BY <2>1, <3>2 DEF Zeros
      <3> QED
        BY <2>2, <3>1, <3>3
    <2>3. CASE g # f
      <3>1. g \in OpenFiles \ i.lost /\ g \notin io.lost
        BY <1>3, <1>7, <2>3
      <3>2. Sees(s, g, ChunkAt(o)) = Sees(io, g, ChunkAt(o))
        BY <1>3, <1>9, <2>1, <2>3, <3>1
      <3>3. SeenAt(io, g, o) = told[g][o] /\ (o >= io.size[g] => told[g][o] = 0)
        BY <1>2, <3>1 DEF ToldOf
      <3>4. s.size[g] = io.size[g]
        BY ONLY <1>3, <1>5, <1>7, <2>3, g \in OpenFiles DEF IO
      <3>5. cut[g] = told[g]
        BY <1>4, <2>3
      <3> QED
        BY ONLY <3>2, <3>3, <3>4, <3>5 DEF SeenAt
    <2> QED
      BY <2>2, <2>3
  <1>11. ASSUME NEW g \in OpenFiles PROVE OwnerOf(s, hs', touched', g)
    <2>1. CASE g = f
      BY <1>9, <2>1 DEF OwnerOf, HasDirty, Absent
    <2>2. CASE g # f
      <3>1. OwnerOf(io, hs, touched, g)
        BY <1>2
      <3>2. s.dirty[g] = io.dirty[g] /\ (g \in s.lost <=> g \in io.lost)
        BY ONLY <1>3, <1>5, <1>7, <2>2, g \in OpenFiles DEF IO
      <3>3. HasDirty(s, g) => HasDirty(io, g)
        BY <1>3, <1>9
      <3> QED
        BY ONLY <1>1, <2>2, <3>1, <3>2, <3>3 DEF OwnerOf
    <2> QED
      BY <2>1, <2>2
  <1> QED
    BY <1>1, <1>2, <1>4, <1>9, <1>10, <1>11, Concludes

(* Where a mount finds the end of a file.                                  *)
LEMMA EndOfIs ==
    ASSUME NEW s, s \in IO, NEW f \in OpenFiles
    PROVE  /\ EndOf(s, f) \in 0 .. Top
           /\ \A c \in ChunkNumbers : s.store[f][c].n > 0 => Base(c) + s.store[f][c].n <= EndOf(s, f)
  <1> DEFINE used == {e \in ChunkNumbers : s.store[f][e].n > 0}
             Ends == {0} \union {(c - 1) * ChunkSize + s.store[f][c].n : c \in used}
  <1>1. EndOf(s, f) = Max(Ends)
    BY DEF EndOf
  <1>2. ASSUME NEW c \in ChunkNumbers
        PROVE  s.store[f][c].n \in Nat /\ Base(c) + s.store[f][c].n \in 0 .. Top
    <2>1. s.store[f][c].n \in 0 .. ChunkSize
      BY DEF IO, Chunk
    <2>2. ChunkSize \in Nat \ {0} /\ MaxChunks + 1 \in Nat \ {0} /\ c \in Nat \ {0} /\ c < MaxChunks + 1
      BY ONLY CacheAssumption, c \in ChunkNumbers DEF ChunkNumbers
    <2>3. Base(c) \in Nat /\ Base(c) + ChunkSize <= Base(MaxChunks + 1)
      BY <2>2, Bases
    <2>4. Base(MaxChunks + 1) = Top /\ Top \in Nat
      BY Bases
    <2> QED
      BY ONLY <2>1, <2>2, <2>3, <2>4
  <1>3. Top \in Nat
    BY Bases
  <1>4. \A e \in Ends : e \in 0 .. Top
    <2> SUFFICES ASSUME NEW c \in used PROVE (c - 1) * ChunkSize + s.store[f][c].n \in 0 .. Top
      BY <1>3
    <2> QED
      BY <1>2 DEF Base
  <1>5. 0 \in Ends /\ \A c \in ChunkNumbers : s.store[f][c].n > 0 => Base(c) + s.store[f][c].n \in Ends
    BY DEF Base
  <1> HIDE DEF Ends
  <1>6. Ends \in SUBSET Nat /\ Ends # {} /\ \A e \in Ends : e <= Top
    BY ONLY <1>3, <1>4, <1>5
  <1>7. PICK m \in Ends : \A e \in Ends : e <= m
    BY <1>3, <1>6, GreatestNumber
  <1>8. Max(Ends) \in Ends /\ \A e \in Ends : e <= Max(Ends)
    BY <1>6, <1>7 DEF Max
  <1> QED
    BY <1>1, <1>4, <1>5, <1>8

(* What the flash has at an offset.                                        *)
OnFlash(s, f, o) == s.store[f][ChunkAt(o)].data[(o % ChunkSize) + 1]

(* Behind the end there is nothing on the flash.                           *)
LEMMA FlashEnds ==
    ASSUME NEW s, Sound(s), NEW f \in OpenFiles, f \notin s.lost, NEW o \in Offsets, o >= EndOf(s, f)
    PROVE  OnFlash(s, f, o) = 0
  <1> DEFINE c == ChunkAt(o)
             j == (o % ChunkSize) + 1
             n == s.store[f][c].n
  <1>1. o \in Nat /\ c \in ChunkNumbers /\ j \in 1 .. ChunkSize /\ Base(c) + j = o + 1
    BY OffsetPlace
  <1>2. s \in IO /\ ZeroFrom(s.store[f][c].data, n)
    BY <1>1 DEF Sound, Tails
  <1>3. n > 0 => Base(c) + n <= EndOf(s, f)
    BY <1>1, <1>2, EndOfIs
  <1>4. EndOf(s, f) \in 0 .. Top /\ Top \in Nat
    BY <1>2, EndOfIs, Bases
  <1>5. n \in 0 .. ChunkSize
    BY <1>1, <1>2 DEF IO, Chunk
  <1>6. Base(c) \in Nat /\ ChunkSize \in Nat
    BY <1>1, Bases, CacheAssumption DEF ChunkNumbers
  <1> HIDE DEF c, j, n
  <1>7. j > n
    BY ONLY <1>1, <1>3, <1>4, <1>5, <1>6, o >= EndOf(s, f)
  <1>8. s.store[f][c].data[j] = 0
    BY ONLY <1>1, <1>2, <1>7 DEF ZeroFrom
  <1> QED
    BY <1>8 DEF c, j, OnFlash

LEMMA RemountKeeps ==
    ASSUME CacheInv, Remount
    PROVE  CacheInv'
  <1> DEFINE spoilt == {f \in OpenFiles : IsOpen(f)} \union touched \union io.lost
             lines == [k \in 1 .. Lines |-> NoLine]
             size == [f \in OpenFiles |-> EndOf(io, f)]
             dirty == [f \in OpenFiles |-> FALSE]
             s == [io EXCEPT !.lines = lines, !.last = 0, !.size = size, !.dirty = dirty]
  <1>1. /\ CacheCall(s)
        /\ hs' = [d \in Descriptors |-> FreeHandle]
        /\ told' = [f \in OpenFiles |-> IF f \notin spoilt THEN told[f] ELSE
                      Cut([o \in Offsets |-> io.store[f][ChunkAt(o)].data[(o % ChunkSize) + 1]],
                          EndOf(io, f))]
        /\ touched' = {}
    BY DEF Remount
  <1>2. /\ Sound(io) /\ io \in IO /\ hs \in [Descriptors -> Handle]
        /\ told \in [OpenFiles -> [Offsets -> Byte]] /\ touched \subseteq OpenFiles
        /\ \A g \in OpenFiles : ToldOf(io, told, g) /\ OwnerOf(io, hs, touched, g)
    BY DEF CacheInv, CacheTyped, Told, OwnersKnow, Sound
  <1>3. NoLine \in Line /\ NoLine.file = NoFile /\ NoLine.dirty = FALSE
    BY EmptyChunk, CacheAssumption DEF NoLine, Line, ChunkNumbers
  <1>4. lines \in [1 .. Lines -> Line] /\ size \in [OpenFiles -> 0 .. Top] /\ dirty \in [OpenFiles -> BOOLEAN]
    BY <1>2, <1>3, EndOfIs
  <1>5. /\ \A k \in 1 .. Lines : lines[k].file = NoFile /\ ~lines[k].dirty
        /\ \A f \in OpenFiles : size[f] = EndOf(io, f)
    BY <1>3
  <1> HIDE DEF spoilt, lines, size, dirty
  <1>6. /\ s \in IO /\ s.lines = lines /\ s.size = size /\ s.dirty = dirty
        /\ s.store = io.store /\ s.lost = io.lost
    BY ONLY <1>2, <1>4 DEF IO
  <1> HIDE DEF s
  <1>7. \A f \in OpenFiles : (\A c, k : ~Holds(s, k, f, c)) /\ ~HasDirty(s, f)
    BY <1>5, <1>6, CacheAssumption DEF Holds, HasDirty
  <1>8. Distinct(s) /\ Clean(s)
    BY <1>5, <1>6, <1>7 DEF Distinct, Clean
  <1>9. Tails(s)
    BY <1>2, <1>5, <1>6 DEF Sound, Tails
  <1>10. ASSUME NEW f \in OpenFiles, NEW o \in Offsets PROVE SeenAt(s, f, o) = OnFlash(io, f, o)
    <2>1. ChunkAt(o) \in ChunkNumbers
      BY OffsetPlace
    <2>2. Sees(s, f, ChunkAt(o)) = io.store[f][ChunkAt(o)].data
      BY <1>6, <1>7, <1>8, <2>1, Sight
    <2> QED
      BY <2>2 DEF SeenAt, OnFlash
  <1>11. \A f \in OpenFiles : \A o \in Offsets :
            told'[f][o] = IF f \notin spoilt THEN told[f][o]
                          ELSE IF o < EndOf(io, f) THEN OnFlash(io, f, o) ELSE 0
    BY <1>1 DEF Cut, OnFlash
  <1>12. ASSUME NEW f \in OpenFiles, f \notin spoilt, NEW o \in Offsets
         PROVE  OnFlash(io, f, o) = told[f][o]
    <2>1. f \notin io.lost /\ f \notin touched /\ ~(\E d \in Descriptors : hs[d].file = f)
      BY <1>12 DEF spoilt, IsOpen
    <2>2. ~HasDirty(io, f)
      BY <1>2, <2>1 DEF OwnerOf
    <2>3. ChunkAt(o) \in ChunkNumbers /\ Distinct(io)
      BY <1>2, OffsetPlace DEF Sound
    <2>4. Sees(io, f, ChunkAt(o)) = io.store[f][ChunkAt(o)].data
      <3>1. CASE \E k : Holds(io, k, f, ChunkAt(o))
        <4>1. PICK k : Holds(io, k, f, ChunkAt(o))
          BY <3>1
        <4>2. k \in 1 .. Lines /\ io.lines[k].file = f /\ io.lines[k].chunk = ChunkAt(o)
          BY <4>1 DEF Holds
        <4>3. ~io.lines[k].dirty /\ f # NoFile
          BY <2>2, <4>2, CacheAssumption DEF HasDirty
        <4>4. io.lines[k].data = io.store[f][ChunkAt(o)].data
          BY <1>2, <4>2, <4>3 DEF Sound, Clean
        <4> QED
          BY <2>3, <4>1, <4>4, Sight
      <3>2. CASE \A k : ~Holds(io, k, f, ChunkAt(o))
        BY <2>3, <3>2, Sight
      <3> QED
        BY <3>1, <3>2
    <2>5. SeenAt(io, f, o) = told[f][o]
      BY <1>2, <2>1 DEF ToldOf
    <2> QED
      BY ONLY <2>4, <2>5 DEF SeenAt, OnFlash
  <1>13. ASSUME NEW f \in OpenFiles PROVE ToldOf(s, told', f)
    <2> SUFFICES ASSUME f \notin s.lost, NEW o \in Offsets
                 PROVE  SeenAt(s, f, o) = told'[f][o] /\ (o >= s.size[f] => told'[f][o] = 0)
      BY DEF ToldOf
    <2>1. SeenAt(s, f, o) = OnFlash(io, f, o)
      BY <1>10
    <2>2. o >= EndOf(io, f) => OnFlash(io, f, o) = 0
      BY <1>2, <1>6, FlashEnds
    <2>3. o \in Nat /\ EndOf(io, f) \in 0 .. Top /\ Top \in Nat
      BY <1>2, OffsetPlace, EndOfIs, Bases
    <2>4. o < EndOf(io, f) \/ o >= EndOf(io, f)
      BY ONLY <2>3
    <2>5. told'[f][o] = OnFlash(io, f, o)
      BY <1>11, <1>12, <2>2, <2>4
    <2>6. s.size[f] = EndOf(io, f)
      BY <1>5, <1>6
    <2> QED
      BY ONLY <2>1, <2>2, <2>5, <2>6
  <1>14. told' \in [OpenFiles -> [Offsets -> Byte]]
    <2>1. ASSUME NEW f \in OpenFiles, NEW o \in Offsets PROVE OnFlash(io, f, o) \in Byte
      <3>1. ChunkAt(o) \in ChunkNumbers /\ (o % ChunkSize) + 1 \in 1 .. ChunkSize
        BY OffsetPlace
      <3>2. io.store[f][ChunkAt(o)].data \in Data
        BY <1>2, <3>1 DEF IO, Chunk
      <3> QED
        BY <3>1, <3>2 DEF OnFlash, Data
    <2>2. 0 \in Byte
      BY DEF Byte
    <2>3. ASSUME NEW f \in OpenFiles PROVE told'[f] \in [Offsets -> Byte]
      <3>1. CASE f \notin spoilt
        BY <1>1, <1>2, <3>1
      <3>2. CASE f \in spoilt
        <4>1. told'[f] = Cut([o \in Offsets |-> OnFlash(io, f, o)], EndOf(io, f))
          BY <1>1, <3>2 DEF OnFlash
        <4> QED
          BY <2>1, <2>2, <4>1 DEF Cut
      <3> QED
        BY <3>1, <3>2
    <2> QED
      BY <1>1, <2>3
  <1>15. hs' \in [Descriptors -> Handle]
    BY <1>1 DEF FreeHandle, Handle
  <1>16. \A f \in OpenFiles : OwnerOf(s, hs', touched', f)
    BY <1>7 DEF OwnerOf
  <1>17. touched' \subseteq OpenFiles /\ Sound(s)
    BY <1>1, <1>6, <1>8, <1>9 DEF Sound
  <1> QED
    BY <1>1, <1>13, <1>14, <1>15, <1>16, <1>17, Concludes

-----------------------------------------------------------------------------
(* All calls.                                                              *)
LEMMA CacheStep == CacheInv /\ [CacheNext]_cacheVars => CacheInv'
  <1> SUFFICES ASSUME CacheInv, [CacheNext]_cacheVars PROVE CacheInv'
    OBVIOUS
  <1>1. ASSUME NEW d \in Descriptors, NEW f \in OpenFiles, NEW append \in BOOLEAN, NEW trunc \in BOOLEAN,
               OpenHandle(d, f, append, trunc)
        PROVE  CacheInv'
    BY <1>1, OpenKeeps
  <1>2. ASSUME NEW d \in Descriptors, CloseHandle(d) PROVE CacheInv'
    BY <1>2, CloseKeeps
  <1>3. ASSUME NEW d \in Descriptors, NEW pos \in Offsets, Seek(d, pos) PROVE CacheInv'
    BY <1>3, SeekKeeps
  <1>4. ASSUME NEW d \in Descriptors, NEW n \in Sizes, Read(d, n) PROVE CacheInv'
    BY <1>4, ReadCallKeeps
  <1>5. ASSUME NEW d \in Descriptors, NEW b \in Bytes, NEW n \in Sizes, WriteHandle(d, b, n) PROVE CacheInv'
    BY <1>5, WriteCallKeeps
  <1>6. ASSUME NEW f \in OpenFiles, NEW size \in Offsets, SetAttributes(f, size) PROVE CacheInv'
    BY <1>6, SetAttributesKeeps
  <1>7. ASSUME NEW f \in OpenFiles, DeleteAndCreate(f) PROVE CacheInv'
    BY <1>7, DeleteKeeps
  <1>8. CASE Remount
    BY <1>8, RemountKeeps
  <1>9. ASSUME NEW f \in OpenFiles, ChangeHeader(f) PROVE CacheInv'
    BY <1>9, ChangeHeaderKeeps
  <1>10. CASE UNCHANGED cacheVars
    <2>1. io' = io /\ hs' = hs /\ told' = told /\ touched' = touched
      BY <1>10 DEF cacheVars
    <2>2. CacheTyped'
      BY <2>1 DEF CacheInv, CacheTyped
    <2>3. Sound(io') /\ Told' /\ OwnersKnow'
      BY <2>1 DEF CacheInv, Told, OwnersKnow
    <2> QED
      BY <2>2, <2>3 DEF CacheInv
  <1> QED
    BY <1>1, <1>2, <1>3, <1>4, <1>5, <1>6, <1>7, <1>8, <1>9, <1>10 DEF CacheNext

(* In every state of the files and the cache: the cache agrees with the    *)
(* flash, what a file reads as is what its writers were told, and whoever  *)
(* has unwritten data has the file open or its object marked dirty.        *)
THEOREM CacheInvariant == CacheSpec => []CacheInv
  BY CacheStarts, CacheStep, PTL DEF CacheSpec

(* What the invariant says of the properties.                              *)
LEMMA InvReadsBack == CacheInv => ReadsBack
  <1> SUFFICES ASSUME CacheInv, NEW f \in OpenFiles \ io.lost, NEW o \in Offsets
               PROVE  ByteAt(f, o) = told[f][o]
    BY DEF ReadsBack
  <1>1. SeenAt(io, f, o) = told[f][o] /\ (o >= io.size[f] => told[f][o] = 0)
    BY DEF CacheInv, Told, ToldOf
  <1>2. io.size[f] \in 0 .. Top /\ Top \in Nat /\ o \in Nat
    BY Bases, OffsetPlace DEF CacheInv, Sound, IO
  <1>3. o < io.size[f] \/ o >= io.size[f]
    BY ONLY <1>2
  <1>4. ByteAt(f, o) = IF o < io.size[f] THEN SeenAt(io, f, o) ELSE 0
    BY DEF ByteAt, SeenAt, Sees
  <1>5. ~(o < io.size[f]) => o >= io.size[f]
    BY ONLY <1>3
  <1> QED
    BY ONLY <1>1, <1>4, <1>5

LEMMA InvClosedIsFlushed == CacheInv => ClosedIsFlushed
  <1> SUFFICES ASSUME CacheInv, NEW f \in OpenFiles \ (touched \union io.lost), ~IsOpen(f),
                      NEW k \in LinesOf(io, f), io.lines[k].dirty
               PROVE  FALSE
    BY DEF ClosedIsFlushed
  <1>1. HasDirty(io, f)
    BY DEF LinesOf, HasDirty
  <1> QED
    BY <1>1 DEF CacheInv, OwnersKnow, OwnerOf, IsOpen

(* Whatever is written, truncated, cached, pushed out, flushed or cut off  *)
(* by a power loss after its close, a file reads as its writers were told, *)
(* for every number of lines, chunks, files and handles and every size.    *)
THEOREM FilesReadBack == CacheSpec => []ReadsBack
  BY CacheInvariant, InvReadsBack, PTL

(* A closed file leaves no data in the cache only, unless its header was   *)
(* written after the data or a refused write dropped some.                 *)
THEOREM ClosedFilesAreFlushed == CacheSpec => []ClosedIsFlushed
  BY CacheInvariant, InvClosedIsFlushed, PTL

=============================================================================
