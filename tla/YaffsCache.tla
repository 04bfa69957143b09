----------------------------- MODULE YaffsCache -----------------------------
(***************************************************************************)
(* Reading and writing open files, byte by byte: the handles of yaffsfs.c, *)
(* and the short operation cache of yaffs_guts.c between them and the      *)
(* chunks on a flash that other files fill and empty.                      *)
(*                                                                         *)
(* io      taken and returned by the operators:                            *)
(*   store   the chunks of each file; n: byteCount of the tags, 0 if the   *)
(*           file has no such chunk                                        *)
(*   size, dirty   fileSize and dirty of each object                       *)
(*   lines   srCache; last: srLastUse                                      *)
(*   erased  nErasedBlocks, of blocks of one page: where a block has more, *)
(*           the writes of a call run into the reserve at the same places  *)
(*   lost    files of which a refused write dropped data                   *)
(*   result  what the last operation returned                              *)
(* hs      the handles: file (NoFile if free), position, append            *)
(* told    the bytes that each file has, as its writers were told          *)
(* touched files whose header was written since the last write to them     *)
(* steps   calls so far                                                    *)
(***************************************************************************)
EXTENDS Integers, Sequences, FiniteSets, FiniteSetsExt

CONSTANTS OpenFiles, NoFile, Descriptors,
          ChunkSize,   \* YAFFS_BYTES_PER_CHUNK
          Lines,       \* nShortOpCaches
          UseLimit,    \* 100000000 in the code
          Reserved,    \* nReservedBlocks
          Bytes,       \* not 0
          Sizes,       \* of the pieces read and written
          MaxChunks, MaxSteps,  \* bounds
          MaxFree      \* bound: blocks beyond the reserve that a call finds

ASSUME CacheAssumption ==
    /\ NoFile \notin OpenFiles
    /\ ChunkSize \in Nat \ {0} /\ Lines \in Nat \ {0}
    /\ UseLimit \in Nat /\ Reserved \in Nat
    /\ MaxChunks \in Nat \ {0} /\ Sizes \subseteq Nat
    /\ MaxFree \in Nat \ {0}

VARIABLES io, hs, told, touched, steps
cacheVars == <<io, hs, told, touched, steps>>

ChunkNumbers == 1 .. MaxChunks
Offsets == 0 .. MaxChunks * ChunkSize - 1
Zeros == [k \in 1 .. ChunkSize |-> 0]
NoChunk == [data |-> Zeros, n |-> 0]
ChunkAt(offset) == offset \div ChunkSize + 1

-----------------------------------------------------------------------------
(* The chunks.  A new chunk needs a block beyond the reserve, or room in   *)
(* the reserve for those who may use it, and leaves less for the next of   *)
(* the same call.                                                          *)
WriteChunk(s, f, c, data, n, useReserve) ==
    IF s.erased > Reserved \/ (useReserve /\ s.erased > 0)
    THEN [s EXCEPT !.store[f][c] = [data |-> data, n |-> n], !.result = TRUE,
                   !.erased = @ - 1]
    ELSE [s EXCEPT !.result = FALSE]

-----------------------------------------------------------------------------
(* The cache.                                                              *)
NoLine == [file |-> NoFile, chunk |-> 1, dirty |-> FALSE, use |-> 0,
           data |-> Zeros, n |-> 0]

LinesOf(s, f) == {k \in 1 .. Lines : s.lines[k].file = f}

FindChunkCache(s, f, c) ==
    LET hits == {k \in LinesOf(s, f) : s.lines[k].chunk = c}
    IN  IF hits = {} THEN 0 ELSE Min(hits)

DirtyChunks(s, f) ==
    {s.lines[k].chunk : k \in {j \in LinesOf(s, f) : s.lines[j].dirty}}

Emptied(s, k) ==
    [s EXCEPT !.lines[k] = [@ EXCEPT !.dirty = FALSE, !.file = NoFile],
              !.lost = IF s.result THEN @ ELSE @ \union {s.lines[k].file}]

FlushLine(s, f, k) ==
    Emptied(WriteChunk(s, f, s.lines[k].chunk, s.lines[k].data, s.lines[k].n, TRUE), k)

(* Mutant: the flush stops behind its first line.                          *)
FlushLowestOnly(s, f) ==
    LET chunks == DirtyChunks(s, f)
    IN  IF chunks = {} \/ ~s.result THEN s
        ELSE [FlushLine(s, f, FindChunkCache(s, f, Min(chunks))) EXCEPT !.result = FALSE]

FlushLowest(s, f) ==
    LET chunks == DirtyChunks(s, f)
    IN  IF chunks = {} \/ ~s.result THEN s
        ELSE FlushLine(s, f, FindChunkCache(s, f, Min(chunks)))

(* The dirty lines of a file, the lowest chunk first, until one is         *)
(* refused; that one is dropped.                                           *)
FlushFilesChunkCache(s, f) ==
    LET flushed[k \in 0 .. Lines] ==
            IF k = 0 THEN [s EXCEPT !.result = TRUE] ELSE FlushLowest(flushed[k - 1], f)
    IN  flushed[Lines]

GrabChunkCacheWorker(s) ==
    LET empty == LinesOf(s, NoFile)
    IN  [s EXCEPT !.result = IF empty = {} THEN 0 ELSE Min(empty)]

PushOut(s) ==
    LET oldest == CHOOSE k \in 1 .. Lines : \A j \in 1 .. Lines :
                     s.lines[k].use < s.lines[j].use \/ (s.lines[k].use = s.lines[j].use /\ k <= j)
    IN  IF s.result # 0 THEN s
        ELSE IF s.lines[oldest].dirty
        THEN GrabChunkCacheWorker(FlushFilesChunkCache(s, s.lines[oldest].file))
        ELSE [s EXCEPT !.result = oldest]

(* result is the line: an empty one, or the least recently used one, after *)
(* its file was flushed if that one is dirty.                              *)
GrabChunkCache(s) == PushOut(GrabChunkCacheWorker(s))

(* Of line result.  The reset forgets line 1 (srCache[0]).                 *)
ResetUse(s) ==
    IF s.last > UseLimit
    THEN [s EXCEPT !.last = 0, !.lines = [j \in 1 .. Lines |->
                                  IF j = 1 THEN @[j] ELSE [@[j] EXCEPT !.use = 0]]]
    ELSE s

CountUse(s, isAWrite) ==
    LET line == s.lines[s.result]
    IN  [s EXCEPT !.last = s.last + 1,
                  !.lines[s.result] = [line EXCEPT !.use = s.last + 1, !.dirty = isAWrite \/ line.dirty]]

UseChunkCache(s, isAWrite) == CountUse(ResetUse(s), isAWrite)

(* The chunk is in line result afterwards.                                 *)
Load(s, f, c) ==
    [s EXCEPT !.lines[s.result] = [@ EXCEPT !.file = f, !.chunk = c, !.dirty = FALSE,
                                            !.data = s.store[f][c].data, !.n = 0]]

InCache(s, f, c) ==
    LET hit == FindChunkCache(s, f, c)
    IN  IF hit # 0 THEN [s EXCEPT !.result = hit] ELSE Load(GrabChunkCache(s), f, c)

(* Mutant: a line that was only read from stays.                           *)
InvalidateWritten(s, lines) ==
    [s EXCEPT !.lines = [k \in 1 .. Lines |->
                           IF k \in lines /\ s.lines[k].dirty
                           THEN [@[k] EXCEPT !.file = NoFile] ELSE @[k]]]

(* What was written to the lines is dropped with them.                     *)
Invalidate(s, lines) ==
    [s EXCEPT !.lines = [k \in 1 .. Lines |->
                           IF k \in lines THEN [@[k] EXCEPT !.file = NoFile] ELSE @[k]]]

-----------------------------------------------------------------------------
(* Pieces(offset, n): the chunk by chunk pieces of n bytes from offset.    *)
Pieces(offset, n) ==
    [k \in 1 .. (IF n = 0 THEN 0 ELSE ChunkAt(offset + n - 1) - ChunkAt(offset) + 1) |->
        LET c == ChunkAt(offset) + k - 1
            from == Max({offset, (c - 1) * ChunkSize})
        IN  [chunk |-> c, start |-> from % ChunkSize, from |-> from,
             len |-> Min({offset + n, c * ChunkSize}) - from]]

Patch(data, start, bytes) ==
    [k \in 1 .. ChunkSize |-> IF k - start \in DOMAIN bytes THEN bytes[k - start] ELSE data[k]]

ReadLine(s, p, got) ==
    [s EXCEPT !.result = got \o SubSeq(s.lines[@].data, p.start + 1, p.start + p.len)]

(* Only part of a chunk, or a chunk that is cached, goes through the cache;*)
(* result is what was read.                                                *)
ReadPiece(s, f, p) ==
    IF FindChunkCache(s, f, p.chunk) # 0 \/ p.len < ChunkSize
    THEN ReadLine(UseChunkCache(InCache(s, f, p.chunk), FALSE), p, s.result)
    ELSE [s EXCEPT !.result = @ \o s.store[f][p.chunk].data]

ReadDataFromFile(s, f, offset, n) ==
    LET pieces == Pieces(offset, n)
        after[k \in 0 .. Len(pieces)] ==
            IF k = 0 THEN [s EXCEPT !.result = << >>] ELSE ReadPiece(after[k - 1], f, pieces[k])
    IN  after[Len(pieces)]

WriteLine(s, f, p, bytes) ==
    LET had == Min({ChunkSize, s.size[f] - (p.chunk - 1) * ChunkSize})
        line == s.lines[s.result]
    IN  [s EXCEPT !.lines[s.result] = [line EXCEPT !.data = Patch(line.data, p.start, bytes),
                                                   !.n = Max({had, p.start + p.len})],
                  !.result = TRUE]

Bypassed(s, f, lines) ==
    LET gone == ~s.result /\ \E k \in lines : s.lines[k].dirty
    IN  [Invalidate(s, lines) EXCEPT !.lost = IF gone THEN @ \union {f} ELSE @]

(* A piece of a chunk goes to the cache, with as many bytes to write back  *)
(* as the chunk has now; a whole chunk goes to the flash, and its line is  *)
(* dropped.                                                                *)
WritePiece(s, f, p, bytes) ==
    LET hit == FindChunkCache(s, f, p.chunk)
    IN  IF p.len = ChunkSize
        THEN Bypassed(WriteChunk(s, f, p.chunk, bytes, ChunkSize, FALSE), f, {hit} \ {0})
        ELSE IF hit = 0 /\ s.erased < Reserved THEN [s EXCEPT !.result = FALSE]
        ELSE WriteLine(UseChunkCache(InCache(s, f, p.chunk), TRUE), f, p, bytes)

PieceDone(t, s, p) ==
    [io |-> s, failed |-> ~s.result, done |-> IF s.result THEN t.done + p.len ELSE t.done]

WriteNext(t, f, p, bytes) ==
    IF t.failed THEN t ELSE PieceDone(t, WritePiece(t.io, f, p, bytes), p)

EndWrite(t, f, offset) ==
    [t.io EXCEPT !.size[f] = Max({@, offset + t.done}), !.dirty[f] = TRUE, !.result = t.done]

(* The pieces until one is refused; result is the number of bytes taken.   *)
(* A file that was positioned past its end grows even if none is.          *)
WriteDataToFile(s, f, offset, bytes) ==
    LET pieces == Pieces(offset, Len(bytes))
        part(p) == SubSeq(bytes, p.from - offset + 1, p.from - offset + p.len)
        after[k \in 0 .. Len(pieces)] ==
            IF k = 0 THEN [io |-> s, failed |-> FALSE, done |-> 0]
            ELSE WriteNext(after[k - 1], f, pieces[k], part(pieces[k]))
    IN  EndWrite(after[Len(pieces)], f, offset)

CutChunks(s, f, newSize) ==
    [s EXCEPT !.store[f] = [c \in ChunkNumbers |->
                              IF (c - 1) * ChunkSize >= newSize THEN NoChunk ELSE @[c]],
              !.size[f] = newSize]

LostUnlessDone(s, f) == [s EXCEPT !.lost = IF s.result THEN @ ELSE @ \union {f}]

WriteLastChunk(s, f, last, rest) ==
    LostUnlessDone(WriteChunk(s, f, last, [k \in 1 .. ChunkSize |->
                       IF k <= rest THEN s.store[f][last].data[k] ELSE 0], rest, TRUE), f)

Uncached(s, f) == Invalidate(s, LinesOf(s, f))

(* Shorter only: the chunks behind the new end go, and the last one is     *)
(* written again, if there is room, with 0 behind the end.                 *)
ResizeFile(s, f, newSize) ==
    LET i == Uncached(FlushFilesChunkCache(s, f), f)
        rest == newSize % ChunkSize
    IN  IF newSize >= s.size[f] THEN i
        ELSE IF rest = 0 THEN CutChunks(i, f, newSize)
        ELSE WriteLastChunk(CutChunks(i, f, newSize), f, ChunkAt(newSize), rest)

(* A new header replaces the old one and may use the reserve.              *)
WriteHeader(s, f) == [s EXCEPT !.dirty[f] = @ /\ s.erased = 0]

FlushFile(s, f) ==
    IF s.dirty[f] THEN WriteHeader(FlushFilesChunkCache(s, f), f) ELSE s

-----------------------------------------------------------------------------
(* The calls.  Blocks are filled and erased between them for other files.  *)
FreeHandle == [file |-> NoFile, position |-> 0, append |-> FALSE]

CacheInit ==
    /\ io = [store |-> [f \in OpenFiles |-> [c \in ChunkNumbers |-> NoChunk]],
             size |-> [f \in OpenFiles |-> 0], dirty |-> [f \in OpenFiles |-> FALSE],
             lines |-> [k \in 1 .. Lines |-> NoLine], last |-> 0,
             erased |-> Reserved + 1, lost |-> {}, result |-> 0]
    /\ hs = [d \in Descriptors |-> FreeHandle]
    /\ told = [f \in OpenFiles |-> [o \in Offsets |-> 0]]
    /\ touched = {}
    /\ steps = 0

IsOpen(f) == \E d \in Descriptors : hs[d].file = f

(* The next call finds another number of erased blocks.                    *)
CacheCall(s) ==
    /\ steps < MaxSteps
    /\ steps' = steps + 1
    /\ \E e \in 0 .. Reserved + MaxFree : io' = [s EXCEPT !.erased = e, !.result = 0]

Cut(bytes, size) == [o \in Offsets |-> IF o < size THEN bytes[o] ELSE 0]

(* yaffs_open, with O_APPEND and O_TRUNC.                                  *)
OpenHandle(d, f, append, trunc) ==
    /\ hs[d].file = NoFile
    /\ CacheCall(IF trunc THEN ResizeFile(io, f, 0) ELSE io)
    /\ hs' = [hs EXCEPT ![d] = [file |-> f, position |-> 0, append |-> append]]
    /\ told' = IF trunc THEN [told EXCEPT ![f] = Cut(@, 0)] ELSE told
    /\ UNCHANGED touched

CloseHandle(d) ==
    /\ hs[d].file # NoFile
    /\ CacheCall(FlushFile(io, hs[d].file))
    /\ hs' = [hs EXCEPT ![d] = FreeHandle]
    /\ UNCHANGED <<told, touched>>

Seek(d, pos) ==
    /\ hs[d].file # NoFile /\ hs[d].position # pos
    /\ CacheCall(io)
    /\ hs' = [hs EXCEPT ![d].position = pos]
    /\ UNCHANGED <<told, touched>>

Read(d, n) ==
    LET f == hs[d].file
        pos == hs[d].position
    IN  /\ f # NoFile
        /\ pos < io.size[f]
        /\ \E r \in {ReadDataFromFile(io, f, pos, Min({n, io.size[f] - pos}))} :
              /\ CacheCall(r)
              /\ hs' = [hs EXCEPT ![d].position = pos + Len(r.result)]
        /\ UNCHANGED <<told, touched>>

WriteHandle(d, b, n) ==
    LET f == hs[d].file
        pos == IF hs[d].append THEN io.size[f] ELSE hs[d].position
    IN  /\ f # NoFile
        /\ pos + n <= MaxChunks * ChunkSize
        /\ \E w \in {WriteDataToFile(io, f, pos, [k \in 1 .. n |-> b])} :
              /\ CacheCall(w)
              /\ hs' = [hs EXCEPT ![d].position = pos + w.result]
              /\ told' = [told EXCEPT ![f] = [o \in Offsets |->
                             IF o \in pos .. pos + w.result - 1 THEN b ELSE @[o]]]
        /\ touched' = touched \ {f}

(* yaffs_SetAttributes with a size, which may be no shorter than the file. *)
SetAttributes(f, newSize) ==
    /\ CacheCall(WriteHeader(ResizeFile(io, f, newSize), f))
    /\ told' = [told EXCEPT ![f] = Cut(@, newSize)]
    /\ touched' = touched \union {f}
    /\ UNCHANGED hs

(* Without a size; a rename writes the header too.                         *)
ChangeHeader(f) ==
    /\ CacheCall(WriteHeader(io, f))
    /\ touched' = touched \union {f}
    /\ UNCHANGED <<hs, told>>

(* A file nobody has open is deleted, and its object is the next one       *)
(* created.                                                                *)
DeleteAndCreate(f) ==
    /\ ~IsOpen(f)
    /\ CacheCall([Invalidate(io, LinesOf(io, f)) EXCEPT
               !.store[f] = [c \in ChunkNumbers |-> NoChunk],
               !.size[f] = 0, !.dirty[f] = FALSE, !.lost = @ \ {f}])
    /\ told' = [told EXCEPT ![f] = Cut(@, 0)]
    /\ touched' = touched \ {f}
    /\ UNCHANGED hs

(* Power is cut, and the next mount finds the chunks.                      *)
EndOf(s, f) == Max({0} \union {(c - 1) * ChunkSize + s.store[f][c].n :
                                 c \in {e \in ChunkNumbers : s.store[f][e].n > 0}})

Remount ==
    LET spoilt == {f \in OpenFiles : IsOpen(f)} \union touched \union io.lost
    IN  /\ CacheCall([io EXCEPT !.lines = [k \in 1 .. Lines |-> NoLine], !.last = 0,
                           !.size = [f \in OpenFiles |-> EndOf(io, f)],
                           !.dirty = [f \in OpenFiles |-> FALSE]])
        /\ hs' = [d \in Descriptors |-> FreeHandle]
        /\ told' = [f \in OpenFiles |-> IF f \notin spoilt THEN told[f] ELSE
                      Cut([o \in Offsets |-> io.store[f][ChunkAt(o)].data[(o % ChunkSize) + 1]],
                          EndOf(io, f))]
        /\ touched' = {}

CacheNext ==
    \/ \E d \in Descriptors :
         \/ \E f \in OpenFiles, append \in BOOLEAN, trunc \in BOOLEAN : OpenHandle(d, f, append, trunc)
         \/ CloseHandle(d)
         \/ \E pos \in Offsets : Seek(d, pos)
         \/ \E n \in Sizes : Read(d, n)
         \/ \E b \in Bytes, n \in Sizes : WriteHandle(d, b, n)
    \/ \E f \in OpenFiles :
         \/ \E size \in Offsets : SetAttributes(f, size)
         \/ ChangeHeader(f)
         \/ DeleteAndCreate(f)
    \/ Remount

CacheSpec == CacheInit /\ [][CacheNext]_cacheVars

-----------------------------------------------------------------------------
(* What a read would find.                                                 *)
ByteAt(f, o) ==
    LET k == FindChunkCache(io, f, ChunkAt(o))
        data == IF k = 0 THEN io.store[f][ChunkAt(o)].data ELSE io.lines[k].data
    IN  IF o < io.size[f] THEN data[(o % ChunkSize) + 1] ELSE 0

(* Whatever was written, truncated, cached, pushed out or flushed, and     *)
(* whatever was closed before the power was cut, a file reads as its       *)
(* writers were told, unless a refused write dropped data of it.           *)
ReadsBack == \A f \in OpenFiles \ io.lost : \A o \in Offsets : ByteAt(f, o) = told[f][o]

(* The close of a file leaves none of its data in the cache only, unless   *)
(* its header was written after the data, or a refused write left it.      *)
ClosedIsFlushed ==
    \A f \in OpenFiles \ (touched \union io.lost) :
        ~IsOpen(f) => \A k \in LinesOf(io, f) : ~io.lines[k].dirty

=============================================================================
