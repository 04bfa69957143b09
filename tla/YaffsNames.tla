----------------------------- MODULE YaffsNames -----------------------------
(***************************************************************************)
(* The name space of yaffs_guts.c (objects, directories, hard links, the   *)
(* unlinked directory) under the open, close, unlink, rmdir, mount and     *)
(* unmount of yaffsfs.c.  The flash is taken for what Yaffs shows it to    *)
(* be: one header for each object, replaced as a whole or not at all.      *)
(*                                                                         *)
(* vol      the volume, taken and returned by the operators:               *)
(*   obj    yaffs_Object of each id.  dir: parent; sum: the name that its  *)
(*          checksum was taken from; equiv: equivalentObjectId, and to:    *)
(*          equivalentObject of a hard link; data: nDataChunks > 0         *)
(*   kids   the children of each directory, the latest first               *)
(*   links  the hard links of each file, the latest first                  *)
(*   hdr    the header on the flash, of object i if hdr[i] # NoHeader      *)
(*   stored the files with data on the flash                               *)
(*   images (hdr, stored) after each write of the call: what a power cut   *)
(*          may leave                                                      *)
(*   luck   room: headers can be written; refused: one was not; gone: the  *)
(*          soft deleted files that the collector finishes first           *)
(*   result what the last operation returned                               *)
(* fds      yaffsfs_handle: the object, NoObject if free, and what it was  *)
(*          when it was opened                                             *)
(* upsets   what has gone wrong: "refused", a header could not be written; *)
(*          "torn", the power was cut between the two writes of one call;  *)
(*          "stray", a directory or a hard link was deleted while open     *)
(* up       mounted                                                        *)
(* ops, outs   calls, and power cuts, so far                               *)
(***************************************************************************)
EXTENDS Integers, Sequences, SequencesExt, FiniteSets

CONSTANTS Objects, NoObject, FileNames, Handles,
          OpenFlags,        \* combinations of the flags of yaffs_open
          MaxOps, MaxOuts   \* bounds

VARIABLES vol, fds, upsets, up, ops, outs
nameVars == <<vol, fds, upsets, up, ops, outs>>

NoName == "none"
Fixed == {"root", "lost", "unlinked"}
Directories == Fixed \cup Objects

ASSUME NamesAssumption ==
    /\ IsFiniteSet(Objects) /\ IsFiniteSet(Handles)
    /\ Objects \cap (Fixed \cup {"none"}) = {} /\ NoObject \notin Objects
    /\ NoName \notin FileNames

NoHeader == [type |-> "none", dir |-> "none", name |-> NoName, equiv |-> NoObject]

Freed == [here |-> FALSE, type |-> "none", dir |-> "none", sum |-> NoName,
          unlinked |-> FALSE, deleted |-> FALSE, soft |-> FALSE, data |-> FALSE,
          dirty |-> FALSE, inUse |-> 0, equiv |-> NoObject, to |-> NoObject]

IsDirectory(v, dir) == dir \in Fixed \/ v.obj[dir].type = "dir"

(* The elements of a sequence that are in a set.                           *)
Among(s, S) ==
    LET among[k \in 0 .. Len(s)] ==
            IF k = 0 THEN <<>>
            ELSE IF s[k] \in S THEN Append(among[k - 1], s[k]) ELSE among[k - 1]
    IN  among[Len(s)]

Without(s, i) == Among(s, Objects \ {i})

Imaged(v) == [v EXCEPT !.images = @ \cup {[hdr |-> v.hdr, stored |-> v.stored]}]

-----------------------------------------------------------------------------
(* Directories.                                                            *)
Unhook(v, i) == [v EXCEPT !.kids = [dir \in Directories |-> Without(@[dir], i)]]

AddObjectToDirectory(v, dir, i) ==
    LET o == [v.obj[i] EXCEPT !.dir = dir, !.unlinked = @ \/ dir = "unlinked"]
    IN  [Unhook(v, i) EXCEPT !.kids[dir] = <<i>> \o @, !.obj[i] = o]

(* The name is the header's; an object without one has a made up name that *)
(* no caller uses.                                                         *)
GetObjectName(v, i) == v.hdr[i].name

FindObjectByName(v, dir, name) ==
    LET found == Among(v.kids[dir], {i \in Objects : /\ v.obj[i].sum = name
                                                      /\ GetObjectName(v, i) = name})
    IN  IF found = <<>> THEN NoObject ELSE Head(found)

(* yaffsfs_FindDirectory and yaffsfs_FindObject; "none" for a directory    *)
(* that does not exist.                                                    *)
FindDirectory(v, path) ==
    LET down(dir, name) ==
            LET i == IF dir = "none" THEN NoObject ELSE FindObjectByName(v, dir, name)
            IN  IF i # NoObject /\ IsDirectory(v, i) THEN i ELSE "none"
        at[k \in 0 .. Len(path) - 1] ==
            IF k = 0 THEN "root" ELSE down(at[k - 1], path[k])
    IN  at[Len(path) - 1]

FindObject(v, path) ==
    LET dir == FindDirectory(v, path)
    IN  IF dir = "none" THEN NoObject ELSE FindObjectByName(v, dir, Last(path))

-----------------------------------------------------------------------------
(* Objects.                                                                *)
Gone(v, S) ==
    [v EXCEPT !.obj = [i \in Objects |-> IF i \in S THEN Freed ELSE @[i]],
              !.kids = [dir \in Directories |-> Among(@[dir], Objects \ S)],
              !.hdr = [i \in Objects |-> IF i \in S THEN NoHeader ELSE @[i]],
              !.stored = @ \ S]

DoGenericObjectDeletion(v, i) == [Imaged(Gone(v, {i})) EXCEPT !.result = TRUE]

(* One after the other, in whatever order.                                 *)
Collected(v) ==
    LET image(S) == [hdr |-> Gone(v, S).hdr, stored |-> Gone(v, S).stored]
    IN  [Gone(v, v.luck.gone) EXCEPT
            !.images = @ \cup {image(S) : S \in (SUBSET v.luck.gone) \ {{}}},
            !.luck.gone = {}]

(* The collector runs first and may finish files that are deleted.         *)
UpdateObjectHeader(v, i, name) ==
    LET c == Collected(v)
        o == c.obj[i]
        kept == IF name = NoName THEN c.hdr[i].name ELSE name
        h == [type |-> o.type, dir |-> o.dir, name |-> kept, equiv |-> o.equiv]
    IN  IF ~v.luck.room THEN [c EXCEPT !.result = FALSE, !.luck.refused = TRUE]
        ELSE Imaged([c EXCEPT !.hdr[i] = h, !.obj[i].dirty = FALSE, !.result = TRUE])

SoftDeleteFile(v, i) ==
    IF v.obj[i].type # "file" \/ ~v.obj[i].deleted \/ v.obj[i].soft THEN v
    ELSE IF v.obj[i].data THEN [v EXCEPT !.obj[i].soft = TRUE]
    ELSE DoGenericObjectDeletion(v, i)

Deleted(v, i) == SoftDeleteFile([v EXCEPT !.obj[i].deleted = TRUE], i)

DeleteDirectory(v, i) ==
    IF v.kids[i] = <<>> THEN DoGenericObjectDeletion(v, i) ELSE [v EXCEPT !.result = FALSE]

DeleteHardLink(v, i) ==
    DoGenericObjectDeletion([v EXCEPT !.links = [to \in Objects |-> Without(@[to], i)]], i)

AbortHalfCreatedObject(v, i) ==
    [CASE v.obj[i].type = "dir" -> DeleteDirectory(v, i)
       [] v.obj[i].type = "link" -> DeleteHardLink(v, i)
       [] OTHER -> DoGenericObjectDeletion(v, i) EXCEPT !.result = FALSE]

(* The new object i; it is never called for a name that exists.            *)
MknodObject(v, i, type, dir, name, equiv) ==
    LET new == [Freed EXCEPT !.here = TRUE, !.type = type, !.sum = name,
                             !.dirty = TRUE, !.equiv = equiv, !.to = equiv]
        a == AddObjectToDirectory([v EXCEPT !.obj[i] = new, !.links[i] = <<>>], dir, i)
        b == IF type = "link" THEN [a EXCEPT !.links[equiv] = <<i>> \o @] ELSE a
        h == UpdateObjectHeader(b, i, name)
    IN  IF FindObjectByName(v, dir, name) # NoObject THEN [v EXCEPT !.result = FALSE]
        ELSE IF h.result THEN h ELSE AbortHalfCreatedObject(h, i)

(* Mutants: the checksum stays that of the old name; the header is written *)
(* before the object moves.                                                *)
ChangeObjectNameOldSum(v, i, dir, name) ==
    LET unlinkOp == dir = "unlinked" /\ v.obj[i].type = "file"
    IN  IF (unlinkOp \/ FindObjectByName(v, dir, name) = NoObject) /\ IsDirectory(v, dir)
        THEN UpdateObjectHeader(AddObjectToDirectory(v, dir, i), i, name)
        ELSE [v EXCEPT !.result = FALSE]

ChangeObjectNameEarly(v, i, dir, name) ==
    LET unlinkOp == dir = "unlinked" /\ v.obj[i].type = "file"
        h == UpdateObjectHeader([v EXCEPT !.obj[i].sum = name], i, name)
    IN  IF (unlinkOp \/ FindObjectByName(v, dir, name) = NoObject) /\ IsDirectory(v, dir)
        THEN AddObjectToDirectory(h, dir, i) ELSE [v EXCEPT !.result = FALSE]

(* The object moves before its header is written, and stays where it is if *)
(* that fails.                                                             *)
ChangeObjectName(v, i, dir, name) ==
    LET unlinkOp == dir = "unlinked" /\ v.obj[i].type = "file"
        moved == AddObjectToDirectory([v EXCEPT !.obj[i].sum = name, !.obj[i].dirty = TRUE],
                                      dir, i)
    IN  IF (unlinkOp \/ FindObjectByName(v, dir, name) = NoObject) /\ IsDirectory(v, dir)
        THEN UpdateObjectHeader(moved, i, name) ELSE [v EXCEPT !.result = FALSE]

(* Mutant: the file goes though it is open.                                *)
UnlinkFileOpen(v, i) ==
    LET c == ChangeObjectName(v, i, "unlinked", NoName)
    IN  [Deleted(c, i) EXCEPT !.result = c.result]

(* A file that is open stays until its last handle is closed.              *)
UnlinkFile(v, i) ==
    LET c == ChangeObjectName(v, i, "unlinked", NoName)
    IN  [IF c.obj[i].inUse <= 0 THEN Deleted(c, i) ELSE c EXCEPT !.result = c.result]

(* Called for files that are unlinked.                                     *)
DeleteFile(v, i) ==
    IF ~v.obj[i].data THEN DoGenericObjectDeletion(v, i)
    ELSE IF v.obj[i].deleted THEN v ELSE Deleted(v, i)

(* A file with hard links takes the place of the latest of them.           *)
UnlinkLinked(v, i) ==
    LET hl == Head(v.links[i])
        free == Unhook([v EXCEPT !.links[i] = Without(@, hl)], hl)
        c == ChangeObjectName(free, i, v.obj[hl].dir, GetObjectName(v, hl))
    IN  IF c.result THEN DoGenericObjectDeletion(c, hl) ELSE c

(* Mutant: a file goes though it has hard links.                           *)
UnlinkWorkerLinked(v, i) ==
    CASE v.obj[i].type = "link" -> DeleteHardLink(v, i)
      [] v.obj[i].type = "dir" -> DeleteDirectory(v, i)
      [] OTHER -> UnlinkFile(v, i)

UnlinkWorker(v, i) ==
    IF v.obj[i].type = "link" THEN DeleteHardLink(v, i)
    ELSE IF v.links[i] # <<>> THEN UnlinkLinked(v, i)
    ELSE IF v.obj[i].type = "dir" THEN DeleteDirectory(v, i)
    ELSE UnlinkFile(v, i)

-----------------------------------------------------------------------------
(* Mounting.                                                               *)
NoLuck == [room |-> TRUE, refused |-> FALSE, gone |-> {}]

Blank(hdr, stored) ==
    [obj |-> [i \in Objects |-> Freed], kids |-> [dir \in Directories |-> <<>>],
     links |-> [i \in Objects |-> <<>>], hdr |-> hdr, stored |-> stored,
     images |-> {}, luck |-> NoLuck, result |-> TRUE]

Parent(v, i) ==
    LET dir == v.hdr[i].dir
    IN  IF dir \in Fixed \/ v.hdr[dir].type = "dir" THEN dir ELSE "lost"

(* A hard link to a file that is gone points nowhere.                      *)
FixUpHardLink(v, i) ==
    LET h == v.hdr[i]
    IN  IF h.type = "link" /\ v.hdr[h.equiv] # NoHeader THEN h.equiv ELSE NoObject

ScanHeader(v, i) ==
    LET h == v.hdr[i]
        gone == Parent(v, i) = "unlinked"
    IN  IF h = NoHeader THEN Freed
        ELSE [Freed EXCEPT !.here = TRUE, !.type = h.type, !.dir = Parent(v, i),
                           !.sum = h.name, !.unlinked = gone, !.deleted = gone,
                           !.soft = gone /\ h.type = "file", !.data = i \in v.stored,
                           !.equiv = h.equiv, !.to = FixUpHardLink(v, i)]

(* Lists are built from the front: children in the order of the headers,   *)
(* hard links in the reverse one.  Files that were unlinked and have no    *)
(* data go at once.                                                        *)
Scan(v, order) ==
    LET obj == [i \in Objects |-> ScanHeader(v, i)]
    IN  Gone([v EXCEPT !.obj = obj,
                       !.kids = [dir \in Directories |->
                           Among(Reverse(order), {i \in Objects : obj[i].dir = dir})],
                       !.links = [to \in Objects |->
                           Among(order, {i \in Objects : obj[i].to = to})]],
             {i \in Objects : obj[i].soft /\ ~obj[i].data})

-----------------------------------------------------------------------------
(* The calls.                                                              *)
Settled(v) == [v EXCEPT !.images = {}, !.luck = NoLuck, !.result = TRUE]

NoHandle == [obj |-> NoObject, kind |-> "none", exclusive |-> FALSE]
Closed == [h \in Handles |-> NoHandle]

(* A call ends, or the power goes after one of its writes.                 *)
Ends(v, handles) ==
    LET refused == IF v.luck.refused THEN {"refused"} ELSE {}
        stray == IF \E h \in Handles : /\ handles[h].kind \in {"dir", "link"}
                                       /\ ~v.obj[handles[h].obj].here
                 THEN {"stray"} ELSE {}
    IN  \/ /\ vol' = Settled(v)
           /\ fds' = handles
           /\ upsets' = upsets \cup refused \cup stray
           /\ UNCHANGED <<up, outs>>
        \/ /\ outs < MaxOuts
           /\ outs' = outs + 1
           /\ \E image \in v.images :
                 /\ vol' = Blank(image.hdr, image.stored)
                 /\ upsets' = upsets \cup refused \cup
                       (IF image # [hdr |-> v.hdr, stored |-> v.stored] THEN {"torn"} ELSE {})
           /\ fds' = Closed
           /\ up' = FALSE

Call(Op(_)) ==
    /\ up /\ ops < MaxOps
    /\ ops' = ops + 1
    /\ \E room \in BOOLEAN, gone \in SUBSET {i \in Objects : vol.obj[i].soft} :
          Op([vol EXCEPT !.luck = [NoLuck EXCEPT !.room = room, !.gone = gone]])

Paths == {<<n>> : n \in FileNames} \cup {<<m, n>> : m \in FileNames, n \in FileNames}

Denied(i, flags) ==
    LET others == {h \in Handles : fds[h].obj = i}
    IN  \/ "excl" \in flags /\ (others # {} \/ "create" \in flags)
        \/ \E h \in others : fds[h].exclusive

(* yaffs_open.  It does not look at the type of what it finds, and takes a *)
(* hard link for itself.                                                   *)
Open(h, path, flags, new) ==
    /\ fds[h] = NoHandle /\ ~vol.obj[new].here
    /\ Call(LAMBDA v :
            LET old == FindObject(v, path)
                dir == FindDirectory(v, path)
                m == MknodObject(v, new, "file", dir, Last(path), NoObject)
                w == IF old # NoObject THEN v ELSE m
                i == IF old # NoObject THEN old ELSE new
                used == [w EXCEPT !.obj[i].inUse = @ + 1]
                cut == [used EXCEPT !.obj[i].data = FALSE, !.stored = @ \ {i}]
                trunc == {"trunc", "write"} \subseteq flags /\ w.obj[i].type = "file"
            IN  /\ IF old # NoObject THEN ~Denied(i, flags)
                   ELSE "create" \in flags /\ dir # "none"
                /\ IF ~w.result THEN Ends(w, fds)
                   ELSE Ends(IF trunc THEN Imaged(cut) ELSE used,
                             [fds EXCEPT ![h] = [obj |-> i, kind |-> w.obj[i].type,
                                                 exclusive |-> "excl" \in flags]]))

(* yaffs_close, whatever comes of the flush.                               *)
Close(h) ==
    /\ fds[h] # NoHandle
    /\ Call(LAMBDA v :
            LET i == fds[h].obj
                f == IF v.obj[i].dirty THEN UpdateObjectHeader(v, i, NoName) ELSE v
                c == [f EXCEPT !.obj[i].inUse = @ - 1]
                last == c.obj[i].inUse <= 0 /\ c.obj[i].unlinked
            IN  Ends(IF last THEN DeleteFile(c, i) ELSE c, [fds EXCEPT ![h] = NoHandle]))

(* The first chunk of data reaches the flash.                              *)
Write(h) ==
    LET i == fds[h].obj
    IN  /\ fds[h].kind = "file"
        /\ Call(LAMBDA v :
                Ends(IF v.luck.room
                     THEN Imaged([v EXCEPT !.obj[i].dirty = TRUE, !.obj[i].data = TRUE,
                                           !.stored = @ \cup {i}])
                     ELSE [v EXCEPT !.obj[i].dirty = TRUE], fds))

(* yaffsfs_DoUnlink, for yaffs_unlink and yaffs_rmdir.                     *)
Unlink(path, isDirectory) ==
    LET i == FindObject(vol, path)
    IN  /\ i # NoObject /\ isDirectory = (vol.obj[i].type = "dir")
        /\ Call(LAMBDA v : Ends(UnlinkWorker(v, i), fds))

(* The calls of yaffs_guts.c that yaffsfs.c does not export.               *)
Mkdir(path, new) ==
    /\ ~vol.obj[new].here /\ FindDirectory(vol, path) # "none"
    /\ Call(LAMBDA v : Ends(MknodObject(v, new, "dir", FindDirectory(v, path),
                                        Last(path), NoObject), fds))

Link(path, i, new) ==
    /\ ~vol.obj[new].here /\ FindDirectory(vol, path) # "none"
    /\ vol.obj[i].type \in {"file", "link"} /\ ~vol.obj[i].unlinked
    /\ LET to == IF vol.obj[i].type = "link" THEN vol.obj[i].to ELSE i
       IN  /\ to # NoObject
           /\ Call(LAMBDA v : Ends(MknodObject(v, new, "link", FindDirectory(v, path),
                                               Last(path), to), fds))

(* Not of a directory into itself: no caller does that.                    *)
Rename(from, to) ==
    LET i == FindObject(vol, from)
        dir == FindDirectory(vol, to)
    IN  /\ i # NoObject /\ dir # "none" /\ dir # i
        /\ (vol.obj[i].type = "dir" => dir \in Fixed)
        /\ Call(LAMBDA v : Ends(ChangeObjectName(v, i, dir, Last(to)), fds))

(* yaffs_unmount, and a power cut with no call under way.                  *)
Unmount ==
    /\ up /\ ops < MaxOps /\ fds = Closed
    /\ ops' = ops + 1
    /\ up' = FALSE
    /\ vol' = Blank(vol.hdr, vol.stored)
    /\ UNCHANGED <<fds, upsets, outs>>

PowerCut ==
    /\ up /\ outs < MaxOuts
    /\ outs' = outs + 1
    /\ up' = FALSE
    /\ vol' = Blank(vol.hdr, vol.stored)
    /\ fds' = Closed
    /\ UNCHANGED <<upsets, ops>>

Mount ==
    /\ ~up
    /\ up' = TRUE
    /\ \E order \in SetToSeqs({i \in Objects : vol.hdr[i] # NoHeader}) :
          vol' = Settled(Scan(vol, order))
    /\ UNCHANGED <<fds, upsets, ops, outs>>

-----------------------------------------------------------------------------
NamesInit ==
    /\ vol = Blank([i \in Objects |-> NoHeader], {})
    /\ fds = Closed
    /\ upsets = {}
    /\ up = FALSE
    /\ ops = 0 /\ outs = 0

NamesNext ==
    \/ \E h \in Handles :
          \/ \E path \in Paths, flags \in OpenFlags, new \in Objects : Open(h, path, flags, new)
          \/ Close(h)
          \/ Write(h)
    \/ \E path \in Paths :
          \/ Unlink(path, TRUE) \/ Unlink(path, FALSE)
          \/ \E new \in Objects : Mkdir(path, new)
          \/ \E i \in Objects, new \in Objects : Link(path, i, new)
          \/ \E to \in Paths : Rename(path, to)
    \/ Unmount
    \/ PowerCut
    \/ Mount

NamesSpec == NamesInit /\ [][NamesNext]_nameVars

-----------------------------------------------------------------------------
(* The file behind a handle exists for as long as the handle does, though  *)
(* it is unlinked or its other names go; inUse counts the handles; and a   *)
(* file that nobody has open does not stay in the unlinked directory for   *)
(* ever.  (A directory or hard link is freed under its handles.)           *)
HandlesAlive ==
    up /\ "stray" \notin upsets => \A i \in Objects :
        LET o == vol.obj[i]
            opened == {h \in Handles : fds[h].obj = i /\ fds[h].kind = "file"}
        IN  /\ opened # {} => o.type = "file"
            /\ o.type = "file" => o.inUse = Cardinality(opened)
            /\ o.type = "file" /\ o.unlinked => (o.deleted <=> o.inUse = 0)

(* As long as headers can be written, and no call was cut in two, each     *)
(* object is found by its name in its directory, and by nothing else.      *)
NamesFound ==
    up /\ upsets = {} =>
        /\ \A i \in Objects, dir \in Directories :
              vol.obj[i].here =>
                  (vol.obj[i].dir = dir <=> \E k \in DOMAIN vol.kids[dir] : vol.kids[dir][k] = i)
        /\ \A dir \in Directories \ {"unlinked"} : \A k \in DOMAIN vol.kids[dir] :
              FindObjectByName(vol, dir, GetObjectName(vol, vol.kids[dir][k])) = vol.kids[dir][k]

(* What a mount finds is what there was: likewise the flash holds every    *)
(* object where memory has it, and no other.                               *)
FlashAgrees ==
    up /\ upsets = {} =>
        \A i \in Objects :
            /\ vol.obj[i].here <=> vol.hdr[i] # NoHeader
            /\ vol.obj[i].here => /\ vol.hdr[i].type = vol.obj[i].type
                                  /\ vol.hdr[i].dir = vol.obj[i].dir
                                  /\ vol.hdr[i].equiv = vol.obj[i].equiv
            /\ vol.obj[i].data <=> i \in vol.stored

(* Likewise a hard link leads to a file that is neither unlinked nor       *)
(* deleted, and the file knows of the link.                                *)
LinksKept ==
    up /\ upsets = {} =>
        \A i \in Objects : vol.obj[i].type = "link" =>
            LET to == vol.obj[i].to
            IN  /\ to # NoObject /\ to = vol.obj[i].equiv
                /\ vol.obj[to].type = "file" /\ ~vol.obj[to].unlinked
                /\ \E k \in DOMAIN vol.links[to] : vol.links[to][k] = i
=============================================================================
