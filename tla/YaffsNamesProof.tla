-------------------------- MODULE YaffsNamesProof --------------------------
(***************************************************************************)
(* Proofs about YaffsNames, for any objects, names and handles: open files *)
(* stay, and as long as nothing was refused, torn or deleted while open,   *)
(* every object is found by its name, links lead to their files, and the   *)
(* flash holds what memory has.                                            *)
(*                                                                         *)
(* Basic holds of the volume in the midst of every call, Exact of a        *)
(* mounted volume between them if nothing went wrong; for the objects that *)
(* a call has half changed there is an exception in Exact.                 *)
(***************************************************************************)
EXTENDS YaffsNames, NumberLemmas, SequenceTheorems, FiniteSetTheorems, TLAPS

-----------------------------------------------------------------------------
(* The records of the model.                                               *)
Types == {"file", "dir", "link"}
Name == FileNames \cup {NoName}
Place == Directories \cup {"none"}
Target == Objects \cup {NoObject}
Header == [type : Types \cup {"none"}, dir : Place, name : Name, equiv : Target]
Object == [here : BOOLEAN, type : Types \cup {"none"}, dir : Place, sum : Name,
           unlinked : BOOLEAN, deleted : BOOLEAN, soft : BOOLEAN, data : BOOLEAN,
           dirty : BOOLEAN, inUse : Nat, equiv : Target, to : Target]
Image == [hdr : [Objects -> Header], stored : SUBSET Objects]
Luck == [room : BOOLEAN, refused : BOOLEAN, gone : SUBSET Objects]
Volume == [obj : [Objects -> Object], kids : [Directories -> Seq(Objects)],
           links : [Objects -> Seq(Objects)], hdr : [Objects -> Header],
           stored : SUBSET Objects, images : SUBSET Image, luck : Luck, result : BOOLEAN]
Handle == [obj : Target, kind : Types \cup {"none"}, exclusive : BOOLEAN]

In(x, s) == \E k \in 1 .. Len(s) : s[k] = x

(* What is true of every header and every object, whatever goes wrong.     *)
HeaderOK(h) ==
    h # NoHeader => /\ h.type \in Types /\ h.dir \in Directories
                    /\ h.dir = "unlinked" => h.type = "file"
                    /\ h.type = "link" => h.equiv \in Objects

ObjectOK(o) ==
    /\ ~o.here => o = Freed
    /\ o.here => /\ o.type \in Types /\ o.dir \in Directories
                 /\ o.unlinked <=> o.dir = "unlinked"
                 /\ o.unlinked => o.type = "file"
                 /\ o.deleted => o.unlinked
                 /\ o.soft => o.deleted
                 /\ o.type = "link" => o.equiv \in Objects

(* The lists have only what belongs on them.                               *)
KidsOK(v) == \A dir \in Directories, i \in Objects : In(i, v.kids[dir]) => v.obj[i].dir = dir
LinksOK(v) ==
    \A to \in Objects, i \in Objects :
        In(i, v.links[to]) => v.obj[i].type = "link" /\ v.obj[i].equiv = to

Sound(v) ==
    /\ v \in Volume
    /\ \A i \in Objects : ObjectOK(v.obj[i])
    /\ \A i \in Objects : HeaderOK(v.hdr[i])
    /\ \A image \in v.images : \A i \in Objects : HeaderOK(image.hdr[i])
    /\ KidsOK(v) /\ LinksOK(v)

Basic(v) == Sound(v) /\ \A i \in v.luck.gone : v.obj[i].soft

(* Between calls an unlinked file is deleted when nobody has it open.      *)
Ripe(o) == o.unlinked => (o.deleted <=> o.inUse = 0)

(* The handles know their objects, and these are counted.                  *)
Users(handles, i) == {h \in Handles : handles[h].obj = i}
HandlesFit(v, handles) ==
    /\ handles \in [Handles -> Handle]
    /\ \A h \in Handles : handles[h] # NoHandle =>
          /\ handles[h].obj \in Objects /\ v.obj[handles[h].obj].here
          /\ handles[h].kind = v.obj[handles[h].obj].type
    /\ \A i \in Objects : v.obj[i].inUse = Cardinality(Users(handles, i))

(* What is true of an object if nothing went wrong: in memory, on the      *)
(* flash, and of two of them.                                              *)
Mem(v, i) ==
    /\ v.obj[i].data <=> i \in v.stored
    /\ v.obj[i].here =>
          /\ In(i, v.kids[v.obj[i].dir])
          /\ v.obj[i].dir \in Objects => v.obj[v.obj[i].dir].type = "dir"
          /\ v.obj[i].dir # "unlinked" => v.obj[i].sum \in FileNames
          /\ v.obj[i].type = "link" =>
                /\ v.obj[i].to = v.obj[i].equiv
                /\ v.obj[v.obj[i].to].type = "file" /\ ~v.obj[v.obj[i].to].unlinked
                /\ In(i, v.links[v.obj[i].to])

OnFlash(v, i) ==
    /\ v.obj[i].here <=> v.hdr[i] # NoHeader
    /\ v.obj[i].here => /\ v.hdr[i].type = v.obj[i].type
                        /\ v.hdr[i].dir = v.obj[i].dir
                        /\ v.hdr[i].equiv = v.obj[i].equiv
                        /\ v.obj[i].dir # "unlinked" => v.hdr[i].name = v.obj[i].sum

Apart(v, i, j) ==
    /\ v.obj[i].here /\ v.obj[j].here
    /\ v.obj[i].dir = v.obj[j].dir /\ v.obj[i].dir # "unlinked"
    /\ v.obj[i].sum = v.obj[j].sum
    => i = j

Exact(v, X) ==
    /\ \A i \in Objects \ X : Mem(v, i) /\ OnFlash(v, i)
    /\ \A i \in Objects \ X, j \in Objects \ X : Apart(v, i, j)

(* The same of the flash alone.                                            *)
FlashExact(hdr, stored) ==
    /\ \A i \in stored : hdr[i] # NoHeader
    /\ \A i \in Objects : hdr[i] # NoHeader =>
          /\ hdr[i].dir \in Objects => hdr[hdr[i].dir].type = "dir"
          /\ hdr[i].dir # "unlinked" => hdr[i].name \in FileNames
          /\ hdr[i].type = "link" =>
                hdr[hdr[i].equiv].type = "file" /\ hdr[hdr[i].equiv].dir # "unlinked"
    /\ \A i \in Objects, j \in Objects :
          /\ hdr[i] # NoHeader /\ hdr[j] # NoHeader
          /\ hdr[i].dir = hdr[j].dir /\ hdr[i].dir # "unlinked"
          /\ hdr[i].name = hdr[j].name
          => i = j

NamesInv ==
    /\ up \in BOOLEAN
    /\ "stray" \notin upsets =>
          IF up THEN /\ Basic(vol) /\ \A i \in Objects : Ripe(vol.obj[i])
                     /\ HandlesFit(vol, fds)
          ELSE /\ fds = Closed
               /\ vol = Blank(vol.hdr, vol.stored)
               /\ vol.hdr \in [Objects -> Header] /\ vol.stored \in SUBSET Objects
               /\ \A i \in Objects : HeaderOK(vol.hdr[i])
    /\ upsets = {} => IF up THEN Exact(vol, {}) ELSE FlashExact(vol.hdr, vol.stored)

-----------------------------------------------------------------------------
(* Lists.                                                                  *)

(* Among is a recursion over the sequence.                                 *)
LEMMA AmongSteps ==
    ASSUME NEW T, NEW s \in Seq(T), NEW S
    PROVE  \E f : /\ \A k \in 0 .. Len(s) :
                        f[k] = IF k = 0 THEN <<>>
                               ELSE IF s[k] \in S THEN Append(f[k - 1], s[k]) ELSE f[k - 1]
                  /\ Among(s, S) = f[Len(s)]
  <1> DEFINE Is(f, m) == f = [k \in 0 .. m |->
                 IF k = 0 THEN <<>>
                 ELSE IF s[k] \in S THEN Append(f[k - 1], s[k]) ELSE f[k - 1]]
             M == {m \in 0 .. Len(s) : \E f : Is(f, m)}
  <1>0. Len(s) \in Nat
    OBVIOUS
  <1>1. 0 \in M
    <2> DEFINE f == [k \in 0 .. 0 |-> <<>>]
    <2>1. Is(f, 0)
      OBVIOUS
    <2>2. 0 \in 0 .. Len(s)
      BY <1>0
    <2> HIDE DEF Is, f
    <2> QED
      BY <2>1, <2>2
  <1>2. ASSUME NEW m \in 0 .. Len(s) - 1, m \in M
        PROVE  m + 1 \in M
    <2>1. PICK f : Is(f, m)
      BY <1>2
    <2> DEFINE step(e, k) == IF s[k] \in S THEN Append(e, s[k]) ELSE e
               g == [k \in 0 .. m + 1 |-> IF k = m + 1 THEN step(f[m], m + 1) ELSE f[k]]
    <2>2. \A k \in 0 .. m : f[k] = IF k = 0 THEN <<>> ELSE step(f[k - 1], k)
      BY <2>1
    <2> HIDE DEF Is
    <2>5. m \in Nat /\ m + 1 \in 0 .. Len(s)
      BY <1>0
    <2>6. g[m] = f[m] /\ g[m + 1] = step(f[m], m + 1) /\ (m + 1) - 1 = m
      BY <2>5
    <2>7. \A k \in 0 .. m : g[k] = f[k] /\ (k # 0 => k - 1 \in 0 .. m)
      BY <2>5
    <2>8. \A k \in 0 .. m + 1 : k = m + 1 \/ k \in 0 .. m
      BY <2>5
    <2>9. m + 1 # 0
      BY <2>5
    <2> HIDE DEF g, step
    <2>3. \A k \in 0 .. m + 1 : g[k] = IF k = 0 THEN <<>> ELSE step(g[k - 1], k)
      BY <2>2, <2>6, <2>7, <2>8, <2>9
    <2>4. Is(g, m + 1)
      BY <2>3 DEF Is, g, step
    <2> QED
      BY <2>4, <2>5
  <1>3. \A m \in 0 .. Len(s) : m \in M
    <2> HIDE DEF M
    <2> QED
      BY <1>0, <1>1, <1>2, Upwards
  <1>4. \E f : Is(f, Len(s))
    <2>1. Len(s) \in M
      <3> HIDE DEF M
      <3> QED
        BY <1>0, <1>3
    <2> HIDE DEF Is
    <2> QED
      BY <2>1
  <1> DEFINE f == CHOOSE f : Is(f, Len(s))
  <1>5. Is(f, Len(s))
    BY <1>4
  <1>6. Among(s, S) = f[Len(s)]
    BY DEF Among
  <1>7. \A k \in 0 .. Len(s) :
            f[k] = IF k = 0 THEN <<>>
                   ELSE IF s[k] \in S THEN Append(f[k - 1], s[k]) ELSE f[k - 1]
    <2> HIDE DEF f
    <2> QED
      BY <1>5
  <1> QED
    BY <1>6, <1>7

(* It keeps the elements of the set, and no other.                         *)
LEMMA AmongElements ==
    ASSUME NEW T, NEW s \in Seq(T), NEW S
    PROVE  /\ Among(s, S) \in Seq(T)
           /\ \A x : In(x, Among(s, S)) <=> In(x, s) /\ x \in S
  <1>1. PICK f : /\ \A k \in 0 .. Len(s) :
                       f[k] = IF k = 0 THEN <<>>
                              ELSE IF s[k] \in S THEN Append(f[k - 1], s[k]) ELSE f[k - 1]
                 /\ Among(s, S) = f[Len(s)]
    BY AmongSteps
  <1> DEFINE Good(k) == /\ f[k] \in Seq(T)
                        /\ \A x : In(x, f[k]) <=> x \in S /\ \E j \in 1 .. k : s[j] = x
             G == {k \in 0 .. Len(s) : Good(k)}
  <1>2. Len(s) \in Nat
    OBVIOUS
  <1>3. 0 \in G
    <2>1. f[0] = <<>>
      BY <1>1, <1>2
    <2>2. Good(0)
      <3>1. \A x, j : j \in 1 .. 0 => FALSE
        OBVIOUS
      <3>2. <<>> \in Seq(T) /\ \A x : ~In(x, <<>>)
        BY DEF In
      <3> QED
        BY <2>1, <3>1, <3>2
    <2>3. 0 \in 0 .. Len(s)
      BY <1>2
    <2> HIDE DEF Good
    <2> QED
      BY <2>2, <2>3
  <1>4. ASSUME NEW k \in 0 .. Len(s) - 1, k \in G
        PROVE  k + 1 \in G
    <2>1. k + 1 \in 1 .. Len(s) /\ k + 1 \in 0 .. Len(s) /\ (k + 1) - 1 = k /\ k + 1 # 0
      BY <1>2
    <2>2. Good(k)
      BY <1>4
    <2>3. f[k + 1] = IF s[k + 1] \in S THEN Append(f[k], s[k + 1]) ELSE f[k]
      BY <1>1, <2>1
    <2>4. s[k + 1] \in T
      BY <2>1
    <2>5. \A x : (\E j \in 1 .. k + 1 : s[j] = x) <=> (\E j \in 1 .. k : s[j] = x) \/ s[k + 1] = x
      <3>1. 1 .. k + 1 = (1 .. k) \cup {k + 1}
        BY <2>1
      <3> QED
        BY <3>1
    <2>6. CASE s[k + 1] \notin S
      <3>1. f[k + 1] = f[k]
        BY <2>3, <2>6
      <3>2. Good(k + 1)
        BY <2>2, <2>5, <2>6, <3>1
      <3> QED
        BY <2>1, <3>2
    <2>7. CASE s[k + 1] \in S
      <3>1. f[k + 1] = Append(f[k], s[k + 1])
        BY <2>3, <2>7
      <3>2. f[k + 1] \in Seq(T)
        BY <2>2, <2>4, <3>1
      <3>3. \A x : In(x, f[k + 1]) <=> In(x, f[k]) \/ s[k + 1] = x
        BY <2>2, <2>4, <3>1 DEF In
      <3>4. Good(k + 1)
        BY <2>2, <2>5, <2>7, <3>2, <3>3
      <3> QED
        BY <2>1, <3>4
    <2> QED
      BY <2>6, <2>7
  <1>5. \A k \in 0 .. Len(s) : k \in G
    <2> HIDE DEF G
    <2> QED
      BY <1>2, <1>3, <1>4, Upwards
  <1>6. Good(Len(s))
    <2>1. Len(s) \in G
      <3> HIDE DEF G
      <3> QED
        BY <1>2, <1>5
    <2> HIDE DEF Good
    <2> QED
      BY <2>1
  <1> QED
    BY <1>1, <1>6 DEF In

LEMMA WithoutElements ==
    ASSUME NEW s \in Seq(Objects), NEW i
    PROVE  /\ Without(s, i) \in Seq(Objects)
           /\ \A x : In(x, Without(s, i)) <=> In(x, s) /\ x # i
  <1>1. \A x : In(x, s) => x \in Objects
    BY DEF In
  <1> QED
    BY <1>1, AmongElements DEF Without

LEMMA InFront ==
    ASSUME NEW T, NEW s \in Seq(T), NEW i \in T
    PROVE  /\ <<i>> \o s \in Seq(T)
           /\ \A x : In(x, <<i>> \o s) <=> x = i \/ In(x, s)
  <1> DEFINE t == <<i>> \o s
  <1>1. t \in Seq(T) /\ Len(t) = Len(s) + 1 /\ t[1] = i
    OBVIOUS
  <1>2. \A k \in 1 .. Len(s) : t[k + 1] = s[k]
    OBVIOUS
  <1>3. \A k \in 1 .. Len(t) : k = 1 \/ (k - 1 \in 1 .. Len(s) /\ t[k] = s[k - 1])
    OBVIOUS
  <1>4. \A k \in 1 .. Len(s) : k + 1 \in 1 .. Len(t)
    BY <1>1
  <1>5. 1 \in 1 .. Len(t)
    BY <1>1
  <1> HIDE DEF t
  <1>6. \A x : In(x, t) <=> x = i \/ In(x, s)
    BY <1>1, <1>2, <1>3, <1>4, <1>5 DEF In
  <1> QED
    BY <1>1, <1>6 DEF t

LEMMA FirstIn ==
    ASSUME NEW T, NEW s \in Seq(T), s # <<>>
    PROVE  Head(s) \in T /\ In(Head(s), s)
  BY DEF In

LEMMA NoneIn ==
    ASSUME NEW T, NEW s \in Seq(T)
    PROVE  s = <<>> <=> \A x : ~In(x, s)
  <1>1. ASSUME s # <<>> PROVE In(s[1], s)
    BY <1>1 DEF In
  <1>2. ASSUME s = <<>> PROVE \A x : ~In(x, s)
    BY <1>2 DEF In
  <1> QED
    BY <1>1, <1>2

-----------------------------------------------------------------------------
(* What the small operators leave in each field.                           *)
LEMMA ConstantsOK ==
    /\ Freed \in Object /\ ObjectOK(Freed) /\ Ripe(Freed)
    /\ NoHeader \in Header /\ HeaderOK(NoHeader)
    /\ \A i \in Objects : i \notin Fixed /\ i # "none" /\ i # NoObject
    /\ Objects \subseteq Directories /\ Fixed \subseteq Directories
    /\ "none" \notin Directories
    /\ \A n \in FileNames : n # NoName
  <1>1. Freed \in Object
    BY DEF Freed, Object, Types, Name, Place, Target
  <1>2. ObjectOK(Freed) /\ Ripe(Freed)
    BY DEF ObjectOK, Freed, Ripe
  <1>3. NoHeader \in Header /\ HeaderOK(NoHeader)
    BY DEF NoHeader, Header, HeaderOK, Types, Name, Place, Target
  <1> QED
    BY <1>1, <1>2, <1>3, NamesAssumption DEF Fixed, Directories

LEMMA GoneFields ==
    ASSUME NEW v \in Volume, NEW S, NEW w, w = Gone(v, S)
    PROVE  /\ w \in Volume
           /\ w.obj = [i \in Objects |-> IF i \in S THEN Freed ELSE v.obj[i]]
           /\ w.hdr = [i \in Objects |-> IF i \in S THEN NoHeader ELSE v.hdr[i]]
           /\ w.stored = v.stored \ S
           /\ \A dir \in Directories : \A x :
                 In(x, w.kids[dir]) <=> In(x, v.kids[dir]) /\ x \notin S
           /\ w.links = v.links /\ w.images = v.images /\ w.luck = v.luck
           /\ w.result = v.result
  <1> DEFINE kids == [dir \in Directories |-> Among(v.kids[dir], Objects \ S)]
  <1>1. /\ kids \in [Directories -> Seq(Objects)]
        /\ \A dir \in Directories : \A x : In(x, kids[dir]) <=> In(x, v.kids[dir]) /\ x \notin S
    <2>1. ASSUME NEW dir \in Directories
          PROVE  /\ kids[dir] \in Seq(Objects)
                 /\ \A x : In(x, kids[dir]) <=> In(x, v.kids[dir]) /\ x \notin S
      <3>1. v.kids[dir] \in Seq(Objects)
        BY DEF Volume
      <3>2. \A x : In(x, v.kids[dir]) => x \in Objects
        BY <3>1 DEF In
      <3> QED
        BY <3>1, <3>2, AmongElements
    <2> QED
      BY <2>1
  <1> HIDE DEF kids
  <1>2. w = [v EXCEPT !.obj = [i \in Objects |-> IF i \in S THEN Freed ELSE v.obj[i]],
                      !.kids = kids,
                      !.hdr = [i \in Objects |-> IF i \in S THEN NoHeader ELSE v.hdr[i]],
                      !.stored = v.stored \ S]
    BY DEF Gone, kids
  <1>3. [i \in Objects |-> IF i \in S THEN Freed ELSE v.obj[i]] \in [Objects -> Object]
    BY ConstantsOK DEF Volume
  <1>4. [i \in Objects |-> IF i \in S THEN NoHeader ELSE v.hdr[i]] \in [Objects -> Header]
    BY ConstantsOK DEF Volume
  <1> DEFINE obj == [i \in Objects |-> IF i \in S THEN Freed ELSE v.obj[i]]
             hdr == [i \in Objects |-> IF i \in S THEN NoHeader ELSE v.hdr[i]]
  <1>5. w = [v EXCEPT !.obj = obj, !.kids = kids, !.hdr = hdr, !.stored = v.stored \ S]
    BY <1>2
  <1>6. v.stored \ S \in SUBSET Objects
    BY DEF Volume
  <1> HIDE DEF obj, hdr
  <1>7. /\ w.obj = obj /\ w.kids = kids /\ w.hdr = hdr /\ w.stored = v.stored \ S
        /\ w.links = v.links /\ w.images = v.images /\ w.luck = v.luck
        /\ w.result = v.result
    BY <1>5 DEF Volume
  <1>8. w \in Volume
    BY <1>1, <1>3, <1>4, <1>5, <1>6 DEF Volume, obj, hdr
  <1> QED
    BY <1>1, <1>7, <1>8 DEF obj, hdr

Unhooked(v, w, i) ==
    /\ w \in Volume
    /\ \A dir \in Directories : \A x : In(x, w.kids[dir]) <=> In(x, v.kids[dir]) /\ x # i
    /\ w.obj = v.obj /\ w.hdr = v.hdr /\ w.stored = v.stored
    /\ w.links = v.links /\ w.images = v.images /\ w.luck = v.luck
    /\ w.result = v.result

LEMMA UnhookFields ==
    ASSUME NEW v \in Volume, NEW i
    PROVE  Unhooked(v, Unhook(v, i), i)
  <1> DEFINE kids == [dir \in Directories |-> Without(v.kids[dir], i)]
             w == Unhook(v, i)
  <1>1. /\ kids \in [Directories -> Seq(Objects)]
        /\ \A dir \in Directories : \A x : In(x, kids[dir]) <=> In(x, v.kids[dir]) /\ x # i
    BY WithoutElements DEF Volume
  <1> HIDE DEF kids
  <1>2. w = [v EXCEPT !.kids = kids]
    BY DEF Unhook, kids
  <1> HIDE DEF w
  <1>3. Unhooked(v, w, i)
    BY <1>1, <1>2 DEF Volume, Unhooked
  <1> QED
    BY <1>3 DEF w

Placed(o, dir) == [o EXCEPT !.dir = dir, !.unlinked = o.unlinked \/ dir = "unlinked"]

LEMMA AddFields ==
    ASSUME NEW v \in Volume, NEW dir \in Directories, NEW i \in Objects,
           NEW w, w = AddObjectToDirectory(v, dir, i)
    PROVE  /\ w \in Volume
           /\ \A j \in Objects : w.obj[j] = IF j = i THEN Placed(v.obj[i], dir) ELSE v.obj[j]
           /\ \A d \in Directories, x \in Objects :
                 In(x, w.kids[d]) <=> (In(x, v.kids[d]) /\ x # i) \/ (x = i /\ d = dir)
           /\ w.hdr = v.hdr /\ w.stored = v.stored /\ w.links = v.links
           /\ w.images = v.images /\ w.luck = v.luck /\ w.result = v.result
  <1> DEFINE u == Unhook(v, i)
  <1>1. /\ u \in Volume
        /\ \A d \in Directories : \A x : In(x, u.kids[d]) <=> In(x, v.kids[d]) /\ x # i
        /\ u.obj = v.obj /\ u.hdr = v.hdr /\ u.stored = v.stored
        /\ u.links = v.links /\ u.images = v.images /\ u.luck = v.luck
        /\ u.result = v.result
    BY UnhookFields DEF Unhooked
  <1> HIDE DEF u
  <1> DEFINE kids == [u.kids EXCEPT ![dir] = <<i>> \o u.kids[dir]]
             obj == [u.obj EXCEPT ![i] = Placed(u.obj[i], dir)]
  <1>2. /\ kids \in [Directories -> Seq(Objects)]
        /\ \A d \in Directories : \A x :
              In(x, kids[d]) <=> In(x, u.kids[d]) \/ (x = i /\ d = dir)
    <2>1. u.kids \in [Directories -> Seq(Objects)]
      BY <1>1 DEF Volume
    <2>2. /\ <<i>> \o u.kids[dir] \in Seq(Objects)
          /\ \A x : In(x, <<i>> \o u.kids[dir]) <=> x = i \/ In(x, u.kids[dir])
      BY <2>1, InFront
    <2> QED
      BY <2>1, <2>2
  <1>3. obj \in [Objects -> Object]
    <2>1. v.obj[i] \in Object
      BY DEF Volume
    <2>2. Placed(v.obj[i], dir) \in Object
      BY <2>1 DEF Object, Place, Placed
    <2> QED
      BY <1>1, <2>2 DEF Volume
  <1>4. w = [u EXCEPT !.kids = kids, !.obj = obj]
    <2>1. w = [u EXCEPT !.kids[dir] = <<i>> \o @, !.obj[i] =
                  [v.obj[i] EXCEPT !.dir = dir, !.unlinked = @ \/ dir = "unlinked"]]
      BY DEF AddObjectToDirectory, u
    <2> QED
      BY <1>1, <2>1 DEF Volume, Placed
  <1> HIDE DEF kids
  <1>7. \A j \in Objects : obj[j] = IF j = i THEN Placed(v.obj[i], dir) ELSE v.obj[j]
    BY <1>1 DEF Volume
  <1> HIDE DEF obj
  <1>5. w \in Volume /\ w.obj = obj /\ w.kids = kids
    BY <1>1, <1>2, <1>3, <1>4 DEF Volume
  <1>6. /\ w.hdr = u.hdr /\ w.stored = u.stored /\ w.links = u.links
        /\ w.images = u.images /\ w.luck = u.luck /\ w.result = u.result
    BY <1>1, <1>4 DEF Volume
  <1> QED
    BY <1>1, <1>2, <1>5, <1>6, <1>7

LEMMA ImagedFields ==
    ASSUME NEW v \in Volume, NEW w, w = Imaged(v)
    PROVE  /\ w \in Volume
           /\ w.images = v.images \cup {[hdr |-> v.hdr, stored |-> v.stored]}
           /\ w.obj = v.obj /\ w.hdr = v.hdr /\ w.stored = v.stored
           /\ w.kids = v.kids /\ w.links = v.links /\ w.luck = v.luck
           /\ w.result = v.result
  <1>1. [hdr |-> v.hdr, stored |-> v.stored] \in Image
    BY DEF Volume, Image
  <1>2. v.images \cup {[hdr |-> v.hdr, stored |-> v.stored]} \in SUBSET Image
    BY <1>1 DEF Volume
  <1>3. w = [v EXCEPT !.images = v.images \cup {[hdr |-> v.hdr, stored |-> v.stored]}]
    BY DEF Imaged
  <1> QED
    BY <1>2, <1>3 DEF Volume

-----------------------------------------------------------------------------
(* Deletion, collection, and the writing of a header.                      *)

(* Objects that are no hard links can go.                                  *)
LEMMA GoneSound ==
    ASSUME NEW v, Sound(v), NEW S \in SUBSET Objects,
           \A i \in S, to \in Objects : ~In(i, v.links[to]),
           NEW w, w = Gone(v, S)
    PROVE  Sound(w)
  <1>0. v \in Volume
    BY DEF Sound
  <1>1. /\ w \in Volume
        /\ w.obj = [i \in Objects |-> IF i \in S THEN Freed ELSE v.obj[i]]
        /\ w.hdr = [i \in Objects |-> IF i \in S THEN NoHeader ELSE v.hdr[i]]
        /\ \A dir \in Directories : \A x :
              In(x, w.kids[dir]) <=> In(x, v.kids[dir]) /\ x \notin S
        /\ w.links = v.links /\ w.images = v.images
    BY <1>0, GoneFields
  <1>2. \A i \in Objects : ObjectOK(w.obj[i]) /\ HeaderOK(w.hdr[i])
    BY <1>1, ConstantsOK DEF Sound
  <1>3. KidsOK(w)
    BY <1>1 DEF Sound, KidsOK
  <1>4. LinksOK(w)
    BY <1>1 DEF Sound, LinksOK
  <1> QED
    BY <1>1, <1>2, <1>3, <1>4 DEF Sound

(* A soft deleted file is an unlinked file, and no list of links has it.   *)
LEMMA SoftOnes ==
    ASSUME NEW v, Sound(v), NEW i \in Objects, v.obj[i].soft
    PROVE  /\ v.obj[i].here /\ v.obj[i].deleted /\ v.obj[i].unlinked
           /\ v.obj[i].dir = "unlinked" /\ v.obj[i].type = "file"
           /\ \A to \in Objects : ~In(i, v.links[to])
  <1>1. ObjectOK(v.obj[i])
    BY DEF Sound
  <1>2. v.obj[i].here
    BY <1>1 DEF ObjectOK, Freed
  <1>3. v.obj[i].type = "file"
    BY <1>1, <1>2 DEF ObjectOK
  <1>4. \A to \in Objects : ~In(i, v.links[to])
    BY <1>3 DEF Sound, LinksOK
  <1> QED
    BY <1>1, <1>2, <1>4 DEF ObjectOK

(* From v to w objects that are not in A only go if they were soft.        *)
Others(v, w, A) ==
    \A j \in Objects \ A : w.obj[j] = v.obj[j] \/ (v.obj[j].soft /\ w.obj[j] = Freed)

LEMMA CollectedFields ==
    ASSUME NEW v, Basic(v), NEW w, w = Collected(v)
    PROVE  /\ Basic(w)
           /\ w.obj = [i \in Objects |-> IF i \in v.luck.gone THEN Freed ELSE v.obj[i]]
           /\ w.hdr = [i \in Objects |-> IF i \in v.luck.gone THEN NoHeader ELSE v.hdr[i]]
           /\ w.stored = v.stored \ v.luck.gone
           /\ \A dir \in Directories : \A x :
                 In(x, w.kids[dir]) <=> In(x, v.kids[dir]) /\ x \notin v.luck.gone
           /\ w.links = v.links
           /\ w.luck = [v.luck EXCEPT !.gone = {}]
  <1> DEFINE G == v.luck.gone
             u == Gone(v, G)
             image(S) == [hdr |-> Gone(v, S).hdr, stored |-> Gone(v, S).stored]
             more == {image(S) : S \in (SUBSET G) \ {{}}}
  <1>0. v \in Volume /\ Sound(v) /\ v.luck \in Luck /\ G \in SUBSET Objects
    BY DEF Basic, Sound, Volume, Luck
  <1>1. \A i \in G, to \in Objects : ~In(i, v.links[to])
    BY <1>0, SoftOnes DEF Basic
  <1>2. Sound(u)
    BY <1>0, <1>1, GoneSound
  <1>3. /\ u \in Volume
        /\ u.obj = [i \in Objects |-> IF i \in G THEN Freed ELSE v.obj[i]]
        /\ u.hdr = [i \in Objects |-> IF i \in G THEN NoHeader ELSE v.hdr[i]]
        /\ u.stored = v.stored \ G
        /\ \A dir \in Directories : \A x :
              In(x, u.kids[dir]) <=> In(x, v.kids[dir]) /\ x \notin G
        /\ u.links = v.links /\ u.images = v.images /\ u.luck = v.luck
        /\ u.result = v.result
    BY <1>0, GoneFields
  <1>4. \A m \in more : m \in Image /\ \A i \in Objects : HeaderOK(m.hdr[i])
    <2> SUFFICES ASSUME NEW S \in SUBSET G
                 PROVE  image(S) \in Image /\ \A i \in Objects : HeaderOK(image(S).hdr[i])
      OBVIOUS
    <2>1. Sound(Gone(v, S))
      <3>1. S \in SUBSET Objects /\ \A i \in S, to \in Objects : ~In(i, v.links[to])
        BY <1>0, <1>1
      <3> QED
        BY <1>0, <3>1, GoneSound
    <2> QED
      BY <2>1 DEF Sound, Volume, Image
  <1> HIDE DEF u, image, more
  <1>5. w = [u EXCEPT !.images = u.images \cup more, !.luck.gone = {}]
    BY DEF Collected, u, G, more, image
  <1>6. u.images \cup more \in SUBSET Image
    BY <1>3, <1>4 DEF Volume
  <1>7. [u.luck EXCEPT !.gone = {}] \in Luck
    BY <1>0, <1>3 DEF Luck
  <1>8. /\ w \in Volume
        /\ w.images = u.images \cup more /\ w.luck = [u.luck EXCEPT !.gone = {}]
        /\ w.obj = u.obj /\ w.hdr = u.hdr /\ w.stored = u.stored
        /\ w.kids = u.kids /\ w.links = u.links
    BY <1>3, <1>5, <1>6, <1>7 DEF Volume
  <1>9. Sound(w)
    BY <1>2, <1>4, <1>8 DEF Sound, KidsOK, LinksOK
  <1>10. w.luck.gone = {}
    BY <1>0, <1>3, <1>8 DEF Luck
  <1> QED
    BY <1>3, <1>8, <1>9, <1>10 DEF Basic

(* The name that a header gets.                                            *)
Kept(v, i, name) == IF name = NoName THEN v.hdr[i].name ELSE name

HeaderWritten(v, w, i, name) ==
    /\ Basic(w)
    /\ \A j \in Objects : w.obj[j] = IF j \in v.luck.gone THEN Freed
                                     ELSE IF j = i /\ v.luck.room
                                     THEN [v.obj[i] EXCEPT !.dirty = FALSE]
                                     ELSE v.obj[j]
    /\ \A j \in Objects : w.hdr[j] = IF j \in v.luck.gone THEN NoHeader
                                     ELSE IF j = i /\ v.luck.room
                                     THEN [type |-> v.obj[i].type, dir |-> v.obj[i].dir,
                                           name |-> Kept(v, i, name),
                                           equiv |-> v.obj[i].equiv]
                                     ELSE v.hdr[j]
    /\ w.stored = v.stored \ v.luck.gone
    /\ \A dir \in Directories : \A x :
          In(x, w.kids[dir]) <=> In(x, v.kids[dir]) /\ x \notin v.luck.gone
    /\ w.links = v.links
    /\ w.luck.gone = {} /\ w.luck.room = v.luck.room
    /\ w.luck.refused <=> v.luck.refused \/ ~v.luck.room
    /\ w.result <=> v.luck.room

LEMMA HeaderFields ==
    ASSUME NEW v, Basic(v), NEW i \in Objects, v.obj[i].here, i \notin v.luck.gone,
           NEW name \in Name
    PROVE  HeaderWritten(v, UpdateObjectHeader(v, i, name), i, name)
  <1> DEFINE w == UpdateObjectHeader(v, i, name)
             c == Collected(v)
             h == [type |-> v.obj[i].type, dir |-> v.obj[i].dir,
                   name |-> Kept(v, i, name), equiv |-> v.obj[i].equiv]
             G == v.luck.gone
  <1>0. v \in Volume /\ v.luck \in Luck /\ Sound(v)
    BY DEF Basic, Sound, Volume
  <1>1. /\ Basic(c)
        /\ c.obj = [j \in Objects |-> IF j \in G THEN Freed ELSE v.obj[j]]
        /\ c.hdr = [j \in Objects |-> IF j \in G THEN NoHeader ELSE v.hdr[j]]
        /\ c.stored = v.stored \ G
        /\ \A dir \in Directories : \A x :
              In(x, c.kids[dir]) <=> In(x, v.kids[dir]) /\ x \notin G
        /\ c.links = v.links
        /\ c.luck = [v.luck EXCEPT !.gone = {}]
    BY CollectedFields
  <1>2. c \in Volume /\ Sound(c) /\ c.luck \in Luck
    BY <1>1 DEF Basic, Sound, Volume
  <1>3. /\ c.luck.gone = {} /\ c.luck.room = v.luck.room /\ c.luck.refused = v.luck.refused
        /\ v.luck.room \in BOOLEAN /\ v.luck.refused \in BOOLEAN
    BY <1>0, <1>1 DEF Luck
  <1>4. c.obj[i] = v.obj[i] /\ c.hdr[i] = v.hdr[i]
    BY <1>1
  <1>5. h \in Header /\ HeaderOK(h)
    <2>1. v.obj[i] \in Object /\ v.hdr[i] \in Header
      BY <1>0 DEF Volume
    <2>2. ObjectOK(v.obj[i])
      BY <1>0 DEF Sound
    <2>3. Kept(v, i, name) \in Name
      BY <2>1 DEF Kept, Header
    <2> QED
      BY <2>1, <2>2, <2>3 DEF Header, Object, ObjectOK, HeaderOK
  <1> HIDE DEF c, h, w
  <1>6. ASSUME ~v.luck.room PROVE HeaderWritten(v, w, i, name)
    <2>1. w = [c EXCEPT !.result = FALSE, !.luck.refused = TRUE]
      BY <1>6 DEF UpdateObjectHeader, c, w
    <2>2. [c.luck EXCEPT !.refused = TRUE] \in Luck
      BY <1>2 DEF Luck
    <2>3. /\ w \in Volume /\ w.luck = [c.luck EXCEPT !.refused = TRUE] /\ w.result = FALSE
          /\ w.obj = c.obj /\ w.hdr = c.hdr /\ w.stored = c.stored
          /\ w.kids = c.kids /\ w.links = c.links /\ w.images = c.images
      BY <1>2, <2>1, <2>2 DEF Volume
    <2>4. /\ w.luck.gone = {} /\ w.luck.room = v.luck.room
          /\ w.luck.refused = TRUE
      BY <1>2, <1>3, <2>3 DEF Luck
    <2>5. Basic(w)
      BY <1>2, <2>3, <2>4 DEF Basic, Sound, KidsOK, LinksOK
    <2>6. /\ w.result <=> v.luck.room
          /\ w.luck.refused <=> v.luck.refused \/ ~v.luck.room
      BY <1>3, <1>6, <2>3, <2>4
    <2>7. \A j \in Objects :
              /\ w.obj[j] = IF j \in G THEN Freed ELSE v.obj[j]
              /\ w.hdr[j] = IF j \in G THEN NoHeader ELSE v.hdr[j]
      BY <1>1, <2>3
    <2> QED
      BY <1>1, <1>6, <2>3, <2>4, <2>5, <2>6, <2>7 DEF HeaderWritten
  <1>7. ASSUME v.luck.room PROVE HeaderWritten(v, w, i, name)
    <2> DEFINE o == [v.obj[i] EXCEPT !.dirty = FALSE]
               u == [c EXCEPT !.hdr[i] = h, !.obj[i].dirty = FALSE, !.result = TRUE]
    <2>1. w = Imaged(u)
      BY <1>4, <1>7 DEF UpdateObjectHeader, c, h, Kept, w
    <2>2. o \in Object /\ ObjectOK(o)
      <3>1. v.obj[i] \in Object /\ ObjectOK(v.obj[i])
        BY <1>0 DEF Sound, Volume
      <3> QED
        BY <3>1 DEF Object, ObjectOK
    <2>3. /\ u \in Volume
          /\ u.obj = [c.obj EXCEPT ![i] = o] /\ u.hdr = [c.hdr EXCEPT ![i] = h]
          /\ u.result = TRUE /\ u.stored = c.stored /\ u.kids = c.kids
          /\ u.links = c.links /\ u.images = c.images /\ u.luck = c.luck
      <3>1. u = [c EXCEPT !.hdr = [c.hdr EXCEPT ![i] = h], !.obj = [c.obj EXCEPT ![i] = o],
                          !.result = TRUE]
        BY <1>2, <1>4 DEF Volume
      <3>2. [c.hdr EXCEPT ![i] = h] \in [Objects -> Header]
        BY <1>2, <1>5 DEF Volume
      <3>3. [c.obj EXCEPT ![i] = o] \in [Objects -> Object]
        BY <1>2, <2>2 DEF Volume
      <3> HIDE DEF u, o
      <3> QED
        BY <1>2, <3>1, <3>2, <3>3 DEF Volume
    <2> HIDE DEF u, o
    <2>4. /\ w \in Volume
          /\ w.images = u.images \cup {[hdr |-> u.hdr, stored |-> u.stored]}
          /\ w.obj = u.obj /\ w.hdr = u.hdr /\ w.stored = u.stored
          /\ w.kids = u.kids /\ w.links = u.links /\ w.luck = u.luck
          /\ w.result = u.result
      BY <2>1, <2>3, ImagedFields
    <2>5. c.obj \in [Objects -> Object] /\ c.hdr \in [Objects -> Header]
      BY <1>2 DEF Volume
    <2>6. \A j \in Objects : ObjectOK(w.obj[j]) /\ HeaderOK(w.hdr[j])
      BY <1>2, <1>5, <2>2, <2>3, <2>4, <2>5 DEF Sound
    <2>7. \A m \in w.images : \A j \in Objects : HeaderOK(m.hdr[j])
      <3>1. ASSUME NEW m \in c.images, NEW j \in Objects
            PROVE  HeaderOK(m.hdr[j])
        BY <1>2, <3>1 DEF Sound
      <3>2. \A m \in w.images : m \in c.images \/ m = [hdr |-> u.hdr, stored |-> u.stored]
        BY <2>3, <2>4
      <3>3. [hdr |-> u.hdr, stored |-> u.stored].hdr = w.hdr
        BY <2>4
      <3> QED
        BY <2>6, <3>1, <3>2, <3>3
    <2>8. \A j \in Objects : w.obj[j].dir = c.obj[j].dir /\ w.obj[j].type = c.obj[j].type
                              /\ w.obj[j].equiv = c.obj[j].equiv
      <3>1. o.dir = v.obj[i].dir /\ o.type = v.obj[i].type /\ o.equiv = v.obj[i].equiv
        BY <1>0 DEF o, Volume, Object
      <3> QED
        BY <1>4, <2>3, <2>4, <2>5, <3>1
    <2>9. Basic(w)
      BY <1>2, <1>3, <2>3, <2>4, <2>6, <2>7, <2>8 DEF Basic, Sound, KidsOK, LinksOK
    <2>10. \A j \in Objects :
              /\ w.obj[j] = IF j = i THEN o ELSE c.obj[j]
              /\ w.hdr[j] = IF j = i THEN h ELSE c.hdr[j]
      BY <2>3, <2>4, <2>5
    <2>11. /\ w.result <=> v.luck.room
           /\ w.luck.refused <=> v.luck.refused \/ ~v.luck.room
           /\ w.luck.gone = {} /\ w.luck.room = v.luck.room
      BY <1>3, <1>7, <2>3, <2>4
    <2>12. /\ w.stored = v.stored \ G /\ w.links = v.links
           /\ \A dir \in Directories : \A x :
                 In(x, w.kids[dir]) <=> In(x, v.kids[dir]) /\ x \notin G
      BY <1>1, <2>3, <2>4
    <2>13. \A j \in Objects : w.obj[j] = IF j \in v.luck.gone THEN Freed
                                            ELSE IF j = i /\ v.luck.room THEN o ELSE v.obj[j]
      BY <1>1, <1>7, <2>10
    <2>14. \A j \in Objects : w.hdr[j] = IF j \in v.luck.gone THEN NoHeader
                                            ELSE IF j = i /\ v.luck.room THEN h ELSE v.hdr[j]
      BY <1>1, <1>7, <2>10
    <2> QED
      BY <2>9, <2>11, <2>12, <2>13, <2>14 DEF h, o, HeaderWritten
  <1> QED
    BY <1>6, <1>7 DEF w

-----------------------------------------------------------------------------
(* Looking up names.                                                       *)
LEMMA NameLookup ==
    ASSUME NEW v \in Volume, NEW dir \in Directories, NEW name,
           NEW i, i = FindObjectByName(v, dir, name)
    PROVE  \/ /\ i = NoObject
              /\ \A j \in Objects : In(j, v.kids[dir]) =>
                    ~(v.obj[j].sum = name /\ v.hdr[j].name = name)
           \/ /\ i \in Objects /\ In(i, v.kids[dir])
              /\ v.obj[i].sum = name /\ v.hdr[i].name = name
  <1> DEFINE S == {j \in Objects : v.obj[j].sum = name /\ v.hdr[j].name = name}
             found == Among(v.kids[dir], S)
  <1>1. v.kids[dir] \in Seq(Objects)
    BY DEF Volume
  <1>2. /\ found \in Seq(Objects)
        /\ \A x : In(x, found) <=> In(x, v.kids[dir]) /\ x \in S
    <2> HIDE DEF S
    <2> QED
      BY <1>1, AmongElements
  <1>3. i = IF found = <<>> THEN NoObject ELSE Head(found)
    BY DEF FindObjectByName, GetObjectName
  <1> HIDE DEF found
  <1>4. CASE found = <<>>
    <2>1. \A x : ~In(x, found)
      BY <1>2, <1>4, NoneIn
    <2> QED
      BY <1>2, <1>3, <1>4, <2>1
  <1>5. CASE found # <<>>
    <2>1. Head(found) \in Objects /\ In(Head(found), found)
      BY <1>2, <1>5, FirstIn
    <2> QED
      BY <1>2, <1>3, <1>5, <2>1
  <1> QED
    BY <1>4, <1>5

LEMMA PathsOK ==
    ASSUME NEW path \in Paths
    PROVE  /\ Len(path) \in {1, 2} /\ path \in Seq(FileNames)
           /\ Last(path) \in FileNames
  <1>1. CASE path \in {<<n>> : n \in FileNames}
    <2>1. PICK n \in FileNames : path = <<n>>
      BY <1>1
    <2> QED
      BY <2>1 DEF Last
  <1>2. CASE path \in {<<m, n>> : m \in FileNames, n \in FileNames}
    <2>1. PICK m \in FileNames, n \in FileNames : path = <<m, n>>
      BY <1>2
    <2> QED
      BY <2>1 DEF Last
  <1> QED
    BY <1>1, <1>2 DEF Paths

(* A path has one directory at most below the root.                        *)
Below(v, name) ==
    LET i == FindObjectByName(v, "root", name)
    IN  IF i # NoObject /\ IsDirectory(v, i) THEN i ELSE "none"

LEMMA DirectoryIs ==
    ASSUME NEW v, NEW path \in Paths
    PROVE  FindDirectory(v, path) = IF Len(path) = 1 THEN "root" ELSE Below(v, path[1])
  <1> DEFINE down(dir, name) ==
                LET i == IF dir = "none" THEN NoObject ELSE FindObjectByName(v, dir, name)
                IN  IF i # NoObject /\ IsDirectory(v, i) THEN i ELSE "none"
             n == Len(path) - 1
             Is(f) == f = [k \in 0 .. n |-> IF k = 0 THEN "root" ELSE down(f[k - 1], path[k])]
  <1>1. n \in {0, 1} /\ (n = 0 <=> Len(path) = 1)
    BY PathsOK
  <1>2. \A name : down("root", name) = Below(v, name)
    BY DEF Below
  <1> HIDE DEF down, n
  <1> DEFINE g == [k \in 0 .. n |-> IF k = 0 THEN "root" ELSE down("root", path[1])]
  <1>3. Is(g)
    <2>1. \A k \in 0 .. n : k = 0 \/ (k = 1 /\ k - 1 = 0 /\ 0 \in 0 .. n)
      BY <1>1
    <2>2. 0 \in 0 .. n
      BY <1>1
    <2>3. g[0] = "root"
      BY <2>2
    <2>4. \A k \in 0 .. n : g[k] = IF k = 0 THEN "root" ELSE down(g[k - 1], path[k])
      BY <2>1, <2>3
    <2> QED
      BY <2>4
  <1> DEFINE f == CHOOSE f : Is(f)
  <1>4. Is(f)
    <2> HIDE DEF Is, g
    <2> QED
      BY <1>3
  <1>5. FindDirectory(v, path) = f[n]
    BY DEF FindDirectory, down, n
  <1>6. \A k \in 0 .. n : f[k] = IF k = 0 THEN "root" ELSE down(f[k - 1], path[k])
    <2> HIDE DEF f
    <2> QED
      BY <1>4
  <1> HIDE DEF f
  <1>7. CASE n = 0
    BY <1>1, <1>5, <1>6, <1>7
  <1>8. CASE n = 1
    <2>1. f[0] = "root"
      BY <1>6, <1>8
    <2>2. f[1] = down(f[0], path[1])
      BY <1>6, <1>8
    <2> QED
      BY <1>1, <1>2, <1>5, <1>8, <2>1, <2>2
  <1> QED
    BY <1>1, <1>7, <1>8

LEMMA DirectoryFound ==
    ASSUME NEW v \in Volume, NEW path \in Paths
    PROVE  FindDirectory(v, path) \in {"none", "root"} \cup {i \in Objects : v.obj[i].type = "dir"}
  <1>1. "root" \in Directories
    BY DEF Directories, Fixed
  <1>2. \A name : FindObjectByName(v, "root", name) \in Objects \cup {NoObject}
    BY <1>1, NameLookup
  <1>3. \A name : Below(v, name) \in {"none"} \cup {i \in Objects : v.obj[i].type = "dir"}
    BY <1>2, ConstantsOK DEF Below, IsDirectory
  <1> QED
    BY <1>3, DirectoryIs

(* What a caller can name is not in the unlinked directory.                *)
LEMMA ObjectFound ==
    ASSUME NEW v, Sound(v), NEW path \in Paths,
           NEW i, i = FindObject(v, path), i # NoObject
    PROVE  /\ i \in Objects /\ v.obj[i].here
           /\ v.obj[i].dir # "unlinked" /\ ~v.obj[i].unlinked /\ ~v.obj[i].soft
  <1> DEFINE dir == FindDirectory(v, path)
  <1>0. v \in Volume
    BY DEF Sound
  <1>1. dir \in {"none", "root"} \cup {j \in Objects : v.obj[j].type = "dir"}
    BY <1>0, DirectoryFound
  <1> HIDE DEF dir
  <1>2. dir # "none" /\ i = FindObjectByName(v, dir, Last(path))
    BY DEF FindObject, dir
  <1>3. dir \in Directories /\ dir # "unlinked"
    BY <1>1, <1>2, ConstantsOK DEF Fixed, Directories
  <1>4. i \in Objects /\ In(i, v.kids[dir])
    BY <1>0, <1>2, <1>3, NameLookup
  <1>5. v.obj[i].dir = dir
    BY <1>3, <1>4 DEF Sound, KidsOK
  <1>6. v.obj[i].here
    <2>1. ObjectOK(v.obj[i])
      BY <1>4 DEF Sound
    <2> QED
      BY <1>3, <1>5, <2>1, ConstantsOK DEF ObjectOK, Freed
  <1>7. ObjectOK(v.obj[i])
    BY <1>4 DEF Sound
  <1> QED
    BY <1>3, <1>4, <1>5, <1>6, <1>7 DEF ObjectOK

-----------------------------------------------------------------------------
(* Exact states stay exact.                                                *)

(* What Exact sees of an object.                                           *)
Like(o, p) ==
    /\ p.here = o.here /\ p.type = o.type /\ p.dir = o.dir /\ p.sum = o.sum
    /\ p.unlinked = o.unlinked /\ p.data = o.data /\ p.equiv = o.equiv /\ p.to = o.to

(* G goes, X is the exception, the others stay what they are.              *)
Stays(v, w, X, G) ==
    /\ \A j \in Objects \ (X \cup G) :
          /\ Like(v.obj[j], w.obj[j]) /\ w.hdr[j] = v.hdr[j]
          /\ j \in w.stored <=> j \in v.stored
          /\ \A dir \in Directories : In(j, v.kids[dir]) => In(j, w.kids[dir])
          /\ \A to \in Objects : In(j, v.links[to]) => In(j, w.links[to])
    /\ \A j \in G : w.obj[j] = Freed /\ w.hdr[j] = NoHeader /\ j \notin w.stored

(* Nobody loses the directory that it is in, or the file that it links to. *)
Needed(v, w, X) ==
    /\ \A k \in Objects : v.obj[k].type = "dir" =>
          \/ w.obj[k].type = "dir"
          \/ \A j \in Objects \ X : v.obj[j].here => v.obj[j].dir # k
    /\ \A k \in Objects : v.obj[k].type = "file" /\ ~v.obj[k].unlinked =>
          \/ w.obj[k].type = "file" /\ ~w.obj[k].unlinked
          \/ \A j \in Objects \ X : v.obj[j].type = "link" => v.obj[j].to # k

LEMMA ExactStays ==
    ASSUME NEW v, Sound(v), NEW w, NEW X, NEW G,
           Exact(v, X), Stays(v, w, X, G), Needed(v, w, X \cup G)
    PROVE  Exact(w, X \ G)
  <1> DEFINE R == Objects \ (X \cup G)
  <1>1. ASSUME NEW j \in R PROVE Mem(w, j) /\ OnFlash(w, j)
    <2>1. Mem(v, j) /\ OnFlash(v, j)
      BY DEF Exact
    <2>2. /\ Like(v.obj[j], w.obj[j]) /\ w.hdr[j] = v.hdr[j]
          /\ j \in w.stored <=> j \in v.stored
          /\ \A dir \in Directories : In(j, v.kids[dir]) => In(j, w.kids[dir])
          /\ \A to \in Objects : In(j, v.links[to]) => In(j, w.links[to])
      BY DEF Stays
    <2>3. OnFlash(w, j)
      BY <2>1, <2>2 DEF OnFlash, Like
    <2>4. ObjectOK(v.obj[j])
      BY DEF Sound
    <2>5. v.obj[j].here => v.obj[j].dir \in Directories
      BY <2>4 DEF ObjectOK
    <2>6. v.obj[j].here /\ v.obj[j].type = "link" => v.obj[j].to \in Objects
      BY <2>1, <2>4 DEF ObjectOK, Mem
    <2>7. v.obj[j].here /\ v.obj[j].dir \in Objects => w.obj[v.obj[j].dir].type = "dir"
      BY <2>1 DEF Mem, Needed
    <2>8. v.obj[j].here /\ v.obj[j].type = "link" =>
             w.obj[v.obj[j].to].type = "file" /\ ~w.obj[v.obj[j].to].unlinked
      BY <2>1, <2>6 DEF Mem, Needed
    <2>9. Mem(w, j)
      BY <2>1, <2>2, <2>5, <2>6, <2>7, <2>8 DEF Mem, Like
    <2> QED
      BY <2>3, <2>9
  <1>2. ASSUME NEW j \in G, j \in Objects PROVE Mem(w, j) /\ OnFlash(w, j) /\ ~w.obj[j].here
    <2>1. w.obj[j] = Freed /\ w.hdr[j] = NoHeader /\ j \notin w.stored
      BY DEF Stays
    <2> QED
      BY <2>1 DEF Mem, OnFlash, Freed
  <1>3. ASSUME NEW i \in R, NEW j \in R PROVE Apart(w, i, j)
    <2>1. Apart(v, i, j)
      BY DEF Exact
    <2>2. Like(v.obj[i], w.obj[i]) /\ Like(v.obj[j], w.obj[j])
      BY DEF Stays
    <2> QED
      BY <2>1, <2>2 DEF Apart, Like
  <1>4. \A j \in Objects \ (X \ G) : j \in R \/ j \in G
    OBVIOUS
  <1> HIDE DEF R
  <1>5. \A j \in Objects \ (X \ G) : Mem(w, j) /\ OnFlash(w, j)
    BY <1>1, <1>2, <1>4
  <1>6. ASSUME NEW i \in Objects \ (X \ G), NEW j \in Objects \ (X \ G)
        PROVE  Apart(w, i, j)
    <2>1. CASE i \in G \/ j \in G
      BY <1>2, <2>1 DEF Apart
    <2>2. CASE i \in R /\ j \in R
      BY <1>3, <2>2
    <2> QED
      BY <1>4, <2>1, <2>2
  <1> QED
    BY <1>5, <1>6 DEF Exact

LEMMA ExactMore ==
    ASSUME NEW v, NEW X, Exact(v, X), NEW Y
    PROVE  Exact(v, X \cup Y)
  BY DEF Exact

(* An exception that is one no more.                                       *)
LEMMA ExactLess ==
    ASSUME NEW v, NEW X, NEW i \in Objects, Exact(v, X \cup {i}), Mem(v, i), OnFlash(v, i),
           \A j \in Objects \ X : Apart(v, i, j)
    PROVE  Exact(v, X)
  <1>1. \A j \in Objects \ X : Mem(v, j) /\ OnFlash(v, j)
    BY DEF Exact
  <1>2. \A j \in Objects \ X : Apart(v, j, i)
    BY DEF Apart
  <1>3. \A j \in Objects \ X, k \in Objects \ X : Apart(v, j, k)
    <2>1. \A j \in Objects \ X, k \in Objects \ X : j # i /\ k # i => Apart(v, j, k)
      BY DEF Exact
    <2> QED
      BY <1>2, <2>1
  <1> QED
    BY <1>1, <1>3 DEF Exact

(* An object that is changed, but not moved.                               *)
Put(v, i, o) == [v EXCEPT !.obj = [v.obj EXCEPT ![i] = o]]

LEMMA SetObject ==
    ASSUME NEW v \in Volume, NEW i \in Objects, NEW o \in Object,
           NEW w, w = Put(v, i, o)
    PROVE  /\ w \in Volume
           /\ w.obj = [j \in Objects |-> IF j = i THEN o ELSE v.obj[j]]
           /\ w.hdr = v.hdr /\ w.stored = v.stored /\ w.kids = v.kids /\ w.links = v.links
           /\ w.images = v.images /\ w.luck = v.luck /\ w.result = v.result
  <1> DEFINE obj == [v.obj EXCEPT ![i] = o]
  <1>1. obj \in [Objects -> Object] /\ obj = [j \in Objects |-> IF j = i THEN o ELSE v.obj[j]]
    BY DEF Volume
  <1> HIDE DEF obj
  <1>2. w = [v EXCEPT !.obj = obj]
    BY DEF obj, Put
  <1> QED
    BY <1>1, <1>2 DEF Volume

LEMMA SetObjectSound ==
    ASSUME NEW v, Basic(v), NEW i \in Objects, NEW o \in Object, ObjectOK(o),
           o.type = v.obj[i].type, o.dir = v.obj[i].dir, o.equiv = v.obj[i].equiv,
           i \in v.luck.gone => o.soft,
           NEW w, w = Put(v, i, o)
    PROVE  Basic(w)
  <1>0. v \in Volume
    BY DEF Basic, Sound
  <1>1. /\ w \in Volume
        /\ w.obj = [j \in Objects |-> IF j = i THEN o ELSE v.obj[j]]
        /\ w.hdr = v.hdr /\ w.kids = v.kids /\ w.links = v.links
        /\ w.images = v.images /\ w.luck = v.luck
    BY <1>0, SetObject
  <1>2. \A j \in Objects : ObjectOK(w.obj[j])
    BY <1>1 DEF Basic, Sound
  <1>3. KidsOK(w) /\ LinksOK(w)
    BY <1>1 DEF Basic, Sound, KidsOK, LinksOK
  <1>4. \A j \in w.luck.gone : w.obj[j].soft
    <2>1. v.luck.gone \subseteq Objects
      BY <1>0 DEF Volume, Luck
    <2> QED
      BY <1>1, <2>1 DEF Basic
  <1> QED
    BY <1>1, <1>2, <1>3, <1>4 DEF Basic, Sound

LEMMA SetObjectExact ==
    ASSUME NEW v, Sound(v), NEW X, Exact(v, X), NEW i \in Objects, NEW o \in Object,
           Like(v.obj[i], o), NEW w, w = Put(v, i, o)
    PROVE  Exact(w, X)
  <1>0. v \in Volume
    BY DEF Sound
  <1>1. /\ w.obj = [j \in Objects |-> IF j = i THEN o ELSE v.obj[j]]
        /\ w.hdr = v.hdr /\ w.kids = v.kids /\ w.links = v.links /\ w.stored = v.stored
    BY <1>0, SetObject
  <1>2. \A j \in Objects : Like(v.obj[j], w.obj[j])
    BY <1>1 DEF Like
  <1>3. Stays(v, w, X, {}) /\ Needed(v, w, X \cup {})
    BY <1>1, <1>2 DEF Stays, Needed, Like
  <1>4. Exact(w, X \ {})
    BY <1>3, ExactStays
  <1> QED
    BY <1>4 DEF Exact

-----------------------------------------------------------------------------
(* Deletion.                                                               *)
NotLinked(v, i) == \A to \in Objects : ~In(i, v.links[to])

LEMMA DeletionFields ==
    ASSUME NEW v, Basic(v), NEW i \in Objects, i \notin v.luck.gone,
           NotLinked(v, i),
           NEW w, w = DoGenericObjectDeletion(v, i)
    PROVE  /\ Basic(w)
           /\ \A j \in Objects : w.obj[j] = IF j = i THEN Freed ELSE v.obj[j]
           /\ \A j \in Objects : w.hdr[j] = IF j = i THEN NoHeader ELSE v.hdr[j]
           /\ w.stored = v.stored \ {i}
           /\ \A dir \in Directories : \A x : In(x, w.kids[dir]) <=> In(x, v.kids[dir]) /\ x # i
           /\ w.links = v.links /\ w.luck = v.luck /\ w.result
  <1> DEFINE S == {i}
             g == Gone(v, S)
             u == Imaged(g)
  <1>0. v \in Volume /\ Sound(v) /\ S \in SUBSET Objects
    BY DEF Basic, Sound
  <1>10. \A j : j \in S <=> j = i
    OBVIOUS
  <1> HIDE DEF S
  <1>1. /\ g \in Volume
        /\ g.obj = [j \in Objects |-> IF j \in S THEN Freed ELSE v.obj[j]]
        /\ g.hdr = [j \in Objects |-> IF j \in S THEN NoHeader ELSE v.hdr[j]]
        /\ g.stored = v.stored \ S
        /\ \A dir \in Directories : \A x :
              In(x, g.kids[dir]) <=> In(x, v.kids[dir]) /\ x \notin S
        /\ g.links = v.links /\ g.images = v.images /\ g.luck = v.luck
    BY <1>0, GoneFields
  <1>2. Sound(g)
    BY <1>0, <1>10, GoneSound DEF NotLinked
  <1> HIDE DEF g
  <1>3. /\ u \in Volume
        /\ u.images = g.images \cup {[hdr |-> g.hdr, stored |-> g.stored]}
        /\ u.obj = g.obj /\ u.hdr = g.hdr /\ u.stored = g.stored
        /\ u.kids = g.kids /\ u.links = g.links /\ u.luck = g.luck
    BY <1>1, ImagedFields
  <1> HIDE DEF u
  <1>4. w = [u EXCEPT !.result = TRUE]
    BY DEF DoGenericObjectDeletion, u, g, S
  <1>5. /\ w \in Volume /\ w.result = TRUE
        /\ w.images = g.images \cup {[hdr |-> g.hdr, stored |-> g.stored]}
        /\ w.obj = g.obj /\ w.hdr = g.hdr /\ w.stored = g.stored
        /\ w.kids = g.kids /\ w.links = g.links /\ w.luck = g.luck
    BY <1>3, <1>4 DEF Volume
  <1>6. \A m \in w.images : \A j \in Objects : HeaderOK(m.hdr[j])
    BY <1>2, <1>5 DEF Sound
  <1>7. Sound(w)
    BY <1>2, <1>5, <1>6 DEF Sound, KidsOK, LinksOK
  <1>8. \A j \in w.luck.gone : w.obj[j].soft
    <2>1. v.luck.gone \subseteq Objects
      BY <1>0 DEF Volume, Luck
    <2> QED
      BY <1>1, <1>5, <1>10, <2>1 DEF Basic
  <1>9. Basic(w)
    BY <1>7, <1>8 DEF Basic
  <1>11. w.stored = v.stored \ {i}
    BY <1>1, <1>5 DEF S
  <1> QED
    BY <1>1, <1>5, <1>9, <1>10, <1>11

(* Nobody must be in it, and it is no file that links lead to.             *)
LEMMA DeletionExact ==
    ASSUME NEW v, Basic(v), NEW i \in Objects, i \notin v.luck.gone,
           NotLinked(v, i),
           NEW X, Exact(v, X),
           v.obj[i].type = "dir" => \A x : ~In(x, v.kids[i]),
           v.obj[i].type = "file" => v.obj[i].unlinked,
           NEW w, w = DoGenericObjectDeletion(v, i)
    PROVE  Exact(w, X \ {i})
  <1>1. /\ \A j \in Objects : w.obj[j] = IF j = i THEN Freed ELSE v.obj[j]
        /\ \A j \in Objects : w.hdr[j] = IF j = i THEN NoHeader ELSE v.hdr[j]
        /\ w.stored = v.stored \ {i}
        /\ \A dir \in Directories : \A x : In(x, w.kids[dir]) <=> In(x, v.kids[dir]) /\ x # i
        /\ w.links = v.links
    BY DeletionFields
  <1>2. Stays(v, w, X, {i})
    BY <1>1 DEF Stays, Like
  <1>3. Needed(v, w, X \cup {i})
    <2>1. \A j \in Objects \ X : v.obj[j].here => In(j, v.kids[v.obj[j].dir])
      BY DEF Exact, Mem
    <2>2. \A k \in Objects : k # i => w.obj[k] = v.obj[k]
      BY <1>1
    <2>3. v.obj[i].type = "dir" => \A j \in Objects \ X : v.obj[j].here => v.obj[j].dir # i
      BY <2>1
    <2> QED
      BY <2>2, <2>3 DEF Needed
  <1> QED
    BY <1>2, <1>3, ExactStays DEF Basic

(* The links of a file are not files, and not soft.                        *)
LEMMA LinkedOnes ==
    ASSUME NEW v, Basic(v), NEW i \in Objects
    PROVE  /\ v.obj[i].type # "link" => NotLinked(v, i)
           /\ ~v.obj[i].soft => i \notin v.luck.gone
           /\ v.obj[i].type # "file" => ~v.obj[i].soft
  <1>1. ObjectOK(v.obj[i])
    BY DEF Basic, Sound
  <1>2. v.obj[i].type # "file" => ~v.obj[i].soft
    BY <1>1 DEF ObjectOK, Freed
  <1> QED
    BY <1>2 DEF Basic, Sound, LinksOK, NotLinked

FileDeleted(v, w, i) ==
    /\ Basic(w)
    /\ \A j \in Objects : j # i => w.obj[j] = v.obj[j]
    /\ \/ w.obj[i] = Freed
       \/ w.obj[i] = [v.obj[i] EXCEPT !.deleted = TRUE, !.soft = TRUE]
    /\ w.luck = v.luck
    /\ \A X : Exact(v, X) => Exact(w, X)

LEMMA DeletedFields ==
    ASSUME NEW v, Basic(v), NEW i \in Objects, v.obj[i].here, v.obj[i].type = "file",
           v.obj[i].unlinked, ~v.obj[i].soft
    PROVE  FileDeleted(v, Deleted(v, i), i)
  <1> DEFINE w == Deleted(v, i)
             o == [v.obj[i] EXCEPT !.deleted = TRUE]
             p == [v.obj[i] EXCEPT !.deleted = TRUE, !.soft = TRUE]
             u == Put(v, i, o)
  <1>0. v \in Volume /\ Sound(v) /\ v.obj[i] \in Object /\ ObjectOK(v.obj[i])
    BY DEF Basic, Sound, Volume
  <1>1. /\ o \in Object /\ p \in Object /\ ObjectOK(o) /\ ObjectOK(p)
        /\ Like(v.obj[i], o) /\ Like(v.obj[i], p) /\ p.soft
        /\ o.deleted /\ ~o.soft /\ o.unlinked
    BY <1>0 DEF Object, ObjectOK, Like
  <1>2. i \notin v.luck.gone
    BY LinkedOnes
  <1>3. u = [v EXCEPT !.obj[i].deleted = TRUE]
    BY <1>0 DEF Volume, Put
  <1>4. [v EXCEPT !.obj = [v.obj EXCEPT ![i] = p]] = [u EXCEPT !.obj[i].soft = TRUE]
    BY <1>0 DEF Volume, Put
  <1> HIDE DEF o, p
  <1>5. Basic(u) /\ \A X : Exact(v, X) => Exact(u, X)
    BY <1>0, <1>1, <1>2, SetObjectSound, SetObjectExact DEF Like
  <1>6. u.obj = [j \in Objects |-> IF j = i THEN o ELSE v.obj[j]] /\ u.luck = v.luck
    BY <1>0, <1>1, SetObject
  <1> HIDE DEF u
  <1>7. w = SoftDeleteFile(u, i)
    BY <1>3 DEF Deleted
  <1> HIDE DEF w
  <1>8. u.obj[i] = o /\ o.type = "file"
    BY <1>1, <1>6 DEF Like
  <1>9. ASSUME u.obj[i].data PROVE FileDeleted(v, w, i)
    <2>1. w = Put(v, i, p)
      BY <1>1, <1>4, <1>7, <1>8, <1>9 DEF SoftDeleteFile, Put
    <2>2. Basic(w)
      BY <1>0, <1>1, <1>2, <2>1, SetObjectSound DEF Like
    <2>3. \A X : Exact(v, X) => Exact(w, X)
      BY <1>0, <1>1, <2>1, SetObjectExact
    <2>4. w.obj = [j \in Objects |-> IF j = i THEN p ELSE v.obj[j]] /\ w.luck = v.luck
      BY <1>0, <1>1, <2>1, SetObject
    <2> QED
      BY <2>2, <2>3, <2>4 DEF p, FileDeleted
  <1>10. ASSUME ~u.obj[i].data PROVE FileDeleted(v, w, i)
    <2>1. w = DoGenericObjectDeletion(u, i)
      BY <1>1, <1>7, <1>8, <1>10 DEF SoftDeleteFile
    <2>2. i \notin u.luck.gone /\ NotLinked(u, i)
      BY <1>2, <1>5, <1>6, <1>8, LinkedOnes
    <2>3. /\ Basic(w) /\ w.luck = u.luck
          /\ \A j \in Objects : w.obj[j] = IF j = i THEN Freed ELSE u.obj[j]
      BY <1>5, <2>1, <2>2, DeletionFields
    <2>4. ASSUME NEW X, Exact(v, X) PROVE Exact(w, X)
      <3>1. Exact(u, X)
        BY <1>5, <2>4
      <3>2. Exact(w, X \ {i})
        BY <1>1, <1>5, <1>8, <2>1, <2>2, <3>1, DeletionExact
      <3> QED
        BY <3>2 DEF Exact
    <2> QED
      BY <1>6, <2>3, <2>4 DEF FileDeleted
  <1> QED
    BY <1>9, <1>10 DEF w

LEMMA DeleteDirectoryFields ==
    ASSUME NEW v, Basic(v), NEW i \in Objects, v.obj[i].type = "dir",
           NEW w, w = DeleteDirectory(v, i)
    PROVE  /\ Basic(w)
           /\ \A j \in Objects : j # i => w.obj[j] = v.obj[j]
           /\ w.obj[i] \in {Freed, v.obj[i]}
           /\ w.luck = v.luck
           /\ \A X : Exact(v, X) => Exact(w, X)
  <1>0. v \in Volume /\ i \in Directories
    BY ConstantsOK DEF Basic, Sound
  <1>1. i \notin v.luck.gone /\ NotLinked(v, i)
    BY LinkedOnes
  <1>2. CASE v.kids[i] = <<>>
    <2>1. w = DoGenericObjectDeletion(v, i)
      BY <1>2 DEF DeleteDirectory
    <2>2. \A x : ~In(x, v.kids[i])
      BY <1>2 DEF In
    <2>3. /\ Basic(w) /\ w.luck = v.luck
          /\ \A j \in Objects : w.obj[j] = IF j = i THEN Freed ELSE v.obj[j]
      BY <1>1, <2>1, DeletionFields
    <2>4. ASSUME NEW X, Exact(v, X) PROVE Exact(w, X)
      <3>1. Exact(w, X \ {i})
        BY <1>1, <2>1, <2>2, <2>4, DeletionExact
      <3> QED
        BY <3>1 DEF Exact
    <2> QED
      BY <2>3, <2>4
  <1>3. CASE v.kids[i] # <<>>
    <2>1. w = [v EXCEPT !.result = FALSE]
      BY <1>3 DEF DeleteDirectory
    <2>2. /\ w \in Volume /\ w.obj = v.obj /\ w.kids = v.kids /\ w.links = v.links
          /\ w.hdr = v.hdr /\ w.stored = v.stored /\ w.images = v.images /\ w.luck = v.luck
      BY <1>0, <2>1 DEF Volume
    <2>3. Basic(w)
      BY <2>2 DEF Basic, Sound, KidsOK, LinksOK
    <2>4. \A X : Exact(v, X) => Exact(w, X)
      BY <2>2 DEF Exact, Mem, OnFlash, Apart
    <2> QED
      BY <2>2, <2>3, <2>4
  <1> QED
    BY <1>2, <1>3

LEMMA DeleteHardLinkFields ==
    ASSUME NEW v, Basic(v), NEW i \in Objects, v.obj[i].type = "link",
           NEW w, w = DeleteHardLink(v, i)
    PROVE  /\ Basic(w)
           /\ \A j \in Objects : j # i => w.obj[j] = v.obj[j]
           /\ w.obj[i] = Freed
           /\ w.luck = v.luck
           /\ \A X : Exact(v, X) => Exact(w, X)
  <1> DEFINE links == [to \in Objects |-> Without(v.links[to], i)]
             u == [v EXCEPT !.links = links]
  <1>0. v \in Volume
    BY DEF Basic, Sound
  <1>1. /\ links \in [Objects -> Seq(Objects)]
        /\ \A to \in Objects : \A x : In(x, links[to]) <=> In(x, v.links[to]) /\ x # i
    BY <1>0, WithoutElements DEF Volume
  <1>2. w = DoGenericObjectDeletion(u, i)
    BY DEF DeleteHardLink
  <1> HIDE DEF links
  <1>3. /\ u \in Volume /\ u.obj = v.obj /\ u.kids = v.kids /\ u.links = links
        /\ u.hdr = v.hdr /\ u.stored = v.stored /\ u.images = v.images /\ u.luck = v.luck
    BY <1>0, <1>1 DEF Volume
  <1> HIDE DEF u
  <1>4. Basic(u)
    BY <1>1, <1>3 DEF Basic, Sound, KidsOK, LinksOK
  <1>5. i \notin u.luck.gone /\ NotLinked(u, i)
    BY <1>1, <1>3, LinkedOnes DEF NotLinked
  <1>6. /\ Basic(w) /\ w.luck = u.luck
        /\ \A j \in Objects : w.obj[j] = IF j = i THEN Freed ELSE u.obj[j]
    BY <1>2, <1>4, <1>5, DeletionFields
  <1>7. ASSUME NEW X, Exact(v, X) PROVE Exact(w, X)
    <2>1. Exact(v, X \cup {i})
      BY <1>7, ExactMore
    <2>2. Stays(v, u, X \cup {i}, {}) /\ Needed(v, u, X \cup {i} \cup {})
      BY <1>1, <1>3 DEF Stays, Needed, Like
    <2>3. Exact(u, (X \cup {i}) \ {})
      BY <2>1, <2>2, ExactStays DEF Basic
    <2>4. Exact(w, ((X \cup {i}) \ {}) \ {i})
      BY <1>2, <1>3, <1>4, <1>5, <2>3, DeletionExact
    <2> QED
      BY <2>4 DEF Exact
  <1> QED
    BY <1>3, <1>6, <1>7

-----------------------------------------------------------------------------
(* An object moves, from u to w; u is v but for the object and its links.  *)
Moves(v, u, i) ==
    /\ \A j \in Objects : j # i => u.obj[j] = v.obj[j]
    /\ u.kids = v.kids /\ u.hdr = v.hdr /\ u.stored = v.stored
    /\ u.images = v.images /\ u.luck = v.luck /\ LinksOK(u)

LEMMA MovedSound ==
    ASSUME NEW v, Basic(v), NEW i \in Objects, i \notin v.luck.gone,
           NEW u \in Volume, Moves(v, u, i), NEW dir \in Directories,
           ObjectOK(Placed(u.obj[i], dir)),
           NEW w, w = AddObjectToDirectory(u, dir, i)
    PROVE  Basic(w) /\ w.obj[i] = Placed(u.obj[i], dir)
  <1> DEFINE o == Placed(u.obj[i], dir)
  <1>0. v \in Volume /\ u.obj[i] \in Object
    BY DEF Basic, Sound, Volume
  <1>1. /\ w \in Volume
        /\ \A j \in Objects : w.obj[j] = IF j = i THEN o ELSE u.obj[j]
        /\ \A d \in Directories, x \in Objects :
              In(x, w.kids[d]) <=> (In(x, u.kids[d]) /\ x # i) \/ (x = i /\ d = dir)
        /\ w.hdr = u.hdr /\ w.links = u.links /\ w.images = u.images /\ w.luck = u.luck
    BY AddFields
  <1>2. o.dir = dir /\ o.type = u.obj[i].type /\ o.equiv = u.obj[i].equiv
    BY <1>0 DEF Placed, Object
  <1>3. \A j \in Objects : w.obj[j] = IF j = i THEN o ELSE v.obj[j]
    BY <1>1 DEF Moves, Volume
  <1> HIDE DEF o
  <1>4. \A j \in Objects : ObjectOK(w.obj[j])
    BY <1>3 DEF Basic, Sound, o
  <1>5. KidsOK(w)
    <2>1. \A d \in Directories, x \in Objects : In(x, v.kids[d]) => v.obj[x].dir = d
      BY DEF Basic, Sound, KidsOK
    <2> QED
      BY <1>1, <1>2, <1>3, <2>1 DEF Moves, KidsOK
  <1>6. LinksOK(w)
    <2>1. \A j \in Objects : w.obj[j].type = u.obj[j].type /\ w.obj[j].equiv = u.obj[j].equiv
      BY <1>2, <1>3 DEF Moves
    <2> QED
      BY <1>1, <2>1 DEF Moves, LinksOK
  <1>7. \A j \in w.luck.gone : w.obj[j].soft
    <2>1. v.luck.gone \subseteq Objects
      BY <1>0 DEF Volume, Luck
    <2> QED
      BY <1>1, <1>3, <2>1 DEF Basic, Moves
  <1>8. /\ \A j \in Objects : HeaderOK(w.hdr[j])
        /\ \A m \in w.images : \A j \in Objects : HeaderOK(m.hdr[j])
    BY <1>1 DEF Basic, Sound, Moves
  <1> QED
    BY <1>1, <1>3, <1>4, <1>5, <1>6, <1>7, <1>8 DEF Basic, Sound, o

(* The others are where they were; only a file without links goes to the   *)
(* unlinked directory.                                                     *)
LEMMA MovedExact ==
    ASSUME NEW v, Basic(v), NEW i \in Objects,
           NEW u \in Volume, Moves(v, u, i), NEW dir \in Directories,
           NEW X, Exact(v, X),
           \A j \in Objects \ (X \cup {i}), to \in Objects :
               In(j, v.links[to]) => In(j, u.links[to]),
           v.obj[i].type \in {"file", "dir"} =>
               u.obj[i].type = v.obj[i].type /\ u.obj[i].unlinked = v.obj[i].unlinked,
           dir = "unlinked" => \A x : ~In(x, v.links[i]),
           NEW w, w = AddObjectToDirectory(u, dir, i)
    PROVE  Exact(w, X \cup {i})
  <1> DEFINE o == Placed(u.obj[i], dir)
  <1>0. v \in Volume /\ u.obj[i] \in Object
    BY DEF Basic, Sound, Volume
  <1>1. /\ \A j \in Objects : w.obj[j] = IF j = i THEN o ELSE u.obj[j]
        /\ \A d \in Directories, x \in Objects :
              In(x, w.kids[d]) <=> (In(x, u.kids[d]) /\ x # i) \/ (x = i /\ d = dir)
        /\ w.hdr = u.hdr /\ w.links = u.links /\ w.stored = u.stored
    BY AddFields
  <1>2. o.type = u.obj[i].type /\ (o.unlinked <=> u.obj[i].unlinked \/ dir = "unlinked")
    BY <1>0 DEF Placed, Object
  <1>3. \A j \in Objects : w.obj[j] = IF j = i THEN o ELSE v.obj[j]
    BY <1>1 DEF Moves, Volume
  <1> HIDE DEF o
  <1> DEFINE Y == X \cup {i}
  <1>4. Exact(v, Y)
    BY ExactMore
  <1>5. \A j \in Objects \ Y : j # i /\ j \notin X
    OBVIOUS
  <1>6. \A j \in Objects \ Y : \A to \in Objects : In(j, v.links[to]) => In(j, w.links[to])
    BY <1>1
  <1> HIDE DEF Y
  <1>7. Stays(v, w, Y, {})
    BY <1>1, <1>3, <1>5, <1>6 DEF Stays, Like, Moves
  <1>8. Needed(v, w, Y \cup {})
    <2>1. \A k \in Objects : k # i => w.obj[k] = v.obj[k]
      BY <1>3
    <2>2. v.obj[i].type = "dir" => w.obj[i].type = "dir"
      BY <1>2, <1>3
    <2>3. v.obj[i].type = "file" /\ ~v.obj[i].unlinked =>
             \/ w.obj[i].type = "file" /\ ~w.obj[i].unlinked
             \/ \A j \in Objects \ Y : v.obj[j].type = "link" => v.obj[j].to # i
      <3>1. ASSUME NEW j \in Objects \ Y, v.obj[j].type = "link", v.obj[j].to = i
            PROVE  In(j, v.links[i])
        <4>1. Mem(v, j)
          BY <1>4 DEF Exact
        <4>2. v.obj[j].here
          BY <3>1 DEF Basic, Sound, ObjectOK, Freed
        <4> QED
          BY <3>1, <4>1, <4>2 DEF Mem
      <3> QED
        BY <1>2, <1>3, <3>1
    <2> QED
      BY <2>1, <2>2, <2>3 DEF Needed
  <1>9. Exact(w, Y \ {})
    BY <1>4, <1>7, <1>8, ExactStays DEF Basic
  <1> QED
    BY <1>9 DEF Exact, Y

(* The header makes an object that moved what the others are.              *)
LEMMA HeaderExact ==
    ASSUME NEW v, Basic(v), NEW i \in Objects, v.obj[i].here, i \notin v.luck.gone,
           NEW name \in Name, v.luck.room,
           NEW X, Exact(v, X \cup {i}), Mem(v, i), \A j \in Objects \ X : Apart(v, i, j),
           v.obj[i].dir # "unlinked" => Kept(v, i, name) = v.obj[i].sum,
           NEW w, w = UpdateObjectHeader(v, i, name)
    PROVE  Exact(w, X)
  <1> DEFINE G == v.luck.gone
             Y == X \cup {i}
             h == [type |-> v.obj[i].type, dir |-> v.obj[i].dir,
                   name |-> Kept(v, i, name), equiv |-> v.obj[i].equiv]
  <1>0. v \in Volume /\ Sound(v) /\ G \subseteq Objects /\ i \notin G
    BY DEF Basic, Sound, Volume, Luck
  <1>1. /\ \A j \in Objects : w.obj[j] = IF j \in G THEN Freed
                                         ELSE IF j = i THEN [v.obj[i] EXCEPT !.dirty = FALSE]
                                         ELSE v.obj[j]
        /\ \A j \in Objects : w.hdr[j] = IF j \in G THEN NoHeader
                                         ELSE IF j = i THEN h ELSE v.hdr[j]
        /\ w.stored = v.stored \ G
        /\ \A dir \in Directories : \A x : In(x, w.kids[dir]) <=> In(x, v.kids[dir]) /\ x \notin G
        /\ w.links = v.links
    <2>1. HeaderWritten(v, w, i, name)
      BY HeaderFields
    <2> QED
      BY <2>1 DEF HeaderWritten
  <1>2. \A j \in G : v.obj[j].soft /\ v.obj[j].type = "file" /\ v.obj[j].unlinked
    <2> SUFFICES ASSUME NEW j \in G
                 PROVE  v.obj[j].soft /\ v.obj[j].type = "file" /\ v.obj[j].unlinked
      OBVIOUS
    <2>1. j \in Objects /\ v.obj[j].soft
      BY <1>0 DEF Basic
    <2> QED
      BY <1>0, <2>1, SoftOnes
  <1>3. Like(v.obj[i], [v.obj[i] EXCEPT !.dirty = FALSE])
    <2>1. v.obj[i] \in Object
      BY <1>0 DEF Volume
    <2> QED
      BY <2>1 DEF Like, Object
  <1>4. \A j \in Objects \ G : Like(v.obj[j], w.obj[j])
    BY <1>1, <1>3 DEF Like
  <1>5. /\ \A j \in Objects : j \notin Y => j # i
        /\ \A j \in G : w.obj[j] = Freed /\ w.hdr[j] = NoHeader /\ j \notin w.stored
    BY <1>0, <1>1
  <1>6. \A j \in Objects \ G : j # i => w.hdr[j] = v.hdr[j]
    BY <1>1
  <1> HIDE DEF G, Y, h
  <1>7. Stays(v, w, Y, G)
    BY <1>1, <1>4, <1>5, <1>6 DEF Stays
  <1>8. Needed(v, w, Y \cup G)
    <2>1. \A k \in Objects : k \notin G => /\ w.obj[k].type = v.obj[k].type
                                            /\ w.obj[k].unlinked = v.obj[k].unlinked
      BY <1>4 DEF Like
    <2>2. \A k \in Objects : v.obj[k].type = "dir" => k \notin G
      BY <1>2
    <2>3. \A k \in Objects : v.obj[k].type = "file" /\ ~v.obj[k].unlinked => k \notin G
      BY <1>2
    <2> QED
      BY <2>1, <2>2, <2>3 DEF Needed
  <1>9. Exact(w, Y \ G)
    BY <1>0, <1>7, <1>8, ExactStays DEF Y
  <1>10. Exact(w, X \cup {i})
    BY <1>9 DEF Exact, Y
  <1>11. ObjectOK(v.obj[i])
    BY <1>0 DEF Sound
  <1>12. Like(v.obj[i], w.obj[i]) /\ w.hdr[i] = h
    BY <1>0, <1>1, <1>4
  <1>13. OnFlash(w, i)
    <2>1. h.type = v.obj[i].type /\ h.dir = v.obj[i].dir /\ h.equiv = v.obj[i].equiv
          /\ h.name = Kept(v, i, name)
      BY DEF h
    <2>2. h # NoHeader
      BY <1>11, <2>1 DEF ObjectOK, NoHeader, Types
    <2> QED
      BY <1>12, <2>1, <2>2 DEF OnFlash, Like
  <1>14. Mem(w, i)
    <2>1. i \in w.stored <=> i \in v.stored
      BY <1>0, <1>1
    <2>2. v.obj[i].dir \in Directories
      BY <1>11 DEF ObjectOK
    <2>3. In(i, w.kids[v.obj[i].dir])
      BY <1>0, <1>1, <2>2 DEF Mem
    <2>4. v.obj[i].dir \in Objects => w.obj[v.obj[i].dir].type = "dir"
      <3>1. ASSUME v.obj[i].dir \in Objects
            PROVE  v.obj[v.obj[i].dir].type = "dir" /\ v.obj[i].dir \notin G
        BY <1>2, <3>1 DEF Mem
      <3> QED
        BY <1>4, <3>1 DEF Like
    <2>5. v.obj[i].type = "link" =>
             /\ v.obj[i].to = v.obj[i].equiv
             /\ w.obj[v.obj[i].to].type = "file" /\ ~w.obj[v.obj[i].to].unlinked
             /\ In(i, w.links[v.obj[i].to])
      <3>1. ASSUME v.obj[i].type = "link"
            PROVE  /\ v.obj[i].to = v.obj[i].equiv /\ v.obj[i].to \in Objects
                   /\ v.obj[v.obj[i].to].type = "file" /\ ~v.obj[v.obj[i].to].unlinked
                   /\ In(i, v.links[v.obj[i].to]) /\ v.obj[i].to \notin G
        BY <1>2, <1>11, <3>1 DEF Mem, ObjectOK
      <3> QED
        BY <1>1, <1>4, <3>1 DEF Like
    <2> QED
      BY <1>12, <2>1, <2>3, <2>4, <2>5 DEF Mem, Like
  <1>15. \A j \in Objects \ X : Apart(w, i, j)
    <2> SUFFICES ASSUME NEW j \in Objects \ X
                 PROVE  Apart(w, i, j)
      OBVIOUS
    <2>1. CASE j \in G
      BY <1>5, <2>1 DEF Apart, Freed
    <2>2. CASE j \notin G
      <3>1. Like(v.obj[j], w.obj[j]) /\ Apart(v, i, j)
        BY <1>4, <2>2
      <3> QED
        BY <1>12, <3>1 DEF Apart, Like
    <2> QED
      BY <2>1, <2>2
  <1> QED
    BY <1>10, <1>13, <1>14, <1>15, ExactLess

-----------------------------------------------------------------------------
(* A new name, a new directory.                                            *)
MayMove(v, i, dir, name) ==
    /\ \/ dir = "unlinked" /\ v.obj[i].type = "file"
       \/ FindObjectByName(v, dir, name) = NoObject
    /\ IsDirectory(v, dir)

Renamed(o, name) == [o EXCEPT !.sum = name, !.dirty = TRUE]

Moved(v, i, dir, name) == AddObjectToDirectory(Put(v, i, Renamed(v.obj[i], name)), dir, i)

LEMMA ChangeIs ==
    ASSUME NEW v \in Volume, NEW i \in Objects, NEW dir, NEW name
    PROVE  ChangeObjectName(v, i, dir, name) =
               IF MayMove(v, i, dir, name)
               THEN UpdateObjectHeader(Moved(v, i, dir, name), i, name)
               ELSE [v EXCEPT !.result = FALSE]
  <1>1. [v EXCEPT !.obj[i].sum = name, !.obj[i].dirty = TRUE] = Put(v, i, Renamed(v.obj[i], name))
    <2> DEFINE o == [v.obj[i] EXCEPT !.sum = name]
    <2>1. [v EXCEPT !.obj[i].sum = name] = [v EXCEPT !.obj = [v.obj EXCEPT ![i] = o]]
      BY DEF Volume
    <2>2. [v EXCEPT !.obj[i].sum = name, !.obj[i].dirty = TRUE]
          = [[v EXCEPT !.obj[i].sum = name] EXCEPT !.obj[i].dirty = TRUE]
      BY DEF Volume
    <2> QED
      BY <2>1, <2>2 DEF Volume, Put, Renamed
  <1> QED
    BY <1>1 DEF ChangeObjectName, MayMove, Moved

(* What neither changes.                                                   *)
Same(o, p) ==
    /\ p.here = o.here /\ p.type = o.type /\ p.deleted = o.deleted /\ p.soft = o.soft
    /\ p.data = o.data /\ p.inUse = o.inUse /\ p.equiv = o.equiv /\ p.to = o.to

LEMMA PlacedFields ==
    ASSUME NEW o \in Object, NEW dir \in Directories
    PROVE  /\ Placed(o, dir) \in Object
           /\ Placed(o, dir).dir = dir /\ Placed(o, dir).sum = o.sum
           /\ Placed(o, dir).unlinked <=> o.unlinked \/ dir = "unlinked"
           /\ Same(o, Placed(o, dir))
  <1>1. dir \in Place
    BY DEF Place
  <1> QED
    BY <1>1 DEF Placed, Object, Same

LEMMA RenamedFields ==
    ASSUME NEW o \in Object, NEW name \in Name
    PROVE  /\ Renamed(o, name) \in Object
           /\ Renamed(o, name).sum = name /\ Renamed(o, name).dir = o.dir
           /\ Renamed(o, name).unlinked <=> o.unlinked
           /\ Same(o, Renamed(o, name))
  BY DEF Renamed, Object, Same

LEMMA MovedFields ==
    ASSUME NEW v, Basic(v), NEW i \in Objects, v.obj[i].here, ~v.obj[i].unlinked,
           NEW dir \in Directories, dir = "unlinked" => v.obj[i].type = "file",
           NEW name \in Name, NEW m, m = Moved(v, i, dir, name)
    PROVE  /\ Basic(m)
           /\ \A j \in Objects : j # i => m.obj[j] = v.obj[j]
           /\ m.obj[i].here /\ m.obj[i].dir = dir /\ m.obj[i].sum = name
           /\ m.obj[i].unlinked <=> dir = "unlinked"
           /\ ~m.obj[i].deleted /\ ~m.obj[i].soft
           /\ m.obj[i].type = v.obj[i].type /\ m.obj[i].data = v.obj[i].data
           /\ m.obj[i].inUse = v.obj[i].inUse
           /\ m.obj[i].equiv = v.obj[i].equiv /\ m.obj[i].to = v.obj[i].to
           /\ m.hdr = v.hdr /\ m.stored = v.stored /\ m.links = v.links /\ m.luck = v.luck
           /\ \A d \in Directories, x \in Objects :
                 In(x, m.kids[d]) <=> (In(x, v.kids[d]) /\ x # i) \/ (x = i /\ d = dir)
  <1> DEFINE o == Renamed(v.obj[i], name)
             u == Put(v, i, o)
             p == Placed(o, dir)
  <1>0. v \in Volume /\ Sound(v) /\ v.obj[i] \in Object /\ ObjectOK(v.obj[i])
    BY DEF Basic, Sound, Volume
  <1>1. /\ o \in Object /\ o.sum = name /\ o.dir = v.obj[i].dir
        /\ o.unlinked <=> v.obj[i].unlinked
        /\ Same(v.obj[i], o)
    BY <1>0, RenamedFields
  <1> HIDE DEF o
  <1>2. /\ u \in Volume
        /\ u.obj = [j \in Objects |-> IF j = i THEN o ELSE v.obj[j]]
        /\ u.hdr = v.hdr /\ u.stored = v.stored /\ u.kids = v.kids /\ u.links = v.links
        /\ u.images = v.images /\ u.luck = v.luck
    BY <1>0, <1>1, SetObject
  <1>3. u.obj[i] = o /\ \A j \in Objects : j # i => u.obj[j] = v.obj[j]
    BY <1>2
  <1>4. m = AddObjectToDirectory(u, dir, i)
    BY DEF Moved, u, o
  <1> HIDE DEF u
  <1>5. Moves(v, u, i)
    <2>1. \A j \in Objects : u.obj[j].type = v.obj[j].type /\ u.obj[j].equiv = v.obj[j].equiv
      BY <1>1, <1>3 DEF Same
    <2>2. LinksOK(u)
      BY <1>0, <1>2, <2>1 DEF Sound, LinksOK
    <2> QED
      BY <1>2, <1>3, <2>2 DEF Moves
  <1>6. /\ p \in Object /\ p.dir = dir /\ p.sum = o.sum
        /\ p.unlinked <=> o.unlinked \/ dir = "unlinked"
        /\ Same(o, p)
    BY <1>1, PlacedFields
  <1>7. ObjectOK(Placed(u.obj[i], dir))
    <2> HIDE DEF p
    <2>1. ObjectOK(p)
      BY <1>0, <1>1, <1>6 DEF ObjectOK, Same
    <2> QED
      BY <1>3, <2>1 DEF p
  <1>8. ~v.obj[i].deleted /\ ~v.obj[i].soft
    BY <1>0 DEF ObjectOK
  <1>9. i \notin v.luck.gone
    BY <1>8 DEF Basic
  <1>10. Basic(m) /\ m.obj[i] = p
    BY <1>2, <1>3, <1>4, <1>5, <1>7, <1>9, MovedSound
  <1>11. /\ \A j \in Objects : m.obj[j] = IF j = i THEN p ELSE u.obj[j]
         /\ \A d \in Directories, x \in Objects :
               In(x, m.kids[d]) <=> (In(x, u.kids[d]) /\ x # i) \/ (x = i /\ d = dir)
         /\ m.hdr = u.hdr /\ m.stored = u.stored /\ m.links = u.links /\ m.luck = u.luck
    BY <1>2, <1>3, <1>4, AddFields
  <1> HIDE DEF p
  <1> QED
    <2>1. /\ m.obj[i].here /\ m.obj[i].dir = dir /\ m.obj[i].sum = name
          /\ m.obj[i].unlinked <=> dir = "unlinked"
          /\ ~m.obj[i].deleted /\ ~m.obj[i].soft
          /\ m.obj[i].type = v.obj[i].type /\ m.obj[i].data = v.obj[i].data
          /\ m.obj[i].inUse = v.obj[i].inUse
          /\ m.obj[i].equiv = v.obj[i].equiv /\ m.obj[i].to = v.obj[i].to
      BY <1>1, <1>6, <1>8, <1>10 DEF Same
    <2>2. \A j \in Objects : j # i => m.obj[j] = v.obj[j]
      BY <1>3, <1>11
    <2>3. /\ m.hdr = v.hdr /\ m.stored = v.stored /\ m.links = v.links /\ m.luck = v.luck
          /\ \A d \in Directories, x \in Objects :
                In(x, m.kids[d]) <=> (In(x, v.kids[d]) /\ x # i) \/ (x = i /\ d = dir)
      BY <1>2, <1>11
    <2> QED
      BY <1>10, <2>1, <2>2, <2>3

(* What becomes of the volume and of the object.                           *)
Changed(v, w, i, dir, name) ==
    /\ Basic(w) /\ Others(v, w, {i})
    /\ w.obj[i].here /\ ~w.obj[i].deleted /\ ~w.obj[i].soft
    /\ w.obj[i].unlinked => dir = "unlinked"
    /\ MayMove(v, i, dir, name) /\ dir = "unlinked" => w.obj[i].unlinked
    /\ w.obj[i].type = v.obj[i].type /\ w.obj[i].inUse = v.obj[i].inUse
    /\ w.links = v.links
    /\ w.luck.gone \subseteq v.luck.gone
    /\ v.luck.refused => w.luck.refused
    /\ w.result => MayMove(v, i, dir, name) /\ v.luck.room
    /\ MayMove(v, i, dir, name) => w.result \/ w.luck.refused

LEMMA ChangeFields ==
    ASSUME NEW v, Basic(v), NEW i \in Objects, v.obj[i].here, ~v.obj[i].unlinked,
           NEW dir \in Directories, dir = "unlinked" => v.obj[i].type = "file",
           NEW name \in Name
    PROVE  Changed(v, ChangeObjectName(v, i, dir, name), i, dir, name)
  <1> DEFINE w == ChangeObjectName(v, i, dir, name)
  <1> DEFINE m == Moved(v, i, dir, name)
  <1>0. v \in Volume /\ Sound(v) /\ v.obj[i] \in Object /\ ObjectOK(v.obj[i])
    BY DEF Basic, Sound, Volume
  <1>3. w = IF MayMove(v, i, dir, name) THEN UpdateObjectHeader(m, i, name)
            ELSE [v EXCEPT !.result = FALSE]
    BY <1>0, ChangeIs
  <1> HIDE DEF w
  <1>1. ASSUME MayMove(v, i, dir, name) PROVE Changed(v, w, i, dir, name)
    <2>1. w = UpdateObjectHeader(m, i, name)
      BY <1>1, <1>3
    <2>2. /\ Basic(m)
          /\ \A j \in Objects : j # i => m.obj[j] = v.obj[j]
          /\ m.obj[i].here /\ ~m.obj[i].deleted /\ ~m.obj[i].soft
          /\ m.obj[i].unlinked <=> dir = "unlinked"
          /\ m.obj[i].type = v.obj[i].type /\ m.obj[i].inUse = v.obj[i].inUse
          /\ m.links = v.links /\ m.luck = v.luck
      BY MovedFields
    <2> HIDE DEF m
    <2>3. i \notin m.luck.gone /\ m.obj[i] \in Object
      BY <2>2 DEF Basic, Sound, Volume
    <2>31. HeaderWritten(m, w, i, name)
      BY <2>1, <2>2, <2>3, HeaderFields
    <2>4. /\ Basic(w)
          /\ \A j \in Objects : w.obj[j] = IF j \in m.luck.gone THEN Freed
                                            ELSE IF j = i /\ m.luck.room
                                            THEN [m.obj[i] EXCEPT !.dirty = FALSE]
                                            ELSE m.obj[j]
          /\ w.links = m.links
          /\ w.luck.gone = {}
          /\ w.luck.refused <=> m.luck.refused \/ ~m.luck.room
          /\ w.result <=> m.luck.room
      BY <2>31 DEF HeaderWritten
    <2> DEFINE p == [m.obj[i] EXCEPT !.dirty = FALSE]
    <2>5. /\ p.here = m.obj[i].here /\ p.deleted = m.obj[i].deleted /\ p.soft = m.obj[i].soft
          /\ p.unlinked = m.obj[i].unlinked /\ p.type = m.obj[i].type
          /\ p.inUse = m.obj[i].inUse
      BY <2>3 DEF Object
    <2>6. w.obj[i] = p \/ w.obj[i] = m.obj[i]
      BY <2>3, <2>4
    <2> HIDE DEF p
    <2>7. Others(v, w, {i})
      <3>1. \A j \in v.luck.gone : v.obj[j].soft
        BY DEF Basic
      <3> QED
        BY <2>2, <2>4, <3>1 DEF Others
    <2>8. /\ w.obj[i].here /\ ~w.obj[i].deleted /\ ~w.obj[i].soft
          /\ w.obj[i].unlinked <=> dir = "unlinked"
          /\ w.obj[i].type = v.obj[i].type /\ w.obj[i].inUse = v.obj[i].inUse
      BY <2>2, <2>5, <2>6
    <2>9. /\ w.luck.gone \subseteq v.luck.gone
          /\ v.luck.refused => w.luck.refused
          /\ w.result => v.luck.room
          /\ w.result \/ w.luck.refused
      BY <2>2, <2>4
    <2> QED
      BY <1>1, <2>2, <2>4, <2>7, <2>8, <2>9 DEF Changed
  <1>2. ASSUME ~MayMove(v, i, dir, name) PROVE Changed(v, w, i, dir, name)
    <2>1. w = [v EXCEPT !.result = FALSE]
      BY <1>2, <1>3
    <2>2. /\ w \in Volume /\ w.obj = v.obj /\ w.kids = v.kids /\ w.links = v.links
          /\ w.hdr = v.hdr /\ w.stored = v.stored /\ w.images = v.images /\ w.luck = v.luck
          /\ ~w.result
      BY <1>0, <2>1 DEF Volume
    <2>3. Basic(w)
      BY <2>2 DEF Basic, Sound, KidsOK, LinksOK
    <2>4. ~v.obj[i].deleted /\ ~v.obj[i].soft
      BY <1>0 DEF ObjectOK
    <2> QED
      BY <1>2, <2>2, <2>3, <2>4 DEF Others, Changed
  <1> QED
    BY <1>1, <1>2 DEF w

LEMMA ChangeExact ==
    ASSUME NEW v, Basic(v), NEW i \in Objects, v.obj[i].here, ~v.obj[i].unlinked,
           NEW dir \in Directories,
           dir = "unlinked" => v.obj[i].type = "file" /\ \A x : ~In(x, v.links[i]),
           v.obj[i].type = "dir" => dir \in Fixed,
           NEW name \in Name, dir # "unlinked" => name \in FileNames,
           NEW X, Exact(v, X), i \notin X,
           ~ChangeObjectName(v, i, dir, name).luck.refused
    PROVE  Exact(ChangeObjectName(v, i, dir, name), X)
  <1> DEFINE w == ChangeObjectName(v, i, dir, name)
             m == Moved(v, i, dir, name)
             u == Put(v, i, Renamed(v.obj[i], name))
  <1>0. v \in Volume /\ Sound(v) /\ v.obj[i] \in Object /\ ObjectOK(v.obj[i])
    BY DEF Basic, Sound, Volume
  <1>1. w = IF MayMove(v, i, dir, name) THEN UpdateObjectHeader(m, i, name)
            ELSE [v EXCEPT !.result = FALSE]
    BY <1>0, ChangeIs
  <1>2. ~w.luck.refused
    OBVIOUS
  <1>3. m = AddObjectToDirectory(u, dir, i)
    BY DEF Moved
  <1>4. /\ Basic(m)
        /\ \A j \in Objects : j # i => m.obj[j] = v.obj[j]
        /\ m.obj[i].here /\ m.obj[i].dir = dir /\ m.obj[i].sum = name
        /\ m.obj[i].unlinked <=> dir = "unlinked"
        /\ ~m.obj[i].deleted /\ ~m.obj[i].soft
        /\ m.obj[i].type = v.obj[i].type /\ m.obj[i].data = v.obj[i].data
        /\ m.obj[i].inUse = v.obj[i].inUse
        /\ m.obj[i].equiv = v.obj[i].equiv /\ m.obj[i].to = v.obj[i].to
        /\ m.hdr = v.hdr /\ m.stored = v.stored /\ m.links = v.links /\ m.luck = v.luck
        /\ \A d \in Directories, x \in Objects :
              In(x, m.kids[d]) <=> (In(x, v.kids[d]) /\ x # i) \/ (x = i /\ d = dir)
    BY MovedFields
  <1>5. Exact(m, X \cup {i})
    <2> DEFINE o == Renamed(v.obj[i], name)
    <2>1. o \in Object /\ Same(v.obj[i], o) /\ (o.unlinked <=> v.obj[i].unlinked)
      BY <1>0, RenamedFields
    <2> HIDE DEF o
    <2>2. /\ u \in Volume
          /\ u.obj = [j \in Objects |-> IF j = i THEN o ELSE v.obj[j]]
          /\ u.hdr = v.hdr /\ u.stored = v.stored /\ u.kids = v.kids /\ u.links = v.links
          /\ u.images = v.images /\ u.luck = v.luck
      BY <1>0, <2>1, SetObject DEF o
    <2> HIDE DEF u
    <2>3. u.obj[i] = o /\ \A j \in Objects : j # i => u.obj[j] = v.obj[j]
      BY <2>2
    <2>4. LinksOK(u)
      <3>1. \A j \in Objects : u.obj[j].type = v.obj[j].type /\ u.obj[j].equiv = v.obj[j].equiv
        BY <2>1, <2>3 DEF Same
      <3> QED
        BY <1>0, <2>2, <3>1 DEF Sound, LinksOK
    <2>5. Moves(v, u, i)
      BY <2>2, <2>3, <2>4 DEF Moves
    <2>6. u.obj[i].type = v.obj[i].type /\ u.obj[i].unlinked = v.obj[i].unlinked
      BY <1>0, <2>1, <2>3 DEF Same, Object
    <2> QED
      BY <1>3, <2>2, <2>5, <2>6, MovedExact
  <1> HIDE DEF u, m, w
  <1>6. Mem(v, i) /\ OnFlash(v, i)
    BY DEF Exact
  <1>7. CASE MayMove(v, i, dir, name)
    <2>1. w = UpdateObjectHeader(m, i, name)
      BY <1>1, <1>7
    <2>2. i \notin m.luck.gone
      BY <1>4 DEF Basic
    <2>3. HeaderWritten(m, w, i, name)
      BY <1>4, <2>1, <2>2, HeaderFields
    <2>4. m.luck.room
      BY <1>2, <2>3 DEF HeaderWritten
    <2>5. dir \in Objects => dir # i /\ v.obj[dir].type = "dir"
      BY <1>7, ConstantsOK DEF MayMove, IsDirectory
    <2>6. Mem(m, i)
      <3>1. m.obj[i].data <=> i \in m.stored
        BY <1>4, <1>6 DEF Mem
      <3>2. In(i, m.kids[dir])
        BY <1>4
      <3>3. dir \in Objects => m.obj[dir].type = "dir"
        BY <1>4, <2>5
      <3>4. v.obj[i].type = "link" =>
               /\ v.obj[i].to = v.obj[i].equiv
               /\ m.obj[v.obj[i].to].type = "file" /\ ~m.obj[v.obj[i].to].unlinked
               /\ In(i, m.links[v.obj[i].to])
        <4>1. ASSUME v.obj[i].type = "link"
              PROVE  /\ v.obj[i].to = v.obj[i].equiv /\ v.obj[i].to \in Objects
                     /\ v.obj[v.obj[i].to].type = "file" /\ ~v.obj[v.obj[i].to].unlinked
                     /\ In(i, v.links[v.obj[i].to])
          BY <1>0, <1>6, <4>1 DEF Mem, ObjectOK
        <4> QED
          BY <1>4, <4>1
      <3> QED
        BY <1>4, <3>1, <3>2, <3>3, <3>4 DEF Mem
    <2>7. \A j \in Objects \ X : Apart(m, i, j)
      <3> SUFFICES ASSUME NEW j \in Objects \ X, m.obj[j].here, m.obj[j].dir = dir,
                          dir # "unlinked", m.obj[j].sum = name, j # i
                   PROVE  FALSE
        BY <1>4 DEF Apart
      <3>1. v.obj[j].here /\ v.obj[j].dir = dir /\ v.obj[j].sum = name
        BY <1>4
      <3>2. Mem(v, j) /\ OnFlash(v, j)
        BY DEF Exact
      <3>3. In(j, v.kids[dir]) /\ v.hdr[j].name = name
        BY <3>1, <3>2 DEF Mem, OnFlash
      <3>4. FindObjectByName(v, dir, name) = NoObject
        BY <1>7 DEF MayMove
      <3> QED
        BY <1>0, <3>1, <3>3, <3>4, NameLookup, ConstantsOK
    <2>8. m.obj[i].dir # "unlinked" => Kept(m, i, name) = m.obj[i].sum
      BY <1>4, ConstantsOK DEF Kept
    <2> QED
      BY <1>4, <1>5, <2>1, <2>2, <2>4, <2>6, <2>7, <2>8, HeaderExact DEF w
  <1>8. CASE ~MayMove(v, i, dir, name)
    <2>1. w = [v EXCEPT !.result = FALSE]
      BY <1>1, <1>8
    <2>2. /\ w.obj = v.obj /\ w.kids = v.kids /\ w.links = v.links
          /\ w.hdr = v.hdr /\ w.stored = v.stored
      BY <1>0, <2>1 DEF Volume
    <2>3. Exact(w, X)
      BY <2>2 DEF Exact, Mem, OnFlash, Apart
    <2> QED
      BY <2>3 DEF w
  <1> QED
    BY <1>7, <1>8

-----------------------------------------------------------------------------
(* What an operation may do to the objects.                                *)
Fate(o, p) ==
    \/ p = Freed /\ (o.inUse = 0 \/ o.type \in {"dir", "link"})
    \/ p.here /\ (o.here => p.type = o.type) /\ p.inUse = o.inUse

Quiet(v) == Basic(v) /\ \A i \in Objects : Ripe(v.obj[i])

After(v, w) ==
    /\ Quiet(w)
    /\ \A j \in Objects : Fate(v.obj[j], w.obj[j])
    /\ Exact(v, {}) /\ ~w.luck.refused => Exact(w, {})

LEMMA OthersAfter ==
    ASSUME NEW v, Basic(v), NEW w, Basic(w), NEW A, Others(v, w, A),
           \A j \in Objects \ A : Ripe(v.obj[j]),
           \A i \in A : Ripe(w.obj[i]) /\ Fate(v.obj[i], w.obj[i])
    PROVE  Quiet(w) /\ \A j \in Objects : Fate(v.obj[j], w.obj[j])
  <1> SUFFICES ASSUME NEW j \in Objects
               PROVE  Ripe(w.obj[j]) /\ Fate(v.obj[j], w.obj[j])
    BY DEF Quiet
  <1>1. CASE j \in A
    BY <1>1
  <1>2. CASE j \notin A
    <2>1. w.obj[j] = v.obj[j] \/ (v.obj[j].soft /\ w.obj[j] = Freed)
      BY <1>2 DEF Others
    <2>2. Ripe(v.obj[j])
      BY <1>2
    <2>3. CASE w.obj[j] = v.obj[j]
      <3>1. ObjectOK(v.obj[j])
        BY DEF Basic, Sound
      <3>2. ~v.obj[j].here => v.obj[j] = Freed /\ v.obj[j].inUse = 0
        BY <3>1 DEF ObjectOK, Freed
      <3> QED
        BY <2>2, <2>3, <3>2 DEF Fate
    <2>4. CASE v.obj[j].soft /\ w.obj[j] = Freed
      <3>1. v.obj[j].deleted /\ v.obj[j].unlinked
        BY <2>4, SoftOnes DEF Basic
      <3>2. v.obj[j].inUse = 0
        BY <2>2, <3>1 DEF Ripe
      <3> QED
        BY <2>4, <3>2, ConstantsOK DEF Fate
    <2> QED
      BY <2>1, <2>3, <2>4
  <1> QED
    BY <1>1, <1>2

LEMMA ResultOnly ==
    ASSUME NEW v, Basic(v), NEW b \in BOOLEAN, NEW w, w = [v EXCEPT !.result = b]
    PROVE  /\ Basic(w) /\ w.obj = v.obj /\ w.luck = v.luck /\ w.links = v.links
           /\ \A X : Exact(v, X) => Exact(w, X)
  <1>1. /\ w \in Volume /\ w.obj = v.obj /\ w.kids = v.kids /\ w.links = v.links
        /\ w.hdr = v.hdr /\ w.stored = v.stored /\ w.images = v.images /\ w.luck = v.luck
    BY DEF Basic, Sound, Volume
  <1>2. Basic(w)
    BY <1>1 DEF Basic, Sound, KidsOK, LinksOK
  <1>3. \A X : Exact(v, X) => Exact(w, X)
    BY <1>1 DEF Exact, Mem, OnFlash, Apart
  <1> QED
    BY <1>1, <1>2, <1>3

-----------------------------------------------------------------------------
(* Unlinking.                                                              *)
LEMMA UnlinkFileAfter ==
    ASSUME NEW v, Quiet(v), NEW i \in Objects, v.obj[i].here, v.obj[i].type = "file",
           ~v.obj[i].unlinked, v.links[i] = <<>>
    PROVE  After(v, UnlinkFile(v, i))
  <1> DEFINE c == ChangeObjectName(v, i, "unlinked", NoName)
             d == IF c.obj[i].inUse <= 0 THEN Deleted(c, i) ELSE c
             w == UnlinkFile(v, i)
  <1>0. /\ Basic(v) /\ v \in Volume /\ v.obj[i] \in Object
        /\ "unlinked" \in Directories /\ "unlinked" \in Fixed /\ NoName \in Name
    BY DEF Quiet, Basic, Sound, Volume, Directories, Fixed, Name
  <1>1. w = [d EXCEPT !.result = c.result]
    BY DEF UnlinkFile
  <1>2. Changed(v, c, i, "unlinked", NoName)
    BY <1>0, ChangeFields
  <1>3. Exact(v, {}) /\ ~c.luck.refused => Exact(c, {})
    <2>1. \A x : ~In(x, v.links[i])
      BY DEF In
    <2> QED
      BY <1>0, <2>1, ChangeExact
  <1> HIDE DEF c, w
  <1>4. MayMove(v, i, "unlinked", NoName)
    BY <1>0 DEF MayMove, IsDirectory
  <1>5. /\ Basic(c) /\ Others(v, c, {i})
        /\ c.obj[i].here /\ ~c.obj[i].deleted /\ ~c.obj[i].soft /\ c.obj[i].unlinked
        /\ c.obj[i].type = "file" /\ c.obj[i].inUse = v.obj[i].inUse
    BY <1>2, <1>4 DEF Changed
  <1>6. c.result \in BOOLEAN /\ v.obj[i].inUse \in Nat /\ c.obj[i] \in Object
    BY <1>0, <1>5 DEF Basic, Sound, Volume, Object
  <1>7. CASE v.obj[i].inUse = 0
    <2>1. d = Deleted(c, i)
      BY <1>5, <1>7
    <2> HIDE DEF d
    <2>21. FileDeleted(c, d, i)
      BY <1>5, <2>1, DeletedFields
    <2>2. /\ Basic(d)
          /\ \A j \in Objects : j # i => d.obj[j] = c.obj[j]
          /\ \/ d.obj[i] = Freed
             \/ d.obj[i] = [c.obj[i] EXCEPT !.deleted = TRUE, !.soft = TRUE]
          /\ d.luck = c.luck
          /\ \A X : Exact(c, X) => Exact(d, X)
      BY <2>21 DEF FileDeleted
    <2>3. /\ Basic(w) /\ w.obj = d.obj /\ w.luck = d.luck
          /\ \A X : Exact(d, X) => Exact(w, X)
      BY <1>1, <1>6, <2>2, ResultOnly
    <2> DEFINE p == [c.obj[i] EXCEPT !.deleted = TRUE, !.soft = TRUE]
    <2>4. p.here /\ p.type = "file" /\ p.inUse = 0 /\ p.deleted /\ p.unlinked
      BY <1>5, <1>6, <1>7 DEF Object
    <2>5. Ripe(p) /\ Fate(v.obj[i], p)
      <3> HIDE DEF p
      <3> QED
        BY <2>4, <1>7 DEF Ripe, Fate
    <2>6. Ripe(Freed) /\ Fate(v.obj[i], Freed)
      BY <1>7, ConstantsOK DEF Fate
    <2>7. Others(v, w, {i})
      BY <1>5, <2>2, <2>3 DEF Others
    <2>8. Quiet(w) /\ \A j \in Objects : Fate(v.obj[j], w.obj[j])
      <3>1. Ripe(w.obj[i]) /\ Fate(v.obj[i], w.obj[i])
        BY <2>2, <2>3, <2>5, <2>6
      <3> QED
        BY <1>0, <2>3, <2>7, <3>1, OthersAfter DEF Quiet
    <2> QED
      BY <1>3, <2>2, <2>3, <2>8 DEF After, w
  <1>8. CASE v.obj[i].inUse # 0
    <2>1. d = c
      BY <1>5, <1>6, <1>8
    <2> HIDE DEF d
    <2>2. /\ Basic(w) /\ w.obj = c.obj /\ w.luck = c.luck
          /\ \A X : Exact(c, X) => Exact(w, X)
      BY <1>1, <1>5, <1>6, <2>1, ResultOnly
    <2>3. Others(v, w, {i})
      BY <1>5, <2>2 DEF Others
    <2>4. Ripe(w.obj[i]) /\ Fate(v.obj[i], w.obj[i])
      BY <1>5, <1>8, <2>2 DEF Ripe, Fate
    <2>5. Quiet(w) /\ \A j \in Objects : Fate(v.obj[j], w.obj[j])
      BY <1>0, <2>2, <2>3, <2>4, OthersAfter DEF Quiet
    <2> QED
      BY <1>3, <2>2, <2>5 DEF After, w
  <1> QED
    BY <1>7, <1>8

LEMMA DeleteAfter ==
    ASSUME NEW v, Quiet(v), NEW i \in Objects, v.obj[i].here
    PROVE  /\ v.obj[i].type = "dir" => After(v, DeleteDirectory(v, i))
           /\ v.obj[i].type = "link" => After(v, DeleteHardLink(v, i))
  <1>0. Basic(v)
    BY DEF Quiet
  <1>1. ASSUME NEW w, v.obj[i].type \in {"dir", "link"}, Basic(w),
               \A j \in Objects : j # i => w.obj[j] = v.obj[j],
               w.obj[i] \in {Freed, v.obj[i]}, w.luck = v.luck,
               \A X : Exact(v, X) => Exact(w, X)
        PROVE  After(v, w)
    <2>1. Others(v, w, {i})
      BY <1>1 DEF Others
    <2>2. Ripe(w.obj[i]) /\ Fate(v.obj[i], w.obj[i])
      <3>1. Ripe(Freed) /\ Fate(v.obj[i], Freed)
        BY <1>1, ConstantsOK DEF Fate
      <3>2. Ripe(v.obj[i]) /\ Fate(v.obj[i], v.obj[i])
        BY DEF Quiet, Fate
      <3> QED
        BY <1>1, <3>1, <3>2
    <2>3. Quiet(w) /\ \A j \in Objects : Fate(v.obj[j], w.obj[j])
      BY <1>0, <1>1, <2>1, <2>2, OthersAfter DEF Quiet
    <2> QED
      BY <1>1, <2>3 DEF After
  <1>2. ASSUME v.obj[i].type = "dir" PROVE After(v, DeleteDirectory(v, i))
    <2> DEFINE w == DeleteDirectory(v, i)
    <2>1. /\ Basic(w)
          /\ \A j \in Objects : j # i => w.obj[j] = v.obj[j]
          /\ w.obj[i] \in {Freed, v.obj[i]} /\ w.luck = v.luck
          /\ \A X : Exact(v, X) => Exact(w, X)
      BY <1>0, <1>2, DeleteDirectoryFields
    <2> HIDE DEF w
    <2>2. After(v, w)
      BY <1>1, <1>2, <2>1
    <2> QED
      BY <2>2 DEF w
  <1>3. ASSUME v.obj[i].type = "link" PROVE After(v, DeleteHardLink(v, i))
    <2> DEFINE w == DeleteHardLink(v, i)
    <2>1. /\ Basic(w)
          /\ \A j \in Objects : j # i => w.obj[j] = v.obj[j]
          /\ w.obj[i] = Freed /\ w.luck = v.luck
          /\ \A X : Exact(v, X) => Exact(w, X)
      BY <1>0, <1>3, DeleteHardLinkFields
    <2> HIDE DEF w
    <2>2. After(v, w)
      BY <1>1, <1>3, <2>1
    <2> QED
      BY <2>2 DEF w
  <1> QED
    BY <1>2, <1>3

(* The volume once the latest link of file i is off its lists.             *)
Freely(v, i, hl) == Unhook([v EXCEPT !.links[i] = Without(@, hl)], hl)

Unlisted(v, w, hl) ==
    /\ Basic(w) /\ NotLinked(w, hl)
    /\ w.obj = v.obj /\ w.hdr = v.hdr /\ w.stored = v.stored /\ w.luck = v.luck
    /\ \A dir \in Directories : \A x : In(x, w.kids[dir]) <=> In(x, v.kids[dir]) /\ x # hl
    /\ \A to \in Objects : \A x : In(x, w.links[to]) <=> In(x, v.links[to]) /\ x # hl

LEMMA FreelyFields ==
    ASSUME NEW v, Basic(v), NEW i \in Objects, NEW hl \in Objects, In(hl, v.links[i])
    PROVE  Unlisted(v, Freely(v, i, hl), hl)
  <1> DEFINE w == Freely(v, i, hl)
             links == [v.links EXCEPT ![i] = Without(v.links[i], hl)]
             u == [v EXCEPT !.links = links]
  <1>0. v \in Volume /\ Sound(v)
    BY DEF Basic, Sound
  <1>1. /\ Without(v.links[i], hl) \in Seq(Objects)
        /\ \A x : In(x, Without(v.links[i], hl)) <=> In(x, v.links[i]) /\ x # hl
    BY <1>0, WithoutElements DEF Volume
  <1>2. links \in [Objects -> Seq(Objects)]
    BY <1>0, <1>1 DEF Volume
  <1>3. \A to \in Objects : to # i => links[to] = v.links[to] /\ ~In(hl, v.links[to])
    BY <1>0 DEF Sound, LinksOK, Volume
  <1>4. \A to \in Objects : \A x : In(x, links[to]) <=> In(x, v.links[to]) /\ x # hl
    <2>1. links[i] = Without(v.links[i], hl)
      BY <1>0 DEF Volume
    <2> HIDE DEF links
    <2> QED
      BY <1>1, <1>3, <2>1
  <1>5. u = [v EXCEPT !.links[i] = Without(@, hl)]
    BY <1>0 DEF Volume
  <1> HIDE DEF links
  <1>6. /\ u \in Volume /\ u.obj = v.obj /\ u.kids = v.kids /\ u.links = links
        /\ u.hdr = v.hdr /\ u.stored = v.stored /\ u.images = v.images /\ u.luck = v.luck
    BY <1>0, <1>2 DEF Volume
  <1> HIDE DEF u
  <1>7. w = Unhook(u, hl)
    BY <1>5 DEF Freely
  <1>8. /\ w \in Volume
        /\ \A dir \in Directories : \A x : In(x, w.kids[dir]) <=> In(x, u.kids[dir]) /\ x # hl
        /\ w.obj = u.obj /\ w.hdr = u.hdr /\ w.stored = u.stored
        /\ w.links = u.links /\ w.images = u.images /\ w.luck = u.luck
    <2>1. Unhooked(u, w, hl)
      BY <1>6, <1>7, UnhookFields
    <2> HIDE DEF w
    <2> QED
      BY <2>1 DEF Unhooked
  <1> HIDE DEF w
  <1>9. /\ w.obj = v.obj /\ w.hdr = v.hdr /\ w.stored = v.stored /\ w.luck = v.luck
        /\ w.images = v.images
        /\ \A dir \in Directories : \A x : In(x, w.kids[dir]) <=> In(x, v.kids[dir]) /\ x # hl
        /\ \A to \in Objects : \A x : In(x, w.links[to]) <=> In(x, v.links[to]) /\ x # hl
    BY <1>4, <1>6, <1>8
  <1>10. KidsOK(w) /\ LinksOK(w)
    BY <1>0, <1>9 DEF Sound, KidsOK, LinksOK
  <1>11. Basic(w)
    BY <1>8, <1>9, <1>10 DEF Basic, Sound
  <1>12. NotLinked(w, hl)
    BY <1>9 DEF NotLinked
  <1> QED
    BY <1>9, <1>11, <1>12 DEF Unlisted, w

LEMMA UnlinkLinkedAfter ==
    ASSUME NEW v, Quiet(v), NEW i \in Objects, v.obj[i].here, v.obj[i].type # "link",
           ~v.obj[i].unlinked, v.links[i] # <<>>
    PROVE  After(v, UnlinkLinked(v, i))
  <1> DEFINE hl == Head(v.links[i])
             free == Freely(v, i, hl)
             dir == v.obj[hl].dir
             name == v.hdr[hl].name
             c == ChangeObjectName(free, i, dir, name)
             d == DoGenericObjectDeletion(c, hl)
             w == UnlinkLinked(v, i)
  <1>0. Basic(v) /\ Sound(v) /\ v \in Volume
    BY DEF Quiet, Basic, Sound
  <1>1. hl \in Objects /\ In(hl, v.links[i])
    BY <1>0, FirstIn DEF Volume
  <1>2. w = IF c.result THEN d ELSE c
    BY DEF UnlinkLinked, Freely, GetObjectName
  <1> HIDE DEF hl
  <1>3. v.obj[hl].type = "link" /\ v.obj[hl].equiv = i /\ hl # i
    BY <1>0, <1>1 DEF Sound, LinksOK
  <1>4. ObjectOK(v.obj[hl]) /\ v.obj[hl].here
    BY <1>0, <1>1, <1>3 DEF Sound, ObjectOK, Freed
  <1>5. dir \in Directories /\ dir # "unlinked" /\ ~v.obj[hl].soft
    BY <1>3, <1>4 DEF ObjectOK
  <1>6. name \in Name
    BY <1>0, <1>1 DEF Volume, Header
  <1>7. /\ Basic(free) /\ NotLinked(free, hl)
        /\ free.obj = v.obj /\ free.hdr = v.hdr /\ free.stored = v.stored
        /\ free.luck = v.luck
        /\ \A e \in Directories : \A x : In(x, free.kids[e]) <=> In(x, v.kids[e]) /\ x # hl
        /\ \A to \in Objects : \A x : In(x, free.links[to]) <=> In(x, v.links[to]) /\ x # hl
    <2>1. Unlisted(v, free, hl)
      BY <1>0, <1>1, FreelyFields
    <2> HIDE DEF free
    <2> QED
      BY <2>1 DEF Unlisted
  <1> HIDE DEF free, dir, name, w
  <1>8. Changed(free, c, i, dir, name)
    BY <1>5, <1>6, <1>7, ChangeFields
  <1>9. ASSUME Exact(v, {})
        PROVE  /\ Exact(free, {hl}) /\ v.obj[i].type = "file" /\ name \in FileNames
               /\ MayMove(free, i, dir, name)
    <2>1. Mem(v, hl) /\ OnFlash(v, hl)
      BY <1>1, <1>9 DEF Exact
    <2>2. v.obj[hl].to = i /\ v.obj[i].type = "file"
      BY <1>3, <1>4, <2>1 DEF Mem
    <2>3. name = v.obj[hl].sum /\ name \in FileNames
      BY <1>4, <1>5, <2>1 DEF Mem, OnFlash, dir, name
    <2>4. Exact(v, {} \cup {hl})
      BY <1>9, ExactMore
    <2>5. Stays(v, free, {hl}, {}) /\ Needed(v, free, {hl} \cup {})
      BY <1>7 DEF Stays, Needed, Like
    <2>6. Exact(free, {hl} \ {})
      <3>1. Exact(v, {hl})
        BY <2>4 DEF Exact
      <3> QED
        BY <1>0, <2>5, <3>1, ExactStays
    <2>7. Exact(free, {hl})
      BY <2>6 DEF Exact
    <2>8. IsDirectory(free, dir)
      BY <1>4, <1>5, <1>7, <2>1 DEF IsDirectory, Mem, Directories, dir
    <2>9. FindObjectByName(free, dir, name) = NoObject
      <3> DEFINE j == FindObjectByName(free, dir, name)
      <3>1. free \in Volume
        BY <1>7 DEF Basic, Sound
      <3>2. \/ j = NoObject
            \/ j \in Objects /\ In(j, free.kids[dir]) /\ free.obj[j].sum = name
        BY <1>5, <3>1, NameLookup
      <3> HIDE DEF j
      <3>3. ASSUME j \in Objects, In(j, free.kids[dir]), free.obj[j].sum = name
            PROVE  FALSE
        <4>1. j # hl /\ In(j, v.kids[dir]) /\ v.obj[j].sum = name
          BY <1>5, <1>7, <3>3
        <4>2. v.obj[j].dir = dir
          BY <1>0, <1>5, <3>3, <4>1 DEF Sound, KidsOK
        <4>3. v.obj[j].here
          <5>1. ObjectOK(v.obj[j])
            BY <1>0, <3>3 DEF Sound
          <5> QED
            BY <1>5, <4>2, <5>1, ConstantsOK DEF ObjectOK, Freed
        <4>4. Apart(v, j, hl)
          BY <1>1, <1>9, <3>3 DEF Exact
        <4> QED
          BY <1>4, <1>5, <2>3, <4>1, <4>2, <4>3, <4>4 DEF Apart, dir
      <3> QED
        BY <3>2, <3>3 DEF j
    <2>10. MayMove(free, i, dir, name)
      BY <2>8, <2>9 DEF MayMove
    <2> QED
      BY <2>2, <2>3, <2>7, <2>10
  <1>10. Exact(v, {}) /\ ~c.luck.refused => Exact(c, {hl})
    <2> SUFFICES ASSUME Exact(v, {}), ~c.luck.refused PROVE Exact(c, {hl})
      OBVIOUS
    <2>1. i \notin {hl}
      BY <1>3
    <2> QED
      BY <1>5, <1>6, <1>7, <1>9, <2>1, ChangeExact
  <1> HIDE DEF c
  <1>11. /\ Basic(c) /\ Others(v, c, {i})
         /\ c.obj[i].here /\ ~c.obj[i].unlinked
         /\ c.obj[i].type = v.obj[i].type /\ c.obj[i].inUse = v.obj[i].inUse
         /\ c.links = free.links /\ c.luck.gone \subseteq v.luck.gone
         /\ MayMove(free, i, dir, name) => c.result \/ c.luck.refused
    BY <1>5, <1>7, <1>8 DEF Changed, Others
  <1>12. Ripe(c.obj[i]) /\ Fate(v.obj[i], c.obj[i])
    BY <1>11 DEF Ripe, Fate
  <1>13. c.obj[hl] = v.obj[hl]
    BY <1>1, <1>3, <1>5, <1>11 DEF Others
  <1>14. CASE c.result
    <2>1. w = d
      BY <1>2, <1>14
    <2>2. hl \notin c.luck.gone /\ NotLinked(c, hl)
      BY <1>5, <1>7, <1>11, <1>0 DEF NotLinked, Basic
    <2>3. /\ Basic(d) /\ d.luck = c.luck
          /\ \A j \in Objects : d.obj[j] = IF j = hl THEN Freed ELSE c.obj[j]
      BY <1>1, <1>11, <2>2, DeletionFields
    <2>4. Exact(c, {hl}) => Exact(d, {hl} \ {hl})
      BY <1>1, <1>3, <1>11, <1>13, <2>2, DeletionExact
    <2> HIDE DEF d
    <2>5. Exact(v, {}) /\ ~d.luck.refused => Exact(d, {})
      BY <1>10, <2>3, <2>4 DEF Exact
    <2>6. Others(v, d, {i, hl})
      BY <1>11, <2>3 DEF Others
    <2>7. d.obj[i] = c.obj[i] /\ d.obj[hl] = Freed
      BY <1>1, <1>3, <2>3
    <2>8. Ripe(d.obj[hl]) /\ Fate(v.obj[hl], d.obj[hl])
      BY <1>3, <2>7, ConstantsOK DEF Fate
    <2>9. Quiet(d) /\ \A j \in Objects : Fate(v.obj[j], d.obj[j])
      BY <1>0, <1>12, <2>3, <2>6, <2>7, <2>8, OthersAfter DEF Quiet
    <2> QED
      BY <2>1, <2>5, <2>9 DEF After, w
  <1>15. CASE ~c.result
    <2>1. w = c
      BY <1>2, <1>15
    <2>2. ~(Exact(v, {}) /\ ~c.luck.refused)
      BY <1>9, <1>11, <1>15
    <2>3. Quiet(c) /\ \A j \in Objects : Fate(v.obj[j], c.obj[j])
      BY <1>0, <1>11, <1>12, OthersAfter DEF Quiet
    <2> QED
      BY <2>1, <2>2, <2>3 DEF After, w
  <1> QED
    BY <1>14, <1>15

LEMMA UnlinkAfter ==
    ASSUME NEW v, Quiet(v), NEW i \in Objects, v.obj[i].here, ~v.obj[i].unlinked
    PROVE  After(v, UnlinkWorker(v, i))
  <1> DEFINE w == UnlinkWorker(v, i)
  <1>1. v.obj[i].type \in Types
    BY DEF Quiet, Basic, Sound, ObjectOK
  <1>2. CASE v.obj[i].type = "link"
    <2>1. w = DeleteHardLink(v, i)
      BY <1>2 DEF UnlinkWorker
    <2> QED
      BY <1>2, <2>1, DeleteAfter
  <1>3. CASE v.obj[i].type # "link" /\ v.links[i] # <<>>
    <2>1. w = UnlinkLinked(v, i)
      BY <1>3 DEF UnlinkWorker
    <2> QED
      BY <1>3, <2>1, UnlinkLinkedAfter
  <1>4. CASE v.obj[i].type = "dir" /\ v.links[i] = <<>>
    <2>1. w = DeleteDirectory(v, i)
      BY <1>4 DEF UnlinkWorker
    <2> QED
      BY <1>4, <2>1, DeleteAfter
  <1>5. CASE v.obj[i].type = "file" /\ v.links[i] = <<>>
    <2>1. w = UnlinkFile(v, i)
      BY <1>5 DEF UnlinkWorker
    <2> QED
      BY <1>5, <2>1, UnlinkFileAfter
  <1> QED
    BY <1>1, <1>2, <1>3, <1>4, <1>5 DEF Types

-----------------------------------------------------------------------------
(* A new object.                                                           *)
Fresh(type, name, equiv) ==
    [Freed EXCEPT !.here = TRUE, !.type = type, !.sum = name,
                  !.dirty = TRUE, !.equiv = equiv, !.to = equiv]

Slot(v, i, n) == [v EXCEPT !.obj[i] = n, !.links[i] = <<>>]

Linked(v, i, type, equiv) ==
    IF type = "link" THEN [v EXCEPT !.links[equiv] = <<i>> \o @] ELSE v

Created(v, i, type, dir, name, equiv) ==
    Linked(AddObjectToDirectory(Slot(v, i, Fresh(type, name, equiv)), dir, i), i, type, equiv)

LEMMA MknodIs ==
    ASSUME NEW v, NEW i, NEW type, NEW dir, NEW name, NEW equiv,
           NEW h, h = UpdateObjectHeader(Created(v, i, type, dir, name, equiv), i, name)
    PROVE  MknodObject(v, i, type, dir, name, equiv) =
               IF FindObjectByName(v, dir, name) # NoObject THEN [v EXCEPT !.result = FALSE]
               ELSE IF h.result THEN h ELSE AbortHalfCreatedObject(h, i)
  BY DEF MknodObject, Created, Linked, Slot, Fresh

LEMMA FreshFields ==
    ASSUME NEW type \in Types, NEW dir \in Directories, dir # "unlinked",
           NEW name \in FileNames, NEW equiv \in Target, type = "link" => equiv \in Objects,
           NEW n, n = Fresh(type, name, equiv), NEW p, p = Placed(n, dir)
    PROVE  /\ n \in Object /\ n.type = type /\ n.equiv = equiv
           /\ p \in Object /\ ObjectOK(p) /\ p.here /\ p.type = type /\ p.dir = dir
           /\ p.sum = name /\ p.equiv = equiv /\ p.to = equiv /\ p.inUse = 0
           /\ ~p.unlinked /\ ~p.deleted /\ ~p.soft /\ ~p.data
  <1>1. n = [here |-> TRUE, type |-> type, dir |-> "none", sum |-> name,
             unlinked |-> FALSE, deleted |-> FALSE, soft |-> FALSE, data |-> FALSE,
             dirty |-> TRUE, inUse |-> 0, equiv |-> equiv, to |-> equiv]
    BY DEF Fresh, Freed
  <1>2. n \in Object
    BY <1>1 DEF Object, Place, Name
  <1>3. /\ n.here /\ n.type = type /\ n.sum = name /\ n.equiv = equiv /\ n.to = equiv
        /\ n.inUse = 0 /\ ~n.unlinked /\ ~n.deleted /\ ~n.soft /\ ~n.data
    BY <1>1
  <1>4. /\ p \in Object /\ p.dir = dir /\ p.sum = n.sum /\ Same(n, p)
        /\ p.unlinked <=> n.unlinked \/ dir = "unlinked"
    BY <1>2, PlacedFields
  <1>5. /\ p.here /\ p.type = type /\ p.sum = name /\ p.equiv = equiv /\ p.to = equiv
        /\ p.inUse = 0 /\ ~p.unlinked /\ ~p.deleted /\ ~p.soft /\ ~p.data
    BY <1>3, <1>4 DEF Same
  <1>6. ObjectOK(p)
    BY <1>4, <1>5 DEF ObjectOK
  <1> QED
    BY <1>2, <1>3, <1>4, <1>5, <1>6

(* What it is before its header is written.                                *)
Made(v, w, i, type, dir, name, equiv) ==
    /\ Basic(w)
    /\ \A j \in Objects : j # i => w.obj[j] = v.obj[j]
    /\ w.obj[i] \in Object /\ w.obj[i].here /\ w.obj[i].type = type
    /\ w.obj[i].dir = dir /\ w.obj[i].sum = name
    /\ w.obj[i].equiv = equiv /\ w.obj[i].to = equiv /\ w.obj[i].inUse = 0
    /\ ~w.obj[i].unlinked /\ ~w.obj[i].deleted /\ ~w.obj[i].soft /\ ~w.obj[i].data
    /\ w.hdr = v.hdr /\ w.stored = v.stored /\ w.luck = v.luck
    /\ In(i, w.kids[dir])
    /\ type = "link" => In(i, w.links[equiv])

LEMMA SlotFields ==
    ASSUME NEW v, Basic(v), NEW i \in Objects, ~v.obj[i].here, NEW n \in Object,
           NEW u, u = Slot(v, i, n)
    PROVE  /\ u \in Volume /\ u.obj[i] = n /\ Moves(v, u, i)
           /\ \A to \in Objects, x \in Objects : In(x, u.links[to]) <=> In(x, v.links[to]) /\ to # i
  <1> DEFINE obj == [v.obj EXCEPT ![i] = n]
             links == [v.links EXCEPT ![i] = <<>>]
  <1>0. v \in Volume /\ Sound(v)
    BY DEF Basic, Sound
  <1>1. u = [v EXCEPT !.obj = obj, !.links = links]
    BY <1>0 DEF Slot, Volume
  <1>2. obj \in [Objects -> Object] /\ obj[i] = n /\ \A j \in Objects : j # i => obj[j] = v.obj[j]
    BY <1>0 DEF Volume
  <1>3. links \in [Objects -> Seq(Objects)]
    BY <1>0 DEF Volume
  <1>4. \A to \in Objects, x \in Objects : In(x, links[to]) <=> In(x, v.links[to]) /\ to # i
    <2>1. \A x : ~In(x, <<>>)
      BY DEF In
    <2>2. links[i] = <<>> /\ \A to \in Objects : to # i => links[to] = v.links[to]
      BY <1>0 DEF Volume
    <2> HIDE DEF links
    <2> QED
      BY <2>1, <2>2
  <1> HIDE DEF obj, links
  <1>5. /\ u \in Volume /\ u.obj = obj /\ u.links = links
        /\ u.kids = v.kids /\ u.hdr = v.hdr /\ u.stored = v.stored
        /\ u.images = v.images /\ u.luck = v.luck
    BY <1>0, <1>1, <1>2, <1>3 DEF Volume
  <1>6. LinksOK(u)
    <2>1. v.obj[i] = Freed
      BY <1>0 DEF Sound, ObjectOK
    <2>2. \A to \in Objects : ~In(i, v.links[to])
      BY <1>0, <2>1 DEF Sound, LinksOK, Freed
    <2> QED
      BY <1>0, <1>2, <1>4, <1>5, <2>2 DEF Sound, LinksOK
  <1> QED
    BY <1>2, <1>4, <1>5, <1>6 DEF Moves

LEMMA LinkedFields ==
    ASSUME NEW v, Basic(v), NEW i \in Objects, NEW type, v.obj[i].type = type,
           NEW equiv \in Target, v.obj[i].equiv = equiv, type = "link" => equiv \in Objects
    PROVE  LET w == Linked(v, i, type, equiv)
           IN  /\ Basic(w) /\ w.obj = v.obj /\ w.kids = v.kids /\ w.hdr = v.hdr
               /\ w.stored = v.stored /\ w.luck = v.luck
               /\ \A to \in Objects, x \in Objects :
                     In(x, w.links[to]) <=> \/ In(x, v.links[to])
                                            \/ type = "link" /\ x = i /\ to = equiv
  <1> DEFINE w == Linked(v, i, type, equiv)
  <1>0. v \in Volume /\ Sound(v)
    BY DEF Basic, Sound
  <1>1. CASE type # "link"
    BY <1>1 DEF Linked
  <1>2. CASE type = "link"
    <2> DEFINE links == [v.links EXCEPT ![equiv] = <<i>> \o v.links[equiv]]
    <2>1. w = [v EXCEPT !.links = links]
      BY <1>0, <1>2 DEF Linked, Volume
    <2>2. /\ <<i>> \o v.links[equiv] \in Seq(Objects)
          /\ \A x : In(x, <<i>> \o v.links[equiv]) <=> x = i \/ In(x, v.links[equiv])
      BY <1>0, <1>2, InFront DEF Volume
    <2>3. links \in [Objects -> Seq(Objects)]
      BY <1>0, <2>2 DEF Volume
    <2>4. \A to \in Objects, x \in Objects :
              In(x, links[to]) <=> In(x, v.links[to]) \/ (x = i /\ to = equiv)
      <3>1. /\ links[equiv] = <<i>> \o v.links[equiv]
            /\ \A to \in Objects : to # equiv => links[to] = v.links[to]
        BY <1>0, <1>2 DEF Volume
      <3> HIDE DEF links
      <3> QED
        BY <2>2, <3>1
    <2> HIDE DEF links, w
    <2>5. /\ w \in Volume /\ w.links = links /\ w.obj = v.obj /\ w.kids = v.kids
          /\ w.hdr = v.hdr /\ w.stored = v.stored /\ w.images = v.images /\ w.luck = v.luck
      BY <1>0, <2>1, <2>3 DEF Volume
    <2>6. LinksOK(w) /\ KidsOK(w)
      BY <1>0, <1>2, <2>4, <2>5 DEF Sound, LinksOK, KidsOK
    <2>7. Basic(w)
      BY <2>5, <2>6 DEF Basic, Sound
    <2>8. \A to \in Objects, x \in Objects :
              In(x, w.links[to]) <=> In(x, v.links[to]) \/ (type = "link" /\ x = i /\ to = equiv)
      BY <1>2, <2>4, <2>5
    <2> QED
      BY <2>5, <2>7, <2>8 DEF w
  <1> QED
    BY <1>1, <1>2

LEMMA MadeFields ==
    ASSUME NEW v, Basic(v), NEW i \in Objects, ~v.obj[i].here,
           NEW type \in Types, NEW dir \in Directories, dir # "unlinked",
           NEW name \in FileNames, NEW equiv \in Target, type = "link" => equiv \in Objects
    PROVE  Made(v, Created(v, i, type, dir, name, equiv), i, type, dir, name, equiv)
  <1> DEFINE n == Fresh(type, name, equiv)
             p == Placed(n, dir)
             u == Slot(v, i, n)
             a == AddObjectToDirectory(u, dir, i)
             b == Created(v, i, type, dir, name, equiv)
  <1>0. v \in Volume /\ Sound(v)
    BY DEF Basic, Sound
  <1>1. /\ n \in Object /\ n.type = type /\ n.equiv = equiv
        /\ p \in Object /\ ObjectOK(p) /\ p.here /\ p.type = type /\ p.dir = dir
        /\ p.sum = name /\ p.equiv = equiv /\ p.to = equiv /\ p.inUse = 0
        /\ ~p.unlinked /\ ~p.deleted /\ ~p.soft /\ ~p.data
    BY FreshFields
  <1>2. b = Linked(a, i, type, equiv)
    BY DEF Created
  <1> HIDE DEF n, b
  <1>3. u \in Volume /\ u.obj[i] = n /\ Moves(v, u, i)
    BY <1>1, SlotFields
  <1> HIDE DEF u
  <1>4. i \notin v.luck.gone
    BY <1>0 DEF Basic, Sound, ObjectOK, Freed
  <1>5. ObjectOK(Placed(u.obj[i], dir))
    BY <1>1, <1>3
  <1>6. Basic(a) /\ a.obj[i] = p
    BY <1>3, <1>4, <1>5, MovedSound
  <1>7. /\ \A j \in Objects : a.obj[j] = IF j = i THEN Placed(u.obj[i], dir) ELSE u.obj[j]
        /\ \A d \in Directories, x \in Objects :
              In(x, a.kids[d]) <=> (In(x, u.kids[d]) /\ x # i) \/ (x = i /\ d = dir)
        /\ a.hdr = u.hdr /\ a.stored = u.stored /\ a.luck = u.luck
    BY <1>3, AddFields
  <1> HIDE DEF p, a
  <1>8. LET w == Linked(a, i, type, equiv)
        IN  /\ Basic(w) /\ w.obj = a.obj /\ w.kids = a.kids /\ w.hdr = a.hdr
            /\ w.stored = a.stored /\ w.luck = a.luck
            /\ \A to \in Objects, x \in Objects :
                  In(x, w.links[to]) <=> \/ In(x, a.links[to])
                                         \/ type = "link" /\ x = i /\ to = equiv
    BY <1>1, <1>6, LinkedFields
  <1>9. /\ Basic(b) /\ b.obj = a.obj /\ b.kids = a.kids /\ b.hdr = a.hdr
        /\ b.stored = a.stored /\ b.luck = a.luck
        /\ type = "link" => In(i, b.links[equiv])
    BY <1>2, <1>8
  <1>10. \A j \in Objects : j # i => b.obj[j] = v.obj[j]
    BY <1>3, <1>7, <1>9 DEF Moves
  <1>11. In(i, b.kids[dir])
    BY <1>7, <1>9
  <1>12. b.hdr = v.hdr /\ b.stored = v.stored /\ b.luck = v.luck
    BY <1>3, <1>7, <1>9 DEF Moves
  <1>13. b.obj[i] = p
    BY <1>6, <1>9
  <1>14. Made(v, b, i, type, dir, name, equiv)
    BY <1>1, <1>9, <1>10, <1>11, <1>12, <1>13 DEF Made
  <1> QED
    BY <1>14 DEF b

LEMMA MadeExact ==
    ASSUME NEW v, Basic(v), NEW i \in Objects, ~v.obj[i].here,
           NEW type \in Types, NEW dir \in Directories, dir # "unlinked",
           NEW name \in FileNames, NEW equiv \in Target, type = "link" => equiv \in Objects,
           Exact(v, {})
    PROVE  Exact(Created(v, i, type, dir, name, equiv), {i})
  <1> DEFINE n == Fresh(type, name, equiv)
             p == Placed(n, dir)
             u == Slot(v, i, n)
             a == AddObjectToDirectory(u, dir, i)
             b == Created(v, i, type, dir, name, equiv)
  <1>0. v \in Volume /\ Sound(v)
    BY DEF Basic, Sound
  <1>1. n \in Object /\ n.type = type /\ n.equiv = equiv /\ ObjectOK(p)
        /\ p.type = type /\ p.equiv = equiv
    BY FreshFields
  <1>2. b = Linked(a, i, type, equiv)
    BY DEF Created
  <1> HIDE DEF n, b
  <1>3. /\ u \in Volume /\ u.obj[i] = n /\ Moves(v, u, i)
        /\ \A to \in Objects, x \in Objects : In(x, u.links[to]) <=> In(x, v.links[to]) /\ to # i
    BY <1>1, SlotFields
  <1> HIDE DEF u
  <1>4. v.obj[i] = Freed
    BY <1>0 DEF Sound, ObjectOK
  <1>5. \A j \in Objects : ~In(j, v.links[i])
    <2> SUFFICES ASSUME NEW j \in Objects, In(j, v.links[i])
                 PROVE  FALSE
      OBVIOUS
    <2>1. v.obj[j].type = "link" /\ v.obj[j].equiv = i
      BY <1>0 DEF Sound, LinksOK
    <2>2. v.obj[j].here
      BY <1>0, <2>1 DEF Sound, ObjectOK, Freed
    <2>3. Mem(v, j)
      BY DEF Exact
    <2>4. v.obj[i].type = "file"
      BY <2>1, <2>2, <2>3 DEF Mem
    <2> QED
      BY <1>4, <2>4 DEF Freed
  <1>6. \A j \in Objects \ ({} \cup {i}), to \in Objects :
            In(j, v.links[to]) => In(j, u.links[to])
    BY <1>3, <1>5
  <1>7. v.obj[i].type \notin {"file", "dir"}
    BY <1>4 DEF Freed
  <1>8. Exact(a, {} \cup {i})
    BY <1>3, <1>6, <1>7, MovedExact
  <1>9. i \notin v.luck.gone
    BY <1>4 DEF Basic, Freed
  <1>10. Basic(a) /\ a.obj[i] = p
    <2>1. ObjectOK(Placed(u.obj[i], dir))
      BY <1>1, <1>3
    <2> QED
      BY <1>3, <1>9, <2>1, MovedSound
  <1> HIDE DEF p, a
  <1>11. LET w == Linked(a, i, type, equiv)
         IN  /\ Basic(w) /\ w.obj = a.obj /\ w.kids = a.kids /\ w.hdr = a.hdr
             /\ w.stored = a.stored /\ w.luck = a.luck
             /\ \A to \in Objects, x \in Objects :
                   In(x, w.links[to]) <=> \/ In(x, a.links[to])
                                          \/ type = "link" /\ x = i /\ to = equiv
    BY <1>1, <1>10, LinkedFields
  <1>12. /\ b.obj = a.obj /\ b.kids = a.kids /\ b.hdr = a.hdr /\ b.stored = a.stored
         /\ \A to \in Objects, x \in Objects : In(x, a.links[to]) => In(x, b.links[to])
    BY <1>2, <1>11
  <1>13. Stays(a, b, {i}, {}) /\ Needed(a, b, {i} \cup {})
    BY <1>12 DEF Stays, Needed, Like
  <1>14. Exact(a, {i})
    BY <1>8 DEF Exact
  <1>15. Exact(b, {i} \ {})
    BY <1>10, <1>13, <1>14, ExactStays DEF Basic
  <1> QED
    BY <1>15 DEF Exact, b

(* What a caller of yaffs_MknodObject gets.                                *)
Mknod(v, w, i, type) ==
    /\ After(v, w) /\ Others(v, w, {i})
    /\ w.result => /\ w.obj[i].here /\ w.obj[i].type = type /\ ~w.obj[i].unlinked
                   /\ w.luck.gone = {}

(* An object whose header could not be written goes, a directory only if   *)
(* nobody is in it.                                                        *)
LEMMA AbortFields ==
    ASSUME NEW h, Basic(h), NEW i \in Objects, h.obj[i].here, ~h.obj[i].soft
    PROVE  LET w == AbortHalfCreatedObject(h, i)
           IN  /\ Basic(w) /\ w.luck = h.luck /\ ~w.result
               /\ \A j \in Objects : j # i => w.obj[j] = h.obj[j]
               /\ w.obj[i] \in {Freed, h.obj[i]}
  <1> DEFINE d == CASE h.obj[i].type = "dir" -> DeleteDirectory(h, i)
                    [] h.obj[i].type = "link" -> DeleteHardLink(h, i)
                    [] OTHER -> DoGenericObjectDeletion(h, i)
             w == AbortHalfCreatedObject(h, i)
  <1>1. w = [d EXCEPT !.result = FALSE]
    BY DEF AbortHalfCreatedObject
  <1>2. /\ Basic(d) /\ d.luck = h.luck
        /\ \A j \in Objects : j # i => d.obj[j] = h.obj[j]
        /\ d.obj[i] \in {Freed, h.obj[i]}
    <2>1. CASE h.obj[i].type = "dir"
      <3> DEFINE e == DeleteDirectory(h, i)
      <3>1. d = e
        BY <2>1
      <3>2. /\ Basic(e) /\ e.luck = h.luck
            /\ \A j \in Objects : j # i => e.obj[j] = h.obj[j]
            /\ e.obj[i] \in {Freed, h.obj[i]}
        BY <2>1, DeleteDirectoryFields
      <3> HIDE DEF d, e
      <3> QED
        BY <3>1, <3>2
    <2>2. CASE h.obj[i].type = "link"
      <3> DEFINE e == DeleteHardLink(h, i)
      <3>1. d = e
        BY <2>2
      <3>2. /\ Basic(e) /\ e.luck = h.luck
            /\ \A j \in Objects : j # i => e.obj[j] = h.obj[j]
            /\ e.obj[i] = Freed
        BY <2>2, DeleteHardLinkFields
      <3> HIDE DEF d, e
      <3> QED
        BY <3>1, <3>2
    <2>3. CASE h.obj[i].type \notin {"dir", "link"}
      <3> DEFINE e == DoGenericObjectDeletion(h, i)
      <3>1. d = e
        BY <2>3
      <3>2. i \notin h.luck.gone /\ NotLinked(h, i)
        BY <2>3, LinkedOnes
      <3>3. /\ Basic(e) /\ e.luck = h.luck
            /\ \A j \in Objects : e.obj[j] = IF j = i THEN Freed ELSE h.obj[j]
        BY <3>2, DeletionFields
      <3> HIDE DEF d, e
      <3> QED
        BY <3>1, <3>3
    <2> QED
      BY <2>1, <2>2, <2>3
  <1> HIDE DEF d, w
  <1>3. Basic(w) /\ w.obj = d.obj /\ w.luck = d.luck
    BY <1>1, <1>2, ResultOnly
  <1>4. ~w.result
    BY <1>1, <1>2 DEF Basic, Sound, Volume
  <1> QED
    BY <1>2, <1>3, <1>4 DEF w

LEMMA MknodAfter ==
    ASSUME NEW v, Quiet(v), NEW i \in Objects, ~v.obj[i].here,
           NEW type \in Types, NEW dir \in Directories, dir # "unlinked",
           NEW name \in FileNames, NEW equiv \in Target, type = "link" => equiv \in Objects,
           Exact(v, {}) =>
               /\ dir \in Objects => v.obj[dir].type = "dir"
               /\ type = "link" => v.obj[equiv].type = "file" /\ ~v.obj[equiv].unlinked
    PROVE  Mknod(v, MknodObject(v, i, type, dir, name, equiv), i, type)
  <1> DEFINE b == Created(v, i, type, dir, name, equiv)
             h == UpdateObjectHeader(b, i, name)
             w == MknodObject(v, i, type, dir, name, equiv)
             d == AbortHalfCreatedObject(h, i)
  <1>0. Basic(v) /\ Sound(v) /\ v \in Volume /\ name \in Name
    BY DEF Quiet, Basic, Sound, Name
  <1>1. w = IF FindObjectByName(v, dir, name) # NoObject THEN [v EXCEPT !.result = FALSE]
            ELSE IF h.result THEN h ELSE d
    BY MknodIs
  <1>2. Made(v, b, i, type, dir, name, equiv)
    BY <1>0, MadeFields
  <1>3. Exact(v, {}) => Exact(b, {i})
    BY <1>0, MadeExact
  <1>4. v.obj[i] = Freed
    BY <1>0 DEF Sound, ObjectOK
  <1> HIDE DEF b, w
  <1>5. b.obj[i].here /\ ~b.obj[i].soft /\ i \notin b.luck.gone /\ Basic(b)
    BY <1>2 DEF Made, Basic
  <1>6. HeaderWritten(b, h, i, name)
    BY <1>0, <1>5, HeaderFields
  <1>7. ASSUME Exact(v, {}), b.luck.room, FindObjectByName(v, dir, name) = NoObject
        PROVE  Exact(h, {})
    <2>1. Exact(b, {} \cup {i})
      BY <1>3, <1>7 DEF Exact
    <2>2. Mem(b, i)
      <3>1. Mem(v, i)
        BY <1>7 DEF Exact
      <3>2. ~b.obj[i].data /\ i \notin b.stored
        BY <1>2, <1>4, <3>1 DEF Made, Mem, Freed
      <3>3. dir \in Objects => b.obj[dir].type = "dir"
        BY <1>2, <1>4, <1>7 DEF Made, Freed
      <3>4. type = "link" => b.obj[equiv].type = "file" /\ ~b.obj[equiv].unlinked
        BY <1>2, <1>4, <1>7 DEF Made, Freed
      <3> QED
        BY <1>2, <3>2, <3>3, <3>4 DEF Made, Mem
    <2>3. \A j \in Objects \ {} : Apart(b, i, j)
      <3> SUFFICES ASSUME NEW j \in Objects, b.obj[j].here, b.obj[j].dir = dir,
                          b.obj[j].sum = name, j # i
                   PROVE  FALSE
        BY <1>2 DEF Apart, Made
      <3>1. v.obj[j].here /\ v.obj[j].dir = dir /\ v.obj[j].sum = name
        BY <1>2 DEF Made
      <3>2. Mem(v, j) /\ OnFlash(v, j)
        BY <1>7 DEF Exact
      <3>3. In(j, v.kids[dir]) /\ v.hdr[j].name = name
        BY <3>1, <3>2 DEF Mem, OnFlash
      <3> QED
        BY <1>0, <1>7, <3>1, <3>3, NameLookup, ConstantsOK
    <2>4. Kept(b, i, name) = b.obj[i].sum
      BY <1>2, ConstantsOK DEF Kept, Made
    <2> QED
      BY <1>0, <1>5, <1>7, <2>1, <2>2, <2>3, <2>4, HeaderExact
  <1> HIDE DEF h
  <1>8. /\ Basic(h) /\ h.luck.gone = {}
        /\ \A j \in Objects : h.obj[j] = IF j \in b.luck.gone THEN Freed
                                          ELSE IF j = i /\ b.luck.room
                                          THEN [b.obj[i] EXCEPT !.dirty = FALSE]
                                          ELSE b.obj[j]
        /\ h.luck.refused <=> b.luck.refused \/ ~b.luck.room
        /\ h.result <=> b.luck.room
    BY <1>6 DEF HeaderWritten
  <1>9. Others(v, h, {i})
    BY <1>2, <1>8 DEF Others, Made, Basic
  <1>10. /\ h.obj[i].here /\ h.obj[i].type = type /\ h.obj[i].inUse = 0
         /\ ~h.obj[i].unlinked /\ ~h.obj[i].soft
    <2> DEFINE p == [b.obj[i] EXCEPT !.dirty = FALSE]
    <2>1. /\ b.obj[i] \in Object
          /\ b.obj[i].here /\ b.obj[i].type = type /\ b.obj[i].inUse = 0
          /\ ~b.obj[i].unlinked /\ ~b.obj[i].soft
      BY <1>2 DEF Made
    <2>2. p.here /\ p.type = type /\ p.inUse = 0 /\ ~p.unlinked /\ ~p.soft
      BY <2>1 DEF Object
    <2>3. h.obj[i] = p \/ h.obj[i] = b.obj[i]
      BY <1>5, <1>8
    <2> HIDE DEF p
    <2> QED
      BY <2>1, <2>2, <2>3
  <1>11. ASSUME NEW o, o \in {Freed, h.obj[i]}
         PROVE  Ripe(o) /\ Fate(v.obj[i], o)
    <2>1. Ripe(Freed) /\ Fate(Freed, Freed)
      BY ConstantsOK DEF Fate, Freed
    <2>2. Ripe(h.obj[i]) /\ Fate(Freed, h.obj[i])
      BY <1>10 DEF Ripe, Fate, Freed
    <2> QED
      BY <1>4, <1>11, <2>1, <2>2
  <1>12. CASE FindObjectByName(v, dir, name) # NoObject
    <2>1. w = [v EXCEPT !.result = FALSE]
      BY <1>1, <1>12
    <2>2. Basic(w) /\ w.obj = v.obj /\ w.luck = v.luck /\ (Exact(v, {}) => Exact(w, {}))
      BY <1>0, <2>1, ResultOnly
    <2>3. ~w.result
      BY <1>0, <2>1 DEF Volume
    <2>4. Others(v, w, {i})
      BY <2>2 DEF Others
    <2>5. Quiet(w) /\ \A j \in Objects : Fate(v.obj[j], w.obj[j])
      BY <1>0, <1>4, <1>11, <2>2, <2>4, OthersAfter DEF Quiet
    <2> QED
      BY <2>2, <2>3, <2>4, <2>5 DEF Mknod, After, w
  <1>13. CASE FindObjectByName(v, dir, name) = NoObject /\ h.result
    <2>1. w = h
      BY <1>1, <1>13
    <2>2. Exact(v, {}) => Exact(h, {})
      BY <1>7, <1>8, <1>13
    <2>3. Quiet(h) /\ \A j \in Objects : Fate(v.obj[j], h.obj[j])
      BY <1>0, <1>8, <1>9, <1>11, OthersAfter DEF Quiet
    <2> QED
      BY <1>8, <1>9, <1>10, <2>1, <2>2, <2>3 DEF Mknod, After, w
  <1>14. CASE FindObjectByName(v, dir, name) = NoObject /\ ~h.result
    <2>1. w = d
      BY <1>1, <1>14
    <2>2. /\ Basic(d) /\ d.luck = h.luck /\ ~d.result
          /\ \A j \in Objects : j # i => d.obj[j] = h.obj[j]
          /\ d.obj[i] \in {Freed, h.obj[i]}
      BY <1>8, <1>10, AbortFields
    <2> HIDE DEF d
    <2>3. Others(v, d, {i})
      BY <1>9, <2>2 DEF Others
    <2>4. d.luck.refused
      BY <1>8, <1>14, <2>2
    <2>5. Quiet(d) /\ \A j \in Objects : Fate(v.obj[j], d.obj[j])
      BY <1>0, <1>11, <2>2, <2>3, OthersAfter DEF Quiet
    <2> QED
      BY <2>1, <2>2, <2>3, <2>4, <2>5 DEF Mknod, After, w
  <1> QED
    BY <1>12, <1>13, <1>14

-----------------------------------------------------------------------------
(* Renaming.                                                               *)
LEMMA RenameAfter ==
    ASSUME NEW v, Quiet(v), NEW i \in Objects, v.obj[i].here, ~v.obj[i].unlinked,
           NEW dir \in Directories, dir # "unlinked",
           v.obj[i].type = "dir" => dir \in Fixed, NEW name \in FileNames
    PROVE  After(v, ChangeObjectName(v, i, dir, name))
  <1> DEFINE w == ChangeObjectName(v, i, dir, name)
  <1>0. Basic(v) /\ name \in Name /\ \A j \in Objects : Ripe(v.obj[j])
    BY DEF Quiet, Name
  <1>1. Changed(v, w, i, dir, name)
    BY <1>0, ChangeFields
  <1>2. Exact(v, {}) /\ ~w.luck.refused => Exact(w, {})
    BY <1>0, ChangeExact
  <1> HIDE DEF w
  <1>3. Ripe(w.obj[i]) /\ Fate(v.obj[i], w.obj[i])
    BY <1>1 DEF Changed, Ripe, Fate
  <1>4. Quiet(w) /\ \A j \in Objects : Fate(v.obj[j], w.obj[j])
    BY <1>0, <1>1, <1>3, OthersAfter DEF Changed
  <1> QED
    BY <1>2, <1>4 DEF After, w

-----------------------------------------------------------------------------
(* The handles.                                                            *)
NoStray(w, handles) ==
    \A h \in Handles : handles[h].kind \in {"dir", "link"} => w.obj[handles[h].obj].here

LEMMA UsersFinite ==
    ASSUME NEW handles, NEW i
    PROVE  /\ IsFiniteSet(Users(handles, i))
           /\ Cardinality(Users(handles, i)) = 0 <=> Users(handles, i) = {}
  <1>1. Users(handles, i) \subseteq Handles /\ IsFiniteSet(Handles)
    BY NamesAssumption DEF Users
  <1>2. IsFiniteSet(Users(handles, i))
    BY <1>1, FS_Subset
  <1> QED
    BY <1>2, FS_EmptySet

(* Handles lose an object only if it is a directory or a hard link.        *)
LEMMA FitKept ==
    ASSUME NEW v, NEW w, NEW handles, HandlesFit(v, handles),
           \A i \in Objects : Fate(v.obj[i], w.obj[i]), NoStray(w, handles)
    PROVE  HandlesFit(w, handles)
  <1>1. \A h \in Handles : handles[h] # NoHandle =>
            handles[h].obj \in Objects /\ h \in Users(handles, handles[h].obj)
    BY DEF HandlesFit, Users
  <1>2. \A i \in Objects : v.obj[i].inUse = 0 => Users(handles, i) = {}
    BY UsersFinite DEF HandlesFit
  <1>3. ASSUME NEW h \in Handles, handles[h] # NoHandle
        PROVE  /\ w.obj[handles[h].obj].here
               /\ handles[h].kind = w.obj[handles[h].obj].type
    <2> DEFINE i == handles[h].obj
    <2>1. i \in Objects /\ v.obj[i].here /\ handles[h].kind = v.obj[i].type
      BY <1>3 DEF HandlesFit
    <2>2. v.obj[i].inUse # 0
      BY <1>1, <1>2, <1>3
    <2>3. v.obj[i].type \in {"dir", "link"} => w.obj[i].here
      BY <2>1 DEF NoStray
    <2>4. Fate(v.obj[i], w.obj[i])
      BY <2>1
    <2> HIDE DEF i
    <2> QED
      BY <2>1, <2>2, <2>3, <2>4 DEF Fate, Freed, i
  <1>4. ASSUME NEW i \in Objects
        PROVE  w.obj[i].inUse = Cardinality(Users(handles, i))
    <2>1. v.obj[i].inUse = Cardinality(Users(handles, i))
      BY DEF HandlesFit
    <2>2. Fate(v.obj[i], w.obj[i])
      OBVIOUS
    <2>3. CASE w.obj[i].inUse = v.obj[i].inUse
      BY <2>1, <2>3
    <2>4. CASE w.obj[i].inUse # v.obj[i].inUse
      <3>1. w.obj[i] = Freed
        BY <2>2, <2>4 DEF Fate
      <3>2. Users(handles, i) = {}
        <4> SUFFICES ASSUME NEW h \in Users(handles, i) PROVE FALSE
          OBVIOUS
        <4>1. h \in Handles /\ handles[h].obj = i /\ handles[h] # NoHandle
          BY ConstantsOK DEF Users, NoHandle
        <4>2. w.obj[i].here
          BY <1>3, <4>1
        <4> QED
          BY <3>1, <4>2 DEF Freed
      <3>3. w.obj[i].inUse = 0
        BY <3>1 DEF Freed
      <3> QED
        BY <3>2, <3>3, UsersFinite
    <2> QED
      BY <2>3, <2>4
  <1>5. \A h \in Handles : handles[h] # NoHandle => handles[h].obj \in Objects
    BY <1>1
  <1>6. handles \in [Handles -> Handle]
    BY DEF HandlesFit
  <1> QED
    BY <1>3, <1>4, <1>5, <1>6 DEF HandlesFit

(* What a handle adds to its object.                                       *)
Counted(o, n) == [o EXCEPT !.inUse = n]

LEMMA FitOpened ==
    ASSUME NEW v, v \in Volume, NEW handles, HandlesFit(v, handles),
           NEW h \in Handles, handles[h] = NoHandle, NEW i \in Objects, v.obj[i].here,
           NEW x \in BOOLEAN,
           NEW w, \A j \in Objects : /\ w.obj[j].here = v.obj[j].here
                                     /\ w.obj[j].type = v.obj[j].type
                                     /\ w.obj[j].inUse = IF j = i THEN v.obj[i].inUse + 1
                                                         ELSE v.obj[j].inUse
    PROVE  HandlesFit(w, [handles EXCEPT ![h] = [obj |-> i, kind |-> v.obj[i].type,
                                                 exclusive |-> x]])
  <1> DEFINE new == [obj |-> i, kind |-> v.obj[i].type, exclusive |-> x]
             next == [handles EXCEPT ![h] = new]
  <1>1. v.obj[i] \in Object
    BY DEF Volume
  <1>2. new \in Handle
    BY <1>1 DEF Handle, Object, Target
  <1>3. handles \in [Handles -> Handle]
    BY DEF HandlesFit
  <1>4. next \in [Handles -> Handle]
    BY <1>2, <1>3
  <1>5. \A g \in Handles : next[g] = IF g = h THEN new ELSE handles[g]
    BY <1>3
  <1>6. new.obj = i /\ new.kind = v.obj[i].type
    OBVIOUS
  <1> HIDE DEF next, new
  <1>7. ASSUME NEW g \in Handles, next[g] # NoHandle
        PROVE  /\ next[g].obj \in Objects /\ w.obj[next[g].obj].here
               /\ next[g].kind = w.obj[next[g].obj].type
    <2>1. CASE g = h
      BY <1>5, <1>6, <2>1
    <2>2. CASE g # h
      BY <1>5, <1>7, <2>2 DEF HandlesFit
    <2> QED
      BY <2>1, <2>2
  <1>8. ASSUME NEW j \in Objects
        PROVE  w.obj[j].inUse = Cardinality(Users(next, j))
    <2>1. v.obj[j].inUse = Cardinality(Users(handles, j))
      BY DEF HandlesFit
    <2>2. handles[h].obj # j
      BY ConstantsOK DEF NoHandle
    <2>3. CASE j = i
      <3>1. Users(next, j) = Users(handles, j) \cup {h} /\ h \notin Users(handles, j)
        BY <1>5, <1>6, <2>2, <2>3 DEF Users
      <3>2. Cardinality(Users(handles, j) \cup {h}) = Cardinality(Users(handles, j)) + 1
        BY <3>1, UsersFinite, FS_AddElement
      <3> QED
        BY <2>1, <2>3, <3>1, <3>2
    <2>4. CASE j # i
      <3>1. Users(next, j) = Users(handles, j)
        BY <1>5, <1>6, <2>2, <2>4 DEF Users
      <3> QED
        BY <2>1, <2>4, <3>1
    <2> QED
      BY <2>3, <2>4
  <1>9. HandlesFit(w, next)
    BY <1>4, <1>7, <1>8 DEF HandlesFit
  <1> QED
    BY <1>9 DEF next, new

LEMMA FitClosed ==
    ASSUME NEW v, v \in Volume, NEW handles, HandlesFit(v, handles),
           NEW h \in Handles, handles[h] # NoHandle,
           NEW i, i = handles[h].obj,
           NEW w, w = Put(v, i, Counted(v.obj[i], v.obj[i].inUse - 1))
    PROVE  /\ i \in Objects /\ v.obj[i].here /\ v.obj[i].inUse - 1 \in Nat
           /\ HandlesFit(w, [handles EXCEPT ![h] = NoHandle])
  <1> DEFINE next == [handles EXCEPT ![h] = NoHandle]
             o == Counted(v.obj[i], v.obj[i].inUse - 1)
  <1>1. i \in Objects /\ v.obj[i].here /\ v.obj[i].inUse = Cardinality(Users(handles, i))
    BY DEF HandlesFit
  <1>2. v.obj[i] \in Object
    BY <1>1 DEF Volume
  <1>3. h \in Users(handles, i)
    BY DEF Users
  <1>4. v.obj[i].inUse # 0 /\ v.obj[i].inUse \in Nat
    BY <1>1, <1>2, <1>3, UsersFinite DEF Object
  <1>5. v.obj[i].inUse - 1 \in Nat
    BY <1>4
  <1>6. /\ o \in Object /\ o.type = v.obj[i].type
        /\ o.inUse = v.obj[i].inUse - 1 /\ o.here
    BY <1>1, <1>2, <1>5 DEF Counted, Object
  <1> HIDE DEF o
  <1>7. \A j \in Objects : w.obj[j] = IF j = i THEN o ELSE v.obj[j]
    <2>1. w = Put(v, i, o)
      BY DEF o
    <2>2. w.obj = [j \in Objects |-> IF j = i THEN o ELSE v.obj[j]]
      BY <1>1, <1>6, <2>1, SetObject
    <2> QED
      BY <2>2
  <1>8. handles \in [Handles -> Handle] /\ NoHandle \in Handle
    BY DEF HandlesFit, NoHandle, Handle, Target
  <1>9. next \in [Handles -> Handle]
    BY <1>8
  <1>10. \A g \in Handles : next[g] = IF g = h THEN NoHandle ELSE handles[g]
    BY <1>8
  <1> HIDE DEF next
  <1>11. ASSUME NEW g \in Handles, next[g] # NoHandle
         PROVE  /\ next[g].obj \in Objects /\ w.obj[next[g].obj].here
                /\ next[g].kind = w.obj[next[g].obj].type
    <2>1. next[g] = handles[g] /\ handles[g] # NoHandle
      BY <1>10, <1>11
    <2>2. /\ handles[g].obj \in Objects /\ v.obj[handles[g].obj].here
          /\ handles[g].kind = v.obj[handles[g].obj].type
      BY <2>1 DEF HandlesFit
    <2> DEFINE j == handles[g].obj
    <2>3. j \in Objects /\ v.obj[j].here /\ handles[g].kind = v.obj[j].type
      BY <2>2
    <2>4. next[g].obj = j /\ next[g].kind = handles[g].kind
      BY <2>1
    <2> HIDE DEF j
    <2>5. w.obj[j].here /\ w.obj[j].type = v.obj[j].type
      BY <1>6, <1>7, <2>3
    <2> QED
      BY <2>3, <2>4, <2>5
  <1>12. ASSUME NEW j \in Objects
         PROVE  w.obj[j].inUse = Cardinality(Users(next, j))
    <2>1. v.obj[j].inUse = Cardinality(Users(handles, j))
      BY DEF HandlesFit
    <2>2. NoHandle.obj # j
      BY ConstantsOK DEF NoHandle
    <2>3. CASE j = i
      <3>1. Users(next, j) = Users(handles, j) \ {h}
        BY <1>10, <2>2 DEF Users
      <3>2. Cardinality(Users(handles, j) \ {h}) = Cardinality(Users(handles, j)) - 1
        BY <1>3, <2>3, UsersFinite, FS_RemoveElement
      <3> QED
        BY <1>6, <1>7, <2>1, <2>3, <3>1, <3>2
    <2>4. CASE j # i
      <3>1. Users(next, j) = Users(handles, j)
        BY <1>10, <2>2, <2>4 DEF Users
      <3> QED
        BY <1>7, <2>1, <2>4, <3>1
    <2> QED
      BY <2>3, <2>4
  <1>13. HandlesFit(w, next)
    BY <1>9, <1>11, <1>12 DEF HandlesFit
  <1> QED
    BY <1>1, <1>5, <1>13 DEF next

-----------------------------------------------------------------------------
(* Closing.                                                                *)

(* Before the handle is taken off its object i, with a header or without.  *)
Flushed(v, w, i) ==
    /\ Basic(w) /\ Others(v, w, {i})
    /\ w.obj[i].here /\ ~w.obj[i].deleted /\ ~w.obj[i].soft
    /\ w.obj[i].unlinked <=> v.obj[i].unlinked
    /\ w.obj[i].type = v.obj[i].type /\ w.obj[i].inUse = v.obj[i].inUse
    /\ Exact(v, {}) /\ ~w.luck.refused => Exact(w, {})

LEMMA FlushFields ==
    ASSUME NEW v, Quiet(v), NEW i \in Objects, v.obj[i].here, v.obj[i].inUse # 0
    PROVE  Flushed(v, IF v.obj[i].dirty THEN UpdateObjectHeader(v, i, NoName) ELSE v, i)
  <1> DEFINE h == UpdateObjectHeader(v, i, NoName)
  <1>0. Basic(v) /\ Sound(v) /\ v \in Volume /\ NoName \in Name
    BY DEF Quiet, Basic, Sound, Name
  <1>1. v.obj[i] \in Object /\ ObjectOK(v.obj[i])
    BY <1>0 DEF Volume, Sound
  <1>2. ~v.obj[i].deleted /\ ~v.obj[i].soft
    <2>1. Ripe(v.obj[i])
      BY DEF Quiet
    <2> QED
      BY <1>1, <2>1 DEF Ripe, ObjectOK
  <1>3. i \notin v.luck.gone
    BY <1>0, <1>2 DEF Basic
  <1>4. Flushed(v, v, i)
    BY <1>0, <1>2 DEF Flushed, Others
  <1>5. HeaderWritten(v, h, i, NoName)
    BY <1>0, <1>3, HeaderFields
  <1>6. ASSUME Exact(v, {}), v.luck.room
        PROVE  Exact(h, {})
    <2>1. Exact(v, {} \cup {i})
      BY <1>6 DEF Exact
    <2>2. Mem(v, i) /\ OnFlash(v, i) /\ \A j \in Objects \ {} : Apart(v, i, j)
      BY <1>6 DEF Exact
    <2>3. v.obj[i].dir # "unlinked" => Kept(v, i, NoName) = v.obj[i].sum
      BY <2>2 DEF OnFlash, Kept
    <2> QED
      BY <1>0, <1>3, <1>6, <2>1, <2>2, <2>3, HeaderExact
  <1> HIDE DEF h
  <1>7. /\ Basic(h)
        /\ \A j \in Objects : h.obj[j] = IF j \in v.luck.gone THEN Freed
                                          ELSE IF j = i /\ v.luck.room
                                          THEN [v.obj[i] EXCEPT !.dirty = FALSE]
                                          ELSE v.obj[j]
        /\ h.luck.refused <=> v.luck.refused \/ ~v.luck.room
    BY <1>5 DEF HeaderWritten
  <1>8. Others(v, h, {i})
    BY <1>0, <1>7 DEF Others, Basic
  <1>9. /\ h.obj[i].here /\ ~h.obj[i].deleted /\ ~h.obj[i].soft
        /\ h.obj[i].unlinked <=> v.obj[i].unlinked
        /\ h.obj[i].type = v.obj[i].type /\ h.obj[i].inUse = v.obj[i].inUse
    <2> DEFINE p == [v.obj[i] EXCEPT !.dirty = FALSE]
    <2>1. /\ p.here /\ ~p.deleted /\ ~p.soft /\ (p.unlinked <=> v.obj[i].unlinked)
          /\ p.type = v.obj[i].type /\ p.inUse = v.obj[i].inUse
      BY <1>1, <1>2 DEF Object
    <2>2. h.obj[i] = p \/ h.obj[i] = v.obj[i]
      BY <1>3, <1>7
    <2> HIDE DEF p
    <2> QED
      BY <1>2, <2>1, <2>2
  <1>10. Flushed(v, h, i)
    BY <1>6, <1>7, <1>8, <1>9 DEF Flushed
  <1> QED
    BY <1>4, <1>10 DEF h

Released(v, i) == Put(v, i, Counted(v.obj[i], v.obj[i].inUse - 1))

LEMMA ReleasedFields ==
    ASSUME NEW v, Basic(v), NEW i \in Objects, v.obj[i].here, v.obj[i].inUse # 0
    PROVE  LET w == Released(v, i)
               o == w.obj[i]
           IN  /\ Basic(w) /\ w.luck = v.luck
               /\ \A j \in Objects : j # i => w.obj[j] = v.obj[j]
               /\ o.here /\ o.type = v.obj[i].type
               /\ o.unlinked <=> v.obj[i].unlinked
               /\ o.deleted <=> v.obj[i].deleted
               /\ o.soft <=> v.obj[i].soft
               /\ o.inUse = v.obj[i].inUse - 1 /\ o.inUse \in Nat
               /\ \A X : Exact(v, X) => Exact(w, X)
  <1> DEFINE o == Counted(v.obj[i], v.obj[i].inUse - 1)
             w == Released(v, i)
  <1>0. Sound(v) /\ v \in Volume
    BY DEF Basic, Sound
  <1>1. v.obj[i] \in Object /\ ObjectOK(v.obj[i])
    BY <1>0 DEF Volume, Sound
  <1>2. v.obj[i].inUse - 1 \in Nat
    BY <1>1 DEF Object
  <1>3. /\ o \in Object /\ Like(v.obj[i], o) /\ o.inUse = v.obj[i].inUse - 1
        /\ o.deleted = v.obj[i].deleted /\ o.soft = v.obj[i].soft
    BY <1>1, <1>2 DEF Counted, Object, Like
  <1>4. w = Put(v, i, o)
    BY DEF Released
  <1> HIDE DEF o, w
  <1>5. o.here /\ o.type = v.obj[i].type /\ o.dir = v.obj[i].dir /\ o.equiv = v.obj[i].equiv
    BY <1>3 DEF Like
  <1>6. ObjectOK(o)
    <2>1. o.unlinked = v.obj[i].unlinked
      BY <1>3 DEF Like
    <2> QED
      BY <1>1, <1>3, <1>5, <2>1 DEF ObjectOK
  <1>7. i \in v.luck.gone => o.soft
    BY <1>3 DEF Basic
  <1>8. Basic(w)
    BY <1>3, <1>4, <1>5, <1>6, <1>7, SetObjectSound
  <1>9. w.obj = [j \in Objects |-> IF j = i THEN o ELSE v.obj[j]] /\ w.luck = v.luck
    BY <1>0, <1>3, <1>4, SetObject
  <1>10. \A X : Exact(v, X) => Exact(w, X)
    BY <1>0, <1>3, <1>4, SetObjectExact
  <1>11. w.obj[i] = o /\ \A j \in Objects : j # i => w.obj[j] = v.obj[j]
    BY <1>9
  <1>12. o.unlinked <=> v.obj[i].unlinked
    BY <1>3 DEF Like
  <1> QED
    BY <1>2, <1>3, <1>5, <1>8, <1>9, <1>10, <1>11, <1>12 DEF w

(* The volume after the flush and after the handle has gone.               *)
Closing(v, i) ==
    LET f == IF v.obj[i].dirty THEN UpdateObjectHeader(v, i, NoName) ELSE v
        c == Released(f, i)
    IN  IF c.obj[i].inUse <= 0 /\ c.obj[i].unlinked THEN DeleteFile(c, i) ELSE c

AfterClose(v, w, i) ==
    /\ Quiet(w)
    /\ \A j \in Objects : Fate(Released(v, i).obj[j], w.obj[j])
    /\ Exact(v, {}) /\ ~w.luck.refused => Exact(w, {})

LEMMA CloseAfter ==
    ASSUME NEW v, Quiet(v), NEW i \in Objects, v.obj[i].here, v.obj[i].inUse # 0
    PROVE  AfterClose(v, Closing(v, i), i)
  <1> DEFINE f == IF v.obj[i].dirty THEN UpdateObjectHeader(v, i, NoName) ELSE v
             c == Released(f, i)
             u == Released(v, i)
             w == Closing(v, i)
             last == c.obj[i].inUse <= 0 /\ c.obj[i].unlinked
  <1>0. Basic(v) /\ \A j \in Objects : Ripe(v.obj[j])
    BY DEF Quiet
  <1>1. Flushed(v, f, i)
    BY FlushFields
  <1>2. w = IF last THEN DeleteFile(c, i) ELSE c
    BY DEF Closing
  <1> HIDE DEF f, w
  <1>3. Basic(f) /\ f.obj[i].here /\ f.obj[i].inUse # 0
    BY <1>1 DEF Flushed
  <1>4. /\ Basic(c) /\ c.luck = f.luck
        /\ \A j \in Objects : j # i => c.obj[j] = f.obj[j]
        /\ c.obj[i].here /\ c.obj[i].type = f.obj[i].type
        /\ c.obj[i].unlinked <=> f.obj[i].unlinked
        /\ c.obj[i].deleted <=> f.obj[i].deleted
        /\ c.obj[i].soft <=> f.obj[i].soft
        /\ c.obj[i].inUse = f.obj[i].inUse - 1 /\ c.obj[i].inUse \in Nat
        /\ \A X : Exact(f, X) => Exact(c, X)
    BY <1>3, ReleasedFields
  <1>5. /\ Basic(u)
        /\ \A j \in Objects : j # i => u.obj[j] = v.obj[j]
        /\ u.obj[i].here /\ u.obj[i].type = v.obj[i].type
        /\ u.obj[i].inUse = v.obj[i].inUse - 1
    BY <1>0, ReleasedFields
  <1> HIDE DEF c, u
  <1>6. ~c.obj[i].deleted /\ ~c.obj[i].soft /\ i \notin c.luck.gone
    BY <1>1, <1>4 DEF Flushed, Basic
  <1>7. c.obj[i].inUse = u.obj[i].inUse /\ c.obj[i].type = u.obj[i].type
    BY <1>1, <1>4, <1>5 DEF Flushed
  <1> DEFINE Left(x) == /\ Basic(x)
                        /\ \A j \in Objects : j # i => x.obj[j] = c.obj[j]
                        /\ Ripe(x.obj[i]) /\ Fate(u.obj[i], x.obj[i])
                        /\ x.luck = c.luck
                        /\ Exact(c, {}) => Exact(x, {})
  <1>8. ASSUME ~last PROVE Left(c)
    <2>1. Ripe(c.obj[i])
      BY <1>4, <1>6, <1>8 DEF Ripe
    <2>2. Fate(u.obj[i], c.obj[i])
      BY <1>4, <1>7 DEF Fate
    <2> QED
      BY <1>4, <2>1, <2>2
  <1>9. ASSUME last PROVE Left(DeleteFile(c, i))
    <2>1. c.obj[i].inUse = 0 /\ c.obj[i].unlinked
      <3>1. c.obj[i].inUse <= 0 /\ c.obj[i].unlinked
        BY <1>9
      <3>2. c.obj[i].inUse \in Nat
        BY <1>4
      <3> DEFINE n == c.obj[i].inUse
      <3>3. n <= 0 /\ n \in Nat
        BY <3>1, <3>2
      <3> HIDE DEF n
      <3>4. n = 0
        BY <3>3
      <3> QED
        BY <3>1, <3>4 DEF n
    <2>2. ObjectOK(c.obj[i])
      BY <1>4 DEF Basic, Sound
    <2>3. c.obj[i].type = "file"
      BY <1>4, <2>1, <2>2 DEF ObjectOK
    <2>4. u.obj[i].inUse = 0
      BY <1>7, <2>1
    <2>5. CASE ~c.obj[i].data
      <3> DEFINE x == DoGenericObjectDeletion(c, i)
      <3>1. DeleteFile(c, i) = x
        BY <2>5 DEF DeleteFile
      <3>2. NotLinked(c, i)
        BY <1>4, <2>3, LinkedOnes
      <3>3. Exact(c, {}) => Exact(x, {} \ {i})
        BY <1>4, <1>6, <2>1, <2>3, <3>2, DeletionExact
      <3>4. /\ Basic(x) /\ x.luck = c.luck
            /\ \A j \in Objects : x.obj[j] = IF j = i THEN Freed ELSE c.obj[j]
        BY <1>4, <1>6, <3>2, DeletionFields
      <3> HIDE DEF x
      <3>5. Exact(c, {}) => Exact(x, {})
        BY <3>3
      <3>6. Ripe(x.obj[i]) /\ Fate(u.obj[i], x.obj[i])
        BY <2>4, <3>4, ConstantsOK DEF Fate
      <3> QED
        BY <3>1, <3>4, <3>5, <3>6
    <2>6. CASE c.obj[i].data
      <3> DEFINE x == Deleted(c, i)
      <3>1. DeleteFile(c, i) = x
        BY <1>6, <2>6 DEF DeleteFile
      <3>2. FileDeleted(c, x, i)
        BY <1>4, <1>6, <2>1, <2>3, DeletedFields
      <3> HIDE DEF x
      <3>3. c.obj[i] \in Object
        BY <1>4 DEF Basic, Sound, Volume
      <3>4. Ripe(x.obj[i]) /\ Fate(u.obj[i], x.obj[i])
        <4>1. CASE x.obj[i] = Freed
          BY <2>4, <4>1, ConstantsOK DEF Fate
        <4>2. CASE x.obj[i] = [c.obj[i] EXCEPT !.deleted = TRUE, !.soft = TRUE]
          <5>1. /\ x.obj[i].here /\ x.obj[i].deleted /\ x.obj[i].inUse = 0
                /\ x.obj[i].type = c.obj[i].type
            BY <1>4, <2>1, <3>3, <4>2 DEF Object
          <5> QED
            BY <1>7, <2>4, <5>1 DEF Ripe, Fate
        <4> QED
          BY <3>2, <4>1, <4>2 DEF FileDeleted
      <3>5. Exact(c, {}) => Exact(x, {})
        BY <3>2 DEF FileDeleted
      <3>6. /\ Basic(x) /\ x.luck = c.luck
            /\ \A j \in Objects : j # i => x.obj[j] = c.obj[j]
        BY <3>2 DEF FileDeleted
      <3>7. Left(x)
        BY <3>4, <3>5, <3>6
      <3> QED
        BY <3>1, <3>7
    <2> QED
      BY <2>5, <2>6
  <1>10. Left(w)
    BY <1>2, <1>8, <1>9
  <1>11. Others(u, w, {i})
    BY <1>1, <1>4, <1>5, <1>10 DEF Flushed, Others
  <1>12. Quiet(w) /\ \A j \in Objects : Fate(u.obj[j], w.obj[j])
    BY <1>0, <1>5, <1>10, <1>11, OthersAfter
  <1>13. Exact(v, {}) /\ ~w.luck.refused => Exact(w, {})
    BY <1>1, <1>4, <1>10 DEF Flushed
  <1> QED
    BY <1>12, <1>13 DEF AfterClose, w, u

-----------------------------------------------------------------------------
(* The volume at the beginning of a call and at its end.                   *)

(* But for the flash images, the luck and the result.                      *)
Equal(v, w) ==
    /\ w.obj = v.obj /\ w.kids = v.kids /\ w.links = v.links
    /\ w.hdr = v.hdr /\ w.stored = v.stored

LEMMA EqualExact ==
    ASSUME NEW v, NEW w, Equal(v, w), NEW X, Exact(v, X)
    PROVE  Exact(w, X)
  BY DEF Equal, Exact, Mem, OnFlash, Apart

LEMMA EqualSound ==
    ASSUME NEW v, Sound(v), NEW w, w \in Volume, Equal(v, w), w.images \subseteq v.images
    PROVE  Sound(w)
  BY DEF Equal, Sound, KidsOK, LinksOK

LEMMA SettledFields ==
    ASSUME NEW v, Quiet(v)
    PROVE  Quiet(Settled(v)) /\ Equal(v, Settled(v))
  <1> DEFINE w == Settled(v)
  <1>1. v \in Volume /\ Sound(v)
    BY DEF Quiet, Basic, Sound
  <1>2. {} \in SUBSET Image /\ NoLuck \in Luck /\ NoLuck.gone = {}
    BY DEF NoLuck, Luck
  <1>3. /\ w \in Volume /\ w.images = {} /\ w.luck = NoLuck
        /\ w.obj = v.obj /\ w.kids = v.kids /\ w.links = v.links
        /\ w.hdr = v.hdr /\ w.stored = v.stored
    BY <1>1, <1>2 DEF Settled, Volume
  <1> HIDE DEF w
  <1>4. Equal(v, w)
    BY <1>3 DEF Equal
  <1>5. Sound(w)
    BY <1>1, <1>3, <1>4, EqualSound
  <1>6. Basic(w)
    BY <1>2, <1>3, <1>5 DEF Basic
  <1>7. \A i \in Objects : Ripe(w.obj[i])
    BY <1>3 DEF Quiet
  <1> QED
    BY <1>4, <1>6, <1>7 DEF Quiet, w

Started(v, room, gone) == [v EXCEPT !.luck = [NoLuck EXCEPT !.room = room, !.gone = gone]]

LEMMA StartedFields ==
    ASSUME NEW v, Quiet(v), NEW room \in BOOLEAN,
           NEW gone \in SUBSET {i \in Objects : v.obj[i].soft}
    PROVE  Quiet(Started(v, room, gone)) /\ Equal(v, Started(v, room, gone))
  <1> DEFINE w == Started(v, room, gone)
             luck == [NoLuck EXCEPT !.room = room, !.gone = gone]
  <1>1. v \in Volume /\ Sound(v)
    BY DEF Quiet, Basic, Sound
  <1>2. luck \in Luck /\ luck.gone = gone
    BY DEF NoLuck, Luck
  <1>3. /\ w \in Volume /\ w.images = v.images /\ w.luck = luck
        /\ w.obj = v.obj /\ w.kids = v.kids /\ w.links = v.links
        /\ w.hdr = v.hdr /\ w.stored = v.stored
    <2> HIDE DEF luck
    <2>1. w = [v EXCEPT !.luck = luck]
      BY DEF Started, luck
    <2> HIDE DEF w
    <2> QED
      BY <1>1, <1>2, <2>1 DEF Volume
  <1> HIDE DEF w, luck
  <1>4. Equal(v, w)
    BY <1>3 DEF Equal
  <1>5. Sound(w)
    BY <1>1, <1>3, <1>4, EqualSound
  <1>6. Basic(w)
    BY <1>2, <1>3, <1>5 DEF Basic
  <1>7. \A i \in Objects : Ripe(w.obj[i])
    BY <1>3 DEF Quiet
  <1> QED
    BY <1>4, <1>6, <1>7 DEF Quiet, w

(* A flash that agrees with an exact volume is exact.                      *)
LEMMA ExactFlash ==
    ASSUME NEW v, Sound(v), Exact(v, {})
    PROVE  FlashExact(v.hdr, v.stored)
  <1>1. ASSUME NEW i \in Objects
        PROVE  /\ v.obj[i].data <=> i \in v.stored
               /\ v.obj[i].here <=> v.hdr[i] # NoHeader
               /\ v.obj[i].here => /\ v.hdr[i].type = v.obj[i].type
                                   /\ v.hdr[i].dir = v.obj[i].dir
                                   /\ v.hdr[i].equiv = v.obj[i].equiv
                                   /\ v.obj[i].dir # "unlinked" =>
                                         v.hdr[i].name = v.obj[i].sum
    <2>1. Mem(v, i) /\ OnFlash(v, i)
      BY DEF Exact
    <2> QED
      BY <2>1 DEF Mem, OnFlash
  <1>2. ASSUME NEW i \in Objects
        PROVE  /\ ObjectOK(v.obj[i])
               /\ ~v.obj[i].here => ~v.obj[i].data /\ v.obj[i].type = "none"
    <2>1. ObjectOK(v.obj[i])
      BY DEF Sound
    <2> QED
      BY <2>1 DEF ObjectOK, Freed
  <1>3. ASSUME NEW i \in v.stored
        PROVE  v.hdr[i] # NoHeader
    <2>1. i \in Objects
      BY DEF Sound, Volume
    <2> QED
      BY <1>1, <1>2, <2>1
  <1>4. ASSUME NEW i \in Objects, v.hdr[i] # NoHeader
        PROVE  /\ v.hdr[i].dir \in Objects => v.hdr[v.hdr[i].dir].type = "dir"
               /\ v.hdr[i].dir # "unlinked" => v.hdr[i].name \in FileNames
               /\ v.hdr[i].type = "link" => /\ v.hdr[v.hdr[i].equiv].type = "file"
                                            /\ v.hdr[v.hdr[i].equiv].dir # "unlinked"
    <2>1. /\ v.obj[i].here /\ v.hdr[i].type = v.obj[i].type /\ v.hdr[i].dir = v.obj[i].dir
          /\ v.hdr[i].equiv = v.obj[i].equiv
          /\ v.obj[i].dir # "unlinked" => v.hdr[i].name = v.obj[i].sum
      BY <1>1, <1>4
    <2>2. Mem(v, i)
      BY DEF Exact
    <2>3. ASSUME v.obj[i].dir \in Objects
          PROVE  v.hdr[v.obj[i].dir].type = "dir"
      <3> DEFINE d == v.obj[i].dir
      <3>1. d \in Objects /\ v.obj[d].type = "dir"
        BY <2>1, <2>2, <2>3 DEF Mem
      <3> HIDE DEF d
      <3>2. v.obj[d].here
        BY <1>2, <3>1
      <3>3. v.hdr[d].type = "dir"
        BY <1>1, <3>1, <3>2
      <3> QED
        BY <3>3 DEF d
    <2>4. ASSUME v.obj[i].type = "link"
          PROVE  /\ v.hdr[v.obj[i].equiv].type = "file"
                 /\ v.hdr[v.obj[i].equiv].dir # "unlinked"
      <3> DEFINE t == v.obj[i].equiv
      <3>1. v.obj[t].type = "file" /\ ~v.obj[t].unlinked
        BY <2>1, <2>2, <2>4 DEF Mem
      <3>2. t \in Objects
        BY <1>2, <2>1, <2>4 DEF ObjectOK
      <3> HIDE DEF t
      <3>3. v.obj[t].here
        BY <1>2, <3>1, <3>2
      <3>4. v.hdr[t].type = "file" /\ v.hdr[t].dir # "unlinked"
        BY <1>1, <1>2, <3>1, <3>2, <3>3 DEF ObjectOK
      <3> QED
        BY <3>4 DEF t
    <2>5. v.obj[i].dir # "unlinked" => v.obj[i].sum \in FileNames
      BY <2>1, <2>2 DEF Mem
    <2> QED
      BY <2>1, <2>3, <2>4, <2>5
  <1>5. ASSUME NEW i \in Objects, NEW j \in Objects,
               v.hdr[i] # NoHeader, v.hdr[j] # NoHeader,
               v.hdr[i].dir = v.hdr[j].dir, v.hdr[i].dir # "unlinked",
               v.hdr[i].name = v.hdr[j].name
        PROVE  i = j
    <2>1. Apart(v, i, j)
      BY DEF Exact
    <2> QED
      BY <1>1, <1>5, <2>1 DEF Apart
  <1> QED
    BY <1>3, <1>4, <1>5 DEF FlashExact

-----------------------------------------------------------------------------
(* A call ends.                                                            *)
Done(w, handles) ==
    /\ Quiet(w)
    /\ NoStray(w, handles) => HandlesFit(w, handles)
    /\ upsets = {} /\ ~w.luck.refused => Exact(w, {})

LEMMA EndsStray ==
    ASSUME NEW w, NEW handles, up \in BOOLEAN, "stray" \in upsets, Ends(w, handles)
    PROVE  NamesInv'
  <1>1. up' \in BOOLEAN
    BY DEF Ends
  <1>2. upsets \subseteq upsets'
    BY DEF Ends
  <1>3. "stray" \in upsets' /\ upsets' # {}
    BY <1>2
  <1> QED
    BY <1>1, <1>3 DEF NamesInv

LEMMA EndsKept ==
    ASSUME NEW w, NEW handles, up = TRUE, Done(w, handles), Ends(w, handles)
    PROVE  NamesInv'
  <1> DEFINE refused == IF w.luck.refused THEN {"refused"} ELSE {}
             stray == IF \E h \in Handles : /\ handles[h].kind \in {"dir", "link"}
                                            /\ ~w.obj[handles[h].obj].here
                      THEN {"stray"} ELSE {}
  <1>0. Sound(w) /\ w \in Volume
    BY DEF Done, Quiet, Basic, Sound
  <1>1. CASE /\ vol' = Settled(w) /\ fds' = handles /\ up' = up
             /\ upsets' = upsets \cup refused \cup stray
    <2>1. Quiet(vol') /\ Equal(w, vol')
      BY <1>1, SettledFields DEF Done
    <2>2. ASSUME "stray" \notin upsets'
          PROVE  HandlesFit(vol', fds')
      <3>1. NoStray(w, handles)
        BY <1>1, <2>2 DEF NoStray
      <3>2. HandlesFit(w, handles)
        BY <3>1 DEF Done
      <3> QED
        BY <1>1, <2>1, <3>2 DEF HandlesFit, Equal
    <2>3. ASSUME upsets' = {}
          PROVE  Exact(vol', {})
      <3>1. upsets = {} /\ ~w.luck.refused
        BY <1>1, <2>3
      <3> QED
        BY <2>1, <3>1, EqualExact DEF Done
    <2> QED
      BY <1>1, <2>1, <2>2, <2>3 DEF NamesInv, Quiet
  <1>2. ASSUME NEW image \in w.images, vol' = Blank(image.hdr, image.stored),
               upsets' = upsets \cup refused \cup
                   (IF image # [hdr |-> w.hdr, stored |-> w.stored] THEN {"torn"} ELSE {}),
               fds' = Closed, up' = FALSE
        PROVE  NamesInv'
    <2>1. image \in Image /\ \A i \in Objects : HeaderOK(image.hdr[i])
      BY <1>0 DEF Sound, Volume
    <2>2. vol'.hdr = image.hdr /\ vol'.stored = image.stored
      BY <1>2 DEF Blank
    <2>3. /\ image.hdr \in [Objects -> Header] /\ image.stored \in SUBSET Objects
      BY <2>1 DEF Image
    <2>4. ASSUME upsets' = {}
          PROVE  FlashExact(vol'.hdr, vol'.stored)
      <3>1. upsets = {} /\ ~w.luck.refused /\ image = [hdr |-> w.hdr, stored |-> w.stored]
        BY <1>2, <2>4
      <3>2. FlashExact(w.hdr, w.stored)
        BY <1>0, <3>1, ExactFlash DEF Done
      <3> QED
        BY <2>2, <3>1, <3>2
    <2> QED
      BY <1>2, <2>1, <2>2, <2>3, <2>4 DEF NamesInv
  <1> QED
    BY <1>1, <1>2 DEF Ends

LEMMA EndsInv ==
    ASSUME NamesInv, up, NEW w, NEW handles, Ends(w, handles),
           "stray" \notin upsets => Done(w, handles)
    PROVE  NamesInv'
  <1>1. up = TRUE
    BY DEF NamesInv
  <1>2. CASE "stray" \in upsets
    BY <1>1, <1>2, EndsStray
  <1>3. CASE "stray" \notin upsets
    BY <1>1, <1>3, EndsKept
  <1> QED
    BY <1>2, <1>3

(* Calls look names up in the volume that they start with.                 *)
LEMMA EqualFinds ==
    ASSUME NEW v, NEW w, Equal(v, w), NEW path \in Paths
    PROVE  FindDirectory(w, path) = FindDirectory(v, path)
  <1>1. \A name : FindObjectByName(w, "root", name) = FindObjectByName(v, "root", name)
    <2> TAKE name
    <2> DEFINE S(x) == {i \in Objects : x.obj[i].sum = name /\ x.hdr[i].name = name}
    <2>1. S(v) = S(w) /\ w.kids = v.kids
      BY DEF Equal
    <2>2. \A x : FindObjectByName(x, "root", name) =
                     IF Among(x.kids["root"], S(x)) = <<>> THEN NoObject
                     ELSE Head(Among(x.kids["root"], S(x)))
      BY DEF FindObjectByName, GetObjectName
    <2> HIDE DEF S
    <2> QED
      BY <2>1, <2>2
  <1>2. \A i : IsDirectory(w, i) <=> IsDirectory(v, i)
    BY DEF IsDirectory, Equal
  <1>3. \A name : Below(w, name) = Below(v, name)
    BY <1>1, <1>2 DEF Below
  <1> QED
    BY <1>3, DirectoryIs

Start(v) ==
    /\ Quiet(v) /\ Sound(v) /\ Equal(vol, v) /\ HandlesFit(v, fds)
    /\ upsets = {} => Exact(v, {})

LEMMA CallStarts ==
    ASSUME NamesInv, up, "stray" \notin upsets, NEW room \in BOOLEAN,
           NEW gone \in SUBSET {i \in Objects : vol.obj[i].soft}
    PROVE  Start(Started(vol, room, gone))
  <1> DEFINE v == Started(vol, room, gone)
  <1>1. Quiet(vol) /\ HandlesFit(vol, fds) /\ (upsets = {} => Exact(vol, {}))
    BY DEF NamesInv, Quiet
  <1>2. Quiet(v) /\ Equal(vol, v)
    BY <1>1, StartedFields
  <1> HIDE DEF v
  <1>3. upsets = {} => Exact(v, {})
    BY <1>1, <1>2, EqualExact
  <1>4. HandlesFit(v, fds)
    BY <1>1, <1>2 DEF HandlesFit, Equal
  <1> QED
    BY <1>2, <1>3, <1>4 DEF Start, Quiet, Basic, v

LEMMA DoneAfter ==
    ASSUME NEW v, Start(v), NEW w, After(v, w)
    PROVE  Done(w, fds)
  BY FitKept DEF Start, After, Done

-----------------------------------------------------------------------------
(* Each call keeps the invariant.                                          *)
LEMMA UnlinkKeeps ==
    ASSUME NamesInv, NEW path \in Paths, NEW isDirectory, Unlink(path, isDirectory)
    PROVE  NamesInv'
  <1> DEFINE i == FindObject(vol, path)
  <1>1. PICK room \in BOOLEAN, gone \in SUBSET {j \in Objects : vol.obj[j].soft} :
            Ends(UnlinkWorker(Started(vol, room, gone), i), fds)
    BY DEF Unlink, Call, Started
  <1>2. up /\ i # NoObject
    BY DEF Unlink, Call
  <1> DEFINE v == Started(vol, room, gone)
  <1>3. ASSUME "stray" \notin upsets
        PROVE  Done(UnlinkWorker(v, i), fds)
    <2>1. Start(v)
      BY <1>2, <1>3, CallStarts
    <2> HIDE DEF v
    <2>2. Sound(vol)
      BY <1>2, <1>3 DEF NamesInv, Basic
    <2>3. i \in Objects /\ vol.obj[i].here /\ ~vol.obj[i].unlinked
      BY <1>2, <2>2, ObjectFound
    <2> HIDE DEF i
    <2>4. v.obj = vol.obj /\ Quiet(v)
      BY <2>1 DEF Start, Equal
    <2>5. After(v, UnlinkWorker(v, i))
      BY <2>3, <2>4, UnlinkAfter
    <2> QED
      BY <2>1, <2>5, DoneAfter
  <1> QED
    BY <1>1, <1>2, <1>3, EndsInv

LEMMA RenameKeeps ==
    ASSUME NamesInv, NEW from \in Paths, NEW to \in Paths, Rename(from, to)
    PROVE  NamesInv'
  <1> DEFINE i == FindObject(vol, from)
             dir == FindDirectory(vol, to)
  <1>1. PICK room \in BOOLEAN, gone \in SUBSET {j \in Objects : vol.obj[j].soft} :
            Ends(ChangeObjectName(Started(vol, room, gone), i, dir, Last(to)), fds)
    BY DEF Rename, Call, Started
  <1>2. /\ up /\ i # NoObject /\ dir # "none"
        /\ vol.obj[i].type = "dir" => dir \in Fixed
    BY DEF Rename, Call
  <1> DEFINE v == Started(vol, room, gone)
  <1>3. ASSUME "stray" \notin upsets
        PROVE  Done(ChangeObjectName(v, i, dir, Last(to)), fds)
    <2>1. Start(v)
      BY <1>2, <1>3, CallStarts
    <2> HIDE DEF v
    <2>2. Sound(vol) /\ vol \in Volume
      BY <1>2, <1>3 DEF NamesInv, Basic, Sound
    <2>3. i \in Objects /\ vol.obj[i].here /\ ~vol.obj[i].unlinked
      BY <1>2, <2>2, ObjectFound
    <2>4. dir \in {"none", "root"} \cup {j \in Objects : vol.obj[j].type = "dir"}
      BY <2>2, DirectoryFound
    <2> HIDE DEF i, dir
    <2>5. dir \in Directories /\ dir # "unlinked"
      BY <1>2, <2>4, ConstantsOK DEF Fixed, Directories
    <2>6. v.obj = vol.obj /\ Quiet(v)
      BY <2>1 DEF Start, Equal
    <2>7. Last(to) \in FileNames
      BY PathsOK
    <2>8. After(v, ChangeObjectName(v, i, dir, Last(to)))
      BY <1>2, <2>3, <2>5, <2>6, <2>7, RenameAfter
    <2> QED
      BY <2>1, <2>8, DoneAfter
  <1> QED
    BY <1>1, <1>2, <1>3, EndsInv

(* A call that makes an object in the directory of a path.                 *)
LEMMA MknodDone ==
    ASSUME NEW v, Start(v), NEW path \in Paths, FindDirectory(v, path) # "none",
           NEW new \in Objects, ~vol.obj[new].here, NEW type \in Types,
           NEW equiv \in Target, type = "link" => equiv \in Objects,
           type = "link" /\ Exact(v, {}) =>
               v.obj[equiv].type = "file" /\ ~v.obj[equiv].unlinked
    PROVE  Mknod(v, MknodObject(v, new, type, FindDirectory(v, path), Last(path), equiv),
                 new, type)
  <1> DEFINE dir == FindDirectory(v, path)
  <1>1. v \in Volume /\ v.obj = vol.obj /\ Quiet(v)
    BY DEF Start, Sound, Equal
  <1>2. dir \in {"none", "root"} \cup {j \in Objects : v.obj[j].type = "dir"}
    BY <1>1, DirectoryFound
  <1>3. Last(path) \in FileNames
    BY PathsOK
  <1> HIDE DEF dir
  <1>4. dir \in Directories /\ dir # "unlinked" /\ (dir \in Objects => v.obj[dir].type = "dir")
    <2>1. dir # "none"
      BY DEF dir
    <2> QED
      BY <1>2, <2>1, ConstantsOK DEF Fixed, Directories
  <1> DEFINE name == Last(path)
  <1> HIDE DEF name
  <1>5. name \in FileNames
    BY <1>3 DEF name
  <1>6. Mknod(v, MknodObject(v, new, type, dir, name, equiv), new, type)
    BY <1>1, <1>4, <1>5, MknodAfter
  <1> QED
    BY <1>6 DEF dir, name

LEMMA MkdirKeeps ==
    ASSUME NamesInv, NEW path \in Paths, NEW new \in Objects, Mkdir(path, new)
    PROVE  NamesInv'
  <1> DEFINE Op(v) == MknodObject(v, new, "dir", FindDirectory(v, path), Last(path), NoObject)
  <1>1. PICK room \in BOOLEAN, gone \in SUBSET {j \in Objects : vol.obj[j].soft} :
            Ends(Op(Started(vol, room, gone)), fds)
    BY DEF Mkdir, Call, Started
  <1>2. up /\ ~vol.obj[new].here /\ FindDirectory(vol, path) # "none"
    BY DEF Mkdir, Call
  <1> DEFINE v == Started(vol, room, gone)
  <1>3. ASSUME "stray" \notin upsets
        PROVE  Done(Op(v), fds)
    <2>1. Start(v)
      BY <1>2, <1>3, CallStarts
    <2> HIDE DEF v
    <2>2. FindDirectory(v, path) # "none"
      BY <1>2, <2>1, EqualFinds DEF Start
    <2>3. Mknod(v, Op(v), new, "dir")
      BY <1>2, <2>1, <2>2, MknodDone DEF Types, Target
    <2> HIDE DEF Op
    <2> QED
      BY <2>1, <2>3, DoneAfter DEF Mknod
  <1> QED
    BY <1>1, <1>2, <1>3, EndsInv

LEMMA LinkKeeps ==
    ASSUME NamesInv, NEW path \in Paths, NEW i \in Objects, NEW new \in Objects,
           Link(path, i, new)
    PROVE  NamesInv'
  <1> DEFINE to == IF vol.obj[i].type = "link" THEN vol.obj[i].to ELSE i
             Op(v) == MknodObject(v, new, "link", FindDirectory(v, path), Last(path), to)
  <1>1. PICK room \in BOOLEAN, gone \in SUBSET {j \in Objects : vol.obj[j].soft} :
            Ends(Op(Started(vol, room, gone)), fds)
    BY DEF Link, Call, Started
  <1>2. /\ up /\ ~vol.obj[new].here /\ FindDirectory(vol, path) # "none"
        /\ vol.obj[i].type \in {"file", "link"} /\ ~vol.obj[i].unlinked
        /\ to # NoObject
    BY DEF Link, Call
  <1> DEFINE v == Started(vol, room, gone)
  <1>3. ASSUME "stray" \notin upsets
        PROVE  Done(Op(v), fds)
    <2>1. Start(v)
      BY <1>2, <1>3, CallStarts
    <2> HIDE DEF v
    <2>2. FindDirectory(v, path) # "none"
      BY <1>2, <2>1, EqualFinds DEF Start
    <2>3. v.obj = vol.obj /\ v \in Volume /\ Sound(v)
      BY <2>1 DEF Start, Equal, Sound
    <2>4. v.obj[i] \in Object /\ ObjectOK(v.obj[i])
      BY <2>3 DEF Volume, Sound
    <2>5. to \in Objects
      BY <1>2, <2>3, <2>4 DEF Object, Target
    <2>6. ASSUME Exact(v, {})
          PROVE  v.obj[to].type = "file" /\ ~v.obj[to].unlinked
      <3>1. CASE v.obj[i].type = "file"
        BY <1>2, <2>3, <3>1
      <3>2. CASE v.obj[i].type = "link"
        <4>1. v.obj[i].here
          BY <2>4, <3>2 DEF ObjectOK, Freed
        <4>2. Mem(v, i)
          BY <2>6 DEF Exact
        <4>3. to = v.obj[i].to
          BY <2>3, <3>2
        <4> HIDE DEF to
        <4> QED
          BY <3>2, <4>1, <4>2, <4>3 DEF Mem
      <3> QED
        BY <1>2, <2>3, <3>1, <3>2
    <2> HIDE DEF to
    <2>7. Mknod(v, Op(v), new, "link")
      BY <1>2, <2>1, <2>2, <2>5, <2>6, MknodDone DEF Types, Target
    <2> HIDE DEF Op
    <2> QED
      BY <2>1, <2>7, DoneAfter DEF Mknod
  <1> HIDE DEF Op
  <1> QED
    BY <1>1, <1>2, <1>3, EndsInv

LEMMA CloseKeeps ==
    ASSUME NamesInv, NEW h \in Handles, Close(h)
    PROVE  NamesInv'
  <1> DEFINE i == fds[h].obj
             next == [fds EXCEPT ![h] = NoHandle]
  <1>1. PICK room \in BOOLEAN, gone \in SUBSET {j \in Objects : vol.obj[j].soft} :
            Ends(Closing(Started(vol, room, gone), i), next)
    BY DEF Close, Call, Closing, Started, Released, Put, Counted
  <1>2. up /\ fds[h] # NoHandle
    BY DEF Close, Call
  <1> DEFINE v == Started(vol, room, gone)
             w == Closing(v, i)
  <1>3. ASSUME "stray" \notin upsets
        PROVE  Done(w, next)
    <2>1. Start(v)
      BY <1>2, <1>3, CallStarts
    <2> HIDE DEF v
    <2>2. Quiet(v) /\ v \in Volume /\ HandlesFit(v, fds)
      BY <2>1 DEF Start, Sound
    <2>3. /\ i \in Objects /\ v.obj[i].here /\ v.obj[i].inUse - 1 \in Nat
          /\ HandlesFit(Released(v, i), next)
      BY <1>2, <2>2, FitClosed DEF Released
    <2> HIDE DEF i, next
    <2>4. v.obj[i].inUse # 0
      <3> DEFINE n == v.obj[i].inUse
      <3>1. n - 1 \in Nat
        BY <2>3
      <3> HIDE DEF n
      <3>2. n # 0
        BY <3>1
      <3> QED
        BY <3>2 DEF n
    <2>5. AfterClose(v, w, i)
      BY <2>2, <2>3, <2>4, CloseAfter
    <2> HIDE DEF w
    <2>6. NoStray(w, next) => HandlesFit(w, next)
      BY <2>3, <2>5, FitKept DEF AfterClose
    <2>7. upsets = {} /\ ~w.luck.refused => Exact(w, {})
      BY <2>1, <2>5 DEF Start, AfterClose
    <2> QED
      BY <2>5, <2>6, <2>7 DEF Done, AfterClose
  <1> HIDE DEF w, next
  <1> QED
    BY <1>1, <1>2, <1>3, EndsInv DEF w

-----------------------------------------------------------------------------
(* Data: written, or cut off when a file is opened.                        *)
LEMMA ImagedAfter ==
    ASSUME NEW v, Quiet(v)
    PROVE  Quiet(Imaged(v)) /\ Equal(v, Imaged(v)) /\ Imaged(v).luck = v.luck
  <1> DEFINE w == Imaged(v)
  <1>1. Basic(v) /\ Sound(v) /\ v \in Volume
    BY DEF Quiet, Basic, Sound
  <1>2. /\ w \in Volume
        /\ w.images = v.images \cup {[hdr |-> v.hdr, stored |-> v.stored]}
        /\ w.obj = v.obj /\ w.hdr = v.hdr /\ w.stored = v.stored
        /\ w.kids = v.kids /\ w.links = v.links /\ w.luck = v.luck
    BY <1>1, ImagedFields
  <1> HIDE DEF w
  <1>3. \A image \in w.images : \A i \in Objects : HeaderOK(image.hdr[i])
    BY <1>1, <1>2 DEF Sound
  <1>4. Sound(w)
    BY <1>1, <1>2, <1>3 DEF Sound, KidsOK, LinksOK
  <1>5. Quiet(w)
    BY <1>1, <1>2, <1>4 DEF Quiet, Basic
  <1> QED
    BY <1>2, <1>5 DEF Equal, w

(* All but the data.                                                       *)
Alike(o, p) ==
    /\ p.here = o.here /\ p.type = o.type /\ p.dir = o.dir /\ p.sum = o.sum
    /\ p.unlinked = o.unlinked /\ p.deleted = o.deleted /\ p.soft = o.soft
    /\ p.inUse = o.inUse /\ p.equiv = o.equiv /\ p.to = o.to

DataPut(v, i, o, S) == [v EXCEPT !.obj = [v.obj EXCEPT ![i] = o], !.stored = S]

DataKept(v, w, i, o) ==
    /\ Quiet(w) /\ w.luck = v.luck
    /\ \A j \in Objects : w.obj[j] = IF j = i THEN o ELSE v.obj[j]
    /\ Exact(v, {}) => Exact(w, {})

LEMMA DataFields ==
    ASSUME NEW v, Quiet(v), NEW i \in Objects, v.obj[i].here,
           NEW o \in Object, Alike(v.obj[i], o),
           NEW S \in SUBSET Objects, i \in S <=> o.data,
           \A j \in Objects : j # i => (j \in S <=> j \in v.stored)
    PROVE  DataKept(v, DataPut(v, i, o, S), i, o)
  <1> DEFINE w == DataPut(v, i, o, S)
             u == Put(v, i, o)
  <1>1. Basic(v) /\ Sound(v) /\ v \in Volume /\ \A j \in Objects : Ripe(v.obj[j])
    BY DEF Quiet, Basic, Sound
  <1>2. /\ o.type = v.obj[i].type /\ o.dir = v.obj[i].dir /\ o.equiv = v.obj[i].equiv
        /\ o.soft = v.obj[i].soft
    BY DEF Alike
  <1>3. ObjectOK(o)
    <2>1. ObjectOK(v.obj[i])
      BY <1>1 DEF Sound
    <2> QED
      BY <2>1 DEF ObjectOK, Alike
  <1>4. i \in v.luck.gone => o.soft
    BY <1>1, <1>2 DEF Basic
  <1>5. Basic(u)
    BY <1>1, <1>2, <1>3, <1>4, SetObjectSound
  <1>6. /\ u.obj = [j \in Objects |-> IF j = i THEN o ELSE v.obj[j]]
        /\ u.hdr = v.hdr /\ u.kids = v.kids /\ u.links = v.links
        /\ u.images = v.images /\ u.luck = v.luck
    BY <1>1, SetObject
  <1>7. u \in Volume
    BY <1>5 DEF Basic, Sound
  <1>8. w = [u EXCEPT !.stored = S]
    BY <1>1 DEF DataPut, Put, Volume
  <1> HIDE DEF w, u
  <1>9. /\ w \in Volume /\ w.stored = S /\ w.obj = u.obj /\ w.hdr = u.hdr /\ w.kids = u.kids
        /\ w.links = u.links /\ w.images = u.images /\ w.luck = u.luck
    BY <1>7, <1>8 DEF Volume
  <1>10. Basic(w)
    BY <1>5, <1>9 DEF Basic, Sound, KidsOK, LinksOK
  <1>11. \A j \in Objects : w.obj[j] = IF j = i THEN o ELSE v.obj[j]
    BY <1>6, <1>9
  <1>12. Quiet(w)
    <2>1. Ripe(o)
      BY <1>1 DEF Ripe, Alike
    <2> QED
      BY <1>1, <1>10, <1>11, <2>1 DEF Quiet
  <1>13. ASSUME NEW j \in Objects
         PROVE  /\ w.obj[j].here = v.obj[j].here /\ w.obj[j].type = v.obj[j].type
                /\ w.obj[j].dir = v.obj[j].dir /\ w.obj[j].sum = v.obj[j].sum
                /\ w.obj[j].unlinked = v.obj[j].unlinked
                /\ w.obj[j].equiv = v.obj[j].equiv /\ w.obj[j].to = v.obj[j].to
    <2>1. CASE j = i
      BY <1>11, <2>1 DEF Alike
    <2>2. CASE j # i
      BY <1>11, <2>2
    <2> QED
      BY <2>1, <2>2
  <1>14. ASSUME Exact(v, {})
         PROVE  Exact(w, {})
    <2>1. ASSUME NEW j \in Objects
          PROVE  Mem(w, j) /\ OnFlash(w, j)
      <3>1. Mem(v, j) /\ OnFlash(v, j)
        BY <1>14 DEF Exact
      <3>2. w.obj[j].data <=> j \in w.stored
        BY <1>9, <1>11, <3>1 DEF Mem
      <3>3. w.hdr = v.hdr /\ w.kids = v.kids /\ w.links = v.links
        BY <1>6, <1>9
      <3>4. OnFlash(w, j)
        BY <1>13, <3>1, <3>3 DEF OnFlash
      <3>5. v.obj[j].dir \in Objects => w.obj[v.obj[j].dir].type = v.obj[v.obj[j].dir].type
        BY <1>13
      <3>6. ASSUME v.obj[j].here, v.obj[j].type = "link"
            PROVE  /\ w.obj[v.obj[j].to].type = v.obj[v.obj[j].to].type
                   /\ w.obj[v.obj[j].to].unlinked = v.obj[v.obj[j].to].unlinked
        <4>1. v.obj[j].to \in Objects
          BY <1>1, <3>1, <3>6 DEF Mem, Sound, ObjectOK
        <4> QED
          BY <1>13, <4>1
      <3>7. Mem(w, j)
        BY <1>13, <3>1, <3>2, <3>3, <3>5, <3>6 DEF Mem
      <3> QED
        BY <3>4, <3>7
    <2>2. ASSUME NEW j \in Objects, NEW k \in Objects
          PROVE  Apart(w, j, k)
      <3>1. Apart(v, j, k)
        BY <1>14 DEF Exact
      <3> QED
        BY <1>13, <3>1 DEF Apart
    <2> QED
      BY <2>1, <2>2 DEF Exact
  <1> QED
    BY <1>6, <1>9, <1>11, <1>12, <1>14 DEF DataKept, w

Written(v, i) ==
    IF v.luck.room
    THEN Imaged([v EXCEPT !.obj[i].dirty = TRUE, !.obj[i].data = TRUE, !.stored = @ \cup {i}])
    ELSE [v EXCEPT !.obj[i].dirty = TRUE]

LEMMA WriteAfter ==
    ASSUME NEW v, Quiet(v), NEW i \in Objects, v.obj[i].here
    PROVE  After(v, Written(v, i))
  <1> DEFINE o == [v.obj[i] EXCEPT !.dirty = TRUE]
             p == [v.obj[i] EXCEPT !.dirty = TRUE, !.data = TRUE]
             a == DataPut(v, i, p, v.stored \cup {i})
             b == Put(v, i, o)
             w == Written(v, i)
  <1>1. Basic(v) /\ Sound(v) /\ v \in Volume /\ \A j \in Objects : Ripe(v.obj[j])
    BY DEF Quiet, Basic, Sound
  <1>2. v.obj[i] \in Object /\ ObjectOK(v.obj[i]) /\ Ripe(v.obj[i])
    BY <1>1 DEF Volume, Sound
  <1>3. /\ o \in Object /\ Like(v.obj[i], o) /\ Alike(v.obj[i], o)
        /\ p \in Object /\ Alike(v.obj[i], p) /\ p.data
    BY <1>2 DEF Object, Like, Alike
  <1>4. w = IF v.luck.room THEN Imaged(a) ELSE b
    <2>1. [v EXCEPT !.obj[i].dirty = TRUE, !.obj[i].data = TRUE, !.stored = @ \cup {i}] = a
      BY <1>1 DEF DataPut, Volume
    <2>2. [v EXCEPT !.obj[i].dirty = TRUE] = b
      BY <1>1 DEF Put, Volume
    <2> QED
      BY <2>1, <2>2 DEF Written
  <1> HIDE DEF o, p, w
  <1>5. DataKept(v, a, i, p)
    <2> DEFINE S == v.stored \cup {i}
    <2>1. S \in SUBSET Objects /\ (i \in S <=> p.data)
      BY <1>1, <1>3 DEF Volume
    <2>2. \A j \in Objects : j # i => (j \in S <=> j \in v.stored)
      OBVIOUS
    <2> HIDE DEF S
    <2>3. DataKept(v, DataPut(v, i, p, S), i, p)
      BY <1>3, <2>1, <2>2, DataFields
    <2> QED
      BY <2>3 DEF S
  <1> HIDE DEF a
  <1>6. ASSUME NEW q \in Object, Alike(v.obj[i], q)
        PROVE  Fate(v.obj[i], q) /\ Ripe(q)
    BY <1>2, <1>6 DEF Alike, Fate, Ripe
  <1>7. \A j \in Objects : Fate(v.obj[j], v.obj[j])
    <2> SUFFICES ASSUME NEW j \in Objects PROVE Fate(v.obj[j], v.obj[j])
      OBVIOUS
    <2>1. ObjectOK(v.obj[j])
      BY <1>1 DEF Sound
    <2> QED
      BY <2>1 DEF Fate, ObjectOK, Freed
  <1>8. CASE v.luck.room
    <2>1. Quiet(w) /\ Equal(a, w)
      BY <1>4, <1>5, <1>8, ImagedAfter DEF DataKept
    <2>2. Exact(v, {}) => Exact(w, {})
      BY <1>5, <2>1, EqualExact DEF DataKept
    <2>3. \A j \in Objects : Fate(v.obj[j], w.obj[j])
      BY <1>3, <1>5, <1>6, <1>7, <2>1 DEF DataKept, Equal
    <2> QED
      BY <2>1, <2>2, <2>3 DEF After, w
  <1>9. CASE ~v.luck.room
    <2>1. w = b
      BY <1>4, <1>9
    <2>2. o.type = v.obj[i].type /\ o.dir = v.obj[i].dir /\ o.equiv = v.obj[i].equiv
      BY <1>3 DEF Like
    <2>3. ObjectOK(o)
      BY <1>2, <1>3 DEF ObjectOK, Alike
    <2>4. i \in v.luck.gone => o.soft
      BY <1>1, <1>3 DEF Basic, Alike
    <2>5. Basic(b)
      BY <1>1, <1>3, <2>2, <2>3, <2>4, SetObjectSound
    <2>6. b.obj = [j \in Objects |-> IF j = i THEN o ELSE v.obj[j]]
      BY <1>1, <1>3, SetObject
    <2>7. Exact(v, {}) => Exact(b, {})
      BY <1>1, <1>3, SetObjectExact
    <2> HIDE DEF b
    <2>8. \A j \in Objects : b.obj[j] = IF j = i THEN o ELSE v.obj[j]
      BY <2>6
    <2>9. \A j \in Objects : Fate(v.obj[j], b.obj[j]) /\ Ripe(b.obj[j])
      BY <1>1, <1>3, <1>6, <1>7, <2>8
    <2>10. After(v, b)
      BY <2>5, <2>7, <2>9 DEF After, Quiet
    <2> QED
      BY <2>1, <2>10 DEF w
  <1> QED
    BY <1>8, <1>9

LEMMA WriteKeeps ==
    ASSUME NamesInv, NEW h \in Handles, Write(h)
    PROVE  NamesInv'
  <1> DEFINE i == fds[h].obj
  <1>1. PICK room \in BOOLEAN, gone \in SUBSET {j \in Objects : vol.obj[j].soft} :
            Ends(Written(Started(vol, room, gone), i), fds)
    BY DEF Write, Call, Started, Written
  <1>2. up /\ fds[h].kind = "file"
    BY DEF Write, Call
  <1> DEFINE v == Started(vol, room, gone)
  <1>3. ASSUME "stray" \notin upsets
        PROVE  Done(Written(v, i), fds)
    <2>1. Start(v)
      BY <1>2, <1>3, CallStarts
    <2> HIDE DEF v
    <2>2. fds[h] # NoHandle
      BY <1>2 DEF NoHandle
    <2>3. i \in Objects /\ v.obj[i].here /\ Quiet(v)
      BY <2>1, <2>2 DEF Start, HandlesFit
    <2> HIDE DEF i
    <2>4. After(v, Written(v, i))
      BY <2>3, WriteAfter
    <2> QED
      BY <2>1, <2>4, DoneAfter
  <1> QED
    BY <1>1, <1>2, <1>3, EndsInv

-----------------------------------------------------------------------------
(* Opening.                                                                *)
Used(v, i) == Put(v, i, Counted(v.obj[i], v.obj[i].inUse + 1))

Opened(v, i, trunc) ==
    LET used == [v EXCEPT !.obj[i].inUse = @ + 1]
        cut == [used EXCEPT !.obj[i].data = FALSE, !.stored = @ \ {i}]
    IN  IF trunc THEN Imaged(cut) ELSE used

OpenedOK(v, w, i) ==
    /\ Quiet(w) /\ w.luck = v.luck
    /\ \A j \in Objects : /\ w.obj[j].here = v.obj[j].here
                          /\ w.obj[j].type = v.obj[j].type
                          /\ w.obj[j].inUse = IF j = i THEN v.obj[i].inUse + 1
                                              ELSE v.obj[j].inUse
    /\ Exact(v, {}) => Exact(w, {})

LEMMA UsedFields ==
    ASSUME NEW v, Quiet(v), NEW i \in Objects, v.obj[i].here, ~v.obj[i].unlinked
    PROVE  OpenedOK(v, Used(v, i), i) /\ ~Used(v, i).obj[i].unlinked
  <1> DEFINE o == Counted(v.obj[i], v.obj[i].inUse + 1)
             w == Used(v, i)
  <1>0. Basic(v) /\ Sound(v) /\ v \in Volume /\ \A j \in Objects : Ripe(v.obj[j])
    BY DEF Quiet, Basic, Sound
  <1>1. v.obj[i] \in Object /\ ObjectOK(v.obj[i])
    BY <1>0 DEF Volume, Sound
  <1>2. v.obj[i].inUse + 1 \in Nat
    BY <1>1 DEF Object
  <1>3. /\ o \in Object /\ Like(v.obj[i], o) /\ o.inUse = v.obj[i].inUse + 1
        /\ o.deleted = v.obj[i].deleted /\ o.soft = v.obj[i].soft
    BY <1>1, <1>2 DEF Counted, Object, Like
  <1>4. w = Put(v, i, o)
    BY DEF Used
  <1> HIDE DEF o, w
  <1>5. /\ o.here = v.obj[i].here /\ o.type = v.obj[i].type /\ o.dir = v.obj[i].dir
        /\ o.equiv = v.obj[i].equiv /\ o.unlinked = v.obj[i].unlinked
    BY <1>3 DEF Like
  <1>6. ObjectOK(o)
    BY <1>1, <1>3, <1>5 DEF ObjectOK
  <1>7. i \in v.luck.gone => o.soft
    BY <1>0, <1>3 DEF Basic
  <1>8. Basic(w)
    BY <1>0, <1>3, <1>4, <1>5, <1>6, <1>7, SetObjectSound
  <1>9. w.obj = [j \in Objects |-> IF j = i THEN o ELSE v.obj[j]] /\ w.luck = v.luck
    BY <1>0, <1>3, <1>4, SetObject
  <1>10. \A X : Exact(v, X) => Exact(w, X)
    BY <1>0, <1>3, <1>4, SetObjectExact
  <1>11. \A j \in Objects : w.obj[j] = IF j = i THEN o ELSE v.obj[j]
    BY <1>9
  <1>12. ~w.obj[i].unlinked
    BY <1>5, <1>11
  <1>13. \A j \in Objects : Ripe(w.obj[j])
    BY <1>0, <1>11, <1>12 DEF Ripe
  <1>14. ASSUME NEW j \in Objects
         PROVE  /\ w.obj[j].here = v.obj[j].here
                /\ w.obj[j].type = v.obj[j].type
                /\ w.obj[j].inUse = IF j = i THEN v.obj[i].inUse + 1 ELSE v.obj[j].inUse
    <2>1. CASE j = i
      BY <1>3, <1>5, <1>11, <2>1
    <2>2. CASE j # i
      BY <1>11, <2>2
    <2> QED
      BY <2>1, <2>2
  <1> QED
    BY <1>8, <1>9, <1>10, <1>12, <1>13, <1>14 DEF OpenedOK, Quiet, w

LEMMA OpenedFields ==
    ASSUME NEW v, Quiet(v), NEW i \in Objects, v.obj[i].here, ~v.obj[i].unlinked,
           NEW trunc \in BOOLEAN
    PROVE  OpenedOK(v, Opened(v, i, trunc), i)
  <1> DEFINE u == Used(v, i)
             p == [u.obj[i] EXCEPT !.data = FALSE]
             S == u.stored \ {i}
             c == DataPut(u, i, p, S)
             w == Imaged(c)
  <1>1. OpenedOK(v, u, i) /\ ~u.obj[i].unlinked
    BY UsedFields
  <1>2. v \in Volume
    BY DEF Quiet, Basic, Sound
  <1> DEFINE used == [v EXCEPT !.obj[i].inUse = @ + 1]
             cut == [used EXCEPT !.obj[i].data = FALSE, !.stored = @ \ {i}]
  <1>3. used = u
    BY <1>2 DEF Used, Put, Counted, Volume
  <1>4. Opened(v, i, trunc) = IF trunc THEN Imaged(cut) ELSE used
    BY DEF Opened
  <1> HIDE DEF u, used
  <1>5. Quiet(u) /\ u \in Volume /\ u.obj[i].here
    BY <1>1 DEF OpenedOK, Quiet, Basic, Sound
  <1>6. cut = c
    BY <1>3, <1>5 DEF DataPut, Volume
  <1> HIDE DEF cut, c
  <1>7. Opened(v, i, trunc) = IF trunc THEN w ELSE u
    BY <1>3, <1>4, <1>6
  <1> USE DEF c
  <1>8. u.obj[i] \in Object
    BY <1>5 DEF Volume
  <1>9. p \in Object /\ Alike(u.obj[i], p) /\ ~p.data
    BY <1>8 DEF Object, Alike
  <1>10. S \in SUBSET Objects /\ (i \in S <=> p.data)
    BY <1>5, <1>9 DEF Volume
  <1>11. \A j \in Objects : j # i => (j \in S <=> j \in u.stored)
    OBVIOUS
  <1> HIDE DEF p, S
  <1>12. DataKept(u, c, i, p)
    BY <1>5, <1>9, <1>10, <1>11, DataFields
  <1> HIDE DEF c
  <1>13. Quiet(w) /\ Equal(c, w) /\ w.luck = c.luck
    BY <1>12, ImagedAfter DEF DataKept
  <1> HIDE DEF w
  <1>14. Exact(u, {}) => Exact(w, {})
    BY <1>12, <1>13, EqualExact DEF DataKept
  <1>15. ASSUME NEW j \in Objects
         PROVE  /\ w.obj[j].here = u.obj[j].here
                /\ w.obj[j].type = u.obj[j].type
                /\ w.obj[j].inUse = u.obj[j].inUse
    <2>1. w.obj[j] = IF j = i THEN p ELSE u.obj[j]
      BY <1>12, <1>13 DEF DataKept, Equal
    <2> QED
      BY <1>9, <2>1 DEF Alike
  <1>16. OpenedOK(v, w, i)
    BY <1>1, <1>12, <1>13, <1>14, <1>15 DEF OpenedOK, DataKept
  <1> QED
    BY <1>1, <1>7, <1>16

(* yaffs_open, as one step from the volume to what it leaves.              *)
OpenIs(v, h, path, flags, new) ==
    LET old == FindObject(v, path)
        w == IF old # NoObject THEN v
             ELSE MknodObject(v, new, "file", FindDirectory(v, path), Last(path), NoObject)
        i == IF old # NoObject THEN old ELSE new
        trunc == {"trunc", "write"} \subseteq flags /\ w.obj[i].type = "file"
    IN  /\ IF old # NoObject THEN ~Denied(i, flags)
           ELSE "create" \in flags /\ FindDirectory(v, path) # "none"
        /\ IF ~w.result THEN Ends(w, fds)
           ELSE Ends(Opened(w, i, trunc),
                     [fds EXCEPT ![h] = [obj |-> i, kind |-> w.obj[i].type,
                                         exclusive |-> "excl" \in flags]])

LEMMA OpenStep ==
    ASSUME NEW h, NEW path, NEW flags, NEW new, Open(h, path, flags, new)
    PROVE  \E room \in BOOLEAN, gone \in SUBSET {j \in Objects : vol.obj[j].soft} :
              OpenIs(Started(vol, room, gone), h, path, flags, new)
  BY DEF Open, Call, OpenIs, Opened, Started

LEMMA OpenDone ==
    ASSUME NEW v, Start(v), NEW w, Done(w, fds), NEW h \in Handles, fds[h] = NoHandle,
           NEW i \in Objects, w.obj[i].here, ~w.obj[i].unlinked,
           NEW trunc \in BOOLEAN, NEW x \in BOOLEAN
    PROVE  Done(Opened(w, i, trunc), [fds EXCEPT ![h] = [obj |-> i, kind |-> w.obj[i].type,
                                                         exclusive |-> x]])
  <1> DEFINE y == Opened(w, i, trunc)
             next == [fds EXCEPT ![h] = [obj |-> i, kind |-> w.obj[i].type,
                                         exclusive |-> x]]
  <1>1. OpenedOK(w, y, i)
    BY OpenedFields DEF Done
  <1>2. w \in Volume
    BY DEF Done, Quiet, Basic, Sound
  <1> HIDE DEF y
  <1>3. fds \in [Handles -> Handle]
    BY DEF Start, HandlesFit
  <1>4. ASSUME NoStray(y, next)
        PROVE  HandlesFit(y, next)
    <2>1. NoStray(w, fds)
      <3> SUFFICES ASSUME NEW g \in Handles, fds[g].kind \in {"dir", "link"}
                   PROVE  w.obj[fds[g].obj].here
        BY DEF NoStray
      <3>1. fds[g] # NoHandle /\ g # h
        BY DEF NoHandle
      <3>2. fds[g].obj \in Objects
        BY <3>1 DEF Start, HandlesFit
      <3>3. next[g] = fds[g]
        BY <1>3, <3>1
      <3>4. y.obj[fds[g].obj].here
        BY <1>4, <3>3 DEF NoStray
      <3> QED
        BY <1>1, <3>2, <3>4 DEF OpenedOK
    <2>2. HandlesFit(w, fds)
      BY <2>1 DEF Done
    <2> QED
      BY <1>1, <1>2, <2>2, FitOpened DEF OpenedOK
  <1> HIDE DEF next
  <1>5. Done(y, next)
    BY <1>1, <1>4 DEF Done, OpenedOK
  <1> QED
    BY <1>5 DEF y, next

LEMMA OpenKeeps ==
    ASSUME NamesInv, NEW h \in Handles, NEW path \in Paths, NEW flags, NEW new \in Objects,
           Open(h, path, flags, new)
    PROVE  NamesInv'
  <1>1. PICK room \in BOOLEAN, gone \in SUBSET {j \in Objects : vol.obj[j].soft} :
            OpenIs(Started(vol, room, gone), h, path, flags, new)
    BY OpenStep
  <1>2. up /\ fds[h] = NoHandle /\ ~vol.obj[new].here
    BY DEF Open, Call
  <1> DEFINE v == Started(vol, room, gone)
             old == FindObject(v, path)
             dir == FindDirectory(v, path)
             w == IF old # NoObject THEN v
                  ELSE MknodObject(v, new, "file", dir, Last(path), NoObject)
             i == IF old # NoObject THEN old ELSE new
             trunc == {"trunc", "write"} \subseteq flags /\ w.obj[i].type = "file"
             next == [fds EXCEPT ![h] = [obj |-> i, kind |-> w.obj[i].type,
                                         exclusive |-> "excl" \in flags]]
  <1>3. /\ old = NoObject => dir # "none"
        /\ ~w.result => Ends(w, fds)
        /\ w.result => Ends(Opened(w, i, trunc), next)
    BY <1>1 DEF OpenIs
  <1>4. CASE "stray" \in upsets
    <2>1. up \in BOOLEAN
      BY DEF NamesInv
    <2> HIDE DEF w, next, trunc, i
    <2> QED
      BY <1>3, <1>4, <2>1, EndsStray
  <1>5. CASE "stray" \notin upsets
    <2>1. Start(v)
      BY <1>2, <1>5, CallStarts
    <2> HIDE DEF v
    <2>2. Done(w, fds) /\ (w.result => i \in Objects /\ w.obj[i].here /\ ~w.obj[i].unlinked)
      <3>1. CASE old # NoObject
        <4>1. w = v /\ i = old
          BY <3>1
        <4>2. Sound(v) /\ Quiet(v)
          BY <2>1 DEF Start
        <4>3. old \in Objects /\ v.obj[old].here /\ ~v.obj[old].unlinked
          BY <3>1, <4>2, ObjectFound
        <4>4. Done(v, fds)
          BY <2>1 DEF Start, Done
        <4> QED
          BY <4>1, <4>3, <4>4
      <3>2. CASE old = NoObject
        <4> DEFINE m == MknodObject(v, new, "file", dir, Last(path), NoObject)
        <4>1. w = m /\ i = new
          BY <3>2
        <4>2. dir # "none"
          BY <1>3, <3>2
        <4>3. Mknod(v, m, new, "file")
          BY <1>2, <2>1, <4>2, MknodDone DEF Types, Target
        <4> HIDE DEF m
        <4>4. Done(m, fds)
          BY <2>1, <4>3, DoneAfter DEF Mknod
        <4>5. m.result => m.obj[new].here /\ ~m.obj[new].unlinked
          BY <4>3 DEF Mknod
        <4> HIDE DEF w, i
        <4> QED
          BY <4>1, <4>4, <4>5
      <3> QED
        BY <3>1, <3>2
    <2> DEFINE x == "excl" \in flags
    <2>3. trunc \in BOOLEAN /\ x \in BOOLEAN
      OBVIOUS
    <2>4. next = [fds EXCEPT ![h] = [obj |-> i, kind |-> w.obj[i].type, exclusive |-> x]]
      OBVIOUS
    <2> HIDE DEF w, i, trunc, next, x
    <2>5. CASE ~w.result
      BY <1>2, <1>3, <1>5, <2>2, <2>5, EndsInv
    <2>6. CASE w.result
      <3>1. Done(Opened(w, i, trunc), next)
        BY <1>2, <2>1, <2>2, <2>3, <2>4, <2>6, OpenDone
      <3> QED
        BY <1>2, <1>3, <1>5, <2>6, <3>1, EndsInv
    <2> QED
      BY <2>5, <2>6
  <1> QED
    BY <1>4, <1>5

-----------------------------------------------------------------------------
(* Mounting.                                                               *)
LEMMA ReversedIn ==
    ASSUME NEW T, NEW s \in Seq(T)
    PROVE  /\ Reverse(s) \in Seq(T)
           /\ \A x : In(x, Reverse(s)) <=> In(x, s)
  <1> DEFINE n == Len(s)
             t == [k \in 1 .. n |-> s[(n - k) + 1]]
  <1>1. n \in Nat /\ \A k \in 1 .. n : s[k] \in T
    OBVIOUS
  <1>2. Reverse(s) = t
    BY DEF Reverse
  <1> HIDE DEF n
  <1>3. \A k \in 1 .. n : (n - k) + 1 \in 1 .. n /\ (n - ((n - k) + 1)) + 1 = k
    BY <1>1
  <1>4. t \in Seq(T) /\ Len(t) = n
    BY <1>1, <1>3
  <1>5. \A k \in 1 .. n : t[k] = s[(n - k) + 1] /\ s[k] = t[(n - k) + 1]
    BY <1>3
  <1> HIDE DEF t
  <1>6. \A x : In(x, t) <=> \E k \in 1 .. n : s[k] = x
    <2> TAKE x
    <2>1. ASSUME NEW k \in 1 .. n, t[k] = x
          PROVE  \E j \in 1 .. n : s[j] = x
      <3>1. (n - k) + 1 \in 1 .. n
        BY <1>3
      <3>2. s[(n - k) + 1] = x
        BY <1>5, <2>1
      <3> QED
        BY <3>1, <3>2
    <2>2. ASSUME NEW k \in 1 .. n, s[k] = x
          PROVE  \E j \in 1 .. n : t[j] = x
      <3>1. (n - k) + 1 \in 1 .. n
        BY <1>3
      <3>2. t[(n - k) + 1] = x
        BY <1>5, <2>2
      <3> QED
        BY <3>1, <3>2
    <2> QED
      BY <1>4, <2>1, <2>2 DEF In
  <1> QED
    BY <1>2, <1>4, <1>6 DEF In, n

(* An order has every header once: no more than there are fit in.          *)
LEMMA OrderIn ==
    ASSUME NEW S \in SUBSET Objects, NEW order \in SetToSeqs(S)
    PROVE  /\ order \in Seq(Objects)
           /\ \A x : In(x, order) <=> x \in S
  <1> DEFINE n == Cardinality(S)
  <1>1. IsFiniteSet(S) /\ n \in Nat
    BY NamesAssumption, FS_Subset, FS_CardinalityType
  <1>2. order \in [1 .. n -> S] /\ \A i, j \in 1 .. n : i # j => order[i] # order[j]
    BY DEF SetToSeqs
  <1> HIDE DEF n
  <1>3. order \in Seq(Objects) /\ Len(order) = n
    BY <1>1, <1>2
  <1>4. ASSUME NEW x \in S, ~In(x, order)
        PROVE  FALSE
    <2> DEFINE R == S \ {x}
    <2>1. \A k \in 1 .. n : order[k] # x
      BY <1>3, <1>4 DEF In
    <2>2. order \in [1 .. n -> R]
      BY <1>2, <2>1
    <2>3. IsFiniteSet(R) /\ Cardinality(R) = n - 1
      BY <1>1, <1>4, FS_RemoveElement DEF n
    <2>4. IsFiniteSet(1 .. n) /\ Cardinality(1 .. n) = n
      <3>1. 1 \in Int /\ n \in Int
        BY <1>1
      <3>2. IsFiniteSet(1 .. n) /\ Cardinality(1 .. n) = IF 1 > n THEN 0 ELSE n - 1 + 1
        BY <3>1, FS_Interval
      <3> QED
        BY <1>1, <3>2
    <2>5. Cardinality(R) < Cardinality(1 .. n)
      BY <1>1, <2>3, <2>4
    <2> HIDE DEF R
    <2>6. \E i, j \in 1 .. n : i # j /\ order[i] = order[j]
      BY <2>2, <2>3, <2>4, <2>5, FS_PigeonHole
    <2> QED
      BY <1>2, <2>6
  <1>5. \A x : In(x, order) => x \in S
    BY <1>2, <1>3 DEF In
  <1> QED
    BY <1>3, <1>4, <1>5

(* What a scan finds: the flash.                                           *)
FlashOK(hdr, stored) ==
    /\ hdr \in [Objects -> Header] /\ stored \in SUBSET Objects
    /\ \A i \in Objects : HeaderOK(hdr[i])

Found(v, i, o) ==
    /\ o \in Object /\ ObjectOK(o) /\ Ripe(o) /\ o.inUse = 0
    /\ v.hdr[i] = NoHeader => o = Freed
    /\ v.hdr[i] # NoHeader =>
          /\ o.here /\ o.type = v.hdr[i].type /\ o.dir = Parent(v, i) /\ o.sum = v.hdr[i].name
          /\ o.data <=> i \in v.stored
          /\ o.equiv = v.hdr[i].equiv /\ o.to = FixUpHardLink(v, i)

LEMMA ParentIs ==
    ASSUME NEW v, FlashOK(v.hdr, v.stored), NEW i \in Objects, v.hdr[i] # NoHeader
    PROVE  /\ Parent(v, i) \in Directories
           /\ Parent(v, i) = "unlinked" <=> v.hdr[i].dir = "unlinked"
           /\ v.hdr[i].dir \in Objects /\ v.hdr[v.hdr[i].dir].type = "dir" =>
                 Parent(v, i) = v.hdr[i].dir
           /\ v.hdr[i].dir \in Fixed => Parent(v, i) = v.hdr[i].dir
  <1>1. v.hdr[i].dir \in Directories
    BY DEF FlashOK, HeaderOK
  <1> QED
    BY <1>1, ConstantsOK DEF Parent, Directories, Fixed

LEMMA ScanFinds ==
    ASSUME NEW v, FlashOK(v.hdr, v.stored), NEW i \in Objects
    PROVE  Found(v, i, ScanHeader(v, i))
  <1> DEFINE h == v.hdr[i]
             o == ScanHeader(v, i)
             gone == Parent(v, i) = "unlinked"
             to == FixUpHardLink(v, i)
  <1>1. h \in Header /\ HeaderOK(h)
    BY DEF FlashOK
  <1>2. CASE h = NoHeader
    <2>1. o = Freed
      BY <1>2 DEF ScanHeader
    <2> QED
      BY <1>2, <2>1, ConstantsOK DEF Found, Freed
  <1>3. CASE h # NoHeader
    <2>1. /\ Parent(v, i) \in Directories
          /\ gone <=> h.dir = "unlinked"
      BY <1>3, ParentIs
    <2>2. gone => h.type = "file"
      BY <1>1, <1>3, <2>1 DEF HeaderOK
    <2>3. h.type \in Types /\ (h.type = "link" => h.equiv \in Objects)
      BY <1>1, <1>3 DEF HeaderOK
    <2>4. to \in Target
      BY <2>3 DEF FixUpHardLink, Target
    <2>5. o = [here |-> TRUE, type |-> h.type, dir |-> Parent(v, i), sum |-> h.name,
               unlinked |-> gone, deleted |-> gone, soft |-> gone /\ h.type = "file",
               data |-> i \in v.stored, dirty |-> FALSE, inUse |-> 0,
               equiv |-> h.equiv, to |-> to]
      BY <1>3 DEF ScanHeader, Freed
    <2> DEFINE p == Parent(v, i)
               d == i \in v.stored
    <2>6. gone <=> p = "unlinked"
      OBVIOUS
    <2>7. gone \in BOOLEAN /\ d \in BOOLEAN
      OBVIOUS
    <2>8. h.name \in Name /\ h.equiv \in Target
      BY <1>1 DEF Header
    <2> HIDE DEF h, o, gone, to, p, d
    <2>9. o = [here |-> TRUE, type |-> h.type, dir |-> p, sum |-> h.name,
               unlinked |-> gone, deleted |-> gone, soft |-> gone /\ h.type = "file",
               data |-> d, dirty |-> FALSE, inUse |-> 0, equiv |-> h.equiv, to |-> to]
      BY <2>5 DEF p, d
    <2>10. /\ o.here /\ o.type = h.type /\ o.dir = p /\ o.sum = h.name
           /\ o.unlinked <=> gone
           /\ o.deleted <=> gone
           /\ o.soft => gone
           /\ o.data <=> d
           /\ o.inUse = 0 /\ o.equiv = h.equiv /\ o.to = to
      BY <2>9
    <2>11. o \in Object
      <3>1. p \in Place
        BY <2>1 DEF p, Place
      <3> QED
        BY <2>3, <2>4, <2>7, <2>8, <2>9, <3>1 DEF Object
    <2>12. p \in Directories
      BY <2>1 DEF p
    <2>13. ObjectOK(o)
      BY <2>2, <2>3, <2>6, <2>10, <2>12 DEF ObjectOK
    <2>14. Ripe(o)
      BY <2>10 DEF Ripe
    <2> QED
      BY <1>3, <2>10, <2>11, <2>13, <2>14 DEF Found, h, o, p, d, to
  <1> QED
    BY <1>2, <1>3

(* The volume that is built from them, before files without data go.       *)
ScanAll(v, order) ==
    LET obj == [i \in Objects |-> ScanHeader(v, i)]
    IN  [v EXCEPT !.obj = obj,
                  !.kids = [dir \in Directories |->
                      Among(Reverse(order), {i \in Objects : obj[i].dir = dir})],
                  !.links = [to \in Objects |->
                      Among(order, {i \in Objects : obj[i].to = to})]]

Scanned(v, w) ==
    /\ Basic(w)
    /\ \A i \in Objects : Found(v, i, w.obj[i])
    /\ \A dir \in Directories, i \in Objects :
          In(i, w.kids[dir]) <=> v.hdr[i] # NoHeader /\ w.obj[i].dir = dir
    /\ \A to \in Objects, i \in Objects :
          In(i, w.links[to]) <=> v.hdr[i] # NoHeader /\ w.obj[i].to = to
    /\ w.hdr = v.hdr /\ w.stored = v.stored /\ w.luck = v.luck

LEMMA ScanAllFields ==
    ASSUME NEW v, v = Blank(v.hdr, v.stored), FlashOK(v.hdr, v.stored),
           NEW order \in SetToSeqs({i \in Objects : v.hdr[i] # NoHeader})
    PROVE  Scanned(v, ScanAll(v, order))
  <1> DEFINE w == ScanAll(v, order)
             S == {i \in Objects : v.hdr[i] # NoHeader}
             obj == [i \in Objects |-> ScanHeader(v, i)]
             kids == [dir \in Directories |->
                         Among(Reverse(order), {i \in Objects : obj[i].dir = dir})]
             links == [to \in Objects |-> Among(order, {i \in Objects : obj[i].to = to})]
  <1>1. order \in Seq(Objects) /\ \A x : In(x, order) <=> x \in S
    <2>1. S \in SUBSET Objects
      OBVIOUS
    <2> HIDE DEF S
    <2> QED
      BY <2>1, OrderIn DEF S
  <1>2. Reverse(order) \in Seq(Objects) /\ \A x : In(x, Reverse(order)) <=> x \in S
    BY <1>1, ReversedIn
  <1>3. \A i \in Objects : Found(v, i, obj[i])
    BY ScanFinds
  <1>4. obj \in [Objects -> Object] /\ \A i \in Objects : ObjectOK(obj[i])
    <2>1. \A i \in Objects : ScanHeader(v, i) \in Object /\ ObjectOK(obj[i])
      BY <1>3 DEF Found
    <2> QED
      BY <2>1
  <1>5. v.images = {} /\ v.luck = NoLuck /\ v.result = TRUE
    BY DEF Blank
  <1>6. v = [obj |-> v.obj, kids |-> v.kids, links |-> v.links, hdr |-> v.hdr,
             stored |-> v.stored, images |-> v.images, luck |-> v.luck,
             result |-> v.result]
    BY DEF Blank
  <1>7. w = [v EXCEPT !.obj = obj, !.kids = kids, !.links = links]
    BY DEF ScanAll
  <1> HIDE DEF obj, w, S
  <1>8. \A dir \in Directories :
            /\ kids[dir] \in Seq(Objects)
            /\ \A x : In(x, kids[dir]) <=> x \in S /\ x \in {i \in Objects : obj[i].dir = dir}
    BY <1>2, AmongElements
  <1>9. \A to \in Objects :
            /\ links[to] \in Seq(Objects)
            /\ \A x : In(x, links[to]) <=> x \in S /\ x \in {i \in Objects : obj[i].to = to}
    BY <1>1, AmongElements
  <1>10. kids \in [Directories -> Seq(Objects)] /\ links \in [Objects -> Seq(Objects)]
    BY <1>8, <1>9
  <1> HIDE DEF kids, links
  <1>11. w = [obj |-> obj, kids |-> kids, links |-> links, hdr |-> v.hdr,
              stored |-> v.stored, images |-> v.images, luck |-> v.luck, result |-> v.result]
    BY <1>6, <1>7
  <1>12. /\ w.obj = obj /\ w.kids = kids /\ w.links = links /\ w.hdr = v.hdr
         /\ w.stored = v.stored /\ w.luck = v.luck /\ w.images = {}
    BY <1>11, <1>5
  <1>13. v.luck \in Luck /\ v.luck.gone = {} /\ v.images \in SUBSET Image /\ v.result \in BOOLEAN
    <2>1. NoLuck \in Luck /\ NoLuck.gone = {}
      BY DEF NoLuck, Luck
    <2> QED
      BY <1>5, <2>1
  <1>14. w \in Volume
    BY <1>4, <1>10, <1>11, <1>13 DEF Volume, FlashOK
  <1>15. \A dir \in Directories, i \in Objects :
            In(i, w.kids[dir]) <=> v.hdr[i] # NoHeader /\ w.obj[i].dir = dir
    BY <1>8, <1>12 DEF S
  <1>16. \A to \in Objects, i \in Objects :
            In(i, w.links[to]) <=> v.hdr[i] # NoHeader /\ w.obj[i].to = to
    BY <1>9, <1>12 DEF S
  <1>17. LinksOK(w)
    <2> SUFFICES ASSUME NEW to \in Objects, NEW i \in Objects, In(i, w.links[to])
                 PROVE  w.obj[i].type = "link" /\ w.obj[i].equiv = to
      BY DEF LinksOK
    <2>1. v.hdr[i] # NoHeader /\ w.obj[i].to = to
      BY <1>16
    <2>2. /\ w.obj[i].type = v.hdr[i].type /\ w.obj[i].equiv = v.hdr[i].equiv
          /\ w.obj[i].to = FixUpHardLink(v, i)
      BY <1>3, <1>12, <2>1 DEF Found
    <2> QED
      BY <2>1, <2>2, ConstantsOK DEF FixUpHardLink
  <1>18. Sound(w)
    BY <1>4, <1>12, <1>14, <1>15, <1>17 DEF Sound, KidsOK, FlashOK
  <1>19. Basic(w)
    BY <1>12, <1>13, <1>18 DEF Basic
  <1> QED
    BY <1>3, <1>12, <1>15, <1>16, <1>19 DEF Scanned, w

(* It is exact if the flash is.                                            *)
LEMMA ScannedExact ==
    ASSUME NEW v, FlashOK(v.hdr, v.stored), FlashExact(v.hdr, v.stored),
           NEW w, Scanned(v, w)
    PROVE  Exact(w, {})
  <1>1. ASSUME NEW i \in Objects, v.hdr[i] # NoHeader
        PROVE  /\ w.obj[i].here /\ w.obj[i].type = v.hdr[i].type
               /\ w.obj[i].dir = v.hdr[i].dir /\ w.obj[i].sum = v.hdr[i].name
               /\ w.obj[i].data <=> i \in v.stored
               /\ w.obj[i].equiv = v.hdr[i].equiv /\ w.obj[i].to = FixUpHardLink(v, i)
    <2>1. Found(v, i, w.obj[i])
      BY DEF Scanned
    <2>2. v.hdr[i].dir \in Directories
      BY <1>1 DEF FlashOK, HeaderOK
    <2>3. v.hdr[i].dir \in Objects => v.hdr[v.hdr[i].dir].type = "dir"
      BY <1>1 DEF FlashExact
    <2>4. Parent(v, i) = v.hdr[i].dir
      BY <1>1, <2>2, <2>3, ParentIs DEF Directories
    <2> QED
      BY <1>1, <2>1, <2>4 DEF Found
  <1>2. ASSUME NEW i \in Objects, v.hdr[i] = NoHeader
        PROVE  ~w.obj[i].here /\ ~w.obj[i].data /\ i \notin v.stored
    <2>1. Found(v, i, w.obj[i])
      BY DEF Scanned
    <2>2. w.obj[i] = Freed
      BY <1>2, <2>1 DEF Found
    <2> QED
      BY <1>2, <2>2 DEF Freed, FlashExact
  <1>3. ASSUME NEW i \in Objects
        PROVE  OnFlash(w, i)
    BY <1>1, <1>2 DEF OnFlash, Scanned
  <1>4. ASSUME NEW i \in Objects, v.hdr[i].type \in {"dir", "file"}
        PROVE  v.hdr[i] # NoHeader
    BY <1>4 DEF NoHeader
  <1>5. ASSUME NEW i \in Objects
        PROVE  Mem(w, i)
    <2>1. CASE v.hdr[i] = NoHeader
      BY <1>2, <2>1 DEF Mem, Scanned
    <2>2. CASE v.hdr[i] # NoHeader
      <3>1. In(i, w.kids[w.obj[i].dir])
        <4>1. w.obj[i].dir \in Directories
          BY <1>1, <2>2 DEF FlashOK, HeaderOK
        <4> QED
          BY <2>2, <4>1 DEF Scanned
      <3>2. w.obj[i].dir \in Objects => w.obj[w.obj[i].dir].type = "dir"
        <4> SUFFICES ASSUME v.hdr[i].dir \in Objects
                     PROVE  w.obj[v.hdr[i].dir].type = "dir"
          BY <1>1, <2>2
        <4>1. v.hdr[v.hdr[i].dir].type = "dir"
          BY <2>2 DEF FlashExact
        <4> QED
          BY <1>1, <1>4, <4>1
      <3>3. w.obj[i].dir # "unlinked" => w.obj[i].sum \in FileNames
        BY <1>1, <2>2 DEF FlashExact
      <3>4. ASSUME w.obj[i].type = "link"
            PROVE  /\ w.obj[i].to = w.obj[i].equiv
                   /\ w.obj[w.obj[i].to].type = "file" /\ ~w.obj[w.obj[i].to].unlinked
                   /\ In(i, w.links[w.obj[i].to])
        <4> DEFINE t == v.hdr[i].equiv
        <4>1. v.hdr[i].type = "link"
          BY <1>1, <2>2, <3>4
        <4>2. v.hdr[t].type = "file" /\ v.hdr[t].dir # "unlinked"
          BY <2>2, <4>1 DEF FlashExact
        <4>3. t \in Objects
          BY <2>2, <4>1 DEF FlashOK, HeaderOK
        <4> HIDE DEF t
        <4>4. v.hdr[t] # NoHeader
          BY <1>4, <4>2, <4>3
        <4>5. w.obj[i].to = t /\ w.obj[i].equiv = t
          BY <1>1, <2>2, <4>1, <4>4 DEF FixUpHardLink, t
        <4>6. w.obj[t].type = "file" /\ w.obj[t].dir # "unlinked" /\ w.obj[t].here
          BY <1>1, <4>2, <4>3, <4>4
        <4>7. ObjectOK(w.obj[t])
          BY <4>3 DEF Scanned, Found
        <4>8. ~w.obj[t].unlinked
          BY <4>6, <4>7 DEF ObjectOK
        <4>9. In(i, w.links[t])
          BY <2>2, <4>3, <4>5 DEF Scanned
        <4> QED
          BY <4>5, <4>6, <4>8, <4>9
      <3>5. w.obj[i].data <=> i \in w.stored
        BY <1>1, <2>2 DEF Scanned
      <3> QED
        BY <3>1, <3>2, <3>3, <3>4, <3>5 DEF Mem
    <2> QED
      BY <2>1, <2>2
  <1>6. ASSUME NEW i \in Objects, NEW j \in Objects
        PROVE  Apart(w, i, j)
    BY <1>1, <1>2 DEF Apart, FlashExact
  <1> QED
    BY <1>3, <1>5, <1>6 DEF Exact

LEMMA ScanAfter ==
    ASSUME NEW v, v = Blank(v.hdr, v.stored), FlashOK(v.hdr, v.stored),
           NEW order \in SetToSeqs({i \in Objects : v.hdr[i] # NoHeader})
    PROVE  /\ Quiet(Scan(v, order))
           /\ \A i \in Objects : Scan(v, order).obj[i].inUse = 0
           /\ FlashExact(v.hdr, v.stored) => Exact(Scan(v, order), {})
  <1> DEFINE u == ScanAll(v, order)
             S == {i \in Objects : u.obj[i].soft /\ ~u.obj[i].data}
             w == Gone(u, S)
  <1>1. Scanned(v, u)
    BY ScanAllFields
  <1>2. Scan(v, order) = w
    <2> DEFINE obj == [i \in Objects |-> ScanHeader(v, i)]
               R == {i \in Objects : obj[i].soft /\ ~obj[i].data}
    <2>1. Scan(v, order) = Gone(u, R)
      BY DEF Scan, ScanAll
    <2>2. u.obj = obj
      BY DEF ScanAll, Blank
    <2> HIDE DEF u, obj
    <2>3. R = S
      BY <2>2
    <2> QED
      BY <2>1, <2>3
  <1> HIDE DEF u
  <1>3. Basic(u) /\ Sound(u) /\ u \in Volume /\ \A i \in Objects : ObjectOK(u.obj[i])
    BY <1>1 DEF Scanned, Basic, Sound
  <1>4. S \in SUBSET Objects /\ \A i \in S : u.obj[i].soft
    OBVIOUS
  <1>5. ASSUME NEW i \in S
        PROVE  /\ u.obj[i].type = "file" /\ u.obj[i].unlinked
               /\ \A to \in Objects : ~In(i, u.links[to])
    BY <1>3, <1>4, SoftOnes
  <1> HIDE DEF S
  <1>6. Sound(w)
    BY <1>3, <1>4, <1>5, GoneSound
  <1>7. /\ w.obj = [i \in Objects |-> IF i \in S THEN Freed ELSE u.obj[i]]
        /\ w.hdr = [i \in Objects |-> IF i \in S THEN NoHeader ELSE u.hdr[i]]
        /\ w.stored = u.stored \ S
        /\ \A dir \in Directories : \A x : In(x, w.kids[dir]) <=> In(x, u.kids[dir]) /\ x \notin S
        /\ w.links = u.links /\ w.luck = u.luck
    BY <1>3, GoneFields
  <1> HIDE DEF w
  <1>8. w.luck.gone = {}
    BY <1>1, <1>7 DEF Scanned, Blank, NoLuck
  <1>9. \A i \in Objects : /\ w.obj[i] = IF i \in S THEN Freed ELSE u.obj[i]
                           /\ w.hdr[i] = IF i \in S THEN NoHeader ELSE u.hdr[i]
    BY <1>7
  <1>10. ASSUME NEW i \in Objects
         PROVE  Ripe(w.obj[i]) /\ w.obj[i].inUse = 0
    <2>1. Found(v, i, u.obj[i])
      BY <1>1 DEF Scanned
    <2>2. Freed.inUse = 0
      BY DEF Freed
    <2> QED
      BY <1>9, <2>1, <2>2, ConstantsOK DEF Found
  <1>11. Quiet(w)
    BY <1>6, <1>8, <1>10 DEF Quiet, Basic
  <1>12. ASSUME FlashExact(v.hdr, v.stored)
         PROVE  Exact(w, {})
    <2>1. Exact(u, {})
      BY <1>1, <1>12, ScannedExact
    <2>2. Stays(u, w, {}, S)
      <3>1. ASSUME NEW j \in Objects \ S
            PROVE  /\ Like(u.obj[j], w.obj[j]) /\ w.hdr[j] = u.hdr[j]
                   /\ j \in w.stored <=> j \in u.stored
                   /\ \A dir \in Directories : In(j, u.kids[dir]) => In(j, w.kids[dir])
                   /\ \A to \in Objects : In(j, u.links[to]) => In(j, w.links[to])
        BY <1>7, <1>9 DEF Like
      <3>2. ASSUME NEW j \in S
            PROVE  w.obj[j] = Freed /\ w.hdr[j] = NoHeader /\ j \notin w.stored
        BY <1>4, <1>7, <1>9
      <3> QED
        BY <3>1, <3>2 DEF Stays
    <2>3. Needed(u, w, {} \cup S)
      <3>1. \A k \in Objects : u.obj[k].type = "dir" => k \notin S
        BY <1>5
      <3>2. \A k \in Objects : u.obj[k].type = "file" /\ ~u.obj[k].unlinked => k \notin S
        BY <1>5
      <3> QED
        BY <1>9, <3>1, <3>2 DEF Needed
    <2>4. Exact(w, {} \ S)
      BY <1>3, <2>1, <2>2, <2>3, ExactStays
    <2>5. {} \ S = {}
      OBVIOUS
    <2> QED
      BY <2>4, <2>5
  <1> QED
    BY <1>2, <1>10, <1>11, <1>12

LEMMA ClosedFit ==
    ASSUME NEW v, \A i \in Objects : v.obj[i].inUse = 0
    PROVE  HandlesFit(v, Closed)
  <1>1. NoHandle \in Handle
    BY DEF NoHandle, Handle, Target
  <1>2. Closed \in [Handles -> Handle] /\ \A h \in Handles : Closed[h] = NoHandle
    BY <1>1 DEF Closed
  <1>3. ASSUME NEW i \in Objects
        PROVE  v.obj[i].inUse = Cardinality(Users(Closed, i))
    <2>1. Users(Closed, i) = {}
      BY <1>2, ConstantsOK DEF Users, NoHandle
    <2> QED
      BY <2>1, UsersFinite
  <1> QED
    BY <1>2, <1>3 DEF HandlesFit

LEMMA MountKeeps ==
    ASSUME NamesInv, Mount
    PROVE  NamesInv'
  <1>1. ~up /\ up' = TRUE /\ fds' = fds /\ upsets' = upsets
    BY DEF Mount
  <1>2. CASE "stray" \in upsets
    BY <1>1, <1>2 DEF NamesInv
  <1>3. CASE "stray" \notin upsets
    <2>1. /\ fds = Closed /\ vol = Blank(vol.hdr, vol.stored) /\ FlashOK(vol.hdr, vol.stored)
          /\ upsets = {} => FlashExact(vol.hdr, vol.stored)
      BY <1>1, <1>3 DEF NamesInv, FlashOK
    <2>2. PICK order \in SetToSeqs({i \in Objects : vol.hdr[i] # NoHeader}) :
              vol' = Settled(Scan(vol, order))
      BY DEF Mount
    <2> DEFINE s == Scan(vol, order)
    <2>3. /\ Quiet(s) /\ \A i \in Objects : s.obj[i].inUse = 0
          /\ upsets = {} => Exact(s, {})
      BY <2>1, ScanAfter
    <2> HIDE DEF s
    <2>4. Quiet(vol') /\ Equal(s, vol')
      BY <2>2, <2>3, SettledFields DEF s
    <2>5. \A i \in Objects : vol'.obj[i].inUse = 0
      BY <2>3, <2>4 DEF Equal
    <2>6. HandlesFit(vol', fds')
      BY <1>1, <2>1, <2>5, ClosedFit
    <2>7. upsets' = {} => Exact(vol', {})
      BY <1>1, <2>3, <2>4, EqualExact
    <2> QED
      BY <1>1, <2>4, <2>6, <2>7 DEF NamesInv, Quiet
  <1> QED
    BY <1>2, <1>3

(* Without a call under way the flash is that of the volume.               *)
LEMMA GoesDown ==
    ASSUME NamesInv, up, up' = FALSE, fds' = Closed, upsets' = upsets,
           vol' = Blank(vol.hdr, vol.stored)
    PROVE  NamesInv'
  <1>1. vol'.hdr = vol.hdr /\ vol'.stored = vol.stored
    BY DEF Blank
  <1>2. ASSUME "stray" \notin upsets
        PROVE  /\ Sound(vol) /\ vol.hdr \in [Objects -> Header] /\ vol.stored \in SUBSET Objects
               /\ \A i \in Objects : HeaderOK(vol.hdr[i])
    <2>1. Sound(vol)
      BY <1>2 DEF NamesInv, Basic
    <2> QED
      BY <2>1 DEF Sound, Volume
  <1>3. ASSUME upsets = {}
        PROVE  FlashExact(vol.hdr, vol.stored)
    BY <1>2, <1>3, ExactFlash DEF NamesInv
  <1> QED
    BY <1>1, <1>2, <1>3 DEF NamesInv

LEMMA InitOK == NamesInit => NamesInv
  <1> SUFFICES ASSUME NamesInit PROVE NamesInv
    OBVIOUS
  <1>1. vol.hdr = [i \in Objects |-> NoHeader] /\ vol.stored = {}
    BY DEF NamesInit, Blank
  <1>2. vol = Blank(vol.hdr, vol.stored) /\ fds = Closed /\ up = FALSE /\ upsets = {}
    BY <1>1 DEF NamesInit
  <1>3. vol.hdr \in [Objects -> Header] /\ \A i \in Objects : HeaderOK(vol.hdr[i])
    BY <1>1, ConstantsOK
  <1>4. FlashExact(vol.hdr, vol.stored)
    BY <1>1 DEF FlashExact
  <1> QED
    BY <1>1, <1>2, <1>3, <1>4 DEF NamesInv

LEMMA StepOK == NamesInv /\ [NamesNext]_nameVars => NamesInv'
  <1> SUFFICES ASSUME NamesInv, [NamesNext]_nameVars PROVE NamesInv'
    OBVIOUS
  <1>1. ASSUME NEW h \in Handles, NEW path \in Paths, NEW flags \in OpenFlags,
               NEW new \in Objects, Open(h, path, flags, new)
        PROVE  NamesInv'
    BY <1>1, OpenKeeps
  <1>2. ASSUME NEW h \in Handles, Close(h)
        PROVE  NamesInv'
    BY <1>2, CloseKeeps
  <1>3. ASSUME NEW h \in Handles, Write(h)
        PROVE  NamesInv'
    BY <1>3, WriteKeeps
  <1>4. ASSUME NEW path \in Paths, NEW isDirectory \in BOOLEAN, Unlink(path, isDirectory)
        PROVE  NamesInv'
    BY <1>4, UnlinkKeeps
  <1>5. ASSUME NEW path \in Paths, NEW new \in Objects, Mkdir(path, new)
        PROVE  NamesInv'
    BY <1>5, MkdirKeeps
  <1>6. ASSUME NEW path \in Paths, NEW i \in Objects, NEW new \in Objects, Link(path, i, new)
        PROVE  NamesInv'
    BY <1>6, LinkKeeps
  <1>7. ASSUME NEW path \in Paths, NEW to \in Paths, Rename(path, to)
        PROVE  NamesInv'
    BY <1>7, RenameKeeps
  <1>8. CASE Unmount
    BY <1>8, GoesDown DEF Unmount
  <1>9. CASE PowerCut
    BY <1>9, GoesDown DEF PowerCut
  <1>10. CASE Mount
    BY <1>10, MountKeeps
  <1>11. CASE UNCHANGED nameVars
    BY <1>11 DEF nameVars, NamesInv, HandlesFit, FlashExact, Exact, Basic, Sound, Apart,
                 Mem, OnFlash, KidsOK, LinksOK, Users
  <1> QED
    BY <1>1, <1>2, <1>3, <1>4, <1>5, <1>6, <1>7, <1>8, <1>9, <1>10, <1>11 DEF NamesNext

-----------------------------------------------------------------------------
(* The theorems.                                                           *)

(* The volume is sound after every call, cut short or not, and after every *)
(* mount; and exact if nothing went wrong.                                 *)
THEOREM NamesInvariant == NamesSpec => []NamesInv
  <1>1. NamesInit => NamesInv
    BY InitOK
  <1>2. NamesInv /\ [NamesNext]_nameVars => NamesInv'
    BY StepOK
  <1> QED
    BY <1>1, <1>2, PTL DEF NamesSpec

(* yaffs_unlink of an open file, yaffs_close and the collector: a file is  *)
(* there until its last handle goes, its inUse counts the handles, and it  *)
(* is deleted when nobody has it open.  For any number of files, handles   *)
(* and calls.                                                              *)
THEOREM FilesStayOpen == NamesSpec => []HandlesAlive
  <1>1. NamesInv => HandlesAlive
    <2> SUFFICES ASSUME NamesInv, up, "stray" \notin upsets, NEW i \in Objects
                 PROVE  LET o == vol.obj[i]
                            opened == {h \in Handles : fds[h].obj = i /\ fds[h].kind = "file"}
                        IN  /\ opened # {} => o.type = "file"
                            /\ o.type = "file" => o.inUse = Cardinality(opened)
                            /\ o.type = "file" /\ o.unlinked => (o.deleted <=> o.inUse = 0)
      BY DEF HandlesAlive
    <2> DEFINE opened == {h \in Handles : fds[h].obj = i /\ fds[h].kind = "file"}
    <2>1. HandlesFit(vol, fds) /\ Ripe(vol.obj[i])
      BY DEF NamesInv
    <2>2. \A h \in Handles : fds[h].obj = i => fds[h].kind = vol.obj[i].type
      <3> SUFFICES ASSUME NEW h \in Handles, fds[h].obj = i
                   PROVE  fds[h].kind = vol.obj[i].type
        OBVIOUS
      <3>1. fds[h] # NoHandle
        BY ConstantsOK DEF NoHandle
      <3> QED
        BY <2>1, <3>1 DEF HandlesFit
    <2>3. opened # {} => vol.obj[i].type = "file"
      BY <2>2
    <2>4. ASSUME vol.obj[i].type = "file"
          PROVE  vol.obj[i].inUse = Cardinality(opened)
      <3>1. opened = Users(fds, i)
        BY <2>2, <2>4 DEF Users
      <3> HIDE DEF opened
      <3> QED
        BY <2>1, <3>1 DEF HandlesFit
    <2>5. vol.obj[i].unlinked => (vol.obj[i].deleted <=> vol.obj[i].inUse = 0)
      BY <2>1 DEF Ripe
    <2> QED
      BY <2>3, <2>4, <2>5
  <1> QED
    BY <1>1, NamesInvariant, PTL

(* yaffs_FindObjectByName after any number of unlinks, renames and mounts: *)
(* every object is on the list of its directory and on no other, and its   *)
(* name leads to it.                                                       *)
THEOREM NamesAreFound == NamesSpec => []NamesFound
  <1>1. NamesInv => NamesFound
    <2> SUFFICES ASSUME NamesInv, up, upsets = {} PROVE NamesFound
      BY DEF NamesFound
    <2>1. Sound(vol) /\ vol \in Volume /\ Exact(vol, {})
      BY DEF NamesInv, Basic, Sound
    <2>2. \A dir \in Directories : DOMAIN vol.kids[dir] = 1 .. Len(vol.kids[dir])
      <3>1. \A dir \in Directories : vol.kids[dir] \in Seq(Objects)
        BY <2>1 DEF Volume
      <3> QED
        BY <3>1
    <2>3. ASSUME NEW i \in Objects, NEW dir \in Directories, vol.obj[i].here
          PROVE  vol.obj[i].dir = dir <=> \E k \in DOMAIN vol.kids[dir] : vol.kids[dir][k] = i
      <3>1. vol.obj[i].dir = dir <=> In(i, vol.kids[dir])
        BY <2>1, <2>3 DEF Sound, KidsOK, Exact, Mem
      <3> QED
        BY <2>2, <3>1 DEF In
    <2>4. ASSUME NEW dir \in Directories \ {"unlinked"}, NEW k \in DOMAIN vol.kids[dir]
          PROVE  FindObjectByName(vol, dir, GetObjectName(vol, vol.kids[dir][k]))
                     = vol.kids[dir][k]
      <3> DEFINE j == vol.kids[dir][k]
                 name == vol.hdr[j].name
                 i == FindObjectByName(vol, dir, name)
      <3>1. j \in Objects /\ In(j, vol.kids[dir])
        <4>1. vol.kids[dir] \in Seq(Objects) /\ k \in 1 .. Len(vol.kids[dir])
          BY <2>1, <2>2 DEF Volume
        <4> QED
          BY <4>1 DEF In
      <3> HIDE DEF j
      <3>2. vol.obj[j].dir = dir
        BY <2>1, <3>1 DEF Sound, KidsOK
      <3>3. ObjectOK(vol.obj[j])
        BY <2>1, <3>1 DEF Sound
      <3>4. vol.obj[j].here
        BY <3>2, <3>3, ConstantsOK DEF ObjectOK, Freed
      <3>5. OnFlash(vol, j) /\ Mem(vol, j)
        BY <2>1, <3>1 DEF Exact
      <3>6. vol.obj[j].sum = name
        BY <3>2, <3>4, <3>5 DEF OnFlash
      <3>7. \/ /\ i = NoObject
               /\ \A x \in Objects : In(x, vol.kids[dir]) =>
                     ~(vol.obj[x].sum = name /\ vol.hdr[x].name = name)
            \/ /\ i \in Objects /\ In(i, vol.kids[dir])
               /\ vol.obj[i].sum = name /\ vol.hdr[i].name = name
        <4> HIDE DEF name
        <4> QED
          BY <2>1, NameLookup
      <3>8. i \in Objects /\ In(i, vol.kids[dir]) /\ vol.obj[i].sum = name
        BY <3>1, <3>6, <3>7
      <3> HIDE DEF i
      <3>9. vol.obj[i].dir = dir /\ ObjectOK(vol.obj[i])
        BY <2>1, <3>8 DEF Sound, KidsOK
      <3>10. vol.obj[i].here
        BY <3>9, ConstantsOK DEF ObjectOK, Freed
      <3>11. Apart(vol, i, j)
        BY <2>1, <3>1, <3>8 DEF Exact
      <3>12. i = j
        BY <3>2, <3>4, <3>6, <3>8, <3>9, <3>10, <3>11 DEF Apart
      <3> QED
        BY <3>12 DEF i, j, GetObjectName
    <2> QED
      BY <2>3, <2>4 DEF NamesFound
  <1> QED
    BY <1>1, NamesInvariant, PTL

(* yaffs_UpdateObjectHeader and yaffs_Scan: whatever the calls and mounts, *)
(* the flash has the headers of the objects in memory, and no others.      *)
THEOREM FlashAgreesAlways == NamesSpec => []FlashAgrees
  <1>1. NamesInv => FlashAgrees
    <2> SUFFICES ASSUME NamesInv, up, upsets = {}, NEW i \in Objects
                 PROVE  /\ vol.obj[i].here <=> vol.hdr[i] # NoHeader
                        /\ vol.obj[i].here => /\ vol.hdr[i].type = vol.obj[i].type
                                              /\ vol.hdr[i].dir = vol.obj[i].dir
                                              /\ vol.hdr[i].equiv = vol.obj[i].equiv
                        /\ vol.obj[i].data <=> i \in vol.stored
      BY DEF FlashAgrees
    <2>1. Mem(vol, i) /\ OnFlash(vol, i)
      BY DEF NamesInv, Exact
    <2> QED
      BY <2>1 DEF Mem, OnFlash
  <1> QED
    BY <1>1, NamesInvariant, PTL

(* yaffs_UnlinkWorker hands a file on to one of its links, and             *)
(* yaffs_HardlinkFixup finds it again: no hard link leads to a file that   *)
(* has gone or is unlinked, and the file has the link on its list.         *)
THEOREM LinksAreKept == NamesSpec => []LinksKept
  <1>1. NamesInv => LinksKept
    <2> SUFFICES ASSUME NamesInv, up, upsets = {},
                        NEW i \in Objects, vol.obj[i].type = "link"
                 PROVE  LET to == vol.obj[i].to
                        IN  /\ to # NoObject /\ to = vol.obj[i].equiv
                            /\ vol.obj[to].type = "file" /\ ~vol.obj[to].unlinked
                            /\ \E k \in DOMAIN vol.links[to] : vol.links[to][k] = i
      BY DEF LinksKept
    <2> DEFINE to == vol.obj[i].to
    <2>1. Sound(vol) /\ vol \in Volume /\ Mem(vol, i) /\ ObjectOK(vol.obj[i])
      BY DEF NamesInv, Basic, Sound, Exact
    <2>2. vol.obj[i].here
      BY <2>1 DEF ObjectOK, Freed
    <2>3. /\ to = vol.obj[i].equiv /\ vol.obj[to].type = "file" /\ ~vol.obj[to].unlinked
          /\ In(i, vol.links[to])
      BY <2>1, <2>2 DEF Mem
    <2>4. to \in Objects
      BY <2>1, <2>2, <2>3 DEF ObjectOK
    <2> HIDE DEF to
    <2>5. vol.links[to] \in Seq(Objects)
      BY <2>1, <2>4 DEF Volume
    <2>6. DOMAIN vol.links[to] = 1 .. Len(vol.links[to])
      BY <2>5
    <2>7. \E k \in DOMAIN vol.links[to] : vol.links[to][k] = i
      BY <2>3, <2>6 DEF In
    <2> QED
      BY <2>3, <2>4, <2>7, ConstantsOK DEF to
  <1> QED
    BY <1>1, NamesInvariant, PTL
=============================================================================
