--------------------------- MODULE ParamPathProof ---------------------------
(***************************************************************************)
(* Proofs about ParamPath, for any number of parameters, any buffers and   *)
(* any sizes: every variable keeps its type, no kernel buffer is freed     *)
(* twice, what a call leaves allocated are at most copies of inputs;       *)
(* outputs arrive in order and whole, and inputs are not touched.          *)
(*                                                                         *)
(* For the buffers the argument is Blocks: while the call is under way, an *)
(* outward reference's copy is live exactly as long as the pointer to it   *)
(* is not NULL, and the second loop has let go of those it is past.        *)
(* Nothing else is live but tz_cmd_data and copies of inputs.              *)
(*                                                                         *)
(* For what is in them it is Delivery: until the service has run, the      *)
(* user's memory and the kernel's copies of it say the same; from then on  *)
(* the copies of the outputs still to be returned hold what the client is  *)
(* to find, and the user's memory at these outputs is as it was.  That the *)
(* pointers to the copies are good is the invariant of the first part.     *)
(***************************************************************************)
EXTENDS ParamPath, SequenceTheorems, TLAPS

Outgoing(i) == tz[i].kind = "memref" /\ tz[i].dir \in Outward
References == {i \in Slots : tz[i].kind = "memref"}

Converted == \A i \in Slots : tz[i].dir # "whole"

(* The first loop: the slots it is past have their copies.                 *)
Filling ==
    pc = "copyin" =>
        /\ ktypes = NoTypes
        /\ Cmd \in live /\ live \subseteq References \cup {Cmd}
        /\ \A i \in live : i < slot \/ i = Cmd
        /\ \A i \in References : i < slot => i \in live /\ kparam[i] # Null

(* From param_type on, until the call ends.                                *)
Submitted ==
    pc \in {"call", "copyout", "cleanup"} =>
        /\ ktypes = tz
        /\ Cmd \in live /\ live \subseteq References \cup {Cmd}
        /\ \A i \in Slots : Outgoing(i) => (i \in live <=> kparam[i] # Null)

Passed ==
    /\ pc = "call" => slot = 0
    /\ pc \in {"call", "copyout"} =>
        \A i \in Slots : Outgoing(i) => (i \in live <=> i >= slot)

Elsewhere ==
    /\ pc = "idle" => live = {} /\ ktypes = NoTypes /\ slot = 0
    /\ pc = "open" => live = {0, Cmd}
    /\ pc \in {"opensize", "close"} => live = {Cmd}

Blocks == Converted /\ Filling /\ Submitted /\ Passed /\ Elsewhere
Inv == TypeOK /\ FreedOnce /\ Blocks /\ OutputsReclaimed

-----------------------------------------------------------------------------
(* A memory reference has its buffer and a size of at least one.           *)
LEMMA ReferenceType ==
    ASSUME NEW p \in ClientParams, p.kind = "memref"
    PROVE  /\ p.buf \in Bufs /\ p.size \in 1..Longest
           /\ p.dir \in {"whole", "in", "out", "inout"}
  BY DEF ClientParams, NoParam

(* Conversion keeps a parameter a parameter, and leaves none WHOLE.        *)
LEMMA ConvertType ==
    ASSUME NEW o \in Params
    PROVE  /\ OperationConvert(o) \in Params
           /\ \A i \in Slots : OperationConvert(o)[i].dir # "whole"
  <1>1. ASSUME NEW i \in Slots
        PROVE  /\ OperationConvert(o)[i] \in ClientParams
               /\ OperationConvert(o)[i].dir # "whole"
    <2>1. o[i] \in ClientParams
      BY DEF Params
    <2>2. CASE o[i].dir = "whole"
      <3>1. o[i] \in [kind : {"memref"},
                      dir : {"whole", "in", "out", "inout"},
                      buf : Bufs, size : 1..Longest]
        BY <2>1, <2>2 DEF ClientParams, NoParam
      <3>2. OperationConvert(o)[i] = [o[i] EXCEPT !.dir = "inout"]
        BY <2>2 DEF OperationConvert
      <3>3. [o[i] EXCEPT !.dir = "inout"] \in
                [kind : {"memref"}, dir : {"whole", "in", "out", "inout"},
                 buf : Bufs, size : 1..Longest]
        BY <3>1
      <3>4. [o[i] EXCEPT !.dir = "inout"].dir = "inout"
        BY <3>1
      <3> QED
        BY <3>2, <3>3, <3>4 DEF ClientParams
    <2>3. CASE o[i].dir # "whole"
      BY <2>1, <2>3 DEF OperationConvert
    <2> QED
      BY <2>2, <2>3
  <1> QED
    BY <1>1 DEF OperationConvert, Params

LEMMA NoTypesType == NoTypes \in Params
  BY DEF NoTypes, Params, ClientParams

(* The cells of a value, or of the user's buffers, as a sequence.          *)
LEMMA CellsSeq ==
    ASSUME NEW n \in Nat, NEW s \in [1..n -> Cells]
    PROVE  s \in Seq(Cells) /\ Len(s) = n
  OBVIOUS

LEMMA NullSeq ==
    /\ Null \in Seq(Cells)
    /\ \A s \in Seq(Cells) : s = Null <=> Len(s) = 0
  BY DEF Null

LEMMA LettersType ==
    ASSUME NEW n \in Nat
    PROVE  Letters(n) \in [1..n -> Cells]
  BY DEF Letters, Cells

(* Mapping over the indices of a copy keeps it null or not null.           *)
LEMMA MapSeq ==
    ASSUME NEW s \in Seq(Cells), NEW t,
           t = [k \in DOMAIN s |-> t[k]], \A k \in DOMAIN s : t[k] \in Cells
    PROVE  t \in Seq(Cells) /\ (t = Null <=> s = Null)
  <1>1. DOMAIN s = 1..Len(s) /\ Len(s) \in Nat
    OBVIOUS
  <1>2. t \in [1..Len(s) -> Cells]
    BY <1>1
  <1>3. t \in Seq(Cells) /\ Len(t) = Len(s)
    BY <1>1, <1>2
  <1>4. t = <<>> <=> Len(t) = 0
    BY <1>3
  <1>5. s = <<>> <=> Len(s) = 0
    OBVIOUS
  <1> QED
    BY <1>3, <1>4, <1>5 DEF Null

LEMMA CasedType ==
    ASSUME NEW c, NEW s \in Seq(Cells)
    PROVE  Cased(c, s) \in Seq(Cells) /\ (Cased(c, s) = Null <=> s = Null)
  <1>1. /\ Cased(c, s) = [k \in DOMAIN s |-> Cased(c, s)[k]]
        /\ \A k \in DOMAIN s : Cased(c, s)[k] \in Cells
    BY DEF Cased, Cells
  <1> QED
    BY <1>1, MapSeq

LEMMA AnsweredType ==
    ASSUME NEW p \in ClientParams, NEW s \in Seq(Cells)
    PROVE  /\ Answered(p, s) \in Seq(Cells)
           /\ p.kind = "memref" => (Answered(p, s) = Null <=> s = Null)
  <1>1. CASE p.kind = "value"
    BY <1>1 DEF Answered, Cells
  <1>2. CASE p.kind # "value" /\ OutLen <= Len(s)
    <2> DEFINE t == [k \in DOMAIN s |-> IF k <= OutLen THEN "R" ELSE s[k]]
    <2>1. Answered(p, s) = t
      BY <1>2 DEF Answered
    <2>2. /\ t = [k \in DOMAIN s |-> t[k]]
          /\ \A k \in DOMAIN s : t[k] \in Cells
      BY DEF Cells
    <2> HIDE DEF t
    <2>3. t \in Seq(Cells) /\ (t = Null <=> s = Null)
      BY <2>2, MapSeq
    <2> QED
      BY <2>1, <2>3
  <1>3. CASE p.kind # "value" /\ ~(OutLen <= Len(s))
    BY <1>3 DEF Answered
  <1> QED
    BY <1>1, <1>2, <1>3

(* The service leaves the copies copies, and references' null or not.      *)
LEMMA EffectType ==
    ASSUME NEW c, NEW p \in Params, NEW f \in [Slots -> Seq(Cells)]
    PROVE  /\ Effect(c, p, f) \in [Slots -> Seq(Cells)]
           /\ \A i \in Slots : p[i].kind = "memref" =>
                 (Effect(c, p, f)[i] = Null <=> f[i] = Null)
  <1>1. CASE c = "robust"
    <2>1. ASSUME NEW i \in Slots
          PROVE  /\ Answered(p[i], f[i]) \in Seq(Cells)
                 /\ p[i].kind = "memref" =>
                       (Answered(p[i], f[i]) = Null <=> f[i] = Null)
      BY AnsweredType DEF Params
    <2> QED
      BY <1>1, <2>1 DEF Effect
  <1>2. CASE c # "robust"
    <2>1. 0 \in Slots
      BY ParamAssumption DEF Slots
    <2>2. Cased(c, f[0]) \in Seq(Cells) /\ (Cased(c, f[0]) = Null <=> f[0] = Null)
      BY <2>1, CasedType
    <2> QED
      BY <1>2, <2>1, <2>2 DEF Effect
  <1> QED
    BY <1>1, <1>2

(* What the first loop copies of a reference is not null.                  *)
LEMMA CopiedType ==
    ASSUME NEW p \in ClientParams, p.kind = "memref",
           NEW m \in [Bufs -> [1..Longest -> Cells]]
    PROVE  /\ SubSeq(m[p.buf], 1, p.size) \in Seq(Cells)
           /\ SubSeq(m[p.buf], 1, p.size) # Null
  <1>1. p.buf \in Bufs /\ p.size \in 1..Longest
    BY ReferenceType
  <1>2. Longest \in Nat
    BY ParamAssumption
  <1>3. m[p.buf] \in Seq(Cells) /\ Len(m[p.buf]) = Longest
    BY <1>1, <1>2, CellsSeq
  <1>4. /\ SubSeq(m[p.buf], 1, p.size) \in Seq(Cells)
        /\ Len(SubSeq(m[p.buf], 1, p.size)) = p.size
    BY <1>1, <1>2, <1>3
  <1>5. p.size # 0
    BY <1>1
  <1> QED
    BY <1>4, <1>5, NullSeq

(* Cells written over others.                                              *)
LEMMA OverType ==
    ASSUME NEW s \in Seq(Cells), NEW n \in 0..Len(s), NEW d \in Nat,
           NEW old \in [1..d -> Cells]
    PROVE  Over(s, n, old) \in [1..d -> Cells]
  BY DEF Over

-----------------------------------------------------------------------------
LEMMA TypeInit == Init => TypeOK
  <1> SUFFICES ASSUME Init PROVE TypeOK
    OBVIOUS
  <1>1. mem \in [Bufs -> [1..Longest -> Cells]]
    BY ParamAssumption, LettersType DEF Init, Idle, FreshMem
  <1>2. val \in [Slots -> [1..2 -> Cells]]
    BY LettersType DEF Init, Idle, FreshVal
  <1>3. kparam \in [Slots -> Seq(Cells)]
    BY NullSeq DEF Init, Idle
  <1>4. /\ pc = "idle" /\ slot = 0 /\ served = FALSE /\ live = {}
        /\ refreed = FALSE /\ tz = NoTypes /\ ktypes = NoTypes
    BY DEF Init, Idle
  <1>5. command \in Commands /\ op \in Params /\ given \in BOOLEAN
    BY DEF Init, Idle, Params
  <1>6. slot \in 0..(Last + 1)
    BY <1>4, ParamAssumption
  <1> QED
    BY <1>1, <1>2, <1>3, <1>4, <1>5, <1>6, NoTypesType DEF TypeOK

LEMMA WriteBackType ==
    ASSUME TypeOK, NEW i \in Slots, tz[i].kind # "none",
           NEW n \in 0..Len(kparam[i]), WriteBack(i, n)
    PROVE  /\ mem' \in [Bufs -> [1..Longest -> Cells]]
           /\ val' \in [Slots -> [1..2 -> Cells]]
  <1>1. kparam[i] \in Seq(Cells)
    BY DEF TypeOK
  <1>2. CASE tz[i].kind = "value"
    <2>1. Over(kparam[i], n, val[i]) \in [1..2 -> Cells]
      BY <1>1, OverType DEF TypeOK
    <2> QED
      BY <1>2, <2>1 DEF TypeOK, WriteBack
  <1>3. CASE tz[i].kind # "value"
    <2>1. tz[i] \in ClientParams
      BY DEF TypeOK, Params
    <2>2. tz[i].buf \in Bufs
      BY <1>3, <2>1 DEF ClientParams, NoParam
    <2>3. Over(kparam[i], n, mem[tz[i].buf]) \in [1..Longest -> Cells]
      BY <1>1, <2>2, OverType, ParamAssumption DEF TypeOK
    <2> QED
      BY <1>3, <2>2, <2>3 DEF TypeOK, WriteBack
  <1> QED
    BY <1>2, <1>3

LEMMA SlotBound ==
    ASSUME TypeOK, slot <= Last
    PROVE  slot \in Slots /\ slot + 1 \in 0..(Last + 1)
  BY ParamAssumption DEF TypeOK, Slots

LEMMA TypeStep == TypeOK /\ [Next]_vars => TypeOK'
  <1> SUFFICES ASSUME TypeOK, [Next]_vars PROVE TypeOK'
    OBVIOUS
  <1> USE DEF callVars, userVars, kernelVars
  <1>1. CASE Invoke
    BY <1>1, ConvertType DEF TypeOK, Invoke
  <1>2. CASE HeaderFault
    BY <1>2 DEF TypeOK, HeaderFault, Kfree
  <1>3. CASE CopyIn
    <2>1. slot \in Slots /\ slot + 1 \in 0..(Last + 1)
      BY <1>3, SlotBound DEF CopyIn
    <2>2. tz[slot] \in ClientParams
      BY <2>1 DEF TypeOK, Params
    <2>3. kparam' \in [Slots -> Seq(Cells)]
      <3>1. val[slot] \in Seq(Cells)
        BY <2>1, CellsSeq DEF TypeOK
      <3>2. tz[slot].kind = "memref" =>
                SubSeq(mem[tz[slot].buf], 1, tz[slot].size) \in Seq(Cells)
        BY <2>2, CopiedType DEF TypeOK
      <3> QED
        BY <1>3, <2>1, <3>1, <3>2 DEF TypeOK, CopyIn
    <2> QED
      BY <1>3, <2>1, <2>3 DEF TypeOK, CopyIn
  <1>4. CASE CopyInFault
    <2>1. slot \in Slots
      BY <1>4, SlotBound DEF CopyInFault
    <2> QED
      BY <1>4, <2>1 DEF TypeOK, CopyInFault
  <1>5. CASE Submit
    BY <1>5, ParamAssumption DEF TypeOK, Submit
  <1>6. CASE GiveUp
    BY <1>6 DEF TypeOK, GiveUp, Kfree
  <1>7. CASE Serve
    <2>1. Effect(command, ktypes, kparam) \in [Slots -> Seq(Cells)]
      BY EffectType DEF TypeOK
    <2> QED
      BY <1>7, <2>1 DEF TypeOK, Serve
  <1>8. CASE Refuse
    BY <1>8 DEF TypeOK, Refuse
  <1>9. CASE OriginFault
    BY <1>9 DEF TypeOK, OriginFault
  <1>10. CASE CopyOut
    <2>1. slot \in Slots /\ slot + 1 \in 0..(Last + 1)
      BY <1>10, SlotBound DEF CopyOut
    <2>2. /\ mem' \in [Bufs -> [1..Longest -> Cells]]
          /\ val' \in [Slots -> [1..2 -> Cells]]
      <3>1. CASE Returned(tz[slot])
        <4>1. Len(kparam[slot]) \in 0..Len(kparam[slot])
          BY <2>1 DEF TypeOK
        <4> QED
          BY <1>10, <2>1, <3>1, <4>1, WriteBackType DEF CopyOut, Returned
      <3>2. CASE ~Returned(tz[slot])
        BY <1>10, <3>2 DEF CopyOut, TypeOK
      <3> QED
        BY <3>1, <3>2
    <2>3. kparam' \in [Slots -> Seq(Cells)]
      BY <1>10, <2>1, NullSeq DEF TypeOK, CopyOut, Forget
    <2>4. live' \subseteq Slots \cup {Cmd} /\ refreed' \in BOOLEAN
      BY <1>10 DEF TypeOK, CopyOut, Kfree
    <2> QED
      BY <1>10, <2>1, <2>2, <2>3, <2>4 DEF TypeOK, CopyOut
  <1>11. CASE CopyOutFault
    <2>1. slot \in Slots
      BY <1>11, SlotBound DEF CopyOutFault
    <2>2. PICK n \in 0..(Len(kparam[slot]) - 1) : WriteBack(slot, n)
      BY <1>11 DEF CopyOutFault
    <2>3. n \in 0..Len(kparam[slot])
      BY <2>1 DEF TypeOK
    <2>4. /\ mem' \in [Bufs -> [1..Longest -> Cells]]
          /\ val' \in [Slots -> [1..2 -> Cells]]
      BY <1>11, <2>1, <2>2, <2>3, WriteBackType DEF CopyOutFault, Returned
    <2> QED
      BY <1>11, <2>4 DEF TypeOK, CopyOutFault
  <1>12. CASE Finish
    BY <1>12 DEF TypeOK, Finish, Kfree
  <1>13. CASE Again
    <2>1. mem' \in [Bufs -> [1..Longest -> Cells]]
      BY <1>13, ParamAssumption, LettersType DEF Again, FreshMem
    <2>2. val' \in [Slots -> [1..2 -> Cells]]
      BY <1>13, LettersType DEF Again, FreshVal
    <2>3. kparam' \in [Slots -> Seq(Cells)]
      BY <1>13, NullSeq DEF Again
    <2>4. slot' \in 0..(Last + 1)
      BY <1>13, ParamAssumption DEF Again
    <2>5. tz' \in Params /\ ktypes' \in Params
      BY <1>13, NoTypesType DEF Again
    <2>6. UNCHANGED <<command, op, given, refreed>>
      BY <1>13 DEF Again
    <2>7. pc' = "idle" /\ served' = FALSE /\ live' = {}
      BY <1>13 DEF Again
    <2> HIDE DEF callVars, userVars, kernelVars
    <2> QED
      BY <2>1, <2>2, <2>3, <2>4, <2>5, <2>6, <2>7 DEF TypeOK
  <1>14. CASE OpenSession \/ CloseSession
    BY <1>14, ParamAssumption DEF TypeOK, OpenSession, CloseSession, Begin, Slots
  <1>15. CASE OpenFinish1 \/ OpenFinish2 \/ CloseFinish
    BY <1>15 DEF TypeOK, OpenFinish1, OpenFinish2, CloseFinish, End, Kfree
  <1>16. CASE UNCHANGED vars
    BY <1>16 DEF TypeOK, vars
  <1> QED
    BY <1>1, <1>2, <1>3, <1>4, <1>5, <1>6, <1>7, <1>8, <1>9, <1>10, <1>11,
       <1>12, <1>13, <1>14, <1>15, <1>16 DEF Next

(* Every variable of the parameters' path keeps its type, whatever faults. *)
THEOREM ParamTypeCorrect == Spec => []TypeOK
  <1> QED
    BY TypeInit, TypeStep, PTL DEF Spec

-----------------------------------------------------------------------------
LEMMA BlocksInit == Init => FreedOnce /\ Blocks /\ OutputsReclaimed
  BY DEF Init, Idle, FreedOnce, Blocks, Converted, Filling, Submitted, Passed,
         Elsewhere, OutputsReclaimed, Ended, NoTypes, NoParam

LEMMA CmdFact == Cmd \notin Slots /\ 0 \in Slots /\ Slots \subseteq Int
  BY ParamAssumption DEF Cmd, Slots

(* An invocation up to its first copy.                                     *)
LEMMA StartStep ==
    ASSUME Inv, Invoke
    PROVE  FreedOnce' /\ Blocks' /\ OutputsReclaimed'
  <1>1. Converted'
    BY ConvertType DEF Inv, TypeOK, Invoke, Converted
  <1>2. slot' = 0 /\ live' = {Cmd} /\ ktypes' = NoTypes /\ pc' = "copyin"
    BY DEF Inv, Blocks, Elsewhere, Invoke
  <1>3. Filling'
    BY <1>2 DEF Filling, References, Slots
  <1> QED
    BY <1>1, <1>2, <1>3
       DEF Inv, Invoke, FreedOnce, Blocks, Submitted, Passed, Elsewhere,
           OutputsReclaimed, Ended

(* The steps of the first loop.                                            *)
LEMMA FillStep ==
    ASSUME Inv, HeaderFault \/ CopyIn \/ CopyInFault \/ Submit
    PROVE  FreedOnce' /\ Blocks' /\ OutputsReclaimed'
  <1> USE DEF callVars, userVars, kernelVars
  <1>0. /\ Converted /\ ~refreed /\ ktypes = NoTypes
        /\ Cmd \in live /\ live \subseteq References \cup {Cmd}
        /\ \A i \in live : i < slot \/ i = Cmd
        /\ \A i \in References : i < slot => i \in live /\ kparam[i] # Null
    BY DEF Inv, Blocks, Filling, FreedOnce, HeaderFault, CopyIn, CopyInFault,
           Submit
  <1>1. Held = {}
    BY <1>0 DEF Held, NoTypes, NoParam
  <1>2. ASSUME NEW b \in References PROVE ktypes[b] # tz[b] /\ ktypes # tz
    BY <1>0, <1>2 DEF References, NoTypes, NoParam
  <1>3. CASE HeaderFault
    <2>1. \A i \in References : ~(i < 0)
      BY ParamAssumption DEF References, Slots
    <2>2. live = {Cmd}
      BY <1>0, <1>3, <2>1 DEF HeaderFault
    <2>3. live' = {} /\ ~refreed' /\ pc' = "failed"
      BY <1>0, <1>3, <2>2 DEF HeaderFault, Kfree
    <2> QED
      BY <1>0, <1>3, <2>3
         DEF HeaderFault, FreedOnce, Blocks, Converted, Filling, Submitted,
             Passed, Elsewhere, OutputsReclaimed, Ended
  <1>4. CASE CopyIn
    <2>1. slot \in Slots /\ slot \in Int /\ slot # Cmd
      BY <1>4, SlotBound, CmdFact DEF CopyIn, Inv
    <2>2. tz[slot] \in ClientParams
      BY <2>1 DEF Inv, TypeOK, Params
    <2>3. slot \in References => kparam'[slot] # Null
      <3> SUFFICES ASSUME slot \in References PROVE kparam'[slot] # Null
        OBVIOUS
      <3>1. tz[slot].kind = "memref"
        BY DEF References
      <3>2. kparam'[slot] = SubSeq(mem[tz[slot].buf], 1, tz[slot].size)
        BY <1>4, <2>1, <3>1 DEF CopyIn, Inv, TypeOK
      <3> QED
        BY <2>2, <3>1, <3>2, CopiedType DEF Inv, TypeOK
    <2>4. ASSUME NEW i \in Slots, i # slot PROVE kparam'[i] = kparam[i]
      BY <1>4, <2>4 DEF CopyIn, Inv, TypeOK
    <2>5. live' = IF slot \in References THEN live \cup {slot} ELSE live
      BY <1>4, <2>1 DEF CopyIn, References
    <2>6. pc' = "copyin" /\ slot' = slot + 1 /\ UNCHANGED <<tz, ktypes, refreed>>
      BY <1>4 DEF CopyIn
    <2>7. References' = References
      BY <2>6 DEF References
    <2>8. Filling'
      <3>1. ASSUME NEW i \in live', i # Cmd PROVE i < slot'
        <4>1. i \in live \/ i = slot
          BY <2>5, <3>1
        <4>2. i \in Int /\ (i < slot \/ i = slot)
          BY <1>0, <2>1, <3>1, <4>1, CmdFact DEF References
        <4> QED
          BY <2>1, <2>6, <4>2
      <3>2. \A i \in References : i < slot' => i \in live' /\ kparam'[i] # Null
        BY <1>0, <2>1, <2>3, <2>4, <2>5, <2>6, CmdFact DEF References
      <3> QED
        BY <1>0, <2>5, <2>6, <2>7, <3>1, <3>2 DEF Filling
    <2> QED
      BY <1>0, <2>6, <2>8
         DEF FreedOnce, Blocks, Converted, Submitted, Passed, Elsewhere,
             OutputsReclaimed, Ended
  <1>5. CASE CopyInFault
    <2>1. slot \in Slots
      BY <1>5, SlotBound DEF CopyInFault, Inv
    <2>2. PICK blocks \in {live} \cup
                 (IF tz[slot].kind = "memref" THEN {live \cup {slot}} ELSE {}) :
             /\ live' = blocks \ (Held \cup {Cmd})
             /\ refreed' = (refreed \/ ~((Held \cup {Cmd}) \subseteq blocks))
      BY <1>5 DEF CopyInFault
    <2>3. blocks \subseteq References \cup {Cmd} /\ Cmd \in blocks
      BY <1>0, <2>1, <2>2 DEF References
    <2>4. live' \subseteq References /\ ~refreed'
      BY <1>0, <1>1, <2>2, <2>3
    <2>5. pc' = "failed" /\ UNCHANGED <<tz, ktypes>>
      BY <1>5 DEF CopyInFault
    <2>6. OutputsReclaimed'
      BY <1>2, <2>4, <2>5 DEF OutputsReclaimed, References
    <2> QED
      BY <1>0, <2>4, <2>5, <2>6
         DEF FreedOnce, Blocks, Converted, Filling, Submitted, Passed, Elsewhere
  <1>6. CASE Submit
    <2>1. /\ ktypes' = tz /\ slot' = 0 /\ pc' \in {"call", "cleanup"}
          /\ UNCHANGED <<tz, kparam, live, refreed>>
      BY <1>6 DEF Submit
    <2>2. \A i \in Slots : i < slot /\ i >= 0
      BY <1>6, ParamAssumption DEF Submit, Slots, Inv, TypeOK
    <2>3. \A i \in Slots : Outgoing(i) => i \in live /\ kparam[i] # Null
      BY <1>0, <2>2 DEF Outgoing, References
    <2>4. Submitted'
      BY <1>0, <2>1, <2>3 DEF Submitted, Outgoing, References
    <2>5. Passed'
      BY <2>1, <2>2, <2>3 DEF Passed, Outgoing
    <2> QED
      BY <1>0, <2>1, <2>4, <2>5
         DEF FreedOnce, Blocks, Converted, Filling, Elsewhere,
             OutputsReclaimed, Ended
  <1> QED
    BY <1>3, <1>4, <1>5, <1>6

(* The steps from the call on.                                             *)
LEMMA AfterStep ==
    ASSUME Inv, \/ Serve \/ Refuse \/ OriginFault \/ CopyOut \/ CopyOutFault
                \/ GiveUp \/ Finish
    PROVE  FreedOnce' /\ Blocks' /\ OutputsReclaimed'
  <1> USE DEF callVars, userVars, kernelVars
  <1>0. /\ Converted /\ ~refreed /\ ktypes = tz
        /\ Cmd \in live /\ live \subseteq References \cup {Cmd}
        /\ \A i \in Slots : Outgoing(i) => (i \in live <=> kparam[i] # Null)
    BY DEF Inv, Blocks, Submitted, FreedOnce, Serve, Refuse, OriginFault,
           CopyOut, CopyOutFault, GiveUp, Finish
  <1>1. UNCHANGED <<tz, ktypes>> /\ References' = References
    BY DEF Serve, Refuse, OriginFault, CopyOut, CopyOutFault, GiveUp, Finish,
           References
  <1>2. ASSUME NEW i \in References, ~Outgoing(i) PROVE tz[i].dir = "in"
    <2>1. i \in Slots /\ tz[i].kind = "memref" /\ tz[i].dir # "whole"
      BY <1>0, <1>2 DEF References, Converted
    <2>2. tz[i] \in ClientParams
      BY <2>1 DEF Inv, TypeOK, Params
    <2> QED
      BY <1>2, <2>1, <2>2, ReferenceType DEF Outgoing, Outward
  <1>3. CASE Serve
    <2>1. \A i \in References : kparam'[i] = Null <=> kparam[i] = Null
      <3>1. /\ ktypes \in Params
            /\ kparam \in [Slots -> Seq(Cells)]
        BY DEF Inv, TypeOK
      <3>2. \A i \in References : Effect(command, ktypes, kparam)[i] = Null
                                       <=> kparam[i] = Null
        <4>1. \A i \in Slots : ktypes[i].kind = "memref" =>
                 (Effect(command, ktypes, kparam)[i] = Null <=> kparam[i] = Null)
          BY <3>1, EffectType
        <4> QED
          BY <1>0, <4>1 DEF References
      <3>3. kparam' = Effect(command, ktypes, kparam) \/ kparam' = kparam
        BY <1>3 DEF Serve
      <3> QED
        BY <3>2, <3>3
    <2>2. pc = "call" /\ pc' = "copyout" /\ UNCHANGED <<slot, live, refreed>>
      BY <1>3 DEF Serve
    <2>3. Submitted'
      BY <1>0, <1>1, <2>1, <2>2 DEF Submitted, Outgoing, References
    <2>4. Passed'
      BY <1>1, <2>2 DEF Passed, Outgoing, Inv, Blocks
    <2> QED
      BY <1>0, <1>1, <2>2, <2>3, <2>4
         DEF FreedOnce, Blocks, Converted, Filling, Elsewhere,
             OutputsReclaimed, Ended
  <1>4. CASE Refuse \/ OriginFault \/ CopyOutFault
    <2>1. pc' = "cleanup" /\ UNCHANGED <<slot, kparam, live, refreed>>
      BY <1>4 DEF Refuse, OriginFault, CopyOutFault
    <2>2. Submitted'
      BY <1>0, <1>1, <2>1 DEF Submitted, Outgoing, References
    <2> QED
      BY <1>0, <1>1, <2>1, <2>2
         DEF FreedOnce, Blocks, Converted, Filling, Passed, Elsewhere,
             OutputsReclaimed, Ended
  <1>5. CASE CopyOut
    <2>1. slot \in Slots /\ slot \in Int /\ slot # Cmd
      BY <1>5, SlotBound, CmdFact DEF CopyOut, Inv
    <2>2. \A i \in Slots : Outgoing(i) => (i \in live <=> i >= slot)
      BY <1>5 DEF CopyOut, Inv, Blocks, Passed
    <2>3. CASE Outgoing(slot)
      <3>1. Returned(tz[slot]) /\ tz[slot].kind = "memref"
        BY <2>3 DEF Outgoing, Returned
      <3>2. live' = live \ {slot} /\ refreed' = (refreed \/ slot \notin live)
        BY <1>5, <3>1 DEF CopyOut, Kfree
      <3>3. kparam' = [kparam EXCEPT ![slot] = Null]
        BY <1>5, <3>1 DEF CopyOut, Forget
      <3>4. slot \in live
        BY <2>1, <2>2, <2>3
      <3>5. kparam'[slot] = Null /\ \A i \in Slots \ {slot} : kparam'[i] = kparam[i]
        BY <2>1, <3>3 DEF Inv, TypeOK
      <3>6. pc' = "copyout" /\ slot' = slot + 1
        BY <1>5 DEF CopyOut, Inv
      <3>7. Submitted'
        BY <1>0, <1>1, <2>1, <3>2, <3>5, <3>6 DEF Submitted, Outgoing, References
      <3>8. Passed'
        BY <1>1, <2>1, <2>2, <3>2, <3>6, CmdFact DEF Passed, Outgoing
      <3> QED
        BY <1>0, <1>1, <3>2, <3>4, <3>6, <3>7, <3>8
           DEF FreedOnce, Blocks, Converted, Filling, Elsewhere,
               OutputsReclaimed, Ended
    <2>4. CASE ~Outgoing(slot)
      <3>1. Returned(tz[slot]) => tz[slot].kind # "memref"
        BY <2>4 DEF Outgoing, Returned
      <3>2. UNCHANGED <<kparam, live, refreed>>
        BY <1>5, <3>1 DEF CopyOut
      <3>3. pc' = "copyout" /\ slot' = slot + 1
        BY <1>5 DEF CopyOut
      <3>4. Submitted'
        BY <1>0, <1>1, <3>2, <3>3 DEF Submitted, Outgoing, References
      <3>5. Passed'
        <4>1. ASSUME NEW i \in Slots, Outgoing(i)
              PROVE  i \in live <=> i >= slot + 1
          <5>1. i # slot /\ i \in Int
            BY <2>4, <4>1, CmdFact
          <5> QED
            BY <2>1, <2>2, <4>1, <5>1
        <4> QED
          BY <1>1, <3>2, <3>3, <4>1 DEF Passed, Outgoing
      <3> QED
        BY <1>0, <1>1, <3>2, <3>3, <3>4, <3>5
           DEF FreedOnce, Blocks, Converted, Filling, Elsewhere,
               OutputsReclaimed, Ended
    <2> QED
      BY <2>3, <2>4
  <1>6. CASE GiveUp
    <2>1. /\ live' = live \ (Held \cup {Cmd})
          /\ refreed' = (refreed \/ ~((Held \cup {Cmd}) \subseteq live))
          /\ pc' = "failed"
      BY <1>6 DEF GiveUp, Kfree
    <2>2. Held = {i \in Slots : Outgoing(i) /\ kparam[i] # Null}
      BY <1>0 DEF Held, Outgoing
    <2>3. Held \cup {Cmd} \subseteq live
      BY <1>0, <2>2
    <2>4. live' \subseteq References /\ \A i \in live' : ~Outgoing(i)
      BY <1>0, <2>1, <2>2, CmdFact DEF References
    <2>5. OutputsReclaimed'
      BY <1>1, <1>2, <2>4 DEF OutputsReclaimed, References
    <2> QED
      BY <1>0, <1>1, <2>1, <2>3, <2>5
         DEF FreedOnce, Blocks, Converted, Filling, Submitted, Passed, Elsewhere
  <1>7. CASE Finish
    <2>1. /\ live' = live \ {Cmd} /\ pc' = "done" /\ pc = "copyout"
          /\ refreed' = (refreed \/ Cmd \notin live)
      BY <1>7 DEF Finish, Kfree
    <2>2. \A i \in Slots : ~(i >= slot)
      BY <1>7, ParamAssumption DEF Finish, Slots, Inv, TypeOK
    <2>3. \A i \in live' : i \in References /\ ~Outgoing(i)
      BY <1>0, <2>1, <2>2 DEF References, Inv, Blocks, Passed
    <2>4. OutputsReclaimed'
      BY <1>1, <1>2, <2>3 DEF OutputsReclaimed, References
    <2> QED
      BY <1>0, <1>1, <2>1, <2>4
         DEF FreedOnce, Blocks, Converted, Filling, Submitted, Passed, Elsewhere
  <1> QED
    BY <1>3, <1>4, <1>5, <1>6, <1>7

(* Opening and closing a session, and the next call.                       *)
LEMMA OtherStep ==
    ASSUME Inv, \/ Again \/ OpenSession \/ CloseSession
                \/ OpenFinish1 \/ OpenFinish2 \/ CloseFinish
    PROVE  FreedOnce' /\ Blocks' /\ OutputsReclaimed'
  <1> USE DEF callVars, userVars, kernelVars
  <1>1. CASE Again
    BY <1>1 DEF Again, Inv, FreedOnce, Blocks, Converted, Filling, Submitted,
                Passed, Elsewhere, OutputsReclaimed, Ended, NoTypes, NoParam
  <1>2. CASE OpenSession \/ CloseSession
    BY <1>2 DEF OpenSession, CloseSession, Begin, Inv, FreedOnce, Blocks,
                Converted, Filling, Submitted, Passed, Elsewhere,
                OutputsReclaimed, Ended
  <1>3. CASE OpenFinish1 \/ OpenFinish2 \/ CloseFinish
    <2>1. live' = {} /\ ~refreed' /\ pc' \in {"done", "failed"}
      BY <1>3 DEF OpenFinish1, OpenFinish2, CloseFinish, End, Kfree, Inv,
                  FreedOnce, Blocks, Elsewhere
    <2>2. Converted'
      BY <1>3 DEF OpenFinish1, OpenFinish2, CloseFinish, End, Inv, Blocks,
                  Converted
    <2> QED
      BY <2>1, <2>2 DEF FreedOnce, Blocks, Filling, Submitted, Passed,
                        Elsewhere, OutputsReclaimed
  <1> QED
    BY <1>1, <1>2, <1>3

LEMMA BlocksStep == Inv /\ [Next]_vars => Inv'
  <1> SUFFICES ASSUME Inv, [Next]_vars PROVE Inv'
    OBVIOUS
  <1>1. TypeOK'
    BY TypeStep DEF Inv
  <1>2. CASE Next
    BY <1>1, <1>2, StartStep, FillStep, AfterStep, OtherStep DEF Next, Inv
  <1>3. CASE UNCHANGED vars
    BY <1>3 DEF vars, callVars, userVars, kernelVars, Inv, TypeOK, FreedOnce,
                Blocks, Converted, Filling, Submitted, Passed, Elsewhere,
                OutputsReclaimed, Ended, References, Outgoing
  <1> QED
    BY <1>2, <1>3

(* The blocks of a call are accounted for throughout it.                   *)
THEOREM BlocksInvariant == Spec => []Inv
  <1>1. Init => Inv
    BY TypeInit, BlocksInit DEF Inv
  <1> QED
    BY <1>1, BlocksStep, PTL DEF Spec

(* No path through open_session, invoke_session or close_session frees a   *)
(* kernel buffer twice, whichever copy faults and whatever was refused.    *)
THEOREM NeverFreedTwice == Spec => []FreedOnce
  <1>1. Inv => FreedOnce
    BY DEF Inv
  <1> QED
    BY <1>1, BlocksInvariant, PTL

(* Once parameter types are set, a call loses at most copies of inputs, and*)
(* never its command block.                                                *)
THEOREM OutputsAreReclaimed == Spec => []OutputsReclaimed
  <1>1. Inv => OutputsReclaimed
    BY DEF Inv
  <1> QED
    BY <1>1, BlocksInvariant, PTL

-----------------------------------------------------------------------------
Stated(i) == IF op[i].kind = "memref" THEN op[i].size ELSE 2

(* The outputs that the promise is about, and their memory untouched.      *)
Promised(i) == i \in Slots /\ Declared(i) /\ Alone(i)
Untouched(i) == Sees(i) = Letters(Len(Sees(i)))

Converting ==
    pc \in {"copyin", "call", "copyout", "cleanup"} => tz = OperationConvert(op)

NotYetServed ==
    pc \in {"idle", "copyin", "call", "open", "opensize", "close"} => ~served

Copied ==
    \A i \in Slots : Promised(i) =>
        /\ pc = "copyin" /\ i < slot => kparam[i] = Letters(Stated(i))
        /\ pc = "call" => kparam[i] = Letters(Stated(i))

Pending ==
    pc = "copyout" =>
        \A i \in Slots : Promised(i) /\ i >= slot =>
            /\ kparam[i] = IF served THEN Wanted(i) ELSE Letters(Stated(i))
            /\ Untouched(i)

Arrived ==
    \A i \in Slots : Promised(i) =>
        /\ served /\ i < slot =>
               Sees(i) = Over(Wanted(i), Len(Wanted(i)), Letters(Len(Sees(i))))
        /\ ~served \/ i > slot => Untouched(i)

Delivery == Converting /\ NotYetServed /\ Copied /\ Pending /\ Arrived

DInv == Inv /\ Delivery /\ InputsKept

-----------------------------------------------------------------------------
(* Conversion changes nothing of a parameter but the direction WHOLE.      *)
LEMMA ConvertKeeps ==
    ASSUME NEW o \in Params, NEW i \in Slots
    PROVE  /\ OperationConvert(o)[i].kind = o[i].kind
           /\ o[i].kind = "memref" =>
                 /\ OperationConvert(o)[i].buf = o[i].buf
                 /\ OperationConvert(o)[i].size = o[i].size
           /\ Returned(OperationConvert(o)[i]) <=>
                 o[i].dir \in {"out", "inout", "whole"}
  <1>1. o[i] \in ClientParams
    BY DEF Params
  <1>2. CASE o[i].dir = "whole"
    <2>1. o[i] \in [kind : {"memref"}, dir : {"whole", "in", "out", "inout"},
                    buf : Bufs, size : 1..Longest]
      BY <1>1, <1>2 DEF ClientParams, NoParam
    <2>2. OperationConvert(o)[i] = [o[i] EXCEPT !.dir = "inout"]
      BY <1>2 DEF OperationConvert
    <2> QED
      BY <1>2, <2>1, <2>2 DEF Returned, Outward
  <1>3. CASE o[i].dir # "whole"
    <2>1. OperationConvert(o)[i] = o[i]
      BY <1>3 DEF OperationConvert
    <2>2. o[i].kind = "none" => o[i].dir = "none"
      BY <1>1 DEF ClientParams, NoParam
    <2> QED
      BY <1>3, <2>1, <2>2 DEF Returned, Outward
  <1> QED
    BY <1>2, <1>3

(* Letters(n) are n cells.                                                 *)
LEMMA LettersSeq ==
    ASSUME NEW n \in Nat
    PROVE  /\ Letters(n) \in Seq(Cells) /\ Len(Letters(n)) = n
           /\ DOMAIN Letters(n) = 1..n
  BY LettersType, CellsSeq DEF Letters

(* The size a client states for a parameter is one its buffer has room for. *)
LEMMA StatedType ==
    ASSUME TypeOK, NEW i \in Slots
    PROVE  /\ Stated(i) \in Nat
           /\ op[i].kind = "memref" => /\ op[i].buf \in Bufs
                                       /\ Stated(i) <= Longest
  <1>1. op[i] \in ClientParams
    BY DEF TypeOK, Params
  <1>2. op[i].kind = "memref" => op[i].buf \in Bufs /\ op[i].size \in 1..Longest
    BY <1>1, ReferenceType
  <1> QED
    BY <1>2, ParamAssumption DEF Stated

(* What the client sees of an output: a function of a fixed length.        *)
LEMMA SeesType ==
    ASSUME TypeOK, NEW i \in Slots
    PROVE  \E d \in Nat : /\ Sees(i) \in [1..d -> Cells] /\ Len(Sees(i)) = d
                          /\ Stated(i) <= d
                          /\ d = IF op[i].kind = "memref" THEN Longest ELSE 2
  <1>1. CASE op[i].kind = "memref"
    <2>1. mem[op[i].buf] \in [1..Longest -> Cells]
      BY <1>1, StatedType DEF TypeOK
    <2> QED
      BY <1>1, <2>1, StatedType, CellsSeq, ParamAssumption DEF Sees
  <1>2. CASE op[i].kind # "memref"
    <2>1. val[i] \in [1..2 -> Cells]
      BY DEF TypeOK
    <2>2. val[i] \in Seq(Cells) /\ Len(val[i]) = 2
      BY <2>1, CellsSeq
    <2>3. Sees(i) = val[i] /\ Stated(i) = 2
      BY <1>2 DEF Sees, Stated
    <2> WITNESS 2 \in Nat
    <2> QED
      BY <1>2, <2>1, <2>2, <2>3
  <1> QED
    BY <1>1, <1>2

(* What was not changed may be written over what was not changed.          *)
LEMMA OverLetters ==
    ASSUME NEW n \in Nat, NEW d \in Nat, n <= d, NEW m \in 0..n
    PROVE  Over(Letters(n), m, Letters(d)) = Letters(d)
  <1>1. DOMAIN Letters(d) = 1..d
    BY LettersSeq
  <1>2. ASSUME NEW k \in 1..d, k <= m PROVE Letters(n)[k] = Letters(d)[k]
    BY <1>2 DEF Letters
  <1>3. Letters(d) = [k \in 1..d |-> Letters(d)[k]]
    BY DEF Letters
  <1> QED
    BY <1>1, <1>2, <1>3 DEF Over

(* A copy of the beginning of an untouched buffer.                         *)
LEMMA SubLetters ==
    ASSUME NEW d \in Nat, NEW n \in 0..d
    PROVE  SubSeq(Letters(d), 1, n) = Letters(n)
  BY DEF Letters

-----------------------------------------------------------------------------
(* What a write to output j does to what the client sees of outputs.       *)
LEMMA WriteSelf ==
    ASSUME TypeOK, tz = OperationConvert(op), NEW i \in Slots, Declared(i),
           NEW n, WriteBack(i, n), op' = op
    PROVE  Sees(i)' = Over(kparam[i], n, Sees(i))
  <1>1. /\ tz[i].kind = op[i].kind
        /\ op[i].kind = "memref" => tz[i].buf = op[i].buf
    BY ConvertKeeps DEF TypeOK
  <1>2. CASE op[i].kind = "value"
    BY <1>1, <1>2 DEF WriteBack, Sees, TypeOK
  <1>3. CASE op[i].kind = "memref"
    BY <1>1, <1>3, StatedType DEF WriteBack, Sees, TypeOK
  <1>4. op[i].kind \in {"value", "memref"}
    BY DEF Declared, TypeOK, Params, ClientParams, NoParam
  <1> QED
    BY <1>2, <1>3, <1>4

LEMMA WriteOther ==
    ASSUME TypeOK, tz = OperationConvert(op),
           NEW i \in Slots, Declared(i), Alone(i),
           NEW j \in Slots, Declared(j), i # j,
           NEW n, WriteBack(j, n), op' = op
    PROVE  Sees(i)' = Sees(i)
  <1>1. /\ tz[j].kind = op[j].kind
        /\ op[j].kind = "memref" => tz[j].buf = op[j].buf
    BY ConvertKeeps DEF TypeOK
  <1>2. op[j].kind \in {"value", "memref"}
    BY DEF Declared, TypeOK, Params, ClientParams, NoParam
  <1>3. CASE op[j].kind = "value"
    BY <1>1, <1>3 DEF WriteBack, Sees, TypeOK
  <1>4. CASE op[j].kind = "memref"
    <2>1. op[i].kind = "memref" => op[j].buf # op[i].buf /\ op[i].buf \in Bufs
      BY <1>4, StatedType DEF Alone
    <2> QED
      BY <1>1, <1>4, <2>1 DEF WriteBack, Sees, TypeOK
  <1> QED
    BY <1>2, <1>3, <1>4

(* Only what is declared an output is written to.                          *)
LEMMA WriteInputs ==
    ASSUME TypeOK, tz = OperationConvert(op), InputsKept,
           NEW j \in Slots, Declared(j),
           NEW n, WriteBack(j, n), op' = op, given' = given
    PROVE  InputsKept'
  <1>1. /\ tz[j].kind = op[j].kind
        /\ op[j].kind = "memref" => tz[j].buf = op[j].buf
    BY ConvertKeeps DEF TypeOK
  <1>2. op[j].kind \in {"value", "memref"}
    BY DEF Declared, TypeOK, Params, ClientParams, NoParam
  <1>3. CASE op[j].kind = "value"
    <2>1. \A i \in Slots : i # j => val'[i] = val[i]
      BY <1>1, <1>3 DEF WriteBack, TypeOK
    <2>2. mem' = mem
      BY <1>1, <1>3 DEF WriteBack
    <2> QED
      BY <2>1, <2>2 DEF InputsKept, Declared, FreshVal, FreshMem
  <1>4. CASE op[j].kind = "memref"
    <2>1. \A b \in Bufs : b # op[j].buf => mem'[b] = mem[b]
      BY <1>1, <1>4 DEF WriteBack, TypeOK
    <2>2. val' = val
      BY <1>1, <1>4 DEF WriteBack
    <2> QED
      BY <1>4, <2>1, <2>2 DEF InputsKept, Declared, FreshVal, FreshMem
  <1> QED
    BY <1>2, <1>3, <1>4

-----------------------------------------------------------------------------
(* The user's memory as it is at first.                                    *)
LEMMA FreshFacts ==
    /\ Len(Letters(Longest)) = Longest /\ Len(Letters(2)) = 2
    /\ \A b \in Bufs : FreshMem[b] = Letters(Longest)
    /\ \A i \in Slots : FreshVal[i] = Letters(2)
  BY LettersSeq, ParamAssumption DEF FreshMem, FreshVal

(* References of the operation name buffers of the client.                 *)
LEMMA BufsReal ==
    ASSUME TypeOK
    PROVE  \A i \in Slots : op[i].kind = "memref" => op[i].buf \in Bufs
  BY ReferenceType DEF TypeOK, Params

(* Before the first call the client's memory is fresh.                     *)
LEMMA DeliveryInit == Init => Delivery /\ InputsKept
  <1> SUFFICES ASSUME Init PROVE Delivery /\ InputsKept
    OBVIOUS
  <1>1. /\ pc = "idle" /\ slot = 0 /\ ~served
        /\ mem = FreshMem /\ val = FreshVal
    BY DEF Init, Idle
  <1>2. \A i \in Slots : Untouched(i)
    <2>1. \A i \in Slots : op[i].kind = "memref" => op[i].buf \in Bufs
      BY TypeInit, BufsReal
    <2> QED
      BY <1>1, <2>1, FreshFacts DEF Untouched, Sees
  <1>3. InputsKept
    BY <1>1 DEF InputsKept
  <1> QED
    BY <1>1, <1>2, <1>3
       DEF Delivery, Converting, NotYetServed, Copied, Pending, Arrived

(* The first loop copies what the user's memory holds.                     *)
LEMMA CopyInDelivers ==
    ASSUME DInv, CopyIn
    PROVE  Delivery' /\ InputsKept'
  <1>1. /\ pc = "copyin" /\ pc' = "copyin" /\ slot' = slot + 1 /\ slot \in Slots
        /\ UNCHANGED <<command, op, given, tz, mem, val, served>>
        /\ TypeOK /\ tz = OperationConvert(op) /\ ~served
    BY SlotBound DEF DInv, Inv, Delivery, Converting, NotYetServed, CopyIn, callVars,
                     userVars
  <1>2. ASSUME NEW i \in Slots, i # slot PROVE kparam'[i] = kparam[i]
    BY <1>1, <1>2 DEF CopyIn, TypeOK
  <1>3. Promised(slot) => kparam'[slot] = Letters(Stated(slot))
    <2> SUFFICES ASSUME Promised(slot) PROVE kparam'[slot] = Letters(Stated(slot))
      OBVIOUS
    <2>1. /\ tz[slot].kind = op[slot].kind
          /\ op[slot].kind = "memref" => /\ tz[slot].buf = op[slot].buf
                                         /\ tz[slot].size = op[slot].size
      BY <1>1, ConvertKeeps DEF TypeOK
    <2>2. op[slot].kind \in {"value", "memref"}
      BY <1>1 DEF Promised, Declared, TypeOK, Params, ClientParams, NoParam
    <2>3. Untouched(slot)
      BY <1>1 DEF DInv, Delivery, Arrived
    <2>4. Sees(slot) = Letters(Len(Sees(slot)))
      BY <2>3 DEF Untouched
    <2>5. CASE op[slot].kind = "value"
      <3>1. kparam'[slot] = val[slot]
        BY <1>1, <2>1, <2>5 DEF CopyIn, TypeOK
      <3>2. Sees(slot) = val[slot] /\ Stated(slot) = 2
        BY <2>5 DEF Sees, Stated
      <3>3. Len(Sees(slot)) = 2
        BY <1>1, <2>5, SeesType
      <3> QED
        BY <2>4, <3>1, <3>2, <3>3
    <2>6. CASE op[slot].kind = "memref"
      <3>1. kparam'[slot] = SubSeq(mem[op[slot].buf], 1, Stated(slot))
        BY <1>1, <2>1, <2>6 DEF CopyIn, TypeOK, Stated
      <3>2. Sees(slot) = mem[op[slot].buf]
        BY <2>6 DEF Sees
      <3>3. Len(Sees(slot)) = Longest
        BY <1>1, <2>6, SeesType
      <3>4. Stated(slot) \in 0..Longest
        BY <1>1, <2>6, StatedType, ParamAssumption
      <3> QED
        BY <2>4, <3>1, <3>2, <3>3, <3>4, SubLetters, ParamAssumption
    <2> QED
      BY <2>2, <2>5, <2>6
  <1>4. \A i \in Slots : /\ Promised(i)' <=> Promised(i)
                         /\ Stated(i)' = Stated(i) /\ Sees(i)' = Sees(i)
    BY <1>1 DEF Promised, Declared, Alone, Stated, Sees
  <1>5. Copied'
    <2>1. \A i \in Slots : i < slot + 1 => i < slot \/ i = slot
      BY <1>1, CmdFact
    <2> QED
      BY <1>1, <1>2, <1>3, <1>4, <2>1 DEF Copied, DInv, Delivery
  <1>6. Arrived'
    BY <1>1, <1>4 DEF Arrived, DInv, Delivery, Untouched
  <1>7. InputsKept'
    BY <1>1 DEF DInv, InputsKept, Declared
  <1> QED
    BY <1>1, <1>5, <1>6, <1>7
       DEF Delivery, Converting, NotYetServed, Pending

(* What the service leaves in the copy of an output is what is wanted.     *)
LEMMA ServeDelivers ==
    ASSUME DInv, Serve
    PROVE  Delivery' /\ InputsKept'
  <1>1. /\ pc = "call" /\ pc' = "copyout" /\ slot = 0 /\ slot' = 0
        /\ UNCHANGED <<command, op, given, tz, mem, val>>
        /\ TypeOK /\ tz = OperationConvert(op) /\ ktypes = tz /\ ~served
    BY DEF DInv, Inv, Blocks, Passed, Submitted, Delivery, Converting, NotYetServed,
           Serve, callVars, userVars
  <1>2. \A i \in Slots : /\ Promised(i)' <=> Promised(i)
                         /\ Stated(i)' = Stated(i) /\ Sees(i)' = Sees(i)
                         /\ Wanted(i)' = Wanted(i)
    BY <1>1 DEF Promised, Declared, Alone, Stated, Sees, Wanted
  <1>3. \A i \in Slots : Promised(i) =>
            kparam[i] = Letters(Stated(i)) /\ Untouched(i)
    BY <1>1 DEF DInv, Delivery, Copied, Arrived
  <1>4. ASSUME NEW i \in Slots, Promised(i), Accepted(command, ktypes)
        PROVE  Effect(command, ktypes, kparam)[i] = Wanted(i)
    <2>1. /\ tz[i].kind = op[i].kind
          /\ Returned(tz[i])
      BY <1>1, <1>4, ConvertKeeps DEF TypeOK, Promised, Declared
    <2>2. kparam[i] = Letters(Stated(i))
      BY <1>3, <1>4
    <2>3. CASE command = "robust"
      <3>1. Effect(command, ktypes, kparam)[i] = Answered(tz[i], kparam[i])
        BY <1>1, <2>1, <2>3 DEF Effect, Answers, Returned
      <3> QED
        BY <2>1, <2>2, <2>3, <3>1 DEF Wanted, Stated, Answered
    <2>4. CASE command # "robust"
      <3>1. i = 0
        BY <1>1, <1>4, <2>1, <2>4 DEF Accepted, StringTypes, Returned
      <3>2. Effect(command, ktypes, kparam)[i] = Cased(command, kparam[i])
        BY <1>1, <2>4, <3>1 DEF Effect, TypeOK
      <3> QED
        BY <2>2, <2>4, <3>2 DEF Wanted, Stated
    <2> QED
      BY <2>3, <2>4
  <1>5. Pending'
    <2>1. CASE Accepted(command, ktypes)
      <3>1. kparam' = Effect(command, ktypes, kparam) /\ served'
        BY <2>1 DEF Serve
      <3> QED
        BY <1>2, <1>3, <1>4, <2>1, <3>1 DEF Pending, Untouched
    <2>2. CASE ~Accepted(command, ktypes)
      <3>1. UNCHANGED <<kparam, served>>
        BY <2>2 DEF Serve
      <3> QED
        BY <1>1, <1>2, <1>3, <3>1 DEF Pending, Untouched
    <2> QED
      BY <2>1, <2>2
  <1>6. Arrived'
    <2>1. \A i \in Slots : ~(i < 0)
      BY ParamAssumption DEF Slots
    <2> QED
      BY <1>1, <1>2, <1>3, <2>1 DEF Arrived, Untouched
  <1>7. InputsKept'
    BY <1>1 DEF DInv, InputsKept, Declared
  <1> QED
    BY <1>1, <1>5, <1>6, <1>7
       DEF Delivery, Converting, NotYetServed, Copied

(* What the second loop writes over one parameter, or leaves.              *)
LEMMA CopyOutDelivers ==
    ASSUME DInv, CopyOut
    PROVE  Delivery' /\ InputsKept'
  <1>1. /\ pc = "copyout" /\ pc' = "copyout" /\ slot' = slot + 1 /\ slot \in Slots
        /\ UNCHANGED <<command, op, given, tz, served>>
        /\ TypeOK /\ tz = OperationConvert(op) /\ slot \in Int
    BY SlotBound, CmdFact
       DEF DInv, Inv, Delivery, Converting, CopyOut, callVars
  <1>2. \A i \in Slots : /\ Promised(i)' <=> Promised(i)
                         /\ Stated(i)' = Stated(i) /\ Wanted(i)' = Wanted(i)
    BY <1>1 DEF Promised, Declared, Alone, Stated, Wanted
  <1>3. Returned(tz[slot]) <=> Declared(slot)
    BY <1>1, ConvertKeeps DEF TypeOK, Declared
  <1>4. ASSUME NEW i \in Slots, i # slot
        PROVE  kparam'[i] = kparam[i]
    BY <1>1, <1>4 DEF CopyOut, Forget, TypeOK
  <1>5. ASSUME NEW i \in Slots, i # slot, Promised(i)
        PROVE  Sees(i)' = Sees(i)
    <2>1. CASE Declared(slot)
      <3>1. WriteBack(slot, Len(kparam[slot]))
        BY <1>3, <2>1 DEF CopyOut
      <3> QED
        BY <1>1, <1>5, <2>1, <3>1, WriteOther DEF Promised
    <2>2. CASE ~Declared(slot)
      BY <1>1, <1>3, <2>2 DEF CopyOut, Sees, userVars
    <2> QED
      BY <2>1, <2>2
  <1>6. ASSUME NEW i \in Slots, i = slot, Promised(i)
        PROVE  /\ Sees(i)' = Over(kparam[i], Len(kparam[i]), Sees(i))
               /\ kparam[i] = IF served THEN Wanted(i) ELSE Letters(Stated(i))
               /\ Sees(i) = Letters(Len(Sees(i)))
    <2>1. Declared(i)
      BY <1>6 DEF Promised
    <2>2. WriteBack(i, Len(kparam[i]))
      BY <1>3, <1>6, <2>1 DEF CopyOut
    <2>3. Sees(i)' = Over(kparam[i], Len(kparam[i]), Sees(i))
      BY <1>1, <2>1, <2>2, WriteSelf
    <2>4. i >= slot
      BY <1>1, <1>6
    <2> QED
      BY <1>1, <1>6, <2>3, <2>4 DEF DInv, Delivery, Pending, Untouched
  <1>7. ASSUME NEW i \in Slots, i = slot, Promised(i), ~served
        PROVE  Sees(i)' = Sees(i)
    <2>1. PICK d \in Nat : Len(Sees(i)) = d /\ Stated(i) <= d
      BY <1>1, SeesType
    <2>2. Stated(i) \in Nat
      BY <1>1, StatedType
    <2>3. Len(Letters(Stated(i))) = Stated(i)
      BY <2>2, LettersSeq
    <2>4. /\ Sees(i)' = Over(kparam[i], Len(kparam[i]), Sees(i))
          /\ kparam[i] = Letters(Stated(i)) /\ Sees(i) = Letters(d)
      BY <1>6, <1>7, <2>1
    <2> QED
      BY <2>1, <2>2, <2>3, <2>4, OverLetters
  <1>8. ASSUME NEW i \in Slots, i = slot, Promised(i)
        PROVE  Len(Sees(i)') = Len(Sees(i))
    <2>1. PICK d \in Nat : d = Len(Sees(i)) /\ Sees(i) \in [1..d -> Cells]
      BY <1>1, SeesType
    <2>2. kparam[i] \in Seq(Cells)
      BY <1>1 DEF TypeOK
    <2>3. Len(kparam[i]) \in 0..Len(kparam[i])
      BY <2>2
    <2>4. Sees(i)' = Over(kparam[i], Len(kparam[i]), Sees(i))
      BY <1>6, <1>8
    <2>5. Sees(i)' \in [1..d -> Cells]
      BY <2>1, <2>2, <2>3, <2>4, OverType
    <2> QED
      BY <2>1, <2>5, CellsSeq
  <1>9. Pending'
    <2> SUFFICES ASSUME NEW i \in Slots, Promised(i), i >= slot + 1
                 PROVE  /\ kparam'[i] = IF served THEN Wanted(i)
                                        ELSE Letters(Stated(i))
                        /\ Sees(i)' = Letters(Len(Sees(i)'))
      BY <1>1, <1>2 DEF Pending, Untouched
    <2>1. i # slot /\ i >= slot
      BY <1>1, CmdFact
    <2> QED
      BY <1>1, <1>4, <1>5, <2>1 DEF DInv, Delivery, Pending, Untouched
  <1>10. Arrived'
    <2> SUFFICES ASSUME NEW i \in Slots, Promised(i)
                 PROVE  /\ served /\ i < slot + 1 =>
                              Sees(i)' = Over(Wanted(i), Len(Wanted(i)),
                                              Letters(Len(Sees(i)')))
                        /\ ~served \/ i > slot + 1 =>
                              Sees(i)' = Letters(Len(Sees(i)'))
      BY <1>1, <1>2 DEF Arrived, Untouched
    <2>1. CASE i = slot
      <3>1. ~(i > slot + 1)
        BY <1>1, <2>1
      <3>2. /\ Sees(i)' = Over(kparam[i], Len(kparam[i]), Sees(i))
            /\ kparam[i] = IF served THEN Wanted(i) ELSE Letters(Stated(i))
            /\ Sees(i) = Letters(Len(Sees(i)))
            /\ Len(Sees(i)') = Len(Sees(i))
            /\ ~served => Sees(i)' = Sees(i)
        BY <1>6, <1>7, <1>8, <2>1
      <3> QED
        BY <3>1, <3>2
    <2>2. CASE i # slot
      <3>1. /\ i < slot + 1 => i < slot
            /\ i > slot + 1 => i > slot
        BY <1>1, <2>2, CmdFact
      <3> QED
        BY <1>5, <2>2, <3>1 DEF DInv, Delivery, Arrived, Untouched
    <2> QED
      BY <2>1, <2>2
  <1>11. InputsKept'
    <2>1. CASE Declared(slot)
      <3>1. WriteBack(slot, Len(kparam[slot]))
        BY <1>3, <2>1 DEF CopyOut
      <3> QED
        BY <1>1, <2>1, <3>1, WriteInputs DEF DInv
    <2>2. CASE ~Declared(slot)
      BY <1>1, <1>3, <2>2 DEF CopyOut, DInv, InputsKept, Declared, userVars
    <2> QED
      BY <2>1, <2>2
  <1> QED
    BY <1>1, <1>9, <1>10, <1>11
       DEF Delivery, Converting, NotYetServed, Copied

(* A fault in the second loop spoils the output it was at, and no other.   *)
LEMMA CopyOutFaultDelivers ==
    ASSUME DInv, CopyOutFault
    PROVE  Delivery' /\ InputsKept'
  <1>1. /\ pc = "copyout" /\ pc' = "cleanup" /\ slot' = slot /\ slot \in Slots
        /\ UNCHANGED <<command, op, given, tz, served, kparam>>
        /\ TypeOK /\ tz = OperationConvert(op) /\ slot \in Int
    BY SlotBound, CmdFact
       DEF DInv, Inv, Delivery, Converting, CopyOutFault, callVars, kernelVars
  <1>2. \A i \in Slots : /\ Promised(i)' <=> Promised(i)
                         /\ Stated(i)' = Stated(i) /\ Wanted(i)' = Wanted(i)
    BY <1>1 DEF Promised, Declared, Alone, Stated, Wanted
  <1>3. Declared(slot)
    BY <1>1, ConvertKeeps DEF TypeOK, Declared, CopyOutFault
  <1>4. PICK n \in 0..(Len(kparam[slot]) - 1) : WriteBack(slot, n)
    BY DEF CopyOutFault
  <1>5. ASSUME NEW i \in Slots, i # slot, Promised(i)
        PROVE  Sees(i)' = Sees(i)
    BY <1>1, <1>3, <1>4, <1>5, WriteOther DEF Promised
  <1>6. ASSUME NEW i \in Slots, i = slot, Promised(i), ~served
        PROVE  Sees(i)' = Sees(i)
    <2>1. PICK d \in Nat : Len(Sees(i)) = d /\ Stated(i) <= d
      BY <1>1, SeesType
    <2>2. Stated(i) \in Nat
      BY <1>1, StatedType
    <2>3. i >= slot
      BY <1>1, <1>6
    <2>4. kparam[i] = Letters(Stated(i)) /\ Sees(i) = Letters(d)
      BY <1>1, <1>6, <2>1, <2>3 DEF DInv, Delivery, Pending, Untouched
    <2>5. n \in 0..Stated(i)
      BY <1>4, <1>6, <2>2, <2>4, LettersSeq
    <2>6. Sees(i)' = Over(kparam[i], n, Sees(i))
      BY <1>1, <1>3, <1>4, <1>6, WriteSelf
    <2> QED
      BY <2>1, <2>2, <2>4, <2>5, <2>6, OverLetters
  <1>7. Arrived'
    <2> SUFFICES ASSUME NEW i \in Slots, Promised(i)
                 PROVE  /\ served /\ i < slot =>
                              Sees(i)' = Over(Wanted(i), Len(Wanted(i)),
                                              Letters(Len(Sees(i)')))
                        /\ ~served \/ i > slot => Sees(i)' = Letters(Len(Sees(i)'))
      BY <1>1, <1>2 DEF Arrived, Untouched
    <2>1. CASE i = slot
      <3>1. ~(i > slot) /\ ~(i < slot)
        BY <1>1, <2>1
      <3>2. ~served => Sees(i)' = Sees(i) /\ Sees(i) = Letters(Len(Sees(i)))
        BY <1>6, <2>1 DEF DInv, Delivery, Arrived, Untouched
      <3> QED
        BY <3>1, <3>2
    <2>2. CASE i # slot
      BY <1>5, <2>2 DEF DInv, Delivery, Arrived, Untouched
    <2> QED
      BY <2>1, <2>2
  <1>8. InputsKept'
    BY <1>1, <1>3, <1>4, WriteInputs DEF DInv
  <1> QED
    BY <1>1, <1>7, <1>8
       DEF Delivery, Converting, NotYetServed, Copied, Pending

(* The steps that leave the user's memory and the copies alone.            *)
LEMMA OtherDelivers ==
    ASSUME DInv, \/ Invoke \/ HeaderFault \/ CopyInFault \/ Submit \/ GiveUp
                 \/ Refuse \/ OriginFault \/ Finish
                 \/ OpenSession \/ OpenFinish1 \/ OpenFinish2
                 \/ CloseSession \/ CloseFinish
    PROVE  Delivery' /\ InputsKept'
  <1>1. UNCHANGED <<command, op, given, mem, val, kparam, served>>
    BY DEF Invoke, HeaderFault, CopyInFault, Submit, GiveUp, Refuse, OriginFault,
           Finish, OpenSession, OpenFinish1, OpenFinish2, CloseSession,
           CloseFinish, Begin, End, callVars, userVars, kernelVars
  <1>2. \A i \in Slots : /\ Promised(i)' <=> Promised(i)
                         /\ Stated(i)' = Stated(i) /\ Wanted(i)' = Wanted(i)
                         /\ Sees(i)' = Sees(i)
    BY <1>1 DEF Promised, Declared, Alone, Stated, Wanted, Sees
  <1>3. InputsKept'
    BY <1>1 DEF DInv, InputsKept, Declared
  <1>4. Converting'
    BY DEF DInv, Delivery, Converting, Invoke, HeaderFault, CopyInFault, Submit,
           GiveUp, Refuse, OriginFault, Finish, OpenSession, OpenFinish1,
           OpenFinish2, CloseSession, CloseFinish, Begin, End, callVars
  <1>5. NotYetServed'
    BY <1>1 DEF DInv, Delivery, NotYetServed, Invoke, HeaderFault, CopyInFault,
           Submit, GiveUp, Refuse, OriginFault, Finish, OpenSession, OpenFinish1,
           OpenFinish2, CloseSession, CloseFinish, Begin, End
  <1>6. Pending'
    BY DEF Pending, Invoke, HeaderFault, CopyInFault, Submit, GiveUp, Refuse,
           OriginFault, Finish, OpenSession, OpenFinish1, OpenFinish2,
           CloseSession, CloseFinish, Begin, End
  <1>7. Arrived'
    <2>1. slot' = slot \/ ~served
      BY DEF DInv, Delivery, NotYetServed, Invoke, HeaderFault, CopyInFault,
             Submit, GiveUp, Refuse, OriginFault, Finish, OpenSession,
             OpenFinish1, OpenFinish2, CloseSession, CloseFinish, Begin, End
    <2> QED
      BY <1>1, <1>2, <2>1 DEF DInv, Delivery, Arrived, Untouched
  <1>8. Copied'
    <2>1. CASE Submit
      <3>1. \A i \in Slots : i < slot
        BY <2>1, ParamAssumption DEF Submit, Slots, DInv, Inv, TypeOK
      <3> QED
        BY <1>1, <1>2, <2>1, <3>1 DEF DInv, Delivery, Copied, Submit
    <2>2. CASE Invoke
      <3>1. slot' = 0 /\ \A i \in Slots : ~(i < 0)
        BY <2>2, ParamAssumption DEF Invoke, Slots, DInv, Inv, Blocks, Elsewhere
      <3> QED
        BY <2>2, <3>1 DEF Copied, Invoke
    <2>3. CASE ~Submit /\ ~Invoke
      <3>1. pc' \notin {"copyin", "call"}
        BY <2>3 DEF HeaderFault, CopyInFault, GiveUp, Refuse, OriginFault, Finish,
               OpenSession, OpenFinish1, OpenFinish2, CloseSession, CloseFinish,
               Begin, End
      <3> QED
        BY <3>1 DEF Copied
    <2> QED
      BY <2>1, <2>2, <2>3
  <1> QED
    BY <1>3, <1>4, <1>5, <1>6, <1>7, <1>8 DEF Delivery

(* A next call starts from fresh memory again.                             *)
LEMMA AgainDelivers ==
    ASSUME DInv, Again
    PROVE  Delivery' /\ InputsKept'
  <1>1. /\ pc' = "idle" /\ ~served' /\ mem' = FreshMem /\ val' = FreshVal
        /\ op' = op
    BY DEF Again
  <1>2. \A i \in Slots : Untouched(i)'
    <2>1. \A i \in Slots : op[i].kind = "memref" => op[i].buf \in Bufs
      BY BufsReal DEF DInv, Inv
    <2> QED
      BY <1>1, <2>1, FreshFacts DEF Untouched, Sees
  <1> QED
    BY <1>1, <1>2
       DEF Delivery, Converting, NotYetServed, Copied, Pending, Arrived, InputsKept

(* Every step of a call keeps the invariant.                               *)
LEMMA DeliveryStep == DInv /\ [Next]_vars => DInv'
  <1> SUFFICES ASSUME DInv, [Next]_vars PROVE DInv'
    OBVIOUS
  <1>1. Inv'
    BY BlocksStep DEF DInv
  <1>2. CASE Next
    BY <1>1, <1>2, CopyInDelivers, ServeDelivers, CopyOutDelivers,
       CopyOutFaultDelivers, OtherDelivers, AgainDelivers DEF Next, DInv
  <1>3. CASE UNCHANGED vars
    BY <1>1, <1>3
       DEF vars, callVars, userVars, kernelVars, DInv, Delivery, Converting,
           NotYetServed, Copied, Pending, Arrived, InputsKept, Promised, Declared,
           Alone, Stated, Untouched, Sees, Wanted
  <1> QED
    BY <1>2, <1>3

(* What is in the copies and in the user's memory is known throughout.     *)
THEOREM DeliveryInvariant == Spec => []DInv
  <1>1. Init => DInv
    BY TypeInit, BlocksInit, DeliveryInit DEF DInv, Inv
  <1> QED
    BY <1>1, DeliveryStep, PTL DEF Spec

(* Outputs reach the client in the order of the parameters and whole,      *)
(* whichever copy of invoke_session's second loop faults.                  *)
THEOREM OutputsInOrder == Spec => []DeliveredInOrder
  <1>1. DInv => DeliveredInOrder
    BY DEF DInv, Delivery, Arrived, Promised, Untouched, DeliveredInOrder
  <1> QED
    BY <1>1, DeliveryInvariant, PTL

(* What the client passed as an input only is never written to.            *)
THEOREM InputsUntouched == Spec => []InputsKept
  <1>1. DInv => InputsKept
    BY DEF DInv
  <1> QED
    BY <1>1, DeliveryInvariant, PTL

=============================================================================
