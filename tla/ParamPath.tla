----------------------------- MODULE ParamPath -----------------------------
(***************************************************************************)
(* The way of an operation's parameters through one call: from the client  *)
(* (tz_api/jni/tz_api.c) into kernel copies (tz_driver/tz_driver.c), to    *)
(* the trusted service that works on the copies (t-os/src/apps), and back. *)
(* The order of calls under the driver's mutex is TzCall's subject; here   *)
(* is what one thread of it does to memory, with every copy from or to     *)
(* user space able to fault.                                               *)
(*                                                                         *)
(* A parameter is [kind, dir, buf, size].  A value has two cells (a, b), a *)
(* memory reference the first size cells of user buffer buf; a cell is a   *)
(* letter of one case or the other, or what the robust service writes.     *)
(*                                                                         *)
(* pc        where the calling thread is                                   *)
(* command   command_id                                                    *)
(* op        the TEEC_Operation, with given FALSE for a NULL pointer       *)
(* tz        the TZ_Operation made of it                                   *)
(* slot      the loop variable i of the two copy loops                     *)
(* mem, val  the user's buffers and values                                 *)
(* kparam    tz_cmd_data->params: the kernel's copies, Null for a NULL     *)
(*           buffer                                                        *)
(* ktypes    tz_cmd_data->param_type                                       *)
(* live      what kmalloc gave this call and kfree did not get back        *)
(* refreed   something was freed that was not live                         *)
(* served    the service carried the command out (history)                 *)
(***************************************************************************)
EXTENDS Integers, Sequences

CONSTANTS Last,         \* the last parameter, 3 in the code
          Bufs,         \* user buffers
          Longest,      \* bounds the sizes of memory references
          OutLen        \* length of the robust service's answer

ASSUME ParamAssumption ==
    Last \in Nat /\ Longest \in Nat /\ OutLen \in Nat \ {0}

VARIABLES pc, command, op, given, tz, slot, mem, val, kparam, ktypes,
          live, refreed, served
callVars == <<command, op, given, tz>>
userVars == <<mem, val>>
kernelVars == <<kparam, ktypes, live, refreed>>
vars == <<pc, callVars, slot, userVars, kernelVars, served>>

Slots == 0..Last
Cmd == Last + 1                 \* tz_cmd_data itself, among the live blocks
Null == <<>>
Commands == {"lower", "upper", "robust", "unknown"}
Outward == {"out", "inout"}

NoParam == [kind |-> "none", dir |-> "none"]
ClientParams ==
    {NoParam}
    \cup [kind : {"value"}, dir : {"in", "out", "inout"}]
    \cup [kind : {"memref"}, dir : {"whole", "in", "out", "inout"},
          buf : Bufs, size : 1..Longest]

(* What the user's memory holds when the client makes the call.            *)
Letters(n) == [k \in 1..n |-> IF k % 2 = 1 THEN "A" ELSE "a"]
FreshMem == [b \in Bufs |-> Letters(Longest)]
FreshVal == [i \in Slots |-> Letters(2)]

-----------------------------------------------------------------------------
(* Mutants: a WHOLE reference is taken for an input, an input for an       *)
(* output.                                                                 *)
WholeIsInput(o) ==
    [i \in Slots |->
        IF o[i].dir = "whole" THEN [o[i] EXCEPT !.dir = "in"] ELSE o[i]]
InputIsInOut(o) ==
    [i \in Slots |->
        IF o[i].dir \in {"in", "whole"} THEN [o[i] EXCEPT !.dir = "inout"]
        ELSE o[i]]

(* OperationConvert.  TEMP and PARTIAL references keep their direction, a  *)
(* WHOLE one becomes INOUT; all take the size the reference itself states. *)
OperationConvert(o) ==
    [i \in Slots |->
        IF o[i].dir = "whole" THEN [o[i] EXCEPT !.dir = "inout"] ELSE o[i]]

NoTypes == [i \in Slots |-> NoParam]

(* kfree of a set of blocks, each at most once in the code that calls it.  *)
Kfree(blocks) ==
    /\ live' = live \ blocks
    /\ refreed' = (refreed \/ ~(blocks \subseteq live))

(* invoke_finish_1 and invoke_finish_0: what param_type calls an outward   *)
(* reference is freed where its buffer is not NULL, then tz_cmd_data.      *)
Held == {i \in Slots : /\ ktypes[i].kind = "memref"
                       /\ ktypes[i].dir \in Outward
                       /\ kparam[i] # Null}

-----------------------------------------------------------------------------
Idle(c, o, g) ==
    /\ command = c /\ op = o /\ given = g /\ tz = NoTypes
    /\ pc = "idle" /\ slot = 0 /\ served = FALSE
    /\ mem = FreshMem /\ val = FreshVal
    /\ kparam = [i \in Slots |-> Null] /\ ktypes = NoTypes
    /\ live = {} /\ refreed = FALSE

Init == \E c \in Commands, o \in [Slots -> ClientParams], g \in BOOLEAN :
            Idle(c, o, g)

(* TEEC_InvokeCommand, and invoke_session up to its first copy: the        *)
(* command block is allocated and cleared.  With a NULL operation the      *)
(* TZ_Operation is the stack's garbage, any operation at all (op).         *)
Invoke ==
    /\ pc = "idle"
    /\ tz' = OperationConvert(op)
    /\ live' = live \cup {Cmd}
    /\ pc' = "copyin"
    /\ UNCHANGED <<command, op, given, slot, userVars, kparam, ktypes,
                   refreed, served>>

(* The INVOKE_SESSION_DATA or the TZ_Operation cannot be read.             *)
HeaderFault ==
    /\ pc = "copyin" /\ slot = 0
    /\ Kfree({Cmd})
    /\ pc' = "failed"
    /\ UNCHANGED <<callVars, slot, userVars, kparam, ktypes, served>>

(* One round of the first loop: a value's cells, or a buffer of the stated *)
(* size and what the user's buffer holds.                                  *)
CopyIn ==
    /\ pc = "copyin" /\ slot <= Last
    /\ LET p == tz[slot] IN
       /\ kparam' = [kparam EXCEPT ![slot] =
             CASE p.kind = "value" -> val[slot]
               [] p.kind = "memref" -> SubSeq(mem[p.buf], 1, p.size)
               [] OTHER -> @]
       /\ live' = IF p.kind = "memref" THEN live \cup {slot} ELSE live
    /\ slot' = slot + 1
    /\ UNCHANGED <<pc, callVars, userVars, ktypes, refreed, served>>

(* The round faults: at a value or at the size, or at the bytes, with the  *)
(* buffer allocated.  param_type is not set yet.                           *)
CopyInFault ==
    /\ pc = "copyin" /\ slot <= Last /\ tz[slot].kind # "none"
    /\ \E blocks \in {live} \cup
            (IF tz[slot].kind = "memref" THEN {live \cup {slot}} ELSE {}) :
          /\ live' = blocks \ (Held \cup {Cmd})
          /\ refreed' = (refreed \/ ~((Held \cup {Cmd}) \subseteq blocks))
    /\ pc' = "failed"
    /\ UNCHANGED <<callVars, slot, userVars, kparam, ktypes, served>>

(* param_type is set, the session context copied; then the call.           *)
Submit ==
    /\ pc = "copyin" /\ slot > Last
    /\ ktypes' = tz
    /\ pc' \in {"call", "cleanup"}
    /\ slot' = 0
    /\ UNCHANGED <<callVars, userVars, kparam, live, refreed, served>>

(* invoke_finish_1 after param_type was set.                               *)
GiveUp ==
    /\ pc = "cleanup"
    /\ Kfree(Held \cup {Cmd})
    /\ pc' = "failed"
    /\ UNCHANGED <<callVars, slot, userVars, kparam, ktypes, served>>

-----------------------------------------------------------------------------
(* Task_StringLowerCommand and Task_StringUpperCommand work in place on    *)
(* one INOUT reference and take nothing else.                              *)
StringTypes(p) ==
    /\ p[0].kind = "memref" /\ p[0].dir = "inout"
    /\ \A i \in Slots \ {0} : p[i].kind = "none"

Cased(c, s) == [k \in DOMAIN s |-> IF c = "lower" THEN "a" ELSE "A"]

(* Task_TestRobustRunCommand answers every outward parameter: a value with *)
(* 0xa and 0xb, a reference with its string where it fits.                 *)
Answered(p, s) ==
    IF p.kind = "value" THEN <<"0xa", "0xb">>
    ELSE IF OutLen <= Len(s)
         THEN [k \in DOMAIN s |-> IF k <= OutLen THEN "R" ELSE s[k]]
         ELSE s

Answers(p) == p.kind # "none" /\ p.dir \in Outward

Accepted(c, p) ==
    \/ c \in {"lower", "upper"} /\ StringTypes(p)
    \/ c = "robust"

Effect(c, p, params) ==
    IF c = "robust"
    THEN [i \in Slots |->
             IF Answers(p[i]) THEN Answered(p[i], params[i]) ELSE params[i]]
    ELSE [params EXCEPT ![0] = Cased(c, params[0])]

(* CallTZFunction finds the session: its service turns the copies, or does *)
(* nothing with a command or types it does not take.  Success is reported  *)
(* in both cases (TaInterface's GetTaskReturnValue).                       *)
Serve ==
    /\ pc = "call"
    /\ IF Accepted(command, ktypes)
       THEN kparam' = Effect(command, ktypes, kparam) /\ served' = TRUE
       ELSE UNCHANGED <<kparam, served>>
    /\ pc' = "copyout"
    /\ UNCHANGED <<callVars, slot, userVars, ktypes, live, refreed>>

(* CallTZFunction does not find it.                                        *)
Refuse ==
    /\ pc = "call"
    /\ pc' = "cleanup"
    /\ UNCHANGED <<callVars, slot, userVars, kernelVars, served>>

(* The return origin cannot be written.                                    *)
OriginFault ==
    /\ pc = "copyout" /\ slot = 0
    /\ pc' = "cleanup"
    /\ UNCHANGED <<callVars, slot, userVars, kernelVars, served>>

(* What the second loop returns to the client.                             *)
Returned(p) == p.kind # "none" /\ p.dir \in Outward

(* The first n cells of s over those of old.                               *)
Over(s, n, old) == [k \in DOMAIN old |-> IF k <= n THEN s[k] ELSE old[k]]

(* copy_to_user of the first n cells of parameter i's copy.                *)
WriteBack(i, n) ==
    IF tz[i].kind = "value"
    THEN /\ val' = [val EXCEPT ![i] = Over(kparam[i], n, @)]
         /\ UNCHANGED mem
    ELSE /\ mem' = [mem EXCEPT ![tz[i].buf] = Over(kparam[i], n, @)]
         /\ UNCHANGED val

(* Mutant: the freed copy of parameter i is not forgotten.                 *)
KeepPointer(i) == kparam' = kparam

(* One round of the second loop.  The size is written back as it came; a   *)
(* reference's copy is freed and forgotten.                                *)
Forget(i) == kparam' = [kparam EXCEPT ![i] = Null]

CopyOut ==
    /\ pc = "copyout" /\ slot <= Last
    /\ IF Returned(tz[slot])
       THEN /\ WriteBack(slot, Len(kparam[slot]))
            /\ IF tz[slot].kind = "memref"
               THEN Kfree({slot}) /\ Forget(slot)
               ELSE UNCHANGED <<kparam, live, refreed>>
       ELSE UNCHANGED <<userVars, kparam, live, refreed>>
    /\ slot' = slot + 1
    /\ UNCHANGED <<pc, callVars, ktypes, served>>

(* The round faults after n cells.                                         *)
CopyOutFault ==
    /\ pc = "copyout" /\ slot <= Last /\ Returned(tz[slot])
    /\ \E n \in 0..(Len(kparam[slot]) - 1) : WriteBack(slot, n)
    /\ pc' = "cleanup"
    /\ UNCHANGED <<callVars, slot, kernelVars, served>>

(* The end of a call that succeeded: only tz_cmd_data is left to free.     *)
Finish ==
    /\ pc = "copyout" /\ slot > Last
    /\ Kfree({Cmd})
    /\ pc' = "done"
    /\ UNCHANGED <<callVars, slot, userVars, kparam, ktypes, served>>

(* The client makes the same call again, with its memory as at first.      *)
Again ==
    /\ pc \in {"done", "failed"}
    /\ pc' = "idle" /\ slot' = 0 /\ served' = FALSE
    /\ mem' = FreshMem /\ val' = FreshVal
    /\ kparam' = [i \in Slots |-> Null] /\ ktypes' = NoTypes
    /\ live' = {} /\ tz' = NoTypes
    /\ UNCHANGED <<command, op, given, refreed>>

-----------------------------------------------------------------------------
(* open_session allocates tz_cmd_data and, once the size is read, the copy *)
(* of the service's UUID (parameter 0), and has a label to leave by for    *)
(* either case; close_session allocates tz_cmd_data only.                  *)
Begin(blocks, where) ==
    /\ pc = "idle"
    /\ live' = blocks
    /\ pc' = where
    /\ UNCHANGED <<callVars, slot, userVars, kparam, ktypes, refreed, served>>

End(where, blocks) ==
    /\ pc = where
    /\ Kfree(blocks)
    /\ pc' \in {"done", "failed"}
    /\ UNCHANGED <<callVars, slot, userVars, kparam, ktypes, served>>

OpenSession == Begin({0, Cmd}, "open") \/ Begin({Cmd}, "opensize")
CloseSession == Begin({Cmd}, "close")

(* Mutant: the label that frees the command only.                          *)
OpenLeavesByLabel1 == End("open", {Cmd})

OpenFinish2 == End("open", {0, Cmd})

OpenFinish1 == End("opensize", {Cmd})
CloseFinish == End("close", {Cmd})

Next ==
    \/ Invoke \/ HeaderFault \/ CopyIn \/ CopyInFault \/ Submit \/ GiveUp
    \/ Serve \/ Refuse \/ OriginFault \/ CopyOut \/ CopyOutFault \/ Finish
    \/ Again
    \/ OpenSession \/ OpenFinish1 \/ OpenFinish2 \/ CloseSession \/ CloseFinish

Spec == Init /\ [][Next]_vars

-----------------------------------------------------------------------------
Cells == {"A", "a", "R", "0xa", "0xb"}
Params == [Slots -> ClientParams]

(* Every variable has the type its C object has.                           *)
TypeOK ==
    /\ pc \in {"idle", "copyin", "call", "copyout", "cleanup", "done",
               "failed", "open", "opensize", "close"}
    /\ command \in Commands /\ given \in BOOLEAN
    /\ op \in Params /\ tz \in Params /\ ktypes \in Params
    /\ slot \in 0..(Last + 1)
    /\ mem \in [Bufs -> [1..Longest -> Cells]]
    /\ val \in [Slots -> [1..2 -> Cells]]
    /\ kparam \in [Slots -> Seq(Cells)]
    /\ live \subseteq Slots \cup {Cmd}
    /\ refreed \in BOOLEAN /\ served \in BOOLEAN

(* Nothing is freed twice: neither a copy that the second loop freed when  *)
(* a later round faults, nor one that the first loop never came to.        *)
FreedOnce == ~refreed

(* After an operation ends its command block is back, and of its copies at *)
(* most those of inputs are lost: the labels at the end pass over them.    *)
(* Only a fault in the first loop, before param_type is set, loses others. *)
Ended == pc \in {"done", "failed"}
OutputsReclaimed ==
    Ended => \A b \in live :
                 b \in Slots /\ (ktypes = tz => tz[b].dir = "in")

(* What the client declared, read off its TEEC_Operation.                  *)
Declared(i) == op[i].dir \in {"out", "inout", "whole"}

(* No other output of the operation is a reference to parameter i's buffer.*)
Alone(i) ==
    op[i].kind = "memref" =>
        \A j \in Slots \ {i} :
            op[j].kind = "memref" /\ Declared(j) => op[j].buf # op[i].buf

(* What the client is to find in output i.                                 *)
Wanted(i) ==
    LET n == IF op[i].kind = "memref" THEN op[i].size ELSE 2
        old == Letters(n) IN
    IF command = "robust" THEN Answered(op[i], old)
    ELSE Cased(command, old)

Sees(i) == IF op[i].kind = "memref" THEN mem[op[i].buf] ELSE val[i]

(* The outputs are delivered in the order of the parameters and each as a  *)
(* whole: whatever faults, those before the round it faulted in hold what  *)
(* the service made of them (and past their size what was there), those    *)
(* behind it, and all when the service did not take the command, what they *)
(* held before.                                                            *)
(* (For outputs that share no buffer, of an operation that is not NULL.)   *)
DeliveredInOrder ==
    given => \A i \in Slots : Declared(i) /\ Alone(i) =>
        LET fresh == Letters(Len(Sees(i))) IN
        /\ served /\ i < slot =>
               Sees(i) = Over(Wanted(i), Len(Wanted(i)), fresh)
        /\ ~served \/ i > slot => Sees(i) = fresh

(* A call never changes what the client passed as an input only: neither   *)
(* its values nor a buffer that no output shares.                          *)
InputsKept ==
    given =>
        /\ \A i \in Slots : ~Declared(i) => val[i] = FreshVal[i]
        /\ \A b \in Bufs :
              (\A i \in Slots : op[i].kind = "memref" /\ Declared(i)
                                   => op[i].buf # b)
              => mem[b] = FreshMem[b]
=============================================================================
