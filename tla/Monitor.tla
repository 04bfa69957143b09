------------------------------ MODULE Monitor ------------------------------
(***************************************************************************)
(* The registers of the core, as the monitor (arch/arm/armv7/monitor.c,    *)
(* monitor_asm.S, monitor_exception_handler.c) moves them between the two  *)
(* worlds and the svc handler (start.S, tee_scheduler.c) between T-OS's    *)
(* tasks.  When which call is made is TzCall's subject; here is what       *)
(* becomes of the registers, all of them, banks included.                  *)
(*                                                                         *)
(* A word is a pair: who put it there, and a name.  Code that runs may put *)
(* anything in its registers: a fresh word <<tag, register>> in each.      *)
(*                                                                         *)
(* The pc and cpsr of what an exception interrupts are registers "pc" and  *)
(* "cpsr" here; the exception finds them in lr and spsr of its own mode.   *)
(* pc is where the code goes on: behind the smc or svc, and, because the   *)
(* abort handler takes 4 off, behind the load that faulted.                *)
(*                                                                         *)
(* ns        the NS bit of the SCR                                         *)
(* launched  the main task is past LaunchNonSecure                         *)
(* halted    T-OS loops for ever in the data abort handler                 *)
(* reg       the core's registers                                          *)
(* secure, nonsecure                                                       *)
(*           g_secure_context and g_nonsecure_context, word by word        *)
(* task      whose registers T-OS computes in, tcb the core_regs of tasks  *)
(* tosLeft, nsLeft, taskLeft                                               *)
(*           the registers at the last smc of T-OS, at the last smc of the *)
(*           client, and at each task's last svc (history)                 *)
(***************************************************************************)
EXTENDS Integers, Sequences

CONSTANTS Services,     \* tasks of sessions
          MainTask,
          Destinations, \* destination registers of loads, by number
          NsTags,       \* marks of words a nonsecure program computes
          TosTags       \* marks of words T-OS computes

ASSUME MonitorAssumption ==
    MainTask \notin Services /\ Destinations \subseteq 0..15

VARIABLES ns, launched, halted, reg, secure, nonsecure, task, tcb,
          tosLeft, nsLeft, taskLeft
monitorVars == <<ns, launched, halted, reg, secure, nonsecure, task, tcb,
          tosLeft, nsLeft, taskLeft>>

Tasks == Services \cup {MainTask}
Common == <<"r0", "r1", "r2", "r3", "r4", "r5", "r6", "r7",
            "r8", "r9", "r10", "r11", "r12">>
Usr == <<"sp_usr", "lr_usr", "cpsr">>
Fiq == <<"r8_fiq", "r9_fiq", "r10_fiq", "r11_fiq", "r12_fiq",
         "sp_fiq", "lr_fiq", "spsr_fiq">>
Irq == <<"sp_irq", "lr_irq", "spsr_irq">>
Svc == <<"sp_svc", "lr_svc", "spsr_svc">>
Abt == <<"sp_abt", "lr_abt", "spsr_abt">>
Undef == <<"sp_undef", "lr_undef", "spsr_undef">>

(* struct OS_CONTEXT.                                                      *)
Layout == Common \o Usr \o Fiq \o Irq \o Svc \o Abt \o Undef \o <<"pc">>

Registers == {Layout[k] : k \in DOMAIN Layout}

(* What a register may hold.                                               *)
Words == ({"0", "arg", "boot", "linux", "mem", "new", "scr", "sys"}
             \cup NsTags \cup TosTags)
         \X (Registers \cup {"0", "ea", "launch", "ns", "tz_api",
                             "tz_api_return", "value"})
Zero == <<"0", "0">>

(* Mutant: lr_mon is stored first.                                         *)
SaveOrderPcFirst ==
    <<"pc">> \o Common \o Usr \o Fiq \o Irq \o Svc \o Abt \o Undef

(* SAVE_CONTEXT: the common registers, then mode by mode, lr_mon last.     *)
SaveOrder == Common \o Usr \o Fiq \o Irq \o Svc \o Abt \o Undef \o <<"pc">>

(* Mutant of RestoreOrder: abort mode before supervisor mode.              *)
RestoreOrderAbtFirst ==
    Common \o Usr \o Fiq \o Irq \o Abt \o Svc \o Undef \o <<"pc">>

(* RESTORE_CONTEXT reads on from word to word, and stores by mode.         *)
RestoreOrder ==
    Common \o Usr \o Fiq \o Irq \o Svc \o Abt \o Undef \o <<"pc">>

Place(order, r) == CHOOSE k \in DOMAIN order : order[k] = r

SaveContext(rf) == [k \in DOMAIN SaveOrder |-> rf[SaveOrder[k]]]
RestoreContext(c) == [r \in Registers |-> c[Place(RestoreOrder, r)]]

(* A field of an OS_CONTEXT in C.                                          *)
Field(c, r) == c[Place(Layout, r)]
SetField(c, r, w) == [c EXCEPT ![Place(Layout, r)] = w]

-----------------------------------------------------------------------------
(* CPU_CORE_REGS.  The svc handler stores into g_temp_regs and loads from  *)
(* it in this order; TaskSwitch moves them to and from a task's core_regs. *)
(* Mutant: lr_svc is read before the handler has popped it back.           *)
TempPcLost == Common \o <<"sp_usr", "lr_usr", "lr_usr", "cpsr">>

TempStored == Common \o <<"sp_usr", "lr_usr", "pc", "cpsr">>

TempLoaded == Common \o <<"sp_usr", "lr_usr", "pc", "cpsr">>

TaskRegisters == {TempLoaded[k] : k \in DOMAIN TempLoaded}

StoreTemp(rf) == [k \in DOMAIN TempStored |-> rf[TempStored[k]]]

(* The handler leaves with the task's pc and spsr in lr_svc and spsr_svc.  *)
LoadTemp(rf, c) ==
    [r \in Registers |->
        CASE r \in TaskRegisters -> c[Place(TempLoaded, r)]
          [] r = "lr_svc" -> c[Place(TempLoaded, "pc")]
          [] r = "spsr_svc" -> c[Place(TempLoaded, "cpsr")]
          [] OTHER -> rf[r]]

(* TaskCreate's core_regs.                                                 *)
NewTask == [k \in DOMAIN TempLoaded |-> <<"new", TempLoaded[k]>>]

SMC_ARG_LAUNCH_NON_SECURE == <<"arg", "launch">>
SMC_ARG_TZ_API            == <<"arg", "tz_api">>
SMC_ARG_TZ_API_RETURN     == <<"arg", "tz_api_return">>

(* The end of _restore_nonsecure_context sets NS and EA by way of r1, r2.  *)
SetScr(rf) == [rf EXCEPT !["r1"] = <<"scr", "ns">>, !["r2"] = <<"scr", "ea">>]

(* smc by code with registers rf, g_nonsecure_context being n.             *)
Smc(rf, n) ==
    \/ /\ rf["r0"] = SMC_ARG_TZ_API                        \* _call_tz_api
       /\ nonsecure' = SaveContext(rf)
       /\ ns' = FALSE
       /\ reg' = RestoreContext(secure)
       /\ UNCHANGED secure
    \/ /\ rf["r0"] \in {SMC_ARG_LAUNCH_NON_SECURE,         \* _launch_non_secure
                         SMC_ARG_TZ_API_RETURN}
       /\ secure' = SaveContext(rf)
       /\ nonsecure' = n
       /\ ns' = TRUE
       /\ reg' = SetScr(RestoreContext(n))

-----------------------------------------------------------------------------
MonitorInit ==
    /\ ns = FALSE /\ launched = FALSE /\ halted = FALSE
    /\ secure = [k \in DOMAIN Layout |-> Zero]
    /\ nonsecure = [k \in DOMAIN Layout |-> Zero]
    /\ reg = LoadTemp([r \in Registers |-> <<"boot", r>>], NewTask)
    /\ task = MainTask
    /\ tcb = [t \in Tasks |-> NewTask]
    /\ tosLeft = reg /\ nsLeft = reg /\ taskLeft = [t \in Tasks |-> reg]

Executes(secureWorld) == ns = ~secureWorld /\ ~halted

(* T-OS computes in the registers of a task, a client in any.              *)
TosComputes ==
    /\ Executes(TRUE)
    /\ \E tag \in TosTags :
          reg' = [r \in Registers |->
                     IF r \in TaskRegisters THEN <<tag, r>> ELSE reg[r]]
    /\ UNCHANGED <<ns, launched, halted, secure, nonsecure, task, tcb,
                   tosLeft, nsLeft, taskLeft>>

NsComputes ==
    /\ Executes(FALSE)
    /\ \E tag \in NsTags : reg' = [r \in Registers |-> <<tag, r>>]
    /\ UNCHANGED <<ns, launched, halted, secure, nonsecure, task, tcb,
                   tosLeft, nsLeft, taskLeft>>

(* Every field but r1 and r2 is assigned; pc is where the loader put Linux.*)
LaunchFields(c) ==
    [k \in DOMAIN Layout |->
        CASE Layout[k] \in {"r1", "r2"} -> c[k]
          [] Layout[k] = "cpsr" -> <<"sys", "cpsr">>
          [] Layout[k] = "pc" -> <<"linux", "pc">>
          [] OTHER -> Zero]

LaunchNonSecure ==
    /\ Executes(TRUE) /\ ~launched
    /\ LET rf == [reg EXCEPT !["r0"] = SMC_ARG_LAUNCH_NON_SECURE] IN
       Smc(rf, LaunchFields(nonsecure)) /\ tosLeft' = rf
    /\ launched' = TRUE
    /\ UNCHANGED <<halted, task, tcb, nsLeft, taskLeft>>

(* CallTZFunction's smc: the command's address is in r1.                   *)
CallTZFunction ==
    /\ Executes(FALSE)
    /\ LET rf == [reg EXCEPT !["r0"] = SMC_ARG_TZ_API, !["r2"] = Zero] IN
       Smc(rf, nonsecure) /\ nsLeft' = rf
    /\ UNCHANGED <<launched, halted, task, tcb, tosLeft, taskLeft>>

(* TZApiReturn: its argument, in r0, becomes the client's r0.              *)
TZApiReturn ==
    /\ Executes(TRUE) /\ launched /\ task = MainTask
    /\ LET rf == [reg EXCEPT !["r0"] = SMC_ARG_TZ_API_RETURN] IN
       Smc(rf, SetField(nonsecure, "r0", reg["r0"])) /\ tosLeft' = rf
    /\ UNCHANGED <<launched, halted, task, tcb, nsLeft, taskLeft>>

(* TaskSchedule's svc and TaskSwitch to another task: the main task starts *)
(* a session's, and that one hands back.                                   *)
TaskSwitch ==
    /\ Executes(TRUE) /\ launched
    /\ task' \in Tasks \ {task} /\ MainTask \in {task, task'}
    /\ tcb' = [tcb EXCEPT ![task] = StoreTemp(reg)]
    /\ reg' = LoadTemp(reg, tcb[task'])
    /\ taskLeft' = [taskLeft EXCEPT ![task] = reg]
    /\ UNCHANGED <<ns, launched, halted, secure, nonsecure, tosLeft, nsLeft>>

(* An opened session's task has never run.                                 *)
TaskCreate ==
    /\ Executes(TRUE) /\ launched /\ task = MainTask
    /\ \E t \in Services :
          /\ tcb' = [tcb EXCEPT ![t] = NewTask]
          /\ taskLeft' = [taskLeft EXCEPT ![t] = LoadTemp(reg, NewTask)]
    /\ UNCHANGED <<ns, launched, halted, reg, secure, nonsecure, task,
                   tosLeft, nsLeft>>

-----------------------------------------------------------------------------
(* A nonsecure access as the handler tells them apart: bit 20 of the       *)
(* instruction set or not, and its bits 12 to 15.  With bit 20 set it is   *)
(* carried out as LDR or LDRB, also if it is LDM, LDRH or has writeback.   *)
Loads == [op : {"load", "other"}, rd : Destinations]

(* Mutant: register rd is taken for word rd, counted from 1.               *)
WordBelow(rd) == IF rd = 0 THEN 1 ELSE rd

(* The word the handler writes, at context + 4*rd.                         *)
WordOf(rd) == rd + 1

(* Mutant: the abort saves the registers in g_secure_context.              *)
AbortInSecure(l) ==
    /\ secure' = [SaveContext(reg) EXCEPT ![WordOf(l.rd)] = <<"mem", "value">>]
    /\ nonsecure' = nonsecure
    /\ reg' = SetScr(RestoreContext(secure'))

(* The load l that the handler decodes is carried out on the saved         *)
(* registers, and the client goes on behind it.                            *)
Emulate(l) ==
    /\ nonsecure' =
          [SaveContext(reg) EXCEPT ![WordOf(l.rd)] = <<"mem", "value">>]
    /\ secure' = secure
    /\ reg' = SetScr(RestoreContext(nonsecure'))

(* The handler finds the word before where the next instruction lies in    *)
(* memory.  That is the load l that faulted when both lie in one page; the *)
(* word before the next page's frame may be anything.                      *)
Decoded(l, onePage) == IF onePage THEN {l} ELSE Loads

(* An external data abort of a client's access to one of the registers in  *)
(* ro_mem.                                                                 *)
DataAbort(l, onePage) ==
    /\ Executes(FALSE)
    /\ \E seen \in Decoded(l, onePage) :
          IF seen.op = "other"
          THEN /\ halted' = TRUE /\ nonsecure' = SaveContext(reg) /\ ns' = FALSE
               /\ UNCHANGED <<reg, secure>>
          ELSE Emulate(seen) /\ UNCHANGED <<ns, halted>>
    /\ UNCHANGED <<launched, task, tcb, tosLeft, nsLeft, taskLeft>>

(* Any other fault: the handler loops.                                     *)
OtherAbort ==
    /\ Executes(FALSE)
    /\ halted' = TRUE /\ nonsecure' = SaveContext(reg) /\ ns' = FALSE
    /\ UNCHANGED <<launched, reg, secure, task, tcb, tosLeft, nsLeft, taskLeft>>

MonitorNext ==
    \/ TosComputes \/ NsComputes
    \/ LaunchNonSecure \/ CallTZFunction \/ TZApiReturn
    \/ TaskSwitch \/ TaskCreate
    \/ \E l \in Loads, onePage \in BOOLEAN : DataAbort(l, onePage)
    \/ OtherAbort

MonitorSpec == MonitorInit /\ [][MonitorNext]_monitorVars

-----------------------------------------------------------------------------
(* Every variable has the type its C object has: contexts of as many words *)
(* as OS_CONTEXT, TCBs of as many as CPU_CORE_REGS.                        *)
MonitorTypeOK ==
    /\ ns \in BOOLEAN /\ launched \in BOOLEAN /\ halted \in BOOLEAN
    /\ reg \in [Registers -> Words]
    /\ secure \in [DOMAIN Layout -> Words]
    /\ nonsecure \in [DOMAIN Layout -> Words]
    /\ task \in Tasks
    /\ tcb \in [Tasks -> [DOMAIN TempLoaded -> Words]]
    /\ tosLeft \in [Registers -> Words] /\ nsLeft \in [Registers -> Words]
    /\ taskLeft \in [Tasks -> [Registers -> Words]]

(* While T-OS serves a call, whatever its tasks do, g_nonsecure_context    *)
(* has the client's registers, each in the field that C code knows it by:  *)
(* GetNonsecureCommand reads the address the client passed in r1.          *)
CallerKept ==
    launched /\ ~ns /\ ~halted =>
        \A r \in Registers : Field(nonsecure, r) = nsLeft[r]

(* A call resumes T-OS with every register, those of all modes included,   *)
(* as its last smc left it, however the client used them in between and    *)
(* however many of its loads were emulated.                                *)
TosResumes == [][ns /\ ~ns' /\ ~halted' => reg' = tosLeft]_monitorVars

(* A client finds the result in r0 and every other register as it was at   *)
(* its smc, but for r1 and r2, whatever tasks ran for it.                  *)
CallerResumes ==
    [][~ns /\ ns' /\ launched =>
          /\ reg'["r0"] = reg["r0"]
          /\ \A r \in Registers \ {"r0", "r1", "r2"} : reg'[r] = nsLeft[r]]_monitorVars

(* A task goes on with the registers its last svc left, or TaskCreate gave *)
(* it, after any switches of tasks and worlds in between.                  *)
TaskResumes ==
    [][task' # task =>
          \A r \in TaskRegisters : reg'[r] = taskLeft[task'][r]]_monitorVars

(* An emulated load writes its register of r0 to r12 and no other, but for *)
(* r1 and r2, if the load and its successor lie in one page.               *)
AbortPrecise ==
    [][\A l \in Loads : DataAbort(l, TRUE) /\ ~halted' /\ l.rd <= 12 =>
          \A r \in Registers \ {"r1", "r2"} :
              reg'[r] = IF r = Common[l.rd + 1] THEN <<"mem", "value">>
                                                ELSE reg[r]]_monitorVars

(* monitor_asm.S:231 says of every return to the client that its registers *)
(* are those with which it came into the monitor: after an emulated load   *)
(* only the load's register may differ.                                    *)
AbortTransparent ==
    [][\A l \in Loads : DataAbort(l, TRUE) /\ ~halted' /\ l.rd <= 12 =>
          \A r \in Registers \ {Common[l.rd + 1]} : reg'[r] = reg[r]]_monitorVars
=============================================================================
