--------------------------- MODULE MonitorProof ---------------------------
(***************************************************************************)
(* Proofs about Monitor, for any number of tasks and any words.            *)
(*                                                                         *)
(* The invariant: while the client has the core, g_secure_context has the  *)
(* registers of T-OS's last smc; while T-OS has it, g_nonsecure_context    *)
(* has the client's; a task that does not run has its registers in its     *)
(* TCB.  All rests on SAVE_CONTEXT and RESTORE_CONTEXT being inverse,      *)
(* that is on their going through the modes in the same order as the       *)
(* fields of OS_CONTEXT.                                                   *)
(***************************************************************************)
EXTENDS Monitor, TLAPS

TosKept == ns => secure = SaveContext(tosLeft)
ClientKept == launched /\ ~ns /\ ~halted => nonsecure = SaveContext(nsLeft)
TasksKept ==
    \A t \in Tasks \ {task} : \A r \in TaskRegisters :
        tcb[t][Place(TempLoaded, r)] = taskLeft[t][r]
IInv == MonitorTypeOK /\ TosKept /\ ClientKept /\ TasksKept

-----------------------------------------------------------------------------
(* The place of a register holds that register, in each of the orders.     *)
LEMMA LayoutPlace ==
    \A r \in Registers : /\ Place(Layout, r) \in DOMAIN Layout
                         /\ Layout[Place(Layout, r)] = r
  BY Zenon DEF Place, Registers

LEMMA TempPlace ==
    \A r \in TaskRegisters : /\ Place(TempLoaded, r) \in DOMAIN TempLoaded
                             /\ TempLoaded[Place(TempLoaded, r)] = r
  BY Zenon DEF Place, TaskRegisters

LEMMA SameOrders == SaveOrder = Layout /\ RestoreOrder = Layout
  BY DEF SaveOrder, RestoreOrder, Layout

LEMMA SameTemp == TempStored = TempLoaded
  BY DEF TempStored, TempLoaded

(* RESTORE_CONTEXT undoes SAVE_CONTEXT.                                    *)
LEMMA RestoreSave ==
  ASSUME NEW W, NEW rf \in [Registers -> W]
  PROVE  RestoreContext(SaveContext(rf)) = rf
<1>1. ASSUME NEW r \in Registers
      PROVE  RestoreContext(SaveContext(rf))[r] = rf[r]
  BY <1>1, LayoutPlace, SameOrders DEF RestoreContext, SaveContext
<1> QED
  BY <1>1 DEF RestoreContext

LEMMA SaveType ==
  ASSUME NEW rf \in [Registers -> Words]
  PROVE  SaveContext(rf) \in [DOMAIN Layout -> Words]
<1>1. \A k \in DOMAIN Layout : Layout[k] \in Registers
  BY Zenon DEF Registers
<1> QED
  BY <1>1, SameOrders DEF SaveContext

LEMMA RestoreType ==
  ASSUME NEW c \in [DOMAIN Layout -> Words]
  PROVE  RestoreContext(c) \in [Registers -> Words]
  BY LayoutPlace, SameOrders DEF RestoreContext

(* Registers that the code names.                                          *)
LEMMA Named ==
    /\ {"r0", "r1", "r2", "lr_svc", "spsr_svc"} \subseteq Registers
    /\ {"pc", "cpsr"} \subseteq TaskRegisters
    /\ "lr_svc" \notin TaskRegisters /\ "spsr_svc" \notin TaskRegisters
<1>1. {"r0", "r1", "r2", "lr_svc", "spsr_svc"} \subseteq Registers
  BY DEF Registers, Layout, Common, Usr, Fiq, Irq, Svc, Abt, Undef
<1>2. {"pc", "cpsr"} \subseteq TaskRegisters
  BY DEF TaskRegisters, TempLoaded, Common
<1>3. "lr_svc" \notin TaskRegisters /\ "spsr_svc" \notin TaskRegisters
  BY DEF TaskRegisters, TempLoaded, Common
<1> QED
  BY <1>1, <1>2, <1>3

LEMMA TaskSubset == TaskRegisters \subseteq Registers
  BY DEF Registers, TaskRegisters, TempLoaded, Layout, Common, Usr, Fiq, Irq,
         Svc, Abt, Undef

LEMMA ScrType ==
  ASSUME NEW rf \in [Registers -> Words]
  PROVE  /\ SetScr(rf) \in [Registers -> Words]
         /\ \A r \in Registers \ {"r1", "r2"} : SetScr(rf)[r] = rf[r]
<1>1. <<"scr", "ns">> \in Words /\ <<"scr", "ea">> \in Words
  BY DEF Words
<1> QED
  BY <1>1, Named DEF SetScr

LEMMA SetFieldType ==
  ASSUME NEW c \in [DOMAIN Layout -> Words], NEW r \in Registers,
         NEW w \in Words
  PROVE  /\ SetField(c, r, w) \in [DOMAIN Layout -> Words]
         /\ RestoreContext(SetField(c, r, w)) =
                [RestoreContext(c) EXCEPT ![r] = w]
<1>1. SetField(c, r, w) \in [DOMAIN Layout -> Words]
  BY DEF SetField
<1>2. ASSUME NEW q \in Registers
      PROVE  RestoreContext(SetField(c, r, w))[q] =
                IF q = r THEN w ELSE RestoreContext(c)[q]
  <2>1. Place(Layout, q) = Place(Layout, r) => q = r
    BY LayoutPlace
  <2> QED
    BY <1>2, <2>1, LayoutPlace, SameOrders DEF RestoreContext, SetField
<1>3. RestoreContext(c) \in [Registers -> Words]
  BY RestoreType
<1>4. RestoreContext(SetField(c, r, w)) \in [Registers -> Words]
  BY <1>1, RestoreType
<1> QED
  BY <1>1, <1>2, <1>3, <1>4

LEMMA TempTypes ==
  ASSUME NEW rf \in [Registers -> Words], NEW c \in [DOMAIN TempLoaded -> Words]
  PROVE  /\ StoreTemp(rf) \in [DOMAIN TempLoaded -> Words]
         /\ LoadTemp(rf, c) \in [Registers -> Words]
         /\ \A r \in TaskRegisters :
                /\ LoadTemp(rf, c)[r] = c[Place(TempLoaded, r)]
                /\ StoreTemp(rf)[Place(TempLoaded, r)] = rf[r]
<1>1. \A k \in DOMAIN TempLoaded : TempLoaded[k] \in Registers
  BY TaskSubset, Zenon DEF TaskRegisters
<1>2. StoreTemp(rf) \in [DOMAIN TempLoaded -> Words]
  BY <1>1, SameTemp DEF StoreTemp
<1>3. LoadTemp(rf, c) \in [Registers -> Words]
  <2>1. \A r \in Registers : LoadTemp(rf, c)[r] \in Words
    BY TempPlace, Named DEF LoadTemp
  <2> QED
    BY <2>1 DEF LoadTemp
<1>4. ASSUME NEW r \in TaskRegisters
      PROVE  /\ LoadTemp(rf, c)[r] = c[Place(TempLoaded, r)]
             /\ StoreTemp(rf)[Place(TempLoaded, r)] = rf[r]
<2>1. r \in Registers /\ r # "lr_svc" /\ r # "spsr_svc"
  BY <1>4, TaskSubset, Named
<2>2. LoadTemp(rf, c)[r] = c[Place(TempLoaded, r)]
  BY <1>4, <2>1 DEF LoadTemp
<2>3. StoreTemp(rf)[Place(TempLoaded, r)] = rf[r]
  BY <1>4, TempPlace, SameTemp DEF StoreTemp
<2> QED
  BY <2>2, <2>3
<1> QED
  BY <1>2, <1>3, <1>4

LEMMA NewTaskType == NewTask \in [DOMAIN TempLoaded -> Words]
<1>1. \A k \in DOMAIN TempLoaded : TempLoaded[k] \in Registers
  BY TaskSubset, Zenon DEF TaskRegisters
<1> QED
  BY <1>1 DEF NewTask, Words

LEMMA LayoutNames == \A k \in DOMAIN Layout : Layout[k] \in Registers
  BY Zenon DEF Registers

-----------------------------------------------------------------------------
(* The three requests are different words.                                 *)
LEMMA Requests ==
    /\ SMC_ARG_TZ_API \notin {SMC_ARG_LAUNCH_NON_SECURE, SMC_ARG_TZ_API_RETURN}
    /\ {SMC_ARG_TZ_API, SMC_ARG_LAUNCH_NON_SECURE, SMC_ARG_TZ_API_RETURN}
          \subseteq Words
  BY DEF SMC_ARG_TZ_API, SMC_ARG_LAUNCH_NON_SECURE, SMC_ARG_TZ_API_RETURN, Words

LEMMA ZeroWord == Zero \in Words
  BY DEF Zero, Words

LEMMA LaunchType ==
  ASSUME NEW c \in [DOMAIN Layout -> Words]
  PROVE  LaunchFields(c) \in [DOMAIN Layout -> Words]
<1>2. <<"sys", "cpsr">> \in Words /\ <<"linux", "pc">> \in Words
  BY Named, TaskSubset DEF Words
<1> QED
  BY <1>2, ZeroWord DEF LaunchFields

-----------------------------------------------------------------------------
LEMMA InvInit == MonitorInit => IInv
<1> SUFFICES ASSUME MonitorInit PROVE IInv
  OBVIOUS
<1>1. [r \in Registers |-> <<"boot", r>>] \in [Registers -> Words]
  BY DEF Words
<1>2. reg \in [Registers -> Words]
  BY <1>1, NewTaskType, TempTypes DEF MonitorInit
<1>3. MonitorTypeOK
  BY <1>2, NewTaskType, ZeroWord DEF MonitorInit, MonitorTypeOK, Tasks
<1>4. TosKept /\ ClientKept
  BY DEF MonitorInit, TosKept, ClientKept
<1>5. TasksKept
  <2>1. \A r \in TaskRegisters : reg[r] = NewTask[Place(TempLoaded, r)]
    BY <1>1, NewTaskType, TempTypes DEF MonitorInit
  <2> QED
    BY <2>1 DEF MonitorInit, TasksKept
<1> QED
  BY <1>3, <1>4, <1>5 DEF IInv

(* What code computes, it computes in the registers of its own world.      *)
LEMMA ComputeStep ==
  ASSUME IInv, TosComputes \/ NsComputes
  PROVE  IInv'
<1>1. reg' \in [Registers -> Words]
  <2>1. CASE TosComputes
    BY <2>1 DEF TosComputes, IInv, MonitorTypeOK, Words
  <2>2. CASE NsComputes
    BY <2>2 DEF NsComputes, Words
  <2> QED
    BY <2>1, <2>2
<1>2. UNCHANGED <<ns, launched, halted, secure, nonsecure, task, tcb,
                 tosLeft, nsLeft, taskLeft>>
  BY DEF TosComputes, NsComputes
<1> QED
  BY <1>1, <1>2 DEF IInv, MonitorTypeOK, TosKept, ClientKept, TasksKept

LEMMA LaunchStep ==
  ASSUME IInv, LaunchNonSecure
  PROVE  IInv'
<1> DEFINE rf == [reg EXCEPT !["r0"] = SMC_ARG_LAUNCH_NON_SECURE]
<1>1. /\ rf \in [Registers -> Words]
      /\ rf["r0"] \in {SMC_ARG_LAUNCH_NON_SECURE, SMC_ARG_TZ_API_RETURN}
  BY Requests, Named DEF IInv, MonitorTypeOK
<1>2. Smc(rf, LaunchFields(nonsecure)) /\ tosLeft' = rf
  BY DEF LaunchNonSecure
<1>3. LaunchFields(nonsecure) \in [DOMAIN Layout -> Words]
  BY LaunchType DEF IInv, MonitorTypeOK
<1> HIDE DEF rf
<1>4. /\ secure' = SaveContext(rf) /\ nonsecure' = LaunchFields(nonsecure)
      /\ ns' = TRUE /\ reg' = SetScr(RestoreContext(LaunchFields(nonsecure)))
  BY <1>1, <1>2, Requests DEF Smc
<1>5. reg' \in [Registers -> Words]
  BY <1>3, <1>4, RestoreType, ScrType
<1>6. secure' \in [DOMAIN Layout -> Words]
  BY <1>1, <1>4, SaveType
<1>7. launched' = TRUE /\ UNCHANGED <<halted, task, tcb, nsLeft, taskLeft>>
  BY DEF LaunchNonSecure
<1> QED
  BY <1>1, <1>2, <1>3, <1>4, <1>5, <1>6, <1>7
     DEF IInv, MonitorTypeOK, TosKept, ClientKept, TasksKept

LEMMA CallStep ==
  ASSUME IInv, CallTZFunction
  PROVE  IInv' /\ reg' = tosLeft
<1> DEFINE rf == [reg EXCEPT !["r0"] = SMC_ARG_TZ_API, !["r2"] = Zero]
<1>1. rf \in [Registers -> Words] /\ rf["r0"] = SMC_ARG_TZ_API
  BY Requests, Named, ZeroWord DEF IInv, MonitorTypeOK
<1>2. Smc(rf, nonsecure) /\ nsLeft' = rf
  BY DEF CallTZFunction
<1>3. /\ ns = TRUE
      /\ UNCHANGED <<launched, halted, task, tcb, tosLeft, taskLeft>>
  BY DEF CallTZFunction, Executes, IInv, MonitorTypeOK
<1> HIDE DEF rf
<1>4. /\ nonsecure' = SaveContext(rf) /\ ns' = FALSE
      /\ reg' = RestoreContext(secure) /\ secure' = secure
  BY <1>1, <1>2, Requests DEF Smc
<1>5. reg' = tosLeft
  BY <1>3, <1>4, RestoreSave DEF IInv, TosKept, MonitorTypeOK
<1>6. nonsecure' \in [DOMAIN Layout -> Words]
  BY <1>1, <1>4, SaveType
<1> QED
  BY <1>1, <1>2, <1>3, <1>4, <1>5, <1>6
     DEF IInv, MonitorTypeOK, TosKept, ClientKept, TasksKept

LEMMA ReturnStep ==
  ASSUME IInv, TZApiReturn
  PROVE  /\ IInv'
         /\ reg'["r0"] = reg["r0"]
         /\ \A r \in Registers \ {"r0", "r1", "r2"} : reg'[r] = nsLeft[r]
<1> DEFINE rf == [reg EXCEPT !["r0"] = SMC_ARG_TZ_API_RETURN]
           n == SetField(nonsecure, "r0", reg["r0"])
<1>1. /\ rf \in [Registers -> Words]
      /\ rf["r0"] \in {SMC_ARG_LAUNCH_NON_SECURE, SMC_ARG_TZ_API_RETURN}
  BY Requests, Named DEF IInv, MonitorTypeOK
<1>2. Smc(rf, n) /\ tosLeft' = rf
  BY DEF TZApiReturn
<1>3. /\ ns = FALSE /\ launched = TRUE /\ halted = FALSE
      /\ UNCHANGED <<launched, halted, task, tcb, nsLeft, taskLeft>>
  BY DEF TZApiReturn, Executes, IInv, MonitorTypeOK
<1>4. nonsecure = SaveContext(nsLeft) /\ nsLeft \in [Registers -> Words]
  BY <1>3 DEF IInv, ClientKept, MonitorTypeOK
<1>5. /\ n \in [DOMAIN Layout -> Words]
      /\ RestoreContext(n) = [nsLeft EXCEPT !["r0"] = reg["r0"]]
  <2>1. "r0" \in Registers /\ reg["r0"] \in Words
    BY Named DEF IInv, MonitorTypeOK
  <2>2. nonsecure \in [DOMAIN Layout -> Words]
    BY DEF IInv, MonitorTypeOK
  <2>3. RestoreContext(nonsecure) = nsLeft
    BY <1>4, RestoreSave
  <2> QED
    BY <2>1, <2>2, <2>3, SetFieldType
<1> HIDE DEF rf, n
<1>6. /\ secure' = SaveContext(rf) /\ nonsecure' = n /\ ns' = TRUE
      /\ reg' = SetScr(RestoreContext(n))
  BY <1>1, <1>2, Requests DEF Smc
<1>7. /\ reg' \in [Registers -> Words]
      /\ \A r \in Registers \ {"r1", "r2"} : reg'[r] = RestoreContext(n)[r]
  BY <1>5, <1>6, RestoreType, ScrType
<1>8. secure' \in [DOMAIN Layout -> Words]
  BY <1>1, <1>6, SaveType
<1>9. IInv'
  BY <1>1, <1>2, <1>3, <1>5, <1>6, <1>7, <1>8
     DEF IInv, MonitorTypeOK, TosKept, ClientKept, TasksKept
<1>10. reg'["r0"] = reg["r0"]
  BY <1>4, <1>5, <1>7, Named
<1>11. \A r \in Registers \ {"r0", "r1", "r2"} : reg'[r] = nsLeft[r]
  BY <1>4, <1>5, <1>7
<1> QED
  BY <1>9, <1>10, <1>11

LEMMA SwitchStep ==
  ASSUME IInv, TaskSwitch
  PROVE  /\ IInv'
         /\ \A r \in TaskRegisters : reg'[r] = taskLeft[task'][r]
<1>1. /\ task' \in Tasks /\ task' # task /\ task \in Tasks
      /\ tcb' = [tcb EXCEPT ![task] = StoreTemp(reg)]
      /\ reg' = LoadTemp(reg, tcb[task'])
      /\ taskLeft' = [taskLeft EXCEPT ![task] = reg]
      /\ UNCHANGED <<ns, launched, halted, secure, nonsecure, tosLeft, nsLeft>>
  BY DEF TaskSwitch, IInv, MonitorTypeOK
<1>2. /\ reg \in [Registers -> Words] /\ tcb[task'] \in [DOMAIN TempLoaded -> Words]
      /\ tcb \in [Tasks -> [DOMAIN TempLoaded -> Words]]
      /\ taskLeft \in [Tasks -> [Registers -> Words]]
  BY <1>1 DEF IInv, MonitorTypeOK
<1>3. /\ StoreTemp(reg) \in [DOMAIN TempLoaded -> Words]
      /\ reg' \in [Registers -> Words]
      /\ \A r \in TaskRegisters :
            /\ reg'[r] = tcb[task'][Place(TempLoaded, r)]
            /\ StoreTemp(reg)[Place(TempLoaded, r)] = reg[r]
  BY <1>1, <1>2, TempTypes
<1>4. MonitorTypeOK'
  BY <1>1, <1>2, <1>3 DEF IInv, MonitorTypeOK
<1>5. TasksKept'
  <2> SUFFICES ASSUME NEW t \in Tasks, t # task', NEW r \in TaskRegisters
               PROVE  tcb'[t][Place(TempLoaded, r)] = taskLeft'[t][r]
    BY DEF TasksKept
  <2>1. CASE t = task
    BY <2>1, <1>1, <1>2, <1>3
  <2>2. CASE t # task
    BY <2>2, <1>1, <1>2 DEF IInv, TasksKept
  <2> QED
    BY <2>1, <2>2
<1>6. TosKept' /\ ClientKept'
  BY <1>1 DEF IInv, TosKept, ClientKept
<1>7. \A r \in TaskRegisters : reg'[r] = taskLeft[task'][r]
  BY <1>1, <1>3 DEF IInv, TasksKept
<1> QED
  BY <1>4, <1>5, <1>6, <1>7 DEF IInv

LEMMA CreateStep ==
  ASSUME IInv, TaskCreate
  PROVE  IInv'
<1>1. PICK t \in Services :
        /\ tcb' = [tcb EXCEPT ![t] = NewTask]
        /\ taskLeft' = [taskLeft EXCEPT ![t] = LoadTemp(reg, NewTask)]
  BY DEF TaskCreate
<1>2. /\ UNCHANGED <<ns, launched, halted, reg, secure, nonsecure, task,
                     tosLeft, nsLeft>>
      /\ reg \in [Registers -> Words]
      /\ tcb \in [Tasks -> [DOMAIN TempLoaded -> Words]]
      /\ taskLeft \in [Tasks -> [Registers -> Words]]
  BY DEF TaskCreate, IInv, MonitorTypeOK
<1>3. /\ NewTask \in [DOMAIN TempLoaded -> Words]
      /\ LoadTemp(reg, NewTask) \in [Registers -> Words]
      /\ \A r \in TaskRegisters :
            LoadTemp(reg, NewTask)[r] = NewTask[Place(TempLoaded, r)]
  BY <1>2, NewTaskType, TempTypes
<1>4. MonitorTypeOK'
  BY <1>1, <1>2, <1>3 DEF IInv, MonitorTypeOK
<1>5. TasksKept'
  BY <1>1, <1>2, <1>3 DEF IInv, TasksKept, Tasks
<1>6. TosKept' /\ ClientKept'
  BY <1>2 DEF IInv, TosKept, ClientKept
<1> QED
  BY <1>4, <1>5, <1>6 DEF IInv

(* Word rd of a context is register rd, up to r12.                         *)
LEMMA WordPlace ==
    \A rd \in 0..12 : /\ Common[rd + 1] \in Registers
                      /\ Place(Layout, Common[rd + 1]) = WordOf(rd)
<1>1. ASSUME NEW rd \in 0..12, NEW k \in DOMAIN Layout
      PROVE  Layout[k] = Common[rd + 1] <=> k = rd + 1
  BY <1>1 DEF Layout, Common, Usr, Fiq, Irq, Svc, Abt, Undef
<1>2. \A rd \in 0..12 : rd + 1 \in DOMAIN Layout
  BY DEF Layout, Common, Usr, Fiq, Irq, Svc, Abt, Undef
<1>3. ASSUME NEW rd \in 0..12
      PROVE  Common[rd + 1] \in Registers
  BY <1>1, <1>2, LayoutNames
<1> QED
  BY <1>1, <1>3, LayoutPlace DEF WordOf

LEMMA DomainLayout == DOMAIN Layout = 1..37
  BY DEF Layout, Common, Usr, Fiq, Irq, Svc, Abt, Undef

LEMMA EmulateStep ==
  ASSUME IInv, NEW l \in Loads, Emulate(l)
  PROVE  /\ nonsecure' \in [DOMAIN Layout -> Words]
         /\ reg' \in [Registers -> Words]
         /\ secure' = secure
         /\ l.rd <= 12 =>
              \A r \in Registers \ {"r1", "r2"} :
                 reg'[r] = IF r = Common[l.rd + 1] THEN <<"mem", "value">>
                                                   ELSE reg[r]
<1> DEFINE w == <<"mem", "value">>
<1>1. /\ l.rd \in 0..15 /\ WordOf(l.rd) \in DOMAIN Layout /\ w \in Words
  <2>1. l.rd \in 0..15
    BY MonitorAssumption DEF Loads
  <2>2. w \in Words
    BY DEF Words
  <2> QED
    BY <2>1, <2>2, DomainLayout DEF WordOf
<1>2. reg \in [Registers -> Words] /\ SaveContext(reg) \in [DOMAIN Layout -> Words]
  BY SaveType DEF IInv, MonitorTypeOK
<1>3. /\ nonsecure' = [SaveContext(reg) EXCEPT ![WordOf(l.rd)] = w]
      /\ secure' = secure
      /\ reg' = SetScr(RestoreContext(nonsecure'))
  BY DEF Emulate
<1>4. nonsecure' \in [DOMAIN Layout -> Words]
  BY <1>1, <1>2, <1>3
<1>5. /\ reg' \in [Registers -> Words]
      /\ \A r \in Registers \ {"r1", "r2"} :
            reg'[r] = RestoreContext(nonsecure')[r]
  <2> DEFINE c == nonsecure'
  <2>1. c \in [DOMAIN Layout -> Words] /\ reg' = SetScr(RestoreContext(c))
    BY <1>3, <1>4
  <2> HIDE DEF c
  <2>2. RestoreContext(c) \in [Registers -> Words]
    BY <2>1, RestoreType
  <2>3. /\ reg' \in [Registers -> Words]
        /\ \A r \in Registers \ {"r1", "r2"} : reg'[r] = RestoreContext(c)[r]
    BY <2>1, <2>2, ScrType
  <2> QED
    BY <2>3 DEF c
<1>6. ASSUME l.rd <= 12, NEW r \in Registers \ {"r1", "r2"}
      PROVE  reg'[r] = IF r = Common[l.rd + 1] THEN w ELSE reg[r]
  <2> DEFINE q == Common[l.rd + 1]
  <2>1. q \in Registers /\ Place(Layout, q) = WordOf(l.rd)
    BY <1>1, <1>6, WordPlace
  <2>2. nonsecure' = SetField(SaveContext(reg), q, w)
    BY <1>3, <2>1 DEF SetField
  <2> HIDE DEF q, w
  <2>3. RestoreContext(nonsecure') = [RestoreContext(SaveContext(reg)) EXCEPT ![q] = w]
    BY <1>1, <1>2, <2>1, <2>2, SetFieldType
  <2>4. RestoreContext(nonsecure') = [reg EXCEPT ![q] = w]
    BY <1>2, <2>3, RestoreSave
  <2>5. reg'[r] = IF r = q THEN w ELSE reg[r]
    BY <1>2, <1>5, <1>6, <2>1, <2>4
  <2> QED
    BY <2>5 DEF q, w
<1> QED
  BY <1>3, <1>4, <1>5, <1>6

LEMMA AbortStep ==
  ASSUME IInv, NEW l \in Loads, NEW onePage \in BOOLEAN, DataAbort(l, onePage)
  PROVE  IInv'
<1>1. PICK seen \in Decoded(l, onePage) :
        IF seen.op = "other"
        THEN /\ halted' = TRUE /\ nonsecure' = SaveContext(reg) /\ ns' = FALSE
             /\ UNCHANGED <<reg, secure>>
        ELSE Emulate(seen) /\ UNCHANGED <<ns, halted>>
  BY DEF DataAbort
<1>2. /\ seen \in Loads /\ ns = TRUE
      /\ UNCHANGED <<launched, task, tcb, tosLeft, nsLeft, taskLeft>>
  BY DEF DataAbort, Decoded, Executes, IInv, MonitorTypeOK
<1>3. CASE seen.op = "other"
  <2>1. nonsecure' \in [DOMAIN Layout -> Words]
    BY <1>1, <1>3, SaveType DEF IInv, MonitorTypeOK
  <2> QED
    BY <1>1, <1>2, <1>3, <2>1
       DEF IInv, MonitorTypeOK, TosKept, ClientKept, TasksKept
<1>4. CASE seen.op # "other"
  <2>1. Emulate(seen) /\ UNCHANGED <<ns, halted>>
    BY <1>1, <1>4
  <2>2. /\ nonsecure' \in [DOMAIN Layout -> Words]
        /\ reg' \in [Registers -> Words] /\ secure' = secure
    BY <1>2, <2>1, EmulateStep
  <2> QED
    BY <1>2, <2>1, <2>2 DEF IInv, MonitorTypeOK, TosKept, ClientKept, TasksKept
<1> QED
  BY <1>3, <1>4

LEMMA OtherAbortStep ==
  ASSUME IInv, OtherAbort
  PROVE  IInv'
<1>1. nonsecure' \in [DOMAIN Layout -> Words]
  BY SaveType DEF OtherAbort, IInv, MonitorTypeOK
<1> QED
  BY <1>1 DEF OtherAbort, IInv, MonitorTypeOK, TosKept, ClientKept, TasksKept

LEMMA InvStep == IInv /\ [MonitorNext]_monitorVars => IInv'
<1> SUFFICES ASSUME IInv, [MonitorNext]_monitorVars PROVE IInv'
  OBVIOUS
<1>1. CASE TosComputes \/ NsComputes
  BY <1>1, ComputeStep
<1>2. CASE LaunchNonSecure
  BY <1>2, LaunchStep
<1>3. CASE CallTZFunction
  BY <1>3, CallStep
<1>4. CASE TZApiReturn
  BY <1>4, ReturnStep
<1>5. CASE TaskSwitch
  BY <1>5, SwitchStep
<1>6. CASE TaskCreate
  BY <1>6, CreateStep
<1>7. CASE \E l \in Loads, onePage \in BOOLEAN : DataAbort(l, onePage)
  BY <1>7, AbortStep
<1>8. CASE OtherAbort
  BY <1>8, OtherAbortStep
<1>9. CASE UNCHANGED monitorVars
  BY <1>9 DEF monitorVars, IInv, MonitorTypeOK, TosKept, ClientKept, TasksKept
<1> QED
  BY <1>1, <1>2, <1>3, <1>4, <1>5, <1>6, <1>7, <1>8, <1>9 DEF MonitorNext

(* The contexts and TCBs always have the registers of whoever does not     *)
(* have the core.                                                          *)
THEOREM MonitorInvariant == MonitorSpec => []IInv
<1>1. MonitorInit => IInv
  BY InvInit
<1>2. IInv /\ [MonitorNext]_monitorVars => IInv'
  BY InvStep
<1> QED
  BY <1>1, <1>2, PTL DEF MonitorSpec

-----------------------------------------------------------------------------
(* Every variable keeps its type.                                          *)
THEOREM MonitorTyped == MonitorSpec => []MonitorTypeOK
<1>1. IInv => MonitorTypeOK
  BY DEF IInv
<1> QED
  BY <1>1, MonitorInvariant, PTL

(* While T-OS serves a call, C code finds each of the client's registers   *)
(* in the field of that name.                                              *)
THEOREM CallersRegistersKept == MonitorSpec => []CallerKept
<1>1. IInv => CallerKept
  <2> SUFFICES ASSUME IInv, launched, ~ns, ~halted, NEW r \in Registers
               PROVE  Field(nonsecure, r) = nsLeft[r]
    BY DEF CallerKept
  <2>1. nonsecure = SaveContext(nsLeft)
    BY DEF IInv, ClientKept
  <2> QED
    BY <2>1, LayoutPlace, SameOrders DEF Field, SaveContext
<1> QED
  BY <1>1, MonitorInvariant, PTL

(* The steps that pass the core from one world to the other.               *)
LEMMA WorldChange ==
  ASSUME IInv, [MonitorNext]_monitorVars, ns' # ns, ~halted'
  PROVE  IF ns THEN CallTZFunction ELSE LaunchNonSecure \/ TZApiReturn
<1>1. CASE \E l \in Loads, onePage \in BOOLEAN : DataAbort(l, onePage)
  BY <1>1 DEF DataAbort
<1>2. CASE CallTZFunction
  BY <1>2 DEF CallTZFunction, Executes, IInv, MonitorTypeOK
<1>3. CASE LaunchNonSecure \/ TZApiReturn
  BY <1>3 DEF LaunchNonSecure, TZApiReturn, Executes, IInv, MonitorTypeOK
<1> QED
  BY <1>1, <1>2, <1>3 DEF MonitorNext, monitorVars, TosComputes, NsComputes, TaskSwitch,
                          TaskCreate, OtherAbort

(* T-OS resumes with all its registers.                                    *)
THEOREM TosGetsItsRegisters == MonitorSpec => TosResumes
<1>1. ASSUME IInv, [MonitorNext]_monitorVars
      PROVE  [ns /\ ~ns' /\ ~halted' => reg' = tosLeft]_monitorVars
  <2>1. ASSUME ns, ~ns', ~halted'
        PROVE  reg' = tosLeft
    BY <1>1, <2>1, WorldChange, CallStep
  <2> QED
    BY <2>1
<1> QED
  BY <1>1, MonitorInvariant, PTL DEF MonitorSpec, TosResumes

(* A client gets the result in r0 and its registers but r1 and r2.         *)
THEOREM ClientGetsItsRegisters == MonitorSpec => CallerResumes
<1> DEFINE A == ~ns /\ ns' /\ launched =>
          /\ reg'["r0"] = reg["r0"]
          /\ \A r \in Registers \ {"r0", "r1", "r2"} : reg'[r] = nsLeft[r]
<1>1. ASSUME IInv, [MonitorNext]_monitorVars
      PROVE  A
  <2> SUFFICES ASSUME ~ns, ns', launched
               PROVE  /\ reg'["r0"] = reg["r0"]
                      /\ \A r \in Registers \ {"r0", "r1", "r2"} :
                            reg'[r] = nsLeft[r]
    OBVIOUS
  <2>1. ~halted'
    BY <1>1 DEF MonitorNext, monitorVars, TosComputes, NsComputes, TaskSwitch, TaskCreate,
                OtherAbort, DataAbort, LaunchNonSecure, CallTZFunction,
                TZApiReturn, Executes
  <2>2. TZApiReturn
    BY <1>1, <2>1, WorldChange DEF LaunchNonSecure
  <2> QED
    BY <1>1, <2>2, ReturnStep
<1> QED
  BY <1>1, MonitorInvariant, PTL DEF MonitorSpec, CallerResumes

(* A task resumes with the registers it left off with.                     *)
THEOREM TasksGetTheirRegisters == MonitorSpec => TaskResumes
<1>1. ASSUME IInv, [MonitorNext]_monitorVars, task' # task
      PROVE  \A r \in TaskRegisters : reg'[r] = taskLeft[task'][r]
  <2>1. TaskSwitch
    BY <1>1 DEF MonitorNext, monitorVars, TosComputes, NsComputes, TaskCreate,
                OtherAbort, DataAbort, LaunchNonSecure, CallTZFunction,
                TZApiReturn
  <2> QED
    BY <1>1, <2>1, SwitchStep
<1> QED
  BY <1>1, MonitorInvariant, PTL DEF MonitorSpec, TaskResumes

(* An emulated load touches its own register, and r1 and r2.               *)
THEOREM LoadsAreEmulated == MonitorSpec => AbortPrecise
<1> DEFINE A == \A l \in Loads : DataAbort(l, TRUE) /\ ~halted' /\ l.rd <= 12 =>
          \A r \in Registers \ {"r1", "r2"} :
              reg'[r] = IF r = Common[l.rd + 1] THEN <<"mem", "value">>
                                                ELSE reg[r]
<1>1. ASSUME IInv, [MonitorNext]_monitorVars
      PROVE  A
  <2> SUFFICES ASSUME NEW l \in Loads, DataAbort(l, TRUE), ~halted', l.rd <= 12
               PROVE  \A r \in Registers \ {"r1", "r2"} :
                         reg'[r] = IF r = Common[l.rd + 1] THEN <<"mem", "value">>
                                                           ELSE reg[r]
    OBVIOUS
  <2>1. Emulate(l)
    BY DEF DataAbort, Decoded
  <2> QED
    BY <1>1, <2>1, EmulateStep
<1> QED
  BY <1>1, MonitorInvariant, PTL DEF MonitorSpec, AbortPrecise
===========================================================================
