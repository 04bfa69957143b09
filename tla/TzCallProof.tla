---------------------------- MODULE TzCallProof -----------------------------
(***************************************************************************)
(* The safety of TzCall for every number of clients, threads, services and *)
(* sessions, whether the memory pool lasts or runs out; and, while it      *)
(* lasts, that TzCall implements the steps of SessionService and a command *)
(* that a service knows is carried out when the call says so.              *)
(*                                                                         *)
(* For the second part the argument also needs what a request may name     *)
(* (OwnRequests): the handles of a client are of its own sessions and      *)
(* sessions are never renamed, so that T-OS's search of the list for the   *)
(* id and the client finds a session exactly when it is open.              *)
(***************************************************************************)
EXTENDS TzCallRefinement, SequenceTheorems, TLAPS

(* What the invariants rest on: where the main task is in each phase of    *)
(* T-OS, and what the ready list holds while it is there.                  *)
Phase ==
    /\ mainPc = "boot" =>
          /\ current = NoTask /\ entry = <<>> /\ suspended = {}
          /\ session = <<>> /\ world = "S"
    /\ mainPc # "boot" => current # NoTask /\ MainTask \in Tasks
    /\ mainPc = "launch" => world = "S"
    /\ world = "NS" => mainPc = "dispatch"
    /\ mainPc \in {"dispatch", "return"} /\ world = "S" => nsCmd \in Threads
    /\ current \in {NoTask, MainTask} => ready = <<>>
    /\ current \notin {NoTask, MainTask} => ready = <<MainTask>>
    /\ dead # "hang"

(* Nothing goes wrong before the pool runs out.                            *)
PoolLasts == MayRunOut \/ (stackless = {} /\ dead = "no")

(* Which tasks a session may name, and where the tasks are.                *)
Placement ==
    /\ MainTask \notin suspended /\ current \notin suspended
    /\ \A i \in DOMAIN session :
          session[i].task # NoTask =>
             /\ session[i].task \in Tasks \ {MainTask}
             /\ entry[session[i].task] = session[i].service

IInv ==
    /\ TypeOK
    /\ SecureWorldOwned
    /\ Phase
    /\ PoolLasts
    /\ RunsForCaller
    /\ SessionsOwnTasks
    /\ Placement

-----------------------------------------------------------------------------
(* One svc from the main task: the task it starts runs, and the main task  *)
(* is the only one on the ready list.                                      *)
LEMMA StartFromMain ==
    ASSUME NEW t, TaskStart(t), t \in suspended, t # NoTask, t # MainTask,
           current = MainTask, ready = <<>>
    PROVE  /\ current' = t /\ ready' = <<MainTask>>
           /\ suspended' = suspended \ {t}
           /\ dead' = IF t \in stackless THEN "wild" ELSE dead
<1>1. TaskSwitch(<<t>>, suspended \ {t})
  BY DEF TaskStart
<1>2. Head(<<t>>) = t /\ Tail(<<t>>) = <<>> /\ <<t>> # <<>>
  OBVIOUS
<1>3. TaskNextReady(<<t>>) = t
  BY <1>2 DEF TaskNextReady, MainTask
<1>4. Append(<<>>, MainTask) = <<MainTask>>
  OBVIOUS
<1> QED
  BY <1>1, <1>2, <1>3, <1>4 DEF TaskSwitch, MainTask, NoTask

(* The svc of a service task leads back to the main task.                  *)
LEMMA ReturnToMain ==
    ASSUME TaskHandleReturn, current \notin {NoTask, MainTask},
           ready = <<MainTask>>
    PROVE  /\ current' = MainTask /\ ready' = <<>>
           /\ suspended' = suspended \cup {current}
           /\ dead' = IF MainTask \in stackless THEN "wild" ELSE dead
<1>1. /\ Head(ready) = MainTask /\ Tail(ready) = <<>> /\ ready # <<>>
  OBVIOUS
<1>2. TaskNextReady(ready) = MainTask
  BY <1>1 DEF TaskNextReady
<1> QED
  BY <1>1, <1>2 DEF TaskHandleReturn, TaskSwitch, MainTask, NoTask

(* What IInv says of a main task at the top of its loop, of a service task *)
(* and of every session's task.                                            *)
LEMMA TasksAreIds == ASSUME TypeOK PROVE Tasks = 1 .. Len(entry) /\ Len(entry) \in Nat
  BY DEF TypeOK, SchedTypeOK, Tasks

LEMMA InitIInv == Init => IInv
<1> SUFFICES ASSUME Init PROVE IInv
  OBVIOUS
<1> USE TaInterfaceAssumption, SchedulerAssumption
<1>1. TypeOK
  BY DEF Init, SchedInit, TaInit, TypeOK, SchedTypeOK, Tasks, Results, Request,
         NoRequest, Ops
<1>2. SecureWorldOwned
  BY DEF Init, SecureWorldOwned
<1>3. Phase /\ PoolLasts /\ RunsForCaller /\ SessionsOwnTasks /\ Placement
  BY DEF PoolLasts, MayRunOut, Init, SchedInit, TaInit, Phase, RunsForCaller, SessionsOwnTasks,
         Placement, NoTask, MainTask
<1> QED BY <1>1, <1>2, <1>3 DEF IInv

-----------------------------------------------------------------------------
(* The steps of the nonsecure world leave T-OS alone: only who holds the   *)
(* mutex and where the threads are is at stake.                            *)
LEMMA ClientStep ==
    ASSUME IInv, NEW t \in Threads, Client(t)
    PROVE  IInv'
<1> USE TaInterfaceAssumption, TzCallAssumption DEF IInv
<1>1. world = "NS" /\ UNCHANGED tosVars
  BY DEF Client, Step, Call, Lock, Smc, Unlock, Finish
<1>2. /\ current = MainTask /\ ready = <<>> /\ mainPc = "dispatch"
      /\ mainPc' = "dispatch" /\ current' = MainTask
  <2>1. mainPc = "dispatch" /\ current \in {NoTask, MainTask}
    BY <1>1 DEF Phase, RunsForCaller
  <2>2. current = MainTask /\ ready = <<>>
    BY <2>1 DEF Phase
  <2> QED
    BY <1>1, <2>1, <2>2 DEF tosVars, schedVars
<1>3. TypeOK'
  <2>1. /\ nsCmd' \in Threads \cup {NoThread} /\ mutex' \in Threads \cup {NoThread}
        /\ world' \in {"S", "NS"}
        /\ pc' \in [Threads -> {"idle", "lock", "smc", "secure", "back", "finish"}]
    BY DEF TypeOK, Client, Step, Call, Lock, Smc, Unlock, Finish
  <2>2. cmd' \in [Threads -> Request]
    <3>1. NoRequest \in Request
      BY DEF NoRequest, Request, Ops
    <3>2. Requests(t) \subseteq Request
      BY DEF Requests, Request, Ops, TypeOK
    <3> QED
      BY <3>1, <3>2 DEF TypeOK, Client, Call, Lock, Smc, Unlock, Finish
  <2>3. ret' \in [Threads -> Results] /\ done' \in [Threads -> BOOLEAN]
    BY DEF TypeOK, Results, Client, Call, Lock, Smc, Unlock, Finish
  <2>4. handles' \in [Clients -> SUBSET Nat]
    <3>1. CASE UNCHANGED handles
      BY <3>1 DEF TypeOK
    <3>2. CASE handles' = [handles EXCEPT ![ClientOf[t]] = @ \cup {cmd[t].session}]
      BY <3>2 DEF TypeOK, Request
    <3> QED
      BY <3>1, <3>2 DEF Client, Call, Lock, Smc, Unlock, Finish
  <2> QED
    BY <1>1, <2>1, <2>2, <2>3, <2>4
       DEF TypeOK, SchedTypeOK, Tasks, tosVars, schedVars, taVars
<1>4. SecureWorldOwned'
  BY <1>1, <1>2 DEF TypeOK, SecureWorldOwned, Client, Step, Call, Lock, Smc,
                    Unlock, Finish
<1>5. Phase'
  <2>1. nsCmd' \in Threads \/ world' = "NS"
    BY <1>1 DEF Client, Step, Call, Lock, Smc, Unlock, Finish
  <2> QED
    BY <1>1, <1>2, <2>1 DEF Phase, Tasks, tosVars, schedVars, taVars, NoTask, MainTask
<1>6. RunsForCaller'
  BY <1>2 DEF RunsForCaller
<1>7. PoolLasts' /\ SessionsOwnTasks' /\ Placement'
  BY <1>1 DEF PoolLasts, MayRunOut, SessionsOwnTasks, Placement, Tasks, tosVars, schedVars, taVars
<1> QED
  BY <1>3, <1>4, <1>5, <1>6, <1>7

(* Coming up, and leaving T-OS after a command.                            *)
LEMMA BootStep ==
    ASSUME IInv, Boot PROVE IInv'
<1> USE TaInterfaceAssumption, SchedulerAssumption DEF IInv
<1>1. /\ entry = <<>> /\ session = <<>> /\ ready = <<>> /\ suspended = {}
      /\ world = "S" /\ current = NoTask
  BY DEF Boot, Phase
<1>2. /\ entry' = <<MainEntry>> /\ Tasks' = {MainTask} /\ current' = MainTask
      /\ ready' = <<>> /\ suspended' = {} /\ session' = <<>>
  <2>1. entry' = <<MainEntry>>
    BY <1>1 DEF Boot, TEE_StartMain
  <2> QED
    BY <1>1, <2>1 DEF Boot, TEE_StartMain, Tasks, taVars, MainTask
<1>3. TypeOK'
  <2>1. stackless' \subseteq Tasks'
    BY <1>1, <1>2 DEF TypeOK, SchedTypeOK, Tasks, Boot, TEE_StartMain
  <2> QED
    BY <1>1, <1>2, <2>1
       DEF TypeOK, SchedTypeOK, Boot, TEE_StartMain, taVars, clientVars
<1>4. SecureWorldOwned'
  BY <1>1 DEF SecureWorldOwned, Boot, clientVars
<1>5. Phase'
  BY <1>1, <1>2 DEF Phase, Boot, TEE_StartMain, MainTask, NoTask
<1>6. PoolLasts' /\ RunsForCaller' /\ SessionsOwnTasks' /\ Placement'
  BY <1>1, <1>2 DEF PoolLasts, MayRunOut, RunsForCaller, SessionsOwnTasks, Placement, Boot, TEE_StartMain,
                    taVars, TypeOK
<1> QED
  BY <1>3, <1>4, <1>5, <1>6

LEMMA LaunchStep ==
    ASSUME IInv, LaunchNonSecure PROVE IInv'
<1> USE TaInterfaceAssumption DEF IInv
<1>1. current = MainTask /\ ready = <<>>
  BY DEF LaunchNonSecure, Phase, RunsForCaller
<1>2. TypeOK'
  BY DEF LaunchNonSecure, TypeOK, SchedTypeOK, Tasks, schedVars, taVars, clientVars
<1>3. SecureWorldOwned'
  BY DEF LaunchNonSecure, SecureWorldOwned, clientVars
<1>4. Phase' /\ PoolLasts' /\ RunsForCaller' /\ SessionsOwnTasks' /\ Placement'
  BY <1>1 DEF LaunchNonSecure, Phase, PoolLasts, MayRunOut, RunsForCaller, SessionsOwnTasks, Placement,
              Tasks, schedVars, taVars, clientVars, MainTask, NoTask
<1> QED
  BY <1>2, <1>3, <1>4

LEMMA ReturnStep ==
    ASSUME IInv, TZApiReturn PROVE IInv'
<1> USE TaInterfaceAssumption DEF IInv
<1>1. nsCmd \in Threads /\ pc[nsCmd] = "secure" /\ mutex = nsCmd
  BY DEF TZApiReturn, InTos, Phase, SecureWorldOwned
<1>2. TypeOK'
  <2>1. ret' \in [Threads -> Results] /\ mainRet' \in Results
    BY DEF TZApiReturn, TypeOK, Results, GetTaskReturnValue
  <2> QED
    BY <2>1 DEF TZApiReturn, TypeOK, SchedTypeOK, Tasks, schedVars, taVars
<1>3. SecureWorldOwned'
  BY <1>1 DEF TZApiReturn, InTos, SecureWorldOwned, TypeOK
<1>4. Phase' /\ PoolLasts' /\ RunsForCaller' /\ SessionsOwnTasks' /\ Placement'
  BY DEF TZApiReturn, Phase, PoolLasts, MayRunOut, RunsForCaller, SessionsOwnTasks, Placement,
         Tasks, schedVars, taVars
<1> QED
  BY <1>2, <1>3, <1>4

(* A service's turn: control goes back to the main task, the service's     *)
(* task is suspended again.                                                *)
LEMMA ServiceStep ==
    ASSUME IInv, RunService PROVE IInv'
<1> USE TaInterfaceAssumption DEF IInv
<1>1. /\ current \notin {NoTask, MainTask} /\ ready = <<MainTask>>
      /\ mainPc = "return" /\ world = "S" /\ curParams = nsCmd
  BY DEF RunService, TaskTurn, Phase, RunsForCaller
<1>2. /\ current' = MainTask /\ ready' = <<>>
      /\ suspended' = suspended \cup {current}
      /\ dead' = IF MainTask \in stackless THEN "wild" ELSE dead
  BY <1>1, ReturnToMain DEF RunService, TaskTurn
<1>3. nsCmd \in Threads /\ current \in Tasks /\ MainTask \in Tasks
  BY <1>1 DEF TypeOK, SchedTypeOK, Phase
<1>4. TypeOK'
  <2>1. done' \in [Threads -> BOOLEAN]
    BY <1>1, <1>3 DEF RunService, TypeOK
  <2>2. SchedTypeOK'
    BY <1>2, <1>3 DEF RunService, TaskTurn, TypeOK, SchedTypeOK, Tasks
  <2> QED
    BY <2>1, <2>2 DEF RunService, TaskTurn, taVars, TypeOK
<1>5. SecureWorldOwned'
  BY DEF RunService, SecureWorldOwned
<1>6. Phase'
  BY <1>1, <1>2, <1>3 DEF RunService, TaskTurn, Phase, Tasks, taVars, MainTask, NoTask
<1>7. RunsForCaller'
  BY <1>2 DEF RunsForCaller
<1>8. PoolLasts'
  BY <1>2 DEF RunService, TaskTurn, PoolLasts, MayRunOut, MainTask
<1>9. SessionsOwnTasks' /\ Placement'
  BY <1>1, <1>2 DEF RunService, TaskTurn, SessionsOwnTasks, Placement, Tasks, taVars
<1> QED
  BY <1>4, <1>5, <1>6, <1>7, <1>8, <1>9

-----------------------------------------------------------------------------
(* The three commands, each from the main task at the top of its loop.     *)
DispatchPre ==
    /\ IInv /\ Dispatch
    /\ current = MainTask /\ ready = <<>> /\ mainPc = "dispatch" /\ world = "S"
    /\ nsCmd \in Threads /\ MainTask \in Tasks

LEMMA DispatchStart == ASSUME IInv, Dispatch PROVE DispatchPre
  BY DEF IInv, Dispatch, InTos, Phase, DispatchPre, MainTask, NoTask

(* What every command leaves as it was.                                    *)
LEMMA DispatchOwned == ASSUME DispatchPre PROVE SecureWorldOwned'
  BY DEF DispatchPre, Dispatch, IInv, SecureWorldOwned

LEMMA OpenStep ==
    ASSUME DispatchPre, MainOpen(nsCmd) PROVE IInv'
<1> DEFINE c == ClientOf[nsCmd]
           e == cmd[nsCmd].what
           n == Len(entry) + 1
<1> USE TaInterfaceAssumption, TzCallAssumption, SchedulerAssumption
    DEF DispatchPre, IInv
<1>1. /\ UNCHANGED <<world, nsCmd, mutex, pc, ret, done, handles>>
      /\ mainPc' = "return"
  BY DEF Dispatch
<1>2. c \in Clients /\ e \in Services \cup {NoService}
  BY DEF TypeOK, Request
<1>3. mainRet' \in Results
  BY DEF MainOpen, OpenResult, Results
<1>4. TA_OpenSession(c, e)
  BY DEF MainOpen
<1>5. UNCHANGED <<current, ready, curParams, curCommand>>
  BY <1>4 DEF TA_OpenSession, schedVars, taVars
<1>6. session' \in Seq(Session) => cmd' \in [Threads -> Request]
  <2> SUFFICES ASSUME session' \in Seq(Session) PROVE cmd' \in [Threads -> Request]
    OBVIOUS
  <2>1. Len(session') \in Nat
    OBVIOUS
  <2>2. \A i \in Nat : [cmd[nsCmd] EXCEPT !.session = i] \in Request
    BY DEF TypeOK, Request
  <2>3. CASE UNCHANGED cmd
    BY <2>3 DEF TypeOK
  <2>4. CASE cmd' = [cmd EXCEPT ![nsCmd].session = Len(session')]
    BY <2>1, <2>2, <2>4 DEF TypeOK
  <2> QED
    BY <2>3, <2>4 DEF MainOpen
<1>7. RunsForCaller'
  BY <1>5 DEF RunsForCaller
<1>8. CASE session' = session
  <2>1. /\ UNCHANGED <<suspended, entry, stackless, open>>
        /\ dead' = dead \/ (MayRunOut /\ dead' = "wild")
    <3>1. \A id : Append(session, [client |-> c, service |-> e, task |-> id]) # session
      <4> SUFFICES ASSUME NEW id
                   PROVE  Append(session, [client |-> c, service |-> e, task |-> id])
                             # session
        OBVIOUS
      <4> DEFINE s == [client |-> c, service |-> e, task |-> id]
      <4>1. Len(session) \in Nat
        BY DEF TypeOK
      <4>2. Len(Append(session, s)) = Len(session) + 1
        <5> HIDE DEF s
        <5> QED
          BY DEF TypeOK
      <4> QED
        BY <4>1, <4>2
    <3>2. \A id : session' # Append(session, [client |-> c, service |-> e, task |-> id])
      BY <3>1, <1>8
    <3>3. \/ UNCHANGED <<schedVars, taVars>>
          \/ /\ MayRunOut /\ dead' = "wild"
             /\ UNCHANGED <<current, ready, suspended, entry, stackless, taVars>>
      <4> HIDE DEF c, e
      <4> QED
        BY <3>2, <1>4, Zenon DEF TA_OpenSession
    <3> QED
      BY <3>3 DEF schedVars, taVars
  <2>2. TypeOK'
    BY <1>1, <1>3, <1>5, <1>6, <1>8, <2>1 DEF TypeOK, SchedTypeOK, Tasks
  <2>3. Phase' /\ PoolLasts' /\ SessionsOwnTasks' /\ Placement'
    BY <1>1, <1>5, <1>8, <2>1 DEF Phase, PoolLasts, MayRunOut, SessionsOwnTasks, Placement, Tasks
  <2> QED
    BY <1>7, <2>2, <2>3, DispatchOwned
<1>9. CASE session' # session
  <2>0. PICK id \in {NoTask, n} :
           /\ e \in Services /\ TaskCreate(e, id)
           /\ session' = Append(session, [client |-> c, service |-> e, task |-> id])
           /\ open' = open \cup {Len(session) + 1}
           /\ UNCHANGED dead
    BY <1>4, <1>9 DEF TA_OpenSession, schedVars, taVars
  <2> DEFINE s == [client |-> c, service |-> e, task |-> id]
  <2>1. /\ e \in Services /\ TaskCreate(e, id)
        /\ session' = Append(session, s)
        /\ open' = open \cup {Len(session) + 1}
        /\ UNCHANGED dead
    BY <2>0
  <2>2. /\ entry \in Seq(Services \cup {MainEntry})
        /\ session \in Seq(Session) /\ open \subseteq DOMAIN session
        /\ Tasks = 1 .. Len(entry) /\ Len(entry) \in Nat
    BY TasksAreIds DEF TypeOK, SchedTypeOK
  <2>4. \/ /\ s.task = NoTask
           /\ UNCHANGED <<suspended, entry, stackless>>
        \/ /\ s.task = n
           /\ entry' = Append(entry, e) /\ suspended' = suspended \cup {n}
           /\ stackless' \subseteq stackless \cup {n}
           /\ MayRunOut \/ stackless' = stackless
    BY <2>1, <2>2 DEF TaskCreate
  <2>5. /\ Tasks \subseteq Tasks' /\ Tasks' \subseteq Tasks \cup {n}
        /\ s.task # NoTask => s.task = n /\ n \in Tasks' /\ entry'[n] = e
        /\ \A t \in Tasks : entry'[t] = entry[t]
        /\ n \notin Tasks /\ n # NoTask /\ n # MainTask
    BY <2>2, <2>4 DEF Tasks, NoTask, MainTask
  <2>6. /\ s \in Session
        /\ session' \in Seq(Session)
        /\ DOMAIN session' = DOMAIN session \cup {Len(session) + 1}
        /\ Len(session) + 1 \notin DOMAIN session
        /\ session'[Len(session) + 1] = s
        /\ \A i \in DOMAIN session : session'[i] = session[i]
    <3>1. s \in Session
      BY <1>2, <2>1, <2>2, <2>4 DEF Session, NoTask
    <3> HIDE DEF s
    <3> QED
      BY <3>1, <2>1, <2>2
  <2>7. TypeOK'
    <3>1. entry' \in Seq(Services \cup {MainEntry})
      <4> HIDE DEF e, s, n
      <4>1. Append(entry, e) \in Seq(Services \cup {MainEntry})
        BY <2>1, <2>2
      <4> QED
        BY <2>2, <2>4, <4>1
    <3>2. suspended' \subseteq Tasks' /\ stackless' \subseteq Tasks' /\ current' \in Tasks'
      BY <1>5, <2>4, <2>5 DEF TypeOK, SchedTypeOK
    <3>3. ready' \in Seq(Tasks')
      BY <1>5
    <3> QED
      BY <1>1, <1>3, <1>5, <1>6, <2>1, <2>2, <2>4, <2>6, <3>1, <3>2, <3>3
         DEF TypeOK, SchedTypeOK
  <2>8. Phase' /\ PoolLasts'
    BY <1>1, <1>5, <2>1, <2>4, <2>5 DEF Phase, PoolLasts, MayRunOut, MainTask, NoTask
  <2>9. SessionsOwnTasks'
    <3>1. \A i \in DOMAIN session : session[i].task # n
      BY <2>5 DEF Placement, NoTask
    <3>2. s.task # NoTask => s.task \in suspended'
      BY <2>4
    <3>3. suspended \subseteq suspended'
      BY <2>4
    <3> HIDE DEF s
    <3> QED
      BY <1>5, <2>1, <2>2, <2>5, <2>6, <3>1, <3>2, <3>3 DEF SessionsOwnTasks
  <2>10. Placement'
    <3>1. MainTask \notin suspended' /\ current' \notin suspended'
      BY <1>5, <2>4, <2>5 DEF Placement
    <3>2. s.service = e
      OBVIOUS
    <3> HIDE DEF s
    <3> QED
      BY <2>5, <2>6, <3>1, <3>2 DEF Placement
  <2> QED
    BY <1>7, <2>7, <2>8, <2>9, <2>10, DispatchOwned
<1> QED
  BY <1>8, <1>9

(* The ready list is empty, so that neither deletion does anything.        *)
LEMMA CloseStep ==
    ASSUME DispatchPre, MainClose(nsCmd) PROVE IInv'
<1> DEFINE c == ClientOf[nsCmd]
           id == cmd[nsCmd].session
<1> USE TaInterfaceAssumption, TzCallAssumption DEF DispatchPre, IInv
<1>1. /\ UNCHANGED <<world, nsCmd, mutex, pc, ret, done, handles>>
      /\ mainPc' = "return" /\ UNCHANGED cmd /\ mainRet' \in Results
  BY DEF Dispatch, MainClose, Results
<1>2. /\ UNCHANGED <<current, suspended, entry, stackless, session, curParams,
                     curCommand, ready, dead>>
      /\ open' \subseteq open
  <2>1. CASE ~Found(c, id)
    BY <2>1 DEF MainClose, TA_CloseSession, schedVars, taVars, TypeOK, SchedTypeOK
  <2>2. CASE Found(c, id)
    <3>1. ~OnReady(session[id].task)
      BY DEF OnReady
    <3>2. ready' = ready /\ ~ListDelHangs(ready', session[id].task)
      BY <2>2, <3>1 DEF MainClose, TA_CloseSession, TaskDelReadyByID, ListDelHangs, OnReady
    <3>3. dead' = dead /\ dead' # "hang"
      BY <2>2, <3>2 DEF MainClose, TA_CloseSession, TaskDelSuspudByID, Phase
    <3> QED
      BY <2>2, <3>2, <3>3 DEF MainClose, TA_CloseSession, TypeOK, SchedTypeOK
  <2> QED
    BY <2>1, <2>2
<1>3. TypeOK'
  BY <1>1, <1>2 DEF TypeOK, SchedTypeOK, Tasks
<1>4. Phase' /\ PoolLasts' /\ RunsForCaller' /\ SessionsOwnTasks' /\ Placement'
  BY <1>1, <1>2 DEF Phase, PoolLasts, MayRunOut, RunsForCaller, SessionsOwnTasks, Placement, Tasks
<1> QED
  BY <1>3, <1>4, DispatchOwned

LEMMA InvokeStep ==
    ASSUME DispatchPre, MainInvoke(nsCmd) PROVE IInv'
<1> DEFINE c == ClientOf[nsCmd]
           id == cmd[nsCmd].session
           t == session[id].task
<1> USE TaInterfaceAssumption, TzCallAssumption DEF DispatchPre, IInv
<1>1. /\ UNCHANGED <<world, nsCmd, mutex, pc, ret, done, handles>>
      /\ mainPc' = "return" /\ UNCHANGED cmd
      /\ cmd[nsCmd].op = "invoke" /\ mainRet' \in Results
  BY DEF Dispatch, MainInvoke, InvokeResult, Results
<1>2. UNCHANGED <<entry, stackless, session, open>>
  BY DEF MainInvoke, TA_InvokeCommand, schedVars, taVars
<1>3. CASE UNCHANGED <<current, ready, suspended, dead>>
  <2>1. /\ curParams' \in Threads \cup {NoThread}
        /\ curCommand' \in Services \cup {NoService}
    BY DEF MainInvoke, TA_InvokeCommand, TypeOK, Request, taVars
  <2>2. TypeOK'
    BY <1>1, <1>2, <1>3, <2>1 DEF TypeOK, SchedTypeOK, Tasks
  <2>3. Phase' /\ PoolLasts' /\ RunsForCaller' /\ SessionsOwnTasks' /\ Placement'
    BY <1>1, <1>2, <1>3 DEF Phase, PoolLasts, MayRunOut, RunsForCaller, SessionsOwnTasks, Placement, Tasks
  <2> QED
    BY <2>2, <2>3, DispatchOwned
<1>4. CASE ~UNCHANGED <<current, ready, suspended, dead>>
  <2>1. /\ Found(c, id) /\ t \in suspended
        /\ TaskStart(t) /\ curParams' = nsCmd /\ curCommand' = cmd[nsCmd].what
    BY <1>4 DEF MainInvoke, TA_InvokeCommand, TaskStart, schedVars
  <2>2. id \in DOMAIN session /\ t \in Tasks /\ t # MainTask /\ t # NoTask
    BY <2>1, TasksAreIds DEF Found, TypeOK, SchedTypeOK, Placement, NoTask
  <2>3. entry[t] = session[id].service
    BY <2>2 DEF Placement
  <2>4. /\ current' = t /\ ready' = <<MainTask>> /\ suspended' = suspended \ {t}
        /\ dead' = IF t \in stackless THEN "wild" ELSE dead
    BY <2>1, <2>2, StartFromMain
  <2>5. TypeOK'
    <3>1. ready' \in Seq(Tasks)
      BY <2>4
    <3>2. curCommand' \in Services \cup {NoService}
      BY <2>1 DEF TypeOK, Request
    <3> QED
      BY <1>1, <1>2, <2>1, <2>2, <2>4, <3>1, <3>2 DEF TypeOK, SchedTypeOK, Tasks
  <2>6. Phase' /\ PoolLasts'
    BY <1>1, <1>2, <2>2, <2>4 DEF Phase, PoolLasts, MayRunOut, Tasks
  <2>7. RunsForCaller'
    BY <1>1, <1>2, <2>1, <2>3, <2>4 DEF RunsForCaller, Found
  <2>8. SessionsOwnTasks'
    <3>1. \A i \in open : session[i].task # MainTask
      BY DEF TypeOK, Placement, MainTask, NoTask
    <3>2. \A i \in open :
             session[i].task # NoTask =>
                session[i].task = t \/ session[i].task \in suspended \ {t}
      BY <3>1 DEF SessionsOwnTasks
    <3> QED
      BY <1>2, <2>4, <3>2 DEF SessionsOwnTasks
  <2>9. Placement'
    BY <1>2, <2>2, <2>4 DEF Placement, Tasks
  <2> QED
    BY <2>9, <2>5, <2>6, <2>7, <2>8, DispatchOwned
<1> QED
  BY <1>3, <1>4

-----------------------------------------------------------------------------
LEMMA NextIInv == IInv /\ [Next]_vars => IInv'
<1> SUFFICES ASSUME IInv, [Next]_vars PROVE IInv'
  OBVIOUS
<1>1. CASE Secure
  <2>1. CASE Dispatch
    BY <2>1, DispatchStart, OpenStep, CloseStep, InvokeStep DEF Dispatch
  <2> QED
    BY <1>1, <2>1, BootStep, LaunchStep, ServiceStep, ReturnStep DEF Secure
<1>2. CASE \E t \in Threads : Client(t)
  BY <1>2, ClientStep
<1>3. CASE UNCHANGED vars
  BY <1>3 DEF vars, tosVars, schedVars, taVars, clientVars, IInv, TypeOK, SchedTypeOK,
              Tasks, SecureWorldOwned, Phase, PoolLasts, MayRunOut, RunsForCaller, Found, SessionsOwnTasks,
              Placement
<1> QED
  BY <1>1, <1>2, <1>3 DEF Next

LEMMA IInvAlways == Spec => []IInv
<1>1. Init => IInv
  BY InitIInv
<1>2. IInv /\ [Next]_vars => IInv'
  BY NextIInv
<1> QED
  BY <1>1, <1>2, PTL DEF Spec

(* Every variable of the driver, the monitor and T-OS keeps its type.      *)
THEOREM TzCallTyped == Spec => []TypeOK
<1>1. IInv => TypeOK
  BY DEF IInv
<1> QED
  BY <1>1, IInvAlways, PTL

(* However many threads call, one of them at a time is in T-OS, and the    *)
(* saved registers and the mutex are its own.                              *)
THEOREM OneCallInTos == Spec => []SecureWorldOwned
<1>1. IInv => SecureWorldOwned
  BY DEF IInv
<1> QED
  BY <1>1, IInvAlways, PTL

(* T-OS always comes back to the top of its main loop with nothing left on *)
(* the ready list, so that no close of a session hangs it.                 *)
THEOREM NeverHangs == Spec => []ParkedInMain
<1>1. IInv => ParkedInMain
  BY DEF IInv, Phase, PoolLasts, MayRunOut, RunsForCaller, ParkedInMain, MainTask, NoTask
<1> QED
  BY <1>1, IInvAlways, PTL

(* A service runs only for the request T-OS is serving, in the session the *)
(* request names, for the client that opened it to this service.           *)
THEOREM ServiceRunsForCaller == Spec => []RunsForCaller
<1>1. IInv => RunsForCaller
  BY DEF IInv
<1> QED
  BY <1>1, IInvAlways, PTL

(* Sessions never share a task, and an open session's task can be started, *)
(* also once the memory pool has run out.                                  *)
THEOREM TasksOfSessions == Spec => []SessionsOwnTasks
<1>1. IInv => SessionsOwnTasks
  BY DEF IInv
<1> QED
  BY <1>1, IInvAlways, PTL

-----------------------------------------------------------------------------
(* A step of a thread, or of T-OS for a thread, leaves the requests and    *)
(* results of all others as they are.                                      *)
IsolatedStep ==
    \A t, u \in Threads :
        (pc[t] # pc[t]' /\ u # t) \/ (nsCmd = t /\ world = "S" /\ u # t) =>
            UNCHANGED <<cmd[u], ret[u], done[u]>>

LEMMA StepIsolated == ASSUME IInv, Next PROVE IsolatedStep
<1> USE DEF IInv, TypeOK
<1>1. ASSUME NEW t \in Threads, Client(t) PROVE IsolatedStep
  <2>1. world = "NS"
    BY <1>1 DEF Client, Step, Call, Lock, Smc, Unlock, Finish
  <2>2. /\ \A u \in Threads \ {t} : UNCHANGED <<cmd[u], ret[u], done[u]>>
        /\ \A u \in Threads \ {t} : pc[u]' = pc[u]
    BY <1>1 DEF Client, Step, Call, Lock, Smc, Unlock, Finish
  <2> QED
    BY <2>1, <2>2 DEF IsolatedStep
<1>2. CASE Boot \/ LaunchNonSecure
  BY <1>2 DEF Boot, LaunchNonSecure, clientVars, IsolatedStep
<1>3. CASE Dispatch
  <2>1. UNCHANGED <<pc, ret, done>>
    BY <1>3 DEF Dispatch
  <2>2. \A u \in Threads \ {nsCmd} : UNCHANGED cmd[u]
    BY <1>3 DEF Dispatch, MainOpen, MainClose, MainInvoke
  <2> QED
    BY <2>1, <2>2 DEF IsolatedStep
<1>4. CASE RunService
  <2>1. curParams = nsCmd /\ UNCHANGED <<pc, cmd, ret>>
    BY <1>4 DEF RunService, TaskTurn, RunsForCaller
  <2>2. \A u \in Threads \ {nsCmd} : UNCHANGED done[u]
    BY <1>4, <2>1 DEF RunService
  <2> QED
    BY <2>1, <2>2 DEF IsolatedStep
<1>5. CASE TZApiReturn
  <2>1. UNCHANGED <<cmd, done>>
    BY <1>5 DEF TZApiReturn
  <2>2. \A u \in Threads \ {nsCmd} : UNCHANGED ret[u] /\ UNCHANGED pc[u]
    BY <1>5 DEF TZApiReturn
  <2> QED
    BY <2>1, <2>2 DEF IsolatedStep
<1> QED
  BY <1>1, <1>2, <1>3, <1>4, <1>5 DEF Next, Secure

(* The calls of different threads never mix, through the globals that      *)
(* carry a service's parameters, the saved registers or the results.       *)
THEOREM CallsIsolated == Spec => Isolated
<1>1. IInv /\ [Next]_vars => [IsolatedStep]_vars
  BY StepIsolated
<1>2. Isolated <=> [][IsolatedStep]_vars
  BY PTL DEF Isolated, IsolatedStep
<1> QED
  BY <1>1, <1>2, IInvAlways, PTL DEF Spec

-----------------------------------------------------------------------------
(* A result stays "none" until T-OS returns it, and a successful open that *)
(* is on its way back names a session of its caller.                       *)
OpenedOwn(t) ==
    /\ cmd[t].session \in DOMAIN session
    /\ session[cmd[t].session].client = ClientOf[t]

Answering(t) ==
    \/ ret[t] = "SUCCESS"
    \/ nsCmd = t /\ InTos /\ mainPc = "return" /\ mainRet = "SUCCESS"

HandlesInv ==
    /\ HandlesReal
    /\ \A t \in Threads : pc[t] \notin {"back", "finish"} => ret[t] = "none"
    /\ \A t \in Threads : cmd[t].op = "open" /\ Answering(t) => OpenedOwn(t)

LEMMA InitHandles == Init => HandlesInv
  BY DEF Init, HandlesInv, HandlesReal, Answering

(* Sessions are never renamed: what is known of an id stays true of it.    *)
LEMMA SessionsStay ==
    ASSUME IInv, Next
    PROVE  \A i \in DOMAIN session :
               i \in DOMAIN session' /\ session'[i] = session[i]
<1>1. session \in Seq(Session)
  BY DEF IInv, TypeOK
<1>2. CASE UNCHANGED session
  BY <1>2
<1>3. ASSUME NEW s, session' = Append(session, s)
      PROVE  \A i \in DOMAIN session :
                 i \in DOMAIN session' /\ session'[i] = session[i]
  BY <1>1, <1>3
<1>4. CASE Boot
  BY <1>2, <1>4 DEF Boot, TEE_StartMain, taVars
<1>5. CASE LaunchNonSecure \/ RunService \/ TZApiReturn
  BY <1>2, <1>5 DEF LaunchNonSecure, RunService, TaskTurn, TZApiReturn, taVars
<1>6. ASSUME NEW t \in Threads, Client(t) PROVE UNCHANGED session
  BY <1>6 DEF Client, Call, Lock, Smc, Unlock, Finish, tosVars, taVars
<1>7. CASE Dispatch
  <2>1. UNCHANGED session \/ \E s : session' = Append(session, s)
    BY <1>7, Zenon DEF Dispatch, MainOpen, TA_OpenSession, MainClose, TA_CloseSession,
                       MainInvoke, TA_InvokeCommand, taVars
  <2> QED
    BY <2>1, <1>2, <1>3
<1> QED
  BY <1>2, <1>4, <1>5, <1>6, <1>7 DEF Next, Secure

LEMMA HandlesStep == ASSUME IInv, HandlesInv, Next PROVE HandlesInv'
<1> USE TaInterfaceAssumption, TzCallAssumption DEF IInv, TypeOK, HandlesInv
<1>1. \A t \in Threads : OpenedOwn(t) /\ UNCHANGED cmd[t] => OpenedOwn(t)'
  BY SessionsStay DEF OpenedOwn
<1>2. UNCHANGED handles => HandlesReal'
  BY SessionsStay DEF HandlesReal
<1>3. ASSUME NEW t \in Threads, Client(t) PROVE HandlesInv'
  <2>1. world = "NS" /\ UNCHANGED session
    BY <1>3 DEF Client, Step, Call, Lock, Smc, Unlock, Finish, tosVars, taVars
  <2>2. \A u \in Threads \ {t} : UNCHANGED <<cmd[u], ret[u], pc[u]>>
    BY <1>3 DEF Client, Step, Call, Lock, Smc, Unlock, Finish
  <2>3. mainPc' = "dispatch"
    BY <1>3, <2>1 DEF Client, Call, Lock, Smc, Unlock, Finish, tosVars, Phase
  <2>4. CASE Finish(t)
    <3>1. ret'[t] = "none" /\ pc'[t] = "idle"
      BY <2>4 DEF Finish, Step
    <3>2. HandlesReal'
      <4>1. CASE UNCHANGED handles
        BY <4>1, <1>2
      <4>2. CASE /\ cmd[t].op = "open" /\ ret[t] = "SUCCESS"
                 /\ handles' = [handles EXCEPT ![ClientOf[t]] = @ \cup {cmd[t].session}]
        <5>1. OpenedOwn(t)
          BY <4>2 DEF Answering
        <5> QED
          BY <4>2, <5>1, <2>1 DEF HandlesReal, OpenedOwn
      <4> QED
        BY <2>4, <4>1, <4>2 DEF Finish
    <3> QED
      BY <1>1, <2>1, <2>2, <2>3, <3>1, <3>2 DEF Answering
  <2>5. CASE ~Finish(t)
    <3>1. UNCHANGED <<handles, ret>>
      BY <1>3, <2>5 DEF Client, Call, Lock, Smc, Unlock
    <3>2. \/ ret[t] = "none"
          \/ UNCHANGED cmd /\ pc'[t] \in {"back", "finish"}
      BY <1>3, <2>5 DEF Client, Step, Call, Lock, Smc, Unlock
    <3> QED
      BY <1>1, <1>2, <2>1, <2>2, <2>3, <3>1, <3>2 DEF Answering
  <2> QED
    BY <2>4, <2>5
<1>4. CASE Boot \/ LaunchNonSecure
  <2>1. UNCHANGED <<pc, cmd, ret, handles>> /\ mainPc' # "return"
    BY <1>4 DEF Boot, LaunchNonSecure, clientVars
  <2> QED
    BY <1>1, <1>2, <2>1 DEF Answering
<1>5. CASE Dispatch
  <2>1. UNCHANGED <<pc, ret, handles, nsCmd, world>> /\ nsCmd \in Threads
    BY <1>5 DEF Dispatch, InTos, Phase
  <2>2. \A u \in Threads \ {nsCmd} : UNCHANGED cmd[u]
    BY <1>5 DEF Dispatch, MainOpen, MainClose, MainInvoke
  <2>3. ret[nsCmd] = "none"
    BY <1>5, <2>1 DEF Dispatch, InTos, SecureWorldOwned
  <2>4. cmd'[nsCmd].op = "open" /\ mainRet' = "SUCCESS" /\ dead' = "no"
           => OpenedOwn(nsCmd)'
    <3> SUFFICES ASSUME cmd'[nsCmd].op = "open", mainRet' = "SUCCESS", dead' = "no"
                 PROVE  OpenedOwn(nsCmd)'
      OBVIOUS
    <3>1. MainOpen(nsCmd) /\ cmd[nsCmd].what \in Services
      BY <1>5, <2>1 DEF Dispatch, MainOpen, MainClose, MainInvoke, OpenResult
    <3>2. PICK id : session' = Append(session,
                       [client |-> ClientOf[nsCmd], service |-> cmd[nsCmd].what,
                        task |-> id])
      <4>1. TA_OpenSession(ClientOf[nsCmd], cmd[nsCmd].what)
        BY <3>1 DEF MainOpen
      <4> QED
        BY <4>1, <3>1, Zenon DEF TA_OpenSession
    <3> DEFINE s == [client |-> ClientOf[nsCmd], service |-> cmd[nsCmd].what,
                     task |-> id]
    <3>3. /\ Len(session') = Len(session) + 1 /\ Len(session') \in DOMAIN session'
          /\ session'[Len(session')] = s
      <4>1. session' = Append(session, s) /\ session \in Seq(Session)
        BY <3>2
      <4> HIDE DEF s
      <4> QED
        BY <4>1
    <3>4. cmd'[nsCmd].session = Len(session')
      BY <3>1, <2>1 DEF MainOpen
    <3> QED
      BY <2>1, <3>3, <3>4 DEF OpenedOwn
  <2>5. HandlesReal'
    BY <2>1, <1>2
  <2>6. \A t \in Threads : cmd'[t].op = "open" /\ Answering(t)' => OpenedOwn(t)'
    <3> SUFFICES ASSUME NEW t \in Threads, cmd'[t].op = "open", Answering(t)'
                 PROVE  OpenedOwn(t)'
      OBVIOUS
    <3>1. CASE t = nsCmd
      BY <3>1, <2>1, <2>3, <2>4 DEF Answering, InTos
    <3>2. CASE t # nsCmd
      BY <3>2, <1>1, <2>1, <2>2 DEF Answering
    <3> QED
      BY <3>1, <3>2
  <2> QED
    BY <2>1, <2>5, <2>6
<1>6. CASE RunService
  <2>1. UNCHANGED <<pc, cmd, ret, handles, nsCmd, world, mainPc, mainRet>>
    BY <1>6 DEF RunService
  <2>2. \A t \in Threads : Answering(t)' => Answering(t)
    BY <1>6, <2>1 DEF Answering, InTos, RunService
  <2> QED
    BY <1>1, <1>2, <2>1, <2>2
<1>7. CASE TZApiReturn
  <2>1. /\ UNCHANGED <<cmd, handles, session>> /\ nsCmd \in Threads
        /\ mainPc' = "dispatch" /\ InTos /\ mainPc = "return"
    BY <1>7 DEF TZApiReturn, InTos, Phase, taVars
  <2>2. \A u \in Threads \ {nsCmd} : UNCHANGED <<ret[u], pc[u]>>
    BY <1>7 DEF TZApiReturn
  <2>3. /\ pc'[nsCmd] = "back"
        /\ cmd[nsCmd].op = "open" => ret'[nsCmd] = mainRet
    BY <1>7, <2>1 DEF TZApiReturn
  <2>4. \A t \in Threads : cmd'[t].op = "open" /\ Answering(t)' => Answering(t)
    BY <2>1, <2>2, <2>3 DEF Answering
  <2> QED
    BY <1>1, <1>2, <2>1, <2>2, <2>3, <2>4
<1> QED
  BY <1>3, <1>4, <1>5, <1>6, <1>7 DEF Next, Secure

LEMMA HandlesAlways == Spec => []HandlesInv
<1>1. Init => HandlesInv
  BY InitHandles
<1>2. IInv /\ HandlesInv /\ [Next]_vars => HandlesInv'
  <2> SUFFICES ASSUME IInv, HandlesInv, [Next]_vars PROVE HandlesInv'
    OBVIOUS
  <2>1. CASE UNCHANGED vars
    BY <2>1 DEF vars, tosVars, schedVars, taVars, clientVars, HandlesInv, HandlesReal,
                Answering, OpenedOwn, InTos
  <2> QED
    BY <2>1, HandlesStep
<1> QED
  BY <1>1, <1>2, IInvAlways, PTL DEF Spec

(* No client ever comes to hold the id of a session of another.            *)
THEOREM HandlesOwned == Spec => []HandlesReal
<1>1. HandlesInv => HandlesReal
  BY DEF HandlesInv
<1> QED
  BY <1>1, HandlesAlways, PTL

-----------------------------------------------------------------------------
TasksMade == \A i \in DOMAIN session : session[i].task # NoTask

Serving == current \notin {NoTask, MainTask} => mainRet = "SUCCESS"

OwnRequests ==
    \A t \in Threads :
        cmd[t].op \in {"close", "invoke"} => cmd[t] = NoRequest \/ OpenedOwn(t)

KnownDone ==
    \A t \in Threads :
        /\ cmd[t].op = "invoke" /\ AnswerBar[t] = "SUCCESS"
        /\ cmd[t].what = session[cmd[t].session].service
        => done[t]

RInv == ~MayRunOut /\ TasksMade /\ Serving /\ OwnRequests /\ KnownDone

-----------------------------------------------------------------------------
(* While the pool lasts nothing stops T-OS.                                *)
LEMMA Alive == ASSUME IInv, RInv PROVE dead = "no" /\ stackless = {}
  BY DEF IInv, RInv, PoolLasts

(* Only the caller whose registers are saved can be in T-OS.               *)
LEMMA OnlyCaller ==
    ASSUME IInv, NEW u \in Threads, u # nsCmd \/ world # "S"
    PROVE  pc[u] # "secure" /\ ~ServedIn(u)
  BY DEF IInv, SecureWorldOwned, ServedIn

(* While T-OS works on a command, its caller is inside.                    *)
LEMMA CallerInside ==
    ASSUME IInv, world = "S", mainPc \in {"dispatch", "return"}
    PROVE  nsCmd \in Threads /\ pc[nsCmd] = "secure"
  BY DEF IInv, Phase, SecureWorldOwned

(* The answers of the callers that are not in T-OS.                        *)
LEMMA AnswerOutside ==
    ASSUME NEW u \in Threads, ~ServedIn(u)
    PROVE  AnswerBar[u] = ret[u]
  BY DEF AnswerBar

(* What a request other than an open names, T-OS finds if it is open.      *)
LEMMA FoundIfOpen ==
    ASSUME IInv, OwnRequests, NEW t \in Threads,
           cmd[t].op \in {"close", "invoke"}
    PROVE  Found(ClientOf[t], cmd[t].session) <=> cmd[t].session \in open
<1>1. open \subseteq DOMAIN session /\ session \in Seq(Session)
  BY DEF IInv, TypeOK
<1>2. 0 \notin DOMAIN session
  BY <1>1
<1>3. CASE cmd[t] = NoRequest
  BY <1>1, <1>2, <1>3 DEF NoRequest, Found
<1>4. CASE OpenedOwn(t)
  BY <1>4 DEF OpenedOwn, Found
<1> QED
  BY <1>3, <1>4 DEF OwnRequests

(* An invocation of an open session puts the session's task to work.       *)
LEMMA InvokeStarts ==
    ASSUME DispatchPre, MainInvoke(nsCmd), TasksMade,
           Found(ClientOf[nsCmd], cmd[nsCmd].session)
    PROVE  /\ current' \notin {NoTask, MainTask} /\ mainRet' = "SUCCESS"
           /\ UNCHANGED <<session, open, cmd>>
<1> DEFINE id == cmd[nsCmd].session
           t == session[id].task
<1>1. id \in DOMAIN session /\ id \in open /\ t # NoTask
  BY DEF Found, DispatchPre, IInv, TypeOK, TasksMade
<1>2. t # MainTask /\ t \in suspended
  BY <1>1 DEF DispatchPre, IInv, Placement, SessionsOwnTasks
<1>3. TaskStart(t) /\ UNCHANGED <<session, open, cmd>> /\ mainRet' = "SUCCESS"
  BY DEF MainInvoke, TA_InvokeCommand, InvokeResult, schedVars
<1>4. current' = t
  BY <1>1, <1>2, <1>3, StartFromMain DEF DispatchPre
<1> QED
  BY <1>1, <1>2, <1>3, <1>4

(* An invocation of a session that T-OS does not find changes nothing.     *)
LEMMA InvokeRefused ==
    ASSUME DispatchPre, MainInvoke(nsCmd),
           ~Found(ClientOf[nsCmd], cmd[nsCmd].session)
    PROVE  /\ current' = MainTask /\ mainRet' = "BAD_PARAMETERS"
           /\ UNCHANGED <<session, open, cmd>>
  BY DEF MainInvoke, TA_InvokeCommand, InvokeResult, DispatchPre, schedVars, taVars

(* An open: an unknown service, or a session with a task of its own.       *)
LEMMA OpenMakes ==
    ASSUME DispatchPre, RInv, MainOpen(nsCmd)
    PROVE  /\ current' = MainTask
           /\ \/ /\ cmd[nsCmd].what \notin Services
                 /\ mainRet' = "NOT_SUPPORTED"
                 /\ UNCHANGED <<session, open, cmd>>
              \/ /\ cmd[nsCmd].what \in Services
                 /\ mainRet' = "SUCCESS"
                 /\ session' = Append(session,
                        [client |-> ClientOf[nsCmd],
                         service |-> cmd[nsCmd].what, task |-> Len(entry) + 1])
                 /\ open' = open \cup {Len(session) + 1}
                 /\ cmd' = [cmd EXCEPT ![nsCmd].session = Len(session')]
<1> DEFINE c == ClientOf[nsCmd]
           e == cmd[nsCmd].what
<1>1. TA_OpenSession(c, e)
  BY DEF MainOpen
<1>2. current' = MainTask
  BY <1>1 DEF TA_OpenSession, DispatchPre, schedVars
<1>3. CASE e \notin Services
  BY <1>1, <1>2, <1>3 DEF TA_OpenSession, MainOpen, OpenResult, taVars
<1>4. CASE e \in Services
  <2>1. PICK id \in {NoTask, Len(entry) + 1} :
           /\ TaskCreate(e, id)
           /\ session' = Append(session, [client |-> c, service |-> e, task |-> id])
           /\ open' = open \cup {Len(session) + 1}
    BY <1>1, <1>4 DEF TA_OpenSession, RInv
  <2>2. id = Len(entry) + 1
    BY <2>1 DEF TaskCreate, RInv
  <2> QED
    BY <1>2, <1>4, <2>1, <2>2 DEF MainOpen, OpenResult
<1> QED
  BY <1>3, <1>4

(* A close takes just the session of the request off the list.             *)
LEMMA CloseTakesOff ==
    ASSUME DispatchPre, RInv, MainClose(nsCmd)
    PROVE  /\ current' = MainTask /\ mainRet' = "SUCCESS"
           /\ UNCHANGED <<session, cmd>>
           /\ open' = open \ {cmd[nsCmd].session}
<1> DEFINE c == ClientOf[nsCmd]
           id == cmd[nsCmd].session
<1>1. Found(c, id) <=> id \in open
  BY FoundIfOpen DEF DispatchPre, RInv, MainClose
<1>2. CASE ~Found(c, id)
  BY <1>1, <1>2 DEF MainClose, TA_CloseSession, DispatchPre, schedVars, taVars
<1>3. CASE Found(c, id)
  <2>1. ready' = ready /\ ~ListDelHangs(ready', session[id].task)
    BY <1>3 DEF MainClose, TA_CloseSession, TaskDelReadyByID, OnReady, ListDelHangs,
                DispatchPre
  <2>2. dead' # "hang"
    BY <1>3, <2>1, Alive
       DEF MainClose, TA_CloseSession, TaskDelSuspudByID, DispatchPre
  <2> QED
    BY <1>3, <2>2 DEF MainClose, TA_CloseSession, DispatchPre
<1> QED
  BY <1>2, <1>3

(* A service's turn, for the request whose parameters the globals name.    *)
LEMMA ServiceServes ==
    ASSUME IInv, RInv, RunService
    PROVE  /\ nsCmd \in Threads /\ pc[nsCmd] = "secure"
           /\ mainPc = "return" /\ mainRet = "SUCCESS"
           /\ current # MainTask /\ current' = MainTask
           /\ cmd[nsCmd].op = "invoke" /\ cmd[nsCmd].session \in open
           /\ done' = IF cmd[nsCmd].what = session[cmd[nsCmd].session].service
                      THEN [done EXCEPT ![nsCmd] = TRUE] ELSE done
           /\ UNCHANGED <<mainPc, mainRet, world, nsCmd, pc, cmd, ret, handles,
                          session, open>>
<1>1. current \notin {NoTask, MainTask}
  BY DEF RunService, TaskTurn
<1>2. /\ mainPc = "return" /\ world = "S" /\ cmd[nsCmd].op = "invoke"
      /\ curParams = nsCmd /\ curCommand = cmd[nsCmd].what
      /\ cmd[nsCmd].session \in open
      /\ entry[current] = session[cmd[nsCmd].session].service
  BY <1>1 DEF IInv, RunsForCaller, Found
<1>3. current' = MainTask
  BY <1>1, ReturnToMain DEF IInv, Phase, RunService, TaskTurn
<1>4. mainRet = "SUCCESS"
  BY <1>1 DEF RInv, Serving
<1> QED
  BY <1>1, <1>2, <1>3, <1>4, CallerInside
     DEF RunService, TaskTurn, ServiceAccepts, taVars

-----------------------------------------------------------------------------
(* The invariant before the system is booted.                              *)
LEMMA InitRInv == Init /\ ~MayRunOut => RInv
  BY DEF Init, SchedInit, TaInit, RInv, TasksMade, Serving, OwnRequests, KnownDone,
         AnswerBar, ServedIn, NoRequest, NoTask, MainTask

(* What a session was opened to does not change either.                    *)
LEMMA OwnStays ==
    ASSUME IInv, Next, NEW t \in Threads, OpenedOwn(t), UNCHANGED cmd[t]
    PROVE  /\ OpenedOwn(t)'
           /\ session'[cmd[t].session] = session[cmd[t].session]
  BY SessionsStay DEF OpenedOwn

(* Steps of the threads keep the invariant.                                *)
LEMMA ClientKeeps ==
    ASSUME IInv, HandlesInv, RInv, NEW t \in Threads, Client(t)
    PROVE  RInv'
<1> USE TaInterfaceAssumption, TzCallAssumption DEF IInv, TypeOK
<1>1. world = "NS" /\ UNCHANGED <<session, current, mainPc, mainRet>>
  BY DEF Client, Step, Call, Lock, Smc, Unlock, Finish, tosVars, schedVars, taVars
<1>2. \A u \in Threads \ {t} : UNCHANGED <<cmd[u], ret[u], done[u], pc[u]>>
  BY DEF Client, Step, Call, Lock, Smc, Unlock, Finish
<1>3. mainPc = "dispatch"
  BY <1>1 DEF Phase
<1>4. \A u \in Threads : ~ServedIn(u) /\ ~ServedIn(u)'
  BY <1>1, <1>3 DEF ServedIn
<1>5. \A u \in Threads : AnswerBar[u] = ret[u] /\ AnswerBar'[u] = ret'[u]
  BY <1>4 DEF AnswerBar
<1>6. OwnRequests'
  <2>1. ASSUME NEW u \in Threads, UNCHANGED cmd[u]
        PROVE  cmd'[u].op \in {"close", "invoke"} =>
                   cmd'[u] = NoRequest \/ OpenedOwn(u)'
    BY <1>1, <2>1 DEF RInv, OwnRequests, OpenedOwn
  <2>2. CASE Call(t)
    <3>1. PICK r \in Requests(t) : cmd' = [cmd EXCEPT ![t] = r]
      BY <2>2 DEF Call
    <3>2. r.op \in {"close", "invoke"} => r.session \in handles[ClientOf[t]]
      BY <3>1 DEF Requests
    <3>3. cmd'[t].op \in {"close", "invoke"} => OpenedOwn(t)'
      BY <1>1, <3>1, <3>2 DEF HandlesInv, HandlesReal, OpenedOwn
    <3> QED
      BY <1>2, <2>1, <3>3 DEF OwnRequests
  <2>3. CASE Finish(t)
    <3>1. cmd'[t] = NoRequest
      BY <2>3 DEF Finish
    <3> QED
      BY <1>2, <2>1, <3>1 DEF OwnRequests
  <2>4. CASE ~Call(t) /\ ~Finish(t)
    <3>1. UNCHANGED cmd
      BY <2>4 DEF Client, Lock, Smc, Unlock
    <3> QED
      BY <2>1, <3>1 DEF OwnRequests
  <2> QED
    BY <2>2, <2>3, <2>4
<1>7. KnownDone'
  <2>1. ret'[t] = "SUCCESS" => UNCHANGED <<cmd, ret, done>>
    BY DEF HandlesInv, Client, Step, Call, Lock, Smc, Unlock, Finish
  <2> QED
    BY <1>1, <1>2, <1>5, <2>1 DEF RInv, KnownDone
<1> QED
  BY <1>1, <1>6, <1>7 DEF RInv, MayRunOut, TasksMade, Serving

(* So does the main task's work on a command ...                           *)
LEMMA DispatchKeeps ==
    ASSUME IInv, HandlesInv, RInv, Dispatch
    PROVE  RInv'
<1> USE TaInterfaceAssumption, TzCallAssumption DEF IInv, TypeOK
<1>1. DispatchPre /\ nsCmd \in Threads /\ pc[nsCmd] = "secure" /\ InTos
  BY DispatchStart, CallerInside DEF DispatchPre, Dispatch
<1>2. UNCHANGED <<world, nsCmd, pc, ret, done>> /\ mainPc' = "return"
  BY DEF Dispatch
<1>3. ret[nsCmd] = "none"
  BY <1>1 DEF HandlesInv
<1>4. ASSUME NEW u \in Threads, u # nsCmd
      PROVE  /\ UNCHANGED cmd[u] /\ AnswerBar[u] = ret[u] /\ AnswerBar'[u] = ret[u]
  <2>1. UNCHANGED cmd[u]
    BY <1>4 DEF Dispatch, MainOpen, MainClose, MainInvoke
  <2>2. ~ServedIn(u) /\ ~ServedIn(u)'
    BY <1>2, <1>4, OnlyCaller DEF ServedIn
  <2> QED
    BY <1>2, <2>1, <2>2 DEF AnswerBar
<1>5. ASSUME NEW u \in Threads, u # nsCmd
      PROVE  /\ cmd'[u].op \in {"close", "invoke"} =>
                   cmd'[u] = NoRequest \/ OpenedOwn(u)'
             /\ cmd'[u].op = "invoke" =>
                   session'[cmd[u].session] = session[cmd[u].session]
  <2>1. OpenedOwn(u) => /\ OpenedOwn(u)'
                        /\ session'[cmd[u].session] = session[cmd[u].session]
    BY <1>4, <1>5, OwnStays DEF Next, Secure
  <2> QED
    BY <1>4, <1>5, <2>1 DEF RInv, OwnRequests, NoRequest
<1>6. ASSUME NEW u \in Threads, u # nsCmd, cmd'[u].op = "invoke",
             AnswerBar'[u] = "SUCCESS",
             cmd'[u].what = session'[cmd'[u].session].service
      PROVE  done'[u]
  BY <1>2, <1>4, <1>5, <1>6 DEF RInv, KnownDone
<1>7. CASE MainOpen(nsCmd)
  <2>1. current' = MainTask /\ cmd'[nsCmd].op = "open"
    BY <1>1, <1>7, OpenMakes DEF MainOpen, Request
  <2>2. TasksMade'
    <3>1. CASE session' = session
      BY <3>1 DEF RInv, TasksMade
    <3>2. CASE session' = Append(session,
                    [client |-> ClientOf[nsCmd], service |-> cmd[nsCmd].what,
                     task |-> Len(entry) + 1])
      <4> DEFINE s == [client |-> ClientOf[nsCmd], service |-> cmd[nsCmd].what,
                       task |-> Len(entry) + 1]
      <4>1. s.task # NoTask
        BY TasksAreIds DEF NoTask
      <4> HIDE DEF s
      <4>2. \A i \in DOMAIN session' :
                session'[i] = s \/ (i \in DOMAIN session /\ session'[i] = session[i])
        BY <3>2 DEF s
      <4> QED
        BY <4>1, <4>2 DEF RInv, TasksMade
    <3> QED
      BY <1>1, <1>7, <3>1, <3>2, OpenMakes
  <2> QED
    BY <1>5, <1>6, <2>1, <2>2
       DEF RInv, MayRunOut, Serving, OwnRequests, KnownDone
<1>8. CASE MainClose(nsCmd)
  <2>1. /\ current' = MainTask /\ UNCHANGED <<session, cmd>>
        /\ cmd[nsCmd].op = "close"
    BY <1>1, <1>8, CloseTakesOff DEF MainClose
  <2>2. OwnRequests' /\ TasksMade'
    BY <2>1 DEF RInv, OwnRequests, OpenedOwn, TasksMade
  <2>3. KnownDone'
    BY <1>6, <2>1 DEF KnownDone
  <2> QED
    BY <2>1, <2>2, <2>3 DEF RInv, MayRunOut, Serving
<1>9. CASE MainInvoke(nsCmd)
  <2>1. UNCHANGED <<session, cmd>>
    BY <1>1, <1>9, InvokeStarts, InvokeRefused DEF RInv
  <2>2. AnswerBar'[nsCmd] # "SUCCESS"
    <3>1. CASE current' # MainTask
      BY <1>1, <1>2, <1>3, <3>1 DEF AnswerBar, ServedIn
    <3>2. CASE current' = MainTask
      <4>1. mainRet' = "BAD_PARAMETERS"
        BY <1>1, <1>9, <3>2, InvokeStarts, InvokeRefused DEF RInv
      <4> QED
        BY <1>1, <1>2, <1>3, <4>1 DEF AnswerBar
    <3> QED
      BY <3>1, <3>2
  <2>3. Serving'
    BY <1>1, <1>9, InvokeStarts, InvokeRefused DEF RInv, Serving
  <2>4. OwnRequests'
    BY <2>1 DEF RInv, OwnRequests, OpenedOwn
  <2>5. KnownDone'
    BY <1>2, <1>6, <2>2 DEF KnownDone
  <2> QED
    BY <2>1, <2>3, <2>4, <2>5 DEF RInv, MayRunOut, TasksMade
<1> QED
  BY <1>7, <1>8, <1>9 DEF Dispatch

(* ... and every other step of T-OS.                                       *)
LEMMA SecureKeeps ==
    ASSUME IInv, HandlesInv, RInv,
           Boot \/ LaunchNonSecure \/ RunService \/ TZApiReturn
    PROVE  RInv'
<1> USE TaInterfaceAssumption, TzCallAssumption DEF IInv, TypeOK
<1>1. UNCHANGED <<cmd, session>>
  BY DEF Boot, LaunchNonSecure, RunService, TZApiReturn, TEE_StartMain, TaskTurn,
         taVars, clientVars
<1>2. OwnRequests' /\ TasksMade'
  BY <1>1 DEF RInv, OwnRequests, OpenedOwn, TasksMade
<1>3. Serving'
  <2>1. CASE Boot
    BY <2>1 DEF Boot, TEE_StartMain, Serving
  <2>2. CASE LaunchNonSecure
    BY <2>2 DEF LaunchNonSecure, schedVars, RInv, Serving
  <2>3. CASE RunService
    BY <2>3, ServiceServes DEF Serving
  <2>4. CASE TZApiReturn
    BY <2>4 DEF TZApiReturn, schedVars, Serving
  <2> QED
    BY <2>1, <2>2, <2>3, <2>4
<1>4. KnownDone'
  <2>1. CASE Boot \/ LaunchNonSecure
    <3>1. UNCHANGED <<ret, done>> /\ mainPc' # "return"
      BY <2>1 DEF Boot, LaunchNonSecure, clientVars
    <3>2. \A u \in Threads : AnswerBar'[u] = ret[u] /\ AnswerBar[u] = ret[u]
      BY <2>1, <3>1 DEF AnswerBar, ServedIn, Boot, LaunchNonSecure
    <3> QED
      BY <1>1, <3>1, <3>2 DEF RInv, KnownDone
  <2>2. CASE RunService
    <3>1. \A u \in Threads : u # nsCmd =>
              AnswerBar'[u] = ret[u] /\ AnswerBar[u] = ret[u] /\ done'[u] = done[u]
      BY <2>2, ServiceServes, OnlyCaller DEF AnswerBar, ServedIn
    <3>2. cmd[nsCmd].what = session[cmd[nsCmd].session].service => done'[nsCmd]
      BY <2>2, ServiceServes
    <3> QED
      BY <1>1, <3>1, <3>2 DEF RInv, KnownDone
  <2>3. CASE TZApiReturn
    <3>1. /\ nsCmd \in Threads /\ pc[nsCmd] = "secure" /\ ServedIn(nsCmd)
          /\ UNCHANGED done /\ mainPc' = "dispatch"
      BY <2>3, CallerInside DEF TZApiReturn, InTos, ServedIn
    <3>2. \A u \in Threads : u # nsCmd =>
              AnswerBar'[u] = ret[u] /\ AnswerBar[u] = ret[u]
      BY <2>3, <3>1, OnlyCaller DEF TZApiReturn, AnswerBar, ServedIn
    <3>3. AnswerBar'[nsCmd] = AnswerBar[nsCmd]
      BY <2>3, <3>1 DEF TZApiReturn, AnswerBar, ServedIn, GetTaskReturnValue
    <3> QED
      BY <1>1, <3>1, <3>2, <3>3 DEF RInv, KnownDone
  <2> QED
    BY <2>1, <2>2, <2>3
<1> QED
  BY <1>2, <1>3, <1>4 DEF RInv, MayRunOut

(* Hence every step keeps it,                                              *)
LEMMA RInvStep == IInv /\ HandlesInv /\ RInv /\ [Next]_vars => RInv'
<1> SUFFICES ASSUME IInv, HandlesInv, RInv, [Next]_vars PROVE RInv'
  OBVIOUS
<1>1. CASE UNCHANGED vars
  BY <1>1 DEF vars, tosVars, schedVars, taVars, clientVars, RInv, MayRunOut,
              TasksMade, Serving, OwnRequests, KnownDone, OpenedOwn, AnswerBar,
              ServedIn
<1> QED
  BY <1>1, ClientKeeps, DispatchKeeps, SecureKeeps DEF Next, Secure

(* and it always holds, while the pool lasts.                              *)
LEMMA RInvAlways == ~MayRunOut => (Spec => []RInv)
<1>1. Init /\ ~MayRunOut => RInv
  BY InitRInv
<1> QED
  BY <1>1, RInvStep, IInvAlways, HandlesAlways, PTL DEF Spec

(* While the pool lasts, a call that reports success of a command its      *)
(* service knows has had the service carry it out on the caller's request. *)
THEOREM KnownCommandsDone == ~MayRunOut => (Spec => []KnownCommandDone)
<1>1. RInv => KnownCommandDone
  BY DEF RInv, KnownDone, KnownCommandDone, AnswerBar, ServedIn
<1> QED
  BY <1>1, RInvAlways, PTL

-----------------------------------------------------------------------------
(* The steps of TzCall, seen from SessionService.                          *)
barVars == <<PhaseBar, cmd, AnswerBar, done, SessionsBar, open, handles>>

(* Initial states are initial states of SessionService.                    *)
LEMMA InitImplements == Init => Abstract!Init
<1> SUFFICES ASSUME Init PROVE Abstract!Init
  OBVIOUS
<1>1. /\ pc = [t \in Threads |-> "idle"] /\ mainPc = "boot" /\ session = <<>>
      /\ ret = [t \in Threads |-> "none"] /\ open = {}
      /\ cmd = [t \in Threads |-> NoRequest] /\ done = [t \in Threads |-> FALSE]
      /\ handles = [c \in Clients |-> {}]
  BY DEF Init, TaInit
<1>2. PhaseBar = [t \in Threads |-> "idle"]
  BY <1>1 DEF PhaseBar
<1>3. AnswerBar = [t \in Threads |-> "none"]
  BY <1>1 DEF AnswerBar, ServedIn
<1>4. SessionsBar = <<>>
  BY <1>1 DEF SessionsBar
<1> QED
  BY <1>1, <1>2, <1>3, <1>4 DEF Abstract!Init, Abstract!NoRequest, NoRequest

(* A thread's phase and answer change, all others' stay.                   *)
LEMMA BarsOfOne ==
    ASSUME NEW t \in Threads, NEW p, NEW a,
           PhaseBar'[t] = p, AnswerBar'[t] = a,
           \A u \in Threads : u # t =>
               PhaseBar'[u] = PhaseBar[u] /\ AnswerBar'[u] = AnswerBar[u]
    PROVE  /\ PhaseBar' = [PhaseBar EXCEPT ![t] = p]
           /\ AnswerBar' = [AnswerBar EXCEPT ![t] = a]
<1>1. /\ PhaseBar = [u \in Threads |-> PhaseBar[u]]
      /\ PhaseBar' = [u \in Threads |-> PhaseBar'[u]]
  BY DEF PhaseBar
<1>2. /\ AnswerBar = [u \in Threads |-> AnswerBar[u]]
      /\ AnswerBar' = [u \in Threads |-> AnswerBar'[u]]
  BY DEF AnswerBar
<1> HIDE DEF PhaseBar, AnswerBar
<1> QED
  BY <1>1, <1>2

(* Functions over the threads are unchanged when their values are.         *)
LEMMA BarsKept ==
    ASSUME \A u \in Threads :
               PhaseBar'[u] = PhaseBar[u] /\ AnswerBar'[u] = AnswerBar[u]
    PROVE  UNCHANGED <<PhaseBar, AnswerBar>>
<1>1. /\ PhaseBar = [u \in Threads |-> PhaseBar[u]]
      /\ PhaseBar' = [u \in Threads |-> PhaseBar'[u]]
  BY DEF PhaseBar
<1>2. /\ AnswerBar = [u \in Threads |-> AnswerBar[u]]
      /\ AnswerBar' = [u \in Threads |-> AnswerBar'[u]]
  BY DEF AnswerBar
<1> QED
  BY <1>1, <1>2

(* SessionsBar has an entry per session, with its service.                 *)
LEMMA SessionsBarFacts ==
    ASSUME IInv
    PROVE  /\ Len(SessionsBar) = Len(session)
           /\ DOMAIN SessionsBar = DOMAIN session
           /\ \A i \in DOMAIN session :
                 SessionsBar[i].service = session[i].service
<1>1. session \in Seq(Session) /\ DOMAIN session = 1 .. Len(session)
      /\ Len(session) \in Nat
  BY DEF IInv, TypeOK
<1>2. SessionsBar = [i \in 1 .. Len(session) |->
                        [client |-> session[i].client,
                         service |-> session[i].service]]
  BY <1>1 DEF SessionsBar
<1> QED
  BY <1>1, <1>2

(* A function on 1 .. n is a sequence.                                     *)
LEMMA FunctionSeq ==
    ASSUME NEW S, NEW n \in Nat, NEW f \in [1 .. n -> S]
    PROVE  f \in Seq(S) /\ Len(f) = n
  OBVIOUS

(* A function on one more number is the function and an element.           *)
LEMMA MapAppend ==
    ASSUME NEW n \in Nat, NEW f, NEW g, NEW b,
           f = [i \in 1 .. n |-> f[i]], g = [i \in 1 .. (n + 1) |-> g[i]],
           g[n + 1] = b, \A i \in 1 .. n : g[i] = f[i]
    PROVE  g = Append(f, b)
<1> DEFINE S == {f[i] : i \in 1 .. n} \cup {b}
<1>1. b \in S /\ \A i \in 1 .. n : f[i] \in S
  OBVIOUS
<1>2. \A i \in 1 .. (n + 1) : g[i] \in S
  BY <1>1
<1> HIDE DEF S
<1>3. f \in Seq(S) /\ Len(f) = n
  <2>1. f \in [1 .. n -> S]
    BY <1>1
  <2> QED
    BY <2>1, FunctionSeq
<1>4. g \in Seq(S) /\ Len(g) = n + 1
  <2>1. g \in [1 .. (n + 1) -> S]
    BY <1>2
  <2> QED
    BY <2>1
<1>5. /\ Append(f, b) \in Seq(S) /\ Len(Append(f, b)) = n + 1
      /\ \A i \in 1 .. n : Append(f, b)[i] = f[i]
      /\ Append(f, b)[n + 1] = b
  BY <1>1, <1>3, AppendProperties
<1>6. ASSUME NEW i \in 1 .. (n + 1) PROVE g[i] = Append(f, b)[i]
  <2>1. i \in 1 .. n \/ i = n + 1
    OBVIOUS
  <2> QED
    BY <1>5, <2>1
<1> QED
  BY <1>4, <1>5, <1>6, SeqEqual

(* A new session is a new entry of SessionsBar.                            *)
LEMMA SessionsBarAppend ==
    ASSUME IInv, NEW c, NEW e, NEW k,
           session' = Append(session, [client |-> c, service |-> e, task |-> k])
    PROVE  SessionsBar' = Append(SessionsBar, [client |-> c, service |-> e])
<1> DEFINE s == [client |-> c, service |-> e, task |-> k]
           n == Len(session)
<1>1. session \in Seq(Session) /\ DOMAIN session = 1 .. n /\ n \in Nat
  BY DEF IInv, TypeOK
<1>2. /\ s.client = c /\ s.service = e
      /\ session' = Append(session, s)
  OBVIOUS
<1> HIDE DEF s
<1>3. /\ DOMAIN session' = 1 .. (n + 1) /\ session'[n + 1] = s
      /\ \A i \in 1 .. n : session'[i] = session[i]
  BY <1>1, <1>2
<1>4. SessionsBar = [i \in 1 .. n |-> [client |-> session[i].client,
                                       service |-> session[i].service]]
  BY <1>1 DEF SessionsBar
<1>5. SessionsBar' = [i \in 1 .. (n + 1) |-> [client |-> session'[i].client,
                                              service |-> session'[i].service]]
  BY <1>3 DEF SessionsBar
<1> HIDE DEF n
<1>6. SessionsBar'[n + 1] = [client |-> c, service |-> e]
  BY <1>1, <1>2, <1>3, <1>5
<1>7. \A i \in 1 .. n : SessionsBar'[i] = SessionsBar[i]
  BY <1>1, <1>3, <1>4, <1>5
<1>8. /\ SessionsBar = [i \in 1 .. n |-> SessionsBar[i]]
      /\ SessionsBar' = [i \in 1 .. (n + 1) |-> SessionsBar'[i]]
  BY <1>4, <1>5
<1> QED
  BY <1>1, <1>6, <1>7, <1>8, MapAppend

-----------------------------------------------------------------------------
(* What T-OS does for the caller, once its main task runs again, is one    *)
(* step of the service; the rest of its work is none.                      *)
LEMMA DispatchImplements ==
    ASSUME IInv, HandlesInv, RInv, Dispatch
    PROVE  Abstract!Next \/ UNCHANGED barVars
<1> USE DEF IInv, TypeOK
<1> DEFINE t == nsCmd
<1>1. DispatchPre /\ t \in Threads /\ pc[t] = "secure"
  BY DispatchStart, CallerInside DEF DispatchPre
<1>2. /\ UNCHANGED <<world, nsCmd, pc, ret, done, handles>>
      /\ mainPc = "dispatch" /\ mainPc' = "return"
  BY DEF Dispatch
<1>3. \A u \in Threads : u # t =>
          PhaseBar'[u] = PhaseBar[u] /\ AnswerBar'[u] = AnswerBar[u]
  <2>1. \A u \in Threads : u # t => ~ServedIn(u) /\ ~ServedIn(u)'
    BY <1>2, OnlyCaller DEF ServedIn
  <2> QED
    BY <1>2, <2>1 DEF PhaseBar, AnswerBar
<1>4. PhaseBar[t] = "called" /\ AnswerBar[t] = ret[t]
  BY <1>1, <1>2 DEF PhaseBar, AnswerBar, ServedIn
<1>5. ASSUME current' = MainTask
      PROVE  /\ PhaseBar' = [PhaseBar EXCEPT ![t] = "served"]
             /\ AnswerBar' = [AnswerBar EXCEPT ![t] = mainRet']
  <2>1. PhaseBar'[t] = "served" /\ AnswerBar'[t] = mainRet'
    BY <1>1, <1>2, <1>5 DEF PhaseBar, AnswerBar, ServedIn
  <2> QED
    BY <1>1, <1>3, <2>1, BarsOfOne
<1>6. ASSUME current' = MainTask PROVE Abstract!Answer(t, mainRet')
  BY <1>2, <1>4, <1>5, <1>6 DEF Abstract!Answer
<1>7. CASE MainOpen(nsCmd)
  <2>1. current' = MainTask /\ cmd[t].op = "open"
    BY <1>1, <1>7, OpenMakes DEF MainOpen
  <2>2. CASE /\ cmd[t].what \notin Services /\ mainRet' = "NOT_SUPPORTED"
             /\ UNCHANGED <<session, open, cmd>>
    <3>1. UNCHANGED SessionsBar
      BY <2>2 DEF SessionsBar
    <3>2. Abstract!Open(t)
      BY <1>2, <1>6, <2>1, <2>2, <3>1 DEF Abstract!Open
    <3> QED
      BY <1>1, <3>2 DEF Abstract!Next
  <2>3. CASE /\ cmd[t].what \in Services /\ mainRet' = "SUCCESS"
             /\ session' = Append(session,
                    [client |-> ClientOf[t], service |-> cmd[t].what,
                     task |-> Len(entry) + 1])
             /\ open' = open \cup {Len(session) + 1}
             /\ cmd' = [cmd EXCEPT ![t].session = Len(session')]
    <3>1. SessionsBar' = Append(SessionsBar, [client |-> ClientOf[t],
                                              service |-> cmd[t].what])
      BY <2>3, SessionsBarAppend
    <3>2. Len(session') = Len(session) + 1
      <4> DEFINE s == [client |-> ClientOf[t], service |-> cmd[t].what,
                       task |-> Len(entry) + 1]
      <4>1. session' = Append(session, s)
        BY <2>3
      <4> HIDE DEF s
      <4> QED
        BY <4>1
    <3>3. Len(SessionsBar) = Len(session)
      BY SessionsBarFacts
    <3>4. Abstract!Open(t)
      BY <1>2, <1>6, <2>1, <2>3, <3>1, <3>2, <3>3 DEF Abstract!Open
    <3> QED
      BY <1>1, <3>4 DEF Abstract!Next
  <2> QED
    BY <1>1, <1>7, <2>2, <2>3, OpenMakes
<1>8. CASE MainClose(nsCmd)
  <2>1. /\ current' = MainTask /\ mainRet' = "SUCCESS" /\ cmd[t].op = "close"
        /\ UNCHANGED <<session, cmd>> /\ open' = open \ {cmd[t].session}
    BY <1>1, <1>8, CloseTakesOff DEF MainClose
  <2>2. UNCHANGED SessionsBar
    BY <2>1 DEF SessionsBar
  <2>3. Abstract!Close(t)
    BY <1>2, <1>6, <2>1, <2>2 DEF Abstract!Close
  <2> QED
    BY <1>1, <2>3 DEF Abstract!Next
<1>9. CASE MainInvoke(nsCmd)
  <2>1. cmd[t].op = "invoke"
    BY <1>9 DEF MainInvoke
  <2>2. CASE Found(ClientOf[t], cmd[t].session)
    <3>1. current' # MainTask /\ UNCHANGED <<session, open, cmd>>
      BY <1>1, <1>9, <2>2, InvokeStarts DEF RInv
    <3>2. PhaseBar'[t] = PhaseBar[t] /\ AnswerBar'[t] = AnswerBar[t]
      BY <1>1, <1>2, <1>4, <3>1 DEF PhaseBar, AnswerBar, ServedIn
    <3>3. UNCHANGED <<PhaseBar, AnswerBar>>
      BY <1>3, <3>2, BarsKept
    <3>4. UNCHANGED SessionsBar
      BY <3>1 DEF SessionsBar
    <3> QED
      BY <1>2, <3>1, <3>3, <3>4 DEF barVars
  <2>3. CASE ~Found(ClientOf[t], cmd[t].session)
    <3>1. /\ current' = MainTask /\ mainRet' = "BAD_PARAMETERS"
          /\ UNCHANGED <<session, open, cmd>>
      BY <1>1, <1>9, <2>3, InvokeRefused
    <3>2. cmd[t].session \notin open
      BY <1>1, <2>1, <2>3, FoundIfOpen DEF RInv
    <3>3. UNCHANGED SessionsBar
      BY <3>1 DEF SessionsBar
    <3>4. Abstract!Invoke(t)
      BY <1>2, <1>6, <2>1, <3>1, <3>2, <3>3 DEF Abstract!Invoke
    <3> QED
      BY <1>1, <3>4 DEF Abstract!Next
  <2> QED
    BY <2>2, <2>3
<1> QED
  BY <1>7, <1>8, <1>9 DEF Dispatch

(* The service's work on an invocation is SessionService's Invoke.         *)
LEMMA ServiceImplements ==
    ASSUME IInv, HandlesInv, RInv, RunService
    PROVE  Abstract!Next
<1> USE DEF IInv, TypeOK
<1> DEFINE t == nsCmd
<1>1. /\ t \in Threads /\ pc[t] = "secure"
      /\ mainPc = "return" /\ mainRet = "SUCCESS"
      /\ current # MainTask /\ current' = MainTask
      /\ cmd[t].op = "invoke" /\ cmd[t].session \in open
      /\ done' = IF cmd[t].what = session[cmd[t].session].service
                 THEN [done EXCEPT ![t] = TRUE] ELSE done
      /\ UNCHANGED <<mainPc, mainRet, world, nsCmd, pc, cmd, ret, handles,
                     session, open>>
  BY ServiceServes
<1>2. \A u \in Threads : u # t =>
          PhaseBar'[u] = PhaseBar[u] /\ AnswerBar'[u] = AnswerBar[u]
  <2>1. \A u \in Threads : u # t => ~ServedIn(u) /\ ~ServedIn(u)'
    BY <1>1, OnlyCaller DEF ServedIn
  <2> QED
    BY <1>1, <2>1 DEF PhaseBar, AnswerBar
<1>3. /\ PhaseBar[t] = "called"
      /\ PhaseBar'[t] = "served" /\ AnswerBar'[t] = "SUCCESS"
  BY <1>1 DEF PhaseBar, AnswerBar, ServedIn
<1>4. Abstract!Answer(t, "SUCCESS")
  BY <1>1, <1>2, <1>3, BarsOfOne DEF Abstract!Answer
<1>5. UNCHANGED SessionsBar
  BY <1>1 DEF SessionsBar
<1>6. SessionsBar[cmd[t].session].service = session[cmd[t].session].service
  BY <1>1, SessionsBarFacts
<1>7. Abstract!Invoke(t)
  BY <1>1, <1>4, <1>5, <1>6 DEF Abstract!Invoke
<1> QED
  BY <1>1, <1>7 DEF Abstract!Next

(* Booting, leaving the core and returning to Linux do not show.           *)
LEMMA QuietImplements ==
    ASSUME IInv, HandlesInv, RInv, Boot \/ LaunchNonSecure \/ TZApiReturn
    PROVE  UNCHANGED barVars
<1> USE DEF IInv, TypeOK
<1>1. UNCHANGED <<cmd, done, session, open, handles>>
  BY DEF Boot, LaunchNonSecure, TZApiReturn, TEE_StartMain, taVars, clientVars
<1>2. UNCHANGED SessionsBar
  BY <1>1 DEF SessionsBar
<1>3. CASE Boot \/ LaunchNonSecure
  <2>1. \A u \in Threads : ~ServedIn(u) /\ ~ServedIn(u)'
    BY <1>3 DEF Boot, LaunchNonSecure, ServedIn
  <2>2. UNCHANGED <<pc, ret>>
    BY <1>3 DEF Boot, LaunchNonSecure, clientVars
  <2>3. UNCHANGED <<PhaseBar, AnswerBar>>
    BY <2>1, <2>2, BarsKept DEF PhaseBar, AnswerBar
  <2> QED
    BY <1>1, <1>2, <2>3 DEF barVars
<1>4. CASE TZApiReturn
  <2>1. nsCmd \in Threads /\ ServedIn(nsCmd) /\ mainPc' = "dispatch"
    BY <1>4, CallerInside DEF TZApiReturn, InTos, ServedIn
  <2>2. \A u \in Threads : u # nsCmd => ~ServedIn(u) /\ pc'[u] = pc[u] /\ ret'[u] = ret[u]
    BY <1>4, <2>1, OnlyCaller DEF TZApiReturn
  <2>3. pc'[nsCmd] = "back" /\ ret'[nsCmd] = mainRet
    BY <1>4, <2>1 DEF TZApiReturn, GetTaskReturnValue
  <2>4. \A u \in Threads : ~ServedIn(u)'
    BY <2>1 DEF ServedIn
  <2>5. \A u \in Threads :
            PhaseBar'[u] = PhaseBar[u] /\ AnswerBar'[u] = AnswerBar[u]
    BY <2>1, <2>2, <2>3, <2>4 DEF PhaseBar, AnswerBar, ServedIn
  <2> QED
    BY <1>1, <1>2, <2>5, BarsKept DEF barVars
<1> QED
  BY <1>3, <1>4

(* A thread's call begins and ends in the driver; the mutex and the smc    *)
(* are not seen by it.                                                     *)
LEMMA ClientImplements ==
    ASSUME IInv, HandlesInv, RInv, NEW t \in Threads, Client(t)
    PROVE  Abstract!Next \/ UNCHANGED barVars
<1> USE DEF IInv, TypeOK
<1>1. world = "NS" /\ UNCHANGED <<session, open, current, mainPc, mainRet>>
  BY DEF Client, Step, Call, Lock, Smc, Unlock, Finish, tosVars, schedVars, taVars
<1>2. UNCHANGED SessionsBar
  BY <1>1 DEF SessionsBar
<1>3. mainPc = "dispatch"
  BY <1>1 DEF Phase
<1>4. \A u \in Threads : ~ServedIn(u) /\ ~ServedIn(u)'
  BY <1>1, <1>3 DEF ServedIn
<1>5. \A u \in Threads : u # t =>
          PhaseBar'[u] = PhaseBar[u] /\ AnswerBar'[u] = AnswerBar[u]
  <2>1. \A u \in Threads : u # t => pc'[u] = pc[u] /\ ret'[u] = ret[u]
    BY DEF Client, Step, Call, Lock, Smc, Unlock, Finish
  <2> QED
    BY <1>4, <2>1 DEF PhaseBar, AnswerBar
<1>6. AnswerBar[t] = ret[t] /\ AnswerBar'[t] = ret'[t]
  BY <1>4 DEF AnswerBar
<1>7. CASE Call(t)
  <2>1. /\ pc[t] = "idle" /\ pc'[t] = "lock" /\ ret'[t] = ret[t]
        /\ UNCHANGED <<done, handles>>
        /\ \E r \in Requests(t) : cmd' = [cmd EXCEPT ![t] = r]
    BY <1>7 DEF Call, Step
  <2>2. PhaseBar[t] = "idle" /\ PhaseBar'[t] = "called"
    BY <1>4, <2>1 DEF PhaseBar
  <2>3. PhaseBar' = [PhaseBar EXCEPT ![t] = "called"]
    BY <1>5, <1>6, <2>1, <2>2, BarsOfOne
  <2>4. AnswerBar' = [AnswerBar EXCEPT ![t] = AnswerBar[t]]
    BY <1>5, <1>6, <2>1, <2>2, BarsOfOne
  <2>5. AnswerBar' = AnswerBar
    BY <2>4 DEF AnswerBar
  <2>6. Abstract!Requests(t) = Requests(t)
    BY DEF Abstract!Requests, Requests
  <2>7. Abstract!Call(t)
    BY <1>1, <1>2, <2>1, <2>2, <2>3, <2>5, <2>6 DEF Abstract!Call
  <2> QED
    BY <2>7 DEF Abstract!Next
<1>8. CASE Lock(t) \/ Smc(t) \/ Unlock(t)
  <2>1. UNCHANGED <<cmd, done, handles, ret>>
    BY <1>8 DEF Lock, Smc, Unlock
  <2>2. PhaseBar'[t] = PhaseBar[t]
    BY <1>4, <1>8 DEF PhaseBar, Lock, Smc, Unlock, Step
  <2>3. UNCHANGED <<PhaseBar, AnswerBar>>
    BY <1>5, <1>6, <2>1, <2>2, BarsKept
  <2> QED
    BY <1>1, <1>2, <2>1, <2>3 DEF barVars
<1>9. CASE Finish(t)
  <2>1. /\ pc[t] = "finish" /\ pc'[t] = "idle" /\ ret'[t] = "none"
        /\ cmd' = [cmd EXCEPT ![t] = NoRequest]
        /\ done' = [done EXCEPT ![t] = FALSE]
        /\ \/ /\ cmd[t].op = "open" /\ ret[t] = "SUCCESS"
              /\ handles' = [handles EXCEPT ![ClientOf[t]] = @ \cup {cmd[t].session}]
           \/ UNCHANGED handles
    BY <1>9 DEF Finish, Step
  <2>2. PhaseBar[t] = "served" /\ PhaseBar'[t] = "idle"
    BY <1>4, <2>1 DEF PhaseBar
  <2>3. /\ PhaseBar' = [PhaseBar EXCEPT ![t] = "idle"]
        /\ AnswerBar' = [AnswerBar EXCEPT ![t] = "none"]
    BY <1>5, <1>6, <2>1, <2>2, BarsOfOne
  <2>4. Abstract!Return(t)
    BY <1>1, <1>2, <1>6, <2>1, <2>2, <2>3
       DEF Abstract!Return, Abstract!NoRequest, NoRequest
  <2> QED
    BY <2>4 DEF Abstract!Next
<1> QED
  BY <1>7, <1>8, <1>9 DEF Client

(* Every step is a step of SessionService or none.                         *)
LEMMA StepImplements ==
    ASSUME IInv, HandlesInv, RInv, [Next]_vars
    PROVE  [Abstract!Next]_barVars
<1>1. CASE UNCHANGED vars
  BY <1>1 DEF vars, tosVars, schedVars, taVars, clientVars, barVars, PhaseBar,
              AnswerBar, ServedIn, SessionsBar
<1> QED
  BY <1>1, DispatchImplements, ServiceImplements, QuietImplements,
     ClientImplements DEF Next, Secure

(* The driver, the monitor, the main loop, the handlers and the scheduler  *)
(* together are no more than SessionService: each call takes effect at one *)
(* instant between its start and its return, while the memory pool lasts.  *)
(* (The safety part of Implements.)                                        *)
THEOREM CallsAreLinearizable ==
    ~MayRunOut => (Spec => Abstract!Init /\ [][Abstract!Next]_(Abstract!vars))
<1>1. Init => Abstract!Init
  BY InitImplements
<1>2. IInv /\ HandlesInv /\ RInv /\ [Next]_vars
          => [Abstract!Next]_(Abstract!vars)
  BY StepImplements DEF barVars, Abstract!vars
<1> QED
  BY <1>1, <1>2, RInvAlways, IInvAlways, HandlesAlways, PTL DEF Spec

=============================================================================
