------------------------------- MODULE TzCall -------------------------------
(***************************************************************************)
(* A call of the client API from end to end: threads of client processes   *)
(* in the nonsecure world call through tz_driver.c, whose mutex admits one *)
(* SMC at a time; the monitor (monitor.c, monitor_asm.S) switches the only *)
(* core to the secure world; the main loop of T-OS (tee_main_task.c) takes *)
(* the command from the saved nonsecure registers, calls the handlers of   *)
(* TaInterface and returns the result in the saved r0.                     *)
(*                                                                         *)
(* world    the world the core is in: "S" or "NS" (the NS bit of SCR)      *)
(* mainPc   where the main task is: "boot", "launch" before                *)
(*          LaunchNonSecure, "dispatch" at the top of the loop, "return"   *)
(*          after the handler, before TZApiReturn                          *)
(* mainRet  the main task's ret                                            *)
(* nsCmd    g_nonsecure_context: the thread whose registers it holds, r1   *)
(*          being the thread's TZ_CMD_DATA                                 *)
(* mutex    the owner of tz_mutex                                          *)
(* pc       where each thread is: "idle" in the client; "lock" before      *)
(*          mutex_lock, "smc" before the smc, "secure" in it, "back" after *)
(*          it, "finish" after mutex_unlock                                *)
(* cmd      each thread's TZ_CMD_DATA: operation, the UUID asked for (open)*)
(*          or the command (invoke) in what, the session's id              *)
(* ret      the result of each thread's call, "none" before there is one   *)
(* done     whether a service carried out the command on its parameters    *)
(* handles  the session ids each client was told of: they stay in the      *)
(*          client's memory after TEEC_CloseSession                        *)
(***************************************************************************)
EXTENDS TaInterface

CONSTANTS ClientOf,    \* the client process of each thread: its file's UUID
          MaxSessions  \* bound: the sessions the clients try to open

ASSUME TzCallAssumption ==
    /\ ClientOf \in [Threads -> Clients]
    /\ MaxSessions \in Nat

VARIABLES world, mainPc, mainRet, nsCmd, mutex, pc, cmd, ret, done, handles
tosVars == <<schedVars, taVars, mainPc, mainRet>>
clientVars == <<mutex, pc, cmd, ret, done, handles>>
vars == <<tosVars, world, nsCmd, clientVars>>

Results == {"SUCCESS", "NOT_SUPPORTED", "BAD_PARAMETERS", "none"}
Ops == {"open", "close", "invoke"}
Request == [op : Ops, what : Services \cup {NoService}, session : Nat]
NoRequest == [op |-> "close", what |-> NoService, session |-> 0]

Init ==
    /\ SchedInit /\ TaInit
    /\ world = "S" /\ mainPc = "boot" /\ mainRet = "none"
    /\ nsCmd = NoThread /\ mutex = NoThread
    /\ pc = [t \in Threads |-> "idle"]
    /\ cmd = [t \in Threads |-> NoRequest]
    /\ ret = [t \in Threads |-> "none"]
    /\ done = [t \in Threads |-> FALSE]
    /\ handles = [c \in Clients |-> {}]

-----------------------------------------------------------------------------
(* The secure world.                                                       *)
InTos == world = "S" /\ dead = "no"

Boot ==
    /\ InTos /\ mainPc = "boot"
    /\ TEE_StartMain
    /\ mainPc' = "launch"
    /\ UNCHANGED <<mainRet, world, nsCmd, clientVars>>

LaunchNonSecure ==
    /\ InTos /\ mainPc = "launch"
    /\ world' = "NS"
    /\ mainPc' = "dispatch"
    /\ UNCHANGED <<schedVars, taVars, mainRet, nsCmd, clientVars>>

(* Mutant: the id of the new session is not written back to the command.   *)
MainOpenNoContext(t) ==
    /\ cmd[t].op = "open"
    /\ TA_OpenSession(ClientOf[t], cmd[t].what)
    /\ mainRet' = OpenResult(cmd[t].what)
    /\ UNCHANGED cmd

(* The three cases of TEE_MainTask's switch.  The driver sends no other.   *)
MainOpen(t) ==
    /\ cmd[t].op = "open"
    /\ TA_OpenSession(ClientOf[t], cmd[t].what)
    /\ mainRet' = OpenResult(cmd[t].what)
    /\ cmd' = IF cmd[t].what \in Services
              THEN [cmd EXCEPT ![t].session = Len(session')] ELSE cmd

MainClose(t) ==
    /\ cmd[t].op = "close"
    /\ TA_CloseSession(ClientOf[t], cmd[t].session)
    /\ mainRet' = "SUCCESS"
    /\ UNCHANGED cmd

MainInvoke(t) ==
    /\ cmd[t].op = "invoke"
    /\ TA_InvokeCommand(ClientOf[t], cmd[t].session, t, cmd[t].what)
    /\ mainRet' = InvokeResult(ClientOf[t], cmd[t].session)
    /\ UNCHANGED cmd

Dispatch ==
    /\ InTos /\ mainPc = "dispatch" /\ current = MainTask
    /\ MainOpen(nsCmd) \/ MainClose(nsCmd) \/ MainInvoke(nsCmd)
    /\ mainPc' = "return"
    /\ UNCHANGED <<world, nsCmd, mutex, pc, ret, done, handles>>

RunService ==
    /\ InTos
    /\ TaskTurn
    /\ done' = IF ServiceAccepts THEN [done EXCEPT ![curParams] = TRUE] ELSE done
    /\ UNCHANGED <<mainPc, mainRet, world, nsCmd, mutex, pc, cmd, ret, handles>>

(* The rest of the loop's body: the result of an invocation is replaced by *)
(* the task's, TZApiReturn stores it as the caller's r0, and the monitor   *)
(* resumes the caller behind its smc.  (mainRet is dead from here on.)     *)
TZApiReturn ==
    /\ InTos /\ mainPc = "return" /\ current = MainTask
    /\ ret' = [ret EXCEPT ![nsCmd] =
                  IF cmd[nsCmd].op = "invoke" /\ mainRet = "SUCCESS"
                  THEN GetTaskReturnValue ELSE mainRet]
    /\ pc' = [pc EXCEPT ![nsCmd] = "back"]
    /\ world' = "NS"
    /\ mainPc' = "dispatch" /\ mainRet' = "none"
    /\ UNCHANGED <<schedVars, taVars, nsCmd, mutex, cmd, done, handles>>

-----------------------------------------------------------------------------
(* The nonsecure world: nothing of it runs while the core is in T-OS.      *)
Step(t, from, to) ==
    /\ world = "NS" /\ pc[t] = from
    /\ pc' = [pc EXCEPT ![t] = to]

(* What a client may ask for: a known or an unknown service, a handle it   *)
(* was given, closed or not, with a command the service knows or does not. *)
Opens(r) == r.op = "open" /\ r.what \in Services
Opening == {t \in Threads : pc[t] # "idle" /\ Opens(cmd[t])}

Requests(t) ==
    [op : {"open"}, what : Services \cup {NoService}, session : {0}]
        \cup [op : {"close"}, what : {NoService}, session : handles[ClientOf[t]]]
        \cup [op : {"invoke"}, what : Services \cup {NoService},
              session : handles[ClientOf[t]]]

(* open_session, invoke_session, close_session up to CallTZFunction.       *)
Call(t) ==
    /\ Step(t, "idle", "lock")
    /\ \E r \in Requests(t) :
          /\ Opens(r) => Len(session) + Cardinality(Opening) < MaxSessions
          /\ cmd' = [cmd EXCEPT ![t] = r]
    /\ UNCHANGED <<tosVars, world, nsCmd, mutex, ret, done, handles>>

(* Mutant: CallTZFunction without mutex_lock.                              *)
LockUnchecked(t) ==
    /\ Step(t, "lock", "smc")
    /\ mutex' = t
    /\ UNCHANGED <<tosVars, world, nsCmd, cmd, ret, done, handles>>

Lock(t) ==
    /\ Step(t, "lock", "smc")
    /\ mutex = NoThread
    /\ mutex' = t
    /\ UNCHANGED <<tosVars, world, nsCmd, cmd, ret, done, handles>>

(* _call_tz_api: the caller's registers are saved, T-OS resumes where its  *)
(* last smc left it.                                                       *)
Smc(t) ==
    /\ Step(t, "smc", "secure")
    /\ nsCmd' = t
    /\ world' = "S"
    /\ UNCHANGED <<tosVars, mutex, cmd, ret, done, handles>>

Unlock(t) ==
    /\ Step(t, "back", "finish")
    /\ mutex' = NoThread
    /\ UNCHANGED <<tosVars, world, nsCmd, cmd, ret, done, handles>>

(* What is left of the driver's call.  A successful open hands the         *)
(* session's id to the client, unless copy_to_user fails and the client    *)
(* gets an error instead.  The TZ_CMD_DATA is freed.                       *)
Finish(t) ==
    /\ Step(t, "finish", "idle")
    /\ \/ /\ cmd[t].op = "open" /\ ret[t] = "SUCCESS"
          /\ handles' = [handles EXCEPT ![ClientOf[t]] = @ \cup {cmd[t].session}]
       \/ UNCHANGED handles
    /\ cmd' = [cmd EXCEPT ![t] = NoRequest]
    /\ ret' = [ret EXCEPT ![t] = "none"]
    /\ done' = [done EXCEPT ![t] = FALSE]
    /\ UNCHANGED <<tosVars, world, nsCmd, mutex>>

-----------------------------------------------------------------------------
Secure == Boot \/ LaunchNonSecure \/ Dispatch \/ RunService \/ TZApiReturn
Client(t) == Call(t) \/ Lock(t) \/ Smc(t) \/ Unlock(t) \/ Finish(t)
Next == Secure \/ \E t \in Threads : Client(t)

(* The core executes T-OS until it leaves it.  Linux lets the thread that  *)
(* has the mutex go on (no other can take the core to T-OS meanwhile), and *)
(* gives a thread that is past the mutex the core between the calls of the *)
(* others.  A thread may wait for the mutex for ever; clients need not     *)
(* call.                                                                   *)
Fairness ==
    /\ WF_vars(Secure)
    /\ \A t \in Threads : WF_vars(Smc(t) \/ Unlock(t)) /\ SF_vars(Finish(t))

Spec == Init /\ [][Next]_vars /\ Fairness

-----------------------------------------------------------------------------
TypeOK ==
    /\ SchedTypeOK
    /\ session \in Seq(Session) /\ open \subseteq DOMAIN session
    /\ curParams \in Threads \cup {NoThread}
    /\ curCommand \in Services \cup {NoService}
    /\ world \in {"S", "NS"}
    /\ mainPc \in {"boot", "launch", "dispatch", "return"}
    /\ mainRet \in Results
    /\ nsCmd \in Threads \cup {NoThread} /\ mutex \in Threads \cup {NoThread}
    /\ pc \in [Threads -> {"idle", "lock", "smc", "secure", "back", "finish"}]
    /\ cmd \in [Threads -> Request]
    /\ ret \in [Threads -> Results]
    /\ done \in [Threads -> BOOLEAN]
    /\ handles \in [Clients -> SUBSET Nat]

(* While T-OS works on a command, the nonsecure registers the monitor holds*)
(* are those of the one thread that waits in its smc, and that thread has  *)
(* the mutex: no other can overwrite the saved context or the command.     *)
SecureWorldOwned ==
    /\ \A t \in Threads : pc[t] \in {"smc", "secure", "back"} <=> mutex = t
    /\ \A t \in Threads :
          pc[t] = "secure" <=>
             world = "S" /\ mainPc \in {"dispatch", "return"} /\ nsCmd = t

(* T-OS leaves the core only with the main task running and no task ready, *)
(* so that the next command finds the main task at the top of its loop and *)
(* TaskDelSuspudByID finds the ready list empty (it would never return).   *)
(* Nothing stops T-OS while the memory pool lasts.                         *)
ParkedInMain ==
    /\ current = MainTask => ready = <<>>
    /\ world = "NS" => current = MainTask /\ mainPc = "dispatch"
    /\ dead # "hang" /\ (dead = "wild" => MayRunOut)

(* A service task runs only for the invocation that T-OS is serving: the   *)
(* globals name that request, and the task is the one made for the open    *)
(* session the request names, which the same client opened to this service.*)
RunsForCaller ==
    current \notin {NoTask, MainTask} =>
        /\ mainPc = "return" /\ world = "S"
        /\ cmd[nsCmd].op = "invoke"
        /\ curParams = nsCmd /\ curCommand = cmd[nsCmd].what
        /\ Found(ClientOf[nsCmd], cmd[nsCmd].session)
        /\ session[cmd[nsCmd].session].task = current
        /\ entry[current] = session[cmd[nsCmd].session].service

(* No two sessions share a task, and the task of an open session that got  *)
(* one is there to be started: it is suspended, or it runs right now.      *)
SessionsOwnTasks ==
    /\ \A i, j \in DOMAIN session :
          session[i].task = session[j].task /\ i # j => session[i].task = NoTask
    /\ \A i \in open :
          session[i].task # NoTask =>
             session[i].task = current \/ session[i].task \in suspended

(* A client holds the ids of its own sessions only, even of those that     *)
(* another thread of it has closed meanwhile.                              *)
HandlesReal ==
    \A c \in Clients : \A id \in handles[c] :
        id \in DOMAIN session /\ session[id].client = c

(* A step of one thread, or of T-OS on its behalf, changes no request and  *)
(* no result of another.                                                   *)
Isolated ==
    [][\A t, u \in Threads :
          (pc[t] # pc[t]' /\ u # t) \/ (nsCmd = t /\ world = "S" /\ u # t) =>
             UNCHANGED <<cmd[u], ret[u], done[u]>>]_vars

(* Once a thread has entered T-OS it gets its answer and is out of the     *)
(* driver again.                                                           *)
CallAnswered == \A t \in Threads : pc[t] = "smc" ~> pc[t] = "idle"

(* test_api/test_string_task takes TEEC_SUCCESS of TEEC_InvokeCommand to   *)
(* mean that the service carried the command out on its buffer.            *)
SuccessMeansDone ==
    \A t \in Threads :
        pc[t] = "finish" /\ cmd[t].op = "invoke" /\ ret[t] = "SUCCESS" => done[t]

(* The same of the commands the session's service does know.               *)
KnownCommandDone ==
    \A t \in Threads :
        pc[t] = "finish" /\ cmd[t].op = "invoke" /\ ret[t] = "SUCCESS"
            /\ cmd[t].what = session[cmd[t].session].service => done[t]

=============================================================================
