----------------------------- MODULE TaInterface -----------------------------
(***************************************************************************)
(* The sessions of T-OS (core/tee_ta_interface.c), the trusted services    *)
(* that run in them (apps/tee_string_task.c, apps/tee_test_robust_task.c)  *)
(* and the boot of the main task (TEE_StartMain in apps/tee_main_task.c),  *)
(* on top of the scheduler.  The operators are the handlers the main task  *)
(* calls; the module that extends this one has the main loop.              *)
(*                                                                         *)
(* A service is known by its entry point.  Each accepts commands of its    *)
(* own with parameter types of its own, so an invocation is abstracted to  *)
(* the service that would accept it, NoService when none does.             *)
(*                                                                         *)
(* session     every SESSION made, in order: the position is session_id    *)
(*             (the code counts from SESSION_ID_START), service is the     *)
(*             TASK_IDENTITY it was opened to, kept for the properties     *)
(* open        the ids on list_opened_sessions                             *)
(* curParams   current_params: the request it points into, by its owner    *)
(* curCommand  current_command and current_param_type                      *)
(***************************************************************************)
EXTENDS TaskScheduler, FiniteSets

CONSTANTS Threads,      \* threads of the clients, each with one request
          NoThread,
          Clients,      \* client UUIDs
          NoService

ASSUME TaInterfaceAssumption ==
    NoThread \notin Threads /\ NoService \notin Services

VARIABLES session, open, curParams, curCommand
taVars == <<session, open, curParams, curCommand>>

Session == [client : Clients, service : Services, task : Nat]

TaInit ==
    /\ session = <<>>
    /\ open = {}
    /\ curParams = NoThread
    /\ curCommand = NoService

-----------------------------------------------------------------------------
(* TEE_StartMain: the main task is created, the service table is copied    *)
(* (TA_CreateEntryPoint) and the main task is started.  The pool is still  *)
(* whole: every TEE_Malloc succeeds.                                       *)
TEE_StartMain ==
    /\ current = NoTask
    /\ entry' = Append(entry, MainEntry)
    /\ current' = MainTask
    /\ UNCHANGED <<ready, suspended, stackless, dead, taVars>>

(* Mutant: a session closed before is still found.                         *)
FoundClosed(c, id) == id \in DOMAIN session /\ session[id].client = c

(* The session that client c means by id, if it is on the list.            *)
Found(c, id) == id \in open /\ session[id].client = c

(* TA_OpenSessionEntryPoint for service s.  The SESSION is written to      *)
(* without a look at what TEE_Malloc returned, and a TaskCreate that       *)
(* failed is recorded in it as the session's task.                         *)
OpenResult(s) == IF s \in Services THEN "SUCCESS" ELSE "NOT_SUPPORTED"

TA_OpenSession(c, s) ==
    \/ /\ s \notin Services
       /\ UNCHANGED <<schedVars, taVars>>
    \/ /\ s \in Services /\ MayRunOut
       /\ dead' = "wild"
       /\ UNCHANGED <<current, ready, suspended, entry, stackless, taVars>>
    \/ /\ s \in Services
       /\ \E id \in {NoTask, Len(entry) + 1} :
             /\ TaskCreate(s, id)
             /\ session' = Append(session,
                                  [client |-> c, service |-> s, task |-> id])
       /\ open' = open \cup {Len(session) + 1}
       /\ UNCHANGED <<current, ready, dead, curParams, curCommand>>

(* TA_CloseSessionEntryPoint: the task is looked for on both lists, the    *)
(* SESSION is unlinked and freed.  Nobody frees the TASK and its stack.    *)
TA_CloseSession(c, id) ==
    \/ /\ ~Found(c, id)
       /\ UNCHANGED <<schedVars, taVars>>
    \/ /\ Found(c, id)
       /\ TaskDelReadyByID(session[id].task)
       /\ TaskDelSuspudByID(session[id].task)
       /\ open' = IF dead' = "hang" THEN open ELSE open \ {id}
       /\ UNCHANGED <<current, suspended, entry, stackless,
                      session, curParams, curCommand>>

(* Mutant: the globals keep the parameters of the first invocation.        *)
TA_InvokeCommandStale(c, id, t, command) ==
    \/ /\ ~Found(c, id)
       /\ UNCHANGED <<schedVars, taVars>>
    \/ /\ Found(c, id)
       /\ curParams' = IF curParams = NoThread THEN t ELSE curParams
       /\ curCommand' = command
       /\ TaskStart(session[id].task)
       /\ UNCHANGED <<entry, stackless, session, open>>

(* TA_InvokeCommandEntryPoint, for the request of thread t: the parameters *)
(* are left in globals for the session's task, which is started.           *)
InvokeResult(c, id) == IF Found(c, id) THEN "SUCCESS" ELSE "BAD_PARAMETERS"

TA_InvokeCommand(c, id, t, command) ==
    \/ /\ ~Found(c, id)
       /\ UNCHANGED <<schedVars, taVars>>
    \/ /\ Found(c, id)
       /\ curParams' = t /\ curCommand' = command
       /\ TaskStart(session[id].task)
       /\ UNCHANGED <<entry, stackless, session, open>>

(* The value TaskHandleReturn was given never reaches task_return_value:   *)
(* nothing calls SetTaskReturnValue, so it keeps its initial 0.            *)
GetTaskReturnValue == "SUCCESS"

(* Task_String, Task_TestRobust: one turn of the service's loop, from      *)
(* GetCurrentParams to TaskHandleReturn.  The request whose parameters the *)
(* globals point to is carried out if this service knows the command.      *)
ServiceAccepts == curCommand = entry[current]

TaskTurn ==
    /\ current \notin {NoTask, MainTask}
    /\ TaskHandleReturn
    /\ UNCHANGED <<entry, stackless, taVars>>

=============================================================================
