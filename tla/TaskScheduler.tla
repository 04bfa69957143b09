---------------------------- MODULE TaskScheduler ----------------------------
(***************************************************************************)
(* The cooperative scheduler of T-OS (core/tee_scheduler.c), the creation  *)
(* of tasks (core/tee_task.c) and the lists they are on (tee_list.h).      *)
(* Nothing preempts a task: T-OS runs with interrupts masked and a task    *)
(* gives the processor up only by the svc of TaskSchedule, so each         *)
(* operator below is one uninterrupted stretch of code.                    *)
(*                                                                         *)
(* A task id is the task's position in the order of creation; the code     *)
(* counts from TASK_ID_START.  NoTask is both the NULL current_task of the *)
(* boot code and the -1 of a TaskCreate that failed.                       *)
(*                                                                         *)
(* current    current_task                                                 *)
(* ready      list_ready_tasks, in its order: TaskAddReady adds at the tail*)
(* suspended  list_suspud_tasks, which is only ever searched by id         *)
(* entry      task_entry of every task created                             *)
(* stackless  the tasks whose stack TEE_Malloc did not provide             *)
(* dead       "no"; "hang" once a loop of the code never ends; "wild" once *)
(*            memory was written through a NULL pointer, after which       *)
(*            nothing can be said of T-OS                                  *)
(***************************************************************************)
EXTENDS Integers, Sequences, SequencesExt

CONSTANTS Services,  \* the entry points of the trusted services
          MainEntry, \* and that of the main task, TEE_MainTask
          Pool,      \* "ample", or "limited": then TEE_Malloc may fail
          MaxTasks   \* bound: tasks the callers of TaskCreate make

ASSUME SchedulerAssumption ==
    /\ MainEntry \notin Services
    /\ Pool \in {"ample", "limited"}
    /\ MaxTasks \in Nat

MayRunOut == Pool = "limited"

NoTask == 0
MainTask == 1   \* TASK_ID_START: TEE_StartMain creates it first

VARIABLES current, ready, suspended, entry, stackless, dead
schedVars == <<current, ready, suspended, entry, stackless, dead>>

Tasks == DOMAIN entry

OnReady(t) == \E i \in DOMAIN ready : ready[i] = t

-----------------------------------------------------------------------------
(* TaskInit.                                                               *)
SchedInit ==
    /\ current = NoTask
    /\ ready = <<>>
    /\ suspended = {}
    /\ entry = <<>>
    /\ stackless = {}
    /\ dead = "no"

(* TaskCreate, which returns id: -1 when there is no room for the TASK.    *)
(* Whether there was room for its stack is not looked at.  How full the    *)
(* pool is, and how scattered what is left of it, is not known here, so a  *)
(* pool that may run out may refuse any request.                           *)
TaskCreate(e, id) ==
    \/ /\ id = NoTask /\ MayRunOut
       /\ UNCHANGED <<suspended, entry, stackless>>
    \/ /\ id = Len(entry) + 1
       /\ entry' = Append(entry, e)
       /\ suspended' = suspended \cup {id}
       /\ \/ UNCHANGED stackless
          \/ MayRunOut /\ stackless' = stackless \cup {id}

(* TaskNextReady, on the ready list rdy.                                   *)
TaskNextReady(rdy) ==
    IF rdy = <<>> THEN NoTask
    ELSE IF Head(rdy) = current THEN NoTask ELSE Head(rdy)

(* Mutant: a service task is put on no list.                               *)
TaskSwitchForgetsService(rdy, susp) ==
    IF TaskNextReady(rdy) = NoTask
    THEN ready' = rdy /\ suspended' = susp /\ UNCHANGED <<current, dead>>
    ELSE /\ current' = Head(rdy) /\ suspended' = susp
         /\ ready' = IF current = MainTask THEN Append(Tail(rdy), current)
                                           ELSE Tail(rdy)
         /\ UNCHANGED dead

(* The svc handler and TaskSwitch, entered with the lists rdy and susp.    *)
(* The main task goes to the tail of the ready list, any other task is     *)
(* suspended, and the boot code is left behind for good.  A task without a *)
(* stack pushes below address TASK_STACK_SIZE as soon as it runs.          *)
TaskSwitch(rdy, susp) ==
    \/ /\ TaskNextReady(rdy) = NoTask
       /\ ready' = rdy /\ suspended' = susp
       /\ UNCHANGED <<current, dead>>
    \/ /\ TaskNextReady(rdy) # NoTask
       /\ current' = Head(rdy)
       /\ ready' = IF current = MainTask THEN Append(Tail(rdy), current)
                                         ELSE Tail(rdy)
       /\ suspended' = IF current \in {NoTask, MainTask}
                       THEN susp ELSE susp \cup {current}
       /\ dead' = IF Head(rdy) \in stackless THEN "wild" ELSE dead

(* Mutants of TaskStart: the task stays on the suspended list; the task is *)
(* made ready but not switched to.                                         *)
TaskStartKeepsSuspended(t) ==
    \/ t \in suspended /\ TaskSwitch(Append(ready, t), suspended)
    \/ t \notin suspended /\ UNCHANGED <<current, ready, suspended, dead>>

TaskStartNoSwitch(t) ==
    IF t \in suspended
    THEN /\ ready' = Append(ready, t) /\ suspended' = suspended \ {t}
         /\ UNCHANGED <<current, dead>>
    ELSE UNCHANGED <<current, ready, suspended, dead>>

(* TaskStart: a task that is not suspended (or no task at all, the -1 of a *)
(* failed TaskCreate) is not started, and the caller is not told.          *)
TaskStart(t) ==
    \/ t \in suspended /\ TaskSwitch(Append(ready, t), suspended \ {t})
    \/ t \notin suspended /\ UNCHANGED <<current, ready, suspended, dead>>

(* Mutant: TaskHandleReturn does not reschedule.                           *)
TaskHandleReturnStays == UNCHANGED <<current, ready, suspended, dead>>

(* TaskHandleReturn drops its argument and reschedules.                    *)
TaskHandleReturn == TaskSwitch(ready, suspended)

(* ListDel of t's node from the list r: nothing to do on an empty list, a  *)
(* loop that never ends when t is not on the list.                         *)
ListDelHangs(r, t) == r # <<>> /\ \A i \in DOMAIN r : r[i] # t

TaskDelReadyByID(t) ==
    \/ \E i \in DOMAIN ready : ready[i] = t /\ ready' = RemoveAt(ready, i)
    \/ ~OnReady(t) /\ UNCHANGED ready

(* TaskDelSuspudByID, always called after TaskDelReadyByID, finds t on the *)
(* suspended list and then calls TaskDelReady: t stays where it was found. *)
TaskDelSuspudByID(t) ==
    dead' = IF t \in suspended /\ ListDelHangs(ready', t) THEN "hang" ELSE dead

-----------------------------------------------------------------------------
(* The calls that running code may make, whichever task it is.  The boot   *)
(* code creates the main task, from a pool that is still whole, and starts *)
(* it.                                                                     *)
CreateMain ==
    /\ current = NoTask
    /\ \/ /\ entry = <<>>
          /\ entry' = <<MainEntry>> /\ suspended' = {MainTask}
          /\ UNCHANGED <<current, ready, stackless, dead>>
       \/ /\ entry # <<>>
          /\ TaskStart(MainTask)
          /\ UNCHANGED <<entry, stackless>>

Create ==
    /\ current # NoTask /\ Len(entry) < MaxTasks
    /\ \E e \in Services, id \in {NoTask, Len(entry) + 1} : TaskCreate(e, id)
    /\ UNCHANGED <<current, ready, dead>>

Start ==
    /\ current # NoTask
    /\ \E t \in Tasks : TaskStart(t)
    /\ UNCHANGED <<entry, stackless>>

(* A service at the end of its turn.  The main task never calls this: it    *)
(* leaves the processor to the tasks that it starts.                       *)
Yield ==
    /\ current \notin {NoTask, MainTask}
    /\ TaskHandleReturn
    /\ UNCHANGED <<entry, stackless>>

(* What TA_CloseSessionEntryPoint does with the task of a session.         *)
Delete ==
    /\ current # NoTask
    /\ \E t \in Tasks \ {MainTask, current} :
          TaskDelReadyByID(t) /\ TaskDelSuspudByID(t)
    /\ UNCHANGED <<current, suspended, entry, stackless>>

SchedNext == dead = "no" /\ (CreateMain \/ Create \/ Start \/ Yield \/ Delete)

(* A service that runs sooner or later hands the processor back.  Nothing   *)
(* obliges the main task, or anybody, to start a task.                     *)
SchedSpec ==
    /\ SchedInit /\ [][SchedNext]_schedVars
    /\ WF_schedVars(dead = "no" /\ Yield)

-----------------------------------------------------------------------------
SchedTypeOK ==
    /\ entry \in Seq(Services \cup {MainEntry})
    /\ current \in Tasks \cup {NoTask}
    /\ ready \in Seq(Tasks)
    /\ suspended \subseteq Tasks /\ stackless \subseteq Tasks
    /\ dead \in {"no", "hang", "wild"}

(* A TCB is linked into at most one place: the task runs, or is on the     *)
(* ready list once, or is on the suspended list.                           *)
OnePlace ==
    /\ \A i, j \in DOMAIN ready : i # j => ready[i] # ready[j]
    /\ \A t \in Tasks :
          /\ OnReady(t) => t # current /\ t \notin suspended
          /\ t = current => t \notin suspended

(* On one of the lists, or running.                                        *)
Placed(t) == t = current \/ OnReady(t) \/ t \in suspended

(* The ready list is served in order: a task on it runs sooner or later,   *)
(* whatever the others start and create, unless it is deleted, or the main *)
(* task, which leaves only by starting a task, never does so again.  The   *)
(* main task itself, when it is on the list, always gets its turn: the     *)
(* services hand the processor back.                                       *)
ReadyRuns ==
    \A t \in 1 .. MaxTasks :
        OnReady(t) ~> (\/ current = t \/ ~Placed(t) \/ dead # "no"
                      \/ [](current = MainTask))

=============================================================================
