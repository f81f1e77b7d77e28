------------------------------ MODULE PosScheduler ------------------------------
(*****************************************************************************)
(* The round-robin scheduler of PepperOS (core/pos_scheduler.c) on a         *)
(* Cortex-M0: the task ring, the three globals that describe a context       *)
(* switch (__current_task, __next_task, current_task_element), the quantum,  *)
(* and the exceptions that move a context on and off the CPU (SVC for        *)
(* pos_yield, PendSV for the switch itself).                                 *)
(*                                                                           *)
(* One step is the code between two points where an exception can be taken:  *)
(* a section under POS_BEGIN_KCRITICAL / POS_END_KCRITICAL is one step.      *)
(* The module declares no Next: the components that call the scheduler       *)
(* (PosSemaphore, PosDelay, PosMutex, PosIpc) build their actions from its   *)
(* operators and PosKernel composes them.                                    *)
(*****************************************************************************)
EXTENDS Integers, FiniteSets, Sequences

CONSTANTS
    N,      \* number of tasks created before pos_scheduler_start
    Prio,   \* priority of each task
    MEAN    \* MEAN_QUANTUM_LENGTH, in system ticks

Task == 1 .. N          \* PIDs, in ring order: POS_PID_BASE is 1
NoTask == 0             \* POS_KERNEL_PID

Priority == {"HIGH", "NORMAL", "LOW"}

ASSUME TasksAssumption == N \in Nat \ {0}
ASSUME PrioAssumption == Prio \in [Task -> Priority]

\* Every slice has two ticks or more and fits the uint8_t of
\* __quantum_cur_len.  The template configures 50.
ASSUME MeanAssumption == MEAN \in 3 .. 204

VARIABLES
    ring,            \* the PIDs linked in tasks_scheduler_head's ring
    status,          \* task.status of each task
    cte,             \* current_task_element
    current_task,    \* __current_task: whose context PendSV saves
    next_task,       \* __next_task: whose context PendSV loads
    quantum,         \* __quantum_cur_len
    elapsed_ticks,   \* ticks of the running slice (pos_cm0.c)
    os_mode,         \* what the tick is charged to
    is_sleep_mode,   \* __is_sleep_mode = 1
    pendsv,          \* PendSV is pending
    psp,             \* the task whose context is on the CPU
    pc,              \* where each task is
    event,           \* the event register that ends a WFE
    ktick,           \* a SysTick was taken during the current kernel path
    fault            \* why the system stopped, "none" while it runs

schedVars == <<ring, status, cte, current_task, next_task, quantum,
               elapsed_ticks, os_mode, is_sleep_mode>>
cpuVars == <<pendsv, psp, pc, event, ktick>>

Status == {"IDLE", "ACTIVE", "SEM_WAITING", "SEM_WAITING_UNTIL", "DELAY",
           "DELAY_TIMEOUT"}

(* The statuses pos_schedule_tasks steps over. *)
Blocked == {"SEM_WAITING", "SEM_WAITING_UNTIL", "DELAY"}

OsMode == {"KERNEL_ACTIVE", "TASKS_ACTIVE", "SYSTEM_SLEEP"}

(* Where a task is: in its own code; in pos_yield before its SVC; in the SVC *)
(* handler about to call pos_schedule_tasks; there in WFE; behind the SVC,   *)
(* before __is_sleep_mode is cleared; between two sections of               *)
(* pos_semaphore_wait_until, pos_mutex_create, pos_send_message or           *)
(* pos_get_message; or finished.                                             *)
Pc == {"run", "yield", "svc", "wfe", "resumed",
       "wu_check", "wu_remove", "wu_walk", "wu_unlink",
       "wu_load", "wu_store", "wu_deq", "wu_free",
       "mx_publish", "mx_reset", "ip_signal", "ip_deq", "ip_take", "done"}

Fault == {"none", "context_lost", "hung", "unexpected_error",
          "resource_not_found", "null_write", "out_of_bounds", "low_space",
          "queue_empty", "stale_node"}

(* POS_TASK_xxx_PRIORITY_QUANTUM, truncated to an integer. *)
Quantum(p) ==
    [HIGH |-> (MEAN * 5) \div 4, NORMAL |-> MEAN, LOW |-> (MEAN * 3) \div 4][p]

(* Hops from p to q along next_task; a full turn leads back to p itself. *)
Hops(p, q) == IF q > p THEN q - p ELSE q - p + N

\* Defect: the scheduler overlooks the status of pos_delay_ms.
ReadyInWithDelayed(rg) == {t \in rg : status[t] \notin Blocked \ {"DELAY"}}

\* Defect: a task that has timed out counts as blocked.
ReadyInButTimedOut(rg) == {t \in rg : status[t] \notin Blocked \cup {"DELAY_TIMEOUT"}}

(* The tasks of the ring that can be chosen.                                 *)
ReadyIn(rg) == {t \in rg : status[t] \notin Blocked}

\* Defect: the walk starts at the head of the ring.
FirstReady(p, ready) == CHOOSE q \in ready : \A r \in ready : q <= r

(* The while of pos_schedule_tasks: the first task behind p that is ready. *)
NextReady(p, ready) ==
    CHOOSE q \in ready : \A r \in ready : Hops(p, q) <= Hops(p, r)

\* Defect: the task that leaves stays ACTIVE.
SwitchStatusOfNext(st, from, to) ==
    [st EXCEPT ![to] = IF @ = "IDLE" THEN "ACTIVE" ELSE @]

(* An ACTIVE task that leaves becomes IDLE, an IDLE task that comes becomes  *)
(* ACTIVE, in this order: they may be the same task.                         *)
SwitchStatus(st, from, to) ==
    LET left == [st EXCEPT ![from] = IF @ = "ACTIVE" THEN "IDLE" ELSE @]
    IN  [left EXCEPT ![to] = IF @ = "IDLE" THEN "ACTIVE" ELSE @]

\* Defect: current_task_element does not follow.
RequestSwitchInPlace(nxt, st) ==
    /\ current_task' = cte /\ next_task' = nxt /\ UNCHANGED cte
    /\ quantum' = Quantum(Prio[cte])
    /\ status' = SwitchStatus(st, cte, nxt)
    /\ pendsv' = TRUE

(* What pos_schedule_tasks and pos_force_goto_task have in common: the       *)
(* globals move to nxt and PendSV is set pending.  The quantum is computed   *)
(* from the task that leaves, as in the code.                                *)
RequestSwitch(nxt, st) ==
    /\ current_task' = cte
    /\ next_task' = nxt
    /\ cte' = nxt
    /\ quantum' = Quantum(Prio[cte])
    /\ status' = SwitchStatus(st, cte, nxt)
    /\ pendsv' = TRUE

NoSwitch(st) ==
    /\ status' = st
    /\ UNCHANGED <<current_task, next_task, cte, quantum, pendsv>>

(* pos_schedule_tasks over the ring rg.  Without a ready task it returns     *)
(* POS_SCHEDULER_NO_TASK_READY when the walk meets the task it started from, *)
(* and never returns when that task has left the ring.                       *)
Schedule(rg) ==
    \/ /\ ReadyIn(rg) # {}
       /\ RequestSwitch(NextReady(cte, ReadyIn(rg)), status)
       /\ UNCHANGED fault
    \/ /\ ReadyIn(rg) = {}
       /\ fault' = IF cte \in rg THEN fault ELSE "hung"
       /\ NoSwitch(status)

(* pos_force_goto_task. *)
ForceGoto(pid, st) == RequestSwitch(pid, [st EXCEPT ![pid] = "ACTIVE"])

\* Defects: one half of the test is missing.
SwitchesAnyPriority(pid) == ~is_sleep_mode
SwitchesAsleep(pid) == Prio[pid] = "HIGH"

(* The test before pos_yield_by_pid in pos_semaphore_signal and              *)
(* pos_delay_tick.                                                           *)
SwitchesNow(pid) == Prio[pid] = "HIGH" /\ ~is_sleep_mode

\* Defect: the slice goes on counting.
KeepTaskTimer == UNCHANGED elapsed_ticks

pos_reset_task_timer == elapsed_ticks' = 0

(* A blocked task pid becomes ready with the statuses st: a HIGH one is      *)
(* switched to (pos_yield_by_pid restarts the slice), another one waits for  *)
(* its turn.                                                                 *)
Ready(pid, st, ticks) ==
    IF SwitchesNow(pid)
    THEN /\ ForceGoto(pid, st)
         /\ os_mode' = "KERNEL_ACTIVE"
         /\ pos_reset_task_timer
    ELSE /\ NoSwitch(st)
         /\ elapsed_ticks' = ticks
         /\ UNCHANGED os_mode

-----------------------------------------------------------------------------
(* The SVC handler, which PendSV does not preempt: their priority is equal.  *)
InHandler(p) == p \in {"svc", "wfe"}

(* Task t executes at p: thread code comes after a pending PendSV.           *)
At(t, p) ==
    /\ fault = "none"
    /\ psp = t
    /\ pc[t] = p
    /\ pendsv => InHandler(p)

Goto(t, p) == pc' = [pc EXCEPT ![t] = p]

(* The CPU is in a kernel path of microseconds, where at most one tick of a  *)
(* millisecond can fall.                                                     *)
InKernelPath == pendsv \/ pc[psp] # "run"

(* pos_yield up to POS_END_KCRITICAL, the end of every section that blocks   *)
(* the caller t.  __pos_clear_systick drops a tick that fell into the        *)
(* section; such a tick may here also come behind it.                        *)
BeginYield(t) ==
    /\ is_sleep_mode' = TRUE
    /\ pos_reset_task_timer
    /\ os_mode' = "SYSTEM_SLEEP"
    /\ ktick' = FALSE
    /\ Goto(t, "yield")
    /\ UNCHANGED <<ring, current_task, next_task, cte, quantum, pendsv, psp,
                   event, fault>>

(* A section of t that neither blocks nor switches; t goes on at p. *)
GoOn(t, p) ==
    /\ Goto(t, p)
    /\ UNCHANGED <<schedVars, pendsv, psp, event, ktick, fault>>

(* The SVC of pos_yield is taken. *)
EnterSvc(t) ==
    /\ At(t, "yield")
    /\ Goto(t, "svc")
    /\ UNCHANGED <<schedVars, pendsv, psp, event, ktick, fault>>

\* Defect: the switch is charged to the task that is about to run.
SleepModeOfTask == IF ReadyIn(ring) = {} THEN "SYSTEM_SLEEP" ELSE "TASKS_ACTIVE"

(* The os_mode behind pos_schedule_tasks in pos_sleep_cpu.                   *)
SleepMode == IF ReadyIn(ring) = {} THEN "SYSTEM_SLEEP" ELSE "KERNEL_ACTIVE"

(* pos_sleep_cpu calls pos_schedule_tasks.  When no task is ready it goes to *)
(* WFE; otherwise the handler returns and PendSV follows.                    *)
SleepCpu(t) ==
    /\ At(t, "svc")
    /\ Schedule(ring)
    /\ os_mode' = SleepMode
    /\ Goto(t, IF ReadyIn(ring) = {} THEN "wfe" ELSE "resumed")
    /\ UNCHANGED <<ring, elapsed_ticks, is_sleep_mode, psp, event, ktick>>

\* Defect: an event that leaves the caller blocked is slept over.
AfterWakeAsleep == IF status[cte] = "ACTIVE" THEN "resumed" ELSE "wfe"

(* A task found ACTIVE (its delay elapsed) leaves the loop of pos_sleep_cpu  *)
(* without a switch; otherwise the loop schedules again.                     *)
AfterWake == IF status[cte] = "ACTIVE" THEN "resumed" ELSE "svc"

(* An event ends WFE.                                                        *)
WakeCpu(t) ==
    /\ At(t, "wfe")
    /\ event
    /\ event' = FALSE
    /\ os_mode' = "KERNEL_ACTIVE"
    /\ pos_reset_task_timer
    /\ ktick' = FALSE
    /\ Goto(t, AfterWake)
    /\ UNCHANGED <<ring, status, cte, current_task, next_task, quantum,
                   is_sleep_mode, pendsv, psp, fault>>

(* PendSV saves the CPU's context into __current_task and loads the one of   *)
(* __next_task.  If the CPU does not run __current_task, the context of the  *)
(* task it runs is lost and the model stops.                                 *)
PendSV ==
    /\ fault = "none"
    /\ pendsv
    /\ ~InHandler(pc[psp])
    /\ pendsv' = FALSE
    /\ IF current_task = psp
       THEN psp' = next_task /\ UNCHANGED fault
       ELSE fault' = "context_lost" /\ UNCHANGED psp
    /\ os_mode' = "TASKS_ACTIVE"
    /\ ktick' = (ktick /\ pc[next_task] # "run")
    /\ event' = TRUE
    /\ UNCHANGED <<ring, status, cte, current_task, next_task, quantum,
                   elapsed_ticks, is_sleep_mode, pc>>

(* pos_yield returns to its caller. *)
ReturnFromYield(t, p) ==
    /\ At(t, "resumed")
    /\ is_sleep_mode' = FALSE
    /\ ktick' = (ktick /\ p # "run")
    /\ Goto(t, p)
    /\ UNCHANGED <<ring, status, cte, current_task, next_task, quantum,
                   elapsed_ticks, os_mode, pendsv, psp, event, fault>>

\* Defect: the finished task stays linked.
KilledKeepsRing == ring

(* pos_kill_task of the current task, which is not the head.                 *)
KilledRing == ring \ {cte}

(* pos_task_finish: the main function of a task returned.  The first task    *)
(* was entered by a call and spins in pos_scheduler_start instead.           *)
TaskFinish(t) ==
    /\ At(t, "run")
    /\ t # 1
    /\ ring' = KilledRing
    /\ Schedule(ring')
    /\ os_mode' = "TASKS_ACTIVE"
    /\ ktick' = FALSE
    /\ Goto(t, "done")
    /\ UNCHANGED <<elapsed_ticks, is_sleep_mode, psp, event>>

-----------------------------------------------------------------------------
(* pos_scheduler_start has entered the first task. *)
SchedulerInit ==
    /\ ring = Task
    /\ status = [t \in Task |-> IF t = 1 THEN "ACTIVE" ELSE "IDLE"]
    /\ cte = 1
    /\ current_task = 1
    /\ next_task = IF N = 1 THEN 1 ELSE 2
    /\ quantum = Quantum(Prio[1])
    /\ elapsed_ticks = 0
    /\ os_mode = "TASKS_ACTIVE"
    /\ is_sleep_mode = FALSE
    /\ pendsv = FALSE
    /\ psp = 1
    /\ pc = [t \in Task |-> "run"]
    /\ event = FALSE
    /\ ktick = FALSE
    /\ fault = "none"

SchedulerTypeOK ==
    /\ ring \in SUBSET Task
    /\ status \in [Task -> Status]
    /\ cte \in Task /\ current_task \in Task /\ next_task \in Task
    /\ psp \in Task
    /\ quantum \in Nat
    /\ elapsed_ticks \in 0 .. 255
    /\ os_mode \in OsMode
    /\ is_sleep_mode \in BOOLEAN /\ pendsv \in BOOLEAN
    /\ event \in BOOLEAN /\ ktick \in BOOLEAN
    /\ pc \in [Task -> Pc]
    /\ fault \in Fault

-----------------------------------------------------------------------------
(* A pending switch saves the task that really runs and leads to the current *)
(* ring element: pos_scheduler.c:305 "Context switch - From __current_task   *)
(* to __next_task".  Two requests before one PendSV can break it.            *)
SwitchFromRunning ==
    pendsv => current_task = psp /\ next_task = cte

(* With no switch pending the ring element is the running task, so that      *)
(* _pos_get_current_pid() names the caller.                                  *)
CurrentIsRunning == ~pendsv /\ fault = "none" => cte = psp

(* At most one task is ACTIVE, the one the scheduler has chosen.             *)
ActiveIsCurrent == \A t \in Task : status[t] = "ACTIVE" => t = cte

(* A task whose status says blocked never executes its own code.             *)
BlockedDoesNotRun ==
    \A t \in Task : At(t, "run") => status[t] \notin Blocked

(* README.md:15 "CPU sleeps while tasks are blocked": in WFE without an      *)
(* event that ends it, no task is ready.  A wakeup between the decision of   *)
(* pos_schedule_tasks and the WFE is not lost.                               *)
SleepsOnlyWhenBlocked ==
    pc[psp] = "wfe" /\ ~event /\ fault = "none" => ReadyIn(ring) = {}

(* A tick is charged to a task (os_mode is TASKS_ACTIVE in SysTick_Handler)  *)
(* only while that task is on the CPU.                                       *)
ChargedToRunner == os_mode = "TASKS_ACTIVE" /\ fault = "none" => cte = psp

(* The slice ends by the equality of SysTick_Handler, elapsed_ticks ==       *)
(* __quantum_cur_len: a count at or past the quantum would run to the wrap   *)
(* of the uint8_t.                                                           *)
SliceBounded == elapsed_ticks < quantum

(* A finished task is never chosen, and leaves the CPU with the pending      *)
(* switch: pos_task_finish has no way back.                                  *)
FinishedStaysOff ==
    \A t \in Task :
        pc[t] = "done" /\ fault = "none" => t # cte /\ (psp = t => pendsv)

(* pos_task_finish ends in a switch or in a sleeping CPU, never in an        *)
(* endless walk of the ring with interrupts off.                             *)
NeverHung == fault # "hung"
=============================================================================
