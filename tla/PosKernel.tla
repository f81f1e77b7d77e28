-------------------------------- MODULE PosKernel --------------------------------
(*****************************************************************************)
(* The running kernel: the scheduler, the semaphores and the delay list      *)
(* under their two clients, the tasks and the interrupts.  It adds what      *)
(* involves more than one of them: the tick (core/arch/cm0/pos_cm0.c) and    *)
(* the semaphore wait with a timeout, whose tail runs outside any critical   *)
(* section.                                                                  *)
(*****************************************************************************)
EXTENDS PosSemaphore, PosDelay

CONSTANTS
    Waits,          \* the semaphores each task waits for
    TimedWaits,     \* those it waits for with a timeout
    Signals,        \* those it signals
    Sleeps,         \* the times it passes to pos_delay_ms
    Finishers,      \* the tasks whose main function may return
    IsrSems,        \* the semaphores that interrupt handlers signal
    NoSem           \* no pos_semaphore_wait_until under way

ASSUME ProgramAssumption ==
    /\ Waits \in [Task -> SUBSET Sem]
    /\ TimedWaits \in [Task -> SUBSET Sem]
    /\ Signals \in [Task -> SUBSET Sem]
    /\ Sleeps \in [Task -> SUBSET Times]
    /\ Finishers \in SUBSET Task
    /\ IsrSems \in SUBSET Sem
    /\ NoSem \notin Sem

(* The stack frame of pos_semaphore_wait_until: its semaphore, the count it  *)
(* has loaded for s->cnt += 1, the list as pos_semaphore_deq has read it,    *)
(* and the pointers of pos_delay_remove.                                     *)
VARIABLE frame

vars == <<schedVars, cpuVars, fault, semVars, delays, frame>>

Pointer == Task \cup {NoTask}
Walk == [prev : Pointer, curr : Pointer, next : Pointer]
NoWalk == [prev |-> NoTask, curr |-> NoTask, next |-> NoTask]

NoFrame == [sem |-> NoSem, cnt |-> 0, q |-> <<>>, walk |-> NoWalk]

(* SysTick_Handler.  A tick that ends the slice schedules and does not count *)
(* the delays down.                                                          *)
SysTick ==
    /\ fault = "none"
    /\ InKernelPath => ~ktick
    /\ IF (elapsed_ticks + 1) % 256 = quantum
       THEN /\ elapsed_ticks' = 0
            /\ os_mode' = "KERNEL_ACTIVE"
            /\ Schedule(ring)
            /\ UNCHANGED delays
       ELSE DelayTick((elapsed_ticks + 1) % 256)
    /\ event' = TRUE
    /\ ktick' = InKernelPath
    /\ UNCHANGED <<ring, is_sleep_mode, psp, pc, semVars, frame>>

-----------------------------------------------------------------------------
(* pos_semaphore_wait_until up to pos_yield. *)
WaitUntil(t, s, time) ==
    /\ At(t, "run")
    /\ HasRoom(s)
    /\ sem_cnt' = [sem_cnt EXCEPT ![s] = @ - 1]
    /\ IF sem_cnt[s] - 1 >= 0
       THEN GoOn(t, "run") /\ UNCHANGED <<sem_q, delays, frame>>
       ELSE /\ sem_q' = [sem_q EXCEPT ![s] = Enq(@, cte)]
            /\ delays' = DelayAdd(delays, cte, time)
            /\ status' = [status EXCEPT ![cte] = "SEM_WAITING_UNTIL"]
            /\ frame' = [frame EXCEPT ![t].sem = s]
            /\ BeginYield(t)

(* Its tail, interruptible everywhere, asks why the wait ended. *)
CheckTimeout(t) ==
    /\ At(t, "wu_check")
    /\ GoOn(t, IF status[cte] = "DELAY_TIMEOUT" THEN "wu_load" ELSE "wu_remove")
    /\ UNCHANGED <<semVars, delays, frame>>

(* Signalled: pos_delay_remove(pid) walks the list from its head ...         *)
BeginWalk(t) ==
    /\ At(t, "wu_remove")
    /\ frame' = [frame EXCEPT ![t].walk = [NoWalk EXCEPT !.curr = HeadPtr(delays)]]
    /\ GoOn(t, "wu_walk")
    /\ UNCHANGED <<semVars, delays>>

(* What a walk that stands on ptr ends with before it looks: pos_error at    *)
(* the end of the list, and what a freed element leads to is beyond the      *)
(* model.                                                                    *)
WalkFault(ptr) ==
    IF ptr = NoTask THEN "resource_not_found"
    ELSE IF Listed(delays, ptr) THEN "none" ELSE "stale_node"

(* ... element by element, while ticks free the head and, if t is switched   *)
(* out, other tasks link theirs ...                                          *)
VisitEntry(t) ==
    LET w == frame[t].walk
    IN  /\ At(t, "wu_walk")
        /\ fault' = WalkFault(w.curr)
        /\ IF fault' # "none" THEN UNCHANGED <<pc, frame>>
           ELSE IF w.curr = t
           THEN /\ Goto(t, "wu_unlink")
                /\ frame' = [frame EXCEPT ![t].walk.next = NextPtr(delays, t)]
           ELSE /\ frame' = [frame EXCEPT ![t].walk =
                       [w EXCEPT !.prev = w.curr, !.curr = NextPtr(delays, w.curr)]]
                /\ UNCHANGED pc
        /\ UNCHANGED <<schedVars, pendsv, psp, event, ktick, semVars, delays>>

(* ... and takes the element it has found out and frees it. *)
UnlinkEntry(t) ==
    LET w == frame[t].walk
    IN  /\ At(t, "wu_unlink")
        /\ IF \A ptr \in {w.prev, w.curr, w.next} \ {NoTask} : Listed(delays, ptr)
           THEN delays' = Unlinked(delays, w.prev, w.next) /\ UNCHANGED fault
           ELSE fault' = "stale_node" /\ UNCHANGED delays
        /\ Goto(t, "run")
        /\ ktick' = FALSE
        /\ frame' = [frame EXCEPT ![t] = NoFrame]
        /\ UNCHANGED <<schedVars, pendsv, psp, event, semVars>>

\* Defect: the unit that was not taken is not returned.
KeptCnt(c) == c

(* s->cnt += 1.                                                              *)
Restored(c) == c + 1

(* Timed out: s->cnt += 1 is a load and a store. *)
LoadCnt(t) ==
    /\ At(t, "wu_load")
    /\ frame' = [frame EXCEPT ![t].cnt = sem_cnt[frame[t].sem]]
    /\ GoOn(t, "wu_store")
    /\ UNCHANGED <<semVars, delays>>

StoreCnt(t) ==
    /\ At(t, "wu_store")
    /\ sem_cnt' = [sem_cnt EXCEPT ![frame[t].sem] = Restored(frame[t].cnt)]
    /\ GoOn(t, "wu_deq")
    /\ UNCHANGED <<sem_q, delays, frame>>

(* pos_semaphore_deq(s, NULL_PTR) reads the list; an empty one makes it      *)
(* write through the null pointer.                                           *)
ReadQueue(t) ==
    /\ At(t, "wu_deq")
    /\ IF sem_q[frame[t].sem] = <<>>
       THEN fault' = "null_write" /\ UNCHANGED frame
       ELSE frame' = [frame EXCEPT ![t].q = sem_q[frame[t].sem]] /\ UNCHANGED fault
    /\ Goto(t, "wu_free")
    /\ UNCHANGED <<schedVars, pendsv, psp, event, ktick, semVars, delays>>

(* It unlinks the head it read, whoever that is, and the caller is ACTIVE    *)
(* again and returns POS_TIMEOUT.                                            *)
UnlinkHead(t) ==
    /\ At(t, "wu_free")
    /\ LET s == frame[t].sem
           q == frame[t].q
       IN  /\ sem_q' = IF sem_cnt[s] <= 0
                       THEN [sem_q EXCEPT ![s] = Tail(q)]
                       ELSE sem_q
           /\ status' = [DeqStatus(q, status) EXCEPT ![cte] = "ACTIVE"]
    /\ Goto(t, "run")
    /\ ktick' = FALSE
    /\ frame' = [frame EXCEPT ![t] = NoFrame]
    /\ UNCHANGED <<ring, cte, current_task, next_task, quantum, elapsed_ticks,
                   os_mode, is_sleep_mode, pendsv, psp, event, fault, sem_cnt,
                   delays>>

WaitUntilTail(t) ==
    CheckTimeout(t) \/ BeginWalk(t) \/ VisitEntry(t) \/ UnlinkEntry(t)
        \/ LoadCnt(t) \/ StoreCnt(t) \/ ReadQueue(t) \/ UnlinkHead(t)

-----------------------------------------------------------------------------
Yielding(t) ==
    /\ \/ EnterSvc(t)
       \/ SleepCpu(t)
       \/ WakeCpu(t)
       \/ ReturnFromYield(t, IF frame[t].sem = NoSem THEN "run" ELSE "wu_check")
    /\ UNCHANGED <<semVars, delays, frame>>

(* What t does of its own accord. *)
Call(t) ==
    \/ \E s \in Waits[t] : SemWait(t, s, "run") /\ UNCHANGED <<delays, frame>>
    \/ \E s \in Signals[t] : SemSignal(t, s) /\ UNCHANGED <<delays, frame>>
    \/ \E s \in TimedWaits[t], time \in Times : WaitUntil(t, s, time)
    \/ \E time \in Sleeps[t] : DelayMs(t, time) /\ UNCHANGED <<semVars, frame>>
    \/ t \in Finishers /\ TaskFinish(t) /\ UNCHANGED <<semVars, delays, frame>>

Isr == \E s \in IsrSems : IsrSignal(s) /\ UNCHANGED <<delays, frame>>

SwitchContext == PendSV /\ UNCHANGED <<semVars, delays, frame>>

(* pos_error stops in a breakpoint; the other faults are beyond the model. *)
Halted == fault # "none" /\ UNCHANGED vars

Init ==
    /\ SchedulerInit
    /\ SemaphoreInit
    /\ DelayInit
    /\ frame = [t \in Task |-> NoFrame]

Next ==
    \/ \E t \in Task : Yielding(t) \/ WaitUntilTail(t) \/ Call(t)
    \/ SysTick
    \/ Isr
    \/ SwitchContext
    \/ Halted

Spec == Init /\ [][Next]_vars

(* The CPU executes instructions, takes a pending PendSV and counts time.    *)
(* What tasks call and when interrupts come is their own affair.             *)
Fairness ==
    /\ \A t \in Task : WF_vars(Yielding(t) \/ WaitUntilTail(t))
    /\ WF_vars(SysTick)
    /\ WF_vars(SwitchContext)

FairSpec == Spec /\ Fairness

(* Types of the kernel's variables, the uint8_t of the tick count included.  *)
TypeOK ==
    /\ SchedulerTypeOK
    /\ SemaphoreTypeOK
    /\ DelayTypeOK
    /\ frame \in [Task -> [sem : Sem \cup {NoSem}, cnt : Int, q : Seq(Task), walk : Walk]]

-----------------------------------------------------------------------------
(* The semaphores keep what SemaphoreSpec promises: the count is the number  *)
(* of free units or, negative, the length of the line.                       *)
Promise == INSTANCE SemaphoreSpec WITH
    Free0 <- InitCnt,
    free <- [s \in Sem |-> IF sem_cnt[s] > 0 THEN sem_cnt[s] ELSE 0],
    line <- sem_q,
    asleep <- {t \in Task : status[t] = "SEM_WAITING"}

(* Every wait and signal is a step of SemaphoreSpec: no unit and no waiter is *)
(* lost, and waiters are served in their order (pos_semaphore_enq, _deq).    *)
KeepsPromise == Promise!Spec

(* Round robin: a task that is ready gets the CPU, whatever the others do.   *)
ReadyTaskRuns == \A t \in Task : (status[t] = "IDLE" ~> psp = t)

(* A delay ends: pos_delay_tick releases every elapsed entry in the end.     *)
DelayEnds == \A t \in Task : (status[t] = "DELAY" ~> status[t] # "DELAY")

(* A wait with a timeout ends, whether the semaphore is signalled or not: the *)
(* time elapses, and the tail of pos_semaphore_wait_until is gone through.   *)
TimedWaitEnds ==
    \A t \in Task : (frame[t].sem # NoSem ~> frame[t].sem = NoSem \/ fault # "none")

(* A semaphore wait that timed out leaves nothing behind: when no timed wait *)
(* is under way the count and the lists are what they would be without it,   *)
(* wherever ticks fell into its tail, unless it has ended in an error        *)
(* (pos_error, or a walk on an element that the tick has freed).             *)
TimeoutLeavesNoTrace ==
    fault = "none" /\ (\A t \in Task : frame[t].sem = NoSem) =>
        CountMatchesQueue /\ QueuedIffWaiting /\ DelayedIffListed

(* pos_delay.c:105 pos_error(POS_OS_RESOURCE_NOT_FOUND): the task of a timed  *)
(* wait that was signalled finds its delay entry, and never comes to the end *)
(* of the list.                                                              *)
WalkMeetsEntry == fault # "resource_not_found"

(* pos_delay_remove never stands on an element that the tick has freed.      *)
NoStaleNode == fault # "stale_node"

(* pos_delay.c:131 "WTF Here?!": the tick never finds the task of an elapsed *)
(* entry in a status that has no delay.                                      *)
NoUnexpectedError == fault # "unexpected_error"

(* pos_scheduler.c:37-39: a blocked HIGH task is switched to immediately "on *)
(* signaling semaphores or releasing mutexes" (README.md:19 says it of the   *)
(* semaphores).  A step that wakes one while another task runs its own code  *)
(* requests the switch at once.                                              *)
HighRunsAtOnce ==
    [][\A t \in Task :
          /\ Prio[t] = "HIGH"
          /\ status[t] = "SEM_WAITING" /\ status'[t] # "SEM_WAITING"
          /\ At(psp, "run")
          => pendsv' /\ next_task' = t]_vars
=============================================================================
