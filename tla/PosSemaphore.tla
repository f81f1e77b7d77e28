------------------------------ MODULE PosSemaphore ------------------------------
(*****************************************************************************)
(* Counting semaphores (core/pos_semaphore.c): a count that goes negative by *)
(* one for every waiter, and a FIFO list of waiting PIDs.  The timed wait,   *)
(* which also uses the delay list, is in PosKernel.                          *)
(*****************************************************************************)
EXTENDS PosScheduler

CONSTANTS
    Sem,        \* the semaphores
    InitCnt,    \* the count each is initialised with
    MaxLine,    \* bounds of the model: no wait behind MaxLine waiters,
    MaxCnt      \* no signal at the count MaxCnt

ASSUME SemAssumption == InitCnt \in [Sem -> Nat]
ASSUME BoundAssumption == MaxLine \in Nat /\ MaxCnt \in Nat

VARIABLES
    sem_cnt,    \* s->cnt
    sem_q       \* s->q, the PIDs from the head

semVars == <<sem_cnt, sem_q>>

\* Defect: the newest waiter is first.
EnqFirst(q, pid) == <<pid>> \o q

(* pos_semaphore_enq appends at the tail. *)
Enq(q, pid) == Append(q, pid)

\* Defect: the last waiter is not unlinked.
DeqQueueEarly(q, c) == IF q # <<>> /\ c < 0 THEN Tail(q) ELSE q

(* pos_semaphore_deq with the count already increased to c: the head is      *)
(* unlinked only while the count says that somebody waits.                   *)
DeqQueue(q, c) == IF q # <<>> /\ c <= 0 THEN Tail(q) ELSE q

(* The pid pos_semaphore_deq reports. *)
DeqPid(q) == IF q = <<>> THEN NoTask ELSE Head(q)

\* Defect: the task at the other end wakes.
DeqStatusOfTail(q, st) ==
    IF q = <<>> THEN st ELSE [st EXCEPT ![q[Len(q)]] = "IDLE"]

\* Defect: nobody wakes.
DeqStatusKept(q, st) == st

(* It makes that task ready.                                                 *)
DeqStatus(q, st) == IF q = <<>> THEN st ELSE [st EXCEPT ![Head(q)] = "IDLE"]

(* The bound on waits, by the count and by the list. *)
HasRoom(s) == sem_cnt[s] > -MaxLine /\ Len(sem_q[s]) < MaxLine

(* pos_semaphore_wait by the running task t, which goes on at p when there   *)
(* is a unit.                                                                *)
SemWait(t, s, p) ==
    /\ At(t, "run")
    /\ HasRoom(s)
    /\ sem_cnt' = [sem_cnt EXCEPT ![s] = @ - 1]
    /\ IF sem_cnt[s] - 1 >= 0
       THEN GoOn(t, p) /\ UNCHANGED sem_q
       ELSE /\ sem_q' = [sem_q EXCEPT ![s] = Enq(@, cte)]
            /\ status' = [status EXCEPT ![cte] = "SEM_WAITING"]
            /\ BeginYield(t)

(* The critical section of pos_semaphore_signal. *)
SignalSection(s) ==
    /\ sem_cnt[s] < MaxCnt
    /\ sem_cnt' = [sem_cnt EXCEPT ![s] = @ + 1]
    /\ sem_q' = [sem_q EXCEPT ![s] = DeqQueue(@, sem_cnt[s] + 1)]
    /\ LET st == DeqStatus(sem_q[s], status)
           pid == DeqPid(sem_q[s])
       IN  IF pid = NoTask
           THEN NoSwitch(st) /\ UNCHANGED <<os_mode, elapsed_ticks>>
           ELSE Ready(pid, st, elapsed_ticks)

(* pos_semaphore_signal by the running task t. *)
SemSignal(t, s) ==
    /\ At(t, "run")
    /\ SignalSection(s)
    /\ UNCHANGED <<ring, is_sleep_mode, psp, pc, event, ktick, fault>>

(* pos_semaphore_signal from the interrupt handler of a timer, the UART or   *)
(* an external line (through pos_send_message).  It preempts everything but  *)
(* a critical section; its return sets the event register.                   *)
IsrSignal(s) ==
    /\ fault = "none"
    /\ SignalSection(s)
    /\ event' = TRUE
    /\ UNCHANGED <<ring, is_sleep_mode, psp, pc, ktick, fault>>

SemaphoreInit ==
    /\ sem_cnt = InitCnt
    /\ sem_q = [s \in Sem |-> <<>>]

SemaphoreTypeOK ==
    /\ sem_cnt \in [Sem -> Int]
    /\ sem_q \in [Sem -> Seq(Task)]

-----------------------------------------------------------------------------
Waiting(s) == {sem_q[s][i] : i \in 1 .. Len(sem_q[s])}

(* The count and the list agree: as many tasks queue as the count is below   *)
(* zero, each once.  A signal whose waiter is not found, or a waiter the     *)
(* count does not know, is a lost wakeup.                                    *)
CountMatchesQueue ==
    \A s \in Sem : /\ Len(sem_q[s]) = (IF sem_cnt[s] < 0 THEN -sem_cnt[s] ELSE 0)
                   /\ Cardinality(Waiting(s)) = Len(sem_q[s])

(* A task is blocked on a semaphore exactly when one list holds it, and no   *)
(* two lists hold it.                                                        *)
QueuedIffWaiting ==
    /\ \A t \in Task : status[t] \in {"SEM_WAITING", "SEM_WAITING_UNTIL"}
                          <=> \E s \in Sem : t \in Waiting(s)
    /\ \A s, r \in Sem : s # r => Waiting(s) \cap Waiting(r) = {}
=============================================================================
