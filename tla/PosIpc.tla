-------------------------------- MODULE PosIpc --------------------------------
(*****************************************************************************)
(* Messages between tasks (core/pos_ipc.c) on the running kernel.  The       *)
(* mailbox of a task is a list of messages and a semaphore that counts them; *)
(* sending is two critical sections, one on each, and so is receiving.       *)
(* Interrupt handlers (timers, the UART, the external lines) send as well.   *)
(* A message is represented by its src.                                      *)
(*****************************************************************************)
EXTENDS PosKernel

CONSTANTS
    MAX_PROCCESS_NUM,       \* elements of __mq and __mqs, one per pid
    MAX_IPC_MESSAGES_NUM,   \* messages a mailbox holds
    Mails,                  \* the tasks each task sends to
    IsrMails                \* the tasks interrupt handlers send to

\* The semaphore of the mailbox of task t is t.  pos_create_task has sent
\* POS_TASK_STARTUP to every task.  The configuration has a mailbox for each
\* task: no code compares the pid with MAX_PROCCESS_NUM.
ASSUME IpcAssumption ==
    /\ MAX_PROCCESS_NUM \in Nat /\ N <= MAX_PROCCESS_NUM
    /\ MAX_IPC_MESSAGES_NUM \in Nat \ {0}
    /\ Mails \in [Task -> SUBSET Task]
    /\ IsrMails \in SUBSET Task
    /\ Task \subseteq Sem
    /\ \A t \in Task : /\ InitCnt[t] = 1
                       /\ (Waits[t] \cup TimedWaits[t] \cup Signals[t]) \cap Task = {}
    /\ IsrSems \cap Task = {}
    /\ MaxCnt > MAX_IPC_MESSAGES_NUM

VARIABLES
    mq,         \* __mq: the messages of each mailbox
    box,        \* the mailbox a task sends to or receives from
    head,       \* the list as pos_ipc_deq has read it
    posting     \* the mailbox an interrupt handler has put a message in and
                \* is about to signal

ipcVars == <<mq, box, head, posting>>
allVars == <<vars, ipcVars>>

\* Defect: the new message goes ahead of the others.
MailFirst(q, src) == <<src>> \o q

(* pos_ipc_enq appends at the tail. *)
MailAdded(q, src) == Append(q, src)

Full(to) == Len(mq[to]) >= MAX_IPC_MESSAGES_NUM

(* The critical section of pos_send_message: to a full mailbox it is         *)
(* pos_error.                                                                *)
EnqSection(to) ==
    IF Full(to)
    THEN fault' = "low_space" /\ UNCHANGED mq
    ELSE mq' = [mq EXCEPT ![to] = MailAdded(@, cte)] /\ UNCHANGED fault

SendMessage(t, to) ==
    /\ At(t, "run")
    /\ EnqSection(to)
    /\ box' = [box EXCEPT ![t] = to]
    /\ Goto(t, "ip_signal")
    /\ UNCHANGED <<schedVars, pendsv, psp, event, ktick, semVars, delays,
                   frame, head, posting>>

(* Behind it pos_send_message signals the semaphore.                         *)
SignalMail(t) ==
    /\ At(t, "ip_signal")
    /\ SignalSection(box[t])
    /\ box' = [box EXCEPT ![t] = NoTask]
    /\ Goto(t, "run")
    /\ ktick' = FALSE
    /\ UNCHANGED <<ring, is_sleep_mode, psp, event, fault, delays, frame, mq,
                   head, posting>>

(* pos_get_message up to the end of pos_semaphore_wait, or of its yield.     *)
GetMessage(t) ==
    /\ SemWait(t, cte, "ip_deq")
    /\ box' = [box EXCEPT ![t] = cte]
    /\ UNCHANGED <<delays, frame, mq, head, posting>>

Receiving(t) == box[t] # NoTask

ReturnReceiving(t) ==
    /\ Receiving(t)
    /\ ReturnFromYield(t, "ip_deq")
    /\ UNCHANGED <<semVars, delays, frame, ipcVars>>

(* pos_ipc_deq reads the list ahead of its critical section ...              *)
ReadMail(t) ==
    /\ At(t, "ip_deq")
    /\ head' = [head EXCEPT ![t] = mq[box[t]]]
    /\ GoOn(t, "ip_take")
    /\ UNCHANGED <<semVars, delays, frame, mq, box, posting>>

\* Defect: the message stays in the list.
MailLeft(q) == q

(* The list behind its head. *)
MailTaken(q) == Tail(q)

(* ... and unlinks the head it read, which nobody else takes; without one    *)
(* pos_get_message is pos_error.                                             *)
TakeMail(t) ==
    /\ At(t, "ip_take")
    /\ IF head[t] = <<>>
       THEN fault' = "queue_empty" /\ UNCHANGED mq
       ELSE mq' = [mq EXCEPT ![box[t]] = MailTaken(@)] /\ UNCHANGED fault
    /\ box' = [box EXCEPT ![t] = NoTask]
    /\ head' = [head EXCEPT ![t] = <<>>]
    /\ Goto(t, "run")
    /\ ktick' = FALSE
    /\ UNCHANGED <<schedVars, pendsv, psp, event, semVars, delays, frame, posting>>

(* pos_send_message by an interrupt handler.  The handlers have one          *)
(* priority, between SysTick and the thread code.  The UART's sends outside  *)
(* any critical section; those of the timers and the external lines hold one *)
(* around both steps, the case without a tick in between.                    *)
IsrEnq(to) ==
    /\ fault = "none"
    /\ posting = NoTask
    /\ EnqSection(to)
    /\ posting' = to
    /\ UNCHANGED <<schedVars, cpuVars, semVars, delays, frame, box, head>>

IsrSignalMail ==
    /\ posting # NoTask
    /\ IsrSignal(posting)
    /\ posting' = NoTask
    /\ UNCHANGED <<delays, frame, mq, box, head>>

IpcInit ==
    /\ Init
    /\ mq = [t \in Task |-> <<NoTask>>]     \* sent before there is a current task
    /\ box = [t \in Task |-> NoTask]
    /\ head = [t \in Task |-> <<>>]
    /\ posting = NoTask

(* The steps of the kernel below the interrupt handlers; the return from     *)
(* pos_yield belongs to the mailbox when its caller is pos_get_message.      *)
ThreadStep(t) ==
    /\ posting = NoTask
    /\ \/ ~(Receiving(t) /\ pc[t] = "resumed") /\ Yielding(t) /\ UNCHANGED ipcVars
       \/ ReturnReceiving(t)
       \/ ReadMail(t)
       \/ TakeMail(t)
       \/ SignalMail(t)

ThreadCall(t) ==
    /\ posting = NoTask
    /\ \/ \E to \in Mails[t] : SendMessage(t, to)
       \/ GetMessage(t)
       \/ Call(t) /\ UNCHANGED ipcVars

Tick == SysTick /\ UNCHANGED ipcVars

Switch == posting = NoTask /\ SwitchContext /\ UNCHANGED ipcVars

Stopped == Halted /\ UNCHANGED ipcVars

IpcNext ==
    \/ \E t \in Task : ThreadStep(t) \/ ThreadCall(t)
    \/ \E to \in IsrMails : IsrEnq(to)
    \/ IsrSignalMail
    \/ Tick
    \/ Switch
    \/ Stopped

IpcSpec == IpcInit /\ [][IpcNext]_allVars

(* As in PosKernel, and an interrupt handler runs to its end.                *)
IpcFairness ==
    /\ \A t \in Task : WF_allVars(ThreadStep(t))
    /\ WF_allVars(Tick)
    /\ WF_allVars(Switch)
    /\ WF_allVars(IsrSignalMail)

FairIpcSpec == IpcSpec /\ IpcFairness

(* Types of the mailboxes and of the kernel beneath them.                    *)
IpcTypeOK ==
    /\ TypeOK
    /\ mq \in [Task -> Seq(Task \cup {NoTask})]
    /\ box \in [Task -> Task \cup {NoTask}]
    /\ head \in [Task -> Seq(Task \cup {NoTask})]
    /\ posting \in Task \cup {NoTask}

-----------------------------------------------------------------------------
(* The messages of a mailbox that its semaphore does not count: the sender   *)
(* has not signalled yet, or the receiver has its unit and not the message.  *)
Signalling(to) ==
    Cardinality({t \in Task : pc[t] = "ip_signal" /\ box[t] = to})
        + (IF posting = to THEN 1 ELSE 0)

Granted(to) ==
    Cardinality({t \in Task :
        /\ box[t] = to
        /\ \/ pc[t] \in {"ip_deq", "ip_take"}
           \/ pc[t] \in {"yield", "svc", "wfe", "resumed"} /\ status[t] # "SEM_WAITING"})

(* The count of a mailbox's semaphore agrees with its list in every state,   *)
(* whoever is between the two critical sections.                             *)
CountMatchesMail ==
    fault = "none" =>
        \A to \in Task :
            Len(mq[to]) = (IF sem_cnt[to] > 0 THEN sem_cnt[to] ELSE 0)
                              + Signalling(to) + Granted(to)

(* pos_ipc.c:106: pos_get_message never comes back from the semaphore to an  *)
(* empty list.                                                               *)
NoEmptyGet == fault # "queue_empty"

(* The mailboxes keep what MailboxSpec promises: the one who takes the       *)
(* semaphore's unit is promised a message, and pos_ipc_deq's head, read      *)
(* outside the critical section, is the message it is handed.                *)
Mail == INSTANCE MailboxSpec WITH
    Startup <- NoTask,
    Limit <- MAX_IPC_MESSAGES_NUM,
    mail <- mq,
    asleep <- {t \in Task : Receiving(t) /\ status[t] = "SEM_WAITING"},
    promised <- {t \in Task :
        Receiving(t) /\ pc[t] # "ip_signal" /\ status[t] # "SEM_WAITING"},
    letter <- [t \in Task |-> IF head[t] = <<>> THEN <<>> ELSE <<Head(head[t])>>]

(* Every send and receive is a step of MailboxSpec: no message is lost or    *)
(* handed over twice, the oldest goes first, and pos_get_message never comes *)
(* back from the semaphore to an empty list (pos_ipc.c:106).                 *)
KeepsMailPromise == Mail!Spec

(* A task that sleeps in pos_get_message is woken once its mailbox has a     *)
(* message, also when the sender is switched out before its signal.          *)
MailWakes ==
    \A t \in Task :
        (Receiving(t) /\ status[t] = "SEM_WAITING" /\ mq[t] # <<>>)
            ~> (status[t] # "SEM_WAITING" \/ fault # "none")
=============================================================================
