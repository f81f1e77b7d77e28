----------------------------- MODULE MailboxProofs -----------------------------
(* The mailboxes of programs without timed waits whose HIGH tasks are woken   *)
(* by tasks: between the two critical sections of each send and of each       *)
(* receive, in tasks and in interrupt handlers, a mailbox's list and its      *)
(* semaphore never disagree by more than who is on the way, and the sends and *)
(* receives implement MailboxSpec.                                            *)
EXTENDS PosIpc, PosKernelProofs

Yields(p) == InYield(p) \/ p = "resumed"
Receives(p) == p \in {"ip_deq", "ip_take"}

MailTypeOK ==
    /\ mq \in [Task -> Seq(Task \cup {NoTask})]
    /\ box \in [Task -> Task \cup {NoTask}]
    /\ head \in [Task -> Seq(Task \cup {NoTask})]
    /\ posting \in IsrMails \cup {NoTask}

(* Where a task with a mailbox in hand can be; a receiver has its own.       *)
BoxesFit ==
    \A t \in Task :
        /\ pc[t] = "ip_signal" => box[t] \in Task
        /\ Receives(pc[t]) => box[t] = t
        /\ Yields(pc[t]) => box[t] \in {NoTask, t}
        /\ pc[t] = "ip_signal" \/ Receives(pc[t]) \/ Yields(pc[t]) \/ box[t] = NoTask
        /\ pc[t] = "ip_take" => head[t] # <<>>

(* Nobody but its owner sleeps on a mailbox, and a receiver on nothing else. *)
SleepersOwn ==
    /\ \A s, t \in Task : t \in Waiting(s) => t = s /\ box[s] = s
    /\ \A t \in Task, s \in Sem : box[t] = t /\ Yields(pc[t]) /\ t \in Waiting(s) => s = t

Free(to) == IF sem_cnt[to] > 0 THEN sem_cnt[to] ELSE 0
Signallers(to) == {t \in Task : pc[t] = "ip_signal" /\ box[t] = to}
HasUnit(t) ==
    box[t] = t /\ (Receives(pc[t]) \/ (Yields(pc[t]) /\ t \notin Waiting(t)))
One(b) == IF b THEN 1 ELSE 0

(* What a step does to the owner of a mailbox: nothing, or a signal gives it *)
(* the unit it sleeps for.                                                   *)
SameUnit(t) ==
    /\ HasUnit(t)' <=> HasUnit(t)
    /\ t \in Waiting(t)' <=> t \in Waiting(t)

Woken(t) ==
    /\ ~HasUnit(t) /\ HasUnit(t)'
    /\ t \in Waiting(t) /\ t \notin Waiting(t)'

(* CountMatchesMail, told by the lines instead of the statuses.              *)
Accounted(to) ==
    Len(mq[to]) = Free(to) + Cardinality(Signallers(to))
                      + One(posting = to) + One(HasUnit(to))

MailFits == fault = "none" => \A to \in Task : Accounted(to)

MailInv == MailTypeOK /\ BoxesFit /\ SleepersOwn /\ MailFits /\ NoEmptyGet
IpcInv == QueueInv /\ MailInv

-----------------------------------------------------------------------------
(* The steps of the mailboxes keep the invariants of the kernel.             *)

(* The signal behind a send.                                                 *)
LEMMA SignalMailGives ==
    ASSUME QueueInv, NEW t \in Task, SignalMail(t), box[t] \in Sem
    PROVE  QueueInv' /\ Gave(box[t])
<1> DEFINE s == box[t]
<1> USE DEF QueueInv, SemaphoreInv, RoundRobinInv
<1>1. /\ At(t, "ip_signal") /\ SignalSection(s) /\ Goto(t, "run") /\ ktick' = FALSE
      /\ UNCHANGED <<ring, is_sleep_mode, psp, event, fault, delays, frame>>
  BY DEF SignalMail
<1>2. s \in Sem /\ IsrSems \subseteq Sem
  BY ProgramAssumption
<1> HIDE DEF s
<1>3. Gave(s)
  BY <1>1, <1>2, SignalGives
<1>4. WakesOnly /\ (UNCHANGED <<globals, elapsed_ticks, os_mode>> \/ Preempted)
  BY <1>1, <1>2, SignalEffect
<1>5. TypeInv'
  <2> USE DEF TypeInv, TypeOK
  <2>1. /\ SwitchOK' /\ os_mode' \in OsMode /\ elapsed_ticks' \in 0 .. 255
        /\ SemaphoreTypeOK'
    BY <1>1, <1>2, SignalSectionKeeps
  <2>2. SchedulerTypeOK' /\ ActiveIsCurrent'
    BY <1>1, <2>1 DEF SwitchOK, SchedulerTypeOK, Goto, Pc
  <2>3. DelayTypeOK' /\ FramesOK'
    BY <1>1 DEF DelayTypeOK, FramesOK, Goto, SchedulerTypeOK
  <2> QED BY <1>1, <2>1, <2>2, <2>3
<1>6. SwitchInv'
  <2>1. ~InYield("ip_signal") /\ ~InYield("run")
    BY DEF InYield
  <2> QED BY <1>1, <1>4, <2>1, ThreadStepKeeps, PreemptedKeeps
<1>7. LineInv' /\ SleepersQueue'
  BY <1>1, <1>2, <1>3, EffectKeeps DEF Effect
<1>8. HighFits'
  <2>1. \A r \in IsrSems : Waiting(r)' \cap HighTasks \subseteq Waiting(r)
    BY <1>2, <1>3, GaveLines
  <2>2. \A u \in Task : pc'[u] = "wu_free" => pc[u] = "wu_free"
    BY <1>1 DEF Goto, TypeInv, TypeOK, SchedulerTypeOK
  <2> QED BY <1>1, <2>1, <2>2, BelowHighKeeps
<1> QED BY <1>3, <1>5, <1>6, <1>7, <1>8 DEF s

(* The same in an interrupt handler.                                         *)
LEMMA IsrSignalGives ==
    ASSUME QueueInv, NEW s \in Sem, IsrSignal(s), Waiting(s) \cap HighTasks = {},
           UNCHANGED <<delays, frame>>
    PROVE  QueueInv' /\ Gave(s)
<1> USE DEF QueueInv, SemaphoreInv, RoundRobinInv
<1>1. SignalSection(s) /\ event' = TRUE /\ UNCHANGED <<ring, is_sleep_mode, psp, pc, ktick, fault>>
  BY DEF IsrSignal
<1>2. Gave(s)
  BY <1>1, SignalGives
<1>3. TypeInv'
  BY <1>1, SignalKeeps
<1>4. SwitchInv'
  BY IsrKeeps
<1>5. LineInv' /\ SleepersQueue'
  BY <1>2, EffectKeeps DEF Effect
<1>6. HighFits'
  <2>1. \A r \in IsrSems : Waiting(r)' \cap HighTasks \subseteq Waiting(r)
    BY <1>2, GaveLines, ProgramAssumption
  <2> QED BY <1>1, <2>1, BelowHighKeeps
<1> QED BY <1>2, <1>3, <1>4, <1>5, <1>6

(* The wait of pos_get_message takes a unit or joins the line.               *)
LEMMA ReceiveWaits ==
    ASSUME QueueInv, NEW t \in Task, t \in Sem, SemWait(t, t, "ip_deq"), cte = t,
           UNCHANGED <<delays, frame>>
    PROVE  /\ QueueInv'
           /\ \/ Took(t) /\ Goto(t, "ip_deq")
              \/ Joined(t) /\ Goto(t, "yield")
<1> USE DEF QueueInv, SemaphoreInv, RoundRobinInv
<1>0. /\ sem_cnt \in [Sem -> Int] /\ status \in [Task -> Status] /\ ktick \in BOOLEAN
      /\ is_sleep_mode \in BOOLEAN /\ fault \in Fault
  BY DEF TypeInv, TypeOK, SchedulerTypeOK, SemaphoreTypeOK
<1>1. At(t, "run") /\ sem_cnt' = [sem_cnt EXCEPT ![t] = @ - 1]
  BY DEF SemWait
<1>2. CASE sem_cnt[t] - 1 >= 0
  <2>1. GoOn(t, "ip_deq") /\ UNCHANGED sem_q
    BY <1>2 DEF SemWait
  <2>2. Took(t)
    BY <1>0, <1>1, <1>2, <2>1 DEF GoOn, schedVars, Took
  <2>3. /\ Goto(t, "ip_deq") /\ ~InYield("run")
        /\ UNCHANGED <<ring, status, globals, elapsed_ticks, os_mode, psp, event>>
        /\ is_sleep_mode' \in BOOLEAN /\ ktick' \in BOOLEAN /\ fault' \in Fault
    BY <1>0, <2>1 DEF GoOn, schedVars, globals, InYield
  <2>4. QueueInv'
    <3>1. SemaphoreInv /\ QueueInv
      OBVIOUS
    <3> HIDE DEF QueueInv, SemaphoreInv
    <3> QED BY <1>1, <2>2, <2>3, <3>1, MoveOnKeeps
  <2> QED BY <2>2, <2>3, <2>4
<1>3. CASE ~(sem_cnt[t] - 1 >= 0)
  <2>1. /\ sem_q' = [sem_q EXCEPT ![t] = Enq(@, cte)]
        /\ status' = [status EXCEPT ![cte] = "SEM_WAITING"]
        /\ BeginYield(t)
    BY <1>3 DEF SemWait
  <2>2. status[cte] \notin Blocked /\ pc[cte] = "run"
    BY <1>1, Executing DEF SwitchInv, BlockedInYield, InYield
  <2>3. Joined(t)
    BY <1>0, <1>1, <1>3, <2>1, <2>2 DEF Enq, Blocked, Joined
  <2>4. TypeInv'
    <3>1. SemWait(t, t, "run")
      BY <1>3 DEF SemWait
    <3> QED BY <3>1, SemWaitKeeps
  <2>5. SwitchInv'
    BY <1>1, <2>1, BlockKeeps DEF Blocked
  <2>6. LineInv' /\ SleepersQueue'
    BY <2>3, EffectKeeps DEF Effect
  <2>7. HighFits'
    <3>1. \A r \in IsrSems : Waiting(r)' = Waiting(r)
      <4>1. sem_q' = [sem_q EXCEPT ![t] = Append(@, cte)] /\ sem_q \in [Sem -> Seq(Task)]
        BY <2>3 DEF Joined, TypeInv, TypeOK, SemaphoreTypeOK
      <4>2. \A r \in IsrSems : r \in Sem /\ r # t
        BY IpcAssumption, ProgramAssumption
      <4> QED BY <4>1, <4>2 DEF Waiting
    <3>2. fault = "none" /\ \A u \in Task : pc'[u] = "wu_free" => pc[u] = "wu_free"
      BY <1>1, <2>1 DEF At, BeginYield, Goto, TypeInv, TypeOK, SchedulerTypeOK
    <3> QED BY <3>1, <3>2, BelowHighKeeps
  <2> QED BY <2>1, <2>3, <2>4, <2>5, <2>6, <2>7 DEF BeginYield
<1> QED BY <1>2, <1>3
-----------------------------------------------------------------------------
(* What a signal and the kernel do to the mailboxes.                         *)

(* A signal of a mailbox frees a unit, or its owner, who is receiving, has   *)
(* one.                                                                      *)
LEMMA MailGiven ==
    ASSUME IpcInv, QueueInv', NEW to \in Task, to \in Sem, Gave(to)
    PROVE  \/ /\ to \notin Waiting(to) /\ to \notin Waiting(to)'
              /\ Free(to)' = Free(to) + 1
           \/ /\ to \in Waiting(to) /\ to \notin Waiting(to)'
              /\ box[to] = to /\ Yields(pc[to])
              /\ Free(to)' = Free(to)
<1> USE DEF IpcInv, QueueInv, SemaphoreInv, RoundRobinInv, MailInv
<1>1. /\ sem_cnt \in [Sem -> Int] /\ sem_q \in [Sem -> Seq(Task)]
      /\ status \in [Task -> Status]
  BY DEF TypeInv, TypeOK, SemaphoreTypeOK, SchedulerTypeOK
<1>2. sem_cnt'[to] = sem_cnt[to] + 1
  BY <1>1 DEF Gave
<1>3. Waiting(to)' \subseteq Waiting(to)
  BY GaveLines
<1>4. CASE sem_q[to] = <<>> /\ sem_cnt[to] >= 0
  <2>1. Waiting(to) = {}
    <3>1. Len(sem_q[to]) = 0
      BY <1>4, EmptySeq
    <3> QED BY <3>1 DEF Waiting
  <2>2. Free(to)' = Free(to) + 1
    BY <1>1, <1>2, <1>4 DEF Free
  <2> QED BY <1>3, <2>1, <2>2
<1>5. CASE sem_q[to] # <<>> /\ sem_cnt[to] < 0 /\ OnlyWakes({Head(sem_q[to])})
  <2>1. Head(sem_q[to]) \in Waiting(to) /\ Head(sem_q[to]) \in Task
    <3>1. /\ Head(sem_q[to]) = sem_q[to][1] /\ Len(sem_q[to]) \in Nat \ {0}
          /\ Head(sem_q[to]) \in Task
      BY <1>1, <1>5, HeadTailProperties, EmptySeq
    <3>2. 1 \in 1 .. Len(sem_q[to])
      BY <3>1
    <3> QED BY <3>1, <3>2 DEF Waiting
  <2>2. Head(sem_q[to]) = to /\ to \in Waiting(to) /\ box[to] = to
    BY <2>1 DEF SleepersOwn
  <2>3. status[to] = "SEM_WAITING"
    BY <2>2 DEF LineInv, WaitersSleep
  <2>4. Yields(pc[to])
    BY <2>3 DEF SwitchInv, BlockedInYield, Blocked, Yields
  <2>5. status'[to] # "SEM_WAITING"
    BY <1>5, <2>2 DEF OnlyWakes, Asleep, Blocked
  <2>6. to \notin Waiting(to)'
    BY <2>5 DEF LineInv, WaitersSleep
  <2>7. Free(to)' = Free(to)
    BY <1>1, <1>2, <1>5 DEF Free
  <2> QED BY <2>2, <2>4, <2>6, <2>7
<1> QED BY <1>4, <1>5, GaveEffect

-----------------------------------------------------------------------------
(* The steps of the kernel, with IpcClass: they leave the mailboxes'         *)
(* semaphores alone and move nobody who has a mailbox in hand but inside     *)
(* pos_yield.                                                                *)
IpcClass == SemaphoreClass /\ IsrMails \cap HighTasks = {}

KernelStep ==
    \/ \E t \in Task : \/ ~(Receiving(t) /\ pc[t] = "resumed") /\ Yielding(t)
                       \/ Call(t)
    \/ SysTick
    \/ SwitchContext
    \/ Halted
    \/ UNCHANGED vars

SparesMail ==
    /\ \A s \in Task : sem_cnt'[s] = sem_cnt[s] /\ sem_q'[s] = sem_q[s]
    /\ \A s \in Sem, t \in Task : t \in Waiting(s)' => t \in Waiting(s) \/ pc[t] = "run"
    /\ \A t \in Task :
          \/ pc'[t] = pc[t]
          \/ Yields(pc[t]) /\ Yields(pc'[t])
          \/ pc[t] = "run" /\ pc'[t] = "yield"
          \/ pc[t] = "resumed" /\ box[t] = NoTask /\ pc'[t] = "run"
    /\ \/ fault' = fault
       \/ fault = "none" /\ fault' \in {"hung", "context_lost", "unexpected_error"}

(* A call that has nothing to do with messages leaves the mailboxes'         *)
(* semaphores alone.                                                         *)
LEMMA CallSparesMail ==
    ASSUME IpcClass, QueueInv, NEW t \in Task, Call(t)
    PROVE  SparesMail
<1> USE IpcAssumption DEF QueueInv, SemaphoreInv, RoundRobinInv, IpcClass
<1>1. /\ sem_cnt \in [Sem -> Int] /\ sem_q \in [Sem -> Seq(Task)] /\ pc \in [Task -> Pc]
  BY DEF TypeInv, TypeOK, SemaphoreTypeOK, SchedulerTypeOK
<1>2. ASSUME NEW s \in Waits[t], SemWait(t, s, "run"), UNCHANGED <<delays, frame>>
      PROVE  SparesMail
  <2>1. s \in Sem \ Task
    BY ProgramAssumption
  <2>2. At(t, "run") /\ pc[t] = "run" /\ cte = t
    BY <1>2, Executing DEF SemWait
  <2>3. /\ fault' = fault
        /\ pc' = [pc EXCEPT ![t] = "run"] \/ pc' = [pc EXCEPT ![t] = "yield"]
    BY <1>2 DEF SemWait, GoOn, BeginYield, Goto
  <2>4. /\ \A r \in Sem \ {s} : sem_cnt'[r] = sem_cnt[r] /\ sem_q'[r] = sem_q[r]
        /\ sem_q'[s] = sem_q[s] \/ sem_q'[s] = Append(sem_q[s], t)
    BY <1>1, <1>2, <2>1, <2>2 DEF SemWait, Enq
  <2>5. Waiting(s)' \subseteq Waiting(s) \cup {t}
    <3> DEFINE q == sem_q[s]
               p == sem_q'[s]
    <3>1. q \in Seq(Task) /\ (p = q \/ p = Append(q, t))
      BY <1>1, <2>1, <2>4
    <3> HIDE DEF q, p
    <3>2. CASE p = Append(q, t)
      <4>1. /\ Len(q) \in Nat /\ Len(p) = Len(q) + 1 /\ p[Len(q) + 1] = t
            /\ \A i \in 1 .. Len(q) : p[i] = q[i]
        BY <3>1, <3>2, AppendProperties, LenProperties
      <4>2. \A i \in 1 .. Len(p) : p[i] = t \/ \E j \in 1 .. Len(q) : q[j] = p[i]
        BY <4>1
      <4> QED BY <4>2 DEF Waiting, q, p
    <3>3. CASE p = q
      BY <3>3 DEF Waiting, q, p
    <3> QED BY <3>1, <3>2, <3>3
  <2>6. \A r \in Sem \ {s} : Waiting(r)' = Waiting(r)
    BY <2>4 DEF Waiting
  <2> QED BY <1>1, <2>1, <2>2, <2>3, <2>4, <2>5, <2>6 DEF SparesMail
<1>3. ASSUME NEW s \in Signals[t], SemSignal(t, s), UNCHANGED <<delays, frame>>
      PROVE  SparesMail
  <2>1. s \in Sem \ Task
    BY ProgramAssumption
  <2>2. Gave(s) /\ fault' = fault /\ pc' = pc
    BY <1>3, <2>1, SignalGives DEF SemSignal
  <2>3. /\ \A r \in Sem \ {s} : sem_cnt'[r] = sem_cnt[r] /\ sem_q'[r] = sem_q[r]
    BY <1>1, <2>1, <2>2 DEF Gave
  <2>4. \A r \in Sem : Waiting(r)' \subseteq Waiting(r)
    BY <2>1, <2>2, GaveLines
  <2> QED BY <2>1, <2>2, <2>3, <2>4 DEF SparesMail
<1>4. ASSUME NEW time \in Sleeps[t], DelayMs(t, time), UNCHANGED <<semVars, frame>>
      PROVE  SparesMail
  <2>1. /\ UNCHANGED <<sem_cnt, sem_q, fault>> /\ pc[t] = "run"
        /\ pc' = [pc EXCEPT ![t] = "yield"]
    BY <1>4 DEF DelayMs, BeginYield, Goto, At, semVars
  <2> QED BY <1>1, <2>1 DEF SparesMail, Waiting
<1> QED
  BY <1>2, <1>3, <1>4 DEF Call, SemaphoreClass, ProgramClass

(* So do the other steps of the kernel.                                      *)
LEMMA KernelSparesMail ==
    ASSUME IpcClass, QueueInv, KernelStep
    PROVE  SparesMail
<1> USE DEF QueueInv, SemaphoreInv, RoundRobinInv
<1>0. pc \in [Task -> Pc]
  BY DEF TypeInv, TypeOK, SchedulerTypeOK
<1>1. ASSUME NEW t \in Task, ~(Receiving(t) /\ pc[t] = "resumed"), Yielding(t)
      PROVE  SparesMail
  <2>1. UNCHANGED <<sem_cnt, sem_q>>
    BY <1>1 DEF Yielding, semVars
  <2>2. frame[t].sem = NoSem
    BY DEF LineInv, NoTimedWaits
  <2>3. \A u \in Task :
          \/ pc'[u] = pc[u]
          \/ Yields(pc[u]) /\ Yields(pc'[u])
          \/ pc[u] = "resumed" /\ box[u] = NoTask /\ pc'[u] = "run"
    <3>1. CASE EnterSvc(t)
      BY <1>0, <3>1 DEF EnterSvc, At, Goto, Yields, InYield
    <3>2. CASE SleepCpu(t)
      BY <1>0, <3>2 DEF SleepCpu, At, Goto, Yields, InYield
    <3>3. CASE WakeCpu(t)
      BY <1>0, <3>3 DEF WakeCpu, AfterWake, At, Goto, Yields, InYield
    <3>4. CASE ReturnFromYield(t, IF frame[t].sem = NoSem THEN "run" ELSE "wu_check")
      BY <1>0, <1>1, <2>2, <3>4 DEF ReturnFromYield, At, Goto, Receiving
    <3> QED BY <1>1, <3>1, <3>2, <3>3, <3>4 DEF Yielding
  <2>4. fault' = fault \/ (fault = "none" /\ fault' = "hung")
    BY <1>1 DEF Yielding, EnterSvc, SleepCpu, Schedule, WakeCpu, ReturnFromYield, At
  <2> QED BY <2>1, <2>3, <2>4 DEF SparesMail, Waiting
<1>2. CASE SysTick
  <2>1. UNCHANGED <<sem_cnt, sem_q, pc>>
    BY <1>2 DEF SysTick, semVars
  <2>2. fault' = fault \/ (fault = "none" /\ fault' \in {"hung", "unexpected_error"})
    BY <1>2 DEF SysTick, Schedule, DelayTick
  <2> QED BY <2>1, <2>2 DEF SparesMail, Waiting
<1>3. CASE SwitchContext
  BY <1>3 DEF SwitchContext, PendSV, semVars, SparesMail, Waiting
<1>4. CASE UNCHANGED vars
  BY <1>4 DEF vars, cpuVars, semVars, SparesMail, Waiting
<1>5. CASE Halted
  BY <1>4, <1>5 DEF Halted
<1> QED BY <1>1, <1>2, <1>3, <1>4, <1>5, CallSparesMail DEF KernelStep

-----------------------------------------------------------------------------
(* The steps keep what the mailboxes promise.                                *)

(* The types that the steps below need.                                      *)
LEMMA MailTypes ==
    ASSUME IpcInv
    PROVE  /\ sem_cnt \in [Sem -> Int] /\ sem_q \in [Sem -> Seq(Task)] /\ pc \in [Task -> Pc]
           /\ box \in [Task -> Task \cup {NoTask}]
           /\ mq \in [Task -> Seq(Task \cup {NoTask})]
           /\ head \in [Task -> Seq(Task \cup {NoTask})]
           /\ NoTask \notin Task /\ Task \subseteq Sem
BY IpcAssumption DEF IpcInv, QueueInv, SemaphoreInv, RoundRobinInv, TypeInv, TypeOK, SemaphoreTypeOK,
   SchedulerTypeOK, MailInv, MailTypeOK, NoTask, Task

(* One sender more, and one sender less.                                     *)
LEMMA CountSignallers ==
    ASSUME NEW to, NEW t \in Task
    PROVE  /\ Cardinality(Signallers(to)) \in Nat
           /\ t \notin Signallers(to) =>
                 Cardinality(Signallers(to) \cup {t}) = Cardinality(Signallers(to)) + 1
           /\ t \in Signallers(to) =>
                 Cardinality(Signallers(to) \ {t}) = Cardinality(Signallers(to)) - 1
<1>1. IsFiniteSet(Task)
  BY TasksAssumption, FS_Interval DEF Task
<1>2. Signallers(to) \subseteq Task
  BY DEF Signallers
<1>3. IsFiniteSet(Signallers(to))
  BY <1>1, <1>2, FS_Subset
<1> QED BY <1>3, FS_CardinalityType, FS_AddElement, FS_RemoveElement

(* What spares the mailboxes keeps what is said of them.                     *)
LEMMA KernelKeepsMail ==
    ASSUME IpcInv, SparesMail, UNCHANGED ipcVars
    PROVE  MailInv' /\ \A t \in Task : SameUnit(t)
<1>0. UNCHANGED <<mq, box, head, posting>>
  BY DEF ipcVars
<1>1. MailTypeOK'
  BY <1>0 DEF IpcInv, MailInv, MailTypeOK
<1>2. \A t \in Task : /\ pc'[t] = "ip_signal" <=> pc[t] = "ip_signal"
                      /\ Receives(pc'[t]) <=> Receives(pc[t])
                      /\ pc'[t] = "ip_take" <=> pc[t] = "ip_take"
                      /\ box[t] # NoTask => (Yields(pc'[t]) <=> Yields(pc[t]))
                      /\ Yields(pc'[t]) => Yields(pc[t]) \/ pc[t] = "run"
  <2> SUFFICES ASSUME NEW t \in Task
               PROVE  /\ pc'[t] = "ip_signal" <=> pc[t] = "ip_signal"
                      /\ Receives(pc'[t]) <=> Receives(pc[t])
                      /\ pc'[t] = "ip_take" <=> pc[t] = "ip_take"
                      /\ box[t] # NoTask => (Yields(pc'[t]) <=> Yields(pc[t]))
                      /\ Yields(pc'[t]) => Yields(pc[t]) \/ pc[t] = "run"
    OBVIOUS
  <2>1. pc[t] = "run" => box[t] = NoTask
    BY DEF IpcInv, MailInv, BoxesFit, Receives, Yields, InYield
  <2> QED BY <2>1 DEF SparesMail, Receives, Yields, InYield
<1>3. BoxesFit'
  <2> SUFFICES ASSUME NEW t \in Task
               PROVE  /\ pc'[t] = "ip_signal" => box[t] \in Task
                      /\ Receives(pc'[t]) => box[t] = t
                      /\ Yields(pc'[t]) => box[t] \in {NoTask, t}
                      /\ \/ pc'[t] = "ip_signal" \/ Receives(pc'[t]) \/ Yields(pc'[t])
                         \/ box[t] = NoTask
                      /\ pc'[t] = "ip_take" => head[t] # <<>>
    BY <1>0 DEF BoxesFit, Receives, Yields, InYield
  <2>1. pc[t] = "run" => box[t] = NoTask
    BY DEF IpcInv, MailInv, BoxesFit, Receives, Yields, InYield
  <2> QED BY <1>2, <2>1 DEF IpcInv, MailInv, BoxesFit
<1>4. \A s \in Task : Waiting(s)' = Waiting(s)
  BY DEF SparesMail, Waiting
<1>5. SleepersOwn'
  <2>1. \A s, t \in Task : t \in Waiting(s)' => t = s /\ box'[s] = s
    BY <1>0, <1>4 DEF IpcInv, MailInv, SleepersOwn
  <2>2. ASSUME NEW t \in Task, NEW s \in Sem, box'[t] = t, Yields(pc'[t]), t \in Waiting(s)'
        PROVE  s = t
    <3>1. box[t] = t /\ box[t] # NoTask
      BY <1>0, <2>2, MailTypes
    <3>2. pc[t] # "run"
      BY <3>1 DEF IpcInv, MailInv, BoxesFit, Receives, Yields, InYield
    <3>3. t \in Waiting(s) /\ Yields(pc[t])
      BY <1>2, <2>2, <3>1, <3>2 DEF SparesMail
    <3> QED BY <3>1, <3>3 DEF IpcInv, MailInv, SleepersOwn
  <2> QED BY <2>1, <2>2 DEF SleepersOwn, Yields, InYield
<1>6. \A to \in Task : /\ Signallers(to)' = Signallers(to) /\ Free(to)' = Free(to)
                       /\ HasUnit(to)' = HasUnit(to)
  <2> TAKE to \in Task
  <2>1. Signallers(to)' = Signallers(to)
    BY <1>0, <1>2 DEF Signallers
  <2>2. Free(to)' = Free(to)
    BY DEF SparesMail, Free
  <2>3. CASE box[to] = to
    <3>1. (Yields(pc'[to]) <=> Yields(pc[to])) /\ (Receives(pc'[to]) <=> Receives(pc[to]))
      BY <1>2, <2>3, MailTypes
    <3> QED BY <1>0, <1>4, <2>1, <2>2, <3>1 DEF HasUnit, Yields, InYield, Receives
  <2>4. CASE box[to] # to
    BY <1>0, <2>1, <2>2, <2>4 DEF HasUnit
  <2> QED BY <2>3, <2>4
<1>7. MailFits'
  <2> SUFFICES ASSUME fault' = "none", NEW to \in Task PROVE Accounted(to)'
    BY DEF MailFits
  <2>1. fault = "none"
    BY DEF SparesMail
  <2>2. Accounted(to)
    BY <2>1 DEF IpcInv, MailInv, MailFits
  <2> QED BY <1>0, <1>6, <2>2 DEF Accounted
<1>8. NoEmptyGet'
  BY DEF SparesMail, IpcInv, MailInv, NoEmptyGet
<1>9. \A t \in Task : SameUnit(t)
  BY <1>4, <1>6 DEF SameUnit
<1> QED BY <1>1, <1>3, <1>5, <1>7, <1>8, <1>9 DEF MailInv

(* pos_send_message behind its first critical section: one message more, and *)
(* one task about to signal it.                                              *)
LEMMA SendKeeps ==
    ASSUME IpcClass, IpcInv, NEW t \in Task, NEW to \in Mails[t], SendMessage(t, to)
    PROVE  IpcInv' /\ \A r \in Task : SameUnit(r)
<1>0. to \in Task
  BY IpcAssumption
<1>1. /\ pc[t] = "run" /\ box[t] = NoTask /\ fault = "none"
      /\ pc' = [pc EXCEPT ![t] = "ip_signal"] /\ box' = [box EXCEPT ![t] = to]
      /\ UNCHANGED <<sem_cnt, sem_q, head, posting>>
  BY DEF SendMessage, At, Goto, semVars, IpcInv, MailInv, BoxesFit, Receives, Yields, InYield
<1>2. /\ fault' \in {"none", "low_space"}
      /\ fault' = "none" => mq' = [mq EXCEPT ![to] = Append(@, cte)]
      /\ mq' = mq \/ mq' = [mq EXCEPT ![to] = Append(@, cte)]
  BY <1>1 DEF SendMessage, EnqSection, MailAdded
<1>3. QueueInv'
  <2>1. /\ At(t, "run") /\ ~InYield("run") /\ Goto(t, "ip_signal")
        /\ UNCHANGED <<ring, status, globals, elapsed_ticks, os_mode, psp, event>>
        /\ UNCHANGED <<is_sleep_mode, ktick, delays, frame>> /\ semVars' = semVars
    BY DEF SendMessage, schedVars, globals, InYield
  <2>2. QueueInv /\ is_sleep_mode \in BOOLEAN /\ ktick \in BOOLEAN /\ fault' \in Fault
    BY <1>2 DEF Fault, IpcInv, QueueInv, SemaphoreInv, RoundRobinInv, TypeInv, TypeOK, SchedulerTypeOK
  <2> QED BY <2>1, <2>2, MoveOnKeeps DEF QueueInv
<1>4. MailTypeOK'
  <2>1. cte \in Task
    BY DEF IpcInv, QueueInv, SemaphoreInv, RoundRobinInv, TypeInv, TypeOK, SchedulerTypeOK
  <2>2. mq' \in [Task -> Seq(Task \cup {NoTask})]
    <3>1. mq[to] \in Seq(Task \cup {NoTask}) /\ cte \in Task \cup {NoTask}
      BY <1>0, <2>1, MailTypes
    <3>2. Append(mq[to], cte) \in Seq(Task \cup {NoTask})
      BY <3>1, AppendProperties
    <3> QED BY <1>0, <1>2, <3>2, MailTypes
  <2> QED BY <1>0, <1>1, <2>2 DEF IpcInv, MailInv, MailTypeOK
<1>5. \A s \in Sem : Waiting(s)' = Waiting(s)
  BY <1>1 DEF Waiting
<1>6. BoxesFit'
  BY <1>0, <1>1, MailTypes DEF IpcInv, MailInv, BoxesFit, Receives, Yields, InYield
<1>7. SleepersOwn'
  <2>1. \A s \in Task : t \notin Waiting(s)
    BY <1>1, MailTypes DEF IpcInv, MailInv, SleepersOwn
  <2> QED BY <1>1, <1>5, <2>1, MailTypes DEF IpcInv, MailInv, SleepersOwn, Yields, InYield
<1>8. \A r \in Task : /\ Free(r)' = Free(r) /\ HasUnit(r)' = HasUnit(r)
                      /\ Signallers(r)' = IF r = to THEN Signallers(r) \cup {t} ELSE Signallers(r)
                      /\ t \notin Signallers(r)
  <2> TAKE r \in Task
  <2>1. Free(r)' = Free(r)
    BY <1>1 DEF Free
  <2>2. HasUnit(r)' = HasUnit(r)
    BY <1>0, <1>1, <1>5, MailTypes DEF HasUnit, Receives, Yields, InYield
  <2>3. /\ Signallers(r)' = IF r = to THEN Signallers(r) \cup {t} ELSE Signallers(r)
        /\ t \notin Signallers(r)
    BY <1>0, <1>1, MailTypes DEF Signallers
  <2> QED BY <2>1, <2>2, <2>3
<1>9. MailFits'
  <2> SUFFICES ASSUME fault' = "none", NEW r \in Task PROVE Accounted(r)'
    BY DEF MailFits
  <2>1. Accounted(r) /\ Free(r) \in Int
    BY <1>1, MailTypes DEF IpcInv, MailInv, MailFits, Free
  <2>2. Cardinality(Signallers(r)) \in Nat /\ One(posting = r) \in Nat /\ One(HasUnit(r)) \in Nat
    BY CountSignallers DEF One
  <2>3. Cardinality(Signallers(r)') = Cardinality(Signallers(r)) + (IF r = to THEN 1 ELSE 0)
    <3>1. Cardinality(Signallers(r) \cup {t}) = Cardinality(Signallers(r)) + 1
      BY <1>8, CountSignallers
    <3> QED BY <1>8, <2>2, <3>1
  <2>4. Len(mq'[r]) = Len(mq[r]) + (IF r = to THEN 1 ELSE 0)
    BY <1>0, <1>2, MailTypes, LenProperties
  <2> QED BY <1>1, <1>8, <2>1, <2>2, <2>3, <2>4 DEF Accounted
<1>10. NoEmptyGet'
  BY <1>2 DEF NoEmptyGet
<1>11. \A r \in Task : SameUnit(r)
  BY <1>5, <1>8, MailTypes DEF SameUnit
<1> QED BY <1>3, <1>4, <1>6, <1>7, <1>9, <1>10, <1>11 DEF IpcInv, MailInv

(* A signal of a mailbox: its free units and its receiver with a unit are    *)
(* one more, and the other mailboxes are as they were.                       *)
LEMMA GivenFits ==
    ASSUME IpcInv, QueueInv', NEW to \in Task, Gave(to),
           \A u \in Task : \/ (pc'[u] = pc[u] /\ box'[u] = box[u])
                          \/ (pc[u] = "ip_signal" /\ pc'[u] = "run" /\ box'[u] = NoTask)
    PROVE  /\ SleepersOwn'
           /\ \A r \in Task : Free(r)' + One(HasUnit(r)')
                               = Free(r) + One(HasUnit(r)) + (IF r = to THEN 1 ELSE 0)
           /\ \A r \in Task : SameUnit(r) \/ (r = to /\ Woken(r))
<1>0. to \in Sem /\ TypeInv
  BY MailTypes DEF IpcInv, QueueInv, SemaphoreInv, RoundRobinInv
<1>1. /\ \A r \in Sem : Waiting(r)' \subseteq Waiting(r)
      /\ \A r \in Sem \ {to} : Waiting(r)' = Waiting(r) /\ sem_cnt'[r] = sem_cnt[r]
  BY <1>0, GaveLines
<1>2. \A s \in Task : box[s] = s /\ (Receives(pc[s]) \/ Yields(pc[s]))
                     => box'[s] = s /\ pc'[s] = pc[s]
  BY DEF Receives, Yields, InYield
<1>3. \A s \in Task : box'[s] = s => box[s] = s /\ pc'[s] = pc[s]
  BY MailTypes
<1>4. SleepersOwn'
  <2>1. ASSUME NEW s \in Task, NEW u \in Task, u \in Waiting(s)'
        PROVE  u = s /\ box'[s] = s
    <3>1. u = s /\ box[s] = s /\ s \in Sem
      BY <1>1, <2>1, MailTypes DEF IpcInv, MailInv, SleepersOwn
    <3>2. status[s] = "SEM_WAITING"
      BY <1>1, <2>1, <3>1 DEF IpcInv, QueueInv, SemaphoreInv, LineInv, WaitersSleep
    <3>3. Yields(pc[s])
      BY <3>2 DEF IpcInv, QueueInv, SemaphoreInv, RoundRobinInv, SwitchInv, BlockedInYield, Blocked, Yields
    <3> QED BY <1>2, <3>1, <3>3
  <2>2. ASSUME NEW u \in Task, NEW s \in Sem, box'[u] = u, Yields(pc'[u]), u \in Waiting(s)'
        PROVE  s = u
    BY <1>1, <1>3, <2>2 DEF IpcInv, MailInv, SleepersOwn
  <2> QED BY <2>1, <2>2 DEF SleepersOwn, Yields, InYield
<1>5. \A r \in Task : HasUnit(r)' <=>
         box[r] = r /\ (Receives(pc[r]) \/ (Yields(pc[r]) /\ r \notin Waiting(r)'))
  BY <1>2, <1>3 DEF HasUnit, Receives, Yields, InYield
<1>6. \A r \in Task : Free(r) \in Int /\ One(HasUnit(r)) \in Int
  BY MailTypes DEF Free, One
<1>7. \A r \in Task \ {to} : Free(r)' = Free(r) /\ (HasUnit(r)' <=> HasUnit(r))
  BY <1>1, <1>5, MailTypes DEF Free, HasUnit
<1>8. Free(to)' + One(HasUnit(to)') = Free(to) + One(HasUnit(to)) + 1
  <2>1. CASE to \notin Waiting(to) /\ to \notin Waiting(to)' /\ Free(to)' = Free(to) + 1
    <3>1. HasUnit(to)' <=> HasUnit(to)
      BY <1>5, <2>1 DEF HasUnit
    <3> QED BY <1>6, <2>1, <3>1 DEF One
  <2>2. CASE /\ to \in Waiting(to) /\ to \notin Waiting(to)'
             /\ box[to] = to /\ Yields(pc[to])
             /\ Free(to)' = Free(to)
    <3>1. HasUnit(to)' /\ ~HasUnit(to)
      BY <1>5, <2>2 DEF HasUnit, Receives, Yields, InYield
    <3> QED BY <1>6, <2>2, <3>1 DEF One
  <2> QED BY <1>0, <2>1, <2>2, MailGiven
<1>9. \A r \in Task : Free(r)' + One(HasUnit(r)')
                       = Free(r) + One(HasUnit(r)) + (IF r = to THEN 1 ELSE 0)
  BY <1>6, <1>7, <1>8 DEF One
<1>10. ASSUME NEW r \in Task PROVE SameUnit(r) \/ (r = to /\ Woken(r))
  <2>1. CASE r # to
    BY <1>1, <1>7, <2>1, MailTypes DEF SameUnit
  <2>2. CASE r = to
    <3>1. CASE to \notin Waiting(to) /\ to \notin Waiting(to)'
      BY <1>5, <2>2, <3>1 DEF HasUnit, SameUnit
    <3>2. CASE to \in Waiting(to) /\ to \notin Waiting(to)' /\ box[to] = to /\ Yields(pc[to])
      BY <1>5, <2>2, <3>2 DEF HasUnit, Woken, Receives, Yields, InYield
    <3> QED BY <1>0, <2>2, <3>1, <3>2, MailGiven
  <2> QED BY <2>1, <2>2
<1> QED BY <1>4, <1>9, <1>10

(* The second section of a send: the message becomes a unit, or the          *)
(* receiver's.                                                               *)
LEMMA SignalMailKeeps ==
    ASSUME IpcClass, IpcInv, NEW t \in Task, SignalMail(t)
    PROVE  /\ IpcInv' /\ fault' = "none" /\ UNCHANGED <<mq, head>>
           /\ \A r \in Task : SameUnit(r) \/ (r = box[t] /\ Woken(r))
<1> DEFINE to == box[t]
<1>1. /\ pc[t] = "ip_signal" /\ fault = "none" /\ fault' = "none"
      /\ pc' = [pc EXCEPT ![t] = "run"] /\ box' = [box EXCEPT ![t] = NoTask]
      /\ UNCHANGED <<mq, head, posting>> /\ to \in Task
  BY DEF SignalMail, At, Goto, IpcInv, MailInv, BoxesFit
<1>2. QueueInv' /\ Gave(to)
  BY <1>1, MailTypes, SignalMailGives DEF IpcInv
<1> HIDE DEF to
<1>3. \A u \in Task : \/ (pc'[u] = pc[u] /\ box'[u] = box[u])
                      \/ (pc[u] = "ip_signal" /\ pc'[u] = "run" /\ box'[u] = NoTask)
  BY <1>1, MailTypes
<1>4. /\ SleepersOwn'
      /\ \A r \in Task : Free(r)' + One(HasUnit(r)')
                          = Free(r) + One(HasUnit(r)) + (IF r = to THEN 1 ELSE 0)
      /\ \A r \in Task : SameUnit(r) \/ (r = to /\ Woken(r))
  BY <1>1, <1>2, <1>3, GivenFits
<1>5. MailTypeOK'
  BY <1>1 DEF IpcInv, MailInv, MailTypeOK
<1>6. BoxesFit'
  BY <1>1, MailTypes DEF IpcInv, MailInv, BoxesFit, Receives, Yields, InYield
<1>7. \A r \in Task : /\ Signallers(r)' = IF r = to THEN Signallers(r) \ {t} ELSE Signallers(r)
                      /\ t \in Signallers(to)
  BY <1>1, MailTypes DEF Signallers, to
<1>8. MailFits'
  <2> SUFFICES ASSUME NEW r \in Task PROVE Accounted(r)'
    BY DEF MailFits
  <2>1. Accounted(r) /\ Free(r) \in Int /\ Free(r)' \in Int
    <3>1. sem_cnt' \in [Sem -> Int]
      BY <1>2 DEF QueueInv, SemaphoreInv, RoundRobinInv, TypeInv, TypeOK, SemaphoreTypeOK
    <3> QED BY <1>1, <3>1, MailTypes DEF IpcInv, MailInv, MailFits, Free
  <2>2. /\ Cardinality(Signallers(r)) \in Nat /\ One(posting = r) \in Nat
        /\ One(HasUnit(r)) \in Nat /\ One(HasUnit(r)') \in Nat
    BY CountSignallers DEF One
  <2>3. Cardinality(Signallers(r)') = Cardinality(Signallers(r)) - (IF r = to THEN 1 ELSE 0)
    <3>1. t \in Signallers(r) =>
            Cardinality(Signallers(r) \ {t}) = Cardinality(Signallers(r)) - 1
      BY CountSignallers
    <3> QED BY <1>7, <2>2, <3>1
  <2>4. Free(r)' + One(HasUnit(r)') = Free(r) + One(HasUnit(r)) + (IF r = to THEN 1 ELSE 0)
    BY <1>4
  <2>5. Len(mq[r]) = Free(r)' + Cardinality(Signallers(r)') + One(posting = r)
                         + One(HasUnit(r)')
    <3>1. Len(mq[r]) = Free(r) + Cardinality(Signallers(r)) + One(posting = r) + One(HasUnit(r))
      BY <2>1 DEF Accounted
    <3> QED BY <2>1, <2>2, <2>3, <2>4, <3>1
  <2> QED BY <1>1, <2>5 DEF Accounted
<1>9. NoEmptyGet'
  BY <1>1 DEF NoEmptyGet
<1> QED BY <1>1, <1>2, <1>4, <1>5, <1>6, <1>8, <1>9 DEF IpcInv, MailInv, to

(* The same in a handler.                                                    *)
LEMMA IsrSignalMailKeeps ==
    ASSUME IpcClass, IpcInv, IsrSignalMail
    PROVE  /\ IpcInv' /\ fault' = "none" /\ UNCHANGED <<mq, head>>
           /\ \A r \in Task : SameUnit(r) \/ (r = posting /\ Woken(r))
<1> DEFINE to == posting
<1>1. /\ to \in Task /\ fault = "none" /\ fault' = "none" /\ posting' = NoTask
      /\ UNCHANGED <<pc, mq, box, head, delays, frame>> /\ IsrSignal(to)
      /\ to \notin HighTasks
  BY IpcAssumption DEF IpcClass, IsrSignalMail, IsrSignal, IpcInv, MailInv, MailTypeOK
<1>2. QueueInv' /\ Gave(to)
  <2>1. Waiting(to) \cap HighTasks = {}
    BY <1>1 DEF IpcInv, MailInv, SleepersOwn, HighTasks
  <2> QED BY <1>1, <2>1, MailTypes, IsrSignalGives DEF IpcInv
<1>3. /\ SleepersOwn'
      /\ \A r \in Task : Free(r)' + One(HasUnit(r)')
                          = Free(r) + One(HasUnit(r)) + (IF r = to THEN 1 ELSE 0)
      /\ \A r \in Task : SameUnit(r) \/ (r = to /\ Woken(r))
  BY <1>1, <1>2, GivenFits
<1>4. MailTypeOK' /\ BoxesFit'
  BY <1>1 DEF IpcInv, MailInv, MailTypeOK, BoxesFit, Yields, InYield, Receives
<1>5. MailFits'
  <2> SUFFICES ASSUME NEW r \in Task PROVE Accounted(r)'
    BY DEF MailFits
  <2>1. Accounted(r) /\ Free(r) \in Int /\ Free(r)' \in Int
    <3>1. sem_cnt' \in [Sem -> Int]
      BY <1>2 DEF QueueInv, SemaphoreInv, RoundRobinInv, TypeInv, TypeOK, SemaphoreTypeOK
    <3> QED BY <1>1, <3>1, MailTypes DEF IpcInv, MailInv, MailFits, Free
  <2>2. /\ Cardinality(Signallers(r)) \in Nat /\ One(HasUnit(r)) \in Nat
        /\ One(HasUnit(r)') \in Nat
    BY CountSignallers DEF One
  <2>3. Signallers(r)' = Signallers(r)
    BY <1>1 DEF Signallers
  <2>4. One(posting = r) = (IF r = to THEN 1 ELSE 0) /\ One(posting' = r) = 0
    BY <1>1, MailTypes DEF One
  <2> HIDE DEF to
  <2>5. Free(r)' + One(HasUnit(r)') = Free(r) + One(HasUnit(r)) + (IF r = to THEN 1 ELSE 0)
    BY <1>3
  <2>6. Len(mq[r]) = Free(r)' + Cardinality(Signallers(r)) + One(posting' = r)
                         + One(HasUnit(r)')
    <3>1. Len(mq[r]) = Free(r) + Cardinality(Signallers(r)) + One(posting = r) + One(HasUnit(r))
      BY <2>1 DEF Accounted
    <3> QED BY <2>1, <2>2, <2>4, <2>5, <3>1
  <2> QED BY <1>1, <2>3, <2>6 DEF Accounted
<1>6. NoEmptyGet'
  BY <1>1 DEF NoEmptyGet
<1> QED BY <1>1, <1>2, <1>3, <1>4, <1>5, <1>6 DEF IpcInv, MailInv

(* pos_get_message up to its wait: it has a unit, or is in the line.         *)
LEMMA GetKeeps ==
    ASSUME IpcClass, IpcInv, NEW t \in Task, GetMessage(t)
    PROVE  /\ IpcInv'
           /\ \A r \in Task \ {t} : SameUnit(r)
           /\ ~HasUnit(t) /\ t \notin Waiting(t) /\ (HasUnit(t)' <=> t \notin Waiting(t)')
           /\ UNCHANGED <<mq, head>> /\ fault = "none" /\ fault' = "none"
<1>1. /\ At(t, "run") /\ cte = t /\ SemWait(t, t, "ip_deq") /\ pc[t] = "run"
      /\ UNCHANGED <<delays, frame, mq, head, posting>> /\ box' = [box EXCEPT ![t] = t]
      /\ status[t] \notin Blocked
  <2>1. At(t, "run")
    BY DEF GetMessage, SemWait
  <2>2. cte = t /\ pc[t] = "run" /\ status[t] \notin Blocked
    BY <2>1, Executing DEF IpcInv, QueueInv, SemaphoreInv, RoundRobinInv, SwitchInv, BlockedInYield, InYield
  <2> QED BY <2>1, <2>2 DEF GetMessage
<1>2. box[t] = NoTask /\ t \in Sem
  BY <1>1, MailTypes DEF IpcInv, MailInv, BoxesFit, Receives, Yields, InYield
<1>3. \A s \in Sem : t \notin Waiting(s)
  BY <1>1 DEF IpcInv, QueueInv, SemaphoreInv, LineInv, WaitersSleep, Blocked
<1>4. /\ QueueInv'
      /\ \/ (Took(t) /\ Goto(t, "ip_deq"))
         \/ (Joined(t) /\ Goto(t, "yield"))
  BY <1>1, <1>2, ReceiveWaits DEF IpcInv
<1>5. fault = "none" /\ fault' = "none"
  BY <1>1 DEF SemWait, GoOn, BeginYield, At
<1>6. /\ \A r \in Sem : Waiting(r)' \subseteq Waiting(r) \cup {t}
      /\ \A r \in Sem \ {t} : Waiting(r)' = Waiting(r) /\ sem_cnt'[r] = sem_cnt[r]
      /\ \/ (pc' = [pc EXCEPT ![t] = "ip_deq"] /\ t \notin Waiting(t)' /\ Free(t)' = Free(t) - 1)
         \/ (pc' = [pc EXCEPT ![t] = "yield"] /\ t \in Waiting(t)' /\ Free(t)' = Free(t))
  <2>1. CASE Took(t) /\ Goto(t, "ip_deq")
    <3>1. \A r \in Sem : Waiting(r)' = Waiting(r)
      BY <1>2, <2>1, TookLines
    <3>2. Free(t)' = Free(t) - 1 /\ \A r \in Sem \ {t} : sem_cnt'[r] = sem_cnt[r]
      BY <1>2, <2>1, MailTypes DEF Took, Free
    <3> QED BY <1>2, <1>3, <2>1, <3>1, <3>2 DEF Goto
  <2>2. CASE Joined(t) /\ Goto(t, "yield")
    <3>1. \A r \in Sem : Waiting(r)' \subseteq Waiting(r) \cup {t}
      BY <1>1, <1>2, <2>2, JoinedLines DEF IpcInv, QueueInv, SemaphoreInv, RoundRobinInv
    <3>2. \A r \in Sem \ {t} : Waiting(r)' = Waiting(r) /\ sem_cnt'[r] = sem_cnt[r]
      BY <1>2, <2>2, MailTypes DEF Joined, Waiting
    <3>3. Free(t)' = Free(t)
      BY <1>2, <2>2, MailTypes DEF Joined, Free
    <3>4. status'[t] = "SEM_WAITING"
      BY <1>1, <2>2 DEF Joined, IpcInv, QueueInv, SemaphoreInv, RoundRobinInv, TypeInv, TypeOK, SchedulerTypeOK
    <3>5. t \in Waiting(t)'
      BY <1>3, <1>4, <3>2, <3>4 DEF QueueInv, SleepersQueue
    <3> QED BY <2>2, <3>1, <3>2, <3>3, <3>5 DEF Goto
  <2> QED BY <1>4, <2>1, <2>2
<1>7. MailTypeOK'
  BY <1>1 DEF IpcInv, MailInv, MailTypeOK
<1>8. BoxesFit'
  BY <1>1, <1>6, MailTypes DEF IpcInv, MailInv, BoxesFit, Receives, Yields, InYield
<1>9. SleepersOwn'
  <2>1. ASSUME NEW s \in Task, NEW u \in Task, u \in Waiting(s)' PROVE u = s /\ box'[s] = s
    <3>1. CASE u = t
      BY <1>1, <1>3, <1>6, <2>1, <3>1, MailTypes
    <3>2. CASE u # t
      BY <1>1, <1>6, <2>1, <3>2, MailTypes DEF IpcInv, MailInv, SleepersOwn
    <3> QED BY <3>1, <3>2
  <2>2. ASSUME NEW u \in Task, NEW s \in Sem, box'[u] = u, Yields(pc'[u]), u \in Waiting(s)'
        PROVE  s = u
    <3>1. CASE u = t
      BY <1>3, <1>6, <2>2, <3>1
    <3>2. CASE u # t
      <4>1. box[u] = u /\ Yields(pc[u]) /\ u \in Waiting(s)
        BY <1>1, <1>6, <2>2, <3>2, MailTypes
      <4> QED BY <4>1 DEF IpcInv, MailInv, SleepersOwn
    <3> QED BY <3>1, <3>2
  <2> QED BY <2>1, <2>2 DEF SleepersOwn, Yields, InYield
<1>10. MailFits'
  <2> SUFFICES ASSUME NEW r \in Task PROVE Accounted(r)'
    BY DEF MailFits
  <2>1. Accounted(r) /\ Free(r) \in Int
    BY <1>5, MailTypes DEF IpcInv, MailInv, MailFits, Free
  <2>2. Signallers(r)' = Signallers(r) /\ Cardinality(Signallers(r)) \in Nat
    <3>1. \A u \in Task : pc'[u] = "ip_signal" /\ box'[u] = r
                         <=> pc[u] = "ip_signal" /\ box[u] = r
      BY <1>1, <1>6, MailTypes
    <3> QED BY <1>2, <3>1, CountSignallers DEF Signallers
  <2>3. CASE r # t
    <3>1. Free(r)' = Free(r)
      BY <1>6, <2>3, MailTypes DEF Free
    <3>2. HasUnit(r)' <=> HasUnit(r)
      BY <1>1, <1>6, <2>3, MailTypes DEF HasUnit, Receives, Yields, InYield
    <3> QED BY <1>1, <2>1, <2>2, <3>1, <3>2 DEF Accounted, One
  <2>4. CASE r = t
    <3>1. ~HasUnit(t)
      BY <1>2, MailTypes DEF HasUnit
    <3>2. CASE pc' = [pc EXCEPT ![t] = "ip_deq"] /\ t \notin Waiting(t)' /\ Free(t)' = Free(t) - 1
      <4>1. HasUnit(t)'
        BY <1>1, <3>2, MailTypes DEF HasUnit, Receives
      <4> QED BY <1>1, <2>1, <2>2, <2>4, <3>1, <3>2, <4>1 DEF Accounted, One
    <3>3. CASE pc' = [pc EXCEPT ![t] = "yield"] /\ t \in Waiting(t)' /\ Free(t)' = Free(t)
      <4>1. ~HasUnit(t)'
        BY <1>1, <3>3, MailTypes DEF HasUnit, Receives
      <4> QED BY <1>1, <2>1, <2>2, <2>4, <3>1, <3>3, <4>1 DEF Accounted, One
    <3> QED BY <1>6, <3>2, <3>3
  <2> QED BY <2>3, <2>4
<1>11. NoEmptyGet'
  BY <1>5 DEF NoEmptyGet
<1>12. \A r \in Task \ {t} : SameUnit(r)
  <2> TAKE r \in Task \ {t}
  <2>1. Waiting(r)' = Waiting(r)
    BY <1>6, MailTypes
  <2>2. HasUnit(r)' <=> HasUnit(r)
    BY <1>1, <1>6, <2>1, MailTypes DEF HasUnit, Receives, Yields, InYield
  <2> QED BY <2>1, <2>2 DEF SameUnit
<1>13. ~HasUnit(t) /\ (HasUnit(t)' <=> t \notin Waiting(t)')
  BY <1>1, <1>2, <1>6, MailTypes DEF HasUnit, Receives, Yields, InYield
<1>14. t \notin Waiting(t)
  BY <1>2, <1>3
<1> QED
  BY <1>1, <1>4, <1>5, <1>7, <1>8, <1>9, <1>10, <1>11, <1>12, <1>13, <1>14 DEF IpcInv, MailInv

(* Whoever comes back from the semaphore has a unit, so there is a message.  *)
LEMMA ReceiverHasMail ==
    ASSUME IpcInv, NEW t \in Task, NEW p \in {"resumed", "ip_deq", "ip_take"}, At(t, p),
           box[t] # NoTask
    PROVE  HasUnit(t) /\ mq[t] # <<>> /\ box[t] = t /\ fault = "none" /\ pc[t] = p
<1>1. fault = "none" /\ pc[t] = p /\ status[t] \notin Blocked
  BY Executing DEF At, IpcInv, QueueInv, SemaphoreInv, RoundRobinInv, SwitchInv, BlockedInYield, InYield
<1>2. box[t] = t
  BY <1>1 DEF IpcInv, MailInv, BoxesFit, Receives, Yields, InYield
<1>3. t \notin Waiting(t)
  BY <1>1, MailTypes DEF IpcInv, QueueInv, SemaphoreInv, LineInv, WaitersSleep, Blocked
<1>4. HasUnit(t)
  BY <1>1, <1>2, <1>3 DEF HasUnit, Receives, Yields
<1>5. mq[t] # <<>>
  <2>1. Accounted(t) /\ Free(t) \in Nat
    BY <1>1, MailTypes DEF IpcInv, MailInv, MailFits, Free
  <2>2. Cardinality(Signallers(t)) \in Nat /\ One(posting = t) \in Nat /\ One(HasUnit(t)) = 1
    BY <1>4, CountSignallers DEF One
  <2>3. Len(mq[t]) # 0
    BY <2>1, <2>2 DEF Accounted
  <2> QED BY <2>3, EmptySeq
<1> QED BY <1>1, <1>2, <1>4, <1>5

(* It takes the message in two more steps.                                   *)
LEMMA ReceiverMoves ==
    ASSUME IpcInv, NEW t \in Task, HasUnit(t), NEW q \in {"ip_deq", "ip_take"},
           pc' = [pc EXCEPT ![t] = q], UNCHANGED <<sem_cnt, sem_q, mq, box, posting, fault>>,
           MailTypeOK', q = "ip_take" => head'[t] # <<>>,
           \A u \in Task \ {t} : head'[u] = head[u]
    PROVE  MailInv' /\ \A r \in Task : SameUnit(r)
<1>1. \A s \in Sem : Waiting(s)' = Waiting(s)
  BY DEF Waiting
<1>2. box[t] = t /\ (Receives(pc[t]) \/ Yields(pc[t])) /\ t \notin Waiting(t) /\ pc \in [Task -> Pc]
  <2>1. Receives(pc[t]) => t \notin Waiting(t)
    <3>1. t \in Waiting(t) => status[t] = "SEM_WAITING"
      BY MailTypes DEF IpcInv, QueueInv, SemaphoreInv, LineInv, WaitersSleep
    <3> QED
      BY <3>1 DEF IpcInv, QueueInv, SemaphoreInv, RoundRobinInv, SwitchInv, BlockedInYield, Blocked,
         InYield, Receives
  <2> QED BY <2>1, MailTypes DEF HasUnit
<1>3. BoxesFit'
  BY <1>2, MailTypes DEF IpcInv, MailInv, BoxesFit, Receives, Yields, InYield
<1>4. SleepersOwn'
  BY <1>1, <1>2, MailTypes DEF IpcInv, MailInv, SleepersOwn, Yields, InYield
<1>5. \A r \in Task : /\ Free(r)' = Free(r) /\ Signallers(r)' = Signallers(r)
                      /\ HasUnit(r)' <=> HasUnit(r)
  <2> TAKE r \in Task
  <2>1. Free(r)' = Free(r)
    BY DEF Free
  <2>2. Signallers(r)' = Signallers(r)
    BY <1>2 DEF Signallers, Receives, Yields, InYield
  <2>3. HasUnit(r)' <=> HasUnit(r)
    BY <1>1, <1>2, MailTypes DEF HasUnit, Receives, Yields, InYield
  <2> QED BY <2>1, <2>2, <2>3
<1>6. MailFits'
  BY <1>5 DEF IpcInv, MailInv, MailFits, Accounted, One
<1>7. NoEmptyGet'
  BY DEF IpcInv, MailInv, NoEmptyGet
<1>8. \A r \in Task : SameUnit(r)
  BY <1>1, <1>5, MailTypes DEF SameUnit
<1> QED BY <1>3, <1>4, <1>6, <1>7, <1>8 DEF MailInv

(* The receiver is back from its wait, with a unit.                          *)
LEMMA ReturnReceivingKeeps ==
    ASSUME IpcClass, IpcInv, NEW t \in Task, ReturnReceiving(t)
    PROVE  IpcInv' /\ \A r \in Task : SameUnit(r)
<1>1. /\ At(t, "resumed") /\ Goto(t, "ip_deq") /\ box[t] # NoTask
      /\ UNCHANGED <<ring, status, globals, elapsed_ticks, os_mode, psp, event, fault>>
      /\ is_sleep_mode' = FALSE /\ ktick' = ktick
      /\ UNCHANGED <<semVars, delays, frame, mq, box, head, posting>>
  BY DEF ReturnReceiving, ReturnFromYield, Receiving, globals, ipcVars, IpcInv, QueueInv, SemaphoreInv,
     RoundRobinInv, TypeInv, TypeOK, SchedulerTypeOK
<1>2. QueueInv'
  <2>1. QueueInv /\ ktick \in BOOLEAN /\ fault \in Fault /\ ~InYield("resumed")
    BY DEF InYield, IpcInv, QueueInv, SemaphoreInv, RoundRobinInv, TypeInv, TypeOK, SchedulerTypeOK
  <2> QED BY <1>1, <2>1, MoveOnKeeps DEF QueueInv
<1>3. MailInv' /\ \A r \in Task : SameUnit(r)
  <2>1. HasUnit(t)
    BY <1>1, ReceiverHasMail
  <2>2. MailTypeOK'
    BY <1>1 DEF IpcInv, MailInv, MailTypeOK
  <2> QED BY <1>1, <2>1, <2>2, ReceiverMoves DEF Goto, semVars
<1> QED BY <1>2, <1>3 DEF IpcInv

(* It reads the head of its list, ahead of the section that unlinks it.      *)
LEMMA ReadMailKeeps ==
    ASSUME IpcClass, IpcInv, NEW t \in Task, ReadMail(t)
    PROVE  /\ IpcInv' /\ \A r \in Task : SameUnit(r)
           /\ HasUnit(t) /\ mq[t] # <<>>
           /\ head' = [head EXCEPT ![t] = mq[t]] /\ UNCHANGED mq
<1>1. /\ At(t, "ip_deq") /\ Goto(t, "ip_take")
      /\ UNCHANGED <<ring, status, globals, elapsed_ticks, os_mode, psp, event, fault>>
      /\ UNCHANGED <<is_sleep_mode, ktick, semVars, delays, frame, mq, box, posting>>
      /\ head' = [head EXCEPT ![t] = mq[box[t]]]
  BY DEF ReadMail, GoOn, schedVars, globals
<1>2. QueueInv'
  <2>1. QueueInv /\ is_sleep_mode \in BOOLEAN /\ ktick \in BOOLEAN /\ fault \in Fault
        /\ ~InYield("ip_deq")
    BY DEF InYield, IpcInv, QueueInv, SemaphoreInv, RoundRobinInv, TypeInv, TypeOK, SchedulerTypeOK
  <2> QED BY <1>1, <2>1, MoveOnKeeps DEF QueueInv
<1>3. HasUnit(t) /\ mq[t] # <<>> /\ box[t] = t
  <2>1. box[t] # NoTask
    BY <1>1, MailTypes DEF At, IpcInv, MailInv, BoxesFit, Receives
  <2> QED BY <1>1, <2>1, ReceiverHasMail
<1>4. MailInv' /\ \A r \in Task : SameUnit(r)
  <2>1. head'[t] # <<>> /\ \A u \in Task \ {t} : head'[u] = head[u]
    BY <1>1, <1>3, MailTypes
  <2>2. MailTypeOK'
    BY <1>1, <1>3, MailTypes DEF IpcInv, MailInv, MailTypeOK
  <2> QED BY <1>1, <1>3, <2>1, <2>2, ReceiverMoves DEF Goto, semVars
<1> QED BY <1>1, <1>2, <1>3, <1>4 DEF IpcInv

(* With the message goes the unit.                                           *)
LEMMA TakeMailKeeps ==
    ASSUME IpcClass, IpcInv, NEW t \in Task, TakeMail(t)
    PROVE  /\ IpcInv'
           /\ \A r \in Task \ {t} : SameUnit(r)
           /\ HasUnit(t) /\ ~HasUnit(t)' /\ t \notin Waiting(t) /\ t \notin Waiting(t)'
           /\ head[t] # <<>> /\ head' = [head EXCEPT ![t] = <<>>]
           /\ mq' = [mq EXCEPT ![t] = Tail(mq[t])]
<1>1. At(t, "ip_take") /\ pc[t] = "ip_take" /\ fault = "none" /\ box[t] = t /\ head[t] # <<>>
  BY DEF TakeMail, At, IpcInv, MailInv, BoxesFit, Receives
<1>2. HasUnit(t) /\ mq[t] # <<>>
  BY <1>1, MailTypes, ReceiverHasMail
<1>3. /\ mq' = [mq EXCEPT ![t] = Tail(mq[t])] /\ fault' = "none"
      /\ box' = [box EXCEPT ![t] = NoTask] /\ head' = [head EXCEPT ![t] = <<>>]
      /\ pc' = [pc EXCEPT ![t] = "run"] /\ UNCHANGED <<sem_cnt, sem_q, posting>>
  BY <1>1 DEF TakeMail, MailTaken, Goto, semVars
<1>4. QueueInv'
  <2>1. /\ Goto(t, "run") /\ ktick' = FALSE
        /\ UNCHANGED <<ring, status, globals, elapsed_ticks, os_mode, psp, event>>
        /\ UNCHANGED <<is_sleep_mode, semVars, delays, frame>> /\ ~InYield("ip_take")
    BY DEF TakeMail, schedVars, globals, InYield
  <2>2. QueueInv /\ is_sleep_mode \in BOOLEAN /\ fault' \in Fault
    BY <1>3 DEF Fault, IpcInv, QueueInv, SemaphoreInv, RoundRobinInv, TypeInv, TypeOK, SchedulerTypeOK
  <2> QED BY <1>1, <2>1, <2>2, MoveOnKeeps DEF QueueInv
<1>5. /\ mq[t] \in Seq(Task \cup {NoTask}) /\ Tail(mq[t]) \in Seq(Task \cup {NoTask})
      /\ Len(mq[t]) \in Nat /\ Len(Tail(mq[t])) = Len(mq[t]) - 1
  BY <1>2, MailTypes, HeadTailProperties, EmptySeq
<1>6. MailTypeOK'
  <2>1. <<>> \in Seq(Task \cup {NoTask})
    OBVIOUS
  <2> QED BY <1>3, <1>5, <2>1 DEF IpcInv, MailInv, MailTypeOK
<1>7. \A s \in Sem : Waiting(s)' = Waiting(s)
  BY <1>3 DEF Waiting
<1>8. BoxesFit'
  BY <1>3, MailTypes DEF IpcInv, MailInv, BoxesFit, Receives, Yields, InYield
<1>9. t \notin Waiting(t)
  <2>1. t \in Waiting(t) => status[t] = "SEM_WAITING"
    BY MailTypes DEF IpcInv, QueueInv, SemaphoreInv, LineInv, WaitersSleep
  <2> QED
    BY <1>1, <2>1 DEF IpcInv, QueueInv, SemaphoreInv, RoundRobinInv, SwitchInv, BlockedInYield, Blocked,
       InYield
<1>10. SleepersOwn'
  <2>1. ASSUME NEW s \in Task, NEW u \in Task, u \in Waiting(s)' PROVE u = s /\ box'[s] = s
    <3>1. u = s /\ box[s] = s /\ s # t
      BY <1>7, <1>9, <2>1, MailTypes DEF IpcInv, MailInv, SleepersOwn
    <3> QED BY <1>3, <3>1, MailTypes
  <2>2. ASSUME NEW u \in Task, NEW s \in Sem, box'[u] = u, Yields(pc'[u]), u \in Waiting(s)'
        PROVE  s = u
    <3>1. box[u] = u /\ Yields(pc[u]) /\ u \in Waiting(s)
      BY <1>3, <1>7, <2>2, MailTypes DEF Yields, InYield
    <3> QED BY <3>1 DEF IpcInv, MailInv, SleepersOwn
  <2> QED BY <2>1, <2>2 DEF SleepersOwn, Yields, InYield
<1>11. MailFits'
  <2> SUFFICES ASSUME NEW r \in Task PROVE Accounted(r)'
    BY DEF MailFits
  <2>1. Accounted(r) /\ Free(r) \in Int /\ Free(r)' = Free(r)
    BY <1>1, <1>3, MailTypes DEF IpcInv, MailInv, MailFits, Free
  <2>2. Signallers(r)' = Signallers(r) /\ Cardinality(Signallers(r)) \in Nat
    <3>1. \A u \in Task : (pc'[u] = "ip_signal" /\ box'[u] = r)
                         <=> (pc[u] = "ip_signal" /\ box[u] = r)
      BY <1>1, <1>3, MailTypes
    <3> QED BY <1>1, <3>1, CountSignallers DEF Signallers
  <2>3. CASE r # t
    <3>1. HasUnit(r)' <=> HasUnit(r)
      BY <1>3, <1>7, <2>3, MailTypes DEF HasUnit, Receives, Yields, InYield
    <3>2. mq'[r] = mq[r]
      BY <1>3, <2>3, MailTypes
    <3> QED BY <1>3, <2>1, <2>2, <3>1, <3>2 DEF Accounted, One
  <2>4. CASE r = t
    <3>1. ~HasUnit(t)'
      BY <1>3, MailTypes DEF HasUnit
    <3>2. Len(mq'[t]) = Len(mq[t]) - 1
      BY <1>3, <1>5, MailTypes
    <3> QED BY <1>2, <1>3, <1>5, <2>1, <2>2, <2>4, <3>1, <3>2 DEF Accounted, One
  <2> QED BY <2>3, <2>4
<1>12. NoEmptyGet'
  BY <1>3 DEF NoEmptyGet
<1>13. \A r \in Task \ {t} : SameUnit(r)
  <2> TAKE r \in Task \ {t}
  <2>1. Waiting(r)' = Waiting(r)
    BY <1>7, MailTypes
  <2>2. HasUnit(r)' <=> HasUnit(r)
    BY <1>3, <2>1, MailTypes DEF HasUnit, Receives, Yields, InYield
  <2> QED BY <2>1, <2>2 DEF SameUnit
<1>14. ~HasUnit(t)' /\ t \notin Waiting(t)'
  BY <1>3, <1>7, <1>9, MailTypes DEF HasUnit
<1> QED
  BY <1>1, <1>2, <1>3, <1>4, <1>6, <1>8, <1>9, <1>10, <1>11, <1>12, <1>13, <1>14 DEF IpcInv, MailInv

(* An interrupt handler has put a message in.                                *)
LEMMA IsrEnqKeeps ==
    ASSUME IpcClass, IpcInv, NEW to \in IsrMails, IsrEnq(to)
    PROVE  IpcInv' /\ \A r \in Task : SameUnit(r)
<1>0. to \in Task /\ cte \in Task
  BY IpcAssumption DEF IpcInv, QueueInv, SemaphoreInv, RoundRobinInv, TypeInv, TypeOK, SchedulerTypeOK
<1>1. /\ posting = NoTask /\ posting' = to /\ fault = "none"
      /\ UNCHANGED <<schedVars, cpuVars, semVars, delays, frame, box, head>>
  BY DEF IsrEnq
<1>2. /\ fault' \in {"none", "low_space"}
      /\ fault' = "none" => mq' = [mq EXCEPT ![to] = Append(@, cte)]
      /\ mq' = mq \/ mq' = [mq EXCEPT ![to] = Append(@, cte)]
  BY <1>1 DEF IsrEnq, EnqSection, MailAdded
<1>3. QueueInv'
  BY <1>1, <1>2, FaultKeeps DEF Fault, IpcInv, QueueInv
<1>4. MailTypeOK'
  <2>1. mq[to] \in Seq(Task \cup {NoTask}) /\ cte \in Task \cup {NoTask}
    BY <1>0, MailTypes
  <2>2. Append(mq[to], cte) \in Seq(Task \cup {NoTask})
    BY <2>1, AppendProperties
  <2> QED BY <1>0, <1>1, <1>2, <2>2 DEF IpcInv, MailInv, MailTypeOK
<1>5. UNCHANGED <<pc, sem_cnt, sem_q>> /\ \A s \in Sem : Waiting(s)' = Waiting(s)
  BY <1>1 DEF cpuVars, semVars, Waiting
<1>6. BoxesFit' /\ SleepersOwn'
  BY <1>1, <1>5, MailTypes
     DEF IpcInv, MailInv, BoxesFit, SleepersOwn, Yields, InYield, Receives
<1>7. MailFits'
  <2> SUFFICES ASSUME fault' = "none", NEW r \in Task PROVE Accounted(r)'
    BY DEF MailFits
  <2>1. Accounted(r) /\ Free(r) \in Int /\ Free(r)' = Free(r)
    BY <1>1, <1>5, MailTypes DEF IpcInv, MailInv, MailFits, Free
  <2>2. Signallers(r)' = Signallers(r) /\ Cardinality(Signallers(r)) \in Nat
    BY <1>1, <1>5, CountSignallers DEF Signallers
  <2>3. HasUnit(r)' <=> HasUnit(r)
    BY <1>1, <1>5, MailTypes DEF HasUnit, Yields, InYield, Receives
  <2>4. Len(mq'[r]) = Len(mq[r]) + (IF r = to THEN 1 ELSE 0)
    BY <1>0, <1>2, MailTypes, LenProperties
  <2>5. One(posting = r) = 0 /\ One(posting' = r) = (IF r = to THEN 1 ELSE 0)
    BY <1>1, MailTypes DEF One
  <2> QED BY <2>1, <2>2, <2>3, <2>4, <2>5 DEF Accounted, One
<1>8. NoEmptyGet'
  BY <1>2 DEF NoEmptyGet
<1>9. \A r \in Task : SameUnit(r)
  <2> TAKE r \in Task
  <2>1. Waiting(r)' = Waiting(r)
    BY <1>5, MailTypes
  <2>2. HasUnit(r)' <=> HasUnit(r)
    BY <1>1, <1>5, <2>1 DEF HasUnit, Yields, InYield, Receives
  <2> QED BY <2>1, <2>2 DEF SameUnit
<1> QED BY <1>3, <1>4, <1>6, <1>7, <1>8, <1>9 DEF IpcInv, MailInv

-----------------------------------------------------------------------------
(* The kernel starts with the startup message of every task, counted.        *)
LEMMA IpcInvInit == IpcInit => IpcInv
<1> SUFFICES ASSUME IpcInit PROVE IpcInv
  OBVIOUS
<1>1. QueueInv
  BY RoundRobinInvInit, LineInvInit, SleepersQueueInit DEF IpcInit, QueueInv, SemaphoreInv
<1>2. /\ mq = [t \in Task |-> <<NoTask>>] /\ box = [t \in Task |-> NoTask]
      /\ head = [t \in Task |-> <<>>] /\ posting = NoTask
      /\ pc = [t \in Task |-> "run"] /\ fault = "none"
      /\ sem_cnt = InitCnt /\ sem_q = [s \in Sem |-> <<>>]
  BY DEF IpcInit, Init, SchedulerInit, SemaphoreInit
<1>3. NoTask \notin Task /\ Task \subseteq Sem /\ \A t \in Task : InitCnt[t] = 1
  BY IpcAssumption DEF NoTask, Task
<1>4. MailTypeOK
  BY <1>2 DEF MailTypeOK
<1>5. BoxesFit
  BY <1>2 DEF BoxesFit, Receives, Yields, InYield
<1>6. \A s \in Sem : Waiting(s) = {}
  <2>1. \A s \in Sem : sem_q[s] = <<>> /\ Len(sem_q[s]) = 0
    BY <1>2, EmptySeq
  <2> QED BY <2>1 DEF Waiting
<1>7. SleepersOwn
  BY <1>3, <1>6 DEF SleepersOwn
<1>8. MailFits
  <2> SUFFICES ASSUME NEW to \in Task PROVE Accounted(to)
    BY DEF MailFits
  <2>1. Signallers(to) = {} /\ Cardinality(Signallers(to)) = 0
    BY <1>2, FS_EmptySet DEF Signallers
  <2>2. ~HasUnit(to) /\ Free(to) = 1 /\ posting # to
    BY <1>2, <1>3 DEF HasUnit, Free
  <2>3. Len(mq[to]) = 1
    BY <1>2
  <2> QED BY <2>1, <2>2, <2>3 DEF Accounted, One
<1>9. NoEmptyGet
  BY <1>2 DEF NoEmptyGet
<1> QED BY <1>1, <1>4, <1>5, <1>7, <1>8, <1>9 DEF IpcInv, MailInv

(* The steps of the kernel.                                                  *)
LEMMA KernelKeeps ==
    ASSUME IpcClass, IpcInv, KernelStep, UNCHANGED ipcVars
    PROVE  IpcInv' /\ \A t \in Task : SameUnit(t)
<1>1. [Next]_vars
  BY DEF KernelStep, Next
<1>2. QueueInv'
  BY <1>1, SemaphoreInvStep DEF IpcClass, IpcInv
<1>3. SparesMail
  BY KernelSparesMail DEF IpcInv
<1>4. MailInv' /\ \A t \in Task : SameUnit(t)
  BY <1>3, KernelKeepsMail
<1> QED BY <1>2, <1>4 DEF IpcInv

(* Every step keeps the invariant.                                           *)
LEMMA IpcInvStep ==
    ASSUME IpcClass
    PROVE  IpcInv /\ [IpcNext]_allVars => IpcInv'
<1> SUFFICES ASSUME IpcInv, [IpcNext]_allVars PROVE IpcInv'
  OBVIOUS
<1>1. ASSUME NEW t \in Task, ThreadStep(t) PROVE IpcInv'
  <2>1. CASE ~(Receiving(t) /\ pc[t] = "resumed") /\ Yielding(t) /\ UNCHANGED ipcVars
    BY <2>1, KernelKeeps DEF KernelStep
  <2>2. CASE ReturnReceiving(t)
    BY <2>2, ReturnReceivingKeeps
  <2>3. CASE ReadMail(t)
    BY <2>3, ReadMailKeeps
  <2>4. CASE TakeMail(t)
    BY <2>4, TakeMailKeeps
  <2>5. CASE SignalMail(t)
    BY <2>5, SignalMailKeeps
  <2> QED BY <1>1, <2>1, <2>2, <2>3, <2>4, <2>5 DEF ThreadStep
<1>2. ASSUME NEW t \in Task, ThreadCall(t) PROVE IpcInv'
  <2>1. ASSUME NEW to \in Mails[t], SendMessage(t, to) PROVE IpcInv'
    BY <2>1, SendKeeps
  <2>2. CASE GetMessage(t)
    BY <2>2, GetKeeps
  <2>3. CASE Call(t) /\ UNCHANGED ipcVars
    BY <2>3, KernelKeeps DEF KernelStep
  <2> QED BY <1>2, <2>1, <2>2, <2>3 DEF ThreadCall
<1>3. ASSUME NEW to \in IsrMails, IsrEnq(to) PROVE IpcInv'
  BY <1>3, IsrEnqKeeps
<1>4. CASE IsrSignalMail
  BY <1>4, IsrSignalMailKeeps
<1>5. CASE Tick \/ Switch \/ Stopped
  BY <1>5, KernelKeeps DEF KernelStep, Tick, Switch, Stopped
<1>6. CASE UNCHANGED allVars
  BY <1>6, KernelKeeps DEF KernelStep, allVars
<1> QED BY <1>1, <1>2, <1>3, <1>4, <1>5, <1>6 DEF IpcNext

(* The invariant holds in every behaviour.                                   *)
LEMMA IpcInvAlways ==
    ASSUME IpcClass
    PROVE  IpcSpec => []IpcInv
  BY IpcInvInit, IpcInvStep, PTL DEF IpcSpec

(* Whoever is between the two critical sections of a send or a receive, in a *)
(* task or in an interrupt handler, the list of a mailbox (pos_ipc_enq,      *)
(* pos_ipc_deq) and the count of its semaphore agree.                        *)
THEOREM CountsMatchMail ==
    ASSUME IpcClass
    PROVE  IpcSpec => []CountMatchesMail
<1>1. IpcInv => CountMatchesMail
  <2> SUFFICES ASSUME IpcInv, fault = "none", NEW to \in Task
               PROVE  Len(mq[to]) = (IF sem_cnt[to] > 0 THEN sem_cnt[to] ELSE 0)
                                        + Signalling(to) + Granted(to)
    BY DEF CountMatchesMail
  <2> DEFINE G == {t \in Task :
                     /\ box[t] = to
                     /\ \/ pc[t] \in {"ip_deq", "ip_take"}
                        \/ (/\ pc[t] \in {"yield", "svc", "wfe", "resumed"}
                            /\ status[t] # "SEM_WAITING")}
  <2>1. Accounted(to)
    BY DEF IpcInv, MailInv, MailFits
  <2>2. Signalling(to) = Cardinality(Signallers(to)) + One(posting = to)
    BY DEF Signalling, Signallers, One
  <2>3. G \subseteq {to}
    BY MailTypes DEF IpcInv, MailInv, BoxesFit, Receives, Yields, InYield
  <2>4. to \in G <=> HasUnit(to)
    <3>1. box[to] = to /\ Yields(pc[to]) => (status[to] = "SEM_WAITING" <=> to \in Waiting(to))
      BY MailTypes DEF IpcInv, QueueInv, SemaphoreInv, LineInv, WaitersSleep, SleepersQueue,
         MailInv, SleepersOwn
    <3> QED BY <3>1 DEF HasUnit, Receives, Yields, InYield
  <2>5. Cardinality(G) = One(HasUnit(to))
    <3>1. CASE to \in G
      <4>1. G = {to}
        BY <2>3, <3>1
      <4> HIDE DEF G
      <4> QED BY <2>4, <3>1, <4>1, FS_Singleton DEF One
    <3>2. CASE to \notin G
      <4>1. G = {}
        BY <2>3, <3>2
      <4> HIDE DEF G
      <4> QED BY <2>4, <3>2, <4>1, FS_EmptySet DEF One
    <3> QED BY <3>1, <3>2
  <2>6. Granted(to) = Cardinality(G)
    BY DEF Granted
  <2>7. Cardinality(Signallers(to)) \in Nat /\ One(posting = to) \in Nat
        /\ One(HasUnit(to)) \in Nat /\ Free(to) \in Nat
    <3>1. Cardinality(Signallers(to)) \in Nat
      BY CountSignallers
    <3>2. to \in Sem /\ sem_cnt \in [Sem -> Int]
      BY MailTypes
    <3>3. Free(to) \in Nat
      BY <3>2 DEF Free
    <3> QED BY <3>1, <3>3 DEF One
  <2> HIDE DEF G
  <2>8. Len(mq[to]) = Free(to) + Signalling(to) + Granted(to)
    BY <2>1, <2>2, <2>5, <2>6, <2>7 DEF Accounted
  <2> QED BY <2>8 DEF Free
<1> QED BY <1>1, IpcInvAlways, PTL

(* pos_get_message comes back from the semaphore to a message, never to an   *)
(* empty list (pos_ipc.c:106), however sends and receives interleave.        *)
THEOREM MessageIsThere ==
    ASSUME IpcClass
    PROVE  IpcSpec => []NoEmptyGet
<1>1. IpcInv => NoEmptyGet
  BY DEF IpcInv, MailInv
<1> QED BY <1>1, IpcInvAlways, PTL

(* The sends and receives leave the switches sound, those of interrupt       *)
(* handlers included: PendSV saves the task that really runs.                *)
THEOREM MailSwitchesAreSound ==
    ASSUME IpcClass
    PROVE  IpcSpec => []SwitchFromRunning
<1>1. IpcInv => SwitchFromRunning
  BY DEF IpcInv, QueueInv, SemaphoreInv, RoundRobinInv, SwitchInv, GlobalsFit
<1> QED BY <1>1, IpcInvAlways, PTL

(* The variables of the mailboxes and of the kernel beneath them keep their  *)
(* types: pos_ipc_enq and pos_ipc_deq leave lists of messages.               *)
THEOREM MailTypeCorrect ==
    ASSUME IpcClass
    PROVE  IpcSpec => []IpcTypeOK
<1>1. IpcInv => IpcTypeOK
  BY IpcAssumption
     DEF IpcInv, QueueInv, SemaphoreInv, RoundRobinInv, TypeInv, MailInv, MailTypeOK, IpcTypeOK
<1> QED BY <1>1, IpcInvAlways, PTL

-----------------------------------------------------------------------------
(* The refinement of MailboxSpec.                                            *)

sleepers == {t \in Task : Receiving(t) /\ status[t] = "SEM_WAITING"}
admitted == {t \in Task : Receiving(t) /\ pc[t] # "ip_signal" /\ status[t] # "SEM_WAITING"}
letters == [t \in Task |-> IF head[t] = <<>> THEN <<>> ELSE <<Head(head[t])>>]

(* What a receiver has read is the oldest message until it takes it: others  *)
(* only append.                                                              *)
LettersFit ==
    \A t \in Task : head[t] # <<>> => mq[t] # <<>> /\ Head(mq[t]) = Head(head[t])

DeliveryInv == IpcInv /\ LettersFit

(* Asleep is who is in the line of its mailbox, admitted who has a unit.     *)
LEMMA ReceiversByLines ==
    IpcInv => /\ \A t \in Task : t \in sleepers <=> t \in Waiting(t)
              /\ \A t \in Task : t \in admitted <=> HasUnit(t)
<1> SUFFICES ASSUME IpcInv, NEW t \in Task
             PROVE  /\ t \in sleepers <=> t \in Waiting(t)
                    /\ t \in admitted <=> HasUnit(t)
  OBVIOUS
<1>1. t \in Sem /\ t # NoTask
  BY MailTypes
<1>2. t \in Waiting(t) => status[t] = "SEM_WAITING" /\ box[t] = t
  BY <1>1 DEF IpcInv, QueueInv, SemaphoreInv, LineInv, WaitersSleep, MailInv, SleepersOwn
<1>3. status[t] = "SEM_WAITING" => Yields(pc[t])
  BY DEF IpcInv, QueueInv, SemaphoreInv, RoundRobinInv, SwitchInv, BlockedInYield, Blocked, Yields
<1>4. status[t] = "SEM_WAITING" /\ box[t] # NoTask => t \in Waiting(t)
  <2> SUFFICES ASSUME status[t] = "SEM_WAITING", box[t] # NoTask PROVE t \in Waiting(t)
    OBVIOUS
  <2>1. PICK s \in Sem : t \in Waiting(s)
    BY DEF IpcInv, QueueInv, SleepersQueue
  <2>2. box[t] = t /\ Yields(pc[t])
    BY <1>3 DEF IpcInv, MailInv, BoxesFit
  <2> QED BY <2>1, <2>2 DEF IpcInv, MailInv, SleepersOwn
<1>5. t \in sleepers <=> t \in Waiting(t)
  BY <1>1, <1>2, <1>4 DEF sleepers, Receiving
<1>6. t \in admitted <=> HasUnit(t)
  <2>1. ASSUME t \in admitted PROVE HasUnit(t)
    <3>1. box[t] # NoTask /\ pc[t] # "ip_signal" /\ t \notin Waiting(t)
      BY <1>2, <2>1 DEF admitted, Receiving
    <3>2. (Receives(pc[t]) \/ Yields(pc[t])) /\ box[t] = t
      BY <3>1 DEF IpcInv, MailInv, BoxesFit
    <3> QED BY <3>1, <3>2 DEF HasUnit
  <2>2. ASSUME HasUnit(t) PROVE t \in admitted
    <3>1. box[t] = t /\ (Receives(pc[t]) \/ (Yields(pc[t]) /\ t \notin Waiting(t)))
      BY <2>2 DEF HasUnit
    <3>2. pc[t] # "ip_signal"
      BY <3>1 DEF Receives, Yields, InYield
    <3>3. status[t] # "SEM_WAITING"
      BY <1>1, <1>3, <1>4, <3>1 DEF Receives, Yields, InYield
    <3> QED BY <1>1, <3>1, <3>2, <3>3 DEF admitted, Receiving
  <2> QED BY <2>1, <2>2
<1> QED BY <1>5, <1>6

(* A unit stands for a message.                                              *)
LEMMA UnitHasMail ==
    IpcInv => \A t \in Task : fault = "none" /\ HasUnit(t) => mq[t] # <<>>
<1> SUFFICES ASSUME IpcInv, NEW t \in Task, fault = "none", HasUnit(t) PROVE mq[t] # <<>>
  OBVIOUS
<1>1. Accounted(t) /\ Free(t) \in Nat
  BY MailTypes DEF IpcInv, MailInv, MailFits, Free
<1>2. Cardinality(Signallers(t)) \in Nat /\ One(posting = t) \in Nat /\ One(HasUnit(t)) = 1
  BY CountSignallers DEF One
<1>3. Len(mq[t]) = Free(t) + Cardinality(Signallers(t)) + One(posting = t) + One(HasUnit(t))
  BY <1>1 DEF Accounted
<1>4. Len(mq[t]) # 0
  BY <1>1, <1>2, <1>3
<1> QED BY <1>4, EmptySeq

(* The same of a step.                                                       *)
LEMMA ReceiversStep ==
    ASSUME IpcInv, IpcInv'
    PROVE  /\ \A t \in Task : /\ (t \in sleepers) <=> (t \in Waiting(t))
                              /\ (t \in sleepers') <=> (t \in Waiting(t)')
                              /\ (t \in admitted) <=> HasUnit(t)
                              /\ (t \in admitted') <=> HasUnit(t)'
           /\ \A t \in Task : fault' = "none" /\ HasUnit(t)' => mq'[t] # <<>>
           /\ sleepers \subseteq Task /\ sleepers' \subseteq Task
           /\ admitted \subseteq Task /\ admitted' \subseteq Task
<1>1. /\ (\A t \in Task : t \in sleepers <=> t \in Waiting(t))'
      /\ (\A t \in Task : t \in admitted <=> HasUnit(t))'
  BY ReceiversByLines, PTL
<1>2. (\A t \in Task : fault = "none" /\ HasUnit(t) => mq[t] # <<>>)'
  BY UnitHasMail, PTL
<1>3. /\ sleepers \subseteq Task /\ sleepers' \subseteq Task
      /\ admitted \subseteq Task /\ admitted' \subseteq Task
  BY DEF sleepers, admitted
<1> QED BY <1>1, <1>2, <1>3, ReceiversByLines

(* A step that leaves lists and receivers alone is none of MailboxSpec.      *)
LEMMA QuietDelivers ==
    ASSUME IpcInv, LettersFit, IpcInv', UNCHANGED <<mq, head>>,
           \A r \in Task : SameUnit(r)
    PROVE  LettersFit' /\ UNCHANGED Mail!mailVars
<1>1. sleepers' = sleepers /\ admitted' = admitted
  BY ReceiversStep DEF SameUnit
<1>2. letters' = letters
  BY DEF letters
<1>3. LettersFit'
  BY DEF LettersFit
<1> QED BY <1>1, <1>2, <1>3 DEF Mail!mailVars, sleepers, admitted, letters

(* A signal admits the one it wakes.                                         *)
LEMMA SignalDelivers ==
    ASSUME IpcInv, LettersFit, IpcInv', NEW to, UNCHANGED <<mq, head>>, fault' = "none",
           \A r \in Task : SameUnit(r) \/ (r = to /\ Woken(r))
    PROVE  LettersFit' /\ [Mail!Next]_(Mail!mailVars)
<1>1. CASE \A r \in Task : SameUnit(r)
  BY <1>1, QuietDelivers
<1>2. CASE to \in Task /\ Woken(to)
  <2>1. mq[to] # <<>>
    BY <1>2, ReceiversStep DEF Woken
  <2>2. admitted' = admitted \cup {to} /\ to \notin admitted
    BY <1>2, ReceiversStep DEF Woken, SameUnit
  <2>3. sleepers' = sleepers \ {to}
    BY <1>2, ReceiversStep DEF Woken, SameUnit
  <2>4. letters' = letters /\ LettersFit'
    BY DEF letters, LettersFit
  <2>5. Mail!Admit(to)
    BY <2>1, <2>2, <2>3, <2>4 DEF Mail!Admit, sleepers, admitted, letters
  <2> QED BY <1>2, <2>4, <2>5 DEF Mail!Next
<1> QED BY <1>1, <1>2

(* pos_get_message is admitted at once or sleeps.                            *)
LEMMA GetDelivers ==
    ASSUME IpcClass, IpcInv, LettersFit, NEW t \in Task, GetMessage(t)
    PROVE  LettersFit' /\ Mail!Next
<1>1. /\ IpcInv'
      /\ \A r \in Task \ {t} : SameUnit(r)
      /\ ~HasUnit(t) /\ t \notin Waiting(t) /\ (HasUnit(t)' <=> t \notin Waiting(t)')
      /\ UNCHANGED <<mq, head>> /\ fault = "none" /\ fault' = "none"
  BY GetKeeps
<1>2. letters' = letters /\ LettersFit'
  BY <1>1 DEF letters, LettersFit
<1>3. CASE HasUnit(t)'
  <2>1. mq[t] # <<>>
    BY <1>1, <1>3, ReceiversStep
  <2>2. admitted' = admitted \cup {t} /\ t \notin admitted
    BY <1>1, <1>3, ReceiversStep DEF SameUnit
  <2>3. sleepers' = sleepers \ {t}
    BY <1>1, <1>3, ReceiversStep DEF SameUnit
  <2>4. Mail!Admit(t)
    BY <1>1, <1>2, <2>1, <2>2, <2>3 DEF Mail!Admit, sleepers, admitted, letters
  <2> QED BY <1>2, <2>4 DEF Mail!Next
<1>4. CASE ~HasUnit(t)'
  <2>1. admitted' = admitted /\ t \notin admitted
    BY <1>1, <1>4, ReceiversStep DEF SameUnit
  <2>2. sleepers' = sleepers \cup {t} /\ t \notin sleepers
    BY <1>1, <1>4, ReceiversStep DEF SameUnit
  <2>3. Mail!Sleep(t)
    BY <1>1, <1>2, <2>1, <2>2 DEF Mail!Sleep, sleepers, admitted, letters
  <2> QED BY <1>2, <2>3 DEF Mail!Next
<1> QED BY <1>3, <1>4

(* The first section of a send, of a task or of a handler, posts a message,  *)
(* or the kernel stops at a full mailbox.                                    *)
LEMMA SectionDelivers ==
    ASSUME IpcInv, LettersFit, IpcInv', NEW to \in Task, EnqSection(to), UNCHANGED head,
           \A r \in Task : SameUnit(r)
    PROVE  LettersFit' /\ [Mail!Next]_(Mail!mailVars)
<1>1. CASE Full(to)
  BY <1>1, QuietDelivers DEF EnqSection
<1>2. CASE ~Full(to)
  <2>1. mq' = [mq EXCEPT ![to] = Append(@, cte)]
    BY <1>2 DEF EnqSection, MailAdded
  <2>2. cte \in Task /\ mq[to] \in Seq(Task \cup {NoTask})
    BY MailTypes DEF IpcInv, QueueInv, SemaphoreInv, RoundRobinInv, TypeInv, TypeOK, SchedulerTypeOK
  <2>3. Len(mq[to]) < MAX_IPC_MESSAGES_NUM
    BY <1>2, <2>2, IpcAssumption, LenProperties DEF Full
  <2>4. sleepers' = sleepers /\ admitted' = admitted
    BY ReceiversStep DEF SameUnit
  <2>5. letters' = letters
    BY DEF letters
  <2>6. Mail!Post(to, cte)
    BY <2>1, <2>3, <2>4, <2>5 DEF Mail!Post, sleepers, admitted, letters
  <2>7. LettersFit'
    <3> SUFFICES ASSUME NEW t \in Task, head[t] # <<>>
                 PROVE  mq'[t] # <<>> /\ Head(mq'[t]) = Head(head[t])
      BY DEF LettersFit
    <3>1. mq[t] # <<>> /\ Head(mq[t]) = Head(head[t])
      BY DEF LettersFit
    <3>2. CASE t = to
      <4>1. mq'[t] = Append(mq[t], cte) /\ mq[t] \in Seq(Task \cup {NoTask})
        BY <2>1, <2>2, <3>2, MailTypes
      <4>2. Len(mq[t]) \in Nat \ {0} /\ Head(mq[t]) = mq[t][1]
        BY <3>1, <4>1, EmptySeq, HeadTailProperties
      <4>3. /\ Append(mq[t], cte) \in Seq(Task \cup {NoTask})
            /\ Len(Append(mq[t], cte)) = Len(mq[t]) + 1
            /\ Append(mq[t], cte)[1] = mq[t][1]
        BY <2>2, <4>1, <4>2, AppendProperties
      <4>4. Append(mq[t], cte) # <<>> /\ Head(Append(mq[t], cte)) = Append(mq[t], cte)[1]
        BY <4>2, <4>3, EmptySeq, HeadTailProperties
      <4> QED BY <3>1, <4>1, <4>2, <4>3, <4>4
    <3>3. CASE t # to
      BY <2>1, <3>1, <3>3, MailTypes
    <3> QED BY <3>2, <3>3
  <2> QED BY <2>2, <2>6, <2>7 DEF Mail!Next
<1> QED BY <1>1, <1>2

(* pos_ipc_deq reads the oldest message ...                                  *)
LEMMA ReadDelivers ==
    ASSUME IpcClass, IpcInv, LettersFit, NEW t \in Task, ReadMail(t)
    PROVE  LettersFit' /\ Mail!Next
<1>1. /\ IpcInv' /\ \A r \in Task : SameUnit(r)
      /\ HasUnit(t) /\ mq[t] # <<>>
      /\ head' = [head EXCEPT ![t] = mq[t]] /\ UNCHANGED mq
  BY ReadMailKeeps
<1>2. sleepers' = sleepers /\ admitted' = admitted /\ t \in admitted
  BY <1>1, ReceiversStep DEF SameUnit
<1>3. letters' = [letters EXCEPT ![t] = <<Head(mq[t])>>]
  BY <1>1, MailTypes DEF letters
<1>4. Mail!Read(t)
  BY <1>1, <1>2, <1>3 DEF Mail!Read, sleepers, admitted, letters
<1>5. LettersFit'
  BY <1>1, MailTypes DEF LettersFit
<1> QED BY <1>4, <1>5 DEF Mail!Next

(* ... and unlinks the one it read.                                          *)
LEMMA TakeDelivers ==
    ASSUME IpcClass, IpcInv, LettersFit, NEW t \in Task, TakeMail(t)
    PROVE  LettersFit' /\ Mail!Next
<1>1. /\ IpcInv'
      /\ \A r \in Task \ {t} : SameUnit(r)
      /\ HasUnit(t) /\ ~HasUnit(t)' /\ t \notin Waiting(t) /\ t \notin Waiting(t)'
      /\ head[t] # <<>> /\ head' = [head EXCEPT ![t] = <<>>]
      /\ mq' = [mq EXCEPT ![t] = Tail(mq[t])]
  BY TakeMailKeeps
<1>2. admitted' = admitted \ {t} /\ t \in admitted
  BY <1>1, ReceiversStep DEF SameUnit
<1>3. sleepers' = sleepers
  BY <1>1, ReceiversStep DEF SameUnit
<1>4. letters' = [letters EXCEPT ![t] = <<>>]
  BY <1>1, MailTypes DEF letters
<1>5. letters[t] = <<Head(mq[t])>>
  BY <1>1 DEF letters, LettersFit
<1>6. Mail!HandOver(t)
  BY <1>1, <1>2, <1>3, <1>4, <1>5 DEF Mail!HandOver, sleepers, admitted, letters
<1>7. LettersFit'
  BY <1>1, MailTypes DEF LettersFit
<1> QED BY <1>6, <1>7 DEF Mail!Next

(* Every task starts with its startup message.                               *)
LEMMA DeliveryInit == IpcInit => DeliveryInv /\ Mail!Init
<1> SUFFICES ASSUME IpcInit PROVE DeliveryInv /\ Mail!Init
  OBVIOUS
<1>1. /\ mq = [t \in Task |-> <<NoTask>>] /\ box = [t \in Task |-> NoTask]
      /\ head = [t \in Task |-> <<>>]
  BY DEF IpcInit
<1>2. DeliveryInv
  BY <1>1, IpcInvInit DEF DeliveryInv, LettersFit
<1>3. sleepers = {} /\ admitted = {}
  BY <1>1 DEF sleepers, admitted, Receiving
<1>4. letters = [t \in Task |-> <<>>]
  BY <1>1 DEF letters
<1> QED BY <1>1, <1>2, <1>3, <1>4 DEF Mail!Init, sleepers, admitted, letters

(* Every step is one of MailboxSpec or none.                                 *)
LEMMA DeliveryStep ==
    ASSUME IpcClass
    PROVE  DeliveryInv /\ [IpcNext]_allVars
               => DeliveryInv' /\ [Mail!Next]_(Mail!mailVars)
<1> SUFFICES ASSUME IpcInv, LettersFit, [IpcNext]_allVars
             PROVE  LettersFit' /\ [Mail!Next]_(Mail!mailVars)
  BY IpcInvStep DEF DeliveryInv
<1> DEFINE Delivered == LettersFit' /\ [Mail!Next]_(Mail!mailVars)
<1>1. ASSUME KernelStep, UNCHANGED ipcVars PROVE Delivered
  <2>1. UNCHANGED <<mq, head>>
    BY <1>1 DEF ipcVars
  <2> QED BY <1>1, <2>1, KernelKeeps, QuietDelivers
<1>2. ASSUME NEW t \in Task, ThreadStep(t) PROVE Delivered
  <2>1. CASE ~(Receiving(t) /\ pc[t] = "resumed") /\ Yielding(t) /\ UNCHANGED ipcVars
    BY <1>1, <2>1 DEF KernelStep
  <2>2. CASE ReturnReceiving(t)
    <3>1. UNCHANGED <<mq, head>>
      BY <2>2 DEF ReturnReceiving, ipcVars
    <3> QED BY <2>2, <3>1, ReturnReceivingKeeps, QuietDelivers
  <2>3. CASE ReadMail(t)
    BY <2>3, ReadDelivers
  <2>4. CASE TakeMail(t)
    BY <2>4, TakeDelivers
  <2>5. CASE SignalMail(t)
    BY <2>5, SignalMailKeeps, SignalDelivers
  <2> QED BY <1>2, <2>1, <2>2, <2>3, <2>4, <2>5 DEF ThreadStep
<1>3. ASSUME NEW t \in Task, ThreadCall(t) PROVE Delivered
  <2>1. ASSUME NEW to \in Mails[t], SendMessage(t, to) PROVE Delivered
    <3>1. to \in Task /\ EnqSection(to) /\ UNCHANGED head
      BY <2>1, IpcAssumption DEF SendMessage
    <3> QED BY <2>1, <3>1, SendKeeps, SectionDelivers
  <2>2. CASE GetMessage(t)
    BY <2>2, GetDelivers
  <2>3. CASE Call(t) /\ UNCHANGED ipcVars
    BY <1>1, <2>3 DEF KernelStep
  <2> QED BY <1>3, <2>1, <2>2, <2>3 DEF ThreadCall
<1>4. ASSUME NEW to \in IsrMails, IsrEnq(to) PROVE Delivered
  <2>1. to \in Task /\ EnqSection(to) /\ UNCHANGED head
    BY <1>4, IpcAssumption DEF IsrEnq
  <2> QED BY <1>4, <2>1, IsrEnqKeeps, SectionDelivers
<1>5. CASE IsrSignalMail
  BY <1>5, IsrSignalMailKeeps, SignalDelivers
<1>6. CASE Tick \/ Switch \/ Stopped
  BY <1>1, <1>6 DEF KernelStep, Tick, Switch, Stopped
<1>7. CASE UNCHANGED allVars
  BY <1>1, <1>7 DEF KernelStep, allVars
<1> QED BY <1>2, <1>3, <1>4, <1>5, <1>6, <1>7 DEF IpcNext

(* pos_send_message and pos_get_message implement MailboxSpec for every such *)
(* program: what was accepted is handed over once and in its order, and only *)
(* a message lets a receiver through, wherever tasks, ticks and handlers     *)
(* come between the critical sections.                                       *)
THEOREM MailboxesKeepPromise ==
    ASSUME IpcClass
    PROVE  IpcSpec => KeepsMailPromise
  BY DeliveryInit, DeliveryStep, PTL DEF IpcSpec, KeepsMailPromise, Mail!Spec

(* No message is left with a sleeping receiver: whoever sleeps in            *)
(* pos_get_message over mail will be woken by a pos_send_message that has    *)
(* yet to signal, in a task or in the interrupt handler.  It is the safety   *)
(* part of MailWakes.                                                        *)
THEOREM SleepersHaveSenders ==
    ASSUME IpcClass
    PROVE  IpcSpec =>
             [](\A t \in Task :
                  (/\ fault = "none" /\ mq[t] # <<>>
                   /\ Receiving(t) /\ status[t] = "SEM_WAITING")
                    => \/ posting = t
                       \/ \E u \in Task : pc[u] = "ip_signal" /\ box[u] = t)
<1>1. IpcInv =>
        \A t \in Task :
          (/\ fault = "none" /\ mq[t] # <<>>
           /\ Receiving(t) /\ status[t] = "SEM_WAITING")
            => \/ posting = t
               \/ \E u \in Task : pc[u] = "ip_signal" /\ box[u] = t
  <2> SUFFICES ASSUME IpcInv, NEW t \in Task, fault = "none", mq[t] # <<>>,
                      t \in sleepers, posting # t
               PROVE  \E u \in Task : pc[u] = "ip_signal" /\ box[u] = t
    BY DEF sleepers
  <2>1. t \in Waiting(t) /\ t \in Sem
    BY ReceiversByLines, MailTypes
  <2>2. ~HasUnit(t)
    <3>1. t \notin admitted
      BY DEF sleepers, admitted
    <3> QED BY <3>1, ReceiversByLines
  <2>3. Free(t) = 0
    <3>1. Len(sem_q[t]) # 0 /\ Len(sem_q[t]) = LineLength(sem_cnt[t])
      BY <2>1 DEF Waiting, IpcInv, QueueInv, SemaphoreInv, LineInv, LinesFit
    <3> QED BY <2>1, <3>1, MailTypes DEF LineLength, Free
  <2>4. Len(mq[t]) = Free(t) + Cardinality(Signallers(t)) + One(posting = t) + One(HasUnit(t))
    BY DEF IpcInv, MailInv, MailFits, Accounted
  <2>5. One(posting = t) = 0 /\ One(HasUnit(t)) = 0 /\ Cardinality(Signallers(t)) \in Nat
    BY <2>2, CountSignallers DEF One
  <2>6. Len(mq[t]) \in Nat /\ Len(mq[t]) # 0
    BY MailTypes, EmptySeq, LenProperties
  <2>7. Cardinality(Signallers(t)) # 0
    BY <2>3, <2>4, <2>5, <2>6
  <2>8. Signallers(t) # {}
    BY <2>7, FS_EmptySet
  <2> QED BY <2>8 DEF Signallers
<1> QED BY <1>1, IpcInvAlways, PTL
=============================================================================
