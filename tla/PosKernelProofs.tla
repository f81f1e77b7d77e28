----------------------------- MODULE PosKernelProofs -----------------------------
(*****************************************************************************)
(* Theorems about PosKernel for every number of tasks.                       *)
(*                                                                           *)
(*   I    every program: types, at most one ACTIVE task, the caller is the   *)
(*        current task; finished tasks                                       *)
(*   II   programs whose HIGH tasks are woken by tasks and whose tasks do    *)
(*        not finish: the switches                                           *)
(*   III  and without timed waits: semaphores, refinement of SemaphoreSpec   *)
(*   IV   the same: the delay list                                           *)
(*   V    steps of the components on top                                     *)
(*****************************************************************************)
EXTENDS PosKernel, CommonLemmas, SequenceTheorems, TLAPS

-----------------------------------------------------------------------------
(* I. Every program.                                                         *)

(* Facts about the operators the model is built from.                        *)

(* The scheduler's walk ends at a ready task.                                *)
LEMMA NextReadyIsReady ==
    ASSUME NEW p \in Task, NEW ready \in SUBSET Task, ready # {}
    PROVE  NextReady(p, ready) \in ready
<1> DEFINE S == {Hops(p, q) : q \in ready}
<1>1. \A q \in ready : Hops(p, q) \in Nat
  BY TasksAssumption DEF Hops, Task
<1>2. S \in SUBSET Nat /\ S # {}
  BY <1>1
<1>3. PICK m \in S : \A k \in S : m <= k
  BY <1>2, LeastNumber
<1>4. \E q \in ready : \A r \in ready : Hops(p, q) <= Hops(p, r)
  BY <1>3
<1> QED BY <1>4 DEF NextReady

(* A quantum is at least two ticks.                                          *)
LEMMA QuantumValue ==
    ASSUME NEW p \in Priority
    PROVE  Quantum(p) \in Nat /\ Quantum(p) >= 2
  BY MeanAssumption DEF Quantum, Priority

(* Only the task switched to can become ACTIVE, and the one switched from    *)
(* stays ACTIVE only if it is the same.                                      *)
LEMMA SwitchStatusValue ==
    ASSUME NEW st \in [Task -> Status], NEW from \in Task, NEW to \in Task
    PROVE  /\ SwitchStatus(st, from, to) \in [Task -> Status]
           /\ \A t \in Task : SwitchStatus(st, from, to)[t] = "ACTIVE"
                  => t = to \/ (t # from /\ st[t] = "ACTIVE")
  BY DEF SwitchStatus, Status

-----------------------------------------------------------------------------
(* The lists of semaphores and delays.                                       *)

(* pos_semaphore_deq leaves a list of tasks.                                 *)
LEMMA DeqQueueType ==
    ASSUME NEW q \in Seq(Task), NEW c \in Int
    PROVE  DeqQueue(q, c) \in Seq(Task)
  BY HeadTailProperties DEF DeqQueue

(* pos_semaphore_deq leaves every task with a status, makes none ACTIVE and  *)
(* reports a task of its list, if any.                                       *)
LEMMA DeqStatusType ==
    ASSUME NEW q \in Seq(Task), NEW st \in [Task -> Status]
    PROVE  /\ DeqStatus(q, st) \in [Task -> Status]
           /\ \A t \in Task : DeqStatus(q, st)[t] = "ACTIVE" => st[t] = "ACTIVE"
           /\ DeqPid(q) \in Task \cup {NoTask}
           /\ DeqPid(q) # NoTask => q # <<>>
<1>1. CASE q = <<>>
  BY <1>1 DEF DeqStatus, DeqPid, NoTask
<1>2. CASE q # <<>>
  <2>1. Head(q) \in Task
    BY <1>2, HeadTailProperties
  <2> QED BY <1>2, <2>1 DEF DeqStatus, DeqPid, Status
<1> QED BY <1>1, <1>2

(* pos_delay_add leaves every entry where it is, or one place behind.        *)
LEMMA DelayAddPlaces ==
    ASSUME NEW list \in Seq(Entry), NEW pid \in Task, NEW time \in Nat
    PROVE  /\ DelayAdd(list, pid, time) \in Seq(Entry)
           /\ Len(DelayAdd(list, pid, time)) = Len(list) + 1
           /\ \E at \in 1 .. Len(list) + 1 :
                  \A k \in 1 .. Len(list) + 1 :
                      DelayAdd(list, pid, time)[k] =
                          IF k < at THEN list[k]
                          ELSE IF k = at THEN [pid |-> pid, left |-> time]
                          ELSE list[k - 1]
<1> DEFINE stops == {i \in 1 .. Len(list) : ~Before(list[i].left, time)}
           at == IF stops = {} THEN Len(list) + 1
                 ELSE CHOOSE i \in stops : \A j \in stops : i <= j
           e == [pid |-> pid, left |-> time]
<1>1. Len(list) \in Nat /\ stops \in SUBSET Nat
  BY LenProperties
<1>2. stops # {} => at \in stops
  BY <1>1, LeastNumber
<1>3. at \in 1 .. Len(list) + 1
  BY <1>1, <1>2
<1>4. e \in Entry
  BY DEF Entry
<1>5. DelayAdd(list, pid, time) = Inserted(list, at, e)
  BY DEF DelayAdd, InsertAt, Inserted
<1> HIDE DEF at, stops
<1> QED BY <1>3, <1>4, <1>5, InsertedPlaces

(* The pointers of pos_delay_remove point at elements of the list.           *)
LEMMA PointersPoint ==
    ASSUME NEW list \in Seq(Entry)
    PROVE  /\ HeadPtr(list) \in Pointer
           /\ \A ptr : Listed(list, ptr) =>
                 /\ PlaceOf(list, ptr) \in 1 .. Len(list)
                 /\ list[PlaceOf(list, ptr)].pid = ptr
                 /\ NextPtr(list, ptr) \in Pointer
<1>1. Len(list) \in Nat /\ \A i \in 1 .. Len(list) : list[i] \in Entry
  BY LenProperties
<1>2. \A i \in 1 .. Len(list) : list[i].pid \in Task
  BY <1>1 DEF Entry
<1>3. HeadPtr(list) \in Pointer
  <2>1. list # <<>> => 1 \in 1 .. Len(list)
    BY <1>1, EmptySeq
  <2> QED BY <1>2, <2>1 DEF HeadPtr, Pointer
<1>4. ASSUME NEW ptr, Listed(list, ptr)
      PROVE  /\ PlaceOf(list, ptr) \in 1 .. Len(list)
             /\ list[PlaceOf(list, ptr)].pid = ptr
             /\ NextPtr(list, ptr) \in Pointer
  <2>1. EntriesOf(list, ptr) \in SUBSET Nat /\ EntriesOf(list, ptr) # {}
    BY <1>1, <1>4 DEF EntriesOf, Listed
  <2>2. PlaceOf(list, ptr) \in EntriesOf(list, ptr)
    BY <2>1, LeastNumber DEF PlaceOf
  <2>3. PlaceOf(list, ptr) \in 1 .. Len(list) /\ list[PlaceOf(list, ptr)].pid = ptr
    BY <2>2 DEF EntriesOf
  <2>4. PlaceOf(list, ptr) # Len(list) => PlaceOf(list, ptr) + 1 \in 1 .. Len(list)
    BY <1>1, <2>3
  <2> QED BY <1>2, <2>3, <2>4 DEF NextPtr, Pointer
<1> QED BY <1>3, <1>4

(* Unlinking leaves a list of entries that were there.                       *)
LEMMA UnlinkedType ==
    ASSUME NEW list \in Seq(Entry), NEW prev, NEW next,
           prev # NoTask => Listed(list, prev), next # NoTask => Listed(list, next)
    PROVE  /\ Unlinked(list, prev, next) \in Seq(Entry)
           /\ \A i \in 1 .. Len(Unlinked(list, prev, next)) :
                  \E j \in 1 .. Len(list) : Unlinked(list, prev, next)[i] = list[j]
<1> DEFINE S == {list[j] : j \in 1 .. Len(list)}
           front == IF prev = NoTask THEN <<>> ELSE SubSeq(list, 1, PlaceOf(list, prev))
           back == IF next = NoTask THEN <<>> ELSE SubSeq(list, PlaceOf(list, next), Len(list))
<1>1. Len(list) \in Nat /\ \A i \in 1 .. Len(list) : list[i] \in Entry
  BY LenProperties
<1>2. front \in Seq(S)
  <2>1. CASE prev # NoTask
    <3>1. PlaceOf(list, prev) \in 1 .. Len(list)
      BY <2>1, PointersPoint
    <3>2. \A i \in 1 .. PlaceOf(list, prev) : list[i] \in S
      BY <1>1, <3>1
    <3> HIDE DEF S
    <3> QED BY <1>1, <2>1, <3>1, <3>2, SubSeqProperties
  <2> QED BY <2>1, EmptySeq
<1>3. back \in Seq(S)
  <2>1. CASE next # NoTask
    <3>1. PlaceOf(list, next) \in 1 .. Len(list)
      BY <2>1, PointersPoint
    <3>2. \A i \in PlaceOf(list, next) .. Len(list) : list[i] \in S
      BY <1>1, <3>1
    <3> HIDE DEF S
    <3> QED BY <1>1, <2>1, <3>1, <3>2, SubSeqProperties
  <2> QED BY <2>1, EmptySeq
<1>4. Unlinked(list, prev, next) = front \o back
  BY DEF Unlinked
<1> HIDE DEF front, back
<1>5. Unlinked(list, prev, next) \in Seq(S)
  <2> HIDE DEF S
  <2> QED BY <1>2, <1>3, <1>4, ConcatProperties
<1>6. \A i \in 1 .. Len(Unlinked(list, prev, next)) : Unlinked(list, prev, next)[i] \in S
  <2> HIDE DEF S
  <2> QED BY <1>5, ElementOfSeq
<1>7. S \subseteq Entry
  BY <1>1
<1>8. Unlinked(list, prev, next) \in Seq(Entry)
  <2> HIDE DEF S
  <2> QED BY <1>5, <1>7
<1> QED BY <1>6, <1>8

(* The count down of pos_delay_tick keeps the list typed.                    *)
LEMMA CountDownType ==
    ASSUME NEW list \in Seq(Entry)
    PROVE  /\ CountDown(list) \in Seq(Entry)
           /\ CountDown(list) # <<>> =>
                 /\ CountDown(list)[1].pid \in Task
                 /\ Tail(CountDown(list)) \in Seq(Entry)
<1>1. \A i \in 1 .. Len(list) : list[i] \in Entry
  BY LenProperties
<1>2. \A i \in 1 .. Len(list) :
          [list[i] EXCEPT !.left = IF @ > 0 THEN @ - 1 ELSE -1] \in Entry
  BY <1>1 DEF Entry
<1>3. Len(list) \in Nat
  BY LenProperties
<1>4. CountDown(list) \in [1 .. Len(list) -> Entry]
  BY <1>2 DEF CountDown
<1>5. CountDown(list) \in Seq(Entry)
  BY <1>3, <1>4, SeqDef
<1>6. CountDown(list) # <<>> => CountDown(list)[1] \in Entry
  BY <1>5, HeadTailProperties, ElementOfSeq, EmptySeq
<1> QED BY <1>5, <1>6, HeadTailProperties DEF Entry

-----------------------------------------------------------------------------
(* What every way to switch preserves: the part of SchedulerTypeOK it can    *)
(* change, and that at most the chosen task is ACTIVE.                       *)

SwitchOK ==
    /\ status \in [Task -> Status]
    /\ cte \in Task /\ current_task \in Task /\ next_task \in Task
    /\ quantum \in Nat
    /\ pendsv \in BOOLEAN
    /\ ActiveIsCurrent

(* A request to switch to a ready task keeps the types and ActiveIsCurrent.  *)
LEMMA RequestSwitchKeeps ==
    ASSUME SchedulerTypeOK, NEW nxt \in Task, NEW st \in [Task -> Status],
           \A t \in Task : st[t] = "ACTIVE" => t = cte \/ t = nxt,
           RequestSwitch(nxt, st)
    PROVE  SwitchOK'
<1>1. Prio[cte] \in Priority
  BY PrioAssumption DEF SchedulerTypeOK
<1>2. quantum' \in Nat
  BY <1>1, QuantumValue DEF RequestSwitch
<1>3. status' \in [Task -> Status] /\ ActiveIsCurrent'
  BY SwitchStatusValue DEF RequestSwitch, SchedulerTypeOK, ActiveIsCurrent
<1> QED BY <1>2, <1>3 DEF RequestSwitch, SchedulerTypeOK, SwitchOK

(* A scheduler that finds no ready task keeps them.                          *)
LEMMA NoSwitchKeeps ==
    ASSUME SchedulerTypeOK, NEW st \in [Task -> Status],
           \A t \in Task : st[t] = "ACTIVE" => t = cte,
           NoSwitch(st)
    PROVE  SwitchOK'
  BY DEF NoSwitch, SchedulerTypeOK, SwitchOK, ActiveIsCurrent

(* pos_schedule_tasks keeps them.                                            *)
LEMMA ScheduleKeeps ==
    ASSUME SchedulerTypeOK, ActiveIsCurrent, NEW rg \in SUBSET Task, Schedule(rg)
    PROVE  SwitchOK' /\ fault' \in Fault
<1>1. status \in [Task -> Status] /\ \A t \in Task : status[t] = "ACTIVE" => t = cte
  BY DEF SchedulerTypeOK, ActiveIsCurrent
<1>2. CASE ReadyIn(rg) # {} /\ RequestSwitch(NextReady(cte, ReadyIn(rg)), status)
               /\ UNCHANGED fault
  <2>1. NextReady(cte, ReadyIn(rg)) \in Task
    BY <1>2, NextReadyIsReady DEF ReadyIn, SchedulerTypeOK
  <2> QED BY <1>1, <1>2, <2>1, RequestSwitchKeeps DEF SchedulerTypeOK
<1>3. CASE NoSwitch(status) /\ fault' = (IF cte \in rg THEN fault ELSE "hung")
  BY <1>1, <1>3, NoSwitchKeeps DEF SchedulerTypeOK, Fault
<1> QED BY <1>2, <1>3 DEF Schedule

(* Waking a task keeps them, with or without an immediate switch.            *)
LEMMA ReadyKeeps ==
    ASSUME SchedulerTypeOK, NEW pid \in Task, NEW st \in [Task -> Status],
           \A t \in Task : st[t] = "ACTIVE" => t = cte,
           NEW ticks \in 0 .. 255, Ready(pid, st, ticks)
    PROVE  SwitchOK' /\ os_mode' \in OsMode /\ elapsed_ticks' \in 0 .. 255
<1>1. CASE SwitchesNow(pid)
  <2>1. ForceGoto(pid, st) /\ os_mode' = "KERNEL_ACTIVE" /\ elapsed_ticks' = 0
    BY <1>1 DEF Ready, pos_reset_task_timer
  <2> DEFINE woken == [st EXCEPT ![pid] = "ACTIVE"]
  <2>2. woken \in [Task -> Status]
           /\ \A t \in Task : woken[t] = "ACTIVE" => t = cte \/ t = pid
    BY DEF Status
  <2>3. RequestSwitch(pid, woken)
    BY <2>1 DEF ForceGoto
  <2>4. SwitchOK'
    <3> HIDE DEF woken
    <3> QED BY <2>2, <2>3, RequestSwitchKeeps
  <2> QED BY <2>1, <2>4 DEF OsMode
<1>2. CASE ~SwitchesNow(pid)
  <2>1. NoSwitch(st) /\ os_mode' = os_mode /\ elapsed_ticks' = ticks
    BY <1>2 DEF Ready
  <2> QED BY <2>1, NoSwitchKeeps DEF SchedulerTypeOK
<1> QED BY <1>1, <1>2

(* The section of pos_semaphore_signal keeps them.                           *)
LEMMA SignalSectionKeeps ==
    ASSUME TypeOK, ActiveIsCurrent, NEW s \in Sem, SignalSection(s)
    PROVE  /\ SwitchOK' /\ os_mode' \in OsMode /\ elapsed_ticks' \in 0 .. 255
           /\ SemaphoreTypeOK'
<1> USE DEF TypeOK
<1> DEFINE st == DeqStatus(sem_q[s], status)
           pid == DeqPid(sem_q[s])
<1>1. sem_q[s] \in Seq(Task) /\ sem_cnt[s] + 1 \in Int
  BY DEF SemaphoreTypeOK
<1>2. /\ st \in [Task -> Status]
      /\ \A t \in Task : st[t] = "ACTIVE" => t = cte
      /\ pid \in Task \cup {NoTask}
  <2>1. status \in [Task -> Status] /\ \A t \in Task : status[t] = "ACTIVE" => t = cte
    BY DEF SchedulerTypeOK, ActiveIsCurrent
  <2> QED BY <1>1, <2>1, DeqStatusType
<1>3. SemaphoreTypeOK'
  BY <1>1, DeqQueueType DEF SignalSection, SemaphoreTypeOK
<1>4. IF pid = NoTask
      THEN NoSwitch(st) /\ UNCHANGED <<os_mode, elapsed_ticks>>
      ELSE Ready(pid, st, elapsed_ticks)
  BY DEF SignalSection
<1> HIDE DEF st, pid
<1>5. CASE pid = NoTask
  BY <1>2, <1>3, <1>4, <1>5, NoSwitchKeeps DEF SchedulerTypeOK
<1>6. CASE pid # NoTask
  BY <1>2, <1>3, <1>4, <1>6, ReadyKeeps DEF SchedulerTypeOK
<1> QED BY <1>5, <1>6

(* pos_delay_tick keeps them.                                                *)
LEMMA DelayTickKeeps ==
    ASSUME TypeOK, ActiveIsCurrent, NEW ticks \in 0 .. 255, DelayTick(ticks)
    PROVE  /\ SwitchOK' /\ os_mode' \in OsMode /\ elapsed_ticks' \in 0 .. 255
           /\ DelayTypeOK' /\ fault' \in Fault
<1> USE DEF TypeOK
<1> DEFINE list == CountDown(delays)
           pid == list[1].pid
           woken == [status EXCEPT ![pid] = AwakeStatus(pid)]
<1>1. list \in Seq(Entry) /\ (list # <<>> => pid \in Task /\ Tail(list) \in Seq(Entry))
  BY CountDownType DEF DelayTypeOK
<1>2. status \in [Task -> Status] /\ \A t \in Task : status[t] = "ACTIVE" => t = cte
  BY DEF SchedulerTypeOK, ActiveIsCurrent
<1>3. CASE ~HeadElapsed(list)
  <2>1. /\ delays' = list /\ elapsed_ticks' = ticks /\ NoSwitch(status)
        /\ UNCHANGED <<os_mode, fault>>
    BY <1>3 DEF DelayTick
  <2> HIDE DEF list
  <2> QED BY <1>1, <1>2, <2>1, NoSwitchKeeps DEF SchedulerTypeOK, DelayTypeOK
<1>4. CASE HeadElapsed(list)
  <2>1. /\ delays' = Tail(list)
        /\ IF status[pid] \in {"DELAY", "SEM_WAITING_UNTIL"}
           THEN /\ Ready(pid, woken, ticks)
                /\ UNCHANGED fault
           ELSE /\ fault' = "unexpected_error"
                /\ elapsed_ticks' = ticks
                /\ NoSwitch(status)
                /\ UNCHANGED os_mode
    BY <1>4 DEF DelayTick
  <2>2. pid \in Task /\ Tail(list) \in Seq(Entry)
    BY <1>1, <1>4 DEF HeadElapsed
  <2>3. woken \in [Task -> Status] /\ \A t \in Task : woken[t] = "ACTIVE" => t = cte
    <3> HIDE DEF pid
    <3>1. AwakeStatus(pid) \in Status /\ (AwakeStatus(pid) = "ACTIVE" => pid = cte)
      BY DEF AwakeStatus, Status
    <3> QED BY <1>2, <2>2, <3>1
  <2> HIDE DEF list, pid, woken
  <2>4. CASE status[pid] \in {"DELAY", "SEM_WAITING_UNTIL"}
    BY <2>1, <2>2, <2>3, <2>4, ReadyKeeps DEF SchedulerTypeOK, DelayTypeOK
  <2>5. CASE status[pid] \notin {"DELAY", "SEM_WAITING_UNTIL"}
    BY <1>2, <2>1, <2>2, <2>5, NoSwitchKeeps DEF SchedulerTypeOK, DelayTypeOK, Fault
  <2> QED BY <2>4, <2>5
<1> QED BY <1>3, <1>4

-----------------------------------------------------------------------------
(* The frame of pos_semaphore_wait_until names a semaphore for as long as    *)
(* its tail runs, and holds a list with a head when that is unlinked.        *)
FramesOK ==
    \A t \in Task :
        /\ pc[t] \in {"wu_check", "wu_remove", "wu_walk", "wu_unlink", "wu_load",
                      "wu_store", "wu_deq", "wu_free"} => frame[t].sem \in Sem
        /\ pc[t] = "wu_free" /\ fault = "none" => frame[t].q # <<>>

TypeInv == TypeOK /\ FramesOK /\ ActiveIsCurrent

(* The invariant that carries the type invariant and ActiveIsCurrent holds   *)
(* when pos_scheduler_start has entered the first task.                      *)
LEMMA TypeInvInit == Init => TypeInv
<1> SUFFICES ASSUME Init PROVE TypeInv
  OBVIOUS
<1> USE DEF Init
<1>1. 1 \in Task /\ (N # 1 => 2 \in Task)
  BY TasksAssumption DEF Task
<1>2. quantum \in Nat
  BY <1>1, QuantumValue, PrioAssumption DEF SchedulerInit
<1>3. SchedulerTypeOK
  <2>1. status \in [Task -> Status] /\ pc \in [Task -> Pc]
    BY DEF SchedulerInit, Status, Pc
  <2>2. cte \in Task /\ current_task \in Task /\ next_task \in Task /\ psp \in Task
    BY <1>1 DEF SchedulerInit
  <2>3. /\ ring \in SUBSET Task /\ elapsed_ticks \in 0 .. 255
        /\ os_mode \in OsMode /\ fault \in Fault
    BY DEF SchedulerInit, OsMode, Fault
  <2>4. /\ is_sleep_mode \in BOOLEAN /\ pendsv \in BOOLEAN
        /\ event \in BOOLEAN /\ ktick \in BOOLEAN
    BY DEF SchedulerInit
  <2> QED BY <1>2, <2>1, <2>2, <2>3, <2>4 DEF SchedulerTypeOK
<1>4. SemaphoreTypeOK
  BY SemAssumption, EmptySeq DEF SemaphoreInit, SemaphoreTypeOK
<1>5. DelayTypeOK
  BY EmptySeq DEF DelayInit, DelayTypeOK
<1>6. frame \in [Task -> [sem : Sem \cup {NoSem}, cnt : Int, q : Seq(Task), walk : Walk]]
  BY EmptySeq DEF NoFrame, NoWalk, Walk, Pointer
<1>7. FramesOK
  BY DEF SchedulerInit, FramesOK
<1>8. ActiveIsCurrent
  BY DEF SchedulerInit, ActiveIsCurrent
<1> QED BY <1>3, <1>4, <1>5, <1>6, <1>7, <1>8 DEF TypeInv, TypeOK

-----------------------------------------------------------------------------
(* The actions, one lemma each where the step is not immediate.              *)

(* The steps of pos_yield keep the type invariant.                           *)
LEMMA YieldingKeeps ==
    ASSUME TypeInv, NEW t \in Task, Yielding(t)
    PROVE  TypeInv'
<1> USE DEF TypeInv, TypeOK
<1>1. UNCHANGED <<semVars, delays, frame>>
  BY DEF Yielding
<1>2. SemaphoreTypeOK' /\ DelayTypeOK'
      /\ frame' \in [Task -> [sem : Sem \cup {NoSem}, cnt : Int, q : Seq(Task), walk : Walk]]
  BY <1>1 DEF SemaphoreTypeOK, DelayTypeOK, semVars
<1>3. CASE EnterSvc(t)
  <2>1. SchedulerTypeOK' /\ ActiveIsCurrent'
    BY <1>3 DEF EnterSvc, Goto, schedVars, SchedulerTypeOK, ActiveIsCurrent, Pc
  <2>2. FramesOK'
    BY <1>1, <1>3 DEF EnterSvc, Goto, FramesOK, SchedulerTypeOK
  <2> QED BY <1>2, <2>1, <2>2
<1>4. CASE SleepCpu(t)
  <2>1. SwitchOK' /\ fault' \in Fault
    BY <1>4, ScheduleKeeps DEF SleepCpu, SchedulerTypeOK
  <2>2. SleepMode \in OsMode
    BY DEF SleepMode, OsMode
  <2>3. pc' \in [Task -> Pc]
    BY <1>4 DEF SleepCpu, Goto, SchedulerTypeOK, Pc
  <2>4. SchedulerTypeOK' /\ ActiveIsCurrent'
    BY <1>4, <2>1, <2>2, <2>3 DEF SleepCpu, SwitchOK, SchedulerTypeOK
  <2>5. fault # "none" => FALSE
    BY <1>4 DEF SleepCpu, At
  <2>6. FramesOK'
    BY <1>1, <1>4, <2>5 DEF SleepCpu, Goto, FramesOK, SchedulerTypeOK
  <2> QED BY <1>2, <2>4, <2>6
<1>5. CASE WakeCpu(t)
  <2>1. SchedulerTypeOK' /\ ActiveIsCurrent'
    <3>1. pc' \in [Task -> Pc]
      BY <1>5 DEF WakeCpu, AfterWake, Goto, SchedulerTypeOK, Pc
    <3>2. elapsed_ticks' \in 0 .. 255 /\ os_mode' \in OsMode
      BY <1>5 DEF WakeCpu, pos_reset_task_timer, OsMode
    <3>3. event' \in BOOLEAN /\ ktick' \in BOOLEAN
      BY <1>5 DEF WakeCpu
    <3>4. UNCHANGED <<ring, status, cte, current_task, next_task, quantum,
                      is_sleep_mode, pendsv, psp, fault>>
      BY <1>5 DEF WakeCpu
    <3> QED BY <3>1, <3>2, <3>3, <3>4 DEF SchedulerTypeOK, ActiveIsCurrent
  <2>2. FramesOK'
    BY <1>1, <1>5 DEF WakeCpu, AfterWake, Goto, FramesOK, SchedulerTypeOK
  <2> QED BY <1>2, <2>1, <2>2
<1>6. CASE ReturnFromYield(t, IF frame[t].sem = NoSem THEN "run" ELSE "wu_check")
  <2> DEFINE p == IF frame[t].sem = NoSem THEN "run" ELSE "wu_check"
  <2>1. p \in {"run", "wu_check"} /\ (p = "wu_check" => frame[t].sem \in Sem)
    OBVIOUS
  <2> HIDE DEF p
  <2>2. ReturnFromYield(t, p)
    BY <1>6 DEF p
  <2>3. SchedulerTypeOK' /\ ActiveIsCurrent'
    BY <2>1, <2>2 DEF ReturnFromYield, Goto, SchedulerTypeOK, ActiveIsCurrent, Pc
  <2>4. FramesOK'
    BY <1>1, <2>1, <2>2 DEF ReturnFromYield, Goto, FramesOK, SchedulerTypeOK
  <2> QED BY <1>2, <2>3, <2>4
<1> QED BY <1>3, <1>4, <1>5, <1>6 DEF Yielding

(* The sections that block the caller end in BeginYield. *)
LEMMA BeginYieldKeeps ==
    ASSUME SchedulerTypeOK, NEW t \in Task, BeginYield(t),
           status' = [status EXCEPT ![cte] = "SEM_WAITING"]
           \/ status' = [status EXCEPT ![cte] = "SEM_WAITING_UNTIL"]
           \/ status' = [status EXCEPT ![cte] = "DELAY"],
           ActiveIsCurrent
    PROVE  SchedulerTypeOK' /\ ActiveIsCurrent'
<1>1. status' \in [Task -> Status] /\ ActiveIsCurrent'
  BY DEF SchedulerTypeOK, ActiveIsCurrent, BeginYield, Status
<1>2. pc' \in [Task -> Pc]
  BY DEF SchedulerTypeOK, BeginYield, Goto, Pc
<1>3. elapsed_ticks' \in 0 .. 255 /\ os_mode' \in OsMode
  BY DEF BeginYield, pos_reset_task_timer, OsMode
<1>4. is_sleep_mode' \in BOOLEAN /\ ktick' \in BOOLEAN
  BY DEF BeginYield
<1>5. UNCHANGED <<ring, current_task, next_task, cte, quantum, pendsv, psp,
                  event, fault>>
  BY DEF BeginYield
<1> QED BY <1>1, <1>2, <1>3, <1>4, <1>5 DEF SchedulerTypeOK

(* pos_semaphore_enq leaves a list of tasks.                                 *)
LEMMA EnqType ==
    ASSUME SemaphoreTypeOK, SchedulerTypeOK, NEW s \in Sem
    PROVE  [sem_q EXCEPT ![s] = Enq(@, cte)] \in [Sem -> Seq(Task)]
<1>1. Enq(sem_q[s], cte) \in Seq(Task)
  BY AppendProperties DEF Enq, SemaphoreTypeOK, SchedulerTypeOK
<1> QED BY <1>1 DEF SemaphoreTypeOK

(* pos_semaphore_wait keeps the type invariant.                              *)
LEMMA SemWaitKeeps ==
    ASSUME TypeInv, NEW t \in Task, NEW s \in Sem, SemWait(t, s, "run"),
           UNCHANGED <<delays, frame>>
    PROVE  TypeInv'
<1> USE DEF TypeInv, TypeOK
<1>1. DelayTypeOK'
      /\ frame' \in [Task -> [sem : Sem \cup {NoSem}, cnt : Int, q : Seq(Task), walk : Walk]]
  BY DEF DelayTypeOK
<1>2. sem_cnt' \in [Sem -> Int]
  BY DEF SemWait, SemaphoreTypeOK
<1>3. CASE sem_cnt[s] - 1 >= 0
  BY <1>1, <1>2, <1>3 DEF SemWait, GoOn, Goto, schedVars, SchedulerTypeOK,
     SemaphoreTypeOK, ActiveIsCurrent, FramesOK, Pc
<1>4. CASE ~(sem_cnt[s] - 1 >= 0)
  <2>1. /\ sem_q' = [sem_q EXCEPT ![s] = Enq(@, cte)]
        /\ status' = [status EXCEPT ![cte] = "SEM_WAITING"]
        /\ BeginYield(t)
    BY <1>4 DEF SemWait
  <2>2. SchedulerTypeOK' /\ ActiveIsCurrent'
    BY <2>1, BeginYieldKeeps
  <2>3. SemaphoreTypeOK'
    BY <1>2, <2>1, EnqType DEF SemaphoreTypeOK
  <2>4. FramesOK'
    BY <2>1 DEF BeginYield, Goto, FramesOK, SchedulerTypeOK
  <2> QED BY <1>1, <2>2, <2>3, <2>4
<1> QED BY <1>3, <1>4

(* pos_semaphore_signal keeps the type invariant, in a task or an interrupt. *)
LEMMA SignalKeeps ==
    ASSUME TypeInv, NEW s \in Sem, SignalSection(s), event' \in BOOLEAN,
           UNCHANGED <<ring, is_sleep_mode, psp, pc, ktick, fault>>,
           UNCHANGED <<delays, frame>>
    PROVE  TypeInv'
<1>1. /\ SwitchOK' /\ os_mode' \in OsMode /\ elapsed_ticks' \in 0 .. 255
      /\ SemaphoreTypeOK'
  BY SignalSectionKeeps DEF TypeInv
<1>2. SchedulerTypeOK' /\ ActiveIsCurrent'
  BY <1>1 DEF TypeInv, TypeOK, SwitchOK, SchedulerTypeOK
<1>3. DelayTypeOK' /\ FramesOK'
  BY DEF TypeInv, TypeOK, DelayTypeOK, FramesOK
<1> QED BY <1>1, <1>2, <1>3 DEF TypeInv, TypeOK

(* pos_semaphore_wait_until up to its yield keeps it.                        *)
LEMMA WaitUntilKeeps ==
    ASSUME TypeInv, NEW t \in Task, NEW s \in Sem, NEW time \in Nat,
           WaitUntil(t, s, time)
    PROVE  TypeInv'
<1> USE DEF TypeInv, TypeOK
<1>1. sem_cnt' \in [Sem -> Int]
  BY DEF WaitUntil, SemaphoreTypeOK
<1>2. CASE sem_cnt[s] - 1 >= 0
  <2>1. /\ pc' = [pc EXCEPT ![t] = "run"]
        /\ UNCHANGED <<schedVars, pendsv, psp, event, ktick, fault, sem_q, delays, frame>>
    BY <1>2 DEF WaitUntil, GoOn, Goto
  <2>2. SchedulerTypeOK' /\ ActiveIsCurrent'
    BY <2>1 DEF schedVars, SchedulerTypeOK, ActiveIsCurrent, Pc
  <2>3. SemaphoreTypeOK' /\ DelayTypeOK'
    BY <1>1, <2>1 DEF SemaphoreTypeOK, DelayTypeOK
  <2>4. FramesOK'
    BY <2>1 DEF FramesOK, SchedulerTypeOK
  <2> QED BY <2>1, <2>2, <2>3, <2>4
<1>3. CASE ~(sem_cnt[s] - 1 >= 0)
  <2>1. /\ sem_q' = [sem_q EXCEPT ![s] = Enq(@, cte)]
        /\ delays' = DelayAdd(delays, cte, time)
        /\ status' = [status EXCEPT ![cte] = "SEM_WAITING_UNTIL"]
        /\ frame' = [frame EXCEPT ![t].sem = s]
        /\ BeginYield(t)
    BY <1>3 DEF WaitUntil
  <2>2. SchedulerTypeOK' /\ ActiveIsCurrent'
    BY <2>1, BeginYieldKeeps
  <2>3. SemaphoreTypeOK'
    BY <1>1, <2>1, EnqType DEF SemaphoreTypeOK
  <2>4. DelayTypeOK'
    BY <2>1, DelayAddPlaces DEF DelayTypeOK, SchedulerTypeOK
  <2>5. frame' \in [Task -> [sem : Sem \cup {NoSem}, cnt : Int, q : Seq(Task), walk : Walk]]
    BY <2>1
  <2>6. FramesOK'
    BY <2>1 DEF BeginYield, Goto, FramesOK, SchedulerTypeOK
  <2> QED BY <2>2, <2>3, <2>4, <2>5, <2>6
<1> QED BY <1>2, <1>3

(* pos_delay_ms keeps it.                                                    *)
LEMMA DelayMsKeeps ==
    ASSUME TypeInv, NEW t \in Task, NEW time \in Nat, DelayMs(t, time),
           UNCHANGED <<semVars, frame>>
    PROVE  TypeInv'
<1> USE DEF TypeInv, TypeOK
<1>1. SchedulerTypeOK' /\ ActiveIsCurrent'
  BY BeginYieldKeeps DEF DelayMs
<1>2. DelayTypeOK'
  BY DelayAddPlaces DEF DelayMs, DelayTypeOK, SchedulerTypeOK
<1>3. SemaphoreTypeOK'
  BY DEF semVars, SemaphoreTypeOK
<1>4. FramesOK'
  BY DEF DelayMs, BeginYield, Goto, FramesOK, SchedulerTypeOK
<1> QED BY <1>1, <1>2, <1>3, <1>4

(* pos_task_finish keeps it.                                                 *)
LEMMA TaskFinishKeeps ==
    ASSUME TypeInv, NEW t \in Task, TaskFinish(t), UNCHANGED <<semVars, delays, frame>>
    PROVE  TypeInv'
<1> USE DEF TypeInv, TypeOK
<1>1. ring' \in SUBSET Task /\ Schedule(ring') /\ fault = "none"
  BY DEF TaskFinish, KilledRing, SchedulerTypeOK, At
<1> DEFINE rg == ring'
<1>2. SwitchOK' /\ fault' \in Fault
  <2>1. rg \in SUBSET Task /\ Schedule(rg)
    BY <1>1
  <2> HIDE DEF rg
  <2> QED BY <2>1, ScheduleKeeps
<1>3. pc' \in [Task -> Pc]
  BY DEF TaskFinish, Goto, SchedulerTypeOK, Pc
<1>4. SchedulerTypeOK' /\ ActiveIsCurrent'
  BY <1>1, <1>2, <1>3 DEF TaskFinish, SwitchOK, SchedulerTypeOK, OsMode
<1>5. SemaphoreTypeOK' /\ DelayTypeOK'
  BY DEF semVars, SemaphoreTypeOK, DelayTypeOK
<1>6. FramesOK'
  BY <1>1 DEF TaskFinish, Goto, FramesOK, SchedulerTypeOK
<1> QED BY <1>4, <1>5, <1>6

(* The tail of pos_semaphore_wait_until keeps it.                            *)
LEMMA WaitUntilTailKeeps ==
    ASSUME TypeInv, NEW t \in Task, WaitUntilTail(t)
    PROVE  TypeInv'
<1> USE DEF TypeInv, TypeOK
<1>1. CASE CheckTimeout(t)
  <2>1. SchedulerTypeOK' /\ ActiveIsCurrent'
    BY <1>1 DEF CheckTimeout, GoOn, Goto, schedVars, SchedulerTypeOK, ActiveIsCurrent, Pc
  <2>2. SemaphoreTypeOK' /\ DelayTypeOK'
    BY <1>1 DEF CheckTimeout, GoOn, semVars, SemaphoreTypeOK, DelayTypeOK
  <2>3. FramesOK'
    BY <1>1 DEF CheckTimeout, GoOn, At, Goto, FramesOK, SchedulerTypeOK
  <2> QED BY <1>1, <2>1, <2>2, <2>3 DEF CheckTimeout
<1>2. CASE BeginWalk(t)
  <2>1. SchedulerTypeOK' /\ ActiveIsCurrent'
    BY <1>2 DEF BeginWalk, GoOn, Goto, schedVars, SchedulerTypeOK, ActiveIsCurrent, Pc
  <2>2. SemaphoreTypeOK' /\ DelayTypeOK'
    BY <1>2 DEF BeginWalk, GoOn, semVars, SemaphoreTypeOK, DelayTypeOK
  <2>3. [NoWalk EXCEPT !.curr = HeadPtr(delays)] \in Walk
    BY PointersPoint DEF DelayTypeOK, NoWalk, Walk, Pointer
  <2>4. frame' \in [Task -> [sem : Sem \cup {NoSem}, cnt : Int, q : Seq(Task), walk : Walk]]
    BY <1>2, <2>3 DEF BeginWalk
  <2>5. FramesOK'
    BY <1>2 DEF BeginWalk, GoOn, At, Goto, FramesOK, SchedulerTypeOK
  <2> QED BY <2>1, <2>2, <2>4, <2>5
<1>7. CASE VisitEntry(t)
  <2> DEFINE w == frame[t].walk
  <2>1. w \in Walk /\ (Listed(delays, w.curr) => NextPtr(delays, w.curr) \in Pointer)
    BY PointersPoint DEF DelayTypeOK
  <2>2. /\ fault' = WalkFault(w.curr)
        /\ \/ UNCHANGED <<pc, frame>>
           \/ /\ w.curr = t /\ Listed(delays, t) /\ Goto(t, "wu_unlink")
              /\ frame' = [frame EXCEPT ![t].walk.next = NextPtr(delays, t)]
           \/ /\ Listed(delays, w.curr) /\ UNCHANGED pc
              /\ frame' = [frame EXCEPT ![t].walk =
                     [w EXCEPT !.prev = w.curr, !.curr = NextPtr(delays, w.curr)]]
        /\ UNCHANGED <<schedVars, pendsv, psp, event, ktick, semVars, delays>>
    BY <1>7 DEF VisitEntry, WalkFault
  <2> HIDE DEF w
  <2>3. SchedulerTypeOK' /\ ActiveIsCurrent'
    <3>1. pc' \in [Task -> Pc]
      BY <2>2 DEF Goto, SchedulerTypeOK, Pc
    <3>2. fault' \in Fault
      BY <2>2 DEF WalkFault, Fault
    <3> QED BY <2>2, <3>1, <3>2 DEF schedVars, SchedulerTypeOK, ActiveIsCurrent
  <2>4. SemaphoreTypeOK' /\ DelayTypeOK'
    BY <2>2 DEF semVars, SemaphoreTypeOK, DelayTypeOK
  <2>5. /\ frame' \in [Task -> [sem : Sem \cup {NoSem}, cnt : Int, q : Seq(Task), walk : Walk]]
        /\ \A u \in Task : frame'[u].sem = frame[u].sem /\ frame'[u].q = frame[u].q
    <3>1. CASE UNCHANGED frame
      BY <3>1
    <3>2. CASE /\ w.curr = t /\ Listed(delays, t)
               /\ frame' = [frame EXCEPT ![t].walk.next = NextPtr(delays, t)]
      <4>1. [w EXCEPT !.next = NextPtr(delays, t)] \in Walk
        BY <2>1, <3>2 DEF Walk
      <4>2. frame' = [frame EXCEPT ![t].walk = [w EXCEPT !.next = NextPtr(delays, t)]]
        BY <3>2 DEF w
      <4> QED BY <4>1, <4>2
    <3>3. CASE /\ Listed(delays, w.curr)
               /\ frame' = [frame EXCEPT ![t].walk =
                     [w EXCEPT !.prev = w.curr, !.curr = NextPtr(delays, w.curr)]]
      <4>1. [w EXCEPT !.prev = w.curr, !.curr = NextPtr(delays, w.curr)] \in Walk
        BY <2>1, <3>3 DEF Walk
      <4> QED BY <3>3, <4>1
    <3> QED BY <2>2, <3>1, <3>2, <3>3
  <2>6. FramesOK'
    <3>1. fault = "none" /\ pc[t] = "wu_walk"
      BY <1>7 DEF VisitEntry, At
    <3>2. \A u \in Task : \/ pc'[u] = pc[u]
                          \/ u = t /\ pc'[u] = "wu_unlink"
      BY <2>2 DEF Goto, SchedulerTypeOK
    <3> QED BY <2>5, <3>1, <3>2 DEF FramesOK
  <2> QED BY <2>3, <2>4, <2>5, <2>6
<1>8. CASE UnlinkEntry(t)
  <2> DEFINE w == frame[t].walk
  <2>1. SchedulerTypeOK' /\ ActiveIsCurrent'
    <3>1. pc' \in [Task -> Pc]
      BY <1>8 DEF UnlinkEntry, Goto, SchedulerTypeOK, Pc
    <3>2. fault' \in Fault
      BY <1>8 DEF UnlinkEntry, SchedulerTypeOK, Fault
    <3>3. ktick' \in BOOLEAN /\ UNCHANGED <<schedVars, pendsv, psp, event>>
      BY <1>8 DEF UnlinkEntry
    <3> QED BY <3>1, <3>2, <3>3 DEF schedVars, SchedulerTypeOK, ActiveIsCurrent
  <2>2. \/ UNCHANGED delays
        \/ /\ w.prev # NoTask => Listed(delays, w.prev)
           /\ w.next # NoTask => Listed(delays, w.next)
           /\ delays' = Unlinked(delays, w.prev, w.next)
    BY <1>8 DEF UnlinkEntry
  <2>3. DelayTypeOK'
    <3> HIDE DEF w
    <3> QED BY <2>2, UnlinkedType DEF DelayTypeOK
  <2>4. SemaphoreTypeOK'
    BY <1>8 DEF UnlinkEntry, semVars, SemaphoreTypeOK
  <2>5. NoFrame \in [sem : Sem \cup {NoSem}, cnt : Int, q : Seq(Task), walk : Walk]
    BY EmptySeq DEF NoFrame, NoWalk, Walk, Pointer
  <2>6. frame' \in [Task -> [sem : Sem \cup {NoSem}, cnt : Int, q : Seq(Task), walk : Walk]]
    BY <1>8, <2>5 DEF UnlinkEntry
  <2>7. FramesOK'
    BY <1>8 DEF UnlinkEntry, At, Goto, FramesOK, SchedulerTypeOK
  <2> QED BY <2>1, <2>3, <2>4, <2>6, <2>7
<1>3. CASE LoadCnt(t)
  <2>1. SchedulerTypeOK' /\ ActiveIsCurrent'
    BY <1>3 DEF LoadCnt, GoOn, Goto, schedVars, SchedulerTypeOK, ActiveIsCurrent, Pc
  <2>2. SemaphoreTypeOK' /\ DelayTypeOK'
    BY <1>3 DEF LoadCnt, GoOn, semVars, SemaphoreTypeOK, DelayTypeOK
  <2>3. frame[t].sem \in Sem
    BY <1>3 DEF LoadCnt, GoOn, At, FramesOK
  <2>4. frame' \in [Task -> [sem : Sem \cup {NoSem}, cnt : Int, q : Seq(Task), walk : Walk]]
    BY <1>3, <2>3 DEF LoadCnt, GoOn, SemaphoreTypeOK
  <2>5. FramesOK'
    BY <1>3, <2>3 DEF LoadCnt, GoOn, Goto, FramesOK, SchedulerTypeOK
  <2> QED BY <2>1, <2>2, <2>4, <2>5
<1>4. CASE StoreCnt(t)
  <2>1. SchedulerTypeOK' /\ ActiveIsCurrent'
    BY <1>4 DEF StoreCnt, GoOn, Goto, schedVars, SchedulerTypeOK, ActiveIsCurrent, Pc
  <2>2. Restored(frame[t].cnt) \in Int
    BY DEF Restored
  <2>3. SemaphoreTypeOK' /\ DelayTypeOK'
    BY <1>4, <2>2 DEF StoreCnt, GoOn, SemaphoreTypeOK, DelayTypeOK
  <2>4. FramesOK'
    BY <1>4 DEF StoreCnt, GoOn, At, Goto, FramesOK, SchedulerTypeOK
  <2> QED BY <1>4, <2>1, <2>3, <2>4 DEF StoreCnt
<1>5. CASE ReadQueue(t)
  <2>1. SchedulerTypeOK' /\ ActiveIsCurrent'
    <3>1. pc' \in [Task -> Pc]
      BY <1>5 DEF ReadQueue, Goto, SchedulerTypeOK, Pc
    <3>2. fault' \in Fault
      BY <1>5 DEF ReadQueue, SchedulerTypeOK, Fault
    <3>3. UNCHANGED <<schedVars, pendsv, psp, event, ktick>>
      BY <1>5 DEF ReadQueue
    <3> QED BY <3>1, <3>2, <3>3 DEF schedVars, SchedulerTypeOK, ActiveIsCurrent
  <2>2. SemaphoreTypeOK' /\ DelayTypeOK'
    BY <1>5 DEF ReadQueue, semVars, SemaphoreTypeOK, DelayTypeOK
  <2>3. frame[t].sem \in Sem
    BY <1>5 DEF ReadQueue, At, FramesOK
  <2>4. frame' \in [Task -> [sem : Sem \cup {NoSem}, cnt : Int, q : Seq(Task), walk : Walk]]
    <3>1. sem_q[frame[t].sem] \in Seq(Task)
      BY <2>3 DEF SemaphoreTypeOK
    <3>2. \/ UNCHANGED frame
          \/ frame' = [frame EXCEPT ![t].q = sem_q[frame[t].sem]]
      BY <1>5 DEF ReadQueue
    <3> QED BY <3>1, <3>2
  <2>5. FramesOK'
    BY <1>5, <2>3 DEF ReadQueue, At, Goto, FramesOK, SchedulerTypeOK
  <2> QED BY <2>1, <2>2, <2>4, <2>5
<1>6. CASE UnlinkHead(t)
  <2> DEFINE s == frame[t].sem
             q == frame[t].q
  <2>1. s \in Sem /\ q \in Seq(Task) /\ q # <<>>
    BY <1>6 DEF UnlinkHead, At, FramesOK
  <2>2. /\ sem_q' = IF sem_cnt[s] <= 0 THEN [sem_q EXCEPT ![s] = Tail(q)] ELSE sem_q
        /\ status' = [DeqStatus(q, status) EXCEPT ![cte] = "ACTIVE"]
    BY <1>6 DEF UnlinkHead
  <2> HIDE DEF s, q
  <2>3. SemaphoreTypeOK'
    <3>1. Tail(q) \in Seq(Task)
      BY <2>1, HeadTailProperties
    <3>2. UNCHANGED sem_cnt
      BY <1>6 DEF UnlinkHead
    <3> QED BY <2>1, <2>2, <3>1, <3>2 DEF SemaphoreTypeOK
  <2>4. status' \in [Task -> Status] /\ \A u \in Task : status'[u] = "ACTIVE" => u = cte
    <3>1. status \in [Task -> Status] /\ \A u \in Task : status[u] = "ACTIVE" => u = cte
      BY DEF SchedulerTypeOK, ActiveIsCurrent
    <3>2. /\ DeqStatus(q, status) \in [Task -> Status]
          /\ \A u \in Task : DeqStatus(q, status)[u] = "ACTIVE" => u = cte
      BY <2>1, <3>1, DeqStatusType
    <3> HIDE DEF TypeInv
    <3> QED BY <2>2, <3>2 DEF Status
  <2>5. SchedulerTypeOK' /\ ActiveIsCurrent'
    <3>1. pc' \in [Task -> Pc]
      BY <1>6 DEF UnlinkHead, Goto, SchedulerTypeOK, Pc
    <3>2. /\ ktick' \in BOOLEAN
          /\ UNCHANGED <<ring, cte, current_task, next_task, quantum, elapsed_ticks,
                         os_mode, is_sleep_mode, pendsv, psp, event, fault>>
      BY <1>6 DEF UnlinkHead
    <3> QED BY <2>4, <3>1, <3>2 DEF SchedulerTypeOK, ActiveIsCurrent
  <2>6. DelayTypeOK'
    BY <1>6 DEF UnlinkHead, DelayTypeOK
  <2>7. frame' \in [Task -> [sem : Sem \cup {NoSem}, cnt : Int, q : Seq(Task), walk : Walk]]
    BY <1>6, EmptySeq DEF UnlinkHead, NoFrame, NoWalk, Walk, Pointer
  <2>8. FramesOK'
    BY <1>6 DEF UnlinkHead, Goto, FramesOK, SchedulerTypeOK
  <2> QED BY <2>3, <2>5, <2>6, <2>7, <2>8
<1> QED BY <1>1, <1>2, <1>3, <1>4, <1>5, <1>6, <1>7, <1>8 DEF WaitUntilTail

(* SysTick_Handler keeps it.                                                 *)
LEMMA SysTickKeeps ==
    ASSUME TypeInv, SysTick
    PROVE  TypeInv'
<1> USE DEF TypeInv, TypeOK
<1>1. /\ SwitchOK' /\ os_mode' \in OsMode /\ elapsed_ticks' \in 0 .. 255
      /\ DelayTypeOK' /\ fault' \in Fault
  <2>1. CASE /\ elapsed_ticks' = 0 /\ os_mode' = "KERNEL_ACTIVE"
             /\ Schedule(ring) /\ UNCHANGED delays
    <3>1. SwitchOK' /\ fault' \in Fault
      BY <2>1, ScheduleKeeps DEF SchedulerTypeOK
    <3> QED BY <2>1, <3>1 DEF OsMode, DelayTypeOK
  <2>2. CASE DelayTick((elapsed_ticks + 1) % 256)
    <3>1. (elapsed_ticks + 1) % 256 \in 0 .. 255
      BY DEF SchedulerTypeOK
    <3> QED BY <2>2, <3>1, DelayTickKeeps
  <2> QED BY <2>1, <2>2 DEF SysTick
<1>2. /\ event' \in BOOLEAN /\ ktick' \in BOOLEAN /\ fault = "none"
      /\ UNCHANGED <<ring, is_sleep_mode, psp, pc, semVars, frame>>
  BY DEF SysTick, InKernelPath, SchedulerTypeOK
<1>3. SchedulerTypeOK' /\ ActiveIsCurrent'
  BY <1>1, <1>2 DEF SwitchOK, SchedulerTypeOK
<1>4. SemaphoreTypeOK' /\ FramesOK'
  BY <1>2 DEF semVars, SemaphoreTypeOK, FramesOK
<1> QED BY <1>1, <1>2, <1>3, <1>4

(* PendSV_Handler keeps it.                                                  *)
LEMMA SwitchContextKeeps ==
    ASSUME TypeInv, SwitchContext
    PROVE  TypeInv'
<1> USE DEF TypeInv, TypeOK
<1>1. psp' \in Task /\ fault' \in Fault /\ os_mode' \in OsMode
  BY DEF SwitchContext, PendSV, SchedulerTypeOK, Fault, OsMode
<1>2. pendsv' \in BOOLEAN /\ ktick' \in BOOLEAN /\ event' \in BOOLEAN
  BY DEF SwitchContext, PendSV, SchedulerTypeOK
<1>3. UNCHANGED <<ring, status, cte, current_task, next_task, quantum,
                  elapsed_ticks, is_sleep_mode, pc, semVars, delays, frame>>
  BY DEF SwitchContext, PendSV
<1>4. SchedulerTypeOK' /\ ActiveIsCurrent'
  BY <1>1, <1>2, <1>3 DEF SchedulerTypeOK, ActiveIsCurrent
<1>5. FramesOK'
  BY <1>3 DEF SwitchContext, PendSV, FramesOK
<1> QED BY <1>3, <1>4, <1>5 DEF semVars, SemaphoreTypeOK, DelayTypeOK

(* Every step of the kernel.                                                 *)
LEMMA TypeInvStep == TypeInv /\ [Next]_vars => TypeInv'
<1> SUFFICES ASSUME TypeInv, [Next]_vars PROVE TypeInv'
  OBVIOUS
<1>1. ASSUME NEW t \in Task, Yielding(t) PROVE TypeInv'
  BY <1>1, YieldingKeeps
<1>2. ASSUME NEW t \in Task, WaitUntilTail(t) PROVE TypeInv'
  BY <1>2, WaitUntilTailKeeps
<1>3. ASSUME NEW t \in Task, Call(t) PROVE TypeInv'
  <2>0. Waits[t] \in SUBSET Sem /\ TimedWaits[t] \in SUBSET Sem
        /\ Signals[t] \in SUBSET Sem /\ Sleeps[t] \in SUBSET Nat
        /\ Times \in SUBSET Nat
    BY ProgramAssumption, TimesAssumption
  <2>1. ASSUME NEW s \in Waits[t], SemWait(t, s, "run"), UNCHANGED <<delays, frame>>
        PROVE  TypeInv'
    BY <2>0, <2>1, SemWaitKeeps
  <2>2. ASSUME NEW s \in Signals[t], SemSignal(t, s), UNCHANGED <<delays, frame>>
        PROVE  TypeInv'
    <3>1. /\ SignalSection(s) /\ event' = event
          /\ UNCHANGED <<ring, is_sleep_mode, psp, pc, ktick, fault>>
      BY <2>2 DEF SemSignal
    <3>2. event' \in BOOLEAN
      BY <3>1 DEF TypeInv, TypeOK, SchedulerTypeOK
    <3> QED BY <2>0, <2>2, <3>1, <3>2, SignalKeeps
  <2>3. ASSUME NEW s \in TimedWaits[t], NEW time \in Times, WaitUntil(t, s, time)
        PROVE  TypeInv'
    BY <2>0, <2>3, WaitUntilKeeps
  <2>4. ASSUME NEW time \in Sleeps[t], DelayMs(t, time), UNCHANGED <<semVars, frame>>
        PROVE  TypeInv'
    BY <2>0, <2>4, DelayMsKeeps
  <2>5. ASSUME TaskFinish(t), UNCHANGED <<semVars, delays, frame>>
        PROVE  TypeInv'
    BY <2>5, TaskFinishKeeps
  <2> QED BY <1>3, <2>1, <2>2, <2>3, <2>4, <2>5 DEF Call
<1>4. CASE SysTick
  BY <1>4, SysTickKeeps
<1>5. CASE Isr
  <2>1. PICK s \in Sem : IsrSignal(s) /\ UNCHANGED <<delays, frame>>
    BY <1>5, ProgramAssumption DEF Isr
  <2>2. /\ SignalSection(s) /\ event' \in BOOLEAN
        /\ UNCHANGED <<ring, is_sleep_mode, psp, pc, ktick, fault>>
    BY <2>1 DEF IsrSignal
  <2> QED BY <2>1, <2>2, SignalKeeps
<1>6. CASE SwitchContext
  BY <1>6, SwitchContextKeeps
<1>7. CASE UNCHANGED vars
  BY <1>7 DEF vars, schedVars, cpuVars, semVars, TypeInv, TypeOK, SchedulerTypeOK,
     SemaphoreTypeOK, DelayTypeOK, FramesOK, ActiveIsCurrent
<1>8. CASE Halted
  BY <1>7, <1>8 DEF Halted
<1> QED BY <1>1, <1>2, <1>3, <1>4, <1>5, <1>6, <1>7, <1>8 DEF Next

(* The type invariant holds in every behaviour.                              *)
LEMMA TypeInvAlways == Spec => []TypeInv
  BY TypeInvInit, TypeInvStep, PTL DEF Spec

(* Every variable keeps to its type: in particular no list ever holds a PID  *)
(* that is not a task's, the uint8_t never leaves its width, and the tail of *)
(* pos_semaphore_wait_until never runs without a semaphore.                  *)
THEOREM TypeCorrect == Spec => []TypeOK
  BY TypeInvAlways, PTL DEF TypeInv

(* At most one task is ACTIVE, the one pos_schedule_tasks or                 *)
(* pos_force_goto_task chose last: for every program, also those with HIGH   *)
(* tasks and timed waits, whose switches can go wrong otherwise.             *)
THEOREM OneActive == Spec => []ActiveIsCurrent
  BY TypeInvAlways, PTL DEF TypeInv

-----------------------------------------------------------------------------
(* Who is chosen and who runs, with HIGH tasks and double requests too.      *)

HighTasks == {t \in Task : Prio[t] = "HIGH"}

(* The globals are left alone, or a switch to a task of S is requested.      *)
Turned(S) ==
    \/ UNCHANGED <<cte, next_task, pendsv>>
    \/ cte' \in S /\ next_task' = cte' /\ pendsv'

(* What a step is to them: PendSV, the end of a task, or a request.          *)
StepKind ==
    \/ SwitchContext
    \/ \E t \in Finishers : TaskFinish(t)
    \/ /\ Turned(ring \cup HighTasks)
       /\ UNCHANGED <<psp, ring>>
       /\ fault' = "none" => fault = "none"
       /\ \A t \in Task : pc'[t] = "done" => pc[t] = "done"

(* pos_schedule_tasks turns to a task of the ring, or nobody there is ready. *)
LEMMA ScheduleTurns ==
    ASSUME TypeInv, NEW rg \in SUBSET Task, Schedule(rg)
    PROVE  \/ cte' \in rg /\ next_task' = cte' /\ pendsv' /\ UNCHANGED fault
           \/ /\ UNCHANGED <<cte, next_task, pendsv>>
              /\ fault' = IF cte \in rg THEN fault ELSE "hung"
<1>1. CASE ReadyIn(rg) = {}
  BY <1>1 DEF Schedule, NoSwitch
<1>2. CASE ReadyIn(rg) # {}
  <2>1. NextReady(cte, ReadyIn(rg)) \in ReadyIn(rg)
    BY <1>2, NextReadyIsReady DEF ReadyIn, TypeInv, TypeOK, SchedulerTypeOK
  <2> QED BY <1>2, <2>1 DEF Schedule, RequestSwitch, ReadyIn
<1> QED BY <1>1, <1>2

(* A wakeup turns to the woken task, which is HIGH, or to nobody.            *)
LEMMA ReadyTurns ==
    ASSUME NEW pid \in Task, NEW st, NEW ticks, Ready(pid, st, ticks)
    PROVE  Turned(HighTasks)
<1>1. CASE SwitchesNow(pid)
  <2>1. pid \in HighTasks
    BY <1>1 DEF SwitchesNow, HighTasks
  <2> QED BY <1>1, <2>1 DEF Ready, ForceGoto, RequestSwitch, Turned
<1>2. CASE ~SwitchesNow(pid)
  BY <1>2 DEF Ready, NoSwitch, Turned
<1> QED BY <1>1, <1>2

(* So does a signal, from a task or an interrupt.                            *)
LEMMA SignalTurns ==
    ASSUME TypeInv, NEW s \in Sem, SignalSection(s)
    PROVE  Turned(HighTasks)
<1> DEFINE st == DeqStatus(sem_q[s], status)
           pid == DeqPid(sem_q[s])
<1>1. sem_q[s] \in Seq(Task) /\ status \in [Task -> Status]
  BY DEF TypeInv, TypeOK, SchedulerTypeOK, SemaphoreTypeOK
<1>2. pid \in Task \cup {NoTask}
  BY <1>1, DeqStatusType
<1>3. IF pid = NoTask
      THEN NoSwitch(st) /\ UNCHANGED <<os_mode, elapsed_ticks>>
      ELSE Ready(pid, st, elapsed_ticks)
  BY DEF SignalSection
<1> HIDE DEF st, pid
<1> QED BY <1>2, <1>3, ReadyTurns DEF NoSwitch, Turned

(* So does an elapsed delay; a tick never repairs a fault.                   *)
LEMMA DelayTickTurns ==
    ASSUME TypeInv, NEW ticks, DelayTick(ticks)
    PROVE  Turned(HighTasks) /\ (fault' = fault \/ fault' = "unexpected_error")
<1> DEFINE list == CountDown(delays)
           pid == list[1].pid
           woken == [status EXCEPT ![pid] = AwakeStatus(pid)]
<1>1. HeadElapsed(list) => pid \in Task
  BY CountDownType DEF HeadElapsed, TypeInv, TypeOK, DelayTypeOK
<1>2. \/ NoSwitch(status) /\ (fault' = fault \/ fault' = "unexpected_error")
      \/ HeadElapsed(list) /\ Ready(pid, woken, ticks) /\ fault' = fault
  BY DEF DelayTick
<1> HIDE DEF list, pid, woken
<1> QED BY <1>1, <1>2, ReadyTurns DEF NoSwitch, Turned

(* Every step is of one of the three kinds.                                  *)
LEMMA StepHasKind ==
    ASSUME TypeInv, [Next]_vars
    PROVE  StepKind
<1>0. /\ ring \in SUBSET Task /\ pc \in [Task -> Pc]
      /\ \A S : Turned(HighTasks) \/ Turned(ring) => Turned(ring \cup HighTasks)
  BY DEF TypeInv, TypeOK, SchedulerTypeOK, Turned
<1>1. ASSUME NEW t \in Task, Yielding(t) PROVE StepKind
  <2>1. CASE EnterSvc(t) \/ WakeCpu(t)
             \/ ReturnFromYield(t, IF frame[t].sem = NoSem THEN "run" ELSE "wu_check")
    BY <1>0, <2>1 DEF EnterSvc, WakeCpu, AfterWake, ReturnFromYield, Goto, At, schedVars,
       Turned, StepKind
  <2>2. CASE SleepCpu(t)
    <3>1. Turned(ring)
      BY <1>0, <2>2, ScheduleTurns DEF SleepCpu, Turned
    <3> QED BY <1>0, <2>2, <3>1 DEF SleepCpu, Goto, At, StepKind
  <2> QED BY <1>1, <2>1, <2>2 DEF Yielding
<1>2. ASSUME NEW t \in Task, WaitUntilTail(t) PROVE StepKind
  BY <1>0, <1>2 DEF WaitUntilTail, CheckTimeout, BeginWalk, VisitEntry, UnlinkEntry,
     LoadCnt, StoreCnt, ReadQueue, UnlinkHead, GoOn, Goto, At, schedVars, Turned, StepKind
<1>3. ASSUME NEW t \in Task, Call(t) PROVE StepKind
  <2>1. ASSUME NEW s \in Sem, NEW time, SemWait(t, s, "run") \/ WaitUntil(t, s, time)
                                           \/ DelayMs(t, time)
        PROVE  StepKind
    <3>1. At(t, "run") /\ (GoOn(t, "run") \/ BeginYield(t))
      BY <2>1 DEF SemWait, WaitUntil, DelayMs
    <3> QED BY <1>0, <3>1 DEF GoOn, BeginYield, Goto, At, schedVars, Turned, StepKind
  <2>2. ASSUME NEW s \in Sem, SemSignal(t, s) PROVE StepKind
    BY <1>0, <2>2, SignalTurns DEF SemSignal, At, StepKind
  <2>3. CASE \E time \in Sleeps[t] : DelayMs(t, time)
    BY <1>0, <2>3 DEF DelayMs, BeginYield, Goto, At, schedVars, Turned, StepKind
  <2>4. CASE t \in Finishers /\ TaskFinish(t)
    BY <2>4 DEF StepKind
  <2> QED BY <1>3, <2>1, <2>2, <2>3, <2>4, ProgramAssumption DEF Call
<1>4. CASE SysTick
  <2>1. Schedule(ring) \/ DelayTick((elapsed_ticks + 1) % 256)
    BY <1>4 DEF SysTick
  <2>2. Turned(ring) \/ Turned(HighTasks)
    BY <1>0, <2>1, ScheduleTurns, DelayTickTurns DEF Turned
  <2> QED BY <1>0, <1>4, <2>2 DEF SysTick, StepKind
<1>5. CASE Isr
  <2>1. PICK s \in Sem : IsrSignal(s)
    BY <1>5, ProgramAssumption DEF Isr
  <2> QED BY <1>0, <2>1, SignalTurns DEF IsrSignal, StepKind
<1>6. CASE SwitchContext
  BY <1>6 DEF StepKind
<1>7. CASE UNCHANGED vars
  BY <1>0, <1>7 DEF vars, schedVars, cpuVars, Turned, StepKind
<1>8. CASE Halted
  BY <1>7, <1>8 DEF Halted
<1> QED BY <1>1, <1>2, <1>3, <1>4, <1>5, <1>6, <1>7, <1>8 DEF Next

(* The pending switch leads to the ring element, whatever it saves.          *)
ChosenInv ==
    /\ TypeInv
    /\ pendsv => next_task = cte
    /\ CurrentIsRunning

(* The first task is current when the scheduler has started it.              *)
LEMMA ChosenInvInit == Init => ChosenInv
  BY TypeInvInit DEF ChosenInv, CurrentIsRunning, Init, SchedulerInit

(* PendSV loads what the last request chose, and nobody else changes psp.    *)
LEMMA ChosenInvStep == ChosenInv /\ [Next]_vars => ChosenInv'
<1> SUFFICES ASSUME ChosenInv, [Next]_vars PROVE ChosenInv'
  OBVIOUS
<1> USE DEF ChosenInv, CurrentIsRunning
<1>1. TypeInv' /\ StepKind /\ pendsv \in BOOLEAN
  BY TypeInvStep, StepHasKind DEF TypeInv, TypeOK, SchedulerTypeOK
<1>2. CASE SwitchContext
  BY <1>1, <1>2 DEF SwitchContext, PendSV
<1>3. ASSUME NEW t \in Finishers, TaskFinish(t) PROVE ChosenInv'
  <2> DEFINE rg == ring'
  <2>1. fault = "none" /\ UNCHANGED psp /\ Schedule(rg) /\ rg \in SUBSET Task
    BY <1>3 DEF TaskFinish, At, KilledRing, TypeInv, TypeOK, SchedulerTypeOK
  <2> HIDE DEF rg
  <2>2. \/ next_task' = cte' /\ pendsv'
        \/ UNCHANGED <<cte, next_task, pendsv>>
    BY <2>1, ScheduleTurns
  <2> QED BY <1>1, <2>1, <2>2
<1>4. CASE Turned(ring \cup HighTasks) /\ UNCHANGED psp /\ (fault' = "none" => fault = "none")
  BY <1>1, <1>4 DEF Turned
<1> QED BY <1>1, <1>2, <1>3, <1>4 DEF StepKind

(* The invariant holds in every behaviour.                                   *)
LEMMA ChosenInvAlways == Spec => []ChosenInv
  BY ChosenInvInit, ChosenInvStep, PTL DEF Spec

(* _pos_get_current_pid names the caller, for every program: what a task     *)
(* enqueues, delays and blocks is itself.  Two requests before a PendSV may  *)
(* lose a context; they never leave the ring element on another task than    *)
(* the one that PendSV puts on the CPU.                                      *)
THEOREM CallerIsCurrent == Spec => []CurrentIsRunning
  BY ChosenInvAlways, PTL DEF ChosenInv

(* The programs whose HIGH tasks do not return from their main functions.  A *)
(* timed wait may leave a HIGH task that has finished in a semaphore's list, *)
(* and a signal would switch to it.                                          *)
FinishClass == \A t \in Finishers : Prio[t] # "HIGH"

(* Who has finished is unlinked, and whoever may be chosen is linked.        *)
RingFits ==
    /\ Task \ Finishers \subseteq ring
    /\ \A t \in Task : pc[t] = "done" => t \notin ring
    /\ fault = "none" => cte \in ring

RingInv == ChosenInv /\ RingFits

(* Every task is linked when the scheduler starts.                           *)
LEMMA RingInvInit == Init => RingInv
<1> SUFFICES ASSUME Init PROVE RingInv
  OBVIOUS
<1>1. 1 \in Task
  BY TasksAssumption DEF Task
<1> QED BY <1>1, ChosenInvInit DEF RingInv, RingFits, Init, SchedulerInit

(* Only the end of a task unlinks one, and its walk ends in the ring.        *)
LEMMA RingInvStep ==
    ASSUME FinishClass
    PROVE  RingInv /\ [Next]_vars => RingInv'
<1> SUFFICES ASSUME RingInv, [Next]_vars PROVE RingFits'
  BY ChosenInvStep DEF RingInv
<1> USE DEF RingInv, RingFits
<1>1. StepKind /\ TypeInv /\ cte \in Task /\ pc \in [Task -> Pc] /\ ring \in SUBSET Task
  BY StepHasKind DEF ChosenInv, TypeInv, TypeOK, SchedulerTypeOK
<1>2. CASE SwitchContext
  BY <1>2 DEF SwitchContext, PendSV
<1>3. ASSUME NEW t \in Finishers, TaskFinish(t) PROVE RingFits'
  <2>0. t \in Task /\ pendsv \in BOOLEAN
    BY ProgramAssumption, <1>1 DEF TypeInv, TypeOK, SchedulerTypeOK
  <2>1. fault = "none" /\ psp = t /\ ~pendsv /\ pc' = [pc EXCEPT ![t] = "done"]
        /\ ring' = ring \ {cte}
    BY <1>3 DEF TaskFinish, At, InHandler, KilledRing, Goto
  <2>2. cte = t
    BY <2>1 DEF ChosenInv, CurrentIsRunning
  <2> DEFINE rg == ring'
  <2>3. Schedule(rg) /\ rg \in SUBSET Task
    BY <1>1, <1>3, <2>1 DEF TaskFinish
  <2> HIDE DEF rg
  <2>4. cte' \in rg \/ fault' = IF cte \in rg THEN fault ELSE "hung"
    BY <1>1, <2>3, ScheduleTurns
  <2> QED BY <1>1, <2>0, <2>1, <2>2, <2>4 DEF rg
<1>4. CASE /\ Turned(ring \cup HighTasks) /\ UNCHANGED <<psp, ring>>
           /\ fault' = "none" => fault = "none"
           /\ \A t \in Task : pc'[t] = "done" => pc[t] = "done"
  <2>1. HighTasks \subseteq ring
    BY DEF FinishClass, HighTasks
  <2> QED BY <1>4, <2>1 DEF Turned
<1> QED BY <1>1, <1>2, <1>3, <1>4 DEF StepKind

(* pos_task_finish has no way back: whoever has finished is never chosen     *)
(* again, and is on the CPU only until the pending switch is taken.          *)
THEOREM FinishedTasksStayOff ==
    ASSUME FinishClass
    PROVE  Spec => []FinishedStaysOff
<1>1. RingInv => FinishedStaysOff
  BY DEF RingInv, RingFits, ChosenInv, CurrentIsRunning, FinishedStaysOff
<1> QED BY <1>1, RingInvInit, RingInvStep, PTL DEF Spec

-----------------------------------------------------------------------------
(* II. The switches, round robin and to HIGH tasks: in a program whose main  *)
(* functions do not return they are sound when HIGH tasks are woken by tasks *)
(* and by nothing else, for every number of tasks of every priority, every   *)
(* mix of waits, timed waits, delays and interrupts among the others.  Both  *)
(* conditions are needed: DoubleRequest, StaleSleepFlag, FinishHang and      *)
(* FinishSlice show what happens without.                                    *)

(* What wakes a HIGH task switches to it at once.  A tick or an interrupt    *)
(* may do so between a request of the scheduler and its PendSV; a task may   *)
(* not, it is not running then.                                              *)
HighClass ==
    \A t \in HighTasks :
        Sleeps[t] = {} /\ TimedWaits[t] = {} /\ Waits[t] \cap IsrSems = {}

ProgramClass == HighClass /\ Finishers = {}

InYield(p) == p \in {"yield", "svc", "wfe"}

(* The globals name the task on the CPU, or the pending switch away from it. *)
GlobalsFit ==
    /\ ~pendsv => cte = psp
    /\ SwitchFromRunning

(* Only the task on the CPU is on its way into pos_sleep_cpu, and no switch  *)
(* is pending there.                                                         *)
YieldsAlone ==
    /\ \A t \in Task : InYield(pc[t]) => t = psp
    /\ pendsv => ~InYield(pc[psp])

(* Why no slice ends on the way: a kernel path starts with the count zero    *)
(* and sees one tick at most, and a quantum has two.                         *)
SliceFits ==
    /\ quantum >= 2
    /\ SliceBounded
    /\ pendsv \/ InYield(pc[psp]) => elapsed_ticks <= (IF ktick THEN 1 ELSE 0)

(* A blocked task is inside pos_yield, and the one chosen is not blocked.    *)
BlockedInYield ==
    /\ \A t \in Task : status[t] \in Blocked => InYield(pc[t]) \/ pc[t] = "resumed"
    /\ pendsv \/ ~InYield(pc[psp]) => status[cte] \notin Blocked

SwitchInv ==
    /\ GlobalsFit
    /\ YieldsAlone
    /\ SliceFits
    /\ BlockedInYield
    /\ SleepsOnlyWhenBlocked
    /\ ChargedToRunner

(* What ticks and interrupts find to wake is never HIGH, nor is it in what   *)
(* the tail of pos_semaphore_wait_until writes back.                         *)
HighFits ==
    /\ \A s \in IsrSems : Waiting(s) \cap HighTasks = {}
    /\ \A i \in 1 .. Len(delays) : delays[i].pid \notin HighTasks
    /\ \A t \in Task :
          pc[t] = "wu_free" /\ fault = "none" /\ frame[t].sem \in IsrSems =>
              \A i \in 1 .. Len(frame[t].q) : frame[t].q[i] \notin HighTasks

RoundRobinInv == TypeInv /\ SwitchInv /\ HighFits

-----------------------------------------------------------------------------
(* What the steps do to the globals.                                         *)

WakesOnly == \A t \in Task : status'[t] \in Blocked => status[t] \in Blocked

globals == <<cte, current_task, next_task, quantum, pendsv>>

(* A switch was requested. *)
Requested ==
    /\ pendsv' /\ current_task' = cte /\ next_task' = cte'
    /\ quantum' \in Nat /\ quantum' >= 2
    /\ status'[cte'] \notin Blocked
    /\ WakesOnly

(* What pos_schedule_tasks asks for: a switch to a ready task, saved from the *)
(* current one, or, with nobody ready, nothing but a sleeping kernel.        *)
LEMMA ScheduleEffect ==
    ASSUME TypeInv, NEW rg \in SUBSET Task, Schedule(rg)
    PROVE  \/ ReadyIn(rg) # {} /\ Requested /\ UNCHANGED fault
           \/ ReadyIn(rg) = {} /\ UNCHANGED <<status, globals>>
<1>1. status \in [Task -> Status] /\ cte \in Task /\ pendsv \in BOOLEAN
  BY DEF TypeInv, TypeOK, SchedulerTypeOK
<1>2. CASE ReadyIn(rg) = {}
  BY <1>2 DEF Schedule, NoSwitch, globals
<1>3. CASE ReadyIn(rg) # {}
  <2> DEFINE nxt == NextReady(cte, ReadyIn(rg))
  <2>1. nxt \in ReadyIn(rg)
    BY <1>1, <1>3, NextReadyIsReady DEF ReadyIn
  <2>2. nxt \in Task /\ status[nxt] \notin Blocked
    BY <2>1 DEF ReadyIn
  <2>3. RequestSwitch(nxt, status) /\ UNCHANGED fault
    BY <1>3 DEF Schedule
  <2> HIDE DEF nxt
  <2>4. quantum' \in Nat /\ quantum' >= 2
    BY <1>1, <2>3, QuantumValue, PrioAssumption DEF RequestSwitch
  <2>5. status'[nxt] \notin Blocked /\ WakesOnly
    BY <1>1, <2>2, <2>3 DEF RequestSwitch, SwitchStatus, WakesOnly, Blocked
  <2> QED BY <1>3, <2>3, <2>4, <2>5 DEF RequestSwitch, Requested
<1> QED BY <1>2, <1>3

(* The statuses that only a wakeup, or the task itself, changes.             *)
Asleep == Blocked \cup {"DELAY_TIMEOUT"}

(* The tasks of T are awake, and nothing else happens to the sleepers.       *)
OnlyWakes(T) ==
    \A t \in Task, b \in Asleep : status'[t] = b <=> status[t] = b /\ t \notin T

(* A switch to a HIGH task was requested, and its slice begins.              *)
Preempted == Requested /\ elapsed_ticks' = 0 /\ os_mode' = "KERNEL_ACTIVE"

(* The wakeup of a task below HIGH never switches.                           *)
LEMMA ReadyEffect ==
    ASSUME NEW pid \in Task \ HighTasks, NEW st, NEW ticks, Ready(pid, st, ticks)
    PROVE  status' = st /\ elapsed_ticks' = ticks /\ UNCHANGED <<globals, os_mode>>
  BY DEF HighTasks, Ready, SwitchesNow, NoSwitch, globals

(* A wakeup wakes one task; if that is HIGH, it may be switched to.          *)
LEMMA ReadyWakes ==
    ASSUME TypeInv, NEW pid \in Task, NEW b \in {"IDLE", "ACTIVE"},
           NEW ticks, Ready(pid, [status EXCEPT ![pid] = b], ticks)
    PROVE  /\ OnlyWakes({pid})
           /\ \/ UNCHANGED <<globals, os_mode>> /\ elapsed_ticks' = ticks
              \/ pid \in HighTasks /\ Preempted
<1> DEFINE st == [status EXCEPT ![pid] = b]
<1>1. status \in [Task -> Status] /\ cte \in Task
  BY DEF TypeInv, TypeOK, SchedulerTypeOK
<1>2. CASE SwitchesNow(pid)
  <2>1. /\ pid \in HighTasks /\ elapsed_ticks' = 0 /\ os_mode' = "KERNEL_ACTIVE"
        /\ RequestSwitch(pid, [st EXCEPT ![pid] = "ACTIVE"])
    BY <1>2 DEF Ready, SwitchesNow, HighTasks, ForceGoto, pos_reset_task_timer
  <2>2. [st EXCEPT ![pid] = "ACTIVE"] = [status EXCEPT ![pid] = "ACTIVE"]
    BY <1>1
  <2>3. status' = SwitchStatus([status EXCEPT ![pid] = "ACTIVE"], cte, pid)
    BY <2>1, <2>2 DEF RequestSwitch
  <2>4. \A t \in Task : \/ status'[t] = status[t]
                         \/ {status[t], status'[t]} \subseteq {"IDLE", "ACTIVE"}
                         \/ t = pid
    BY <1>1, <2>3 DEF SwitchStatus
  <2>5. status'[pid] \in {"IDLE", "ACTIVE"}
    BY <1>1, <2>3 DEF SwitchStatus
  <2>6. OnlyWakes({pid}) /\ WakesOnly /\ status'[pid] \notin Blocked
    BY <2>4, <2>5 DEF OnlyWakes, Asleep, Blocked, WakesOnly
  <2>7. quantum' \in Nat /\ quantum' >= 2
    BY <1>1, <2>1, QuantumValue, PrioAssumption DEF RequestSwitch
  <2> QED BY <2>1, <2>6, <2>7 DEF RequestSwitch, Requested, Preempted
<1>3. CASE ~SwitchesNow(pid)
  <2>1. /\ status' = st /\ elapsed_ticks' = ticks /\ UNCHANGED <<globals, os_mode>>
    BY <1>3 DEF Ready, NoSwitch, globals
  <2> QED BY <1>1, <2>1 DEF OnlyWakes, Asleep, Blocked
<1> QED BY <1>2, <1>3

(* Who is blocked behind a wakeup was blocked before it.                     *)
LEMMA WakersWake ==
    ASSUME NEW T, OnlyWakes(T)
    PROVE  WakesOnly
  BY DEF OnlyWakes, WakesOnly, Asleep

(* A task that is blocked behind a signal was blocked before it.             *)
LEMMA DeqStatusWakes ==
    ASSUME NEW q \in Seq(Task), NEW st \in [Task -> Status], NEW t \in Task,
           DeqStatus(q, st)[t] \in Blocked
    PROVE  st[t] \in Blocked
<1>1. CASE q = <<>>
  BY <1>1 DEF DeqStatus
<1>2. CASE q # <<>>
  <2>1. Head(q) \in Task
    BY <1>2, HeadTailProperties
  <2> QED BY <1>2, <2>1 DEF DeqStatus, Blocked
<1> QED BY <1>1, <1>2

(* The one a signal wakes.                                                   *)
HeadOf(q) == IF q = <<>> THEN {} ELSE {Head(q)}

(* A list that is not empty holds its head.                                  *)
LEMMA HeadIsIn ==
    ASSUME NEW S, NEW q \in Seq(S), q # <<>>
    PROVE  Head(q) \in S /\ Head(q) = q[1] /\ 1 \in 1 .. Len(q) /\ Len(q) \in Nat \ {0}
  BY HeadTailProperties, EmptySeq

(* A signal wakes the head of the line, and requests a switch only to a HIGH *)
(* task.                                                                     *)
LEMMA SignalEffect ==
    ASSUME TypeInv, NEW s \in Sem, SignalSection(s)
    PROVE  /\ OnlyWakes(HeadOf(sem_q[s]))
           /\ WakesOnly
           /\ \/ UNCHANGED <<globals, elapsed_ticks, os_mode>>
              \/ Waiting(s) \cap HighTasks # {} /\ Preempted
<1> DEFINE st == DeqStatus(sem_q[s], status)
           pid == DeqPid(sem_q[s])
           q == sem_q[s]
<1>1. q \in Seq(Task) /\ status \in [Task -> Status]
  BY DEF TypeInv, TypeOK, SchedulerTypeOK, SemaphoreTypeOK
<1>2. IF pid = NoTask
      THEN NoSwitch(st) /\ UNCHANGED <<os_mode, elapsed_ticks>>
      ELSE Ready(pid, st, elapsed_ticks)
  BY DEF SignalSection
<1>3. CASE q = <<>>
  <2>1. pid = NoTask /\ st = status /\ HeadOf(q) = {}
    BY <1>3 DEF DeqPid, DeqStatus, HeadOf
  <2> QED BY <1>2, <2>1 DEF NoSwitch, globals, OnlyWakes, WakesOnly
<1>4. CASE q # <<>>
  <2> DEFINE h == Head(q)
  <2>1. h \in Task /\ h \in Waiting(s)
    <3>1. h \in Task /\ h = q[1] /\ 1 \in 1 .. Len(q)
      <4> HIDE DEF q
      <4> QED BY <1>1, <1>4, HeadIsIn
    <3> QED BY <3>1 DEF Waiting
  <2>2. pid = h /\ pid # NoTask /\ st = [status EXCEPT ![h] = "IDLE"] /\ HeadOf(q) = {h}
    BY <1>4, <2>1 DEF DeqPid, DeqStatus, HeadOf, Task, NoTask
  <2>3. Ready(h, [status EXCEPT ![h] = "IDLE"], elapsed_ticks)
    BY <1>2, <2>2
  <2> HIDE DEF h, q
  <2>4. /\ OnlyWakes({h})
        /\ \/ UNCHANGED <<globals, os_mode>> /\ elapsed_ticks' = elapsed_ticks
           \/ h \in HighTasks /\ Preempted
    BY <2>1, <2>3, ReadyWakes
  <2> QED BY <2>1, <2>2, <2>4, WakersWake DEF q
<1> QED BY <1>3, <1>4

(* Counting down changes no PID.                                             *)
LEMMA CountDownPids ==
    ASSUME NEW list \in Seq(Entry)
    PROVE  /\ Len(CountDown(list)) = Len(list)
           /\ \A i \in 1 .. Len(list) : CountDown(list)[i].pid = list[i].pid
<1>1. \A i \in 1 .. Len(list) : list[i] \in Entry
  BY ElementOfSeq
<1>2. Len(list) \in Nat
  BY LenProperties
<1>3. Len(CountDown(list)) = Len(list)
  BY <1>2 DEF CountDown
<1>4. \A i \in 1 .. Len(list) : CountDown(list)[i].pid = list[i].pid
  BY <1>1 DEF CountDown, Entry
<1> QED BY <1>3, <1>4

(* The entry that elapses is one of the list's.                              *)
LEMMA TickedIsBelowHigh ==
    ASSUME HighFits, TypeInv, CountDown(delays) # <<>>
    PROVE  CountDown(delays)[1].pid \in Task \ HighTasks
<1> DEFINE list == CountDown(delays)
<1>1. delays \in Seq(Entry)
  BY DEF TypeInv, TypeOK, DelayTypeOK
<1>2. list \in Seq(Entry) /\ Len(list) = Len(delays) /\ list[1].pid \in Task
      /\ \A i \in 1 .. Len(delays) : list[i].pid = delays[i].pid
  BY <1>1, CountDownType, CountDownPids
<1> HIDE DEF list
<1>3. 1 \in 1 .. Len(delays)
  BY <1>2, HeadIsIn DEF list
<1> QED BY <1>2, <1>3 DEF HighFits, list

(* The tick wakes nobody or the head of the delay list, which is below HIGH, *)
(* and requests no switch.                                                   *)
LEMMA DelayTickEffect ==
    ASSUME HighFits, TypeInv, NEW ticks, DelayTick(ticks)
    PROVE  WakesOnly /\ elapsed_ticks' = ticks /\ UNCHANGED <<globals, os_mode>>
<1> DEFINE list == CountDown(delays)
           pid == list[1].pid
           woken == [status EXCEPT ![pid] = AwakeStatus(pid)]
<1>1. delays \in Seq(Entry) /\ status \in [Task -> Status]
  BY DEF TypeInv, TypeOK, SchedulerTypeOK, DelayTypeOK
<1>2. HeadElapsed(list) => pid \in Task \ HighTasks
  BY TickedIsBelowHigh DEF HeadElapsed
<1>3. HeadElapsed(list) => \A t \in Task : woken[t] \in Blocked => status[t] \in Blocked
  <2>1. AwakeStatus(pid) \notin Blocked
    BY DEF AwakeStatus, Blocked
  <2> HIDE DEF pid
  <2> QED BY <1>1, <1>2, <2>1
<1>4. \/ NoSwitch(status) /\ elapsed_ticks' = ticks /\ UNCHANGED os_mode
      \/ HeadElapsed(list) /\ Ready(pid, woken, ticks)
  BY DEF DelayTick
<1> HIDE DEF list, pid, woken
<1>5. CASE NoSwitch(status) /\ elapsed_ticks' = ticks /\ UNCHANGED os_mode
  BY <1>5 DEF NoSwitch, globals, WakesOnly
<1>6. CASE HeadElapsed(list) /\ Ready(pid, woken, ticks)
  <2>1. status' = woken /\ elapsed_ticks' = ticks /\ UNCHANGED <<globals, os_mode>>
    BY <1>2, <1>6, ReadyEffect
  <2> QED BY <1>3, <1>6, <2>1 DEF WakesOnly
<1> QED BY <1>4, <1>5, <1>6

-----------------------------------------------------------------------------
(* What the steps do to the lines.                                           *)

(* Whoever is appended is in the line, and everybody who was.                *)
LEMMA EnqLines ==
    ASSUME TypeInv, NEW s \in Sem, NEW u \in Task,
           sem_q' = [sem_q EXCEPT ![s] = Append(@, u)]
    PROVE  \A r \in Sem : Waiting(r)' = IF r = s THEN Waiting(s) \cup {u} ELSE Waiting(r)
<1>1. sem_q \in [Sem -> Seq(Task)]
  BY DEF TypeInv, TypeOK, SemaphoreTypeOK
<1>2. \A r \in Sem \ {s} : Waiting(r)' = Waiting(r)
  BY <1>1 DEF Waiting
<1>3. Waiting(s)' = Waiting(s) \cup {u}
  <2> DEFINE q == sem_q[s]
             p == sem_q'[s]
  <2>1. q \in Seq(Task) /\ p = Append(q, u)
    BY <1>1
  <2> HIDE DEF q, p
  <2>2. /\ Len(q) \in Nat /\ Len(p) = Len(q) + 1 /\ p[Len(q) + 1] = u
        /\ \A i \in 1 .. Len(q) : p[i] = q[i]
    BY <2>1, AppendProperties, LenProperties
  <2>3. \A i \in 1 .. Len(p) : p[i] = u \/ \E j \in 1 .. Len(q) : q[j] = p[i]
    BY <2>2
  <2>4. \A i \in 1 .. Len(q) : \E j \in 1 .. Len(p) : p[j] = q[i]
    BY <2>2
  <2>5. \E j \in 1 .. Len(p) : p[j] = u
    <3>1. Len(q) + 1 \in 1 .. Len(p)
      BY <2>2
    <3> QED BY <2>2, <3>1
  <2> QED BY <2>3, <2>4, <2>5 DEF Waiting, q, p
<1> QED BY <1>2, <1>3

(* A list without its head holds nobody else.                                *)
LEMMA TailIsPart ==
    ASSUME NEW S, NEW q \in Seq(S), q # <<>>
    PROVE  \A i \in 1 .. Len(Tail(q)) : i + 1 \in 1 .. Len(q) /\ Tail(q)[i] = q[i + 1]
<1> DEFINE p == Tail(q)
<1>1. /\ Len(q) \in Nat \ {0} /\ Len(p) = Len(q) - 1
      /\ \A i \in 1 .. Len(p) : p[i] = q[i + 1]
  BY HeadTailProperties, EmptySeq
<1> HIDE DEF p
<1>2. \A i \in 1 .. Len(p) : i + 1 \in 1 .. Len(q)
  BY <1>1
<1> QED BY <1>1, <1>2 DEF p

(* Who joins a line that does not hold it stands there once.                 *)
LEMMA JoinLine ==
    ASSUME TypeInv, NEW s \in Sem, NEW u \in Task, EachOnce(sem_q[s]), u \notin Waiting(s),
           sem_q' = [sem_q EXCEPT ![s] = Append(@, u)]
    PROVE  /\ EachOnce(sem_q'[s]) /\ Len(sem_q'[s]) = Len(sem_q[s]) + 1
           /\ \A r \in Sem \ {s} : sem_q'[r] = sem_q[r]
<1>1. sem_q \in [Sem -> Seq(Task)]
  BY DEF TypeInv, TypeOK, SemaphoreTypeOK
<1> DEFINE q == sem_q[s]
           p == sem_q'[s]
<1>2. p = Append(q, u) /\ EachOnce(q) /\ q \in Seq(Task) /\ \A i \in 1 .. Len(q) : q[i] # u
  BY <1>1 DEF Waiting
<1> HIDE DEF q, p
<1>3. EachOnce(p) /\ Len(p) = Len(q) + 1
  BY <1>2, JoinList
<1> QED BY <1>1, <1>3 DEF q, p

(* Unlinking the head of a line takes one task out of it, and only it.       *)
LEMMA LeaveLine ==
    ASSUME TypeInv, NEW s \in Sem, EachOnce(sem_q[s]), sem_q[s] # <<>>,
           sem_q' = [sem_q EXCEPT ![s] = Tail(@)]
    PROVE  /\ Head(sem_q[s]) \in Waiting(s) /\ Head(sem_q[s]) \in Task
           /\ EachOnce(sem_q'[s]) /\ Len(sem_q'[s]) = Len(sem_q[s]) - 1
           /\ \A r \in Sem \ {s} : sem_q'[r] = sem_q[r]
           /\ \A r \in Sem : Waiting(r)' = IF r = s THEN Waiting(s) \ {Head(sem_q[s])}
                                                   ELSE Waiting(r)
<1> DEFINE q == sem_q[s]
           p == sem_q'[s]
           h == Head(q)
<1>1. \A r \in Sem : sem_q'[r] = IF r = s THEN Tail(q) ELSE sem_q[r]
  BY DEF TypeInv, TypeOK, SemaphoreTypeOK
<1>2. p = Tail(q) /\ EachOnce(q) /\ q \in Seq(Task) /\ q # <<>>
  BY <1>1 DEF TypeInv, TypeOK, SemaphoreTypeOK
<1>3. /\ EachOnce(p) /\ Len(p) = Len(q) - 1 /\ h \in Task /\ h = q[1] /\ 1 \in 1 .. Len(q)
      /\ \A u : (\E i \in 1 .. Len(p) : p[i] = u) <=> u # h /\ \E i \in 1 .. Len(q) : q[i] = u
  <2> HIDE DEF q, p
  <2> QED BY <1>2, LeaveList, HeadIsIn
<1> HIDE DEF h
<1>4. Waiting(s)' = Waiting(s) \ {h}
  <2>1. \A u : (\E i \in 1 .. Len(sem_q'[s]) : sem_q'[s][i] = u)
               <=> u # h /\ \E i \in 1 .. Len(sem_q[s]) : sem_q[s][i] = u
    BY <1>3
  <2>2. \A u : u \in Waiting(s) <=> \E i \in 1 .. Len(sem_q[s]) : sem_q[s][i] = u
    BY DEF Waiting
  <2>3. \A u : u \in Waiting(s)' <=> \E i \in 1 .. Len(sem_q'[s]) : sem_q'[s][i] = u
    BY DEF Waiting
  <2>4. \A u : u \in Waiting(s)' <=> u # h /\ u \in Waiting(s)
    BY <2>1, <2>2, <2>3
  <2> QED BY <2>4
<1>5. \A r \in Sem \ {s} : Waiting(r)' = Waiting(r)
  BY <1>1 DEF Waiting
<1>6. h \in Waiting(s)
  BY <1>3 DEF Waiting
<1> QED BY <1>1, <1>3, <1>4, <1>5, <1>6 DEF h

(* What a signal is to the semaphores and to the sleepers.                   *)
Gave(s) ==
    /\ sem_cnt' = [sem_cnt EXCEPT ![s] = @ + 1]
    /\ sem_q' = [sem_q EXCEPT ![s] = DeqQueue(@, sem_cnt[s] + 1)]
    /\ OnlyWakes(HeadOf(sem_q[s]))

(* A signal gives its unit to the head of the line, or puts it back.         *)
LEMMA SignalGives ==
    ASSUME TypeInv, NEW s \in Sem, SignalSection(s)
    PROVE  Gave(s)
  BY SignalEffect DEF Gave, SignalSection

(* A signal shortens the line of its own semaphore at most.                  *)
LEMMA GaveLines ==
    ASSUME TypeInv, NEW s \in Sem, Gave(s)
    PROVE  /\ \A r \in Sem : Waiting(r)' \subseteq Waiting(r)
           /\ \A r \in Sem \ {s} : Waiting(r)' = Waiting(r) /\ sem_cnt'[r] = sem_cnt[r]
<1>1. sem_q \in [Sem -> Seq(Task)] /\ sem_cnt \in [Sem -> Int]
  BY DEF TypeInv, TypeOK, SemaphoreTypeOK
<1>2. /\ sem_q' = [sem_q EXCEPT ![s] = DeqQueue(sem_q[s], sem_cnt[s] + 1)]
      /\ sem_cnt' = [sem_cnt EXCEPT ![s] = @ + 1]
  BY DEF Gave
<1>3. \A r \in Sem \ {s} : Waiting(r)' = Waiting(r) /\ sem_cnt'[r] = sem_cnt[r]
  BY <1>1, <1>2 DEF Waiting
<1>4. Waiting(s)' \subseteq Waiting(s)
  <2> DEFINE q == sem_q[s]
             p == sem_q'[s]
  <2>1. q \in Seq(Task) /\ (p = q \/ (q # <<>> /\ p = Tail(q)))
    BY <1>1, <1>2 DEF DeqQueue
  <2> HIDE DEF q, p
  <2>2. \A i \in 1 .. Len(p) : \E j \in 1 .. Len(q) : q[j] = p[i]
    <3>1. CASE p = q
      BY <3>1
    <3>2. CASE q # <<>> /\ p = Tail(q)
      BY <2>1, <3>2, TailIsPart
    <3> QED BY <2>1, <3>1, <3>2
  <2> QED BY <2>2 DEF Waiting, q, p
<1> QED BY <1>3, <1>4

-----------------------------------------------------------------------------
(* Whoever executes is the current task, with no switch pending.             *)
LEMMA Executing ==
    ASSUME RoundRobinInv, NEW t \in Task, NEW p, At(t, p)
    PROVE  ~pendsv /\ cte = t /\ psp = t /\ pc[t] = p
  BY DEF RoundRobinInv, SwitchInv, GlobalsFit, YieldsAlone, InYield, InHandler, At

(* A step of the running task that wakes a HIGH task and asks for the switch *)
(* to it.                                                                    *)
LEMMA PreemptedKeeps ==
    ASSUME RoundRobinInv, NEW t \in Task, NEW p, At(t, p), ~InYield(p),
           NEW q, ~InYield(q), Goto(t, q), Preempted, UNCHANGED psp
    PROVE  SwitchInv'
<1> USE DEF RoundRobinInv, SwitchInv, Preempted, Requested
<1>1. ~pendsv /\ cte = t /\ psp = t /\ pc[t] = p /\ pc \in [Task -> Pc]
  BY Executing DEF TypeInv, TypeOK, SchedulerTypeOK
<1>2. pc' = [pc EXCEPT ![t] = q]
  BY DEF Goto
<1>3. GlobalsFit' /\ SliceFits' /\ ChargedToRunner'
  BY <1>1, <1>2 DEF GlobalsFit, SwitchFromRunning, SliceFits, SliceBounded, ChargedToRunner
<1>4. YieldsAlone'
  BY <1>1, <1>2 DEF YieldsAlone
<1>5. status[t] \notin Blocked
  BY <1>1 DEF BlockedInYield
<1>6. BlockedInYield'
  BY <1>1, <1>2, <1>5 DEF BlockedInYield, WakesOnly
<1>7. SleepsOnlyWhenBlocked'
  BY <1>1, <1>2 DEF SleepsOnlyWhenBlocked, InYield
<1> QED BY <1>3, <1>4, <1>6, <1>7

(* A step of the running task that goes on in thread code and may wake       *)
(* others.                                                                   *)
LEMMA ThreadStepKeeps ==
    ASSUME RoundRobinInv, NEW t \in Task, NEW p, At(t, p), ~InYield(p),
           NEW q, ~InYield(q), Goto(t, q), WakesOnly,
           UNCHANGED <<globals, elapsed_ticks, os_mode, psp>>
    PROVE  SwitchInv'
<1> USE DEF RoundRobinInv, SwitchInv, globals
<1>1. ~pendsv /\ cte = t /\ psp = t /\ pc[t] = p /\ pc \in [Task -> Pc]
  BY Executing DEF TypeInv, TypeOK, SchedulerTypeOK
<1>2. pc' = [pc EXCEPT ![t] = q]
  BY DEF Goto
<1>3. GlobalsFit' /\ SliceFits' /\ ChargedToRunner'
  BY <1>1, <1>2 DEF GlobalsFit, SwitchFromRunning, SliceFits, SliceBounded, ChargedToRunner
<1>4. YieldsAlone'
  BY <1>1, <1>2 DEF YieldsAlone
<1>5. status[t] \notin Blocked
  BY <1>1 DEF BlockedInYield
<1>6. BlockedInYield'
  BY <1>1, <1>2, <1>5 DEF BlockedInYield, WakesOnly
<1>7. SleepsOnlyWhenBlocked'
  BY <1>1, <1>2 DEF SleepsOnlyWhenBlocked, InYield
<1> QED BY <1>3, <1>4, <1>6, <1>7

(* A section that blocks its caller. *)
LEMMA BlockKeeps ==
    ASSUME RoundRobinInv, NEW t \in Task, At(t, "run"), BeginYield(t),
           NEW b \in Blocked, status' = [status EXCEPT ![cte] = b]
    PROVE  SwitchInv'
<1> USE DEF RoundRobinInv, SwitchInv
<1>1. ~pendsv /\ cte = t /\ psp = t /\ pc[t] = "run" /\ pc \in [Task -> Pc]
      /\ status \in [Task -> Status] /\ quantum \in Nat
  BY Executing DEF TypeInv, TypeOK, SchedulerTypeOK
<1>2. /\ UNCHANGED <<current_task, next_task, cte, quantum, pendsv, psp>>
      /\ elapsed_ticks' = 0 /\ ktick' = FALSE
      /\ os_mode' = "SYSTEM_SLEEP"
      /\ pc' = [pc EXCEPT ![t] = "yield"]
  BY DEF BeginYield, Goto, pos_reset_task_timer
<1>3. GlobalsFit' /\ ChargedToRunner'
  BY <1>1, <1>2 DEF GlobalsFit, SwitchFromRunning, ChargedToRunner
<1>4. SliceFits'
  BY <1>1, <1>2 DEF SliceFits, SliceBounded
<1>5. YieldsAlone'
  BY <1>1, <1>2 DEF YieldsAlone
<1>6. BlockedInYield'
  BY <1>1, <1>2 DEF BlockedInYield, InYield
<1>7. SleepsOnlyWhenBlocked'
  BY <1>1, <1>2 DEF SleepsOnlyWhenBlocked
<1> QED BY <1>3, <1>4, <1>5, <1>6, <1>7

(* The steps of pos_yield keep the invariant.                                *)
LEMMA YieldingKeepsSwitch ==
    ASSUME RoundRobinInv, NEW t \in Task, Yielding(t)
    PROVE  SwitchInv'
<1> USE DEF RoundRobinInv, SwitchInv
<1>0. pc \in [Task -> Pc] /\ status \in [Task -> Status] /\ elapsed_ticks \in Nat
      /\ quantum \in Nat /\ ring \in SUBSET Task
  BY DEF TypeInv, TypeOK, SchedulerTypeOK
<1>1. CASE EnterSvc(t)
  <2>1. ~pendsv /\ cte = t /\ psp = t /\ pc[t] = "yield"
    BY <1>1, Executing DEF EnterSvc
  <2>2. pc' = [pc EXCEPT ![t] = "svc"]
        /\ UNCHANGED <<schedVars, pendsv, psp, event, ktick, fault>>
    BY <1>1 DEF EnterSvc, Goto
  <2> USE <1>0, <2>1, <2>2 DEF schedVars
  <2>3. GlobalsFit' /\ ChargedToRunner'
    BY DEF GlobalsFit, SwitchFromRunning, ChargedToRunner
  <2>4. SliceFits'
    BY DEF SliceFits, SliceBounded, InYield
  <2>5. YieldsAlone'
    BY DEF YieldsAlone, InYield
  <2>6. BlockedInYield'
    BY DEF BlockedInYield, InYield
  <2>7. SleepsOnlyWhenBlocked'
    BY DEF SleepsOnlyWhenBlocked
  <2> QED BY <2>3, <2>4, <2>5, <2>6, <2>7
<1>2. CASE SleepCpu(t)
  <2>1. ~pendsv /\ cte = t /\ psp = t /\ pc[t] = "svc"
    BY <1>2, Executing DEF SleepCpu
  <2>2. /\ pc' = [pc EXCEPT ![t] = IF ReadyIn(ring) = {} THEN "wfe" ELSE "resumed"]
        /\ os_mode' \in {"SYSTEM_SLEEP", "KERNEL_ACTIVE"}
        /\ UNCHANGED <<ring, elapsed_ticks, is_sleep_mode, psp, event, ktick>>
    BY <1>2 DEF SleepCpu, Goto, SleepMode
  <2>3. \/ ReadyIn(ring) # {} /\ Requested /\ UNCHANGED fault
        \/ ReadyIn(ring) = {} /\ UNCHANGED <<status, globals>>
    BY <1>0, <1>2, ScheduleEffect DEF SleepCpu
  <2>4. CASE ReadyIn(ring) # {} /\ Requested
    <3> USE <1>0, <2>1, <2>2, <2>4 DEF Requested
    <3>1. GlobalsFit' /\ ChargedToRunner'
      BY DEF GlobalsFit, SwitchFromRunning, ChargedToRunner
    <3>2. SliceFits'
      BY DEF SliceFits, SliceBounded, InYield
    <3>3. YieldsAlone'
      BY DEF YieldsAlone, InYield
    <3>4. BlockedInYield'
      BY DEF BlockedInYield, InYield, WakesOnly
    <3>5. SleepsOnlyWhenBlocked'
      BY DEF SleepsOnlyWhenBlocked
    <3> QED BY <3>1, <3>2, <3>3, <3>4, <3>5
  <2>5. CASE ReadyIn(ring) = {} /\ UNCHANGED <<status, globals>>
    <3> USE <1>0, <2>1, <2>2, <2>5 DEF globals
    <3>1. GlobalsFit' /\ ChargedToRunner'
      BY DEF GlobalsFit, SwitchFromRunning, ChargedToRunner
    <3>2. SliceFits'
      BY DEF SliceFits, SliceBounded, InYield
    <3>3. YieldsAlone'
      BY DEF YieldsAlone, InYield
    <3>4. BlockedInYield'
      BY DEF BlockedInYield, InYield
    <3>5. SleepsOnlyWhenBlocked'
      BY DEF SleepsOnlyWhenBlocked, ReadyIn
    <3> QED BY <3>1, <3>2, <3>3, <3>4, <3>5
  <2> QED BY <2>3, <2>4, <2>5
<1>3. CASE WakeCpu(t)
  <2>1. ~pendsv /\ cte = t /\ psp = t /\ pc[t] = "wfe"
    BY <1>3, Executing DEF WakeCpu
  <2>2. /\ pc' = [pc EXCEPT ![t] = AfterWake]
        /\ os_mode' = "KERNEL_ACTIVE" /\ elapsed_ticks' = 0 /\ ktick' = FALSE
        /\ UNCHANGED <<status, cte, current_task, next_task, quantum, pendsv, psp>>
    BY <1>3 DEF WakeCpu, Goto, pos_reset_task_timer
  <2>3. \/ AfterWake = "resumed" /\ status[cte] = "ACTIVE"
        \/ AfterWake = "svc"
    BY DEF AfterWake
  <2> USE <1>0, <2>1, <2>2, <2>3
  <2>4. GlobalsFit' /\ ChargedToRunner'
    BY DEF GlobalsFit, SwitchFromRunning, ChargedToRunner
  <2>5. SliceFits'
    BY DEF SliceFits, SliceBounded
  <2>6. YieldsAlone'
    BY DEF YieldsAlone, InYield
  <2>7. BlockedInYield'
    BY DEF BlockedInYield, InYield, Blocked
  <2>8. SleepsOnlyWhenBlocked'
    BY DEF SleepsOnlyWhenBlocked
  <2> QED BY <2>4, <2>5, <2>6, <2>7, <2>8
<1>4. CASE ReturnFromYield(t, IF frame[t].sem = NoSem THEN "run" ELSE "wu_check")
  <2> DEFINE q == IF frame[t].sem = NoSem THEN "run" ELSE "wu_check"
  <2>1. ~InYield(q) /\ ~InYield("resumed")
    BY DEF InYield
  <2> HIDE DEF q
  <2>2. ReturnFromYield(t, q)
    BY <1>4 DEF q
  <2>3. WakesOnly /\ UNCHANGED <<globals, elapsed_ticks, os_mode, psp>>
        /\ At(t, "resumed") /\ Goto(t, q)
    BY <2>2 DEF ReturnFromYield, WakesOnly, globals
  <2> HIDE DEF RoundRobinInv, SwitchInv
  <2> QED BY <2>1, <2>3, ThreadStepKeeps
<1> QED BY <1>1, <1>2, <1>3, <1>4 DEF Yielding

(* The tail of pos_semaphore_wait_until keeps the invariant.                 *)
LEMMA WaitUntilTailKeepsSwitch ==
    ASSUME RoundRobinInv, NEW t \in Task, WaitUntilTail(t)
    PROVE  SwitchInv'
<1> DEFINE Tails == {"wu_check", "wu_remove", "wu_walk", "wu_unlink", "wu_load", "wu_store",
                    "wu_deq", "wu_free"}
<1>1. \A q \in Tails \cup {"run"} : ~InYield(q)
  BY DEF InYield
<1>2. status \in [Task -> Status] /\ cte \in Task
  BY DEF RoundRobinInv, TypeInv, TypeOK, SchedulerTypeOK
<1>3. CASE CheckTimeout(t)
  <2> DEFINE q == IF status[cte] = "DELAY_TIMEOUT" THEN "wu_load" ELSE "wu_remove"
  <2>1. q \in Tails
    OBVIOUS
  <2> HIDE DEF q
  <2>2. At(t, "wu_check") /\ Goto(t, q) /\ WakesOnly
        /\ UNCHANGED <<globals, elapsed_ticks, os_mode, psp>>
    BY <1>3 DEF CheckTimeout, GoOn, q, schedVars, globals, WakesOnly
  <2> QED BY <1>1, <2>1, <2>2, ThreadStepKeeps
<1>4. CASE BeginWalk(t)
  <2>1. At(t, "wu_remove") /\ Goto(t, "wu_walk") /\ WakesOnly
        /\ UNCHANGED <<globals, elapsed_ticks, os_mode, psp>>
    BY <1>4 DEF BeginWalk, GoOn, schedVars, globals, WakesOnly
  <2> QED BY <1>1, <2>1, ThreadStepKeeps
<1>9. CASE VisitEntry(t)
  <2>1. /\ At(t, "wu_walk") /\ WakesOnly /\ pc \in [Task -> Pc]
        /\ Goto(t, "wu_unlink") \/ UNCHANGED pc
        /\ UNCHANGED <<globals, elapsed_ticks, os_mode, psp>>
    BY <1>9 DEF VisitEntry, schedVars, globals, WakesOnly, RoundRobinInv, TypeInv, TypeOK,
       SchedulerTypeOK
  <2>2. Goto(t, "wu_unlink") \/ Goto(t, "wu_walk")
    BY <2>1 DEF Goto, At
  <2> QED BY <1>1, <2>1, <2>2, ThreadStepKeeps
<1>10. CASE UnlinkEntry(t)
  <2>1. At(t, "wu_unlink") /\ Goto(t, "run") /\ WakesOnly
        /\ UNCHANGED <<globals, elapsed_ticks, os_mode, psp>>
    BY <1>10 DEF UnlinkEntry, schedVars, globals, WakesOnly
  <2> QED BY <1>1, <2>1, ThreadStepKeeps
<1>5. CASE LoadCnt(t)
  <2>1. At(t, "wu_load") /\ Goto(t, "wu_store") /\ WakesOnly
        /\ UNCHANGED <<globals, elapsed_ticks, os_mode, psp>>
    BY <1>5 DEF LoadCnt, GoOn, schedVars, globals, WakesOnly
  <2> QED BY <1>1, <2>1, ThreadStepKeeps
<1>6. CASE StoreCnt(t)
  <2>1. At(t, "wu_store") /\ Goto(t, "wu_deq") /\ WakesOnly
        /\ UNCHANGED <<globals, elapsed_ticks, os_mode, psp>>
    BY <1>6 DEF StoreCnt, GoOn, schedVars, globals, WakesOnly
  <2> QED BY <1>1, <2>1, ThreadStepKeeps
<1>7. CASE ReadQueue(t)
  <2>1. At(t, "wu_deq") /\ Goto(t, "wu_free") /\ WakesOnly
        /\ UNCHANGED <<globals, elapsed_ticks, os_mode, psp>>
    BY <1>7 DEF ReadQueue, schedVars, globals, WakesOnly
  <2> QED BY <1>1, <2>1, ThreadStepKeeps
<1>8. CASE UnlinkHead(t)
  <2> DEFINE q == frame[t].q
  <2>1. q \in Seq(Task)
    BY DEF RoundRobinInv, TypeInv, TypeOK
  <2>2. At(t, "wu_free") /\ Goto(t, "run")
        /\ status' = [DeqStatus(q, status) EXCEPT ![cte] = "ACTIVE"]
        /\ UNCHANGED <<globals, elapsed_ticks, os_mode, psp>>
    BY <1>8 DEF UnlinkHead, globals
  <2> HIDE DEF q
  <2>3. /\ DeqStatus(q, status) \in [Task -> Status]
        /\ \A u \in Task : DeqStatus(q, status)[u] \in Blocked => status[u] \in Blocked
    BY <1>2, <2>1, DeqStatusType, DeqStatusWakes
  <2>4. WakesOnly
    BY <1>2, <2>2, <2>3 DEF WakesOnly, Blocked
  <2> QED BY <1>1, <2>2, <2>4, ThreadStepKeeps
<1> QED BY <1>3, <1>4, <1>5, <1>6, <1>7, <1>8, <1>9, <1>10 DEF WaitUntilTail

(* A step that changes no variable keeps the invariant.                      *)
LEMMA StutterKeeps ==
    ASSUME RoundRobinInv, UNCHANGED vars
    PROVE  SwitchInv'
  BY DEF RoundRobinInv, SwitchInv, vars, schedVars, cpuVars, GlobalsFit,
     SwitchFromRunning, YieldsAlone, SliceFits, SliceBounded, BlockedInYield,
     SleepsOnlyWhenBlocked, ReadyIn, ChargedToRunner

(* A call that neither blocks nor signals: the semaphore had a unit. *)
LEMMA GoOnKeeps ==
    ASSUME RoundRobinInv, NEW t \in Task, At(t, "run"), GoOn(t, "run")
    PROVE  SwitchInv'
<1>1. Goto(t, "run") /\ WakesOnly /\ ~InYield("run")
      /\ UNCHANGED <<globals, elapsed_ticks, os_mode, psp>>
  BY DEF GoOn, schedVars, globals, WakesOnly, InYield
<1> QED BY <1>1, ThreadStepKeeps

(* The calls of a task keep the invariant.                                   *)
LEMMA CallKeeps ==
    ASSUME ProgramClass, RoundRobinInv, NEW t \in Task, Call(t)
    PROVE  SwitchInv'
<1>0. /\ "SEM_WAITING" \in Blocked /\ "SEM_WAITING_UNTIL" \in Blocked
      /\ "DELAY" \in Blocked
  BY DEF Blocked
<1>1. ASSUME NEW s \in Waits[t], SemWait(t, s, "run") PROVE SwitchInv'
  <2>1. At(t, "run")
        /\ (GoOn(t, "run") \/ /\ BeginYield(t)
                              /\ status' = [status EXCEPT ![cte] = "SEM_WAITING"])
    BY <1>1 DEF SemWait
  <2> QED BY <1>0, <2>1, GoOnKeeps, BlockKeeps
<1>2. ASSUME NEW s \in Signals[t], SemSignal(t, s) PROVE SwitchInv'
  <2>1. s \in Sem /\ TypeInv
    BY ProgramAssumption DEF RoundRobinInv
  <2>2. At(t, "run") /\ SignalSection(s)
        /\ UNCHANGED <<ring, is_sleep_mode, psp, pc, event, ktick, fault>>
    BY <1>2 DEF SemSignal
  <2>3. WakesOnly /\ (UNCHANGED <<globals, elapsed_ticks, os_mode>> \/ Preempted)
    BY <2>1, <2>2, SignalEffect
  <2>4. pc \in [Task -> Pc] /\ pc[t] = "run"
    BY <2>1, <2>2 DEF At, TypeInv, TypeOK, SchedulerTypeOK
  <2>5. Goto(t, "run") /\ ~InYield("run")
    BY <2>2, <2>4 DEF Goto, InYield
  <2> QED BY <2>2, <2>3, <2>5, ThreadStepKeeps, PreemptedKeeps
<1>3. ASSUME NEW s \in TimedWaits[t], NEW time \in Times, WaitUntil(t, s, time)
      PROVE SwitchInv'
  <2>1. At(t, "run")
        /\ (GoOn(t, "run") \/ /\ BeginYield(t)
                              /\ status' = [status EXCEPT ![cte] = "SEM_WAITING_UNTIL"])
    BY <1>3 DEF WaitUntil
  <2> QED BY <1>0, <2>1, GoOnKeeps, BlockKeeps
<1>4. ASSUME NEW time \in Sleeps[t], DelayMs(t, time) PROVE SwitchInv'
  BY <1>0, <1>4, BlockKeeps DEF DelayMs
<1> QED BY <1>1, <1>2, <1>3, <1>4 DEF Call, ProgramClass

(* SysTick_Handler keeps the invariant.                                      *)
LEMMA SysTickKeepsSwitch ==
    ASSUME RoundRobinInv, SysTick
    PROVE  SwitchInv'
<1> USE DEF RoundRobinInv, SwitchInv
<1>1. pc \in [Task -> Pc] /\ status \in [Task -> Status] /\ elapsed_ticks \in 0 .. 255
      /\ quantum \in Nat /\ ring \in SUBSET Task /\ psp \in Task /\ ktick \in BOOLEAN
  BY DEF TypeInv, TypeOK, SchedulerTypeOK
<1>2. /\ fault = "none" /\ (InKernelPath => ~ktick)
      /\ event' = TRUE /\ ktick' = InKernelPath /\ UNCHANGED <<ring, psp, pc>>
  BY DEF SysTick
<1>3. pendsv \/ InYield(pc[psp]) => InKernelPath /\ elapsed_ticks = 0
  BY <1>1, <1>2 DEF InKernelPath, InYield, SliceFits
<1>4. SleepsOnlyWhenBlocked'
  BY <1>2 DEF SleepsOnlyWhenBlocked
<1>5. CASE /\ (elapsed_ticks + 1) % 256 = quantum /\ elapsed_ticks' = 0
           /\ os_mode' = "KERNEL_ACTIVE" /\ Schedule(ring)
  <2>1. ~pendsv /\ ~InYield(pc[psp])
    BY <1>1, <1>3, <1>5 DEF SliceFits
  <2>2. cte = psp
    BY <2>1 DEF GlobalsFit
  <2>3. Requested \/ UNCHANGED <<status, globals>>
    BY <1>1, <1>5, ScheduleEffect
  <2>4. CASE Requested
    <3> USE <1>2, <1>5, <2>1, <2>2, <2>4 DEF Requested
    <3>1. GlobalsFit' /\ ChargedToRunner'
      BY DEF GlobalsFit, SwitchFromRunning, ChargedToRunner
    <3>2. SliceFits'
      BY DEF SliceFits, SliceBounded
    <3>3. YieldsAlone'
      BY DEF YieldsAlone
    <3>4. BlockedInYield'
      BY DEF BlockedInYield, WakesOnly
    <3> QED BY <1>4, <3>1, <3>2, <3>3, <3>4
  <2>5. CASE UNCHANGED <<status, globals>>
    <3> USE <1>2, <1>5, <2>1, <2>2, <2>5 DEF globals
    <3>1. GlobalsFit' /\ ChargedToRunner'
      BY DEF GlobalsFit, SwitchFromRunning, ChargedToRunner
    <3>2. SliceFits'
      BY <1>1 DEF SliceFits, SliceBounded
    <3>3. YieldsAlone'
      BY DEF YieldsAlone
    <3>4. BlockedInYield'
      BY DEF BlockedInYield
    <3> QED BY <1>4, <3>1, <3>2, <3>3, <3>4
  <2> QED BY <2>3, <2>4, <2>5
<1>6. CASE /\ (elapsed_ticks + 1) % 256 # quantum
           /\ DelayTick((elapsed_ticks + 1) % 256)
  <2>1. WakesOnly /\ elapsed_ticks' = (elapsed_ticks + 1) % 256
        /\ UNCHANGED <<globals, os_mode>>
    BY <1>6, DelayTickEffect
  <2> USE <1>2, <2>1 DEF globals
  <2>2. GlobalsFit' /\ ChargedToRunner'
    BY DEF GlobalsFit, SwitchFromRunning, ChargedToRunner
  <2>3. SliceFits'
    <3>1. elapsed_ticks' < quantum
      BY <1>1, <1>6 DEF SliceFits, SliceBounded
    <3>2. pendsv \/ InYield(pc[psp]) => elapsed_ticks' = 1 /\ ktick' = TRUE
      BY <1>1, <1>3
    <3> QED BY <3>1, <3>2 DEF SliceFits, SliceBounded
  <2>4. YieldsAlone'
    BY DEF YieldsAlone
  <2>5. BlockedInYield'
    <3>1. cte \in Task
      BY DEF TypeInv, TypeOK, SchedulerTypeOK
    <3> QED BY <3>1 DEF BlockedInYield, WakesOnly
  <2> QED BY <1>4, <2>2, <2>3, <2>4, <2>5
<1> QED BY <1>5, <1>6 DEF SysTick

(* A signal from an interrupt keeps the invariant.                           *)
LEMMA IsrKeeps ==
    ASSUME RoundRobinInv, NEW s \in Sem, IsrSignal(s), Waiting(s) \cap HighTasks = {}
    PROVE  SwitchInv'
<1> USE DEF RoundRobinInv, SwitchInv
<1>1. WakesOnly /\ UNCHANGED <<globals, elapsed_ticks, os_mode>>
  BY SignalEffect DEF IsrSignal
<1>2. event' = TRUE /\ UNCHANGED <<ring, psp, pc, ktick>>
  BY DEF IsrSignal
<1> USE <1>1, <1>2 DEF globals
<1>3. GlobalsFit' /\ ChargedToRunner'
  BY DEF GlobalsFit, SwitchFromRunning, ChargedToRunner, IsrSignal
<1>4. SliceFits' /\ YieldsAlone'
  BY DEF SliceFits, SliceBounded, YieldsAlone
<1>5. BlockedInYield'
  <2>1. cte \in Task
    BY DEF TypeInv, TypeOK, SchedulerTypeOK
  <2> QED BY <2>1 DEF BlockedInYield, WakesOnly
<1>6. SleepsOnlyWhenBlocked'
  BY DEF SleepsOnlyWhenBlocked
<1> QED BY <1>3, <1>4, <1>5, <1>6

(* PendSV_Handler keeps the invariant.                                       *)
LEMMA SwitchContextKeepsSwitch ==
    ASSUME RoundRobinInv, SwitchContext
    PROVE  SwitchInv'
<1> USE DEF RoundRobinInv, SwitchInv
<1>1. /\ pendsv /\ pendsv' = FALSE
      /\ IF current_task = psp
         THEN psp' = next_task /\ UNCHANGED fault
         ELSE fault' = "context_lost" /\ UNCHANGED psp
      /\ event' = TRUE
      /\ UNCHANGED <<ring, status, cte, current_task, next_task, quantum,
                     elapsed_ticks, pc>>
  BY DEF SwitchContext, PendSV
<1>2. psp' = cte /\ next_task = cte /\ cte \in Task
  BY <1>1 DEF GlobalsFit, SwitchFromRunning, TypeInv, TypeOK, SchedulerTypeOK
<1>3. ~InYield(pc[cte])
  BY <1>1, <1>2 DEF YieldsAlone
<1> USE <1>1, <1>2, <1>3
<1>4. GlobalsFit' /\ ChargedToRunner'
  BY DEF GlobalsFit, SwitchFromRunning, ChargedToRunner
<1>5. SliceFits'
  BY DEF SliceFits, SliceBounded
<1>6. YieldsAlone'
  BY DEF YieldsAlone
<1>7. BlockedInYield'
  BY DEF BlockedInYield
<1>8. SleepsOnlyWhenBlocked'
  BY DEF SleepsOnlyWhenBlocked
<1> QED BY <1>4, <1>5, <1>6, <1>7, <1>8

-----------------------------------------------------------------------------
(* No tick and no interrupt has a HIGH task to wake.                         *)

(* A step that links nobody HIGH where they look.                            *)
LEMMA BelowHighKeeps ==
    ASSUME HighFits,
           \A s \in IsrSems : Waiting(s)' \cap HighTasks \subseteq Waiting(s),
           \A i \in 1 .. Len(delays') :
               \/ delays'[i].pid \notin HighTasks
               \/ \E j \in 1 .. Len(delays) : delays'[i].pid = delays[j].pid,
           \A t \in Task : pc'[t] = "wu_free" /\ fault' = "none" =>
               pc[t] = "wu_free" /\ fault = "none" /\ frame'[t] = frame[t]
    PROVE  HighFits'
<1>1. \A s \in IsrSems : Waiting(s)' \cap HighTasks = {}
  BY DEF HighFits
<1>2. \A i \in 1 .. Len(delays') : delays'[i].pid \notin HighTasks
  BY DEF HighFits
<1>3. \A t \in Task :
         pc'[t] = "wu_free" /\ fault' = "none" /\ frame'[t].sem \in IsrSems =>
             \A i \in 1 .. Len(frame'[t].q) : frame'[t].q[i] \notin HighTasks
  BY DEF HighFits
<1> QED BY <1>1, <1>2, <1>3 DEF HighFits, HighTasks

(* A step that leaves the lines and the delay list alone.                    *)
LEMMA SameListsKeepHigh ==
    ASSUME HighFits, UNCHANGED <<sem_q, delays>>,
           \A t \in Task : pc'[t] = "wu_free" /\ fault' = "none" =>
               pc[t] = "wu_free" /\ fault = "none" /\ frame'[t] = frame[t]
    PROVE  HighFits'
<1>1. \A s \in IsrSems : Waiting(s)' = Waiting(s)
  BY DEF Waiting
<1> QED BY <1>1, BelowHighKeeps

(* The calls keep it: who is HIGH neither sleeps, nor waits with a timeout,  *)
(* nor waits for an interrupt.                                               *)
LEMMA CallKeepsHigh ==
    ASSUME ProgramClass, RoundRobinInv, NEW t \in Task, Call(t)
    PROVE  HighFits'
<1> USE DEF RoundRobinInv
<1>0. /\ sem_q \in [Sem -> Seq(Task)] /\ pc \in [Task -> Pc] /\ cte \in Task
      /\ delays \in Seq(Entry) /\ IsrSems \subseteq Sem
  BY ProgramAssumption
     DEF TypeInv, TypeOK, SchedulerTypeOK, SemaphoreTypeOK, DelayTypeOK
<1>1. At(t, "run") /\ cte = t /\ pc[t] = "run" /\ fault = "none"
  <2>1. At(t, "run")
    BY DEF Call, SemWait, SemSignal, WaitUntil, DelayMs, TaskFinish
  <2> QED BY <2>1, Executing DEF At
<1>2. t \in HighTasks => Sleeps[t] = {} /\ TimedWaits[t] = {} /\ Waits[t] \cap IsrSems = {}
  BY DEF ProgramClass, HighClass
<1>3. ASSUME NEW s \in Sem, sem_q' = sem_q \/ sem_q' = [sem_q EXCEPT ![s] = Append(@, cte)],
             t \in HighTasks => s \notin IsrSems
      PROVE  \A r \in IsrSems : Waiting(r)' \cap HighTasks \subseteq Waiting(r)
  <2>1. CASE sem_q' = sem_q
    BY <2>1 DEF Waiting
  <2>2. CASE sem_q' = [sem_q EXCEPT ![s] = Append(@, cte)]
    <3>1. \A r \in Sem : Waiting(r)' = IF r = s THEN Waiting(s) \cup {cte} ELSE Waiting(r)
      BY <1>0, <2>2, EnqLines
    <3> QED BY <1>0, <1>1, <1>3, <3>1
  <2> QED BY <1>3, <2>1, <2>2
<1>4. ASSUME NEW time \in Nat, delays' = delays \/ delays' = DelayAdd(delays, cte, time),
             t \notin HighTasks
      PROVE  \A i \in 1 .. Len(delays') :
                 \/ delays'[i].pid \notin HighTasks
                 \/ \E j \in 1 .. Len(delays) : delays'[i].pid = delays[j].pid
  <2>1. CASE delays' = delays
    BY <2>1
  <2>2. CASE delays' = DelayAdd(delays, cte, time)
    <3> DEFINE list == DelayAdd(delays, cte, time)
    <3>1. Len(delays) \in Nat /\ Len(list) = Len(delays) + 1
      BY <1>0, DelayAddPlaces, LenProperties
    <3>2. PICK at \in 1 .. Len(delays) + 1 :
              \A k \in 1 .. Len(delays) + 1 :
                  list[k] = IF k < at THEN delays[k]
                            ELSE IF k = at THEN [pid |-> cte, left |-> time]
                            ELSE delays[k - 1]
      BY <1>0, DelayAddPlaces
    <3> HIDE DEF list
    <3>3. \A k \in 1 .. Len(list) :
              list[k].pid = cte \/ \E j \in 1 .. Len(delays) : list[k].pid = delays[j].pid
      <4> SUFFICES ASSUME NEW k \in 1 .. Len(list), k # at
                   PROVE  \E j \in 1 .. Len(delays) : list[k].pid = delays[j].pid
        BY <3>1, <3>2
      <4>1. CASE k < at
        BY <3>1, <3>2, <4>1
      <4>2. CASE k > at
        <5>1. k - 1 \in 1 .. Len(delays) /\ list[k] = delays[k - 1]
          BY <3>1, <3>2, <4>2
        <5> QED BY <5>1
      <4> QED BY <3>1, <4>1, <4>2
    <3> QED BY <1>1, <1>4, <2>2, <3>3 DEF list
  <2> QED BY <1>4, <2>1, <2>2
<1>5. \A u \in Task : pc'[u] = "wu_free" => pc[u] = "wu_free" /\ u # t
  BY <1>0, <1>1 DEF Call, SemWait, SemSignal, WaitUntil, DelayMs, TaskFinish, GoOn, BeginYield,
     Goto
<1>6. ASSUME NEW s \in Waits[t], SemWait(t, s, "run"), UNCHANGED <<delays, frame>>
      PROVE  HighFits'
  <2>1. s \in Sem /\ (sem_q' = sem_q \/ sem_q' = [sem_q EXCEPT ![s] = Append(@, cte)])
    BY <1>6, ProgramAssumption DEF SemWait, Enq
  <2>2. \A r \in IsrSems : Waiting(r)' \cap HighTasks \subseteq Waiting(r)
    BY <1>2, <1>3, <2>1
  <2> QED BY <1>1, <1>5, <1>6, <2>2, BelowHighKeeps
<1>7. ASSUME NEW s \in Signals[t], SemSignal(t, s), UNCHANGED <<delays, frame>>
      PROVE  HighFits'
  <2>1. s \in Sem /\ Gave(s)
    BY <1>7, ProgramAssumption, SignalGives DEF SemSignal
  <2>2. \A r \in IsrSems : Waiting(r)' \cap HighTasks \subseteq Waiting(r)
    BY <1>0, <2>1, GaveLines
  <2> QED BY <1>1, <1>5, <1>7, <2>2, BelowHighKeeps
<1>8. ASSUME NEW s \in TimedWaits[t], NEW time \in Times, WaitUntil(t, s, time)
      PROVE  HighFits'
  <2>1. /\ s \in Sem /\ time \in Nat /\ t \notin HighTasks
        /\ sem_q' = sem_q \/ sem_q' = [sem_q EXCEPT ![s] = Append(@, cte)]
        /\ delays' = delays \/ delays' = DelayAdd(delays, cte, time)
        /\ \A u \in Task \ {t} : frame'[u] = frame[u]
    BY <1>2, <1>8, ProgramAssumption, TimesAssumption DEF WaitUntil, Enq, TypeInv, TypeOK
  <2>2. \A r \in IsrSems : Waiting(r)' \cap HighTasks \subseteq Waiting(r)
    BY <1>3, <2>1
  <2>3. \A i \in 1 .. Len(delays') :
            \/ delays'[i].pid \notin HighTasks
            \/ \E j \in 1 .. Len(delays) : delays'[i].pid = delays[j].pid
    BY <1>4, <2>1
  <2> QED BY <1>1, <1>5, <2>1, <2>2, <2>3, BelowHighKeeps
<1>9. ASSUME NEW time \in Sleeps[t], DelayMs(t, time), UNCHANGED <<semVars, frame>>
      PROVE  HighFits'
  <2>1. /\ time \in Nat /\ t \notin HighTasks
        /\ delays' = DelayAdd(delays, cte, time) /\ sem_q' = sem_q
    BY <1>2, <1>9, ProgramAssumption, TimesAssumption DEF DelayMs, semVars
  <2>2. \A r \in IsrSems : Waiting(r)' \cap HighTasks \subseteq Waiting(r)
    BY <2>1 DEF Waiting
  <2>3. \A i \in 1 .. Len(delays') :
            \/ delays'[i].pid \notin HighTasks
            \/ \E j \in 1 .. Len(delays) : delays'[i].pid = delays[j].pid
    BY <1>4, <2>1
  <2> QED BY <1>1, <1>5, <1>9, <2>2, <2>3, BelowHighKeeps
<1> QED BY <1>6, <1>7, <1>8, <1>9 DEF Call, ProgramClass

(* The tail of pos_semaphore_wait_until keeps it: what it writes back it has *)
(* read from a line.                                                         *)
LEMMA TailKeepsHigh ==
    ASSUME RoundRobinInv, NEW t \in Task, WaitUntilTail(t)
    PROVE  HighFits'
<1> USE DEF RoundRobinInv
<1>0. /\ sem_q \in [Sem -> Seq(Task)] /\ pc \in [Task -> Pc] /\ IsrSems \subseteq Sem
      /\ delays \in Seq(Entry)
      /\ frame \in [Task -> [sem : Sem \cup {NoSem}, cnt : Int, q : Seq(Task), walk : Walk]]
  BY ProgramAssumption
     DEF TypeInv, TypeOK, SchedulerTypeOK, SemaphoreTypeOK, DelayTypeOK
<1>1. CASE CheckTimeout(t) \/ BeginWalk(t) \/ VisitEntry(t) \/ LoadCnt(t) \/ StoreCnt(t)
  <2>1. UNCHANGED <<sem_q, delays>> /\ fault = "none"
    BY <1>1 DEF CheckTimeout, BeginWalk, VisitEntry, LoadCnt, StoreCnt, GoOn, At, semVars
  <2>2. \A u \in Task : pc'[u] = "wu_free" => pc[u] = "wu_free" /\ frame'[u] = frame[u]
    BY <1>0, <1>1 DEF CheckTimeout, BeginWalk, VisitEntry, LoadCnt, StoreCnt, GoOn, Goto, At
  <2> QED BY <2>1, <2>2, SameListsKeepHigh
<1>2. CASE UnlinkEntry(t)
  <2> DEFINE w == frame[t].walk
  <2>1. /\ fault = "none" /\ sem_q' = sem_q
        /\ \A u \in Task : pc'[u] = "wu_free" => pc[u] = "wu_free" /\ frame'[u] = frame[u]
    BY <1>0, <1>2 DEF UnlinkEntry, At, Goto, semVars
  <2>2. \A r \in IsrSems : Waiting(r)' = Waiting(r)
    BY <2>1 DEF Waiting
  <2>3. \/ UNCHANGED delays
        \/ /\ w.prev # NoTask => Listed(delays, w.prev)
           /\ w.next # NoTask => Listed(delays, w.next)
           /\ delays' = Unlinked(delays, w.prev, w.next)
    BY <1>2 DEF UnlinkEntry
  <2>4. \A i \in 1 .. Len(delays') :
            \E j \in 1 .. Len(delays) : delays'[i].pid = delays[j].pid
    <3> HIDE DEF w
    <3>1. CASE UNCHANGED delays
      BY <3>1
    <3>2. CASE delays' = Unlinked(delays, w.prev, w.next)
      <4>1. \A i \in 1 .. Len(delays') :
                \E j \in 1 .. Len(delays) : delays'[i] = delays[j]
        BY <1>0, <2>3, <3>2, UnlinkedType
      <4> QED BY <4>1
    <3> QED BY <2>3, <3>1, <3>2
  <2> QED BY <2>1, <2>2, <2>4, BelowHighKeeps
<1>3. CASE ReadQueue(t)
  <2>1. /\ fault = "none" /\ UNCHANGED <<sem_q, delays>> /\ frame[t].sem \in Sem
        /\ \A u \in Task \ {t} : pc'[u] = pc[u] /\ frame'[u] = frame[u]
        /\ fault' = "none" => frame' = [frame EXCEPT ![t].q = sem_q[frame[t].sem]]
    BY <1>0, <1>3 DEF ReadQueue, At, Goto, semVars, TypeInv, FramesOK
  <2>2. \A r \in IsrSems : Waiting(r)' = Waiting(r)
    BY <2>1 DEF Waiting
  <2>3. ASSUME fault' = "none", frame'[t].sem \in IsrSems
        PROVE  \A i \in 1 .. Len(frame'[t].q) : frame'[t].q[i] \notin HighTasks
    <3>1. frame'[t].sem = frame[t].sem /\ frame'[t].q = sem_q[frame[t].sem]
      BY <1>0, <2>1, <2>3
    <3>2. Waiting(frame[t].sem) \cap HighTasks = {}
      BY <2>3, <3>1 DEF HighFits
    <3> QED BY <3>1, <3>2 DEF Waiting
  <2> QED BY <2>1, <2>2, <2>3 DEF HighFits, HighTasks
<1>4. CASE UnlinkHead(t)
  <2>0. PICK s \in Sem, q \in Seq(Task) : s = frame[t].sem /\ q = frame[t].q /\ q # <<>>
    BY <1>0, <1>4 DEF UnlinkHead, At, TypeInv, TypeOK, FramesOK
  <2>1. /\ fault = "none" /\ pc[t] = "wu_free" /\ UNCHANGED <<delays, fault>>
        /\ sem_q' = sem_q \/ sem_q' = [sem_q EXCEPT ![s] = Tail(q)]
        /\ \A u \in Task : pc'[u] = "wu_free" => pc[u] = "wu_free" /\ frame'[u] = frame[u]
    BY <1>0, <1>4, <2>0 DEF UnlinkHead, At, Goto, TypeInv, TypeOK
  <2>2. s \in IsrSems => \A i \in 1 .. Len(q) : q[i] \notin HighTasks
    BY <2>0, <2>1 DEF HighFits
  <2>3. \A r \in IsrSems : Waiting(r)' \cap HighTasks \subseteq Waiting(r)
    <3>1. CASE sem_q' = sem_q
      BY <3>1 DEF Waiting
    <3>2. CASE sem_q' = [sem_q EXCEPT ![s] = Tail(q)]
      <4>1. \A i \in 1 .. Len(Tail(q)) : i + 1 \in 1 .. Len(q) /\ Tail(q)[i] = q[i + 1]
        BY <2>0, TailIsPart
      <4>2. \A r \in Sem : sem_q'[r] = IF r = s THEN Tail(q) ELSE sem_q[r]
        BY <1>0, <3>2
      <4>3. s \in IsrSems => Waiting(s)' \cap HighTasks = {}
        BY <2>2, <4>1, <4>2 DEF Waiting
      <4>4. \A r \in Sem \ {s} : Waiting(r)' = Waiting(r)
        BY <4>2 DEF Waiting
      <4> QED BY <1>0, <4>3, <4>4
    <3> QED BY <2>1, <3>1, <3>2
  <2> QED BY <2>1, <2>3, BelowHighKeeps
<1> QED BY <1>1, <1>2, <1>3, <1>4 DEF WaitUntilTail

(* So do the tick, which only takes from the delay list, and the others.     *)
LEMMA HighFitsStep ==
    ASSUME ProgramClass, RoundRobinInv, [Next]_vars
    PROVE  HighFits'
<1> USE DEF RoundRobinInv
<1>0. pc \in [Task -> Pc] /\ delays \in Seq(Entry)
  BY DEF TypeInv, TypeOK, SchedulerTypeOK, DelayTypeOK
<1>1. ASSUME NEW t \in Task, Yielding(t) PROVE HighFits'
  <2>1. /\ UNCHANGED <<sem_q, delays, frame>> /\ fault = "none"
        /\ \A u \in Task : pc'[u] = "wu_free" => pc[u] = "wu_free"
    BY <1>0, <1>1 DEF Yielding, EnterSvc, SleepCpu, WakeCpu, AfterWake, ReturnFromYield, At,
       Goto, semVars
  <2> QED BY <2>1, SameListsKeepHigh
<1>2. CASE SysTick
  <2>1. /\ fault = "none" /\ UNCHANGED <<sem_q, pc, frame>>
        /\ delays' = delays \/ DelayTick((elapsed_ticks + 1) % 256)
    BY <1>2 DEF SysTick, semVars
  <2>2. \A r \in IsrSems : Waiting(r)' = Waiting(r)
    BY <2>1 DEF Waiting
  <2>3. \A i \in 1 .. Len(delays') :
            \E j \in 1 .. Len(delays) : delays'[i].pid = delays[j].pid
    <3> DEFINE list == CountDown(delays)
    <3>1. /\ list \in Seq(Entry) /\ Len(list) = Len(delays)
          /\ \A i \in 1 .. Len(delays) : list[i].pid = delays[i].pid
      BY <1>0, CountDownType, CountDownPids
    <3>2. \/ delays' = delays
          \/ delays' = list
          \/ list # <<>> /\ delays' = Tail(list)
      BY <2>1 DEF DelayTick, HeadElapsed
    <3> HIDE DEF list
    <3>3. CASE delays' = delays \/ delays' = list
      BY <3>1, <3>3
    <3>4. CASE list # <<>> /\ delays' = Tail(list)
      <4>1. \A i \in 1 .. Len(delays') : i + 1 \in 1 .. Len(list) /\ delays'[i] = list[i + 1]
        BY <3>1, <3>4, TailIsPart
      <4> QED BY <3>1, <4>1
    <3> QED BY <3>2, <3>3, <3>4
  <2> QED BY <2>1, <2>2, <2>3, BelowHighKeeps
<1>3. CASE Isr
  <2>1. PICK s \in IsrSems : IsrSignal(s) /\ UNCHANGED <<delays, frame>>
    BY <1>3 DEF Isr
  <2>2. s \in Sem /\ IsrSems \subseteq Sem /\ fault = "none" /\ UNCHANGED pc
    BY <2>1, ProgramAssumption DEF IsrSignal
  <2>3. \A r \in IsrSems : Waiting(r)' \cap HighTasks \subseteq Waiting(r)
    BY <2>1, <2>2, SignalGives, GaveLines DEF IsrSignal
  <2> QED BY <2>1, <2>2, <2>3, BelowHighKeeps
<1>4. CASE SwitchContext
  <2>1. UNCHANGED <<sem_q, delays, pc, frame>> /\ fault = "none"
    BY <1>4 DEF SwitchContext, PendSV, semVars
  <2> QED BY <2>1, SameListsKeepHigh
<1>5. CASE UNCHANGED vars
  <2>1. UNCHANGED <<sem_q, delays, pc, frame, fault>>
    BY <1>5 DEF vars, cpuVars, semVars
  <2> QED BY <2>1, SameListsKeepHigh
<1>6. CASE Halted
  BY <1>5, <1>6 DEF Halted
<1> QED BY <1>1, <1>2, <1>3, <1>4, <1>5, <1>6, CallKeepsHigh, TailKeepsHigh DEF Next

-----------------------------------------------------------------------------
(* The invariant holds when the scheduler starts.                            *)
LEMMA RoundRobinInvInit == Init => RoundRobinInv
<1> SUFFICES ASSUME Init PROVE RoundRobinInv
  OBVIOUS
<1>1. TypeInv
  BY TypeInvInit
<1>2. 1 \in Task /\ Prio[1] \in Priority
  BY TasksAssumption, PrioAssumption DEF Task
<1>3. quantum \in Nat /\ quantum >= 2
  BY <1>2, QuantumValue DEF Init, SchedulerInit
<1> USE DEF Init, SchedulerInit
<1>4. GlobalsFit /\ ChargedToRunner /\ SleepsOnlyWhenBlocked
  BY <1>2 DEF GlobalsFit, SwitchFromRunning, ChargedToRunner, SleepsOnlyWhenBlocked
<1>5. SliceFits
  BY <1>2, <1>3 DEF SliceFits, SliceBounded, InYield
<1>6. YieldsAlone /\ BlockedInYield
  BY <1>2 DEF YieldsAlone, BlockedInYield, InYield, Blocked
<1>7. HighFits
  <2>1. \A s \in IsrSems : sem_q[s] = <<>>
    BY ProgramAssumption DEF SemaphoreInit
  <2>2. \A s \in IsrSems : Waiting(s) = {}
    BY <2>1, EmptySeq DEF Waiting
  <2> QED BY <2>2, EmptySeq DEF HighFits, DelayInit
<1> QED BY <1>1, <1>4, <1>5, <1>6, <1>7 DEF RoundRobinInv, SwitchInv

(* Every step keeps the invariant.                                           *)
LEMMA RoundRobinInvStep ==
    ASSUME ProgramClass
    PROVE  RoundRobinInv /\ [Next]_vars => RoundRobinInv'
<1> SUFFICES ASSUME RoundRobinInv, [Next]_vars PROVE SwitchInv'
  BY TypeInvStep, HighFitsStep DEF RoundRobinInv
<1>1. ASSUME NEW t \in Task, Yielding(t) \/ WaitUntilTail(t) \/ Call(t)
      PROVE  SwitchInv'
  BY <1>1, YieldingKeepsSwitch, WaitUntilTailKeepsSwitch, CallKeeps
<1>2. CASE SysTick
  BY <1>2, SysTickKeepsSwitch
<1>3. CASE Isr
  BY <1>3, IsrKeeps, ProgramAssumption DEF Isr, RoundRobinInv, HighFits
<1>4. CASE SwitchContext
  BY <1>4, SwitchContextKeepsSwitch
<1>5. CASE UNCHANGED vars
  BY <1>5, StutterKeeps
<1>6. CASE Halted
  BY <1>5, <1>6 DEF Halted
<1> QED BY <1>1, <1>2, <1>3, <1>4, <1>5, <1>6 DEF Next

(* The invariant holds in every behaviour.                                   *)
LEMMA RoundRobinInvAlways ==
    ASSUME ProgramClass
    PROVE  Spec => []RoundRobinInv
  BY RoundRobinInvInit, RoundRobinInvStep, PTL DEF Spec

(* PendSV always saves the task that really runs and loads the one the       *)
(* scheduler chose: no request overtakes another.                            *)
THEOREM SwitchesAreSound ==
    ASSUME ProgramClass
    PROVE  Spec => []SwitchFromRunning
<1>1. RoundRobinInv => SwitchFromRunning
  BY DEF RoundRobinInv, SwitchInv, GlobalsFit
<1> QED BY <1>1, RoundRobinInvAlways, PTL

(* A blocked task stays inside pos_yield until somebody wakes it.            *)
THEOREM BlockedTasksStayOff ==
    ASSUME ProgramClass
    PROVE  Spec => []BlockedDoesNotRun
<1>1. RoundRobinInv => BlockedDoesNotRun
  BY DEF RoundRobinInv, SwitchInv, BlockedInYield, BlockedDoesNotRun, At, InYield
<1> QED BY <1>1, RoundRobinInvAlways, PTL

(* The CPU never sleeps over a ready task: no wakeup falls between the       *)
(* decision of pos_schedule_tasks and the WFE.                               *)
THEOREM NoLostWakeup ==
    ASSUME ProgramClass
    PROVE  Spec => []SleepsOnlyWhenBlocked
<1>1. RoundRobinInv => SleepsOnlyWhenBlocked
  BY DEF RoundRobinInv, SwitchInv
<1> QED BY <1>1, RoundRobinInvAlways, PTL

(* Every slice ends: the count never passes the quantum it is compared with. *)
THEOREM SlicesEnd ==
    ASSUME ProgramClass
    PROVE  Spec => []SliceBounded
<1>1. RoundRobinInv => SliceBounded
  BY DEF RoundRobinInv, SwitchInv, SliceFits
<1> QED BY <1>1, RoundRobinInvAlways, PTL

(* The ticks in os_mode TASKS_ACTIVE are those of the running task.          *)
THEOREM TicksAreTheRunners ==
    ASSUME ProgramClass
    PROVE  Spec => []ChargedToRunner
<1>1. RoundRobinInv => ChargedToRunner
  BY DEF RoundRobinInv, SwitchInv
<1> QED BY <1>1, RoundRobinInvAlways, PTL

-----------------------------------------------------------------------------
(* III. The semaphores of such programs that do not wait with a timeout:     *)
(* count, list and statuses agree, and every wait and signal is a step of    *)
(* SemaphoreSpec.  TimeoutRace shows what a timed wait does to both.         *)

SemaphoreClass == ProgramClass /\ \A t \in Task : TimedWaits[t] = {}

LineLength(c) == IF c < 0 THEN -c ELSE 0

NoTimedWaits == \A t \in Task : frame[t].sem = NoSem

(* The count is known of a line, and nobody is in two.                       *)
LinesFit ==
    /\ \A s \in Sem : Len(sem_q[s]) = LineLength(sem_cnt[s]) /\ EachOnce(sem_q[s])
    /\ \A s, r \in Sem : s # r => Waiting(s) \cap Waiting(r) = {}

WaitersSleep ==
    /\ \A s \in Sem : \A t \in Waiting(s) : status[t] = "SEM_WAITING"
    /\ \A t \in Task : status[t] # "SEM_WAITING_UNTIL"

LineInv == NoTimedWaits /\ LinesFit /\ WaitersSleep

(* What holds with mutexes too, whose sleepers have the same status.         *)
SemaphoreInv == RoundRobinInv /\ LineInv

(* Without mutexes nobody sleeps but in a line.                              *)
SleepersQueue ==
    \A t \in Task : status[t] = "SEM_WAITING" => \E s \in Sem : t \in Waiting(s)

QueueInv == SemaphoreInv /\ SleepersQueue

-----------------------------------------------------------------------------
(* What a step does to the semaphores and to those who sleep on them.        *)

SameSleepers ==
    \A t \in Task :
        /\ status'[t] = "SEM_WAITING" <=> status[t] = "SEM_WAITING"
        /\ status'[t] = "SEM_WAITING_UNTIL" => status[t] = "SEM_WAITING_UNTIL"

Quiet == UNCHANGED semVars /\ SameSleepers

Took(s) ==
    /\ sem_cnt[s] > 0
    /\ sem_cnt' = [sem_cnt EXCEPT ![s] = @ - 1]
    /\ UNCHANGED <<sem_q, status>>

Joined(s) ==
    /\ sem_cnt[s] <= 0
    /\ status[cte] # "SEM_WAITING" /\ pc[cte] = "run"
    /\ sem_cnt' = [sem_cnt EXCEPT ![s] = @ - 1]
    /\ sem_q' = [sem_q EXCEPT ![s] = Append(@, cte)]
    /\ status' = [status EXCEPT ![cte] = "SEM_WAITING"]

Effect == Quiet \/ \E s \in Sem : Took(s) \/ Joined(s) \/ Gave(s)

(* pos_schedule_tasks looks at the sleepers and leaves them asleep.          *)
LEMMA ScheduleIsQuiet ==
    ASSUME TypeInv, NEW rg \in SUBSET Task, Schedule(rg)
    PROVE  SameSleepers
<1>1. status \in [Task -> Status] /\ cte \in Task
  BY DEF TypeInv, TypeOK, SchedulerTypeOK
<1>2. CASE ReadyIn(rg) = {}
  BY <1>2 DEF Schedule, NoSwitch, SameSleepers
<1>3. CASE ReadyIn(rg) # {}
  <2> DEFINE nxt == NextReady(cte, ReadyIn(rg))
  <2>1. nxt \in Task
    BY <1>1, <1>3, NextReadyIsReady DEF ReadyIn
  <2>2. status' = SwitchStatus(status, cte, nxt)
    BY <1>3 DEF Schedule, RequestSwitch
  <2> HIDE DEF nxt
  <2> QED BY <1>1, <2>1, <2>2 DEF SwitchStatus, SameSleepers
<1> QED BY <1>2, <1>3

(* The tick wakes nobody but those who sleep in pos_delay_ms.                *)
LEMMA DelayTickIsQuiet ==
    ASSUME HighFits, TypeInv, NEW ticks, DelayTick(ticks)
    PROVE  SameSleepers
<1> DEFINE list == CountDown(delays)
           pid == list[1].pid
           woken == [status EXCEPT ![pid] = AwakeStatus(pid)]
<1>1. delays \in Seq(Entry) /\ status \in [Task -> Status]
  BY DEF TypeInv, TypeOK, SchedulerTypeOK, DelayTypeOK
<1>2. HeadElapsed(list) => pid \in Task \ HighTasks
  BY TickedIsBelowHigh DEF HeadElapsed
<1>3. \/ NoSwitch(status)
      \/ /\ HeadElapsed(list) /\ Ready(pid, woken, ticks)
         /\ status[pid] \in {"DELAY", "SEM_WAITING_UNTIL"}
  BY DEF DelayTick
<1>4. CASE NoSwitch(status)
  BY <1>4 DEF NoSwitch, SameSleepers
<1>5. CASE /\ HeadElapsed(list) /\ Ready(pid, woken, ticks)
           /\ status[pid] \in {"DELAY", "SEM_WAITING_UNTIL"}
  <2>1. AwakeStatus(pid) \in {"DELAY_TIMEOUT", "ACTIVE", "IDLE"}
    BY DEF AwakeStatus
  <2>2. pid \in Task \ HighTasks
    BY <1>2, <1>5
  <2>3. status' = woken
    <3> HIDE DEF list, pid, woken
    <3> QED BY <1>5, <2>2, ReadyEffect
  <2> HIDE DEF list, pid
  <2> QED BY <1>1, <1>5, <2>1, <2>2, <2>3 DEF SameSleepers
<1> QED BY <1>3, <1>4, <1>5

(* The tail of pos_semaphore_wait_until has no work to do.                   *)
LEMMA NoTail ==
    ASSUME TypeInv, NoTimedWaits, NEW t \in Task
    PROVE  ~WaitUntilTail(t)
<1>1. frame[t].sem \notin Sem
  BY ProgramAssumption DEF NoTimedWaits
<1>2. pc[t] \notin {"wu_check", "wu_remove", "wu_walk", "wu_unlink", "wu_load", "wu_store",
                   "wu_deq", "wu_free"}
  BY <1>1 DEF TypeInv, FramesOK
<1> QED
  BY <1>2 DEF WaitUntilTail, CheckTimeout, BeginWalk, VisitEntry, UnlinkEntry, LoadCnt,
     StoreCnt, ReadQueue, UnlinkHead, At

(* The calls of a task take, join or give, or leave the semaphores alone.    *)
LEMMA CallEffect ==
    ASSUME SemaphoreClass, SemaphoreInv, NEW t \in Task, Call(t)
    PROVE  Effect /\ UNCHANGED frame
<1> USE DEF SemaphoreInv
<1>0. /\ status \in [Task -> Status] /\ cte \in Task /\ ring \in SUBSET Task
      /\ sem_cnt \in [Sem -> Int] /\ TypeInv
  BY DEF RoundRobinInv, TypeInv, TypeOK, SchedulerTypeOK, SemaphoreTypeOK
<1>1. ASSUME NEW s \in Waits[t], SemWait(t, s, "run"), UNCHANGED <<delays, frame>>
      PROVE  Effect /\ UNCHANGED frame
  <2>1. s \in Sem
    BY ProgramAssumption
  <2>2. At(t, "run")
    BY <1>1 DEF SemWait
  <2>3. cte = t /\ pc[cte] = "run" /\ status[cte] \notin Blocked
    BY <2>2, Executing DEF RoundRobinInv, SwitchInv, BlockedInYield, InYield
  <2>4. CASE sem_cnt[s] - 1 >= 0
    <3>1. Took(s)
      BY <1>0, <1>1, <2>1, <2>4 DEF SemWait, GoOn, schedVars, Took
    <3> QED BY <1>1, <2>1, <3>1 DEF Effect
  <2>5. CASE ~(sem_cnt[s] - 1 >= 0)
    <3>1. Joined(s)
      BY <1>0, <1>1, <2>1, <2>3, <2>5 DEF SemWait, Enq, Blocked, Joined
    <3> QED BY <1>1, <2>1, <3>1 DEF Effect
  <2> QED BY <2>4, <2>5
<1>2. ASSUME NEW s \in Signals[t], SemSignal(t, s), UNCHANGED <<delays, frame>>
      PROVE  Effect /\ UNCHANGED frame
  <2>1. s \in Sem
    BY ProgramAssumption
  <2>2. Gave(s)
    BY <1>0, <1>2, <2>1, SignalGives DEF SemSignal
  <2> QED BY <1>2, <2>1, <2>2 DEF Effect
<1>3. ASSUME NEW time \in Sleeps[t], DelayMs(t, time), UNCHANGED <<semVars, frame>>
      PROVE  Effect /\ UNCHANGED frame
  <2>1. At(t, "run") /\ status' = [status EXCEPT ![cte] = "DELAY"]
    BY <1>3 DEF DelayMs
  <2>2. cte = t /\ status[cte] \notin Blocked
    BY <2>1, Executing DEF RoundRobinInv, SwitchInv, BlockedInYield, InYield
  <2>3. SameSleepers
    BY <1>0, <2>1, <2>2 DEF SameSleepers, Blocked
  <2> QED BY <1>3, <2>3 DEF Effect, Quiet
<1> QED
  BY <1>1, <1>2, <1>3 DEF Call, SemaphoreClass, ProgramClass

(* So does every step.                                                       *)
LEMMA StepEffect ==
    ASSUME SemaphoreClass, SemaphoreInv, [Next]_vars
    PROVE  Effect /\ UNCHANGED frame
<1>0. TypeInv /\ ring \in SUBSET Task /\ HighFits
  BY DEF SemaphoreInv, RoundRobinInv, TypeInv, TypeOK, SchedulerTypeOK
<1>1. ASSUME NEW t \in Task, Yielding(t) PROVE Effect /\ UNCHANGED frame
  <2>1. UNCHANGED semVars /\ UNCHANGED frame
    BY <1>1 DEF Yielding
  <2>2. UNCHANGED status \/ Schedule(ring)
    BY <1>1 DEF Yielding, EnterSvc, SleepCpu, WakeCpu, ReturnFromYield, schedVars
  <2>3. SameSleepers
    BY <1>0, <2>2, ScheduleIsQuiet DEF SameSleepers
  <2> QED BY <2>1, <2>3 DEF Effect, Quiet
<1>2. ASSUME NEW t \in Task, Call(t) PROVE Effect /\ UNCHANGED frame
  BY <1>2, CallEffect
<1>3. CASE SysTick
  <2>1. UNCHANGED semVars /\ UNCHANGED frame
    BY <1>3 DEF SysTick
  <2>2. SameSleepers
    <3>1. Schedule(ring) \/ DelayTick((elapsed_ticks + 1) % 256)
      BY <1>3 DEF SysTick
    <3> QED BY <1>0, <3>1, ScheduleIsQuiet, DelayTickIsQuiet DEF SemaphoreInv, LineInv
  <2> QED BY <2>1, <2>2 DEF Effect, Quiet
<1>4. CASE Isr
  <2>1. PICK s \in Sem : IsrSignal(s)
    BY <1>4, ProgramAssumption DEF Isr
  <2>2. Gave(s)
    BY <1>0, <2>1, SignalGives DEF IsrSignal
  <2> QED BY <1>4, <2>2 DEF Effect, Isr
<1>5. CASE SwitchContext
  BY <1>5 DEF SwitchContext, PendSV, Effect, Quiet, SameSleepers
<1>6. CASE UNCHANGED vars
  BY <1>6 DEF vars, schedVars, semVars, Effect, Quiet, SameSleepers
<1>7. CASE Halted
  BY <1>6, <1>7 DEF Halted
<1>8. ASSUME NEW t \in Task, WaitUntilTail(t) PROVE FALSE
  BY <1>0, <1>8, NoTail DEF SemaphoreInv, LineInv
<1> QED BY <1>1, <1>2, <1>3, <1>4, <1>5, <1>6, <1>7, <1>8 DEF Next

-----------------------------------------------------------------------------
(* The invariant holds when the scheduler starts: nobody waits.              *)
LEMMA LineInvInit == Init => LineInv
<1> SUFFICES ASSUME Init PROVE LineInv
  OBVIOUS
<1>1. /\ sem_cnt = InitCnt /\ sem_q = [s \in Sem |-> <<>>]
      /\ status = [t \in Task |-> IF t = 1 THEN "ACTIVE" ELSE "IDLE"]
      /\ frame = [t \in Task |-> NoFrame]
  BY DEF Init, SemaphoreInit, SchedulerInit
<1>2. \A s \in Sem : sem_q[s] = <<>> /\ Len(sem_q[s]) = 0 /\ sem_cnt[s] \in Nat
  BY <1>1, SemAssumption, EmptySeq
<1>3. \A s \in Sem : Waiting(s) = {}
  BY <1>2 DEF Waiting
<1>4. LinesFit
  BY <1>2, <1>3 DEF LinesFit, LineLength, EachOnce
<1>5. WaitersSleep /\ NoTimedWaits
  BY <1>1, <1>3 DEF WaitersSleep, NoTimedWaits, NoFrame
<1> QED BY <1>4, <1>5 DEF LineInv

(* Only tasks wait.                                                          *)
LEMMA WaitingTasks ==
    ASSUME SemaphoreInv
    PROVE  \A s \in Sem : Waiting(s) \subseteq Task
  BY ElementOfSeq DEF Waiting, SemaphoreInv, RoundRobinInv, TypeInv, TypeOK, SemaphoreTypeOK

(* Nobody sleeps when the scheduler starts.                                  *)
LEMMA SleepersQueueInit == Init => SleepersQueue
  BY DEF Init, SchedulerInit, SleepersQueue

(* A unit that is free goes to the caller: there is no line.                 *)
LEMMA TookKeeps ==
    ASSUME SemaphoreInv, NEW s \in Sem, Took(s)
    PROVE  LinesFit' /\ WaitersSleep' /\ (SleepersQueue => SleepersQueue')
<1>1. sem_cnt \in [Sem -> Int]
  BY DEF SemaphoreInv, RoundRobinInv, TypeInv, TypeOK, SemaphoreTypeOK
<1>2. \A r \in Sem : LineLength(sem_cnt'[r]) = LineLength(sem_cnt[r])
  BY <1>1 DEF Took, LineLength
<1>3. UNCHANGED <<sem_q, status>>
  BY DEF Took
<1>4. \A r \in Sem : Waiting(r)' = Waiting(r)
  BY <1>3 DEF Waiting
<1>5. LinesFit'
  BY <1>2, <1>3, <1>4 DEF SemaphoreInv, LineInv, LinesFit
<1>6. WaitersSleep' /\ (SleepersQueue => SleepersQueue')
  BY <1>3, <1>4 DEF SemaphoreInv, LineInv, WaitersSleep, SleepersQueue
<1> QED BY <1>5, <1>6

(* The caller, who slept in no line, joins the line of s.                    *)
LEMMA JoinedKeeps ==
    ASSUME SemaphoreInv, NEW s \in Sem, Joined(s)
    PROVE  LinesFit' /\ WaitersSleep' /\ (SleepersQueue => SleepersQueue')
<1> USE DEF SemaphoreInv, LineInv
<1>1. /\ sem_cnt \in [Sem -> Int] /\ sem_q \in [Sem -> Seq(Task)] /\ cte \in Task
      /\ status \in [Task -> Status]
  BY DEF RoundRobinInv, TypeInv, TypeOK, SemaphoreTypeOK, SchedulerTypeOK
<1>2. \A r \in Sem : cte \notin Waiting(r)
  BY <1>1 DEF WaitersSleep, Joined
<1>3. EachOnce(sem_q[s]) /\ sem_q' = [sem_q EXCEPT ![s] = Append(@, cte)]
  BY DEF LinesFit, Joined
<1>4. /\ EachOnce(sem_q'[s]) /\ Len(sem_q'[s]) = Len(sem_q[s]) + 1
      /\ \A r \in Sem \ {s} : sem_q'[r] = sem_q[r]
  BY <1>1, <1>2, <1>3, JoinLine DEF RoundRobinInv
<1>5. \A r \in Sem : Waiting(r)' = IF r = s THEN Waiting(s) \cup {cte} ELSE Waiting(r)
  BY <1>1, <1>3, EnqLines DEF RoundRobinInv
<1>6. LinesFit'
  <2>1. \A r \in Sem : Len(sem_q'[r]) = LineLength(sem_cnt'[r])
    <3>1. \A r \in Sem : Len(sem_q[r]) = LineLength(sem_cnt[r])
      BY DEF LinesFit
    <3>2. sem_cnt[s] <= 0 /\ sem_cnt' = [sem_cnt EXCEPT ![s] = sem_cnt[s] - 1]
      BY DEF Joined
    <3> QED BY <1>1, <1>4, <3>1, <3>2 DEF LineLength
  <2>2. \A r \in Sem : EachOnce(sem_q'[r])
    BY <1>4 DEF LinesFit
  <2>3. \A r, u \in Sem : r # u => Waiting(r)' \cap Waiting(u)' = {}
    BY <1>2, <1>5 DEF LinesFit
  <2> QED BY <2>1, <2>2, <2>3 DEF LinesFit
<1>7. WaitersSleep' /\ (SleepersQueue => SleepersQueue')
  <2>1. status' = [status EXCEPT ![cte] = "SEM_WAITING"]
    BY DEF Joined
  <2>2. \A t \in Task : status'[t] = IF t = cte THEN "SEM_WAITING" ELSE status[t]
    BY <1>1, <2>1
  <2>3. \A r \in Sem : Waiting(r) \subseteq Task
    BY WaitingTasks
  <2>4. WaitersSleep'
    BY <1>1, <1>5, <2>2, <2>3 DEF WaitersSleep
  <2>5. SleepersQueue => SleepersQueue'
    BY <1>5, <2>2 DEF SleepersQueue
  <2> QED BY <2>4, <2>5
<1> QED BY <1>6, <1>7

(* With a line there is a debt, and the head leaves both; without one the    *)
(* unit is free again.                                                       *)
LEMMA GaveEffect ==
    ASSUME SemaphoreInv, NEW s \in Sem, Gave(s)
    PROVE  \/ /\ sem_q[s] = <<>> /\ sem_cnt[s] >= 0 /\ UNCHANGED sem_q
              /\ OnlyWakes({})
           \/ /\ sem_q[s] # <<>> /\ sem_cnt[s] < 0
              /\ sem_q' = [sem_q EXCEPT ![s] = Tail(@)]
              /\ OnlyWakes({Head(sem_q[s])})
<1>1. sem_cnt \in [Sem -> Int] /\ sem_q \in [Sem -> Seq(Task)]
  BY DEF SemaphoreInv, RoundRobinInv, TypeInv, TypeOK, SemaphoreTypeOK
<1>2. Len(sem_q[s]) = LineLength(sem_cnt[s])
  BY DEF SemaphoreInv, LineInv, LinesFit
<1>3. CASE sem_q[s] = <<>>
  <2>1. sem_cnt[s] >= 0
    BY <1>1, <1>2, <1>3, EmptySeq DEF LineLength
  <2>2. sem_q' = sem_q
    BY <1>1, <1>3 DEF Gave, DeqQueue
  <2> QED BY <1>3, <2>1, <2>2 DEF Gave, HeadOf
<1>4. CASE sem_q[s] # <<>>
  <2>1. sem_cnt[s] < 0 /\ sem_cnt[s] + 1 <= 0
    <3>1. Len(sem_q[s]) \in Nat \ {0} /\ sem_cnt[s] \in Int
      BY <1>1, <1>4, EmptySeq
    <3> QED BY <1>2, <3>1 DEF LineLength
  <2> QED BY <1>1, <1>4, <2>1 DEF Gave, DeqQueue, HeadOf
<1> QED BY <1>3, <1>4

(* A signal keeps count, list and statuses together.                         *)
LEMMA GaveKeeps ==
    ASSUME SemaphoreInv, NEW s \in Sem, Gave(s)
    PROVE  LinesFit' /\ WaitersSleep' /\ (SleepersQueue => SleepersQueue')
<1> USE DEF SemaphoreInv, LineInv
<1>1. /\ sem_cnt \in [Sem -> Int] /\ sem_q \in [Sem -> Seq(Task)]
      /\ status \in [Task -> Status]
  BY DEF RoundRobinInv, TypeInv, TypeOK, SemaphoreTypeOK, SchedulerTypeOK
<1>2. sem_cnt' = [sem_cnt EXCEPT ![s] = sem_cnt[s] + 1]
  BY DEF Gave
<1>3. \A r \in Sem : Len(sem_q[r]) = LineLength(sem_cnt[r])
  BY DEF LinesFit
<1>4. CASE /\ sem_q[s] = <<>> /\ sem_cnt[s] >= 0 /\ UNCHANGED sem_q
           /\ OnlyWakes({})
  <2>1. \A r \in Sem : LineLength(sem_cnt'[r]) = LineLength(sem_cnt[r])
    BY <1>1, <1>2, <1>4 DEF LineLength
  <2>2. \A r \in Sem : Waiting(r)' = Waiting(r)
    BY <1>4 DEF Waiting
  <2>3. LinesFit'
    BY <1>4, <2>1, <2>2 DEF LinesFit
  <2>4. SameSleepers
    BY <1>4 DEF OnlyWakes, Asleep, Blocked, SameSleepers
  <2>5. \A r \in Sem : Waiting(r) \subseteq Task
    BY WaitingTasks
  <2> QED BY <2>2, <2>3, <2>4, <2>5 DEF WaitersSleep, SleepersQueue, SameSleepers
<1>5. CASE /\ sem_q[s] # <<>> /\ sem_cnt[s] < 0
           /\ sem_q' = [sem_q EXCEPT ![s] = Tail(@)]
           /\ OnlyWakes({Head(sem_q[s])})
  <2> DEFINE h == Head(sem_q[s])
  <2>1. EachOnce(sem_q[s])
    BY DEF LinesFit
  <2>2. /\ h \in Waiting(s) /\ h \in Task
        /\ EachOnce(sem_q'[s]) /\ Len(sem_q'[s]) = Len(sem_q[s]) - 1
        /\ \A r \in Sem \ {s} : sem_q'[r] = sem_q[r]
        /\ \A r \in Sem : Waiting(r)' = IF r = s THEN Waiting(s) \ {h} ELSE Waiting(r)
    BY <1>5, <2>1, LeaveLine DEF RoundRobinInv
  <2> HIDE DEF h
  <2>3. \A r \in Sem \ {s} : h \notin Waiting(r)
    BY <2>2 DEF LinesFit
  <2>4. LinesFit'
    <3>1. \A r \in Sem : Len(sem_q'[r]) = LineLength(sem_cnt'[r])
      BY <1>1, <1>2, <1>3, <1>5, <2>2 DEF LineLength
    <3>2. \A r \in Sem : EachOnce(sem_q'[r])
      BY <2>2 DEF LinesFit
    <3>3. \A r, u \in Sem : r # u => Waiting(r)' \cap Waiting(u)' = {}
      BY <2>2 DEF LinesFit
    <3> QED BY <3>1, <3>2, <3>3 DEF LinesFit
  <2>5. WaitersSleep' /\ (SleepersQueue => SleepersQueue')
    <3>1. OnlyWakes({h})
      BY <1>5 DEF h
    <3>2. \A t \in Task :
             /\ status'[t] = "SEM_WAITING" <=> status[t] = "SEM_WAITING" /\ t # h
             /\ status'[t] = "SEM_WAITING_UNTIL" => status[t] = "SEM_WAITING_UNTIL"
      BY <3>1 DEF OnlyWakes, Asleep, Blocked
    <3>3. \A t \in Task : (\E r \in Sem : t \in Waiting(r)')
                          <=> t # h /\ \E r \in Sem : t \in Waiting(r)
      BY <2>2, <2>3
    <3>4. \A r \in Sem : Waiting(r) \subseteq Task
      BY WaitingTasks
    <3>5. WaitersSleep'
      BY <2>2, <2>3, <3>2, <3>4 DEF WaitersSleep
    <3>6. SleepersQueue => SleepersQueue'
      BY <3>2, <3>3 DEF SleepersQueue
    <3> QED BY <3>5, <3>6
  <2> QED BY <2>4, <2>5
<1> QED BY <1>4, <1>5, GaveEffect

(* Taking a unit leaves every line as it is.                                 *)
LEMMA TookLines ==
    ASSUME NEW s \in Sem, Took(s)
    PROVE  \A r \in Sem : Waiting(r)' = Waiting(r)
  BY DEF Took, Waiting

(* The caller is the only one to join a line.                                *)
LEMMA JoinedLines ==
    ASSUME TypeInv, NEW s \in Sem, Joined(s)
    PROVE  \A r \in Sem : Waiting(r)' \subseteq Waiting(r) \cup {cte}
<1>1. sem_q \in [Sem -> Seq(Task)] /\ cte \in Task
  BY DEF TypeInv, TypeOK, SchedulerTypeOK, SemaphoreTypeOK
<1> QED BY <1>1, EnqLines DEF Joined

(* Whatever a step does of this, the lines stay fit.                         *)
LEMMA EffectKeeps ==
    ASSUME SemaphoreInv, Effect, UNCHANGED frame
    PROVE  LineInv' /\ (SleepersQueue => SleepersQueue')
<1>1. NoTimedWaits'
  BY DEF SemaphoreInv, LineInv, NoTimedWaits
<1>2. CASE Quiet
  <2>1. UNCHANGED <<sem_cnt, sem_q>> /\ SameSleepers
    BY <1>2 DEF Quiet, semVars
  <2>2. \A s \in Sem : Waiting(s)' = Waiting(s)
    BY <2>1 DEF Waiting
  <2>3. LinesFit'
    BY <2>1, <2>2 DEF SemaphoreInv, LineInv, LinesFit
  <2>4. WaitersSleep' /\ (SleepersQueue => SleepersQueue')
    <3>1. \A s \in Sem : Waiting(s) \subseteq Task
      BY WaitingTasks
    <3> QED BY <2>1, <2>2, <3>1 DEF SemaphoreInv, LineInv, WaitersSleep, SleepersQueue,
            SameSleepers
  <2> QED BY <1>1, <2>3, <2>4 DEF LineInv
<1>3. ASSUME NEW s \in Sem, Took(s) \/ Joined(s) \/ Gave(s)
      PROVE  LineInv' /\ (SleepersQueue => SleepersQueue')
  BY <1>1, <1>3, TookKeeps, JoinedKeeps, GaveKeeps DEF LineInv
<1> QED BY <1>2, <1>3 DEF Effect

(* Every step keeps the invariants.                                          *)
LEMMA SemaphoreInvStep ==
    ASSUME SemaphoreClass
    PROVE  /\ SemaphoreInv /\ [Next]_vars => SemaphoreInv'
           /\ QueueInv /\ [Next]_vars => QueueInv'
<1> SUFFICES ASSUME SemaphoreInv, [Next]_vars
             PROVE  LineInv' /\ (SleepersQueue => SleepersQueue')
  BY RoundRobinInvStep DEF SemaphoreClass, SemaphoreInv, QueueInv
<1> QED BY StepEffect, EffectKeeps

(* The invariants hold in every behaviour.                                   *)
LEMMA QueueInvAlways ==
    ASSUME SemaphoreClass
    PROVE  Spec => []QueueInv
<1>1. Init => QueueInv
  BY RoundRobinInvInit, LineInvInit, SleepersQueueInit DEF SemaphoreInv, QueueInv
<1> QED BY <1>1, SemaphoreInvStep, PTL DEF Spec

(* So does the part that mutexes share.                                      *)
LEMMA SemaphoreInvAlways ==
    ASSUME SemaphoreClass
    PROVE  Spec => []SemaphoreInv
  BY QueueInvAlways, PTL DEF QueueInv

(* Nobody is counted who does not queue, and nobody queues uncounted or      *)
(* twice: no signal is spent on a waiter pos_semaphore_deq does not find.    *)
THEOREM CountsMatchQueues ==
    ASSUME SemaphoreClass
    PROVE  Spec => []CountMatchesQueue
<1>1. SemaphoreInv => CountMatchesQueue
  <2> SUFFICES ASSUME SemaphoreInv, NEW s \in Sem
               PROVE  /\ Len(sem_q[s]) = (IF sem_cnt[s] < 0 THEN -sem_cnt[s] ELSE 0)
                      /\ Cardinality(Waiting(s)) = Len(sem_q[s])
    BY DEF CountMatchesQueue
  <2>1. sem_q[s] \in Seq(Task)
    BY DEF SemaphoreInv, RoundRobinInv, TypeInv, TypeOK, SemaphoreTypeOK
  <2>2. Len(sem_q[s]) = LineLength(sem_cnt[s]) /\ EachOnce(sem_q[s])
    BY DEF SemaphoreInv, LineInv, LinesFit
  <2> QED BY <2>1, <2>2, EachOnceCounts DEF Waiting, LineLength
<1> QED BY <1>1, SemaphoreInvAlways, PTL

(* A task sleeps on a semaphore exactly when one line holds it: no waiter is *)
(* forgotten, and no signal wakes a task that has gone on.                   *)
THEOREM SleepersAreQueued ==
    ASSUME SemaphoreClass
    PROVE  Spec => []QueuedIffWaiting
<1>1. QueueInv => QueuedIffWaiting
  BY DEF QueueInv, SemaphoreInv, LineInv, LinesFit, WaitersSleep, SleepersQueue,
     QueuedIffWaiting
<1> QED BY <1>1, QueueInvAlways, PTL

-----------------------------------------------------------------------------
(* The refinement of SemaphoreSpec.                                          *)

asleep == {t \in Task : status[t] = "SEM_WAITING"}
free == [s \in Sem |-> IF sem_cnt[s] > 0 THEN sem_cnt[s] ELSE 0]

(* The kernel starts with the units SemaphoreSpec starts with.               *)
LEMMA PromiseInit == Init => Promise!Init
<1> SUFFICES ASSUME Init PROVE Promise!Init
  OBVIOUS
<1>1. sem_cnt = InitCnt /\ sem_q = [s \in Sem |-> <<>>]
  BY DEF Init, SemaphoreInit
<1>2. free = InitCnt
  BY <1>1, SemAssumption DEF free
<1>3. asleep = {}
  BY DEF Init, SchedulerInit, asleep
<1> QED BY <1>1, <1>2, <1>3 DEF Promise!Init, free, asleep

(* A step of the kernel is a step of one semaphore, or none.                 *)
LEMMA PromiseStep ==
    ASSUME SemaphoreClass, SemaphoreInv, [Next]_vars
    PROVE  [Promise!Next]_(Promise!abstractVars)
<1> USE DEF SemaphoreInv, LineInv
<1>1. /\ sem_cnt \in [Sem -> Int] /\ sem_q \in [Sem -> Seq(Task)] /\ cte \in Task
      /\ status \in [Task -> Status]
  BY DEF RoundRobinInv, TypeInv, TypeOK, SemaphoreTypeOK, SchedulerTypeOK
<1>2. Effect
  BY StepEffect
<1>3. CASE Quiet
  <2>1. UNCHANGED <<sem_cnt, sem_q>> /\ SameSleepers
    BY <1>3 DEF Quiet, semVars
  <2>2. free' = free /\ asleep' = asleep
    BY <2>1 DEF SameSleepers, free, asleep
  <2> QED BY <2>1, <2>2 DEF Promise!abstractVars, free, asleep
<1>4. ASSUME NEW s \in Sem, Took(s) PROVE Promise!Next
  <2>1. free[s] > 0 /\ free' = [free EXCEPT ![s] = @ - 1]
    <3>1. sem_cnt[s] > 0 /\ \A r \in Sem : sem_cnt'[r] = IF r = s THEN sem_cnt[s] - 1
                                                       ELSE sem_cnt[r]
      BY <1>1, <1>4 DEF Took
    <3>2. \A r \in Sem : (IF sem_cnt'[r] > 0 THEN sem_cnt'[r] ELSE 0)
                         = IF r = s THEN sem_cnt[s] - 1
                           ELSE IF sem_cnt[r] > 0 THEN sem_cnt[r] ELSE 0
      BY <1>1, <3>1
    <3> QED BY <3>1, <3>2 DEF free
  <2>2. UNCHANGED sem_q /\ asleep' = asleep
    BY <1>4 DEF Took, asleep
  <2>3. Promise!Take(s)
    BY <2>1, <2>2 DEF Promise!Take, free, asleep
  <2> QED BY <2>3 DEF Promise!Next
<1>5. ASSUME NEW s \in Sem, Joined(s) PROVE Promise!Next
  <2>1. free[s] = 0 /\ free' = free
    BY <1>1, <1>5 DEF Joined, free
  <2>2. cte \notin asleep /\ asleep' = asleep \cup {cte}
    BY <1>1, <1>5 DEF Joined, asleep
  <2>3. sem_q' = [sem_q EXCEPT ![s] = Append(@, cte)]
    BY <1>5 DEF Joined
  <2>4. Promise!Join(cte, s)
    BY <2>1, <2>2, <2>3 DEF Promise!Join, free, asleep
  <2> QED BY <1>1, <2>4 DEF Promise!Next
<1>6. ASSUME NEW s \in Sem, Gave(s) PROVE Promise!Next
  <2>0. sem_cnt' = [sem_cnt EXCEPT ![s] = sem_cnt[s] + 1]
    BY <1>6 DEF Gave
  <2>1. CASE sem_q[s] = <<>> /\ sem_cnt[s] >= 0 /\ UNCHANGED sem_q /\ OnlyWakes({})
    <3>1. free' = [free EXCEPT ![s] = @ + 1]
      <4>1. \A r \in Sem : (IF sem_cnt'[r] > 0 THEN sem_cnt'[r] ELSE 0)
                           = IF r = s THEN sem_cnt[s] + 1
                             ELSE IF sem_cnt[r] > 0 THEN sem_cnt[r] ELSE 0
        BY <1>1, <2>0, <2>1
      <4>2. free[s] = sem_cnt[s]
        BY <1>1, <2>1 DEF free
      <4> QED BY <4>1, <4>2 DEF free
    <3>2. asleep' = asleep
      BY <2>1 DEF OnlyWakes, Asleep, Blocked, asleep
    <3>3. Promise!Give(s)
      BY <2>1, <3>1, <3>2 DEF Promise!Give, free, asleep
    <3> QED BY <3>3 DEF Promise!Next
  <2>2. CASE /\ sem_q[s] # <<>> /\ sem_cnt[s] < 0
             /\ sem_q' = [sem_q EXCEPT ![s] = Tail(@)]
             /\ OnlyWakes({Head(sem_q[s])})
    <3>1. free' = free
      BY <1>1, <2>0, <2>2 DEF free
    <3>2. asleep' = asleep \ {Head(sem_q[s])}
      BY <2>2 DEF OnlyWakes, Asleep, Blocked, asleep
    <3>3. Promise!Give(s)
      BY <2>2, <3>1, <3>2 DEF Promise!Give, free, asleep
    <3> QED BY <3>3 DEF Promise!Next
  <2> QED BY <1>6, <2>1, <2>2, GaveEffect
<1> QED BY <1>2, <1>3, <1>4, <1>5, <1>6 DEF Effect

(* pos_semaphore_wait and pos_semaphore_signal implement SemaphoreSpec for   *)
(* every such program: no unit is lost or made up, waiters are served in the *)
(* order they came, and nothing but a signal wakes them.                     *)
THEOREM SemaphoresKeepPromise ==
    ASSUME SemaphoreClass
    PROVE  Spec => KeepsPromise
<1>1. SemaphoreInv /\ [Next]_vars => [Promise!Next]_(Promise!abstractVars)
  BY PromiseStep
<1> QED BY <1>1, PromiseInit, SemaphoreInvAlways, PTL DEF Spec, Promise!Spec, KeepsPromise

-----------------------------------------------------------------------------
(* IV. The delay list of the same programs: a task sleeps in pos_delay_ms    *)
(* exactly when it has an entry, so that the tick never finds an entry       *)
(* without a sleeper, and the kernel never stops in a fault.                 *)

PidsOnce(list) ==
    \A i, j \in 1 .. Len(list) : list[i].pid = list[j].pid => i = j

IsListed(list, t) == \E i \in 1 .. Len(list) : list[i].pid = t

ListFits ==
    /\ PidsOnce(delays)
    /\ \A t \in Task : status[t] = "DELAY" <=> IsListed(delays, t)

DelayInv == SemaphoreInv /\ ListFits /\ ring = Task /\ fault = "none"

-----------------------------------------------------------------------------
(* What the operations of the list do to its PIDs.                           *)

(* A PID that is not listed is listed once behind it.                        *)
LEMMA AddPid ==
    ASSUME NEW list \in Seq(Entry), NEW pid \in Task, NEW time \in Nat,
           PidsOnce(list), ~IsListed(list, pid)
    PROVE  /\ PidsOnce(DelayAdd(list, pid, time))
           /\ \A t : IsListed(DelayAdd(list, pid, time), t)
                     <=> t = pid \/ IsListed(list, t)
<1> DEFINE r == DelayAdd(list, pid, time)
           e == [pid |-> pid, left |-> time]
<1>1. Len(list) \in Nat /\ Len(r) = Len(list) + 1
  BY LenProperties, DelayAddPlaces
<1>2. PICK at \in 1 .. Len(list) + 1 :
          \A k \in 1 .. Len(list) + 1 :
              r[k] = IF k < at THEN list[k] ELSE IF k = at THEN e ELSE list[k - 1]
  BY DelayAddPlaces
<1> HIDE DEF r
<1>3. \A i \in 1 .. Len(list) : list[i].pid # pid
  BY DEF IsListed
<1> DEFINE Old(k) == IF k < at THEN k ELSE k - 1
<1>4. \A k \in 1 .. Len(r) : r[k].pid = IF k = at THEN pid ELSE list[Old(k)].pid
  BY <1>1, <1>2
<1>5. \A k \in 1 .. Len(r) : k # at => Old(k) \in 1 .. Len(list)
  BY <1>1
<1>6. PidsOnce(r)
  <2> SUFFICES ASSUME NEW i \in 1 .. Len(r), NEW j \in 1 .. Len(r), r[i].pid = r[j].pid
               PROVE  i = j
    BY DEF PidsOnce
  <2>1. CASE i = at \/ j = at
    BY <1>3, <1>4, <1>5, <2>1
  <2>2. CASE i # at /\ j # at
    <3>1. Old(i) = Old(j)
      BY <1>4, <1>5, <2>2 DEF PidsOnce
    <3> QED BY <1>1, <2>2, <3>1
  <2> QED BY <2>1, <2>2
<1>7. ASSUME NEW t, NEW k \in 1 .. Len(r), r[k].pid = t
      PROVE  t = pid \/ IsListed(list, t)
  BY <1>4, <1>5, <1>7 DEF IsListed
<1>8. IsListed(r, pid)
  <2>1. at \in 1 .. Len(r) /\ r[at].pid = pid
    BY <1>1, <1>4
  <2> QED BY <2>1 DEF IsListed
<1>9. ASSUME NEW t, NEW i \in 1 .. Len(list), list[i].pid = t
      PROVE  IsListed(r, t)
  <2> DEFINE k == IF i < at THEN i ELSE i + 1
  <2>1. k \in 1 .. Len(r) /\ k # at /\ Old(k) = i
    BY <1>1
  <2>2. r[k].pid = t
    BY <1>4, <1>9, <2>1
  <2> QED BY <2>1, <2>2 DEF IsListed
<1>10. \A t : IsListed(r, t) <=> t = pid \/ IsListed(list, t)
  BY <1>7, <1>8, <1>9 DEF IsListed
<1> QED BY <1>6, <1>10 DEF r

(* A list with the same PIDs in the same places is as good.                  *)
LEMMA SamePids ==
    ASSUME NEW list, NEW other, Len(other) = Len(list),
           \A i \in 1 .. Len(list) : other[i].pid = list[i].pid, PidsOnce(list)
    PROVE  PidsOnce(other) /\ \A t : IsListed(other, t) <=> IsListed(list, t)
  BY DEF PidsOnce, IsListed

(* Unlinking the head removes its PID, and only it.                          *)
LEMMA UnlinkPid ==
    ASSUME NEW list \in Seq(Entry), list # <<>>, PidsOnce(list)
    PROVE  /\ PidsOnce(Tail(list)) /\ IsListed(list, list[1].pid)
           /\ \A t : IsListed(Tail(list), t) <=> t # list[1].pid /\ IsListed(list, t)
<1> DEFINE r == Tail(list)
<1>1. /\ Len(list) \in Nat \ {0} /\ Len(r) = Len(list) - 1
      /\ \A i \in 1 .. Len(r) : r[i] = list[i + 1]
  BY HeadTailProperties, EmptySeq
<1> HIDE DEF r
<1>2. 1 \in 1 .. Len(list) /\ \A i \in 1 .. Len(r) : i + 1 \in 1 .. Len(list) /\ i + 1 # 1
  BY <1>1
<1>3. PidsOnce(r)
  <2> SUFFICES ASSUME NEW i \in 1 .. Len(r), NEW j \in 1 .. Len(r), r[i].pid = r[j].pid
               PROVE  i = j
    BY DEF PidsOnce
  <2>1. i + 1 = j + 1
    BY <1>1, <1>2 DEF PidsOnce
  <2> QED BY <1>1, <2>1
<1>4. ASSUME NEW i \in 1 .. Len(r)
      PROVE  r[i].pid # list[1].pid /\ IsListed(list, r[i].pid)
  BY <1>1, <1>2 DEF PidsOnce, IsListed
<1>5. ASSUME NEW t, NEW j \in 1 .. Len(list), list[j].pid = t, t # list[1].pid
      PROVE  IsListed(r, t)
  <2>1. j # 1
    BY <1>5
  <2>2. j - 1 \in 1 .. Len(r) /\ r[j - 1] = list[j]
    BY <1>1, <2>1
  <2> QED BY <1>5, <2>2 DEF IsListed
<1>6. \A t : IsListed(r, t) <=> t # list[1].pid /\ IsListed(list, t)
  BY <1>4, <1>5 DEF IsListed
<1> QED BY <1>2, <1>3, <1>6 DEF r, IsListed

-----------------------------------------------------------------------------
(* The steps.                                                                *)

SameDelayers == \A t \in Task : status'[t] = "DELAY" <=> status[t] = "DELAY"

(* A step that leaves the list and those who sleep in it alone.              *)
LEMMA QuietListKeeps ==
    ASSUME ListFits, UNCHANGED delays, SameDelayers
    PROVE  ListFits'
  BY DEF ListFits, PidsOnce, IsListed, SameDelayers

(* pos_schedule_tasks wakes no sleeper, and with the whole ring linked its   *)
(* walk ends.                                                                *)
LEMMA ScheduleFinds ==
    ASSUME DelayInv, Schedule(ring)
    PROVE  SameDelayers /\ UNCHANGED fault
<1>1. /\ TypeInv /\ status \in [Task -> Status] /\ cte \in Task /\ ring = Task
      /\ ring \in SUBSET Task
  BY DEF DelayInv, SemaphoreInv, RoundRobinInv, TypeInv, TypeOK, SchedulerTypeOK
<1>2. CASE ReadyIn(ring) = {}
  BY <1>1, <1>2 DEF Schedule, NoSwitch, SameDelayers
<1>3. CASE ReadyIn(ring) # {}
  <2> DEFINE nxt == NextReady(cte, ReadyIn(ring))
  <2>1. nxt \in Task
    BY <1>1, <1>3, NextReadyIsReady DEF ReadyIn
  <2>2. status' = SwitchStatus(status, cte, nxt) /\ UNCHANGED fault
    BY <1>3 DEF Schedule, RequestSwitch
  <2> HIDE DEF nxt
  <2> QED BY <1>1, <2>1, <2>2 DEF SwitchStatus, SameDelayers
<1> QED BY <1>2, <1>3

(* A signal wakes a task of its line, and no task of a line sleeps in        *)
(* pos_delay_ms.                                                             *)
LEMMA GaveSparesDelays ==
    ASSUME SemaphoreInv, NEW s \in Sem, Gave(s)
    PROVE  SameDelayers
<1>1. sem_q[s] \in Seq(Task)
  BY DEF SemaphoreInv, RoundRobinInv, TypeInv, TypeOK, SemaphoreTypeOK
<1>2. CASE OnlyWakes({})
  BY <1>2 DEF OnlyWakes, Asleep, Blocked, SameDelayers
<1>3. CASE sem_q[s] # <<>> /\ OnlyWakes({Head(sem_q[s])})
  <2> DEFINE q == sem_q[s]
  <2>1. Head(q) = q[1] /\ 1 \in 1 .. Len(q)
    <3> HIDE DEF q
    <3> QED BY <1>1, <1>3, HeadIsIn DEF q
  <2>2. Head(q) \in Waiting(s)
    BY <2>1 DEF Waiting
  <2>3. status[Head(q)] = "SEM_WAITING" /\ OnlyWakes({Head(q)})
    BY <1>3, <2>2 DEF SemaphoreInv, LineInv, WaitersSleep
  <2> HIDE DEF q
  <2> QED BY <2>3 DEF OnlyWakes, Asleep, Blocked, SameDelayers
<1> QED BY <1>2, <1>3, GaveEffect

(* The tick ends the delay of the task whose entry it unlinks.               *)
LEMMA DelayTickFits ==
    ASSUME DelayInv, NEW ticks, DelayTick(ticks)
    PROVE  ListFits' /\ UNCHANGED fault
<1> DEFINE list == CountDown(delays)
           pid == list[1].pid
           woken == [status EXCEPT ![pid] = AwakeStatus(pid)]
<1>1. /\ delays \in Seq(Entry) /\ status \in [Task -> Status]
      /\ PidsOnce(delays) /\ \A t \in Task : status[t] = "DELAY" <=> IsListed(delays, t)
  BY DEF DelayInv, SemaphoreInv, RoundRobinInv, TypeInv, TypeOK, SchedulerTypeOK,
     DelayTypeOK, ListFits
<1>2. list \in Seq(Entry) /\ (list # <<>> => pid \in Task \ HighTasks)
  BY <1>1, CountDownType, TickedIsBelowHigh DEF DelayInv, SemaphoreInv, RoundRobinInv
<1>3. PidsOnce(list) /\ \A t : IsListed(list, t) <=> IsListed(delays, t)
  <2>1. Len(list) = Len(delays) /\ \A i \in 1 .. Len(delays) : list[i].pid = delays[i].pid
    BY <1>1, CountDownPids
  <2> HIDE DEF list
  <2> QED BY <1>1, <2>1, SamePids
<1>4. CASE ~HeadElapsed(list)
  <2>1. delays' = list /\ UNCHANGED <<status, fault>>
    BY <1>4 DEF DelayTick, NoSwitch
  <2> HIDE DEF list
  <2> QED BY <1>1, <1>3, <2>1 DEF ListFits
<1>5. CASE HeadElapsed(list)
  <2>1. list # <<>> /\ delays' = Tail(list)
    BY <1>5 DEF DelayTick, HeadElapsed
  <2>2. /\ PidsOnce(Tail(list)) /\ IsListed(list, pid)
        /\ \A t : IsListed(Tail(list), t) <=> t # pid /\ IsListed(list, t)
    <3> HIDE DEF list
    <3> QED BY <1>2, <1>3, <2>1, UnlinkPid
  <2>3. pid \in Task \ HighTasks /\ status[pid] = "DELAY"
    BY <1>1, <1>2, <1>3, <2>1, <2>2
  <2>4. Ready(pid, woken, ticks) /\ UNCHANGED fault
    BY <1>5, <2>3 DEF DelayTick
  <2>5. status' = woken
    <3> HIDE DEF woken, pid
    <3> QED BY <2>3, <2>4, ReadyEffect
  <2>6. AwakeStatus(pid) # "DELAY"
    BY DEF AwakeStatus
  <2> HIDE DEF list, pid
  <2>7. \A t \in Task : status'[t] = "DELAY" <=> IsListed(Tail(list), t)
    BY <1>1, <1>3, <2>2, <2>3, <2>5, <2>6
  <2> QED BY <2>1, <2>2, <2>4, <2>7 DEF ListFits
<1> QED BY <1>4, <1>5

(* The calls keep the list, the ring and the kernel running.                 *)
LEMMA CallFits ==
    ASSUME SemaphoreClass, DelayInv, NEW t \in Task, Call(t)
    PROVE  ListFits' /\ UNCHANGED <<ring, fault>>
<1> USE DEF DelayInv
<1>0. /\ status \in [Task -> Status] /\ cte \in Task /\ delays \in Seq(Entry)
      /\ TypeInv /\ RoundRobinInv
  BY DEF SemaphoreInv, RoundRobinInv, TypeInv, TypeOK, SchedulerTypeOK, DelayTypeOK
<1>1. ASSUME At(t, "run") PROVE cte = t /\ status[cte] \notin Blocked
  BY <1>0, <1>1, Executing DEF RoundRobinInv, SwitchInv, BlockedInYield, InYield
<1>2. ASSUME NEW s \in Waits[t], SemWait(t, s, "run"), UNCHANGED <<delays, frame>>
      PROVE  ListFits' /\ UNCHANGED <<ring, fault>>
  <2>1. \/ GoOn(t, "run")
        \/ BeginYield(t) /\ status' = [status EXCEPT ![cte] = "SEM_WAITING"]
    BY <1>2 DEF SemWait
  <2>2. At(t, "run")
    BY <1>2 DEF SemWait
  <2>3. UNCHANGED <<ring, fault>>
    BY <2>1 DEF GoOn, BeginYield, schedVars
  <2>4. SameDelayers
    BY <1>0, <1>1, <2>1, <2>2 DEF GoOn, schedVars, SameDelayers, Blocked
  <2> QED BY <1>2, <2>3, <2>4, QuietListKeeps
<1>3. ASSUME NEW s \in Signals[t], SemSignal(t, s), UNCHANGED <<delays, frame>>
      PROVE  ListFits' /\ UNCHANGED <<ring, fault>>
  <2>1. s \in Sem
    BY ProgramAssumption
  <2>2. SameDelayers
    BY <1>0, <1>3, <2>1, SignalGives, GaveSparesDelays DEF SemSignal
  <2> QED BY <1>3, <2>2, QuietListKeeps DEF SemSignal
<1>4. ASSUME NEW time \in Sleeps[t], DelayMs(t, time), UNCHANGED <<semVars, frame>>
      PROVE  ListFits' /\ UNCHANGED <<ring, fault>>
  <2>1. /\ At(t, "run") /\ delays' = DelayAdd(delays, cte, time)
        /\ status' = [status EXCEPT ![cte] = "DELAY"] /\ UNCHANGED <<ring, fault>>
    BY <1>4 DEF DelayMs, BeginYield
  <2>2. time \in Nat
    BY ProgramAssumption, TimesAssumption
  <2>3. ~IsListed(delays, cte) /\ PidsOnce(delays)
    BY <1>0, <1>1, <2>1 DEF ListFits, Blocked
  <2>4. /\ PidsOnce(delays')
        /\ \A u : IsListed(delays', u) <=> u = cte \/ IsListed(delays, u)
    BY <1>0, <2>1, <2>2, <2>3, AddPid
  <2>5. \A u \in Task : status'[u] = "DELAY" <=> u = cte \/ status[u] = "DELAY"
    BY <1>0, <2>1
  <2> QED BY <2>1, <2>4, <2>5 DEF ListFits
<1> QED
  BY <1>2, <1>3, <1>4 DEF Call, SemaphoreClass, ProgramClass

(* Every step keeps the invariant.                                           *)
LEMMA DelayInvStep ==
    ASSUME SemaphoreClass
    PROVE  DelayInv /\ [Next]_vars => DelayInv'
<1> SUFFICES ASSUME DelayInv, [Next]_vars
             PROVE  ListFits' /\ UNCHANGED <<ring, fault>>
  BY SemaphoreInvStep DEF DelayInv
<1>0. TypeInv /\ ListFits /\ fault = "none" /\ SemaphoreInv /\ NoTimedWaits
  BY DEF DelayInv, SemaphoreInv, RoundRobinInv, LineInv
<1>1. ASSUME NEW t \in Task, Yielding(t) PROVE ListFits' /\ UNCHANGED <<ring, fault>>
  <2>1. UNCHANGED <<delays, ring>>
    BY <1>1 DEF Yielding, EnterSvc, SleepCpu, WakeCpu, ReturnFromYield, schedVars
  <2>2. UNCHANGED <<status, fault>> \/ Schedule(ring)
    BY <1>1 DEF Yielding, EnterSvc, SleepCpu, WakeCpu, ReturnFromYield, schedVars
  <2>3. SameDelayers /\ UNCHANGED fault
    BY <2>2, ScheduleFinds DEF SameDelayers
  <2> QED BY <1>0, <2>1, <2>3, QuietListKeeps
<1>2. ASSUME NEW t \in Task, Call(t) PROVE ListFits' /\ UNCHANGED <<ring, fault>>
  BY <1>2, CallFits
<1>3. CASE SysTick
  <2>1. UNCHANGED ring
    BY <1>3 DEF SysTick
  <2>2. CASE Schedule(ring) /\ UNCHANGED delays
    BY <1>0, <2>1, <2>2, ScheduleFinds, QuietListKeeps
  <2>3. CASE DelayTick((elapsed_ticks + 1) % 256)
    BY <1>0, <2>1, <2>3, DelayTickFits
  <2> QED BY <1>3, <2>2, <2>3 DEF SysTick
<1>4. CASE Isr
  <2>1. PICK s \in Sem : IsrSignal(s)
    BY <1>4, ProgramAssumption DEF Isr
  <2>2. SameDelayers
    BY <1>0, <2>1, SignalGives, GaveSparesDelays DEF IsrSignal
  <2>3. UNCHANGED <<delays, ring, fault>>
    BY <1>4, <2>1 DEF Isr, IsrSignal
  <2> QED BY <1>0, <2>2, <2>3, QuietListKeeps
<1>5. CASE SwitchContext
  <2>1. current_task = psp
    BY <1>5 DEF SwitchContext, PendSV, DelayInv, SemaphoreInv, RoundRobinInv,
       SwitchInv, GlobalsFit, SwitchFromRunning
  <2> QED BY <1>0, <1>5, <2>1, QuietListKeeps DEF SwitchContext, PendSV, SameDelayers
<1>6. CASE UNCHANGED vars
  BY <1>0, <1>6, QuietListKeeps DEF vars, schedVars, SameDelayers
<1>7. ASSUME Halted PROVE FALSE
  BY <1>0, <1>7 DEF Halted
<1>8. ASSUME NEW t \in Task, WaitUntilTail(t) PROVE FALSE
  BY <1>0, <1>8, NoTail
<1> QED BY <1>1, <1>2, <1>3, <1>4, <1>5, <1>6, <1>7, <1>8 DEF Next

(* The invariant holds in every behaviour.                                   *)
LEMMA DelayInvAlways ==
    ASSUME SemaphoreClass
    PROVE  Spec => []DelayInv
<1>1. Init => DelayInv
  <2> SUFFICES ASSUME Init PROVE DelayInv
    OBVIOUS
  <2>1. SemaphoreInv
    BY RoundRobinInvInit, LineInvInit DEF SemaphoreInv
  <2>2. /\ delays = <<>> /\ ring = Task /\ fault = "none"
        /\ status = [t \in Task |-> IF t = 1 THEN "ACTIVE" ELSE "IDLE"]
    BY DEF Init, DelayInit, SchedulerInit
  <2>3. ListFits
    BY <2>2 DEF ListFits, PidsOnce, IsListed
  <2> QED BY <2>1, <2>2, <2>3 DEF DelayInv
<1> QED BY <1>1, DelayInvStep, PTL DEF Spec

(* Every sleeper of pos_delay_ms has one entry, and every entry a sleeper:   *)
(* the tick that unlinks it wakes a task that sleeps.                        *)
THEOREM SleepersAreListed ==
    ASSUME SemaphoreClass
    PROVE  Spec => []DelayedIffListed
<1>1. DelayInv => DelayedIffListed
  <2> SUFFICES ASSUME DelayInv, NEW t \in Task
               PROVE  Cardinality(EntriesOf(delays, t)) =
                          IF status[t] \in {"DELAY", "SEM_WAITING_UNTIL"} THEN 1 ELSE 0
    BY DEF DelayedIffListed
  <2>1. /\ PidsOnce(delays) /\ status[t] = "DELAY" <=> IsListed(delays, t)
        /\ status[t] # "SEM_WAITING_UNTIL"
    BY DEF DelayInv, ListFits, SemaphoreInv, LineInv, WaitersSleep
  <2>2. CASE status[t] = "DELAY"
    <3>1. PICK i \in 1 .. Len(delays) : delays[i].pid = t
      BY <2>1, <2>2 DEF DelayInv, ListFits, IsListed
    <3>2. EntriesOf(delays, t) = {i}
      BY <2>1, <3>1 DEF EntriesOf, DelayInv, ListFits, PidsOnce
    <3> QED BY <2>2, <3>2, FS_Singleton
  <2>3. CASE status[t] # "DELAY"
    <3>1. EntriesOf(delays, t) = {}
      BY <2>3 DEF EntriesOf, IsListed, DelayInv, ListFits
    <3> QED BY <2>1, <2>3, <3>1, FS_EmptySet DEF DelayInv, SemaphoreInv, LineInv, WaitersSleep
  <2> QED BY <2>2, <2>3
<1> QED BY <1>1, DelayInvAlways, PTL

(* Such a program never meets pos_error in pos_delay_tick or                 *)
(* pos_delay_remove, never loses a context and never hangs in the ring.      *)
THEOREM NeverFaults ==
    ASSUME SemaphoreClass
    PROVE  Spec => [](fault = "none")
<1>1. DelayInv => fault = "none"
  BY DEF DelayInv
<1> QED BY <1>1, DelayInvAlways, PTL

-----------------------------------------------------------------------------
(* V. The waits with a timeout.  When a semaphore that somebody waits for    *)
(* with a timeout is signalled by no interrupt and waited for by nobody      *)
(* else, a wait that timed out leaves no trace: the tail of                  *)
(* pos_semaphore_wait_until, which ticks and interrupts enter everywhere, is *)
(* over before another task runs, and unlinks its own caller.  TimeoutRace   *)
(* shows what a signal out of an interrupt leaves behind.                    *)

TimedClass ==
    /\ ProgramClass
    /\ \A t \in Task : \A s \in TimedWaits[t] :
           /\ s \notin IsrSems
           /\ \A u \in Task \ {t} : s \notin Waits[u] \cup TimedWaits[u]

InTail(p) == p \in {"wu_check", "wu_remove", "wu_walk", "wu_unlink", "wu_load", "wu_store",
                    "wu_deq", "wu_free"}

(* Somebody has raised the count of s and not yet shortened its line.        *)
Returning(s) == \E t \in Task : pc[t] \in {"wu_deq", "wu_free"} /\ frame[t].sem = s

CountsFit ==
    \A s \in Sem : /\ EachOnce(sem_q[s])
                   /\ ~Returning(s) => Len(sem_q[s]) = LineLength(sem_cnt[s])

LinesOwn ==
    /\ \A s, r \in Sem : s # r => Waiting(s) \cap Waiting(r) = {}
    /\ \A s \in Sem : \A t \in Waiting(s) : s \in Waits[t] \cup TimedWaits[t]

(* Where the lists have a task without a timed wait, ...                     *)
Untimed(t) ==
    /\ status[t] \notin {"SEM_WAITING_UNTIL", "DELAY_TIMEOUT"}
    /\ status[t] = "DELAY" <=> IsListed(delays, t)
    /\ status[t] = "SEM_WAITING" <=> \E s \in Sem : t \in Waiting(s)

(* ... and where they have one with: both while it sleeps, the line alone    *)
(* once it has timed out, no line once it is signalled.                      *)
Timed(t) ==
    /\ status[t] \notin {"SEM_WAITING", "DELAY"}
    /\ \A s \in Sem :
          t \in Waiting(s) <=> /\ s = frame[t].sem
                               /\ status[t] \in {"SEM_WAITING_UNTIL", "DELAY_TIMEOUT"}
    /\ status[t] = "SEM_WAITING_UNTIL" => IsListed(delays, t)
    /\ status[t] = "DELAY_TIMEOUT" => ~IsListed(delays, t)

PlacesFit ==
    /\ PidsOnce(delays)
    /\ \A t \in Task : IF frame[t].sem = NoSem THEN Untimed(t) ELSE Timed(t)

(* Only the running task is in the tail, which is right about why the wait   *)
(* ended, and what it has read outside the critical sections is not stale.   *)
TailFits ==
    \A t \in Task :
        /\ frame[t].sem # NoSem => frame[t].sem \in TimedWaits[t] /\ pc[t] \notin {"run", "done"}
        /\ InTail(pc[t]) => t = psp /\ ~pendsv
        /\ pc[t] \in {"wu_remove", "wu_walk", "wu_unlink"} => status[t] # "DELAY_TIMEOUT"
        /\ pc[t] \in {"wu_load", "wu_store", "wu_deq", "wu_free"} => status[t] = "DELAY_TIMEOUT"
        /\ pc[t] = "wu_store" => frame[t].cnt = sem_cnt[frame[t].sem]
        /\ pc[t] \in {"wu_deq", "wu_free"} => sem_cnt[frame[t].sem] = 0
        /\ pc[t] = "wu_free" => frame[t].q = sem_q[frame[t].sem]

(* Why no slice ends in the tail: it starts with the count zero.             *)
TailSlice ==
    InTail(pc[psp]) \/ pc[psp] = "resumed" => elapsed_ticks <= (IF ktick THEN 1 ELSE 0)

(* Whoever follows place i of the delay list.                                *)
Follower(i) == IF i = Len(delays) THEN NoTask ELSE delays[i + 1].pid

(* The pointers of pos_delay_remove are neighbours, as far as the tick has   *)
(* left them in the list: it takes from the front, and nobody puts into it.  *)
WalkFits ==
    \A t \in Task : pc[t] \in {"wu_walk", "wu_unlink"} =>
        /\ frame[t].walk.prev = NoTask =>
               \A i \in 1 .. Len(delays) : delays[i].pid = frame[t].walk.curr => i = 1
        /\ \A i \in 1 .. Len(delays) :
               delays[i].pid = frame[t].walk.prev => frame[t].walk.curr = Follower(i)
        /\ pc[t] = "wu_unlink" =>
               /\ frame[t].walk.curr = t
               /\ \A i \in 1 .. Len(delays) :
                      delays[i].pid = t => frame[t].walk.next = Follower(i)

TimedFits == CountsFit /\ LinesOwn /\ PlacesFit /\ TailFits /\ WalkFits /\ TailSlice

(* A signal that comes before the timeout is seen, a tick after the signal,  *)
(* or one that frees an element under the walk, ends in an error: the lists  *)
(* are as they are then.                                                     *)
TimedInv == RoundRobinInv /\ (fault = "none" => TimedFits)

-----------------------------------------------------------------------------
(* What the parts of a step do to it.                                        *)

(* A list without one of its entries has the other PIDs.                     *)
LEMMA RemovePid ==
    ASSUME NEW list \in Seq(Entry), PidsOnce(list), NEW at \in 1 .. Len(list),
           NEW pid, list[at].pid = pid
    PROVE  /\ PidsOnce(RemovedAt(list, at))
           /\ \A t : IsListed(RemovedAt(list, at), t) <=> t # pid /\ IsListed(list, t)
<1> DEFINE r == RemovedAt(list, at)
<1>1. Len(list) \in Nat
  BY LenProperties
<1>4. /\ Len(r) = Len(list) - 1
      /\ \A k \in 1 .. Len(list) - 1 : r[k] = IF k < at THEN list[k] ELSE list[k + 1]
  BY UnlinkedPlaces
<1> HIDE DEF r
<1> DEFINE Old(k) == IF k < at THEN k ELSE k + 1
<1>5. \A k \in 1 .. Len(r) : /\ Old(k) \in 1 .. Len(list) /\ Old(k) # at
                             /\ r[k].pid = list[Old(k)].pid
  BY <1>1, <1>4
<1>6. PidsOnce(r)
  <2> SUFFICES ASSUME NEW i \in 1 .. Len(r), NEW j \in 1 .. Len(r), r[i].pid = r[j].pid
               PROVE  i = j
    BY DEF PidsOnce
  <2>1. Old(i) = Old(j)
    BY <1>5 DEF PidsOnce
  <2> QED BY <1>1, <1>4, <2>1
<1>7. ASSUME NEW k \in 1 .. Len(r)
      PROVE  r[k].pid # pid /\ IsListed(list, r[k].pid)
  <2> HIDE DEF Old
  <2> QED BY <1>5 DEF PidsOnce, IsListed
<1>8. ASSUME NEW t, t # pid, NEW i \in 1 .. Len(list), list[i].pid = t
      PROVE  IsListed(r, t)
  <2> DEFINE k == IF i < at THEN i ELSE i - 1
  <2>1. i # at
    BY <1>8
  <2>2. k \in 1 .. Len(r) /\ Old(k) = i
    BY <1>1, <1>4, <2>1
  <2>3. r[k].pid = t
    BY <1>5, <1>8, <2>2
  <2> QED BY <2>2, <2>3 DEF IsListed
<1>9. \A t : IsListed(r, t) <=> t # pid /\ IsListed(list, t)
  BY <1>7, <1>8 DEF IsListed
<1> QED BY <1>6, <1>9 DEF r

(* The tick takes at most the head out of the list, so that the pointers of a *)
(* walk still fit what they point at.                                        *)
LEMMA WalkKept ==
    ASSUME WalkFits, NEW k \in {0, 1}, Len(delays) \in Nat, Len(delays') = Len(delays) - k,
           \A i \in 1 .. Len(delays') : delays'[i].pid = delays[i + k].pid,
           UNCHANGED <<pc, frame>>
    PROVE  WalkFits'
<1>1. \A i \in 1 .. Len(delays') : i + k \in 1 .. Len(delays) /\ Follower(i)' = Follower(i + k)
  <2> SUFFICES ASSUME NEW i \in 1 .. Len(delays')
               PROVE  i + k \in 1 .. Len(delays) /\ Follower(i)' = Follower(i + k)
    OBVIOUS
  <2>1. i + k \in 1 .. Len(delays) /\ (i = Len(delays') <=> i + k = Len(delays))
    OBVIOUS
  <2>2. CASE i = Len(delays')
    BY <2>1, <2>2 DEF Follower
  <2>3. CASE i # Len(delays')
    <3>1. i + 1 \in 1 .. Len(delays') /\ (i + 1) + k = (i + k) + 1
      BY <2>3
    <3>2. delays'[i + 1].pid = delays[(i + k) + 1].pid
      <4>1. delays'[i + 1].pid = delays[(i + 1) + k].pid
        BY <3>1
      <4> QED BY <3>1, <4>1
    <3> QED BY <2>1, <2>3, <3>2 DEF Follower
  <2> QED BY <2>1, <2>2, <2>3
<1>2. ASSUME NEW t \in Task, pc[t] \in {"wu_walk", "wu_unlink"}
      PROVE  /\ frame[t].walk.prev = NoTask =>
                    \A i \in 1 .. Len(delays') : delays'[i].pid = frame[t].walk.curr => i = 1
             /\ \A i \in 1 .. Len(delays') :
                    delays'[i].pid = frame[t].walk.prev => frame[t].walk.curr = Follower(i)'
             /\ pc[t] = "wu_unlink" =>
                    /\ frame[t].walk.curr = t
                    /\ \A i \in 1 .. Len(delays') :
                           delays'[i].pid = t => frame[t].walk.next = Follower(i)'
  <2>1. /\ frame[t].walk.prev = NoTask =>
               \A i \in 1 .. Len(delays) : delays[i].pid = frame[t].walk.curr => i = 1
        /\ \A i \in 1 .. Len(delays) :
               delays[i].pid = frame[t].walk.prev => frame[t].walk.curr = Follower(i)
        /\ pc[t] = "wu_unlink" =>
               /\ frame[t].walk.curr = t
               /\ \A i \in 1 .. Len(delays) :
                      delays[i].pid = t => frame[t].walk.next = Follower(i)
    BY <1>2 DEF WalkFits
  <2> DEFINE w == frame[t].walk
  <2> HIDE DEF w
  <2>2. ASSUME w.prev = NoTask, NEW i \in 1 .. Len(delays'), delays'[i].pid = w.curr
        PROVE  i = 1
    <3>1. i + k = 1
      BY <1>1, <2>1, <2>2 DEF w
    <3> QED BY <3>1
  <2> QED BY <1>1, <2>1, <2>2 DEF w
<1> QED BY <1>2 DEF WalkFits

(* The pointers of a walk that has found its task, all still in the list,    *)
(* enclose its entry.                                                        *)
LEMMA UnlinkedIsOne ==
    ASSUME NEW list \in Seq(Entry), PidsOnce(list), NEW t \in Task, NEW prev, NEW next,
           prev # NoTask => Listed(list, prev), Listed(list, t),
           prev = NoTask => list[1].pid = t,
           \A i \in 1 .. Len(list) :
               list[i].pid = prev => t = (IF i = Len(list) THEN NoTask ELSE list[i + 1].pid),
           \A i \in 1 .. Len(list) :
               list[i].pid = t => next = (IF i = Len(list) THEN NoTask ELSE list[i + 1].pid)
    PROVE  /\ PlaceOf(list, t) \in 1 .. Len(list) /\ list[PlaceOf(list, t)].pid = t
           /\ Unlinked(list, prev, next) = RemovedAt(list, PlaceOf(list, t))
<1> DEFINE at == PlaceOf(list, t)
<1>1. Len(list) \in Nat /\ \A i \in 1 .. Len(list) : list[i].pid \in Task
  <2>1. Len(list) \in Nat /\ \A i \in 1 .. Len(list) : list[i] \in Entry
    BY LenProperties
  <2> QED BY <2>1 DEF Entry
<1>2. at \in 1 .. Len(list) /\ list[at].pid = t
  BY PointersPoint
<1> HIDE DEF at
<1>3. t # NoTask /\ \A i \in 1 .. Len(list) : list[i].pid # NoTask
  BY <1>1, TasksAssumption DEF Task, NoTask
<1>4. (IF prev = NoTask THEN <<>> ELSE SubSeq(list, 1, PlaceOf(list, prev)))
          = SubSeq(list, 1, at - 1)
  <2>1. CASE prev = NoTask
    <3>1. at = 1
      BY <1>1, <1>2, <2>1 DEF PidsOnce
    <3> QED BY <2>1, <3>1, SubSeqEmpty
  <2>2. CASE prev # NoTask
    <3>1. PlaceOf(list, prev) \in 1 .. Len(list) /\ list[PlaceOf(list, prev)].pid = prev
      BY <2>2, PointersPoint
    <3>2. PlaceOf(list, prev) # Len(list) /\ list[PlaceOf(list, prev) + 1].pid = t
      BY <1>3, <3>1
    <3>3. PlaceOf(list, prev) + 1 = at
      BY <1>1, <1>2, <3>1, <3>2 DEF PidsOnce
    <3> QED BY <2>2, <3>1, <3>3
  <2> QED BY <2>1, <2>2
<1>5. (IF next = NoTask THEN <<>> ELSE SubSeq(list, PlaceOf(list, next), Len(list)))
          = SubSeq(list, at + 1, Len(list))
  <2>1. CASE at = Len(list)
    BY <1>1, <1>2, <2>1, SubSeqEmpty
  <2>2. CASE at # Len(list)
    <3>1. at + 1 \in 1 .. Len(list) /\ next = list[at + 1].pid /\ next # NoTask
      BY <1>1, <1>2, <1>3, <2>2
    <3>2. Listed(list, next)
      BY <3>1 DEF Listed, EntriesOf
    <3>3. PlaceOf(list, next) \in 1 .. Len(list) /\ list[PlaceOf(list, next)].pid = next
      BY <3>2, PointersPoint
    <3>4. PlaceOf(list, next) = at + 1
      BY <3>1, <3>3 DEF PidsOnce
    <3> QED BY <3>1, <3>4
  <2> QED BY <2>1, <2>2
<1> QED BY <1>2, <1>4, <1>5 DEF Unlinked, RemovedAt, at

(* pos_schedule_tasks wakes nobody.                                          *)
LEMMA ScheduleWakesNobody ==
    ASSUME TypeInv, NEW rg \in SUBSET Task, Schedule(rg)
    PROVE  OnlyWakes({})
<1>1. status \in [Task -> Status] /\ cte \in Task
  BY DEF TypeInv, TypeOK, SchedulerTypeOK
<1>2. CASE ReadyIn(rg) = {}
  BY <1>2 DEF Schedule, NoSwitch, OnlyWakes
<1>3. CASE ReadyIn(rg) # {}
  <2> DEFINE nxt == NextReady(cte, ReadyIn(rg))
  <2>1. nxt \in Task
    BY <1>1, <1>3, NextReadyIsReady DEF ReadyIn
  <2>2. status' = SwitchStatus(status, cte, nxt)
    BY <1>3 DEF Schedule, RequestSwitch
  <2> HIDE DEF nxt
  <2> QED BY <1>1, <2>1, <2>2 DEF SwitchStatus, OnlyWakes, Asleep, Blocked
<1> QED BY <1>2, <1>3

(* Nobody else is in the tail while a task executes.                         *)
LEMMA AloneInTail ==
    ASSUME RoundRobinInv, TailFits, NEW t \in Task, NEW p, At(t, p)
    PROVE  /\ ~pendsv /\ cte = t /\ psp = t /\ pc[t] = p /\ fault = "none"
           /\ ~InYield(p) => status[t] \notin Blocked
           /\ \A u \in Task \ {t} : ~InTail(pc[u])
<1>1. ~pendsv /\ cte = t /\ psp = t /\ pc[t] = p
  BY Executing
<1> QED BY <1>1 DEF TailFits, At, RoundRobinInv, SwitchInv, BlockedInYield

(* Who has a frame of pos_semaphore_wait_until has it of a semaphore.        *)
LEMMA TailHasFrame ==
    ASSUME TypeInv, TailFits, NEW t \in Task, InTail(pc[t])
    PROVE  frame[t].sem \in Sem /\ frame[t].sem # NoSem /\ frame[t].sem \in TimedWaits[t]
<1>1. frame[t].sem \in Sem /\ frame[t].sem # NoSem
  BY ProgramAssumption DEF TypeInv, FramesOK, InTail
<1> QED BY <1>1 DEF TailFits

(* A step behind which nobody is in the tail has nothing of it to keep.      *)
LEMMA OutOfTail ==
    ASSUME \A t \in Task : ~InTail(pc'[t]),
           \A t \in Task : frame'[t].sem # NoSem =>
               frame'[t].sem \in TimedWaits[t] /\ pc'[t] \notin {"run", "done"}
    PROVE  TailFits' /\ WalkFits' /\ \A s \in Sem : ~Returning(s)'
  BY DEF TailFits, WalkFits, Returning, InTail

(* A step that wakes nobody and leaves the lists alone.                      *)
LEMMA PlacesKept ==
    ASSUME LinesOwn, PlacesFit, UNCHANGED <<sem_q, frame>>, OnlyWakes({}), PidsOnce(delays'),
           \A t \in Task : IsListed(delays', t) <=> IsListed(delays, t)
    PROVE  LinesOwn' /\ PlacesFit'
<1>1. \A s \in Sem : Waiting(s)' = Waiting(s)
  BY DEF Waiting
<1>2. LinesOwn'
  BY <1>1 DEF LinesOwn
<1>3. \A t \in Task :
          /\ status'[t] = "SEM_WAITING" <=> status[t] = "SEM_WAITING"
          /\ status'[t] = "SEM_WAITING_UNTIL" <=> status[t] = "SEM_WAITING_UNTIL"
          /\ status'[t] = "DELAY" <=> status[t] = "DELAY"
          /\ status'[t] = "DELAY_TIMEOUT" <=> status[t] = "DELAY_TIMEOUT"
  BY DEF OnlyWakes, Asleep, Blocked
<1>4. ASSUME NEW t \in Task PROVE IF frame'[t].sem = NoSem THEN Untimed(t)' ELSE Timed(t)'
  <2>1. CASE frame[t].sem = NoSem
    <3>1. Untimed(t)
      BY <2>1 DEF PlacesFit
    <3>2. Untimed(t)'
      BY <1>1, <1>3, <3>1 DEF Untimed
    <3> QED BY <2>1, <3>2
  <2>2. CASE frame[t].sem # NoSem
    <3>1. Timed(t)
      BY <2>2 DEF PlacesFit
    <3>2. Timed(t)'
      BY <1>1, <1>3, <3>1 DEF Timed
    <3> QED BY <2>2, <3>2
  <2> QED BY <2>1, <2>2
<1> QED BY <1>2, <1>4 DEF PlacesFit

(* A signal of a semaphore to whose count no unit is being returned takes    *)
(* the head out of its line, with what that was asleep as.                   *)
LEMMA GaveFits ==
    ASSUME TypeInv, CountsFit, LinesOwn, PlacesFit, NEW s \in Sem, Gave(s), ~Returning(s),
           UNCHANGED <<pc, delays, frame>>
    PROVE  /\ CountsFit' /\ LinesOwn' /\ PlacesFit'
           /\ HeadOf(sem_q[s]) \subseteq Waiting(s)
           /\ \A r \in Sem \ {s} : sem_q'[r] = sem_q[r] /\ sem_cnt'[r] = sem_cnt[r]
<1>0. /\ sem_cnt \in [Sem -> Int] /\ sem_q \in [Sem -> Seq(Task)]
      /\ sem_cnt' = [sem_cnt EXCEPT ![s] = @ + 1]
      /\ sem_q' = [sem_q EXCEPT ![s] = DeqQueue(@, sem_cnt[s] + 1)]
      /\ OnlyWakes(HeadOf(sem_q[s]))
  BY DEF TypeInv, TypeOK, SemaphoreTypeOK, Gave
<1>1. Len(sem_q[s]) = LineLength(sem_cnt[s]) /\ EachOnce(sem_q[s])
  BY DEF CountsFit
<1>2. \A r \in Sem : Returning(r)' <=> Returning(r)
  BY DEF Returning
<1>3. CASE sem_q[s] = <<>>
  <2>1. sem_q' = sem_q /\ HeadOf(sem_q[s]) = {}
    BY <1>0, <1>3 DEF DeqQueue, HeadOf
  <2>2. sem_cnt[s] >= 0
    BY <1>0, <1>1, <1>3, EmptySeq DEF LineLength
  <2>3. CountsFit'
    BY <1>0, <1>2, <2>1, <2>2 DEF CountsFit, LineLength
  <2>4. LinesOwn' /\ PlacesFit'
    BY <1>0, <2>1, PlacesKept DEF PlacesFit
  <2> QED BY <1>0, <2>1, <2>3, <2>4
<1>4. CASE sem_q[s] # <<>>
  <2> DEFINE h == Head(sem_q[s])
  <2>1. Len(sem_q[s]) \in Nat \ {0}
    BY <1>0, <1>4, EmptySeq, LenProperties
  <2>2. sem_cnt[s] < 0 /\ sem_q' = [sem_q EXCEPT ![s] = Tail(@)]
    <3>1. sem_cnt[s] < 0 /\ sem_cnt[s] + 1 <= 0
      BY <1>0, <1>1, <2>1 DEF LineLength
    <3> QED BY <1>0, <1>4, <3>1 DEF DeqQueue
  <2>3. /\ h \in Waiting(s) /\ h \in Task
        /\ EachOnce(sem_q'[s]) /\ Len(sem_q'[s]) = Len(sem_q[s]) - 1
        /\ \A r \in Sem \ {s} : sem_q'[r] = sem_q[r]
        /\ \A r \in Sem : Waiting(r)' = IF r = s THEN Waiting(s) \ {h} ELSE Waiting(r)
    BY <1>1, <1>4, <2>2, LeaveLine
  <2>4. OnlyWakes({h}) /\ HeadOf(sem_q[s]) = {h}
    BY <1>0, <1>4 DEF HeadOf
  <2> HIDE DEF h
  <2>5. CountsFit'
    <3>1. Len(sem_q'[s]) = LineLength(sem_cnt'[s])
      BY <1>0, <1>1, <2>2, <2>3 DEF LineLength
    <3>2. \A r \in Sem \ {s} : sem_cnt'[r] = sem_cnt[r]
      BY <1>0
    <3> QED BY <1>2, <2>3, <3>1, <3>2 DEF CountsFit
  <2>6. LinesOwn'
    BY <2>3 DEF LinesOwn
  <2>7. \A t \in Task :
            /\ status'[t] = "SEM_WAITING" <=> status[t] = "SEM_WAITING" /\ t # h
            /\ status'[t] = "SEM_WAITING_UNTIL" <=> status[t] = "SEM_WAITING_UNTIL" /\ t # h
            /\ status'[t] = "DELAY" <=> status[t] = "DELAY" /\ t # h
            /\ status'[t] = "DELAY_TIMEOUT" <=> status[t] = "DELAY_TIMEOUT" /\ t # h
    BY <2>4 DEF OnlyWakes, Asleep, Blocked
  <2>8. \A r \in Sem, t \in Task : t \in Waiting(r)' <=> t # h /\ t \in Waiting(r)
    BY <2>3 DEF LinesOwn
  <2>9. ASSUME NEW t \in Task PROVE IF frame'[t].sem = NoSem THEN Untimed(t)' ELSE Timed(t)'
    <3>1. CASE frame[t].sem = NoSem
      <4>1. Untimed(t)
        BY <3>1 DEF PlacesFit
      <4>2. Untimed(t)'
        BY <2>3, <2>7, <2>8, <4>1 DEF Untimed
      <4> QED BY <3>1, <4>2
    <3>2. CASE frame[t].sem # NoSem
      <4>1. Timed(t)
        BY <3>2 DEF PlacesFit
      <4>2. Timed(t)'
        BY <2>7, <2>8, <4>1 DEF Timed
      <4> QED BY <3>2, <4>2
    <3> QED BY <3>1, <3>2
  <2>10. PlacesFit'
    BY <2>9 DEF PlacesFit
  <2> QED BY <1>0, <2>3, <2>4, <2>5, <2>6, <2>10
<1> QED BY <1>3, <1>4

(* A wait that finds no unit puts the caller in the line, once.              *)
LEMMA JoinFits ==
    ASSUME TypeInv, CountsFit, LinesOwn, NEW t \in Task, NEW s \in Sem,
           s \in Waits[t] \cup TimedWaits[t], \A r \in Sem : t \notin Waiting(r),
           ~Returning(s), ~(sem_cnt[s] - 1 >= 0),
           \A r \in Sem : Returning(r)' <=> Returning(r),
           sem_cnt' = [sem_cnt EXCEPT ![s] = @ - 1],
           sem_q' = [sem_q EXCEPT ![s] = Append(@, t)]
    PROVE  /\ CountsFit' /\ LinesOwn'
           /\ \A r \in Sem : Waiting(r)' = IF r = s THEN Waiting(s) \cup {t} ELSE Waiting(r)
<1>0. sem_cnt \in [Sem -> Int] /\ sem_q \in [Sem -> Seq(Task)]
  BY DEF TypeInv, TypeOK, SemaphoreTypeOK
<1>1. EachOnce(sem_q[s]) /\ Len(sem_q[s]) = LineLength(sem_cnt[s])
  BY DEF CountsFit
<1>2. /\ EachOnce(sem_q'[s]) /\ Len(sem_q'[s]) = Len(sem_q[s]) + 1
      /\ \A r \in Sem \ {s} : sem_q'[r] = sem_q[r]
  BY <1>1, JoinLine
<1>3. \A r \in Sem : Waiting(r)' = IF r = s THEN Waiting(s) \cup {t} ELSE Waiting(r)
  BY EnqLines
<1>4. CountsFit'
  <2>1. Len(sem_q'[s]) = LineLength(sem_cnt'[s])
    BY <1>0, <1>1, <1>2 DEF LineLength
  <2>2. \A r \in Sem \ {s} : sem_cnt'[r] = sem_cnt[r]
    BY <1>0
  <2> QED BY <1>2, <2>1, <2>2 DEF CountsFit
<1>5. LinesOwn'
  BY <1>3 DEF LinesOwn
<1> QED BY <1>3, <1>4, <1>5

(* Whoever waits with a timeout is alone in its line.                        *)
LEMMA OwnLine ==
    ASSUME TimedClass, TypeInv, CountsFit, LinesOwn, NEW t \in Task, NEW s \in Sem,
           s \in TimedWaits[t], t \in Waiting(s)
    PROVE  /\ sem_q[s] # <<>> /\ Len(sem_q[s]) = 1 /\ Head(sem_q[s]) = t
           /\ Waiting(s) = {t}
<1>1. sem_q[s] \in Seq(Task) /\ EachOnce(sem_q[s])
  BY DEF TypeInv, TypeOK, SemaphoreTypeOK, CountsFit
<1>2. \A u \in Task \ {t} : s \notin Waits[u] \cup TimedWaits[u]
  BY DEF TimedClass
<1>3. Waiting(s) \subseteq Task
  BY <1>1, ElementOfSeq DEF Waiting
<1>4. Waiting(s) = {t}
  BY <1>2, <1>3 DEF LinesOwn
<1>5. Len(sem_q[s]) = 1
  BY <1>1, <1>4, EachOnceCounts, FS_Singleton DEF Waiting
<1>6. sem_q[s] # <<>>
  BY <1>5, EmptySeq
<1>7. Head(sem_q[s]) \in Waiting(s)
  BY <1>1, <1>6, HeadIsIn DEF Waiting
<1> QED BY <1>4, <1>5, <1>6, <1>7

-----------------------------------------------------------------------------
(* The steps.                                                                *)

(* On its way through pos_yield a task keeps its places, and enters the tail *)
(* of its wait with the slice just begun.                                    *)
LEMMA YieldingKeepsTimed ==
    ASSUME RoundRobinInv, TimedFits, NEW t \in Task, Yielding(t)
    PROVE  TimedFits'
<1> USE DEF TimedFits
<1>0. /\ TypeInv /\ SwitchInv /\ pc \in [Task -> Pc] /\ ring \in SUBSET Task /\ ktick \in BOOLEAN
      /\ UNCHANGED <<sem_cnt, sem_q, delays, frame>>
  BY DEF RoundRobinInv, TypeInv, TypeOK, SchedulerTypeOK, Yielding, semVars
<1>1. OnlyWakes({})
  <2>1. UNCHANGED status \/ Schedule(ring)
    BY DEF Yielding, EnterSvc, SleepCpu, WakeCpu, ReturnFromYield, schedVars
  <2> QED BY <1>0, <2>1, ScheduleWakesNobody DEF OnlyWakes
<1>2. LinesOwn' /\ PlacesFit'
  BY <1>0, <1>1, PlacesKept DEF PlacesFit
<1>3. PICK p \in {"yield", "svc", "wfe", "resumed"}, q \in Pc :
          /\ At(t, p) /\ pc' = [pc EXCEPT ![t] = q] /\ psp' = psp
          /\ \/ q \in {"svc", "wfe"}
             \/ q = "resumed" /\ UNCHANGED <<elapsed_ticks, ktick>> /\ p = "svc"
             \/ q = "resumed" /\ elapsed_ticks' = 0 /\ ktick' = FALSE
             \/ /\ q = (IF frame[t].sem = NoSem THEN "run" ELSE "wu_check") /\ p = "resumed"
                /\ elapsed_ticks' = elapsed_ticks /\ pendsv' = pendsv
                /\ ktick' = (ktick /\ q # "run")
  <2>1. CASE EnterSvc(t)
    BY <2>1 DEF EnterSvc, Goto, cpuVars, Pc
  <2>2. CASE SleepCpu(t)
    BY <2>2 DEF SleepCpu, Goto, Pc
  <2>3. CASE WakeCpu(t)
    BY <2>3 DEF WakeCpu, AfterWake, Goto, pos_reset_task_timer, Pc
  <2>4. CASE ReturnFromYield(t, IF frame[t].sem = NoSem THEN "run" ELSE "wu_check")
    BY <2>4 DEF ReturnFromYield, Goto, Pc
  <2> QED BY <2>1, <2>2, <2>3, <2>4 DEF Yielding
<1>4. /\ ~pendsv /\ psp = t /\ pc[t] = p
      /\ \A u \in Task : ~InTail(pc[u])
      /\ \A u \in Task : pc'[u] = IF u = t THEN q ELSE pc[u]
  BY <1>0, <1>3, AloneInTail DEF InTail
<1>5. \A s \in Sem : ~Returning(s) /\ ~Returning(s)'
  BY <1>3, <1>4 DEF Returning, InTail
<1>6. CountsFit'
  BY <1>0, <1>5 DEF CountsFit
<1>7. TailFits' /\ WalkFits'
  <2>1. CASE q # "wu_check"
    <3>1. \A u \in Task : ~InTail(pc'[u])
      BY <1>3, <1>4, <2>1 DEF InTail
    <3>2. \A u \in Task : frame'[u].sem # NoSem =>
              frame'[u].sem \in TimedWaits[u] /\ pc'[u] \notin {"run", "done"}
      BY <1>0, <1>3, <1>4 DEF TailFits
    <3> QED BY <3>1, <3>2, OutOfTail
  <2>2. CASE q = "wu_check"
    <3>1. TailFits'
      BY <1>0, <1>3, <1>4, <2>2 DEF TailFits, InTail
    <3>2. \A u \in Task : pc'[u] \notin {"wu_walk", "wu_unlink"}
      BY <1>4, <2>2 DEF InTail
    <3> QED BY <3>1, <3>2 DEF WalkFits
  <2> QED BY <2>1, <2>2
<1>8. TailSlice'
  <2>1. psp' = t /\ pc'[psp'] = q
    BY <1>3, <1>4
  <2>2. CASE q \in {"svc", "wfe", "run"}
    BY <2>1, <2>2 DEF TailSlice, InTail
  <2>3. CASE q = "resumed" /\ UNCHANGED <<elapsed_ticks, ktick>> /\ p = "svc"
    BY <1>0, <1>4, <2>1, <2>3 DEF TailSlice, SwitchInv, SliceFits, InYield
  <2>4. CASE q = "resumed" /\ elapsed_ticks' = 0 /\ ktick' = FALSE
    BY <2>1, <2>4 DEF TailSlice
  <2>5. CASE /\ q = "wu_check" /\ p = "resumed"
             /\ elapsed_ticks' = elapsed_ticks /\ ktick' = (ktick /\ q # "run")
    BY <1>0, <1>4, <2>1, <2>5 DEF TailSlice
  <2> QED BY <1>3, <2>2, <2>3, <2>4, <2>5
<1> QED BY <1>2, <1>6, <1>7, <1>8

(* A task that calls is in no list, and the calls put it in those of its     *)
(* new status.                                                               *)
LEMMA CallKeepsTimed ==
    ASSUME TimedClass, RoundRobinInv, TimedFits, NEW t \in Task, Call(t)
    PROVE  TimedFits'
<1> USE DEF TimedFits
<1>0. /\ TypeInv /\ pc \in [Task -> Pc] /\ status \in [Task -> Status] /\ delays \in Seq(Entry)
      /\ sem_cnt \in [Sem -> Int] /\ sem_q \in [Sem -> Seq(Task)]
      /\ frame \in [Task -> [sem : Sem \cup {NoSem}, cnt : Int, q : Seq(Task), walk : Walk]]
  BY DEF RoundRobinInv, TypeInv, TypeOK, SchedulerTypeOK, SemaphoreTypeOK, DelayTypeOK
<1>1. At(t, "run")
  BY DEF Call, SemWait, SemSignal, WaitUntil, DelayMs, TaskFinish
<1>2. /\ ~pendsv /\ cte = t /\ psp = t /\ pc[t] = "run" /\ status[t] \notin Blocked
      /\ \A u \in Task : ~InTail(pc[u])
  BY <1>1, AloneInTail DEF InTail, InYield
<1>3. frame[t].sem = NoSem /\ Untimed(t)
  BY <1>2 DEF TailFits, PlacesFit
<1>4. \A s \in Sem : ~Returning(s) /\ t \notin Waiting(s)
  BY <1>2, <1>3 DEF Returning, InTail, Untimed, Blocked
<1>5. ~IsListed(delays, t) /\ PidsOnce(delays)
  BY <1>2, <1>3 DEF Untimed, Blocked, PlacesFit
<1>6. ASSUME NEW q \in {"run", "yield"}, Goto(t, q), UNCHANGED psp,
             \A u \in Task \ {t} : frame'[u] = frame[u],
             \/ frame'[t] = frame[t]
             \/ frame'[t].sem \in TimedWaits[t] /\ q = "yield"
      PROVE  /\ TailFits' /\ WalkFits' /\ TailSlice'
             /\ \A s \in Sem : ~Returning(s)'
  <2>1. \A u \in Task : pc'[u] = IF u = t THEN q ELSE pc[u]
    BY <1>0, <1>6 DEF Goto
  <2>2. \A u \in Task : ~InTail(pc'[u])
    BY <1>2, <2>1 DEF InTail
  <2>3. \A u \in Task : frame'[u].sem # NoSem =>
            frame'[u].sem \in TimedWaits[u] /\ pc'[u] \notin {"run", "done"}
    BY <1>3, <1>6, <2>1 DEF TailFits
  <2>4. TailSlice'
    BY <1>2, <1>6, <2>1, <2>2 DEF TailSlice
  <2> QED BY <2>2, <2>3, <2>4, OutOfTail
<1>7. ASSUME NEW s \in Waits[t], SemWait(t, s, "run"), UNCHANGED <<delays, frame>>
      PROVE  TimedFits'
  <2>1. s \in Sem /\ sem_cnt' = [sem_cnt EXCEPT ![s] = @ - 1]
    BY <1>7, ProgramAssumption DEF SemWait
  <2>2. CASE sem_cnt[s] - 1 >= 0
    <3>1. Goto(t, "run") /\ UNCHANGED <<psp, status, sem_q>>
      BY <1>7, <2>2 DEF SemWait, GoOn, schedVars
    <3>2. TailFits' /\ WalkFits' /\ TailSlice' /\ \A r \in Sem : ~Returning(r)'
      BY <1>6, <1>7, <3>1
    <3>3. LinesOwn' /\ PlacesFit'
      <4>1. OnlyWakes({})
        BY <3>1 DEF OnlyWakes
      <4> QED BY <1>5, <1>7, <3>1, <4>1, PlacesKept
    <3>4. \A r \in Sem : LineLength(sem_cnt'[r]) = LineLength(sem_cnt[r])
      BY <1>0, <2>1, <2>2 DEF LineLength
    <3>5. CountsFit'
      BY <1>4, <3>1, <3>2, <3>4 DEF CountsFit
    <3> QED BY <3>2, <3>3, <3>5
  <2>3. CASE ~(sem_cnt[s] - 1 >= 0)
    <3>1. /\ sem_q' = [sem_q EXCEPT ![s] = Append(@, t)] /\ UNCHANGED psp
          /\ status' = [status EXCEPT ![t] = "SEM_WAITING"] /\ Goto(t, "yield")
      BY <1>2, <1>7, <2>3 DEF SemWait, Enq, BeginYield
    <3>2. TailFits' /\ WalkFits' /\ TailSlice' /\ \A r \in Sem : ~Returning(r)'
      BY <1>6, <1>7, <3>1
    <3>3. /\ CountsFit' /\ LinesOwn'
          /\ \A r \in Sem : Waiting(r)' = IF r = s THEN Waiting(s) \cup {t} ELSE Waiting(r)
      BY <1>0, <1>4, <2>1, <2>3, <3>1, <3>2, JoinFits
    <3>4. ASSUME NEW u \in Task PROVE IF frame'[u].sem = NoSem THEN Untimed(u)' ELSE Timed(u)'
      <4>1. CASE u = t
        BY <1>0, <1>3, <1>5, <1>7, <2>1, <3>1, <3>3, <4>1 DEF Untimed
      <4>2. CASE u # t
        <5>1. status'[u] = status[u] /\ \A r \in Sem : u \in Waiting(r)' <=> u \in Waiting(r)
          BY <1>0, <3>1, <3>3, <4>2
        <5> QED BY <1>7, <5>1 DEF PlacesFit, Untimed, Timed
      <4> QED BY <4>1, <4>2
    <3>5. PlacesFit'
      BY <1>5, <1>7, <3>4 DEF PlacesFit
    <3> QED BY <3>2, <3>3, <3>5
  <2> QED BY <2>2, <2>3
<1>8. ASSUME NEW s \in Signals[t], SemSignal(t, s), UNCHANGED <<delays, frame>>
      PROVE  TimedFits'
  <2>1. s \in Sem /\ UNCHANGED <<pc, psp>> /\ Gave(s)
    BY <1>0, <1>8, ProgramAssumption, SignalGives DEF SemSignal
  <2>2. CountsFit' /\ LinesOwn' /\ PlacesFit'
    BY <1>0, <1>4, <1>8, <2>1, GaveFits
  <2>3. Goto(t, "run")
    BY <1>0, <1>2, <2>1 DEF Goto
  <2>4. TailFits' /\ WalkFits' /\ TailSlice'
    BY <1>6, <1>8, <2>1, <2>3
  <2> QED BY <2>2, <2>4
<1>9. ASSUME NEW s \in TimedWaits[t], NEW time \in Times, WaitUntil(t, s, time)
      PROVE  TimedFits'
  <2>1. /\ s \in Sem /\ s # NoSem /\ time \in Nat
        /\ sem_cnt' = [sem_cnt EXCEPT ![s] = @ - 1]
    BY <1>9, ProgramAssumption, TimesAssumption DEF WaitUntil
  <2>2. CASE sem_cnt[s] - 1 >= 0
    <3>1. Goto(t, "run") /\ UNCHANGED <<psp, status, sem_q, delays, frame>>
      BY <1>9, <2>2 DEF WaitUntil, GoOn, schedVars
    <3>2. TailFits' /\ WalkFits' /\ TailSlice' /\ \A r \in Sem : ~Returning(r)'
      BY <1>6, <3>1
    <3>3. LinesOwn' /\ PlacesFit'
      <4>1. OnlyWakes({})
        BY <3>1 DEF OnlyWakes
      <4> QED BY <1>5, <3>1, <4>1, PlacesKept
    <3>4. \A r \in Sem : LineLength(sem_cnt'[r]) = LineLength(sem_cnt[r])
      BY <1>0, <2>1, <2>2 DEF LineLength
    <3>5. CountsFit'
      BY <1>4, <3>1, <3>2, <3>4 DEF CountsFit
    <3> QED BY <3>2, <3>3, <3>5
  <2>3. CASE ~(sem_cnt[s] - 1 >= 0)
    <3>1. /\ sem_q' = [sem_q EXCEPT ![s] = Append(@, t)] /\ UNCHANGED psp
          /\ delays' = DelayAdd(delays, t, time)
          /\ status' = [status EXCEPT ![t] = "SEM_WAITING_UNTIL"] /\ Goto(t, "yield")
          /\ frame' = [frame EXCEPT ![t].sem = s]
      BY <1>2, <1>9, <2>3 DEF WaitUntil, Enq, BeginYield
    <3>2. frame'[t].sem = s /\ \A u \in Task \ {t} : frame'[u] = frame[u]
      BY <1>0, <3>1
    <3>3. TailFits' /\ WalkFits' /\ TailSlice' /\ \A r \in Sem : ~Returning(r)'
      BY <1>6, <3>1, <3>2
    <3>4. /\ CountsFit' /\ LinesOwn'
          /\ \A r \in Sem : Waiting(r)' = IF r = s THEN Waiting(s) \cup {t} ELSE Waiting(r)
      BY <1>0, <1>4, <2>1, <2>3, <3>1, <3>3, JoinFits
    <3>5. /\ PidsOnce(delays')
          /\ \A u : IsListed(delays', u) <=> u = t \/ IsListed(delays, u)
      BY <1>0, <1>5, <2>1, <3>1, AddPid
    <3>6. ASSUME NEW u \in Task PROVE IF frame'[u].sem = NoSem THEN Untimed(u)' ELSE Timed(u)'
      <4>1. CASE u = t
        <5>1. status'[t] = "SEM_WAITING_UNTIL"
          BY <1>0, <3>1
        <5> QED BY <1>4, <2>1, <3>2, <3>4, <3>5, <4>1, <5>1 DEF Timed
      <4>2. CASE u # t
        <5>1. status'[u] = status[u] /\ frame'[u] = frame[u]
          BY <1>0, <3>1, <3>2, <4>2
        <5>2. \A r \in Sem : u \in Waiting(r)' <=> u \in Waiting(r)
          BY <3>4, <4>2
        <5> QED BY <3>5, <4>2, <5>1, <5>2 DEF PlacesFit, Untimed, Timed
      <4> QED BY <4>1, <4>2
    <3>7. PlacesFit'
      BY <3>5, <3>6 DEF PlacesFit
    <3> QED BY <3>3, <3>4, <3>7
  <2> QED BY <2>2, <2>3
<1>10. ASSUME NEW time \in Sleeps[t], DelayMs(t, time), UNCHANGED <<semVars, frame>>
       PROVE  TimedFits'
  <2>1. /\ time \in Nat /\ delays' = DelayAdd(delays, t, time) /\ UNCHANGED psp
        /\ status' = [status EXCEPT ![t] = "DELAY"] /\ Goto(t, "yield")
        /\ UNCHANGED <<sem_cnt, sem_q>>
    BY <1>2, <1>10, ProgramAssumption, TimesAssumption DEF DelayMs, BeginYield, semVars
  <2>2. TailFits' /\ WalkFits' /\ TailSlice' /\ \A r \in Sem : ~Returning(r)'
    BY <1>6, <1>10, <2>1
  <2>3. \A r \in Sem : Waiting(r)' = Waiting(r)
    BY <2>1 DEF Waiting
  <2>4. CountsFit' /\ LinesOwn'
    BY <1>4, <2>1, <2>2, <2>3 DEF CountsFit, LinesOwn
  <2>5. /\ PidsOnce(delays')
        /\ \A u : IsListed(delays', u) <=> u = t \/ IsListed(delays, u)
    BY <1>0, <1>5, <2>1, AddPid
  <2>6. ASSUME NEW u \in Task PROVE IF frame'[u].sem = NoSem THEN Untimed(u)' ELSE Timed(u)'
    <3>1. CASE u = t
      <4>1. status'[t] = "DELAY"
        BY <1>0, <2>1
      <4> QED BY <1>3, <1>4, <1>10, <2>3, <2>5, <3>1, <4>1 DEF Untimed
    <3>2. CASE u # t
      <4>1. status'[u] = status[u]
        BY <1>0, <2>1, <3>2
      <4> QED BY <1>10, <2>3, <2>5, <3>2, <4>1 DEF PlacesFit, Untimed, Timed
    <3> QED BY <3>1, <3>2
  <2>7. PlacesFit'
    BY <2>5, <2>6 DEF PlacesFit
  <2> QED BY <2>2, <2>4, <2>7
<1> QED
  BY <1>7, <1>8, <1>9, <1>10 DEF Call, TimedClass, ProgramClass

(* The tail of pos_semaphore_wait_until finds what it left: the entry of a   *)
(* wait that was signalled, and of one that timed out the caller at the head *)
(* of its line.                                                              *)
LEMMA TailKeepsTimed ==
    ASSUME TimedClass, RoundRobinInv, TimedFits, NEW t \in Task, WaitUntilTail(t), fault' = "none"
    PROVE  TimedFits'
<1> USE DEF TimedFits
<1>0. /\ TypeInv /\ pc \in [Task -> Pc] /\ status \in [Task -> Status] /\ delays \in Seq(Entry)
      /\ sem_cnt \in [Sem -> Int] /\ sem_q \in [Sem -> Seq(Task)]
      /\ frame \in [Task -> [sem : Sem \cup {NoSem}, cnt : Int, q : Seq(Task), walk : Walk]]
  BY DEF RoundRobinInv, TypeInv, TypeOK, SchedulerTypeOK, SemaphoreTypeOK, DelayTypeOK
<1>1. PICK p : At(t, p) /\ InTail(p) /\ psp' = psp /\ pendsv' = pendsv
  BY DEF WaitUntilTail, CheckTimeout, BeginWalk, VisitEntry, UnlinkEntry, LoadCnt, StoreCnt,
     ReadQueue, UnlinkHead, GoOn, InTail
<1>2. /\ ~pendsv /\ cte = t /\ psp = t /\ pc[t] = p /\ status[t] \notin Blocked
      /\ \A u \in Task \ {t} : ~InTail(pc[u])
  BY <1>1, AloneInTail DEF InTail, InYield
<1>3. PICK s \in Sem : s = frame[t].sem /\ s # NoSem /\ s \in TimedWaits[t]
  BY <1>0, <1>1, <1>2, TailHasFrame
<1>4. Timed(t)
  BY <1>3 DEF PlacesFit
<1>5. \A r \in Sem : Returning(r) <=> r = s /\ p \in {"wu_deq", "wu_free"}
  BY <1>2, <1>3 DEF Returning, InTail
<1>6. CASE CheckTimeout(t)
  <2>1. PICK q \in {"wu_load", "wu_remove"} :
            /\ q = (IF status[t] = "DELAY_TIMEOUT" THEN "wu_load" ELSE "wu_remove")
            /\ p = "wu_check" /\ pc' = [pc EXCEPT ![t] = q]
            /\ UNCHANGED <<status, sem_cnt, sem_q, delays, frame, elapsed_ticks, ktick>>
    BY <1>2, <1>6 DEF CheckTimeout, GoOn, Goto, At, schedVars, semVars
  <2>2. \A u \in Task : pc'[u] = IF u = t THEN q ELSE pc[u]
    BY <1>0, <2>1
  <2>3. \A r \in Sem : ~Returning(r)'
    BY <1>2, <2>1, <2>2 DEF Returning, InTail
  <2>4. CountsFit'
    BY <1>5, <2>1, <2>3 DEF CountsFit
  <2>5. LinesOwn' /\ PlacesFit'
    <3>1. OnlyWakes({})
      BY <2>1 DEF OnlyWakes
    <3> QED BY <2>1, <3>1, PlacesKept DEF PlacesFit
  <2>6. TailFits'
    BY <1>1, <1>2, <2>1, <2>2 DEF TailFits, InTail
  <2>7. TailSlice'
    BY <1>1, <1>2, <2>1 DEF TailSlice
  <2>8. WalkFits'
    BY <1>2, <2>2 DEF WalkFits, InTail
  <2> QED BY <2>4, <2>5, <2>6, <2>7, <2>8
<1>14. ASSUME NEW q \in {"wu_walk", "wu_unlink"}, pc' = [pc EXCEPT ![t] = q],
              p \in {"wu_remove", "wu_walk"},
              UNCHANGED <<status, sem_cnt, sem_q, delays, elapsed_ticks, ktick>>,
              frame'[t].sem = s, \A u \in Task \ {t} : frame'[u] = frame[u]
       PROVE  CountsFit' /\ LinesOwn' /\ PlacesFit' /\ TailFits' /\ TailSlice'
  <2>1. \A u \in Task : pc'[u] = IF u = t THEN q ELSE pc[u]
    BY <1>0, <1>14
  <2>2. \A r \in Sem : ~Returning(r)'
    BY <1>2, <1>14, <2>1 DEF Returning, InTail
  <2>3. CountsFit'
    BY <1>5, <1>14, <2>2 DEF CountsFit
  <2>4. \A r \in Sem : Waiting(r)' = Waiting(r)
    BY <1>14 DEF Waiting
  <2>5. LinesOwn'
    BY <2>4 DEF LinesOwn
  <2>6. ASSUME NEW u \in Task PROVE IF frame'[u].sem = NoSem THEN Untimed(u)' ELSE Timed(u)'
    <3>1. frame'[u].sem = frame[u].sem
      BY <1>3, <1>14
    <3> QED BY <1>14, <2>4, <3>1 DEF PlacesFit, Untimed, Timed
  <2>7. PlacesFit'
    BY <1>14, <2>6 DEF PlacesFit
  <2>8. TailFits'
    <3>1. ASSUME NEW u \in Task \ {t}
          PROVE  /\ frame'[u].sem # NoSem =>
                        frame'[u].sem \in TimedWaits[u] /\ pc'[u] \notin {"run", "done"}
                 /\ ~InTail(pc'[u])
      BY <1>2, <1>14, <2>1 DEF TailFits
    <3>2. /\ frame'[t].sem = s /\ s \in TimedWaits[t] /\ pc'[t] = q
          /\ t = psp' /\ ~pendsv' /\ status'[t] # "DELAY_TIMEOUT"
      BY <1>1, <1>2, <1>3, <1>14, <2>1 DEF TailFits
    <3> QED BY <1>14, <3>1, <3>2 DEF TailFits, InTail
  <2>9. TailSlice'
    <3>1. InTail(pc[psp]) /\ UNCHANGED <<elapsed_ticks, ktick>>
      BY <1>1, <1>2, <1>14
    <3> QED BY <3>1 DEF TailSlice
  <2> QED BY <2>3, <2>5, <2>7, <2>8, <2>9
<1>15. /\ Len(delays) \in Nat /\ \A i \in 1 .. Len(delays) : delays[i].pid \in Task
       /\ t # NoTask
  <2>1. Len(delays) \in Nat /\ \A i \in 1 .. Len(delays) : delays[i] \in Entry
    BY <1>0, LenProperties
  <2>2. t # NoTask
    BY TasksAssumption DEF Task, NoTask
  <2> QED BY <2>1, <2>2 DEF Entry
<1>16. CASE BeginWalk(t)
  <2>1. /\ p = "wu_remove" /\ pc' = [pc EXCEPT ![t] = "wu_walk"]
        /\ UNCHANGED <<status, sem_cnt, sem_q, delays, elapsed_ticks, ktick>>
        /\ frame' = [frame EXCEPT ![t].walk = [NoWalk EXCEPT !.curr = HeadPtr(delays)]]
    BY <1>2, <1>16 DEF BeginWalk, GoOn, Goto, At, schedVars, semVars
  <2>2. /\ frame'[t].sem = s /\ \A u \in Task \ {t} : frame'[u] = frame[u]
        /\ frame'[t].walk.prev = NoTask /\ frame'[t].walk.curr = HeadPtr(delays)
        /\ \A u \in Task : pc'[u] = IF u = t THEN "wu_walk" ELSE pc[u]
    BY <1>0, <1>3, <2>1 DEF NoWalk
  <2>3. WalkFits'
    <3>1. \A i \in 1 .. Len(delays) : delays[i].pid = HeadPtr(delays) => i = 1
      <4> SUFFICES ASSUME NEW i \in 1 .. Len(delays), delays[i].pid = HeadPtr(delays)
                   PROVE  i = 1
        OBVIOUS
      <4>1. delays # <<>> /\ 1 \in 1 .. Len(delays)
        BY <1>15, EmptySeq
      <4> QED BY <4>1 DEF HeadPtr, PlacesFit, PidsOnce
    <3>2. \A i \in 1 .. Len(delays) : delays[i].pid # NoTask
      BY <1>15, TasksAssumption DEF Task, NoTask
    <3>3. \A u \in Task \ {t} : pc'[u] \notin {"wu_walk", "wu_unlink"}
      BY <1>2, <2>2 DEF InTail
    <3> QED BY <2>1, <2>2, <3>1, <3>2, <3>3 DEF WalkFits
  <2> QED BY <1>14, <2>1, <2>2, <2>3
<1>17. CASE VisitEntry(t)
  <2> DEFINE w == frame[t].walk
  <2>1. /\ p = "wu_walk" /\ Listed(delays, w.curr) /\ w.curr # NoTask
        /\ UNCHANGED <<status, sem_cnt, sem_q, delays, elapsed_ticks, ktick>>
        /\ \/ /\ w.curr = t /\ pc' = [pc EXCEPT ![t] = "wu_unlink"]
              /\ frame' = [frame EXCEPT ![t].walk.next = NextPtr(delays, t)]
           \/ /\ pc' = pc
              /\ frame' = [frame EXCEPT ![t].walk =
                     [w EXCEPT !.prev = w.curr, !.curr = NextPtr(delays, w.curr)]]
    BY <1>2, <1>17 DEF VisitEntry, WalkFault, Goto, At, schedVars, semVars
  <2>2. ASSUME NEW i \in 1 .. Len(delays), delays[i].pid = w.curr
        PROVE  NextPtr(delays, w.curr) = Follower(i)
    <3> HIDE DEF w
    <3>1. /\ PlaceOf(delays, w.curr) \in 1 .. Len(delays)
          /\ delays[PlaceOf(delays, w.curr)].pid = w.curr
      BY <1>0, <2>1, PointersPoint
    <3>2. PlaceOf(delays, w.curr) = i
      BY <2>2, <3>1 DEF PlacesFit, PidsOnce
    <3> QED BY <3>2 DEF NextPtr, Follower
  <2>3. \A i \in 1 .. Len(delays) : Follower(i)' = Follower(i)
    BY <2>1 DEF Follower
  <2>4. w \in Walk
    BY <1>0
  <2>5. \A u \in Task \ {t} : pc[u] \notin {"wu_walk", "wu_unlink"}
    BY <1>2 DEF InTail
  <2>6. /\ w.prev = NoTask => \A i \in 1 .. Len(delays) : delays[i].pid = w.curr => i = 1
        /\ \A i \in 1 .. Len(delays) : delays[i].pid = w.prev => w.curr = Follower(i)
    BY <1>2, <2>1 DEF WalkFits
  <2>7. CASE /\ w.curr = t /\ pc' = [pc EXCEPT ![t] = "wu_unlink"]
             /\ frame' = [frame EXCEPT ![t].walk.next = NextPtr(delays, t)]
    <3>1. /\ frame'[t].sem = s /\ \A u \in Task \ {t} : frame'[u] = frame[u]
          /\ frame'[t].walk.prev = w.prev /\ frame'[t].walk.curr = w.curr
          /\ frame'[t].walk.next = NextPtr(delays, t)
          /\ \A u \in Task : pc'[u] = IF u = t THEN "wu_unlink" ELSE pc[u]
      BY <1>0, <1>3, <2>4, <2>7 DEF Walk
    <3> HIDE DEF w
    <3>2. WalkFits'
      BY <2>1, <2>2, <2>3, <2>5, <2>6, <2>7, <3>1 DEF WalkFits
    <3> QED BY <1>14, <2>1, <2>7, <3>1, <3>2
  <2>8. CASE /\ pc' = pc
             /\ frame' = [frame EXCEPT ![t].walk =
                    [w EXCEPT !.prev = w.curr, !.curr = NextPtr(delays, w.curr)]]
    <3>1. /\ frame'[t].sem = s /\ \A u \in Task \ {t} : frame'[u] = frame[u]
          /\ frame'[t].walk.prev = w.curr /\ frame'[t].walk.curr = NextPtr(delays, w.curr)
      BY <1>0, <1>3, <2>4, <2>8 DEF Walk
    <3>2. pc' = [pc EXCEPT ![t] = "wu_walk"]
      BY <1>0, <1>2, <2>1, <2>8
    <3> HIDE DEF w
    <3>3. WalkFits'
      BY <1>2, <2>1, <2>2, <2>3, <2>5, <2>8, <3>1 DEF WalkFits
    <3> QED BY <1>14, <2>1, <3>1, <3>2, <3>3
  <2> QED BY <2>1, <2>7, <2>8
<1>7. CASE UnlinkEntry(t)
  <2> DEFINE w == frame[t].walk
  <2>1. /\ p = "wu_unlink" /\ pc' = [pc EXCEPT ![t] = "run"] /\ UNCHANGED <<status, sem_cnt, sem_q>>
        /\ \A ptr \in {w.prev, w.curr, w.next} \ {NoTask} : Listed(delays, ptr)
        /\ delays' = Unlinked(delays, w.prev, w.next)
        /\ frame' = [frame EXCEPT ![t] = NoFrame]
    BY <1>2, <1>7 DEF UnlinkEntry, Goto, At, schedVars, semVars
  <2>2. /\ \A u \in Task : pc'[u] = IF u = t THEN "run" ELSE pc[u]
        /\ \A u \in Task : frame'[u] = IF u = t THEN NoFrame ELSE frame[u]
    BY <1>0, <2>1
  <2>3. TailFits' /\ WalkFits' /\ \A r \in Sem : ~Returning(r)'
    <3>1. \A u \in Task : ~InTail(pc'[u])
      BY <1>2, <2>2 DEF InTail
    <3>2. \A u \in Task : frame'[u].sem # NoSem =>
              frame'[u].sem \in TimedWaits[u] /\ pc'[u] \notin {"run", "done"}
      BY <2>2 DEF TailFits, NoFrame
    <3> QED BY <3>1, <3>2, OutOfTail
  <2>4. TailSlice'
    BY <1>1, <1>2, <2>2 DEF TailSlice, InTail
  <2>5. \A r \in Sem : Waiting(r)' = Waiting(r)
    BY <2>1 DEF Waiting
  <2>6. CountsFit' /\ LinesOwn'
    BY <1>5, <2>1, <2>3, <2>5 DEF CountsFit, LinesOwn
  <2>7. /\ PidsOnce(delays')
        /\ \A u : IsListed(delays', u) <=> u # t /\ IsListed(delays, u)
    <3>1. /\ w.curr = t
          /\ w.prev = NoTask =>
                 \A i \in 1 .. Len(delays) : delays[i].pid = w.curr => i = 1
          /\ \A i \in 1 .. Len(delays) :
                 delays[i].pid = w.prev => w.curr = Follower(i)
          /\ \A i \in 1 .. Len(delays) : delays[i].pid = t => w.next = Follower(i)
      BY <1>2, <2>1 DEF WalkFits
    <3> HIDE DEF w
    <3>2. Listed(delays, t) /\ (w.prev # NoTask => Listed(delays, w.prev))
      BY <1>15, <2>1, <3>1
    <3>3. w.prev = NoTask => delays[1].pid = t
      BY <1>0, <3>1, <3>2, PointersPoint
    <3>4. /\ PlaceOf(delays, t) \in 1 .. Len(delays) /\ delays[PlaceOf(delays, t)].pid = t
          /\ delays' = RemovedAt(delays, PlaceOf(delays, t))
      <4>1. \A i \in 1 .. Len(delays) :
                delays[i].pid = w.prev =>
                    t = (IF i = Len(delays) THEN NoTask ELSE delays[i + 1].pid)
        BY <3>1 DEF Follower
      <4>2. \A i \in 1 .. Len(delays) :
                delays[i].pid = t =>
                    w.next = (IF i = Len(delays) THEN NoTask ELSE delays[i + 1].pid)
        BY <3>1 DEF Follower
      <4>3. PidsOnce(delays)
        BY DEF PlacesFit
      <4>4. Unlinked(delays, w.prev, w.next) = RemovedAt(delays, PlaceOf(delays, t))
        <5> HIDE DEF TimedFits
        <5>1. delays \in Seq(Entry)
          BY <1>0
        <5> DEFINE prev == w.prev
                   next == w.next
        <5>2. /\ prev # NoTask => Listed(delays, prev)
              /\ Listed(delays, t)
              /\ prev = NoTask => delays[1].pid = t
              /\ \A i \in 1 .. Len(delays) :
                     delays[i].pid = prev =>
                         t = (IF i = Len(delays) THEN NoTask ELSE delays[i + 1].pid)
              /\ \A i \in 1 .. Len(delays) :
                     delays[i].pid = t =>
                         next = (IF i = Len(delays) THEN NoTask ELSE delays[i + 1].pid)
          BY <3>2, <3>3, <4>1, <4>2
        <5> HIDE DEF prev, next
        <5>3. Unlinked(delays, prev, next) = RemovedAt(delays, PlaceOf(delays, t))
          BY <4>3, <5>1, <5>2, UnlinkedIsOne
        <5> QED BY <5>3 DEF prev, next
      <4> QED BY <1>0, <2>1, <3>2, <4>4, PointersPoint
    <3> QED BY <1>0, <3>4, RemovePid DEF PlacesFit
  <2>8. ASSUME NEW u \in Task PROVE IF frame'[u].sem = NoSem THEN Untimed(u)' ELSE Timed(u)'
    <3>1. CASE u = t
      <4>1. status[t] # "DELAY_TIMEOUT" /\ status[t] # "SEM_WAITING_UNTIL"
        BY <1>2, <2>1 DEF TailFits, Blocked
      <4>2. frame'[t].sem = NoSem
        BY <2>2 DEF NoFrame
      <4>3. status[t] \notin {"SEM_WAITING", "DELAY"} /\ \A r \in Sem : t \notin Waiting(r)
        BY <1>4, <4>1 DEF Timed
      <4> QED BY <2>1, <2>5, <2>7, <3>1, <4>1, <4>2, <4>3 DEF Untimed
    <3>2. CASE u # t
      <4>1. frame'[u] = frame[u]
        BY <2>2, <3>2
      <4> QED BY <2>1, <2>5, <2>7, <3>2, <4>1 DEF PlacesFit, Untimed, Timed
    <3> QED BY <3>1, <3>2
  <2>9. PlacesFit'
    BY <2>7, <2>8 DEF PlacesFit
  <2> QED BY <2>3, <2>4, <2>6, <2>9
<1>8. ASSUME p \in {"wu_load", "wu_store", "wu_deq", "wu_free"}
      PROVE  /\ status[t] = "DELAY_TIMEOUT" /\ ~IsListed(delays, t) /\ t \in Waiting(s)
             /\ sem_q[s] # <<>> /\ Len(sem_q[s]) = 1 /\ Head(sem_q[s]) = t
             /\ Waiting(s) = {t}
  <2>1. status[t] = "DELAY_TIMEOUT"
    BY <1>2, <1>8 DEF TailFits
  <2>2. t \in Waiting(s) /\ ~IsListed(delays, t)
    BY <1>3, <1>4, <2>1 DEF Timed
  <2> QED BY <1>0, <1>3, <2>1, <2>2, OwnLine
<1>9. ASSUME NEW q \in {"wu_store", "wu_deq", "wu_free"}, pc' = [pc EXCEPT ![t] = q],
             p \in {"wu_load", "wu_store", "wu_deq"},
             UNCHANGED <<status, sem_q, delays, elapsed_ticks, ktick>>,
             frame'[t].sem = s, \A u \in Task \ {t} : frame'[u] = frame[u],
             \A r \in Sem \ {s} : sem_cnt'[r] = sem_cnt[r],
             q = "wu_store" => frame'[t].cnt = sem_cnt'[s] /\ sem_cnt'[s] = sem_cnt[s]
                               /\ p = "wu_load",
             q # "wu_store" => sem_cnt'[s] = 0,
             q = "wu_free" => frame'[t].q = sem_q[s]
      PROVE  TimedFits'
  <2>1. \A u \in Task : pc'[u] = IF u = t THEN q ELSE pc[u]
    BY <1>0, <1>9
  <2>2. \A r \in Sem : Returning(r)' <=> r = s /\ q \in {"wu_deq", "wu_free"}
    BY <1>2, <1>9, <2>1 DEF Returning, InTail
  <2>3. CountsFit'
    BY <1>5, <1>9, <2>2 DEF CountsFit
  <2>4. \A r \in Sem : Waiting(r)' = Waiting(r)
    BY <1>9 DEF Waiting
  <2>5. LinesOwn'
    BY <2>4 DEF LinesOwn
  <2>6. ASSUME NEW u \in Task PROVE IF frame'[u].sem = NoSem THEN Untimed(u)' ELSE Timed(u)'
    <3>1. frame'[u].sem = frame[u].sem
      BY <1>3, <1>9
    <3> QED BY <1>9, <2>4, <3>1 DEF PlacesFit, Untimed, Timed
  <2>7. PlacesFit'
    BY <1>9, <2>6 DEF PlacesFit
  <2>8. TailFits'
    <3>1. ASSUME NEW u \in Task \ {t}
          PROVE  /\ frame'[u].sem # NoSem =>
                        frame'[u].sem \in TimedWaits[u] /\ pc'[u] \notin {"run", "done"}
                 /\ ~InTail(pc'[u])
      BY <1>2, <1>9, <2>1 DEF TailFits
    <3>2. /\ frame'[t].sem = s /\ s \in TimedWaits[t] /\ pc'[t] = q
          /\ t = psp' /\ ~pendsv' /\ status'[t] = "DELAY_TIMEOUT"
      BY <1>1, <1>2, <1>3, <1>8, <1>9, <2>1
    <3> QED BY <1>9, <3>1, <3>2 DEF TailFits, InTail
  <2>9. TailSlice'
    <3>1. InTail(pc[psp]) /\ UNCHANGED <<elapsed_ticks, ktick>>
      BY <1>1, <1>2, <1>9
    <3> QED BY <3>1 DEF TailSlice
  <2>10. WalkFits'
    BY <1>2, <1>9, <2>1 DEF WalkFits, InTail
  <2> QED BY <2>3, <2>5, <2>7, <2>8, <2>9, <2>10
<1>10. CASE LoadCnt(t)
  <2>1. /\ p = "wu_load" /\ pc' = [pc EXCEPT ![t] = "wu_store"]
        /\ UNCHANGED <<status, sem_cnt, sem_q, delays, elapsed_ticks, ktick>>
        /\ frame' = [frame EXCEPT ![t].cnt = sem_cnt[s]]
    BY <1>2, <1>3, <1>10 DEF LoadCnt, GoOn, Goto, At, schedVars, semVars
  <2>2. frame'[t].sem = s /\ frame'[t].cnt = sem_cnt[s] /\ \A u \in Task \ {t} : frame'[u] = frame[u]
    BY <1>0, <1>3, <2>1
  <2> QED BY <1>9, <2>1, <2>2
<1>11. CASE StoreCnt(t)
  <2>1. /\ p = "wu_store" /\ pc' = [pc EXCEPT ![t] = "wu_deq"]
        /\ UNCHANGED <<status, sem_q, delays, frame, elapsed_ticks, ktick>>
        /\ sem_cnt' = [sem_cnt EXCEPT ![s] = frame[t].cnt + 1]
    BY <1>2, <1>3, <1>11 DEF StoreCnt, Restored, GoOn, Goto, At, schedVars, semVars
  <2>2. frame[t].cnt = sem_cnt[s]
    BY <1>2, <1>3, <2>1 DEF TailFits
  <2>3. LineLength(sem_cnt[s]) = 1
    BY <1>5, <1>8, <2>1 DEF CountsFit
  <2>4. sem_cnt'[s] = 0 /\ \A r \in Sem \ {s} : sem_cnt'[r] = sem_cnt[r]
    BY <1>0, <2>1, <2>2, <2>3 DEF LineLength
  <2> QED BY <1>3, <1>9, <2>1, <2>4
<1>12. CASE ReadQueue(t)
  <2>1. /\ p = "wu_deq" /\ pc' = [pc EXCEPT ![t] = "wu_free"]
        /\ UNCHANGED <<status, sem_cnt, sem_q, delays, elapsed_ticks, ktick>>
        /\ frame' = [frame EXCEPT ![t].q = sem_q[s]]
    BY <1>2, <1>3, <1>12 DEF ReadQueue, Goto, At, schedVars, semVars
  <2>2. frame'[t].sem = s /\ frame'[t].q = sem_q[s] /\ \A u \in Task \ {t} : frame'[u] = frame[u]
    BY <1>0, <1>3, <2>1
  <2>3. sem_cnt[s] = 0
    BY <1>2, <1>3, <2>1 DEF TailFits
  <2> QED BY <1>9, <2>1, <2>2, <2>3
<1>13. CASE UnlinkHead(t)
  <2>1. p = "wu_free"
    BY <1>2, <1>13 DEF UnlinkHead, At
  <2>2. frame[t].q = sem_q[s] /\ sem_cnt[s] = 0
    BY <1>2, <1>3, <2>1 DEF TailFits
  <2>3. /\ sem_q' = [sem_q EXCEPT ![s] = Tail(@)]
        /\ status' = [DeqStatus(sem_q[s], status) EXCEPT ![t] = "ACTIVE"]
        /\ pc' = [pc EXCEPT ![t] = "run"] /\ UNCHANGED <<sem_cnt, delays>>
        /\ frame' = [frame EXCEPT ![t] = NoFrame]
    BY <1>2, <1>3, <1>13, <2>2 DEF UnlinkHead, Goto
  <2>4. \A u \in Task : status'[u] = IF u = t THEN "ACTIVE" ELSE status[u]
    BY <1>0, <1>8, <2>1, <2>3 DEF DeqStatus
  <2>5. /\ \A u \in Task : pc'[u] = IF u = t THEN "run" ELSE pc[u]
        /\ \A u \in Task : frame'[u] = IF u = t THEN NoFrame ELSE frame[u]
    BY <1>0, <2>3
  <2>6. TailFits' /\ WalkFits' /\ \A r \in Sem : ~Returning(r)'
    <3>1. \A u \in Task : ~InTail(pc'[u])
      BY <1>2, <2>5 DEF InTail
    <3>2. \A u \in Task : frame'[u].sem # NoSem =>
              frame'[u].sem \in TimedWaits[u] /\ pc'[u] \notin {"run", "done"}
      BY <2>5 DEF TailFits, NoFrame
    <3> QED BY <3>1, <3>2, OutOfTail
  <2>7. TailSlice'
    BY <1>1, <1>2, <2>5 DEF TailSlice, InTail
  <2>8. /\ EachOnce(sem_q'[s]) /\ Len(sem_q'[s]) = 0
        /\ \A r \in Sem \ {s} : sem_q'[r] = sem_q[r]
        /\ \A r \in Sem : Waiting(r)' = IF r = s THEN {} ELSE Waiting(r)
    <3>1. EachOnce(sem_q[s])
      BY DEF CountsFit
    <3>2. /\ EachOnce(sem_q'[s]) /\ Len(sem_q'[s]) = Len(sem_q[s]) - 1
          /\ \A r \in Sem \ {s} : sem_q'[r] = sem_q[r]
          /\ \A r \in Sem : Waiting(r)' = IF r = s THEN Waiting(s) \ {Head(sem_q[s])}
                                                  ELSE Waiting(r)
      BY <1>0, <1>8, <2>1, <2>3, <3>1, LeaveLine
    <3>3. Waiting(s) \ {Head(sem_q[s])} = {} /\ Len(sem_q[s]) - 1 = 0
      BY <1>8, <2>1
    <3> QED BY <3>2, <3>3
  <2>9. CountsFit' /\ LinesOwn'
    <3>1. CountsFit'
      <4>1. \A r \in Sem : ~Returning(r)'
        BY <2>6
      <4> QED BY <1>5, <2>2, <2>3, <2>8, <4>1 DEF CountsFit, LineLength
    <3>2. LinesOwn'
      BY <2>8 DEF LinesOwn
    <3> QED BY <3>1, <3>2
  <2>10. ASSUME NEW u \in Task PROVE IF frame'[u].sem = NoSem THEN Untimed(u)' ELSE Timed(u)'
    <3>1. CASE u = t
      <4>1. frame'[t].sem = NoSem /\ status'[t] = "ACTIVE" /\ ~IsListed(delays, t)
        BY <1>8, <2>1, <2>4, <2>5 DEF NoFrame
      <4>2. \A r \in Sem : t \notin Waiting(r)'
        BY <1>8, <2>1, <2>8 DEF LinesOwn
      <4> QED BY <2>3, <3>1, <4>1, <4>2 DEF Untimed
    <3>2. CASE u # t
      <4>1. frame'[u] = frame[u] /\ status'[u] = status[u]
        BY <2>4, <2>5, <3>2
      <4>2. \A r \in Sem : u \in Waiting(r)' <=> u \in Waiting(r)
        BY <1>8, <2>1, <2>8, <3>2
      <4> QED BY <2>3, <4>1, <4>2 DEF PlacesFit, Untimed, Timed
    <3> QED BY <3>1, <3>2
  <2>11. PlacesFit'
    BY <2>3, <2>10 DEF PlacesFit
  <2> QED BY <2>6, <2>7, <2>9, <2>11
<1> QED BY <1>6, <1>7, <1>10, <1>11, <1>12, <1>13, <1>16, <1>17 DEF WaitUntilTail

(* The tick that ends the delay of a timed wait leaves its task in the line, *)
(* and one that ends the wait of pos_delay_ms leaves no entry of it.         *)
LEMMA TickFits ==
    ASSUME RoundRobinInv, LinesOwn, PlacesFit, NEW ticks, DelayTick(ticks),
           fault = "none", fault' = "none", UNCHANGED <<sem_q, pc, frame>>
    PROVE  /\ LinesOwn' /\ PlacesFit'
           /\ WalkFits => WalkFits'
           /\ \A t \in Task : status[t] \notin Blocked => status'[t] = status[t]
<1> DEFINE list == CountDown(delays)
           pid == list[1].pid
           woken == [status EXCEPT ![pid] = AwakeStatus(pid)]
<1>1. /\ delays \in Seq(Entry) /\ status \in [Task -> Status] /\ PidsOnce(delays)
      /\ TypeInv /\ HighFits
  BY DEF RoundRobinInv, TypeInv, TypeOK, SchedulerTypeOK, DelayTypeOK, PlacesFit
<1>2. list \in Seq(Entry) /\ (list # <<>> => pid \in Task \ HighTasks)
  BY <1>1, CountDownType, TickedIsBelowHigh
<1>6. Len(list) = Len(delays) /\ \A i \in 1 .. Len(delays) : list[i].pid = delays[i].pid
  BY <1>1, CountDownPids
<1>3. PidsOnce(list) /\ \A t : IsListed(list, t) <=> IsListed(delays, t)
  <2> HIDE DEF list
  <2> QED BY <1>1, <1>6, SamePids
<1>4. CASE ~HeadElapsed(list)
  <2>1. delays' = list /\ UNCHANGED status
    BY <1>4 DEF DelayTick, NoSwitch
  <2> HIDE DEF list
  <2>2. OnlyWakes({})
    BY <2>1 DEF OnlyWakes
  <2>3. WalkFits => WalkFits'
    <3>1. /\ Len(delays) \in Nat /\ Len(delays') = Len(delays) - 0
          /\ \A i \in 1 .. Len(delays') : delays'[i].pid = delays[i + 0].pid
      BY <1>1, <1>6, <2>1, LenProperties
    <3> QED BY <3>1, WalkKept
  <2> QED BY <1>3, <2>1, <2>2, <2>3, PlacesKept
<1>5. CASE HeadElapsed(list)
  <2>1. list # <<>> /\ delays' = Tail(list)
    BY <1>5 DEF DelayTick, HeadElapsed
  <2>13. WalkFits => WalkFits'
    <3> HIDE DEF list
    <3>1. /\ Len(delays) \in Nat /\ Len(delays') = Len(delays) - 1
          /\ \A i \in 1 .. Len(delays') : delays'[i] = list[i + 1]
      BY <1>1, <1>2, <1>6, <2>1, LenProperties, HeadTailProperties
    <3>2. \A i \in 1 .. Len(delays') : delays'[i].pid = delays[i + 1].pid
      BY <1>6, <3>1
    <3> QED BY <3>1, <3>2, WalkKept
  <2>2. /\ PidsOnce(Tail(list)) /\ IsListed(list, pid)
        /\ \A t : IsListed(Tail(list), t) <=> t # pid /\ IsListed(list, t)
    <3> HIDE DEF list
    <3> QED BY <1>2, <1>3, <2>1, UnlinkPid
  <2>3. /\ pid \in Task \ HighTasks /\ status[pid] \in {"DELAY", "SEM_WAITING_UNTIL"}
        /\ Ready(pid, woken, ticks)
    BY <1>2, <1>5, <2>1 DEF DelayTick
  <2>4. status' = woken
    <3> HIDE DEF woken, pid
    <3> QED BY <2>3, ReadyEffect
  <2> HIDE DEF list, pid
  <2>5. \A t \in Task : status'[t] = IF t = pid THEN AwakeStatus(pid) ELSE status[t]
    BY <1>1, <2>3, <2>4
  <2>6. /\ status[pid] = "SEM_WAITING_UNTIL" => AwakeStatus(pid) = "DELAY_TIMEOUT"
        /\ status[pid] = "DELAY" => AwakeStatus(pid) \in {"ACTIVE", "IDLE"}
    BY DEF AwakeStatus
  <2>7. \A t : IsListed(delays', t) <=> t # pid /\ IsListed(delays, t)
    BY <1>3, <2>1, <2>2
  <2>8. \A s \in Sem : Waiting(s)' = Waiting(s)
    BY DEF Waiting
  <2>9. ASSUME NEW t \in Task PROVE IF frame'[t].sem = NoSem THEN Untimed(t)' ELSE Timed(t)'
    <3>1. CASE t # pid
      <4>1. status'[t] = status[t] /\ (IsListed(delays', t) <=> IsListed(delays, t))
        BY <2>5, <2>7, <3>1
      <4> QED BY <2>8, <4>1 DEF PlacesFit, Untimed, Timed
    <3>2. CASE t = pid /\ frame[t].sem = NoSem
      <4>1. Untimed(t)
        BY <3>2 DEF PlacesFit
      <4>2. status[t] = "DELAY" /\ status'[t] \in {"ACTIVE", "IDLE"} /\ ~IsListed(delays', t)
        BY <2>3, <2>5, <2>6, <2>7, <3>2, <4>1 DEF Untimed
      <4>3. \A s \in Sem : t \notin Waiting(s)'
        BY <2>8, <4>1, <4>2 DEF Untimed
      <4> QED BY <3>2, <4>2, <4>3 DEF Untimed
    <3>3. CASE t = pid /\ frame[t].sem # NoSem
      <4>1. Timed(t)
        BY <3>3 DEF PlacesFit
      <4>2. /\ status[t] = "SEM_WAITING_UNTIL" /\ status'[t] = "DELAY_TIMEOUT"
            /\ ~IsListed(delays', t)
        BY <2>3, <2>5, <2>6, <2>7, <3>3, <4>1 DEF Timed
      <4>3. \A s \in Sem : t \in Waiting(s)' <=> s = frame'[t].sem
        BY <2>8, <4>1, <4>2 DEF Timed
      <4> QED BY <3>3, <4>2, <4>3 DEF Timed
    <3> QED BY <3>1, <3>2, <3>3
  <2>10. PlacesFit'
    BY <2>1, <2>2, <2>9 DEF PlacesFit
  <2>11. LinesOwn'
    BY <2>8 DEF LinesOwn
  <2>12. \A t \in Task : status[t] \notin Blocked => status'[t] = status[t]
    BY <2>3, <2>5 DEF Blocked
  <2> QED BY <2>10, <2>11, <2>12, <2>13
<1> QED BY <1>4, <1>5

(* No slice ends in the tail, and the tick that is taken there wakes another *)
(* task, or none.                                                            *)
LEMMA TickKeepsTimed ==
    ASSUME RoundRobinInv, TimedFits, SysTick, fault' = "none"
    PROVE  TimedFits'
<1> USE DEF TimedFits
<1>0. /\ TypeInv /\ HighFits /\ SwitchInv /\ elapsed_ticks \in 0 .. 255 /\ quantum \in Nat
      /\ ktick \in BOOLEAN /\ psp \in Task /\ ring \in SUBSET Task
      /\ fault = "none" /\ (InKernelPath => ~ktick) /\ ktick' = InKernelPath
      /\ UNCHANGED <<psp, pc, sem_cnt, sem_q, frame>>
  BY DEF RoundRobinInv, TypeInv, TypeOK, SchedulerTypeOK, SysTick, semVars
<1>1. InTail(pc[psp]) \/ pc[psp] = "resumed" => InKernelPath /\ elapsed_ticks = 0
  BY <1>0 DEF InKernelPath, InTail, TailSlice
<1>2. /\ LinesOwn' /\ PlacesFit' /\ WalkFits'
      /\ InTail(pc[psp]) \/ pc[psp] = "resumed" => elapsed_ticks' = 1
      /\ \A t \in Task : InTail(pc[t]) => pendsv' = pendsv /\ status'[t] = status[t]
  <2>1. CASE (elapsed_ticks + 1) % 256 = quantum /\ Schedule(ring) /\ UNCHANGED delays
    <3>1. ~InTail(pc[psp]) /\ pc[psp] # "resumed"
      BY <1>0, <1>1, <2>1 DEF SwitchInv, SliceFits
    <3>2. OnlyWakes({})
      BY <1>0, <2>1, ScheduleWakesNobody
    <3>3. LinesOwn' /\ PlacesFit'
      BY <1>0, <2>1, <3>2, PlacesKept DEF PlacesFit
    <3>4. WalkFits'
      BY <1>0, <2>1 DEF WalkFits, Follower
    <3> QED BY <3>1, <3>3, <3>4 DEF TailFits
  <2>2. CASE DelayTick((elapsed_ticks + 1) % 256)
    <3>1. elapsed_ticks' = (elapsed_ticks + 1) % 256 /\ pendsv' = pendsv
      BY <1>0, <2>2, DelayTickEffect DEF globals
    <3>2. /\ LinesOwn' /\ PlacesFit' /\ WalkFits'
          /\ \A t \in Task : status[t] \notin Blocked => status'[t] = status[t]
      BY <1>0, <2>2, TickFits
    <3>3. \A t \in Task : InTail(pc[t]) => status[t] \notin Blocked
      BY <1>0 DEF TailFits, SwitchInv, GlobalsFit, BlockedInYield, InYield, InTail
    <3> QED BY <1>0, <1>1, <3>1, <3>2, <3>3
  <2> QED BY <2>1, <2>2 DEF SysTick
<1>3. CountsFit'
  <2>1. \A s \in Sem : Returning(s)' <=> Returning(s)
    BY <1>0 DEF Returning
  <2> QED BY <1>0, <2>1 DEF CountsFit
<1>4. TailFits'
  BY <1>0, <1>2 DEF TailFits, InTail
<1>5. TailSlice'
  BY <1>0, <1>1, <1>2 DEF TailSlice
<1> QED BY <1>2, <1>3, <1>4, <1>5

(* An interrupt signals none of the semaphores waited for with a timeout:    *)
(* the tail goes on behind it with what it has read.                         *)
LEMMA IsrKeepsTimed ==
    ASSUME TimedClass, RoundRobinInv, TimedFits, Isr
    PROVE  TimedFits'
<1> USE DEF TimedFits
<1>0. TypeInv /\ HighFits /\ SwitchInv /\ status \in [Task -> Status]
  BY DEF RoundRobinInv, TypeInv, TypeOK, SchedulerTypeOK
<1>1. PICK s \in IsrSems : IsrSignal(s) /\ UNCHANGED <<delays, frame>>
  BY DEF Isr
<1>2. s \in Sem /\ SignalSection(s) /\ Gave(s) /\ UNCHANGED <<psp, pc, ktick>>
  BY <1>0, <1>1, ProgramAssumption, SignalGives DEF IsrSignal
<1>3. UNCHANGED <<globals, elapsed_ticks>>
  BY <1>0, <1>2, SignalEffect DEF HighFits
<1>4. \A t \in Task : s \notin TimedWaits[t]
  BY DEF TimedClass
<1>5. ~Returning(s)
  BY <1>0, <1>4, TailHasFrame DEF Returning, InTail
<1>6. /\ CountsFit' /\ LinesOwn' /\ PlacesFit'
      /\ HeadOf(sem_q[s]) \subseteq Waiting(s)
      /\ \A r \in Sem \ {s} : sem_q'[r] = sem_q[r] /\ sem_cnt'[r] = sem_cnt[r]
  BY <1>0, <1>1, <1>2, <1>5, GaveFits
<1>7. ASSUME NEW t \in Task, InTail(pc[t])
      PROVE  /\ frame[t].sem \in Sem \ {s}
             /\ status'[t] = "DELAY_TIMEOUT" <=> status[t] = "DELAY_TIMEOUT"
  <2>1. frame[t].sem \in Sem \ {s} /\ frame[t].sem # NoSem
    BY <1>0, <1>4, <1>7, TailHasFrame
  <2>2. t \notin Waiting(s)
    BY <1>2, <2>1 DEF PlacesFit, Timed
  <2>3. t \notin HeadOf(sem_q[s]) /\ OnlyWakes(HeadOf(sem_q[s]))
    BY <1>2, <1>6, <2>2 DEF Gave
  <2> QED BY <2>1, <2>3 DEF OnlyWakes, Asleep
<1>8. TailFits'
  <2>1. ASSUME NEW t \in Task, InTail(pc[t])
        PROVE  /\ sem_q'[frame[t].sem] = sem_q[frame[t].sem]
               /\ sem_cnt'[frame[t].sem] = sem_cnt[frame[t].sem]
    BY <1>6, <1>7, <2>1
  <2> QED BY <1>1, <1>2, <1>3, <1>7, <2>1 DEF TailFits, InTail, globals
<1>9. TailSlice'
  BY <1>2, <1>3 DEF TailSlice
<1>10. WalkFits'
  BY <1>1, <1>2 DEF WalkFits, Follower
<1> QED BY <1>6, <1>8, <1>9, <1>10

(* No switch is pending in the tail, so PendSV takes nobody out of it.       *)
LEMMA SwitchKeepsTimed ==
    ASSUME RoundRobinInv, TimedFits, SwitchContext, fault' = "none"
    PROVE  TimedFits'
<1> USE DEF TimedFits
<1>0. /\ TypeInv /\ SwitchInv /\ ktick \in BOOLEAN /\ cte \in Task
      /\ pendsv /\ psp' = next_task /\ ktick' = (ktick /\ pc[next_task] # "run")
      /\ UNCHANGED <<pc, status, elapsed_ticks, sem_cnt, sem_q, delays, frame>>
  BY DEF RoundRobinInv, TypeInv, TypeOK, SchedulerTypeOK, SwitchContext, PendSV, semVars
<1>1. psp' = cte
  BY <1>0 DEF SwitchInv, GlobalsFit, SwitchFromRunning
<1>2. \A t \in Task : ~InTail(pc[t])
  BY <1>0 DEF TailFits
<1>3. LinesOwn' /\ PlacesFit'
  <2>1. OnlyWakes({})
    BY <1>0 DEF OnlyWakes
  <2> QED BY <1>0, <2>1, PlacesKept DEF PlacesFit
<1>4. CountsFit'
  <2>1. \A s \in Sem : Returning(s)' <=> Returning(s)
    BY <1>0 DEF Returning
  <2> QED BY <1>0, <2>1 DEF CountsFit
<1>5. TailFits' /\ WalkFits'
  <2>1. \A t \in Task : frame'[t].sem # NoSem =>
            frame'[t].sem \in TimedWaits[t] /\ pc'[t] \notin {"run", "done"}
    BY <1>0 DEF TailFits
  <2> QED BY <1>0, <1>2, <2>1, OutOfTail
<1>6. TailSlice'
  <2>1. elapsed_ticks <= (IF ktick THEN 1 ELSE 0)
    BY <1>0 DEF SwitchInv, SliceFits
  <2>2. pc'[psp'] = "resumed" => ktick' = ktick
    BY <1>0, <1>1 DEF SwitchInv, GlobalsFit, SwitchFromRunning
  <2> QED BY <1>0, <1>1, <1>2, <2>1, <2>2 DEF TailSlice
<1> QED BY <1>3, <1>4, <1>5, <1>6

(* Every step keeps the invariant.                                           *)
LEMMA TimedInvStep ==
    ASSUME TimedClass
    PROVE  TimedInv /\ [Next]_vars => TimedInv'
<1> SUFFICES ASSUME TimedInv, [Next]_vars, fault' = "none"
             PROVE  TimedFits'
  BY RoundRobinInvStep DEF TimedInv, TimedClass
<1>0. RoundRobinInv
  BY DEF TimedInv
<1>1. CASE UNCHANGED vars
  <2>1. /\ UNCHANGED <<status, elapsed_ticks, pendsv, psp, pc, ktick, sem_cnt, sem_q,
                       delays, frame>>
        /\ fault = "none"
    BY <1>1 DEF vars, schedVars, cpuVars, semVars
  <2>2. TimedFits
    BY <2>1 DEF TimedInv
  <2>3. LinesOwn' /\ PlacesFit'
    <3>1. OnlyWakes({})
      BY <2>1 DEF OnlyWakes
    <3> QED BY <2>1, <2>2, <3>1, PlacesKept DEF TimedFits, PlacesFit
  <2>4. CountsFit'
    BY <2>1, <2>2 DEF TimedFits, CountsFit, Returning
  <2>5. TailFits' /\ WalkFits' /\ TailSlice'
    BY <2>1, <2>2 DEF TimedFits, TailFits, InTail, TailSlice, WalkFits, Follower
  <2> QED BY <2>3, <2>4, <2>5 DEF TimedFits
<1>2. CASE Halted
  BY <1>1, <1>2 DEF Halted
<1>3. ASSUME NEW t \in Task, Yielding(t)
      PROVE  TimedFits'
  <2>1. fault = "none"
    BY <1>3 DEF Yielding, EnterSvc, SleepCpu, WakeCpu, ReturnFromYield, At
  <2> QED BY <1>0, <1>3, <2>1, YieldingKeepsTimed DEF TimedInv
<1>4. ASSUME NEW t \in Task, WaitUntilTail(t)
      PROVE  TimedFits'
  <2>1. fault = "none"
    BY <1>4 DEF WaitUntilTail, CheckTimeout, BeginWalk, VisitEntry, UnlinkEntry, LoadCnt,
       StoreCnt, ReadQueue, UnlinkHead, At
  <2> QED BY <1>0, <1>4, <2>1, TailKeepsTimed DEF TimedInv
<1>5. ASSUME NEW t \in Task, Call(t)
      PROVE  TimedFits'
  <2>1. fault = "none"
    BY <1>5 DEF Call, SemWait, SemSignal, WaitUntil, DelayMs, TaskFinish, At
  <2> QED BY <1>0, <1>5, <2>1, CallKeepsTimed DEF TimedInv
<1>6. CASE SysTick
  BY <1>0, <1>6, TickKeepsTimed DEF TimedInv, SysTick
<1>7. CASE Isr
  BY <1>0, <1>7, IsrKeepsTimed DEF TimedInv, Isr, IsrSignal
<1>8. CASE SwitchContext
  BY <1>0, <1>8, SwitchKeepsTimed DEF TimedInv, SwitchContext, PendSV
<1> QED BY <1>1, <1>2, <1>3, <1>4, <1>5, <1>6, <1>7, <1>8 DEF Next

(* It holds when the scheduler starts: no list has anybody.                  *)
LEMMA TimedInvInit == Init => TimedInv
<1> SUFFICES ASSUME Init PROVE TimedFits
  BY RoundRobinInvInit DEF TimedInv
<1>1. /\ delays = <<>> /\ sem_cnt = InitCnt /\ sem_q = [s \in Sem |-> <<>>]
      /\ frame = [t \in Task |-> NoFrame] /\ pc = [t \in Task |-> "run"] /\ psp \in Task
      /\ status = [t \in Task |-> IF t = 1 THEN "ACTIVE" ELSE "IDLE"]
  BY TasksAssumption DEF Init, SchedulerInit, SemaphoreInit, DelayInit, Task
<1>2. \A s \in Sem : sem_q[s] = <<>> /\ Len(sem_q[s]) = 0 /\ Waiting(s) = {}
  BY <1>1, EmptySeq DEF Waiting
<1>3. CountsFit
  BY <1>1, <1>2, SemAssumption DEF CountsFit, EachOnce, LineLength
<1>4. LinesOwn
  BY <1>2 DEF LinesOwn
<1>5. PlacesFit
  <2>1. PidsOnce(delays) /\ \A t : ~IsListed(delays, t)
    BY <1>1, EmptySeq DEF PidsOnce, IsListed
  <2>2. \A t \in Task : frame[t].sem = NoSem /\ status[t] \in {"ACTIVE", "IDLE"}
    BY <1>1 DEF NoFrame
  <2> QED BY <1>2, <2>1, <2>2 DEF PlacesFit, Untimed
<1>6. TailFits /\ WalkFits /\ TailSlice
  BY <1>1 DEF TailFits, WalkFits, TailSlice, InTail, NoFrame
<1> QED BY <1>3, <1>4, <1>5, <1>6 DEF TimedFits

(* The invariant holds in every behaviour.                                   *)
LEMMA TimedInvAlways ==
    ASSUME TimedClass
    PROVE  Spec => []TimedInv
  BY TimedInvInit, TimedInvStep, PTL DEF Spec

(* A wait that timed out leaves the count, the line and the delay list as if *)
(* it had never been: the unit it did not take is given back, and neither    *)
(* list still has its task, whatever ticks and interrupts fall into the tail *)
(* of pos_semaphore_wait_until.                                              *)
THEOREM TimeoutsLeaveNoTrace ==
    ASSUME TimedClass
    PROVE  Spec => []TimeoutLeavesNoTrace
<1>1. TimedInv => TimeoutLeavesNoTrace
  <2> SUFFICES ASSUME TimedInv, fault = "none", \A t \in Task : frame[t].sem = NoSem
               PROVE  CountMatchesQueue /\ QueuedIffWaiting /\ DelayedIffListed
    BY DEF TimeoutLeavesNoTrace
  <2>0. TypeInv /\ CountsFit /\ LinesOwn /\ PlacesFit /\ TailFits
    BY DEF TimedInv, RoundRobinInv, TimedFits
  <2>1. \A t \in Task : Untimed(t)
    BY <2>0 DEF PlacesFit
  <2>2. \A s \in Sem : ~Returning(s)
    BY <2>0, TailHasFrame DEF Returning, InTail
  <2>3. CountMatchesQueue
    <3> SUFFICES ASSUME NEW s \in Sem
                 PROVE  /\ Len(sem_q[s]) = (IF sem_cnt[s] < 0 THEN -sem_cnt[s] ELSE 0)
                        /\ Cardinality(Waiting(s)) = Len(sem_q[s])
      BY DEF CountMatchesQueue
    <3>1. sem_q[s] \in Seq(Task)
      BY <2>0 DEF TypeInv, TypeOK, SemaphoreTypeOK
    <3>2. Len(sem_q[s]) = LineLength(sem_cnt[s]) /\ EachOnce(sem_q[s])
      BY <2>0, <2>2 DEF CountsFit
    <3> QED BY <3>1, <3>2, EachOnceCounts DEF Waiting, LineLength
  <2>4. QueuedIffWaiting
    BY <2>0, <2>1 DEF QueuedIffWaiting, Untimed, LinesOwn
  <2>5. DelayedIffListed
    <3> SUFFICES ASSUME NEW t \in Task
                 PROVE  Cardinality(EntriesOf(delays, t)) =
                            IF status[t] \in {"DELAY", "SEM_WAITING_UNTIL"} THEN 1 ELSE 0
      BY DEF DelayedIffListed
    <3>1. status[t] # "SEM_WAITING_UNTIL" /\ (status[t] = "DELAY" <=> IsListed(delays, t))
      BY <2>1 DEF Untimed
    <3>2. CASE status[t] = "DELAY"
      <4>1. PICK i \in 1 .. Len(delays) : delays[i].pid = t
        BY <3>1, <3>2 DEF IsListed
      <4>2. EntriesOf(delays, t) = {i}
        BY <2>0, <4>1 DEF EntriesOf, PlacesFit, PidsOnce
      <4> QED BY <3>2, <4>2, FS_Singleton
    <3>3. CASE status[t] # "DELAY"
      <4>1. EntriesOf(delays, t) = {}
        BY <3>1, <3>3 DEF EntriesOf, IsListed
      <4> QED BY <3>1, <3>3, <4>1, FS_EmptySet
    <3> QED BY <3>2, <3>3
  <2> QED BY <2>3, <2>4, <2>5
<1> QED BY <1>1, TimedInvAlways, PTL

-----------------------------------------------------------------------------
(* VI. Steps of the components on top, the mutexes and the mailboxes.        *)

(* Those that move a task on and leave the scheduler alone.                  *)
LEMMA MoveOnKeeps ==
    ASSUME SemaphoreInv, NEW t \in Task, NEW p, At(t, p), ~InYield(p),
           NEW q \in {"run", "mx_publish", "mx_reset", "ip_signal", "ip_deq", "ip_take"},
           Goto(t, q),
           UNCHANGED <<ring, status, globals, elapsed_ticks, os_mode, psp, event>>,
           is_sleep_mode' \in BOOLEAN, ktick' \in BOOLEAN, fault' \in Fault,
           semVars' = semVars \/ \E s \in Sem : Took(s),
           UNCHANGED <<delays, frame>>
    PROVE  SemaphoreInv' /\ (QueueInv => QueueInv')
<1> USE DEF SemaphoreInv, RoundRobinInv, TypeInv, TypeOK
<1>1. SchedulerTypeOK' /\ ActiveIsCurrent'
  BY DEF globals, Goto, SchedulerTypeOK, ActiveIsCurrent, Pc
<1>2. SemaphoreTypeOK'
  BY DEF semVars, Took, SemaphoreTypeOK
<1>3. DelayTypeOK' /\ frame' \in [Task -> [sem : Sem \cup {NoSem}, cnt : Int, q : Seq(Task), walk : Walk]]
  BY DEF DelayTypeOK
<1>4. FramesOK'
  BY DEF At, Goto, FramesOK, SchedulerTypeOK
<1>5. SwitchInv'
  <2>1. ~InYield(q) /\ WakesOnly
    BY DEF InYield, WakesOnly
  <2> QED BY <2>1, ThreadStepKeeps
<1>6. LineInv' /\ (SleepersQueue => SleepersQueue')
  <2>1. Effect
    BY DEF Effect, Quiet, SameSleepers
  <2> QED BY <2>1, EffectKeeps
<1>7. HighFits'
  <2>1. CASE UNCHANGED sem_q
    BY <2>1, SameListsKeepHigh DEF At, Goto, SchedulerTypeOK
  <2> QED BY <2>1 DEF semVars, Took
<1> QED BY <1>1, <1>2, <1>3, <1>4, <1>5, <1>6, <1>7 DEF QueueInv

(* An interrupt handler that finds a mailbox full stops the kernel.          *)
LEMMA FaultKeeps ==
    ASSUME SemaphoreInv, fault = "none", fault' \in Fault,
           UNCHANGED <<schedVars, cpuVars, semVars, delays, frame>>
    PROVE  SemaphoreInv' /\ (QueueInv => QueueInv')
<1>1. TypeInv'
  BY DEF SemaphoreInv, RoundRobinInv, TypeInv, TypeOK, schedVars, cpuVars, semVars,
     SchedulerTypeOK, SemaphoreTypeOK, DelayTypeOK, FramesOK, ActiveIsCurrent
<1>2. SwitchInv'
  BY DEF SemaphoreInv, RoundRobinInv, SwitchInv, schedVars, cpuVars, GlobalsFit,
     SwitchFromRunning, YieldsAlone, SliceFits, SliceBounded, BlockedInYield,
     SleepsOnlyWhenBlocked, ReadyIn, ChargedToRunner
<1>3. LineInv' /\ (SleepersQueue => SleepersQueue')
  <2>1. Effect
    BY DEF Effect, Quiet, SameSleepers, schedVars
  <2> QED BY <2>1, EffectKeeps
<1>4. HighFits'
  BY SameListsKeepHigh DEF SemaphoreInv, RoundRobinInv, semVars, cpuVars
<1> QED BY <1>1, <1>2, <1>3, <1>4 DEF QueueInv, SemaphoreInv, RoundRobinInv
=============================================================================
