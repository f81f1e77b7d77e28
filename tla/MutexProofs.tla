------------------------------ MODULE MutexProofs ------------------------------
(* The mutexes of programs without timed waits whose HIGH tasks are woken by *)
(* tasks only, and whose tasks get a handle when pos_mutex_create has        *)
(* returned: the row of a mutex never disagrees with its sleepers, no        *)
(* sleeper is left without a task that will wake it, and nothing is written  *)
(* outside the tables that a sufficient configuration declares.  MutexShared *)
(* shows what a shared handle does, MutexOverflow what too small a row does, *)
(* and MutexOwners that two tasks may hold one mutex nevertheless.           *)
EXTENDS PosMutex, PosKernelProofs

MutexClass == SemaphoreClass /\ ~SharedHandle

Yields(p) == InYield(p) \/ p = "resumed"
Creates(p) == p \in {"mx_publish", "mx_reset"}

Row(id) == {locks_pid[id][i] : i \in 1 .. Len(locks_pid[id])}
Sleepers(id) == {t \in Task : asks[t] = id /\ status[t] = "SEM_WAITING"}

ClientTypes ==
    /\ locks_map \in SUBSET Mutex /\ locks \in SUBSET Mutex
    /\ locks_pid \in [Mutex -> Seq(Task)]
    /\ made \in [Task -> Mutex \cup {NoMutex}]
    /\ known \in SUBSET Mutex
    /\ asks \in [Task -> Mutex \cup {NoMutex}]
    /\ holds \in [Task -> SUBSET Mutex]

(* Who asks for a mutex is inside pos_yield, in no semaphore's line, and     *)
(* does not hold it.                                                         *)
AsksFit ==
    \A t \in Task :
        /\ asks[t] # NoMutex => Yields(pc[t]) /\ asks[t] \in known \ holds[t]
        /\ \A s \in Sem : t \in Waiting(s) => asks[t] = NoMutex

(* The mutex of a pos_mutex_create under way is nobody else's.               *)
MadeFit ==
    /\ known \subseteq locks_map
    /\ \A t \in Task : made[t] # NoMutex <=> Creates(pc[t])
    /\ \A t \in Task : made[t] # NoMutex => made[t] \in locks_map \ known
    /\ \A t, u \in Task : made[t] # NoMutex /\ made[t] = made[u] => t = u

RowsFit == \A id \in Mutex : EachOnce(locks_pid[id]) /\ Row(id) = Sleepers(id)

ClientInv == ClientTypes /\ AsksFit /\ MadeFit /\ RowsFit /\ NobodyStranded

MutexInv == SemaphoreInv /\ ClientInv

-----------------------------------------------------------------------------
(* The steps of the kernel.                                                  *)

(* The types that every step below needs.                                    *)
LEMMA KernelTypes ==
    ASSUME SemaphoreInv
    PROVE  /\ status \in [Task -> Status] /\ pc \in [Task -> Pc] /\ cte \in Task
           /\ ring \in SUBSET Task /\ ktick \in BOOLEAN /\ is_sleep_mode \in BOOLEAN
           /\ fault \in Fault
           /\ \A s \in Sem : Waiting(s) \subseteq Task
  BY WaitingTasks
     DEF SemaphoreInv, RoundRobinInv, TypeInv, TypeOK, SchedulerTypeOK

(* A step of the kernel takes nobody into pos_mutex_create or out of it, and *)
(* leaves pos_yield by its end only.                                         *)
LEMMA KernelMoves ==
    ASSUME SemaphoreClass, SemaphoreInv, Next
    PROVE  \A t \in Task :
               /\ Creates(pc'[t]) <=> Creates(pc[t])
               /\ Yields(pc[t]) /\ ~Yields(pc'[t]) => pc[t] = "resumed" /\ pc'[t] = "run"
<1>0. /\ pc \in [Task -> Pc] /\ TypeInv /\ NoTimedWaits
  BY KernelTypes DEF SemaphoreInv, RoundRobinInv, LineInv
<1> USE DEF Creates, Yields, InYield
<1>1. ASSUME NEW u \in Task, Yielding(u)
      PROVE  \A t \in Task :
                 /\ Creates(pc'[t]) <=> Creates(pc[t])
                 /\ Yields(pc[t]) /\ ~Yields(pc'[t]) => pc[t] = "resumed" /\ pc'[t] = "run"
  <2>1. CASE EnterSvc(u) \/ SleepCpu(u) \/ WakeCpu(u)
    BY <1>0, <2>1 DEF EnterSvc, SleepCpu, WakeCpu, AfterWake, Goto, At
  <2>2. CASE ReturnFromYield(u, "run")
    BY <1>0, <2>2 DEF ReturnFromYield, Goto, At
  <2>3. frame[u].sem = NoSem
    BY <1>0 DEF NoTimedWaits
  <2> QED BY <1>1, <2>1, <2>2, <2>3 DEF Yielding
<1>2. ASSUME NEW u \in Task, Call(u)
      PROVE  \A t \in Task :
                 /\ Creates(pc'[t]) <=> Creates(pc[t])
                 /\ Yields(pc[t]) /\ ~Yields(pc'[t]) => pc[t] = "resumed" /\ pc'[t] = "run"
  <2>1. pc[u] = "run" /\ (pc' = pc \/ Goto(u, "run") \/ Goto(u, "yield") \/ Goto(u, "done"))
    BY <1>2 DEF Call, SemWait, SemSignal, WaitUntil, DelayMs, TaskFinish, GoOn, BeginYield, At
  <2> QED BY <1>0, <2>1 DEF Goto
<1>3. CASE SysTick \/ Isr \/ SwitchContext \/ Halted
  BY <1>3 DEF SysTick, Isr, IsrSignal, SwitchContext, PendSV, Halted, vars, cpuVars
<1>4. ASSUME NEW t \in Task, WaitUntilTail(t) PROVE FALSE
  BY <1>0, <1>4, NoTail
<1> QED BY <1>1, <1>2, <1>3, <1>4 DEF Next

(* The semaphores wake nobody who asks for a mutex and let none of them in.  *)
LEMMA EffectSparesAskers ==
    ASSUME MutexInv, Effect
    PROVE  /\ \A t \in Task : asks[t] # NoMutex =>
                  (status'[t] = "SEM_WAITING" <=> status[t] = "SEM_WAITING")
           /\ \A s \in Sem : \A t \in Waiting(s)' : asks[t] = NoMutex
<1>0. TypeInv /\ SemaphoreInv /\ AsksFit /\ status \in [Task -> Status]
      /\ sem_q \in [Sem -> Seq(Task)] /\ cte \in Task
      /\ \A s \in Sem : Waiting(s) \subseteq Task
  BY KernelTypes DEF MutexInv, ClientInv, SemaphoreInv, RoundRobinInv, TypeInv, TypeOK,
     SemaphoreTypeOK
<1>1. \A s \in Sem : \A t \in Waiting(s) : asks[t] = NoMutex
  BY <1>0 DEF AsksFit
<1>2. CASE Quiet
  <2>1. \A s \in Sem : Waiting(s)' = Waiting(s)
    BY <1>2 DEF Quiet, semVars, Waiting
  <2> QED BY <1>1, <1>2, <2>1 DEF Quiet, SameSleepers
<1>3. ASSUME NEW s \in Sem, Took(s)
      PROVE  /\ UNCHANGED status
             /\ \A r \in Sem : \A t \in Waiting(r)' : asks[t] = NoMutex
  BY <1>1, <1>3, TookLines DEF Took
<1>4. ASSUME NEW s \in Sem, Joined(s)
      PROVE  /\ \A t \in Task : asks[t] # NoMutex => status'[t] = status[t]
             /\ \A r \in Sem : \A t \in Waiting(r)' : asks[t] = NoMutex
  <2>1. asks[cte] = NoMutex
    BY <1>0, <1>4 DEF Joined, AsksFit, Yields, InYield
  <2>2. \A r \in Sem : Waiting(r)' \subseteq Waiting(r) \cup {cte}
    BY <1>0, <1>4, JoinedLines
  <2> QED BY <1>0, <1>1, <1>4, <2>1, <2>2 DEF Joined
<1>5. ASSUME NEW s \in Sem, Gave(s)
      PROVE  /\ \A t \in Task : asks[t] # NoMutex =>
                    (status'[t] = "SEM_WAITING" <=> status[t] = "SEM_WAITING")
             /\ \A r \in Sem : \A t \in Waiting(r)' : asks[t] = NoMutex
  <2>1. \A r \in Sem : Waiting(r)' \subseteq Waiting(r)
    BY <1>0, <1>5, GaveLines
  <2>2. CASE OnlyWakes({})
    BY <1>1, <2>1, <2>2 DEF OnlyWakes, Asleep, Blocked
  <2>3. CASE sem_q[s] # <<>> /\ OnlyWakes({Head(sem_q[s])})
    <3> DEFINE q == sem_q[s]
               h == Head(q)
    <3>1. q \in Seq(Task) /\ q # <<>>
      BY <1>0, <2>3
    <3>2. h = q[1] /\ 1 \in 1 .. Len(q)
      <4> HIDE DEF q
      <4> QED BY <3>1, HeadTailProperties, EmptySeq
    <3>3. h \in Waiting(s)
      BY <3>2 DEF Waiting
    <3> HIDE DEF h
    <3> QED BY <1>0, <1>1, <2>1, <2>3, <3>3 DEF h, OnlyWakes, Asleep, Blocked
  <2> QED BY <1>0, <1>5, <2>2, <2>3, GaveEffect
<1> QED BY <1>2, <1>3, <1>4, <1>5 DEF Effect

(* The same for the rows: what the clients need of a kernel step.            *)
LEMMA ClientsKept ==
    ASSUME ClientInv, UNCHANGED <<mutexVars, clientVars>>,
           \A t \in Task : asks[t] # NoMutex =>
               /\ status'[t] = "SEM_WAITING" <=> status[t] = "SEM_WAITING"
               /\ Yields(pc'[t]),
           \A t \in Task : Creates(pc'[t]) <=> Creates(pc[t]),
           \A s \in Sem : \A t \in Waiting(s)' : asks[t] = NoMutex
    PROVE  ClientInv'
<1> USE DEF ClientInv, mutexVars, clientVars
<1>1. ClientTypes'
  BY DEF ClientTypes
<1>2. AsksFit' /\ MadeFit'
  BY DEF AsksFit, MadeFit
<1>3. \A id \in Mutex : Sleepers(id)' = Sleepers(id) /\ Row(id)' = Row(id)
  BY MutexAssumption DEF Sleepers, Row
<1>4. RowsFit'
  BY <1>3 DEF RowsFit
<1>5. NobodyStranded'
  BY MutexAssumption DEF NobodyStranded, Holders
<1> QED BY <1>1, <1>2, <1>4, <1>5

(* No step of the kernel disturbs the mutexes.                               *)
LEMMA KernelStepKeeps ==
    ASSUME MutexClass, MutexInv, KernelStep
    PROVE  MutexInv'
<1>1. SemaphoreClass /\ SemaphoreInv /\ ClientInv /\ Next
  BY DEF MutexClass, MutexInv, KernelStep
<1>2. SemaphoreInv' /\ Effect
  BY <1>1, SemaphoreInvStep, StepEffect
<1>3. \A t \in Task : asks[t] # NoMutex => Yields(pc'[t])
  BY <1>1, KernelMoves DEF KernelStep, ClientInv, AsksFit
<1>4. ClientInv'
  <2>1. UNCHANGED <<mutexVars, clientVars>>
    BY DEF KernelStep
  <2>2. \A t \in Task : Creates(pc'[t]) <=> Creates(pc[t])
    BY <1>1, KernelMoves
  <2> QED BY <1>1, <1>2, <1>3, <2>1, <2>2, EffectSparesAskers, ClientsKept
<1> QED BY <1>2, <1>4 DEF MutexInv

-----------------------------------------------------------------------------
(* The steps of pos_mutex_create, _free, _acquire and _release.              *)

(* The lowest free bit is a free one.                                        *)
LEMMA FreeBitIsFree ==
    ASSUME Free # {}
    PROVE  FreeBit \in Mutex /\ FreeBit \notin locks_map
<1>1. Free \in SUBSET Nat
  BY MutexAssumption DEF Free, Mutex
<1>2. FreeBit \in Free
  BY <1>1, LeastNumber DEF FreeBit
<1> QED BY <1>2 DEF Free

(* Whoever executes its own code asks for nothing and is not asleep.         *)
LEMMA RunnerIsFree ==
    ASSUME MutexInv, NEW t \in Task, NEW p, At(t, p), ~InYield(p)
    PROVE  /\ cte = t /\ pc[t] = p /\ fault = "none" /\ status[t] # "SEM_WAITING"
           /\ \A s \in Sem : t \notin Waiting(s)
           /\ p # "resumed" => asks[t] = NoMutex
<1>1. RoundRobinInv /\ AsksFit /\ WaitersSleep
  BY DEF MutexInv, SemaphoreInv, ClientInv, LineInv
<1>2. ~pendsv /\ cte = t /\ psp = t /\ pc[t] = p
  BY <1>1, Executing
<1>3. status[t] # "SEM_WAITING"
  BY <1>1, <1>2 DEF RoundRobinInv, SwitchInv, BlockedInYield, Blocked
<1> QED BY <1>1, <1>2, <1>3 DEF AsksFit, Yields, WaitersSleep, At

(* pos_mutex_create keeps the invariant: its bit is nobody's.                *)
LEMMA CreateKeeps ==
    ASSUME MutexInv, NEW t \in Task, CreateMutex(t)
    PROVE  MutexInv'
<1> USE DEF MutexInv, ClientInv, ClientTypes
<1>1. At(t, "run") /\ Goto(t, "mx_publish") /\ Free # {}
      /\ UNCHANGED <<schedVars, pendsv, psp, event, ktick, fault, semVars, delays, frame>>
  BY DEF CreateMutex, GoOn
<1>2. SemaphoreInv'
  <2>1. is_sleep_mode \in BOOLEAN /\ ktick \in BOOLEAN /\ fault \in Fault
    BY KernelTypes
  <2> QED BY <1>1, <2>1, MoveOnKeeps DEF InYield, schedVars, globals
<1>3. pc[t] = "run" /\ asks[t] = NoMutex /\ pc' = [pc EXCEPT ![t] = "mx_publish"]
      /\ pc \in [Task -> Pc]
  BY <1>1, RunnerIsFree, KernelTypes DEF InYield, Goto
<1>4. PICK id \in Mutex : id = FreeBit /\ id \notin locks_map
  BY <1>1, FreeBitIsFree
<1>5. /\ locks_map' = locks_map \cup {id} /\ locks' = locks \ {id}
      /\ made' = [made EXCEPT ![t] = id]
      /\ UNCHANGED <<locks_pid, known, asks, holds, status, sem_q>>
  BY <1>1, <1>4 DEF CreateMutex, schedVars, semVars
<1>6. ClientTypes'
  BY <1>5
<1>7. AsksFit'
  <2>1. \A s \in Sem : Waiting(s)' = Waiting(s)
    BY <1>5 DEF Waiting
  <2> QED BY <1>3, <1>5, <2>1 DEF AsksFit, Yields, InYield
<1>8. MadeFit'
  <2>1. \A u \in Task : u # t => made'[u] = made[u] /\ pc'[u] = pc[u]
    BY <1>3, <1>5
  <2>2. made'[t] = id /\ id # NoMutex /\ pc'[t] = "mx_publish"
    BY <1>3, <1>5, MutexAssumption
  <2>3. MadeFit
    OBVIOUS
  <2> HIDE DEF MutexInv, ClientInv, ClientTypes
  <2>4. known' \subseteq locks_map' /\ id \in locks_map' \ known'
    BY <1>4, <1>5, <2>3 DEF MadeFit
  <2>5. ASSUME NEW u \in Task
        PROVE  /\ made'[u] # NoMutex <=> pc'[u] \in {"mx_publish", "mx_reset"}
               /\ made'[u] # NoMutex => made'[u] \in locks_map' \ known'
               /\ u # t => made'[u] # id
    <3>1. CASE u = t
      BY <2>2, <2>4, <3>1
    <3>2. CASE u # t
      <4>1. /\ made[u] # NoMutex <=> pc[u] \in {"mx_publish", "mx_reset"}
            /\ made[u] # NoMutex => made[u] \in locks_map \ known
        BY <2>3 DEF MadeFit, Creates
      <4>2. made'[u] = made[u] /\ pc'[u] = pc[u]
        BY <2>1, <3>2
      <4>3. made[u] # NoMutex => made[u] \in locks_map' \ known' /\ made[u] # id
        BY <1>4, <1>5, <4>1
      <4>4. NoMutex # id
        BY <2>2
      <4> QED BY <4>1, <4>2, <4>3, <4>4
    <3> QED BY <3>1, <3>2
  <2>6. \A u, v \in Task : made'[u] # NoMutex /\ made'[u] = made'[v] => u = v
    BY <2>1, <2>2, <2>3, <2>5 DEF MadeFit
  <2> QED BY <2>4, <2>5, <2>6 DEF MadeFit, Creates
<1>9. RowsFit' /\ NobodyStranded'
  <2>1. \A i \in Mutex : Row(i)' = Row(i) /\ Sleepers(i)' = Sleepers(i)
                           /\ Holders(i)' = Holders(i)
    BY <1>5 DEF Row, Sleepers, Holders
  <2> QED BY <1>5, <2>1 DEF RowsFit, NobodyStranded
<1> QED BY <1>2, <1>6, <1>7, <1>8, <1>9

(* So does its return, which publishes the handle ...                        *)
LEMMA PublishKeeps ==
    ASSUME ~SharedHandle, MutexInv, NEW t \in Task, PublishMutex(t)
    PROVE  MutexInv'
<1> USE DEF MutexInv, ClientInv, ClientTypes
<1>1. At(t, "mx_publish") /\ Goto(t, "mx_reset")
      /\ UNCHANGED <<schedVars, pendsv, psp, event, ktick, fault, semVars, delays, frame>>
      /\ UNCHANGED <<mutexVars, clientVars>>
  BY DEF PublishMutex, GoOn, clientVars
<1>2. SemaphoreInv'
  <2>1. is_sleep_mode \in BOOLEAN /\ ktick \in BOOLEAN /\ fault \in Fault
    BY KernelTypes
  <2> QED BY <1>1, <2>1, MoveOnKeeps DEF InYield, schedVars, globals
<1>3. pc[t] = "mx_publish" /\ asks[t] = NoMutex /\ pc' = [pc EXCEPT ![t] = "mx_reset"]
      /\ pc \in [Task -> Pc]
  BY <1>1, RunnerIsFree, KernelTypes DEF InYield, Goto
<1>4. ClientInv'
  <2>1. UNCHANGED <<status, sem_q>>
    BY <1>1 DEF schedVars, semVars
  <2>2. \A u \in Task : asks[u] # NoMutex => Yields(pc'[u])
    BY <1>3 DEF AsksFit, Yields
  <2>3. \A u \in Task : Creates(pc'[u]) <=> Creates(pc[u])
    BY <1>3 DEF Creates
  <2>4. \A s \in Sem : \A u \in Waiting(s)' : asks[u] = NoMutex
    <3>1. \A s \in Sem : Waiting(s)' = Waiting(s) /\ Waiting(s) \subseteq Task
      BY <2>1, KernelTypes DEF Waiting
    <3> QED BY <3>1 DEF AsksFit
  <2> QED BY <1>1, <2>1, <2>2, <2>3, <2>4, ClientsKept
<1> QED BY <1>2, <1>4

(* ... and empties a row that is empty.                                      *)
LEMMA ResetKeeps ==
    ASSUME MutexInv, NEW t \in Task, ResetMutex(t)
    PROVE  MutexInv'
<1> USE DEF MutexInv, ClientInv, ClientTypes
<1>1. At(t, "mx_reset") /\ Goto(t, "run") /\ ktick' = FALSE
      /\ UNCHANGED <<schedVars, pendsv, psp, event, semVars, delays, frame>>
      /\ (UNCHANGED fault \/ fault' = "out_of_bounds")
  BY DEF ResetMutex
<1>2. SemaphoreInv'
  <2>1. is_sleep_mode \in BOOLEAN /\ fault \in Fault /\ fault' \in Fault
    BY <1>1, KernelTypes DEF Fault
  <2> QED BY <1>1, <2>1, MoveOnKeeps DEF InYield, schedVars, globals
<1>3. pc[t] = "mx_reset" /\ asks[t] = NoMutex /\ pc' = [pc EXCEPT ![t] = "run"]
      /\ pc \in [Task -> Pc]
  BY <1>1, RunnerIsFree, KernelTypes DEF InYield, Goto
<1>4. PICK id \in Mutex : id = made[t] /\ id \in locks_map \ known
  BY <1>3, MutexAssumption DEF MadeFit, Creates
<1>5. /\ made' = [made EXCEPT ![t] = NoMutex] /\ known' = known \cup {id}
      /\ locks_pid' = [locks_pid EXCEPT ![id] = <<>>] \/ UNCHANGED locks_pid
      /\ UNCHANGED <<locks_map, locks, asks, holds, status, sem_q>>
  BY <1>1, <1>4 DEF ResetMutex, schedVars, semVars
<1>6. locks_pid[id] = <<>>
  <2>1. Sleepers(id) = {}
    BY <1>4, MutexAssumption DEF Sleepers, AsksFit
  <2>2. Row(id) = {} /\ locks_pid[id] \in Seq(Task)
    BY <2>1 DEF RowsFit
  <2>3. Len(locks_pid[id]) \in Nat /\ (Len(locks_pid[id]) = 0 => locks_pid[id] = <<>>)
    BY <2>2, EmptySeq, LenProperties
  <2>4. Len(locks_pid[id]) # 0 => 1 \in 1 .. Len(locks_pid[id])
    BY <2>3
  <2> QED BY <2>2, <2>3, <2>4 DEF Row
<1>7. UNCHANGED locks_pid
  BY <1>5, <1>6
<1>8. ClientTypes'
  BY <1>5, <1>7
<1>9. AsksFit'
  <2>1. \A s \in Sem : Waiting(s)' = Waiting(s)
    BY <1>5 DEF Waiting
  <2> QED BY <1>3, <1>5, <2>1 DEF AsksFit, Yields, InYield
<1>10. MadeFit'
  <2>1. \A u \in Task : u # t => made'[u] = made[u] /\ pc'[u] = pc[u]
    BY <1>3, <1>5
  <2>2. made'[t] = NoMutex /\ pc'[t] = "run" /\ made[t] # NoMutex
    BY <1>3, <1>4, <1>5, MutexAssumption
  <2>3. \A u \in Task : u # t => made[u] # id
    BY <1>4, <2>2 DEF MadeFit
  <2> QED BY <1>4, <1>5, <2>1, <2>2, <2>3 DEF MadeFit, Creates
<1>11. RowsFit' /\ NobodyStranded'
  <2>1. \A i \in Mutex : Row(i)' = Row(i) /\ Sleepers(i)' = Sleepers(i)
                           /\ Holders(i)' = Holders(i)
    BY <1>5, <1>7 DEF Row, Sleepers, Holders
  <2> QED BY <1>5, <1>7, <2>1 DEF RowsFit, NobodyStranded
<1> QED BY <1>2, <1>8, <1>9, <1>10, <1>11

(* pos_mutex_free takes away what nobody holds or waits for.                 *)
LEMMA FreeKeeps ==
    ASSUME SemaphoreClass, MutexInv, NEW t \in Task, NEW id \in known, FreeMutex(t, id)
    PROVE  MutexInv'
<1> USE DEF MutexInv, ClientInv, ClientTypes
<1>1. /\ \A u \in Task : asks[u] # id
      /\ known' = known \ {id} /\ locks_map' = locks_map \ {id}
      /\ UNCHANGED <<vars, locks, locks_pid, made, asks, holds>>
  BY DEF FreeMutex
<1>2. SemaphoreInv'
  BY <1>1, SemaphoreInvStep
<1>3. UNCHANGED <<status, pc, sem_q>>
  BY <1>1 DEF vars, schedVars, cpuVars, semVars
<1>4. ClientTypes' /\ MadeFit'
  BY <1>1, <1>3 DEF MadeFit
<1>5. AsksFit'
  <2>1. \A s \in Sem : Waiting(s)' = Waiting(s)
    BY <1>3 DEF Waiting
  <2> QED BY <1>1, <1>3, <2>1 DEF AsksFit
<1>6. RowsFit' /\ NobodyStranded'
  <2>1. \A i \in Mutex : Row(i)' = Row(i) /\ Sleepers(i)' = Sleepers(i)
                           /\ Holders(i)' = Holders(i)
    BY <1>1, <1>3 DEF Row, Sleepers, Holders
  <2> QED BY <1>1, <1>3, <2>1 DEF RowsFit, NobodyStranded
<1> QED BY <1>2, <1>4, <1>5, <1>6

(* A task that slept for a mutex returns holding it.                         *)
LEMMA ReturnKeeps ==
    ASSUME MutexInv, NEW t \in Task, ReturnHolding(t)
    PROVE  MutexInv'
<1> USE DEF MutexInv, ClientInv, ClientTypes
<1>1. At(t, "resumed") /\ Goto(t, "run") /\ asks[t] # NoMutex
      /\ is_sleep_mode' = FALSE /\ ktick' = (ktick /\ "run" # "run")
      /\ UNCHANGED <<ring, status, globals, elapsed_ticks, os_mode, psp, event, fault>>
      /\ UNCHANGED <<semVars, delays, frame>>
  BY DEF ReturnHolding, ReturnFromYield, globals
<1>2. SemaphoreInv'
  <2>1. fault \in Fault /\ ktick' \in BOOLEAN
    BY <1>1, KernelTypes
  <2> QED BY <1>1, <2>1, MoveOnKeeps DEF InYield
<1>3. pc[t] = "resumed" /\ pc' = [pc EXCEPT ![t] = "run"] /\ pc \in [Task -> Pc]
      /\ status[t] # "SEM_WAITING" /\ \A s \in Sem : t \notin Waiting(s)
  BY <1>1, RunnerIsFree, KernelTypes DEF InYield, Goto
<1>4. PICK id \in Mutex : id = asks[t]
  BY <1>1
<1>5. /\ holds' = [holds EXCEPT ![t] = @ \cup {id}]
      /\ asks' = [asks EXCEPT ![t] = NoMutex]
      /\ UNCHANGED <<locks_map, locks, locks_pid, made, known, status, sem_q>>
  BY <1>1, <1>4 DEF ReturnHolding, mutexVars, semVars
<1>6. ClientTypes'
  BY <1>5
<1>7. \A u \in Task : u # t => holds'[u] = holds[u] /\ asks'[u] = asks[u] /\ pc'[u] = pc[u]
  BY <1>3, <1>5
<1>8. holds'[t] = holds[t] \cup {id} /\ asks'[t] = NoMutex /\ id # NoMutex
  BY <1>5, MutexAssumption
<1>9. AsksFit'
  <2>1. \A s \in Sem : Waiting(s)' = Waiting(s) /\ Waiting(s) \subseteq Task
    BY <1>5, KernelTypes DEF Waiting
  <2> QED BY <1>5, <1>7, <1>8, <2>1 DEF AsksFit
<1>10. MadeFit'
  BY <1>3, <1>5 DEF MadeFit, Creates
<1>11. RowsFit'
  <2>1. \A i \in Mutex : Row(i)' = Row(i) /\ Sleepers(i)' = Sleepers(i)
    BY <1>3, <1>5, <1>7, <1>8, MutexAssumption DEF Row, Sleepers
  <2> QED BY <1>5, <2>1 DEF RowsFit
<1>12. NobodyStranded'
  <2>1. \A i \in Mutex : Holders(i) # {} => Holders(i)' # {}
    BY <1>7, <1>8 DEF Holders
  <2>2. ASSUME NEW i \in Mutex, NEW u \in Task,
               i \in holds[u] \/ (asks[u] = i /\ status[u] # "SEM_WAITING")
        PROVE  i \in holds'[u] \/ (asks'[u] = i /\ status'[u] # "SEM_WAITING")
    BY <1>4, <1>5, <1>7, <1>8, <2>2
  <2> QED BY <1>5, <2>1, <2>2 DEF NobodyStranded
<1> QED BY <1>2, <1>6, <1>9, <1>10, <1>11, <1>12

(* pos_mutex_acquire of a mutex that is free.                                *)
LEMMA TakeKeeps ==
    ASSUME MutexInv, NEW t \in Task, NEW id \in known, Acquire(t, id), id \notin locks
    PROVE  MutexInv'
<1> USE DEF MutexInv, ClientInv, ClientTypes
<1>1. /\ At(t, "run") /\ Goto(t, "run")
      /\ UNCHANGED <<schedVars, pendsv, psp, event, ktick, fault, semVars, delays, frame>>
      /\ locks' = locks \cup {id} /\ holds' = [holds EXCEPT ![t] = @ \cup {id}]
      /\ UNCHANGED <<locks_map, locks_pid, made, known, asks>>
  BY DEF Acquire, GoOn
<1>2. SemaphoreInv'
  <2>1. is_sleep_mode \in BOOLEAN /\ ktick \in BOOLEAN /\ fault \in Fault
    BY KernelTypes
  <2> QED BY <1>1, <2>1, MoveOnKeeps DEF InYield, schedVars, globals
<1>3. pc[t] = "run" /\ asks[t] = NoMutex /\ pc' = pc /\ UNCHANGED <<status, sem_q>>
  BY <1>1, RunnerIsFree, KernelTypes DEF InYield, Goto, schedVars, semVars
<1>4. ClientTypes' /\ MadeFit'
  BY <1>1, <1>3 DEF MadeFit
<1>5. holds'[t] = holds[t] \cup {id} /\ \A u \in Task : u # t => holds'[u] = holds[u]
  BY <1>1
<1>6. AsksFit'
  <2>1. \A s \in Sem : Waiting(s)' = Waiting(s)
    BY <1>3 DEF Waiting
  <2> QED BY <1>1, <1>3, <1>5, <2>1 DEF AsksFit
<1>7. RowsFit'
  <2>1. \A i \in Mutex : Row(i)' = Row(i) /\ Sleepers(i)' = Sleepers(i)
    BY <1>1, <1>3 DEF Row, Sleepers
  <2> QED BY <1>1, <2>1 DEF RowsFit
<1>8. NobodyStranded'
  <2>1. id \in holds'[t] /\ \A u \in Task : holds[u] \subseteq holds'[u]
    BY <1>5
  <2>2. \A i \in Mutex : Holders(i) \subseteq Holders(i)'
    BY <2>1 DEF Holders
  <2>3. t \in Holders(id)'
    BY <2>1 DEF Holders
  <2> QED BY <1>1, <1>3, <2>1, <2>2, <2>3 DEF NobodyStranded
<1> QED BY <1>2, <1>4, <1>6, <1>7, <1>8

(* The scheduler's side of falling asleep for a mutex.                       *)
LEMMA SleepKeeps ==
    ASSUME SemaphoreInv, NEW t \in Task, At(t, "run"), BeginYield(t),
           status' = [status EXCEPT ![cte] = "SEM_WAITING"],
           UNCHANGED <<semVars, delays, frame>>
    PROVE  SemaphoreInv'
<1> USE DEF SemaphoreInv, RoundRobinInv, TypeInv, TypeOK
<1>1. SchedulerTypeOK' /\ ActiveIsCurrent'
  BY BeginYieldKeeps
<1>2. SemaphoreTypeOK' /\ DelayTypeOK'
      /\ frame' \in [Task -> [sem : Sem \cup {NoSem}, cnt : Int, q : Seq(Task), walk : Walk]]
  BY DEF semVars, SemaphoreTypeOK, DelayTypeOK
<1>3. FramesOK'
  BY DEF BeginYield, Goto, FramesOK, SchedulerTypeOK
<1>4. SwitchInv'
  <2>1. "SEM_WAITING" \in Blocked
    BY DEF Blocked
  <2> QED BY <2>1, BlockKeeps
<1>5. LineInv'
  <2>1. status \in [Task -> Status]
    BY DEF SchedulerTypeOK
  <2>2. \A s \in Sem : Waiting(s)' = Waiting(s) /\ Waiting(s) \subseteq Task
    BY WaitingTasks DEF semVars, Waiting
  <2>3. WaitersSleep'
    BY <2>1, <2>2 DEF LineInv, WaitersSleep
  <2>4. NoTimedWaits' /\ LinesFit'
    BY <2>2 DEF LineInv, NoTimedWaits, LinesFit, semVars
  <2> QED BY <2>3, <2>4 DEF LineInv
<1>6. HighFits'
  BY SameListsKeepHigh DEF BeginYield, Goto, At, SchedulerTypeOK, semVars
<1> QED BY <1>1, <1>2, <1>3, <1>4, <1>5, <1>6

(* pos_mutex_acquire of a locked mutex: the caller joins the row.            *)
LEMMA WaitKeeps ==
    ASSUME MutexInv, NEW t \in Task, NEW id \in known, Acquire(t, id), id \in locks,
           HasPlace(id)
    PROVE  MutexInv'
<1> USE DEF MutexInv, ClientInv, ClientTypes
<1>1. /\ At(t, "run") /\ BeginYield(t) /\ id \notin holds[t]
      /\ locks_pid' = [locks_pid EXCEPT ![id] = Append(@, cte)]
      /\ status' = [status EXCEPT ![cte] = "SEM_WAITING"]
      /\ asks' = [asks EXCEPT ![t] = id]
      /\ UNCHANGED <<semVars, delays, frame, locks_map, locks, made, known, holds>>
  BY DEF Acquire
<1>2. SemaphoreInv'
  BY <1>1, SleepKeeps
<1>3. /\ pc[t] = "run" /\ asks[t] = NoMutex /\ status[t] # "SEM_WAITING" /\ cte = t
      /\ pc' = [pc EXCEPT ![t] = "yield"] /\ pc \in [Task -> Pc]
      /\ status \in [Task -> Status]
      /\ \A s \in Sem : t \notin Waiting(s)
  <2>1. ~InYield("run") /\ "run" # "resumed"
    BY DEF InYield
  <2>2. pc' = [pc EXCEPT ![t] = "yield"]
    BY <1>1 DEF BeginYield, Goto
  <2>3. SemaphoreInv
    OBVIOUS
  <2> HIDE DEF MutexInv, ClientInv, ClientTypes
  <2> QED BY <1>1, <2>1, <2>2, <2>3, RunnerIsFree, KernelTypes
<1>4. /\ asks'[t] = id /\ status'[t] = "SEM_WAITING" /\ pc'[t] = "yield"
      /\ \A u \in Task : u # t => asks'[u] = asks[u] /\ status'[u] = status[u]
                                  /\ pc'[u] = pc[u]
  BY <1>1, <1>3
<1>5. \A i \in Mutex : locks_pid'[i] = IF i = id THEN Append(locks_pid[id], t)
                                                 ELSE locks_pid[i]
  BY <1>1, <1>3
<1>6. ClientTypes'
  <2>1. Append(locks_pid[id], t) \in Seq(Task)
    BY AppendProperties
  <2> QED BY <1>1, <1>3, <2>1
<1>7. AsksFit'
  <2>1. \A s \in Sem : Waiting(s)' = Waiting(s)
    BY <1>1 DEF Waiting, semVars
  <2> QED BY <1>1, <1>3, <1>4, <2>1 DEF AsksFit, Yields, InYield
<1>8. MadeFit'
  BY <1>1, <1>3, <1>4 DEF MadeFit, Creates
<1>9. RowsFit'
  <2>1. \A i \in Mutex : Sleepers(i)' = IF i = id THEN Sleepers(i) \cup {t} ELSE Sleepers(i)
    BY <1>3, <1>4, MutexAssumption DEF Sleepers
  <2>2. \A i \in 1 .. Len(locks_pid[id]) : locks_pid[id][i] # t
    BY <1>3, MutexAssumption DEF RowsFit, Row, Sleepers
  <2>3. EachOnce(locks_pid[id]) /\ locks_pid[id] \in Seq(Task)
    BY DEF RowsFit
  <2>4. /\ EachOnce(locks_pid'[id])
        /\ \A u : (\E i \in 1 .. Len(locks_pid'[id]) : locks_pid'[id][i] = u)
                  <=> u = t \/ \E i \in 1 .. Len(locks_pid[id]) : locks_pid[id][i] = u
    <3> DEFINE q == locks_pid[id]
               r == locks_pid'[id]
    <3>1. r = Append(q, t) /\ EachOnce(q) /\ q \in Seq(Task)
          /\ \A i \in 1 .. Len(q) : q[i] # t
      BY <1>5, <2>2, <2>3
    <3> HIDE DEF q, r
    <3>2. /\ EachOnce(r)
          /\ \A u : (\E i \in 1 .. Len(r) : r[i] = u)
                    <=> u = t \/ \E i \in 1 .. Len(q) : q[i] = u
      BY <3>1, JoinList
    <3> QED BY <3>2 DEF q, r
  <2>5. Row(id)' = Row(id) \cup {t}
    <3>1. \A u : u \in Row(id)' <=> \E i \in 1 .. Len(locks_pid'[id]) : locks_pid'[id][i] = u
      BY DEF Row
    <3>2. \A u : u \in Row(id) <=> \E i \in 1 .. Len(locks_pid[id]) : locks_pid[id][i] = u
      BY DEF Row
    <3>3. \A u : u \in Row(id)' <=> u = t \/ u \in Row(id)
      BY <2>4, <3>1, <3>2
    <3> QED BY <3>3
  <2>6. \A i \in Mutex \ {id} : Row(i)' = Row(i)
    BY <1>5 DEF Row
  <2> QED BY <1>5, <2>1, <2>4, <2>5, <2>6 DEF RowsFit
<1>10. NobodyStranded'
  <2>1. \A i \in Mutex : Holders(i)' = Holders(i)
    BY <1>1 DEF Holders
  <2>2. PICK u \in Task : id \in holds[u]
    BY DEF NobodyStranded, Holders
  <2>3. \A i \in Mutex, v \in Task :
            asks[v] = i /\ status[v] # "SEM_WAITING" => asks'[v] = i /\ status'[v] # "SEM_WAITING"
    BY <1>3, <1>4, MutexAssumption
  <2>4. ASSUME NEW i \in Mutex, locks_pid'[i] # <<>>
        PROVE  \E v \in Task : \/ i \in holds'[v]
                               \/ asks'[v] = i /\ status'[v] # "SEM_WAITING"
    <3>1. CASE i = id
      BY <1>1, <2>2, <3>1
    <3>2. CASE i # id
      <4>1. locks_pid[i] # <<>>
        BY <1>5, <2>4, <3>2
      <4>2. PICK v \in Task : i \in holds[v] \/ (asks[v] = i /\ status[v] # "SEM_WAITING")
        BY <4>1 DEF NobodyStranded
      <4> QED BY <1>1, <2>3, <4>2
    <3> QED BY <3>1, <3>2
  <2> QED BY <1>1, <2>1, <2>4 DEF NobodyStranded
<1> QED BY <1>2, <1>6, <1>7, <1>8, <1>9, <1>10

(* Without a place in the row, pos_mutex_acquire ends the behaviour.         *)
LEMMA OverflowKeeps ==
    ASSUME MutexInv, NEW t \in Task, NEW id \in known, Acquire(t, id), id \in locks,
           ~HasPlace(id)
    PROVE  MutexInv'
<1>1. /\ At(t, "run") /\ fault' = "out_of_bounds"
      /\ UNCHANGED <<schedVars, cpuVars, semVars, delays, frame>>
      /\ UNCHANGED <<mutexVars, clientVars>>
  BY DEF Acquire, mutexVars, clientVars
<1>2. fault = "none" /\ fault' \in Fault
  BY <1>1 DEF At, Fault
<1>3. SemaphoreInv'
  BY <1>1, <1>2, FaultKeeps DEF MutexInv
<1>4. ClientInv'
  <2>1. UNCHANGED <<status, pc, sem_q>>
    BY <1>1 DEF schedVars, cpuVars, semVars
  <2>2. \A s \in Sem : Waiting(s)' = Waiting(s) /\ Waiting(s) \subseteq Task
    BY <2>1, KernelTypes DEF Waiting, MutexInv
  <2>3. AsksFit
    BY DEF MutexInv, ClientInv
  <2>4. \A s \in Sem : \A u \in Waiting(s)' : asks[u] = NoMutex
    BY <2>2, <2>3 DEF AsksFit
  <2>5. \A u \in Task : asks[u] # NoMutex => Yields(pc'[u])
    BY <2>1, <2>3 DEF AsksFit
  <2> QED BY <1>1, <2>1, <2>4, <2>5, ClientsKept DEF MutexInv
<1> QED BY <1>3, <1>4 DEF MutexInv

(* The scheduler's side of pos_mutex_release: the woken task is in no line   *)
(* of a semaphore.                                                           *)
LEMMA WakeKeeps ==
    ASSUME SemaphoreInv, NEW t \in Task, At(t, "run"),
           UNCHANGED status \/ \E w \in Task : /\ status' = [status EXCEPT ![w] = "IDLE"]
                                              /\ \A s \in Sem : w \notin Waiting(s),
           UNCHANGED <<ring, cte, current_task, next_task, quantum, elapsed_ticks,
                       os_mode, is_sleep_mode, cpuVars, fault, semVars, delays, frame>>
    PROVE  SemaphoreInv'
<1> USE DEF SemaphoreInv, RoundRobinInv, TypeInv, TypeOK
<1>1. /\ status \in [Task -> Status] /\ status' \in [Task -> Status]
      /\ pc \in [Task -> Pc] /\ UNCHANGED <<pendsv, psp, pc, event, ktick>>
  BY DEF SchedulerTypeOK, Status, cpuVars
<1>2. \A u \in Task : status'[u] = status[u] \/ status'[u] = "IDLE"
  BY <1>1
<1>3. SchedulerTypeOK' /\ ActiveIsCurrent'
  BY <1>1, <1>2 DEF SchedulerTypeOK, ActiveIsCurrent
<1>4. SemaphoreTypeOK' /\ DelayTypeOK' /\ FramesOK'
      /\ frame' \in [Task -> [sem : Sem \cup {NoSem}, cnt : Int, q : Seq(Task), walk : Walk]]
  BY <1>1 DEF semVars, SemaphoreTypeOK, DelayTypeOK, FramesOK
<1>5. SwitchInv'
  <2>1. WakesOnly
    BY <1>2 DEF WakesOnly, Blocked
  <2>2. Goto(t, "run") /\ ~InYield("run")
    BY <1>1 DEF Goto, At, InYield
  <2> QED BY <1>1, <2>1, <2>2, ThreadStepKeeps DEF globals
<1>6. LineInv'
  <2>1. \A s \in Sem : Waiting(s)' = Waiting(s) /\ Waiting(s) \subseteq Task
    BY WaitingTasks DEF semVars, Waiting
  <2>2. NoTimedWaits' /\ LinesFit'
    BY <2>1 DEF LineInv, NoTimedWaits, LinesFit, semVars
  <2>3. \A s \in Sem : \A u \in Waiting(s) : status'[u] = status[u]
    BY <1>1, <2>1
  <2>4. WaitersSleep'
    BY <1>2, <2>1, <2>3 DEF LineInv, WaitersSleep
  <2> QED BY <2>2, <2>4 DEF LineInv
<1>7. HighFits'
  BY <1>1, SameListsKeepHigh DEF semVars
<1> QED BY <1>3, <1>4, <1>5, <1>6, <1>7

(* pos_mutex_release keeps the invariant: the task it wakes is the last of   *)
(* the row, leaves it, and will clear the bit it found set.                  *)
LEMMA ReleaseKeeps ==
    ASSUME MutexInv, NEW t \in Task, NEW id \in holds[t], Release(t, id)
    PROVE  MutexInv'
<1> USE DEF MutexInv, ClientInv, ClientTypes
<1>1. /\ At(t, "run") /\ id \in Mutex
      /\ holds' = [holds EXCEPT ![t] = @ \ {id}] /\ locks' = locks \ {id}
      /\ UNCHANGED <<ring, cte, current_task, next_task, quantum, elapsed_ticks,
                     os_mode, is_sleep_mode, cpuVars, fault, semVars, delays, frame>>
      /\ UNCHANGED <<pc, sem_q, locks_map, made, known, asks>>
  BY DEF Release, BitCleared, cpuVars, semVars
<1>2. \A s \in Sem : Waiting(s)' = Waiting(s)
  BY <1>1 DEF Waiting
<1>3. \A u \in Task : holds'[u] \subseteq holds[u] /\ \A i \in Mutex \ {id} : i \in holds[u] => i \in holds'[u]
  BY <1>1
<1>4. AsksFit' /\ MadeFit'
  <2>1. AsksFit'
    BY <1>1, <1>2, <1>3 DEF AsksFit
  <2> QED BY <1>1, <2>1 DEF MadeFit
<1>5. \A i \in Mutex : i \in locks' => Holders(i)' # {}
  BY <1>1, <1>3 DEF NobodyStranded, Holders
<1>6. CASE locks_pid[id] = <<>>
  <2>1. UNCHANGED <<status, locks_pid>>
    BY <1>6 DEF Release
  <2>2. SemaphoreInv'
    BY <1>1, <2>1, WakeKeeps
  <2>3. ClientTypes'
    BY <1>1, <2>1
  <2>4. RowsFit'
    <3>1. \A i \in Mutex : Row(i)' = Row(i) /\ Sleepers(i)' = Sleepers(i)
      BY <1>1, <2>1 DEF Row, Sleepers
    <3> QED BY <2>1, <3>1 DEF RowsFit
  <2>5. NobodyStranded'
    BY <1>1, <1>3, <1>5, <1>6, <2>1 DEF NobodyStranded
  <2> QED BY <1>4, <2>2, <2>3, <2>4, <2>5
<1>7. CASE locks_pid[id] # <<>>
  <2> DEFINE w == AtEnd(locks_pid[id])
             r == Shorter(locks_pid[id])
  <2>1. status' = [status EXCEPT ![w] = "IDLE"] /\ locks_pid' = [locks_pid EXCEPT ![id] = r]
    BY <1>7 DEF Release, LastSleeper, RowPopped, Last, Front, AtEnd, Shorter
  <2>2. /\ r \in Seq(Task) /\ EachOnce(r) /\ w \in Task
        /\ \E i \in 1 .. Len(locks_pid[id]) : locks_pid[id][i] = w
        /\ \A u : (\E i \in 1 .. Len(r) : r[i] = u)
                  <=> u # w /\ \E i \in 1 .. Len(locks_pid[id]) : locks_pid[id][i] = u
    <3>1. EachOnce(locks_pid[id]) /\ locks_pid[id] \in Seq(Task)
      BY <1>1 DEF RowsFit
    <3> QED BY <1>7, <3>1, LeaveEnd
  <2> HIDE DEF w, r
  <2>3. w \in Sleepers(id)
    BY <1>1, <2>2 DEF RowsFit, Row
  <2>4. asks[w] = id /\ id # NoMutex /\ \A s \in Sem : w \notin Waiting(s)
    BY <1>1, <2>3, MutexAssumption DEF Sleepers, AsksFit
  <2>5. SemaphoreInv'
    BY <1>1, <2>1, <2>2, <2>4, WakeKeeps
  <2>6. /\ \A u \in Task : status'[u] = IF u = w THEN "IDLE" ELSE status[u]
        /\ \A i \in Mutex : locks_pid'[i] = IF i = id THEN r ELSE locks_pid[i]
    BY <1>1, <2>1, <2>2, KernelTypes
  <2>7. ClientTypes'
    BY <1>1, <2>1, <2>2
  <2>8. RowsFit'
    <3>1. \A i \in Mutex : Sleepers(i)' = IF i = id THEN Sleepers(i) \ {w} ELSE Sleepers(i)
      BY <1>1, <2>4, <2>6 DEF Sleepers
    <3>2. Row(id)' = Row(id) \ {w}
      <4>1. \A u : u \in Row(id)' <=> \E i \in 1 .. Len(locks_pid'[id]) : locks_pid'[id][i] = u
        BY DEF Row
      <4>2. \A u : u \in Row(id) <=> \E i \in 1 .. Len(locks_pid[id]) : locks_pid[id][i] = u
        BY DEF Row
      <4>3. locks_pid'[id] = r
        BY <1>1, <2>6
      <4>4. \A u : u \in Row(id)' <=> u # w /\ u \in Row(id)
        BY <2>2, <4>1, <4>2, <4>3
      <4> QED BY <4>4
    <3>3. \A i \in Mutex \ {id} : Row(i)' = Row(i)
      BY <2>6 DEF Row
    <3>4. \A i \in Mutex : EachOnce(locks_pid'[i])
      BY <2>2, <2>6 DEF RowsFit
    <3> QED BY <3>1, <3>2, <3>3, <3>4 DEF RowsFit
  <2>9. NobodyStranded'
    <3>1. asks'[w] = id /\ status'[w] # "SEM_WAITING"
      BY <1>1, <2>2, <2>4, <2>6
    <3>2. ASSUME NEW i \in Mutex, locks_pid'[i] # <<>>
          PROVE  \E v \in Task : \/ i \in holds'[v]
                                 \/ asks'[v] = i /\ status'[v] # "SEM_WAITING"
      <4>1. CASE i = id
        BY <2>2, <3>1, <4>1
      <4>2. CASE i # id
        <5>1. locks_pid[i] # <<>>
          BY <2>6, <3>2, <4>2
        <5>2. PICK v \in Task : i \in holds[v] \/ (asks[v] = i /\ status[v] # "SEM_WAITING")
          BY <5>1 DEF NobodyStranded
        <5>3. i \in holds'[v] \/ (asks'[v] = i /\ status'[v] # "SEM_WAITING")
          BY <1>1, <1>3, <2>6, <4>2, <5>2
        <5> QED BY <5>3
      <4> QED BY <4>1, <4>2
    <3> QED BY <1>5, <3>2 DEF NobodyStranded
  <2> QED BY <1>4, <2>5, <2>7, <2>8, <2>9
<1> QED BY <1>6, <1>7

-----------------------------------------------------------------------------
(* Nothing is locked when the scheduler starts.                              *)
LEMMA MutexInvInit == MutexInit => MutexInv
<1> SUFFICES ASSUME MutexInit PROVE MutexInv
  OBVIOUS
<1> USE DEF MutexInit
<1>1. SemaphoreInv
  BY RoundRobinInvInit, LineInvInit DEF SemaphoreInv
<1>2. ClientTypes
  BY DEF ClientTypes
<1>3. AsksFit
  BY <1>1, WaitingTasks DEF AsksFit
<1>4. MadeFit
  BY DEF MadeFit, Creates, Init, SchedulerInit
<1>5. RowsFit
  <2>1. \A i \in Mutex : locks_pid[i] = <<>> /\ Len(locks_pid[i]) = 0
    BY EmptySeq
  <2>2. \A i \in Mutex : Row(i) = {} /\ EachOnce(locks_pid[i])
    BY <2>1 DEF Row, EachOnce
  <2>3. \A i \in Mutex : Sleepers(i) = {}
    BY MutexAssumption DEF Sleepers
  <2> QED BY <2>2, <2>3 DEF RowsFit
<1>6. NobodyStranded
  BY DEF NobodyStranded
<1> QED BY <1>1, <1>2, <1>3, <1>4, <1>5, <1>6 DEF MutexInv, ClientInv

(* Every step keeps the invariant.                                           *)
LEMMA MutexInvStep ==
    ASSUME MutexClass
    PROVE  MutexInv /\ [MutexNext]_allVars => MutexInv'
<1> SUFFICES ASSUME MutexInv, [MutexNext]_allVars PROVE MutexInv'
  OBVIOUS
<1>1. SemaphoreClass /\ ~SharedHandle
  BY DEF MutexClass
<1>2. CASE KernelStep
  BY <1>2, KernelStepKeeps
<1>3. ASSUME NEW t \in Task, MutexStep(t) PROVE MutexInv'
  <2>1. CASE CreateMutex(t) \/ PublishMutex(t) \/ ResetMutex(t) \/ ReturnHolding(t)
    BY <1>1, <2>1, CreateKeeps, PublishKeeps, ResetKeeps, ReturnKeeps
  <2>2. ASSUME NEW id \in known, FreeMutex(t, id) \/ Acquire(t, id) PROVE MutexInv'
    BY <1>1, <2>2, FreeKeeps, TakeKeeps, WaitKeeps, OverflowKeeps
  <2>3. ASSUME NEW id \in holds[t], Release(t, id) PROVE MutexInv'
    BY <2>3, ReleaseKeeps
  <2> QED BY <1>3, <2>1, <2>2, <2>3 DEF MutexStep
<1>4. CASE UNCHANGED allVars
  <2>1. UNCHANGED vars /\ UNCHANGED <<mutexVars, clientVars>>
    BY <1>4 DEF allVars
  <2>2. SemaphoreInv'
    BY <1>1, <2>1, SemaphoreInvStep DEF MutexInv
  <2>3. UNCHANGED <<status, pc, sem_q>>
    BY <2>1 DEF vars, schedVars, cpuVars, semVars
  <2>4. \A s \in Sem : Waiting(s)' = Waiting(s) /\ Waiting(s) \subseteq Task
    BY <2>3, WaitingTasks DEF Waiting, MutexInv
  <2>5. ClientInv'
    BY <2>1, <2>3, <2>4, ClientsKept DEF MutexInv, ClientInv, AsksFit
  <2> QED BY <2>2, <2>5 DEF MutexInv
<1> QED BY <1>2, <1>3, <1>4 DEF MutexNext

(* The invariant holds in every behaviour.                                   *)
LEMMA MutexInvAlways ==
    ASSUME MutexClass
    PROVE  MutexSpec => []MutexInv
<1> QED BY MutexInvInit, MutexInvStep, PTL DEF MutexSpec

(* Types with mutexes: no id a task passes or is given is past the maps.     *)
THEOREM MutexesAreTyped ==
    ASSUME MutexClass
    PROVE  MutexSpec => []MutexTypeOK
<1>1. MutexInv => MutexTypeOK
  BY DEF MutexInv, SemaphoreInv, RoundRobinInv, TypeInv, ClientInv, ClientTypes, MutexTypeOK
<1> QED BY <1>1, MutexInvAlways, PTL

(* pos_mutex_acquire and _release, which fill and empty a row at its end     *)
(* while the tasks change their statuses elsewhere, never leave a sleeper    *)
(* out of its row, nor in it one who is awake or there already.              *)
THEOREM RowsMatchSleepers ==
    ASSUME MutexClass
    PROVE  MutexSpec => []RowMatchesSleepers
<1>1. MutexInv => RowMatchesSleepers
  <2> SUFFICES ASSUME MutexInv, NEW id \in Mutex
               PROVE  Row(id) = Sleepers(id) /\ Cardinality(Row(id)) = Len(locks_pid[id])
    BY DEF RowMatchesSleepers, Row, Sleepers
  <2>1. Row(id) = Sleepers(id) /\ EachOnce(locks_pid[id]) /\ locks_pid[id] \in Seq(Task)
    BY DEF MutexInv, ClientInv, ClientTypes, RowsFit
  <2> QED BY <2>1, EachOnceCounts DEF Row
<1> QED BY <1>1, MutexInvAlways, PTL

(* A sleeper always has somebody whose release will wake it, and a set bit   *)
(* somebody who will clear it: a task that pos_mutex_release woke counts,    *)
(* from before it runs.                                                      *)
THEOREM SleepersHaveWakers ==
    ASSUME MutexClass
    PROVE  MutexSpec => []NobodyStranded
<1>1. MutexInv => NobodyStranded
  BY DEF MutexInv, ClientInv
<1> QED BY <1>1, MutexInvAlways, PTL

-----------------------------------------------------------------------------
(* The tables.                                                               *)

(* What the application has to see to, for no code does: that no more tasks  *)
(* acquire mutexes than MAX_PROCCESS_NUM says, and that MAX_MUTEX_NUM is the *)
(* "Multiple of 32" that pos_config_template.h asks for (and is not).        *)
TablesSuffice ==
    /\ IsFiniteSet(Users) /\ Cardinality(Users) <= MAX_PROCCESS_NUM
    /\ \A id \in Mutex : id < MAX_MUTEX_NUM

(* Only the users of mutexes sleep for one or hold one. *)
OnlyUsers == \A t \in Task : asks[t] # NoMutex \/ holds[t] # {} => t \in Users

PlacesInv == MutexInv /\ OnlyUsers /\ RowFits

(* Whoever finds a mutex locked is a user who neither holds it nor sleeps for *)
(* it, and somebody else holds it: so that the row has a place.              *)
LEMMA PlaceForOne ==
    ASSUME TablesSuffice, MutexInv, OnlyUsers, NEW t \in Users,
           NEW id \in Mutex, id \in locks, id \notin holds[t], t \notin Sleepers(id)
    PROVE  HasPlace(id)
<1>1. /\ Row(id) = Sleepers(id) /\ EachOnce(locks_pid[id]) /\ locks_pid[id] \in Seq(Task)
  BY DEF MutexInv, ClientInv, ClientTypes, RowsFit
<1>2. Cardinality(Row(id)) = Len(locks_pid[id])
  BY <1>1, EachOnceCounts DEF Row
<1>3. PICK h \in Task : id \in holds[h]
  BY DEF MutexInv, ClientInv, NobodyStranded, Holders
<1>4. h # t /\ h \in Users /\ h \notin Sleepers(id)
  BY <1>3, MutexAssumption DEF OnlyUsers, Sleepers, MutexInv, ClientInv, AsksFit
<1>5. Sleepers(id) \subseteq (Users \ {t}) \ {h}
  BY <1>4, MutexAssumption DEF OnlyUsers, Sleepers
<1>6. /\ IsFiniteSet(Users \ {t})
      /\ Cardinality(Users \ {t}) = Cardinality(Users) - 1
      /\ IsFiniteSet((Users \ {t}) \ {h})
      /\ Cardinality((Users \ {t}) \ {h}) = Cardinality(Users \ {t}) - 1
  <2>1. IsFiniteSet(Users)
    BY DEF TablesSuffice
  <2>2. h \in Users \ {t}
    BY <1>4
  <2> QED BY <2>1, <2>2, FS_RemoveElement
<1>7. Cardinality(Row(id)) <= Cardinality((Users \ {t}) \ {h})
  BY <1>1, <1>5, <1>6, FS_Subset
<1>8. Cardinality(Users) \in Nat
  BY FS_CardinalityType DEF TablesSuffice
<1>9. Cardinality(Users) <= MAX_PROCCESS_NUM /\ MAX_PROCCESS_NUM \in Nat
  BY MutexAssumption DEF TablesSuffice
<1>10. Len(locks_pid[id]) \in Nat
  BY <1>1, LenProperties
<1> QED BY <1>2, <1>6, <1>7, <1>8, <1>9, <1>10 DEF HasPlace

(* The kernel's own errors are others.                                       *)
LEMMA KernelStaysInTables ==
    ASSUME Next, RowFits
    PROVE  RowFits'
<1> USE DEF RowFits
<1>1. ASSUME NEW rg, Schedule(rg) PROVE fault' = fault \/ fault' = "hung"
  BY <1>1 DEF Schedule
<1>2. ASSUME NEW t \in Task, Yielding(t) PROVE fault' # "out_of_bounds"
  <2>1. CASE SleepCpu(t)
    BY <1>1, <2>1 DEF SleepCpu
  <2> QED BY <1>2, <2>1 DEF Yielding, EnterSvc, WakeCpu, ReturnFromYield
<1>3. ASSUME NEW t \in Task, WaitUntilTail(t) PROVE fault' # "out_of_bounds"
  <2>1. CASE CheckTimeout(t) \/ BeginWalk(t) \/ LoadCnt(t) \/ StoreCnt(t)
    BY <2>1 DEF CheckTimeout, BeginWalk, LoadCnt, StoreCnt, GoOn
  <2>2. CASE VisitEntry(t) \/ UnlinkEntry(t) \/ ReadQueue(t) \/ UnlinkHead(t)
    BY <2>2 DEF VisitEntry, WalkFault, UnlinkEntry, ReadQueue, UnlinkHead
  <2> QED BY <1>3, <2>1, <2>2 DEF WaitUntilTail
<1>4. ASSUME NEW t \in Task, Call(t) PROVE fault' # "out_of_bounds"
  <2>1. CASE t \in Finishers /\ TaskFinish(t)
    BY <1>1, <2>1 DEF TaskFinish
  <2> QED BY <1>4, <2>1 DEF Call, SemWait, SemSignal, WaitUntil, DelayMs, GoOn, BeginYield
<1>5. CASE SysTick
  <2>1. CASE Schedule(ring)
    BY <1>1, <2>1
  <2>2. CASE DelayTick((elapsed_ticks + 1) % 256)
    BY <2>2 DEF DelayTick
  <2> QED BY <1>5, <2>1, <2>2 DEF SysTick
<1>6. CASE Isr \/ SwitchContext \/ Halted
  BY <1>6 DEF Isr, IsrSignal, SwitchContext, PendSV, Halted, vars
<1> QED BY <1>2, <1>3, <1>4, <1>5, <1>6 DEF Next

(* Every step keeps the writes in the tables.                                *)
LEMMA PlacesInvStep ==
    ASSUME MutexClass, TablesSuffice, PlacesInv, [MutexNext]_allVars
    PROVE  PlacesInv'
<1> USE DEF PlacesInv
<1>1. MutexInv'
  BY MutexInvStep
<1>2. ClientTypes
  BY DEF MutexInv, ClientInv
<1>3. CASE KernelStep
  <2>1. UNCHANGED <<asks, holds>>
    BY <1>3 DEF KernelStep, clientVars
  <2>2. RowFits'
    BY <1>3, KernelStaysInTables DEF KernelStep
  <2> QED BY <1>1, <2>1, <2>2 DEF OnlyUsers
<1>4. CASE UNCHANGED allVars
  <2>1. UNCHANGED <<asks, holds, fault>>
    BY <1>4 DEF allVars, clientVars, vars
  <2> QED BY <1>1, <2>1 DEF OnlyUsers, RowFits
<1>5. ASSUME NEW t \in Task, MutexStep(t)
      PROVE  OnlyUsers' /\ RowFits'
  <2>1. CASE CreateMutex(t) \/ PublishMutex(t)
    BY <2>1 DEF CreateMutex, PublishMutex, GoOn, OnlyUsers, RowFits
  <2>2. CASE ResetMutex(t)
    <3>1. made[t] \in Mutex
      <4>1. At(t, "mx_reset") /\ MadeFit
        BY <2>2 DEF ResetMutex, MutexInv, ClientInv
      <4> QED BY <1>2, <4>1 DEF At, MadeFit, Creates, ClientTypes
    <3>2. made[t] < MAX_MUTEX_NUM
      BY <3>1 DEF TablesSuffice
    <3> QED BY <2>2, <3>2 DEF ResetMutex, OnlyUsers, RowFits
  <2>3. CASE ReturnHolding(t)
    <3>1. /\ asks[t] # NoMutex /\ UNCHANGED fault
          /\ holds' = [holds EXCEPT ![t] = @ \cup {asks[t]}]
          /\ asks' = [asks EXCEPT ![t] = NoMutex]
      BY <2>3 DEF ReturnHolding, ReturnFromYield
    <3>2. t \in Users
      BY <3>1 DEF OnlyUsers
    <3> QED BY <1>2, <3>1, <3>2 DEF OnlyUsers, RowFits, ClientTypes
  <2>4. ASSUME NEW id \in known, FreeMutex(t, id) PROVE OnlyUsers' /\ RowFits'
    BY <2>4 DEF FreeMutex, OnlyUsers, RowFits, vars
  <2>5. ASSUME NEW id \in known, Acquire(t, id) PROVE OnlyUsers' /\ RowFits'
    <3>1. /\ t \in Users /\ id \in Mutex /\ id \notin holds[t] /\ At(t, "run")
      BY <1>2, <2>5 DEF Acquire, ClientTypes
    <3>2. t \notin Sleepers(id)
      BY <3>1, RunnerIsFree DEF Sleepers, InYield
    <3>3. id \in locks => HasPlace(id)
      BY <3>1, <3>2, PlaceForOne
    <3>4. /\ UNCHANGED fault
          /\ \/ asks' = asks /\ holds' = [holds EXCEPT ![t] = @ \cup {id}]
             \/ asks' = [asks EXCEPT ![t] = id] /\ holds' = holds
      BY <2>5, <3>3 DEF Acquire, GoOn, BeginYield
    <3> QED BY <1>2, <3>1, <3>4 DEF OnlyUsers, RowFits, ClientTypes
  <2>6. ASSUME NEW id \in holds[t], Release(t, id) PROVE OnlyUsers' /\ RowFits'
    <3>1. UNCHANGED <<asks, fault>> /\ holds' = [holds EXCEPT ![t] = @ \ {id}]
      BY <2>6 DEF Release
    <3> QED BY <1>2, <3>1 DEF OnlyUsers, RowFits, ClientTypes
  <2> QED BY <1>5, <2>1, <2>2, <2>3, <2>4, <2>5, <2>6 DEF MutexStep
<1> QED BY <1>1, <1>3, <1>4, <1>5 DEF MutexNext

(* The index pos_mutex_acquire does not check stays inside the row, and that *)
(* of pos_mutex_create inside the table, as long as the configuration        *)
(* suffices: the row of a user who finds the mutex locked lacks at least it  *)
(* and a holder.  MutexOverflow shows what one user more does.               *)
THEOREM RowsFitTheirPlaces ==
    ASSUME MutexClass, TablesSuffice
    PROVE  MutexSpec => []RowFits
<1>1. MutexInit => PlacesInv
  BY MutexInvInit DEF MutexInit, PlacesInv, OnlyUsers, RowFits, Init, SchedulerInit
<1>2. PlacesInv /\ [MutexNext]_allVars => PlacesInv'
  BY PlacesInvStep
<1>3. PlacesInv => RowFits
  BY DEF PlacesInv
<1> QED BY <1>1, <1>2, <1>3, PTL DEF MutexSpec
=============================================================================
