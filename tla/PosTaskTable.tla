----------------------------- MODULE PosTaskTable -----------------------------
(*****************************************************************************)
(* The circular list of tasks (core/pos_scheduler.c): creation with the      *)
(* search for a PID, the end of a task, and the walks by PID.  Creation and  *)
(* kill are critical sections.  An element is named by the order of its      *)
(* pmalloc; it is never freed.                                               *)
(*****************************************************************************)
EXTENDS Integers, FiniteSets

CONSTANTS
    MaxTasks,       \* bound: tasks created, before the heap is exhausted
    Recreations,    \* bound: of these, tasks created after one has finished
    AsksFinished    \* programs ask for the running time of finished tasks, too

ASSUME TableAssumption ==
    /\ MaxTasks \in Nat \ {0}
    /\ Recreations \in Nat
    /\ AsksFinished \in BOOLEAN

VARIABLES
    pid,            \* task.pid of each element
    next,           \* next_task of each element
    head,           \* tasks_scheduler_head
    tasks_cnt,      \* __tasks_cnt
    current,        \* current_task_element
    created,        \* elements allocated
    late,           \* those allocated after a task had finished
    ended,          \* the elements of tasks that have called pos_task_finish
    hung            \* a walk goes round the list for ever, interrupts masked

tabVars == <<pid, next, head, tasks_cnt, current, created, late, ended, hung>>

Element == 1 .. MaxTasks
NoElement == 0
POS_PID_BASE == 1

-----------------------------------------------------------------------------
(* The n-th element of a walk from the head.                                 *)
WalkFrom(first) ==
    LET at[n \in 1 .. MaxTasks + 1] == IF n = 1 THEN first ELSE next[at[n - 1]]
    IN  at

Linked == IF head = NoElement THEN {} ELSE {WalkFrom(head)[n] : n \in Element}

\* Defect: the number of tasks gives the PID.
CountPid == tasks_cnt + 1

(* "Find new task PID": the place in the walk where the PID of the element   *)
(* is another than the place.                                                *)
NewPid ==
    IF head = NoElement THEN POS_PID_BASE
    ELSE CHOOSE n \in 1 .. MaxTasks + 1 :
             /\ pid[WalkFrom(head)[n]] # n
             /\ \A m \in 1 .. n - 1 : pid[WalkFrom(head)[m]] = m

ListTail == CHOOSE e \in Linked : next[e] = head

(* The new element is linked behind the tail.                                *)
Appended(new) ==
    IF head = NoElement THEN [next EXCEPT ![new] = new]
    ELSE [next EXCEPT ![ListTail] = new, ![new] = head]

(* pos_schedule_init_task.                                                   *)
CreateTask ==
    /\ ~hung
    /\ created < MaxTasks
    /\ ended # {} => late < Recreations
    /\ LET new == created + 1
       IN  /\ created' = new
           /\ pid' = [pid EXCEPT ![new] = NewPid]
           /\ next' = Appended(new)
           /\ head' = IF head = NoElement THEN new ELSE head
    /\ tasks_cnt' = tasks_cnt + 1
    /\ late' = IF ended = {} THEN late ELSE late + 1
    /\ UNCHANGED <<current, ended, hung>>

(* pos_scheduler_start.                                                      *)
SchedulerStart ==
    /\ current = NoElement
    /\ head # NoElement
    /\ current' = head
    /\ UNCHANGED <<pid, next, head, tasks_cnt, created, late, ended, hung>>

(* The place of the first element with PID p in the walk of pos_kill_task.   *)
PlaceOf(p) ==
    CHOOSE n \in Element :
        /\ pid[WalkFrom(head)[n]] = p
        /\ \A m \in 1 .. n - 1 : pid[WalkFrom(head)[m]] # p

\* Defect: the predecessor skips two.
UnlinkedTwo(n) ==
    [next EXCEPT ![WalkFrom(head)[n - 1]] = next[next[WalkFrom(head)[n]]]]

(* pos_kill_task unlinks an element behind the head.                         *)
Unlinked(n) == [next EXCEPT ![WalkFrom(head)[n - 1]] = next[WalkFrom(head)[n]]]

(* pos_task_finish: pos_kill_task of the caller's PID, and a switch to some  *)
(* task behind it.  The first task spins when it returns (pos_scheduler_     *)
(* start), so that the head stays.                                           *)
TaskFinish ==
    /\ ~hung
    /\ current \notin {NoElement, 1}
    /\ next' = Unlinked(PlaceOf(pid[current]))
    /\ tasks_cnt' = tasks_cnt - 1
    /\ ended' = ended \cup {current}
    /\ head' = head
    /\ current' \in Linked'
    /\ UNCHANGED <<pid, created, late, hung>>

(* The scheduler goes on to some task of the list.                           *)
SwitchTask ==
    /\ ~hung
    /\ current # NoElement
    /\ current' \in Linked
    /\ UNCHANGED <<pid, next, head, tasks_cnt, created, late, ended, hung>>

(* pos_get_task_by_pid for pos_task_running_time: a PID that no linked       *)
(* element has is looked for on and on.                                      *)
GetTaskByPid(p) ==
    /\ ~hung
    /\ current # NoElement
    /\ hung' = (\A e \in Linked : pid[e] # p)
    /\ UNCHANGED <<pid, next, head, tasks_cnt, current, created, late, ended>>

(* The PIDs programs ask for.                                                *)
Asked == {pid[e] : e \in 1 .. created \ IF AsksFinished THEN {} ELSE ended}

TableInit ==
    /\ pid = [e \in Element |-> 0]
    /\ next = [e \in Element |-> NoElement]
    /\ head = NoElement
    /\ tasks_cnt = 0
    /\ current = NoElement
    /\ created = 0
    /\ late = 0
    /\ ended = {}
    /\ hung = FALSE

TableNext ==
    \/ CreateTask
    \/ SchedulerStart
    \/ TaskFinish
    \/ SwitchTask
    \/ \E p \in Asked : GetTaskByPid(p)

TableSpec == TableInit /\ [][TableNext]_tabVars

-----------------------------------------------------------------------------
(* The list is a ring of the tasks that have not finished, each once, the    *)
(* running one among them, and __tasks_cnt counts them; no walk fails.       *)
RingOfLiveTasks ==
    /\ Linked = 1 .. created \ ended
    /\ head # NoElement => \E e \in Linked : next[e] = head
    /\ tasks_cnt = Cardinality(Linked)
    /\ current \in Linked \cup {NoElement}
    /\ ~hung

(* A PID names one task: semaphores, delays and mailboxes know tasks by it.  *)
UniquePid == \A e, f \in Linked : pid[e] = pid[f] => e = f
=============================================================================
