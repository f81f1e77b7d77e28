-------------------------------- MODULE PosTimer --------------------------------
(*****************************************************************************)
(* Software timers (core/pos_timer.c): a list of timers with the time each   *)
(* has left, and one hardware counter that is reloaded for the head.  Every  *)
(* call and the interrupt handler hold a critical section, but the calls     *)
(* read the head of the list ahead of it.  The loop of the handler is one    *)
(* action per turn; nothing comes in between.                                *)
(*****************************************************************************)
EXTENDS Integers, FiniteSets, SequencesExt

CONSTANTS
    Caller,             \* the tasks that use timers
    Times,              \* the times they ask for, in milliseconds
    TIMER_MAX_VALUE,    \* the longest single run of the counter
    ARR_MAX,            \* the widest value of its registers
    MaxTimers           \* bound of the model: timers at a time

ASSUME TimerAssumption ==
    /\ Times \in SUBSET (Nat \ {0})
    /\ TIMER_MAX_VALUE \in Nat \ {0}
    /\ ARR_MAX \in Nat /\ ARR_MAX >= TIMER_MAX_VALUE
    /\ MaxTimers \in Nat

Id == 0 .. MaxTimers - 1

(* What a call has read from timer_ll_head: a timer's node, or one of these. *)
Idle == -1      \* the task is not in a call
Empty == -2     \* the null pointer
Stale == -3     \* a node that has been freed or cut off since

VARIABLES
    timers,     \* the list of timer_ll_head
    state,      \* TIMER_STATE = 1
    arr, cnt,   \* the counter's reload and current values
    cen,        \* it counts
    uif,        \* it has passed the reload value: the interrupt is due
    busy,       \* the handler is in its loop
    seen,       \* what each task's call has read ahead of its section
    fired,      \* the timers the last step has sent a message for
    fault       \* a call has walked from a stale node, or found no memory

timerVars == <<timers, state, arr, cnt, cen, uif, busy, seen, fired, fault>>

Mode == {"ONE_SHOT", "PERIODICALLY"}

Entry == [id : Id, time : Nat, left : Nat, otime : Times, mode : Mode,
          status : {"STOP", "RUNNING"}]

Capped(time) == IF time > TIMER_MAX_VALUE THEN TIMER_MAX_VALUE ELSE time

\* Defect: what is left of a long time is not counted down.
CountedTimeOnly(e, elapsed) ==
    [e EXCEPT !.time = IF @ < elapsed THEN 0 ELSE @ - elapsed]

(* A timer that is due earlier keeps its complete_time. *)
Counted(e, elapsed) ==
    IF e.time < elapsed THEN [e EXCEPT !.time = 0]
    ELSE [e EXCEPT !.left = @ - elapsed, !.time = @ - elapsed]

(* pos_update_timers. *)
Updated(list, elapsed) ==
    [i \in 1 .. Len(list) |-> Counted(list[i], elapsed)]

(* pos__add_timer: e, with time left, in front of the first timer that has   *)
(* more.                                                                     *)
Added(list, e, time) ==
    LET later == {i \in 1 .. Len(list) : list[i].time > time}
        at == IF later = {} THEN Len(list) + 1
              ELSE CHOOSE i \in later : \A j \in later : i <= j
    IN  InsertAt(list, at, [e EXCEPT !.time = Capped(time), !.left = time])

(* pos_set_expire_timer. *)
SetExpire(time) == arr' = time % (ARR_MAX + 1)

Ids(list) == {list[i].id : i \in 1 .. Len(list)}

\* Defect: the number of timers is taken for a free identifier.
CountAsId == Len(timers)

(* The smallest identifier that no timer has. *)
NewId == CHOOSE i \in Id \ Ids(timers) : \A j \in Id \ Ids(timers) : i <= j

KeepCounter == UNCHANGED <<state, cen, cnt>>

(* TIMER_STATE = 0 and timer_disable. *)
Disable == state' = FALSE /\ cen' = FALSE /\ cnt' = 0

\* Defect: the counter goes on without a timer.
KeepOn(list) == KeepCounter

DisableIfEmpty(list) == IF state /\ list = <<>> THEN Disable ELSE KeepCounter

(* The calls that have read a node of gone hold a pointer out of the list.   *)
Dropped(gone) == [c \in Caller |-> IF seen[c] \in gone THEN Stale ELSE seen[c]]

-----------------------------------------------------------------------------
Thread == fault = "none" /\ ~busy /\ fired' = {}

\* Defect: the counter is not restarted.
CntKept == cnt

(* timer_set_current_val(POS_TIMER0, 0). *)
CntRestarted == 0

(* pos_add_timer.  The counter restarts, since the time it has run is taken  *)
(* from every timer; a timer due meanwhile enters the handler at once.       *)
(* pos__add_timer may find the heap full, whatever the timers: pmalloc ends  *)
(* in pos_error, and no assertion would stop the write through its NULL.     *)
AddTimer(time, mode) ==
    LET e == [id |-> NewId, time |-> 0, left |-> 0, otime |-> time,
              mode |-> mode, status |-> "STOP"]
        list == Added(Updated(timers, cnt), e, time)
    IN  /\ Thread
        /\ \/ /\ Len(timers) < MaxTimers
              /\ SetExpire(Head(list).time)
              /\ timers' = IF arr' = 0 THEN Updated(list, Head(list).time) ELSE list
              /\ cnt' = CntRestarted
              /\ busy' = (arr' = 0)
              /\ uif' = (uif /\ arr' # 0)
              /\ UNCHANGED fault
           \/ /\ fault' = "low_space"
              /\ timers' = Updated(timers, cnt)
              /\ UNCHANGED <<arr, cnt, busy, uif>>
        /\ UNCHANGED <<state, cen, seen>>

(* The other calls begin with the head of the list.                          *)
ReadHead(c) ==
    /\ Thread
    /\ seen[c] = Idle
    /\ seen' = [seen EXCEPT ![c] = IF timers = <<>> THEN Empty ELSE Head(timers).id]
    /\ UNCHANGED <<timers, state, arr, cnt, cen, uif, busy, fault>>

PositionOf(id) == CHOOSE i \in 1 .. Len(timers) : timers[i].id = id

(* The walk of c from the node it has read meets id. *)
Meets(c, id) ==
    /\ {seen[c], id} \subseteq Ids(timers)
    /\ PositionOf(seen[c]) <= PositionOf(id)

(* The critical section of a call of c that finds id.                        *)
Section(c, id) == Thread /\ Meets(c, id)

Return(c) == seen' = [seen EXCEPT ![c] = Idle]

(* A call that does not find its timer returns 0. *)
NotFound(c) ==
    /\ Thread
    /\ seen[c] \notin {Idle, Stale}
    /\ \E id \in Id : ~Meets(c, id)
    /\ Return(c)
    /\ UNCHANGED <<timers, state, arr, cnt, cen, uif, busy, fault>>

(* What a walk from such a node meets is beyond the model.                   *)
WalkStale(c) ==
    /\ Thread
    /\ seen[c] = Stale
    /\ fault' = "stale_node"
    /\ Return(c)
    /\ UNCHANGED <<timers, state, arr, cnt, cen, uif, busy>>

\* Defect: complete_time keeps what was left of it.
StartedShort(e) == [e EXCEPT !.time = Capped(e.otime), !.status = "RUNNING"]

Started(e) ==
    [e EXCEPT !.left = e.otime, !.time = Capped(e.otime), !.status = "RUNNING"]

(* pos_start_timer. *)
StartTimer(c, id) ==
    /\ Section(c, id)
    /\ timers' = [timers EXCEPT ![PositionOf(id)] = Started(@)]
    /\ IF state THEN KeepCounter ELSE state' = TRUE /\ cen' = TRUE /\ cnt' = 0
    /\ Return(c)
    /\ UNCHANGED <<arr, uif, busy, fault>>

(* pos_restart_timer, pos_resume_timer and pos_stop_timer take the whole     *)
(* reload value from every timer.                                            *)
Change(c, id, list) ==
    /\ Section(c, id)
    /\ timers' = list
    /\ Return(c)
    /\ UNCHANGED <<state, arr, cnt, cen, uif, busy, fault>>

Restarted(e) == [e EXCEPT !.time = e.otime, !.left = e.otime]
Resumed(e) == [e EXCEPT !.status = "RUNNING"]
Stopped(e) == [e EXCEPT !.status = "STOP"]

RestartTimer(c, id) ==
    Change(c, id, [Updated(timers, arr) EXCEPT ![PositionOf(id)] = Restarted(@)])

ResumeTimer(c, id) ==
    Change(c, id, [Updated(timers, arr) EXCEPT ![PositionOf(id)] = Resumed(@)])

StopTimer(c, id) ==
    Change(c, id, [Updated(timers, arr) EXCEPT ![PositionOf(id)] = Stopped(@)])

(* pos_kill_timer.  The node the call has read is unlinked by moving the     *)
(* head, whatever is in front of it by now.                                  *)
KillTimer(c, id) ==
    LET i == PositionOf(id)
        list == IF id = seen[c] THEN SubSeq(timers, i + 1, Len(timers))
                ELSE RemoveAt(timers, i)
    IN  /\ Section(c, id)
        /\ timers' = Updated(list, arr)
        /\ DisableIfEmpty(list)
        /\ seen' = [Dropped(Ids(timers) \ Ids(list)) EXCEPT ![c] = Idle]
        /\ UNCHANGED <<arr, uif, busy, fault>>

(* pos_kill_all_timers. *)
KillAllTimers(c) ==
    /\ Thread
    /\ seen[c] \notin {Idle, Stale}
    /\ timers' = <<>>
    /\ Disable
    /\ seen' = [Dropped(Id) EXCEPT ![c] = Idle]
    /\ UNCHANGED <<arr, uif, busy, fault>>

-----------------------------------------------------------------------------
(* The counter, a millisecond later.  The handler runs before the next one.  *)
CounterTick ==
    /\ fault = "none" /\ fired' = {}
    /\ cen /\ arr # 0 /\ ~uif /\ ~busy
    /\ uif' = (cnt = arr)
    /\ cnt' = IF cnt = arr THEN 0 ELSE (cnt + 1) % (ARR_MAX + 1)
    /\ UNCHANGED <<timers, state, arr, cen, busy, seen, fault>>

(* pos_timer_int_isr up to its loop: the time the head had is over.          *)
TimerIsr ==
    /\ Thread
    /\ uif
    /\ uif' = FALSE
    /\ timers' = IF timers = <<>> THEN <<>> ELSE Updated(timers, Head(timers).time)
    /\ busy' = (timers # <<>>)
    /\ DisableIfEmpty(timers)
    /\ UNCHANGED <<arr, seen, fault>>

\* Defect: the timer is added again with the time it has left.
PeriodLeft(e) == e.left

(* The time of a periodic timer's next run. *)
Period(e) == e.otime

(* One turn of the loop: the head's time is zero.  It goes on for what is    *)
(* left of a long run; otherwise it fires, and a periodic one starts again.  *)
Expire ==
    LET e == Head(timers)
        rest == Tail(timers)
    IN  /\ fault = "none" /\ busy
        /\ timers # <<>> /\ e.time = 0
        /\ timers' = IF e.left # 0 THEN Added(rest, e, e.left)
                     ELSE IF e.mode = "PERIODICALLY" THEN Added(rest, e, Period(e))
                     ELSE rest
        /\ IF timers' = <<>> THEN UNCHANGED arr ELSE SetExpire(Head(timers').time)
        /\ fired' = {x \in {e.id} : e.left = 0 /\ e.status = "RUNNING"}
        /\ seen' = Dropped({e.id})
        /\ UNCHANGED <<state, cnt, cen, uif, busy, fault>>

(* The loop ends. *)
EndIsr ==
    /\ fault = "none" /\ busy /\ fired' = {}
    /\ timers # <<>> => Head(timers).time # 0
    /\ busy' = FALSE
    /\ DisableIfEmpty(timers)
    /\ UNCHANGED <<timers, arr, uif, seen, fault>>

TimerInit ==
    /\ timers = <<>>
    /\ state = FALSE /\ cen = FALSE /\ uif = FALSE /\ busy = FALSE
    /\ arr = ARR_MAX /\ cnt = 0
    /\ seen = [c \in Caller |-> Idle]
    /\ fired = {}
    /\ fault = "none"

Calls ==
    \/ \E time \in Times, mode \in Mode : AddTimer(time, mode)
    \/ \E c \in Caller :
          \/ ReadHead(c) \/ NotFound(c) \/ WalkStale(c) \/ KillAllTimers(c)
          \/ \E id \in Id : \/ StartTimer(c, id) \/ RestartTimer(c, id)
                            \/ ResumeTimer(c, id) \/ StopTimer(c, id)
                            \/ KillTimer(c, id)

Halted == fault # "none" /\ UNCHANGED timerVars

TimerNext == Calls \/ CounterTick \/ TimerIsr \/ Expire \/ EndIsr \/ Halted

TimerSpec == TimerInit /\ [][TimerNext]_timerVars

(* The counter counts and its handler runs; what tasks call is their affair. *)
FairTimerSpec ==
    /\ TimerSpec
    /\ WF_timerVars(CounterTick) /\ WF_timerVars(TimerIsr)
    /\ WF_timerVars(Expire) /\ WF_timerVars(EndIsr)

(* Types: no time of a timer wraps below zero, and the counter's values fit its *)
(* registers.                                                                *)
TimerTypeOK ==
    /\ timers \in Seq(Entry)
    /\ arr \in 0 .. ARR_MAX /\ cnt \in 0 .. ARR_MAX
    /\ state \in BOOLEAN /\ cen \in BOOLEAN /\ uif \in BOOLEAN /\ busy \in BOOLEAN
    /\ seen \in [Caller -> Id \cup {Idle, Empty, Stale}]
    /\ fired \in SUBSET Id
    /\ fault \in {"none", "stale_node", "low_space"}

-----------------------------------------------------------------------------
(* Every timer has an identifier of its own, also after some were killed or  *)
(* have expired.                                                             *)
OwnId == Cardinality(Ids(timers)) = Len(timers)

(* The counter has not passed its reload value, behind which it would run to *)
(* the width of its register, nor does it stand at a reload value of zero.   *)
CounterBelowReload == cen /\ ~busy => arr # 0 /\ cnt <= arr

(* The counter is off when there is no timer.                                *)
OffWithoutTimers == timers = <<>> /\ ~busy => ~cen

(* complete_time covers time, so that pos_update_timers takes the elapsed    *)
(* time from both without wrapping the uint32_t.                             *)
LeftCoversTime == \A i \in 1 .. Len(timers) : timers[i].time <= timers[i].left

(* The loop of the interrupt handler ends.                                   *)
InterruptEnds == busy ~> ~busy

IsRunning(id) ==
    \E i \in 1 .. Len(timers) : timers[i].id = id /\ timers[i].status = "RUNNING"

(* A running timer fires once the tasks stop calling, whatever they have     *)
(* called before and in whatever order that has left the list.               *)
RunningFires ==
    \/ []<><<Calls>>_timerVars
    \/ \A id \in Id : (IsRunning(id) /\ cen)
                          ~> (id \in fired \/ ~IsRunning(id) \/ fault # "none")
=============================================================================
