-------------------------------- MODULE PosDelay --------------------------------
(*****************************************************************************)
(* The delay list (core/pos_delay.c): tasks that sleep for a number of       *)
(* ticks, in the order pos_delay_add links them, and the tick that ends at   *)
(* most one of them.                                                         *)
(*****************************************************************************)
EXTENDS PosScheduler, SequencesExt

CONSTANT Times      \* the delays tasks ask for, in ticks

ASSUME TimesAssumption == Times \in SUBSET Nat

VARIABLE delays     \* pos_delay_head's list of [pid, left] from the head

Entry == [pid : Task, left : Nat \cup {-1}]

(* elapsed_time < time_ms compares an int32_t with a uint32_t: an overdue    *)
(* (negative) entry counts as huge.                                          *)
Before(left, time) == left >= 0 /\ left < time

\* Defects: a new head forgets the list behind it; an index in place of a pid.
DelayAddForgets(list, pid, time) == <<[pid |-> pid, left |-> time]>>
DelayAddIndex(list, pid, time) == Append(list, [pid |-> pid - 1, left |-> time])

(* pos_delay_add links the entry behind the leading run of shorter ones. *)
DelayAdd(list, pid, time) ==
    LET stops == {i \in 1 .. Len(list) : ~Before(list[i].left, time)}
        at == IF stops = {} THEN Len(list) + 1
              ELSE CHOOSE i \in stops : \A j \in stops : i <= j
    IN  InsertAt(list, at, [pid |-> pid, left |-> time])

(* The places of pid's entries. *)
EntriesOf(list, pid) == {i \in 1 .. Len(list) : list[i].pid = pid}

(* The pointers of pos_delay_remove.  An element is named by its pid: the    *)
(* code links one for a task at a time, and one that is freed and made again *)
(* for the same task is taken for the same.  NoTask is the null pointer.     *)
Listed(list, ptr) == EntriesOf(list, ptr) # {}

PlaceOf(list, ptr) ==
    CHOOSE i \in EntriesOf(list, ptr) : \A j \in EntriesOf(list, ptr) : i <= j

HeadPtr(list) == IF list = <<>> THEN NoTask ELSE list[1].pid

(* ptr->next. *)
NextPtr(list, ptr) ==
    IF PlaceOf(list, ptr) = Len(list) THEN NoTask ELSE list[PlaceOf(list, ptr) + 1].pid

(* prev->next = next, or pos_delay_head = next: whatever stands between the  *)
(* two by now is lost with the entry.                                        *)
Unlinked(list, prev, next) ==
    (IF prev = NoTask THEN <<>> ELSE SubSeq(list, 1, PlaceOf(list, prev)))
        \o (IF next = NoTask THEN <<>> ELSE SubSeq(list, PlaceOf(list, next), Len(list)))

(* Every entry counts down on a tick.  All overdue values behave alike, so   *)
(* the model keeps one of them, -1.                                          *)
CountDown(list) ==
    [i \in 1 .. Len(list) |->
        [list[i] EXCEPT !.left = IF @ > 0 THEN @ - 1 ELSE -1]]

(* pos_delay_ms of the running task t. *)
DelayMs(t, time) ==
    /\ At(t, "run")
    /\ delays' = DelayAdd(delays, cte, time)
    /\ status' = [status EXCEPT ![cte] = "DELAY"]
    /\ BeginYield(t)

\* Defect: a head that is overdue is not seen.
HeadElapsesNow(list) == list # <<>> /\ list[1].left = 0

(* The head's time is over.                                                  *)
HeadElapsed(list) == list # <<>> /\ list[1].left <= 0

(* The status pos_delay_tick gives the task of an elapsed entry. *)
AwakeStatus(pid) ==
    IF status[pid] = "SEM_WAITING_UNTIL" THEN "DELAY_TIMEOUT"
    ELSE IF pid = cte THEN "ACTIVE" ELSE "IDLE"

(* pos_delay_tick: after the count-down only the head is looked at.  ticks   *)
(* is the slice's count SysTick_Handler has just stored.                     *)
DelayTick(ticks) ==
    LET list == CountDown(delays)
        pid == list[1].pid
    IN  IF ~HeadElapsed(list)
        THEN /\ delays' = list
             /\ elapsed_ticks' = ticks
             /\ NoSwitch(status)
             /\ UNCHANGED <<os_mode, fault>>
        ELSE /\ delays' = Tail(list)
             /\ IF status[pid] \in {"DELAY", "SEM_WAITING_UNTIL"}
                THEN /\ Ready(pid, [status EXCEPT ![pid] = AwakeStatus(pid)], ticks)
                     /\ UNCHANGED fault
                ELSE /\ fault' = "unexpected_error"
                     /\ elapsed_ticks' = ticks
                     /\ NoSwitch(status)
                     /\ UNCHANGED os_mode

DelayInit == delays = <<>>

DelayTypeOK == delays \in Seq(Entry)

-----------------------------------------------------------------------------
(* A task that sleeps in pos_delay_ms has exactly one entry, and every entry *)
(* belongs to a task that sleeps or waits with a timeout: an entry left      *)
(* behind ends in pos_error, a task without one sleeps for ever.             *)
DelayedIffListed ==
    \A t \in Task :
        Cardinality(EntriesOf(delays, t)) =
            IF status[t] \in {"DELAY", "SEM_WAITING_UNTIL"} THEN 1 ELSE 0
=============================================================================
