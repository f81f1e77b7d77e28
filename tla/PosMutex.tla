-------------------------------- MODULE PosMutex --------------------------------
(*****************************************************************************)
(* The mutexes (core/pos_mutex.c) on the running kernel.  A mutex is a bit   *)
(* in __mutex_locks, and a row of __mutex_locks_pid that is filled and       *)
(* emptied at the same end.  The tasks' side of the protocol is the one of   *)
(* examples/stm32f030x4/mutex: a handle comes from pos_mutex_create, a task  *)
(* does not acquire what it holds and releases only what it holds.           *)
(*****************************************************************************)
EXTENDS PosKernel

CONSTANTS
    MAX_MUTEX_NUM,      \* rows of the waiter table
    MAX_PROCCESS_NUM,   \* one more than the places of a row; a number of the
                        \* configuration, which no code compares with the tasks
    BITS,               \* bits of one word of the maps (32)
    Creators,           \* the tasks that create and free mutexes
    Users,              \* the tasks that acquire and release them
    SharedHandle,       \* pos_mutex_create writes the handle the tasks share
                        \* (as in the example), or a private one that is
                        \* copied when it has returned
    NoMutex             \* no pos_mutex_acquire under way

Mutex == 0 .. ((MAX_MUTEX_NUM - 1) \div BITS + 1) * BITS - 1

ASSUME MutexAssumption ==
    /\ MAX_MUTEX_NUM \in Nat \ {0} /\ BITS \in Nat \ {0}
    /\ MAX_PROCCESS_NUM \in Nat \ {0}
    /\ Creators \in SUBSET Task /\ Users \in SUBSET Task
    /\ SharedHandle \in BOOLEAN
    /\ NoMutex \notin Mutex

VARIABLES
    locks_map,      \* __mutex_locks_map: the mutexes that exist
    locks,          \* __mutex_locks: the bits of the locked ones
    locks_pid,      \* __mutex_locks_pid and its fill, __mutex_locked_pid_cnt
    made,           \* the id pos_mutex_create is about to return, per task
    known,          \* the handles the tasks have
    asks,           \* the mutex a task sleeps for in pos_mutex_acquire
    holds           \* the mutexes it has acquired and not released

mutexVars == <<locks_map, locks, locks_pid>>
clientVars == <<made, known, asks, holds>>
allVars == <<vars, mutexVars, clientVars>>

Free == Mutex \ locks_map

(* The lowest bit that is clear in the map.                                  *)
FreeBit == CHOOSE i \in Free : \A j \in Free : i <= j

(* pos_mutex_create: the lowest free bit is allocated and unlocked.          *)
CreateMutex(t) ==
    /\ t \in Creators
    /\ At(t, "run")
    /\ Free # {}
    /\ locks_map' = locks_map \cup {FreeBit}
    /\ locks' = locks \ {FreeBit}
    /\ made' = [made EXCEPT ![t] = FreeBit]
    /\ GoOn(t, "mx_publish")
    /\ UNCHANGED <<semVars, delays, frame, locks_pid, known, asks, holds>>

(* Behind its critical section it writes the handle ... *)
PublishMutex(t) ==
    /\ At(t, "mx_publish")
    /\ known' = IF SharedHandle THEN known \cup {made[t]} ELSE known
    /\ GoOn(t, "mx_reset")
    /\ UNCHANGED <<semVars, delays, frame, mutexVars, made, asks, holds>>

(* ... and then empties the row, which a map wider than the table lacks.     *)
ResetMutex(t) ==
    /\ At(t, "mx_reset")
    /\ IF made[t] < MAX_MUTEX_NUM
       THEN locks_pid' = [locks_pid EXCEPT ![made[t]] = <<>>] /\ UNCHANGED fault
       ELSE fault' = "out_of_bounds" /\ UNCHANGED locks_pid
    /\ made' = [made EXCEPT ![t] = NoMutex]
    /\ known' = known \cup {made[t]}
    /\ Goto(t, "run")
    /\ ktick' = FALSE
    /\ UNCHANGED <<schedVars, pendsv, psp, event, semVars, delays, frame,
                   locks_map, locks, asks, holds>>

(* pos_mutex_free by a task that knows the mutex is out of use. *)
FreeMutex(t, id) ==
    /\ t \in Creators
    /\ At(t, "run")
    /\ \A u \in Task : id \notin holds[u] /\ asks[u] # id
    /\ known' = known \ {id}
    /\ locks_map' = locks_map \ {id}
    /\ UNCHANGED <<vars, locks, locks_pid, made, asks, holds>>

(* The row has a place for one more sleeper. *)
HasPlace(id) == Len(locks_pid[id]) < MAX_PROCCESS_NUM - 1

(* pos_mutex_acquire.  A sleeper for whom the row has no place is written    *)
(* behind it, and what that overwrites is beyond the model.                  *)
Acquire(t, id) ==
    /\ t \in Users
    /\ At(t, "run")
    /\ id \notin holds[t]
    /\ IF id \notin locks
       THEN /\ locks' = locks \cup {id}
            /\ holds' = [holds EXCEPT ![t] = @ \cup {id}]
            /\ GoOn(t, "run")
            /\ UNCHANGED <<locks_pid, asks>>
       ELSE IF HasPlace(id)
       THEN /\ locks_pid' = [locks_pid EXCEPT ![id] = Append(@, cte)]
            /\ status' = [status EXCEPT ![cte] = "SEM_WAITING"]
            /\ asks' = [asks EXCEPT ![t] = id]
            /\ BeginYield(t)
            /\ UNCHANGED <<locks, holds>>
       ELSE /\ fault' = "out_of_bounds"
            /\ UNCHANGED <<schedVars, cpuVars, locks_pid, locks, asks, holds>>
    /\ UNCHANGED <<semVars, delays, frame, locks_map, made, known>>

\* Defects: the bit stays locked; the first sleeper wakes but the last leaves
\* the row; nobody leaves it.
BitKept(id) == locks
FirstSleeper(row) == Head(row)
RowKept(row) == row

(* The three effects of pos_mutex_release.                                   *)
BitCleared(id) == locks \ {id}
LastSleeper(row) == Last(row)
RowPopped(row) == Front(row)

(* pos_mutex_release: the last waiter of the row becomes ready, and the bit  *)
(* is clear.                                                                 *)
Release(t, id) ==
    /\ At(t, "run")
    /\ holds' = [holds EXCEPT ![t] = @ \ {id}]
    /\ locks' = BitCleared(id)
    /\ IF locks_pid[id] # <<>>
       THEN /\ status' = [status EXCEPT ![LastSleeper(locks_pid[id])] = "IDLE"]
            /\ locks_pid' = [locks_pid EXCEPT ![id] = RowPopped(@)]
       ELSE UNCHANGED <<status, locks_pid>>
    /\ UNCHANGED <<ring, cte, current_task, next_task, quantum, elapsed_ticks,
                   os_mode, is_sleep_mode, cpuVars, fault, semVars, delays,
                   frame, locks_map, made, known, asks>>

(* A task that slept in pos_mutex_acquire returns from it holding the mutex. *)
ReturnHolding(t) ==
    /\ asks[t] # NoMutex
    /\ ReturnFromYield(t, "run")
    /\ holds' = [holds EXCEPT ![t] = @ \cup {asks[t]}]
    /\ asks' = [asks EXCEPT ![t] = NoMutex]
    /\ UNCHANGED <<semVars, delays, frame, mutexVars, made, known>>

MutexInit ==
    /\ Init
    /\ locks_map = {}
    /\ locks = {}
    /\ locks_pid = [i \in Mutex |-> <<>>]
    /\ made = [t \in Task |-> NoMutex]
    /\ known = {}
    /\ asks = [t \in Task |-> NoMutex]
    /\ holds = [t \in Task |-> {}]

(* Every step of the kernel; the return from pos_yield belongs to the mutex  *)
(* when its caller is pos_mutex_acquire.                                     *)
KernelStep ==
    /\ Next
    /\ \A t \in Task : asks[t] # NoMutex => ~(pc[t] = "resumed" /\ pc'[t] = "run")
    /\ UNCHANGED <<mutexVars, clientVars>>

MutexStep(t) ==
    \/ CreateMutex(t) \/ PublishMutex(t) \/ ResetMutex(t)
    \/ ReturnHolding(t)
    \/ \E id \in known : FreeMutex(t, id) \/ Acquire(t, id)
    \/ \E id \in holds[t] : Release(t, id)

MutexNext == KernelStep \/ \E t \in Task : MutexStep(t)

MutexSpec == MutexInit /\ [][MutexNext]_allVars

(* Types of the mutex maps and rows: no identifier is past the end of its map. *)
MutexTypeOK ==
    /\ TypeOK
    /\ locks_map \in SUBSET Mutex /\ locks \in SUBSET Mutex
    /\ locks_pid \in [Mutex -> Seq(Task)]
    /\ made \in [Task -> Mutex \cup {NoMutex}]
    /\ known \in SUBSET Mutex
    /\ asks \in [Task -> Mutex \cup {NoMutex}]
    /\ holds \in [Task -> SUBSET Mutex]

-----------------------------------------------------------------------------
Holders(id) == {t \in Task : id \in holds[t]}

(* A mutex is held by one task at a time.  pos_mutex_release clears the bit  *)
(* although it hands the mutex to the sleeper it wakes, so the releaser, or  *)
(* anybody, may take it again before the sleeper runs.                       *)
MutualExclusion == \A id \in Mutex : Cardinality(Holders(id)) <= 1

(* The row of a mutex holds exactly the tasks that sleep for it, each once.  *)
RowMatchesSleepers ==
    \A id \in Mutex :
        LET row == {locks_pid[id][i] : i \in 1 .. Len(locks_pid[id])}
        IN  /\ row = {t \in Task : asks[t] = id /\ status[t] = "SEM_WAITING"}
            /\ Cardinality(row) = Len(locks_pid[id])

(* Nothing is written past the rows or past a row's end: pos_mutex_acquire   *)
(* checks neither its place in the row nor pos_mutex_create the row's number. *)
RowFits == fault # "out_of_bounds"

(* A locked bit has an owner that will clear it, and a sleeper has somebody  *)
(* whose release will wake it: a holder or a task woken to become one.       *)
NobodyStranded ==
    \A id \in Mutex :
        /\ id \in locks => Holders(id) # {}
        /\ locks_pid[id] # <<>> =>
               \E t \in Task : \/ id \in holds[t]
                               \/ asks[t] = id /\ status[t] # "SEM_WAITING"
=============================================================================
