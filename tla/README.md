# PepperOS in TLA+

PepperOS is a small preemptive kernel for a Cortex-M0 (STM32F030x4): a
round-robin scheduler with three priorities, counting semaphores, delays,
mutexes, mailboxes, software timers, a heap, a console and external interrupts.
This directory models its concurrent core and the services on it, checks them
with TLC on small instances, and proves the main properties with TLAPS.
All paths below are relative to the repository (`src/`). The program itself is
about 3000 lines (`core/`, `lib/`); nearly all other lines of the repository are
CMSIS and device headers of the vendor.

## 1. Inventory

| Component | Source | State | Operations | Hard part |
|---|---|---|---|---|
| Scheduler | `core/pos_scheduler.c` | task ring, `current_task_element`, `__current_task`, `__next_task`, quantum, `__is_sleep_mode`, status of each task | `pos_schedule_tasks`, `pos_force_goto_task`, `pos_yield`, `pos_yield_by_pid`, `pos_sleep_cpu`, `pos_task_finish` | the globals change when a switch is *requested*, the CPU changes when PendSV is *taken* |
| Task table | `core/pos_scheduler.c`, `core/pepper_os.c` | the ring as a linked list, PIDs, `__tasks_cnt` | create, finish, look-up by PID | PIDs given again, walks that end only at what they look for |
| Port | `core/arch/cm0/*` | tick count, pending exceptions, `os_mode`, process stack | SysTick, SVC, PendSV, critical sections | exceptions between any two sections; WFE |
| Semaphores | `core/pos_semaphore.c` | count, FIFO of PIDs | wait, wait with timeout, signal | signal from interrupts; the tail of the timed wait is unprotected |
| Delays | `core/pos_delay.c` | list of (pid, ticks left) | add, remove, tick | one entry per tick; overdue entries |
| Mutexes | `core/pos_mutex.c` | two bit maps, a stack of PIDs per mutex | create, free, acquire, release | hand-over at release; reset after publication |
| Messages | `core/pos_ipc.c` | a list and a semaphore per task | send (tasks and interrupts), receive | two critical sections on each side |
| Timers | `core/pos_timer.c` | list sorted by remaining time, hardware timer | add, start, restart, resume, stop, kill, interrupt | list shared with the interrupt; reload edges |
| Heap | `core/pos_memory.c` | a bit per unit of four bytes, a length in front of each block, `total_heap_used` | `pmalloc`, `pfree`, `pget_var_size`, `pmemset`, `pmemcpy` | the length is written byte by byte (a carry is lost); fills that reach the next block's header |
| Console, queue | `core/pos_console.c`, `lib/queue.c` | linked queue of texts, `is_sending`, `tx_buffer` and its counts, receiver's PID | print, UART interrupt, registration of a receiver | the task links a node while the interrupt takes nodes; the last byte against the next print |
| External interrupts | `core/pos_extint.c`, `hal/.../stm32f030x4_gpio.c` | `extint_list`, `ext_int_cnt`, `int_port_index`, EXTI pending register | add, release, handlers | a table written outside of critical sections and read by handlers; read-modify-write of the pending register |

Interactions: every blocking call ends in `pos_yield`, which raises SVC;
`pos_sleep_cpu` schedules there and PendSV switches. `SysTick_Handler` ends the
slice or runs `pos_delay_tick`. Signals and elapsed delays of a HIGH task switch
at once through `pos_yield_by_pid`. Mailboxes are a list plus a semaphore.
Timers, the UART and the external lines reach the tasks through
`pos_send_message` in their handlers. The console's texts, its queue's nodes, the
messages and the tasks' elements live in the heap.

What makes each component correct, and what is hard to test in it, is the list
of hazards in `PROJECT.json`; each names the properties that cover it, or why
none does yet.

## 2. Modules

```
PosScheduler                      ring, switch requests, exceptions
  |-- PosSemaphore                count, FIFO, wait, signal
  |-- PosDelay                    delay list, pos_delay_ms, the tick's part
PosKernel = PosSemaphore + PosDelay + SysTick + timed wait; Spec, FairSpec
  |-- PosMutex                    mutexes on the kernel
  |-- PosIpc                      mailboxes on the kernel
SemaphoreSpec                     what a semaphore promises (abstract)
MailboxSpec                       what the mailboxes promise (abstract)
PosTimer                          software timers and their counter
PosMemory                         the heap
  |-- PosConsole                  console, queue and transmitter on the heap
PosTaskTable                      creation, end and look-up of tasks
PosExtInt                         table of pins and EXTI handlers
MCKernel, MCMutex, MCIpc, MCTimer, MCMemory, MCConsole, MCTaskTable, MCExtInt
                                  instances for TLC

CommonLemmas                      least numbers, induction over a set, lists
  |                               without repetitions, sums
  |-- PosKernelProofs             types, the ring, switches, semaphores and
  |     |                         their refinement, delays, timed waits
  |     |-- MailboxProofs (and PosIpc), with the refinement of MailboxSpec
  |     |-- MutexProofs (and PosMutex)
  |-- PosTimerProofs
  |-- PosMemoryProofs             the heap and the console on it
  |-- PosTaskTableProofs
  |-- PosExtIntProofs
```

**Atomicity.** One step is the code between two points where an exception can
be taken; a section between `POS_BEGIN_KCRITICAL` and `POS_END_KCRITICAL` is one
step (the M0 has no unprivileged mode, so that CPSID takes effect everywhere).
`pc[t]` says where a task is among the points that matter: its own code, the gap
between the end of the critical section in `pos_yield` and the SVC, the SVC
handler, WFE, behind the SVC, and the gaps inside the operations that have some.

**CPU.** `psp` is the task whose context is on the CPU; `At(t, p)` says that `t`
executes at `p`. `pendsv` is the pending bit. SVC and PendSV have the same
priority, so PendSV waits for the handler, and in thread code a pending PendSV
goes first; SysTick and the other handlers preempt both. `PendSV` saves into
`current_task` and loads `next_task`; when `current_task` is not `psp` the
context on the CPU is lost and the model stops with the fault `context_lost`.
`event` is the event register of WFE, set by every exception return.

**Ticks.** `SysTick` can happen in every state, with one restriction: while the
CPU is in a kernel path of microseconds (`InKernelPath`) at most one tick of a
millisecond falls. `ktick` remembers it. Without the restriction an arbitrary
number of ticks between two instructions would break everything.

**Faults.** `fault` (`error` in the heap and the console) collects the ends of a
run: `pos_error` (a breakpoint), an endless loop with interrupts masked, a lost
context, a write through NULL. The steps stop there (`Halted` and its like), so
that deadlock checking stays on.

**Abstraction of data.** A message is its `src`; PIDs are `1 .. N` in ring order
in the kernel's modules, and given by the code's rule in `PosTaskTable`;
semaphores are strings or, for mailboxes, the PID they belong to. The delay list
keeps the overdue times as the single value -1, since the code treats all of
them alike. In the kernel's modules `pmalloc` succeeds; `PosMemory` models how it
fails, and in `PosTimer` `pos_add_timer` may meet a full heap. Of the heap's contents only the headers are kept, of a text its number and
the place of each byte. The statistics (`*_elapsed_time`) are left out, but what
a tick is charged to (`os_mode`) is kept.

**Defects.** Operators commented `Defect:` are not the code: each is the form
that a plausible bug would give the operator behind it, and shows that a
property can fail.

### Correspondence

`PROJECT.json` maps every definition to its lines. The least obvious ones:

- `Schedule(rg)` is `pos_schedule_tasks`, the three callers of which are
  `SleepCpu`, `SysTick` and `TaskFinish`. `RequestSwitch` is what it shares with
  `pos_force_goto_task` (`ForceGoto`).
- `BeginYield` is `pos_yield` up to the SVC, one step with the section that
  blocks the caller; `ReturnFromYield` is the rest. `__pos_clear_systick` drops a
  tick that has come while interrupts were masked. In the model this tick may come
  behind the section as well as never: every behaviour of the code is among the
  model's, and what is proved of all of them holds of it. Liveness assumes that
  the calls do not drop every tick.
- `Ready` is the end of `pos_semaphore_signal` and of `pos_delay_tick`.
- `WaitUntil` is `pos_semaphore_wait_until` up to its yield. Its tail is eight
  actions, because it runs outside a critical section: `s->cnt += 1` is a load
  and a store, `pos_semaphore_deq` reads the list and then unlinks, and
  `pos_delay_remove` is a walk. `BeginWalk` reads the head, `VisitEntry` looks at
  one element and moves on or reads what follows the one it was looking for,
  `UnlinkEntry` writes `prev->next = next` (or the head) and frees. The walk's pointers are
  part of the frame, and name elements by their PID. A tick may come between any two of these steps:
  when it frees the element the walk stands on or is about to link to, the walk
  ends in the fault `stale_node`, and entries that others have linked between `prev`
  and `next` meanwhile are lost, as in the code. `pfree` holds its own section and is
  part of `UnlinkEntry`; two elements of one task, one freed and one new, are taken for
  the same.
- `CreateMutex`, `PublishMutex`, `ResetMutex` are the three parts of
  `pos_mutex_create`. When no bit is free it changes nothing.
- `Mail` maps the mailboxes to `MailboxSpec`: asleep is a receiver whose status
  is `SEM_WAITING`, promised one that is past its wait or woken from it, and
  its letter is the head of the list that `pos_ipc_deq` has read.
- `SendMessage`, `SignalMail` are the two sections of `pos_send_message`;
  `GetMessage`, `ReturnReceiving`, `ReadMail`, `TakeMail` are `pos_get_message`.
  `IsrEnq`, `IsrSignalMail` are the same two sections in an interrupt handler.
- A row of `__mutex_locks_pid` has `MAX_PROCCESS_NUM - 1` places. The constant is the
  configuration's, independent of the number of tasks as it is in the code:
  `Acquire` of a sleeper for whom `HasPlace` fails writes behind the row, the fault
  `out_of_bounds`. `pos_mutex_init` writes one place past each row too
  (`core/pos_mutex.c:63`), at a time when the rows hold nothing, which the model leaves out. In
  `PosIpc` the mailboxes are an array of `MAX_PROCCESS_NUM` (`core/pos_ipc.c:49-50`), and
  `N <= MAX_PROCCESS_NUM` is assumed: tasks without a mailbox of their own are not modelled.
- `PosTimer` stands beside the kernel: its calls hold one critical section each,
  and what the kernel sees of it is a message from an interrupt (`IsrEnq`). Each
  call that takes an identifier is `ReadHead`, the read of `timer_ll_head` ahead
  of the section, and the section itself. A call whose node has left the list by
  then ends in the fault `stale_node`, which is reachable. `CounterTick` is the
  hardware: it stands still while the interrupt is due, so that the handler runs
  within the millisecond. `Expire` is one turn of the handler's loop, and nothing
  comes between two turns. `AddTimer` may meet a full heap (`low_space`): `pmalloc`
  calls `pos_error`, and the assertion behind it (`core/pos_timer.c:230`) compares a status
  with NULL and would not stop the write through the null pointer. The handler's
  call for a periodic timer takes the block that it has freed in the same section,
  and cannot fail.
- `PosMemory`: `MapBytes` need not be a multiple of four, since `init_pos_memory`
  clears bytes while the search reads words. `pmalloc` and `pfree` are critical
  sections, hence single steps. `Memset` stands for `pmemcpy` too, which has the same
  checks; a copy between the heap and memory outside it does nothing. `live` is
  a history variable: the sizes the programs asked for. `AskSize` says whether a
  program fills as many bytes as `pget_var_size` tells it, instead of what it asked
  for.
- `PosConsole`: `print` is `CallPrint`, `AllocNode`, `FindTail`, `Link`,
  `TestSending` and `Start`, between any two of which the UART interrupt may come.
  The walk of the queue and `data_sent` are single steps. `Careful` is a promise of the
  tasks: a text is printed while another is still queued only with the interrupts
  masked. The ping example does not keep it, which is the run LostText. TC is set
  after a reset and consumed by the interrupt that `uart_init` enables. An unread
  byte without a receiver (`Storm`) leaves no time for any task.
- `PosTaskTable`: the head stays (`pos_scheduler_start` spins behind its return);
  the elements are numbered in the order of their `pmalloc`. `Recreations` bounds
  the creations after the first end of a task; `AsksFinished` says whether a
  program looks up a task that has ended.
- `PosExtInt`: `pos_extint_add` is four steps outside of any critical section.
  `PrCleared` is `EXTI->PR |= bit`, which writes back, and so clears, every pending
  bit. The releases are those of active pins, except `ReleaseUnasked`, in which the
  counter of the critical sections goes below zero and the model stops.
  `extint_is_active` only reads and has no step.

## 3. Runs

All constants are tiny on purpose: the interesting interleavings need two or
three tasks. `MEAN = 4` gives the quanta 5, 4 and 3 (HIGH, NORMAL, LOW), so that
a slice has several ticks and its end is reached. `MaxCnt` and `MaxLine` bound
the semaphore count from above and the line from below; a wait or a signal past
them is not taken. No wait is lost by `MaxLine`, as it is at least `N`.

| Run | Instance | Checks | Result |
|---|---|---|---|
| RoundRobin | 3 tasks NORMAL/LOW/NORMAL, 2 semaphores, delays 1-2, interrupts, `FairSpec` | type, switch soundness, callers, sleeping, charging, slices; count = list = statuses, delay list = sleepers, refinement of `SemaphoreSpec`; every ready task runs, delays end | holds |
| TimedFinish | one task signals and never blocks, one waits with a timeout, one sleeps, waits for an interrupt and may finish; times 2 and 5; `FairSpec` | a timeout leaves no trace, a timed wait ends, a finished task stays off | holds |
| MutexRows | three users, private handles, `MAX_PROCCESS_NUM` = 3 | rows = sleepers, no overflow, nobody stranded | holds |
| Mailboxes | NORMAL and HIGH, mailboxes of 2, interrupts, fair | list and count agree, refinement of `MailboxSpec`, a receiver with mail wakes; switch soundness with immediate switches | holds |
| Timers | two tasks, two timers, times 1-2 with a counter of 1 at most, `FairTimerSpec` | identifiers, reload value, counter off, no wrap; the handler's loop ends, running timers fire | holds |
| Console | a careful printer, texts of 1, 2, 1, 1 bytes, a receiver, a heap of 32 units shared with blocks of 30 bytes, `FairConsoleSpec` | the heap's map is exact and counted right, every block of the console is owned once; texts in order, all sent | holds |
| TaskTable | 5 tasks, one creation after the first end | the list is a ring of the live tasks; PIDs are unique | holds |
| ExtInt | lines 0, 1, 4 (two handlers) on the ports A and B, a table of 2, one adder, edges one at a time, `FairExtIntSpec` | handlers find their entries; active = one message; no edge on an inactive pin is dropped | holds |

Runs that show a disagreement between the code and what the repository says
(the quotes are in `PROJECT.json`):

| Run | Property | What happens |
|---|---|---|
| DoubleRequest | SwitchFromRunning | two requests before PendSV save the context into the wrong task |
| TimeoutRace | NoUnexpectedError | a signal and then the timeout reach the "WTF Here?!" branch |
| MutexOwners | MutualExclusion | release frees the bit and also hands the mutex to the sleeper it wakes; the releaser takes it again before the sleeper runs |
| LostText | TextsSent | three prints in a row: the node is linked behind one that the interrupt has freed |

Further configurations are kept beside the runs, as what they show is plain once
it is said or a variant of a run. They end in a counterexample:

| Configuration | Module | Property | What happens |
|---|---|---|---|
| FinishHang | MCKernel | NeverHung | finishing while all others are blocked never leaves the ring walk (`core/pos_scheduler.c:272`) |
| StaleSleepFlag | MCKernel | HighRunsAtOnce | a stale `__is_sleep_mode` suppresses the immediate switch (`README.md:19`) |
| DelayWalk | MCKernel | NoStaleNode | a tick frees the element on which the walk of `pos_delay_remove` stands |
| LateSignal | MCKernel | WalkMeetsEntry | a signal between the timeout and the task's next turn makes `pos_delay_remove` look for an entry that the tick has freed: `pos_error` at `core/pos_delay.c:105` |
| OverdueDelay | MCKernel | DelayEnds | with three sleepers an overdue one is overtaken for ever |
| FinishSlice | MCKernel | SliceBounded | `pos_task_finish` does not restart the slice, and the equality of `SysTick_Handler` is passed |
| MutexOverflow | MCMutex | RowFits | three users with the `MAX_PROCCESS_NUM` = 2 of `core/include/pos_config_template.h:52`: the second sleeper is written behind the row, against `README.md:14` ("No software restriction on the number of real time tasks") |
| MutexShared | MCMutex | RowMatchesSleepers | `pos_mutex_create` drops a task that queued on the shared handle before line 81 |
| HeapCarry | MCMemory | UsedIsAllocated | a block of 508 bytes: the carry of the header's length is lost (`core/pos_memory.c:147`) |
| HeapOverrun | MCMemory | HeapExact | a fill of `pget_var_size` bytes overwrites the next header |
| TwinPids | MCTaskTable | UniquePid | with a second re-creation a PID is given twice |
| TwoPrinters | MCConsole | TextsInOrder | two tasks link behind the same tail |
| EarlyByte | MCConsole | TextsSent | a byte before the registration keeps the interrupt pending for ever (deadlock is allowed: the storm stops everything) |
| EmptyText | MCConsole | TextsInOrder | `bytes_remained` of an empty text is 65535 |
| SharedClear | MCExtInt | EdgeDelivered | clearing one pending bit clears another |
| PortF, TwoAdders | MCExtInt | EntryFound | a port beyond `ports_name`; two tasks write one place |

Two more disagreements need no configuration. The slice has the length of the
previous task's priority (`core/pos_scheduler.c:290`; `README.md:19-21` and the
comment of line 289 say the running task's). And `pos_mutex_release` requests no
switch to a HIGH task it wakes, although `core/pos_scheduler.c:37-39` says that
"on signaling semaphores or releasing mutexes" the scheduler "will immediatly
switch to this task".

The passing instances stay outside these situations and say so by their
constants: RoundRobin has no HIGH and no finishing task and two sleepers,
Mailboxes has only two tasks (with a third, a HIGH one that an interrupt wakes
between a request and its PendSV is enough to violate `SwitchFromRunning`),
TimedFinish one timed waiter and a first task that is always ready, MutexRows as
many places as its tasks need, Console one careful printer, texts of at least a
byte and no byte before the receiver, TaskTable one re-creation and no look-up of
the dead, ExtInt one adder, named ports and one edge at a time.
In TimedFinish the semaphore of the timed wait is signalled by a task, not by an
interrupt, and nobody else waits for it. Then nobody signals between
`pos_semaphore_deq`'s read of the list and its test of the count, which would
leave the timed-out task in the list: the tail of the wait is over before another
task runs. `TimeoutLeavesNoTrace` speaks of the states without a fault: TimeoutRace,
LateSignal and DelayWalk show the three errors in which a timed wait may end.
`MutualExclusion` and `HighRunsAtOnce` have no passing run; MutexRows checks what holds
nevertheless of mutexes: that every sleeper has somebody who will wake it.

**Why the bounds are enough.** RoundRobin's three tasks let one task run while a
second is switched out and a third is woken, and both priorities below HIGH
occur. In TimedFinish a delay of 5 ticks outlives the slice of the signaller, so that
the timed waiter finds its entry when it has been signalled, behind the sleeper's or
in front of it, and a delay of 2 lets a tick of the walk free an entry. In Timers a time of 2 exceeds the longest run of the counter
(`TIMER_MAX_VALUE` = 1), so that long times are split into runs; two tasks are
what it takes for one to change the list between the other's read of the head
and its section. No time is zero: `pos_add_timer(0, ..)` with a periodic mode
makes the loop of the handler endless, which `TimerAssumption` excludes. In
Console the heap is so small that it runs full, one text has a byte between its first
and its last interrupt, and four texts keep a queue of two behind the one that is sent. In TaskTable five
tasks end in every order. ExtInt's table is smaller than the set of pins, and the
lines 0 and 1 share a handler.

**Fairness.** `FairSpec` and `FairIpcSpec` assume weak fairness of the steps of
the CPU inside the kernel (`Yielding`, `WaitUntilTail`, `ThreadStep`), of the
pending PendSV, of SysTick (a free-running timer) and of an interrupt handler
that has begun. Nothing is assumed of the calls tasks make or of interrupts:
they may never come. `FairTimerSpec` assumes the same of the counter and of the
timer interrupt; `RunningFires` speaks of the behaviours in which the tasks stop
calling the timers. `FairConsoleSpec` assumes that the transmitter shifts its
byte out, that its interrupt is served, and that a task goes on with a `print`
it has begun, which is what `ReadyTaskRuns` says of the scheduler below.
`FairExtIntSpec` assumes that a pending interrupt is entered and its handler goes
on. A task that computes for ever is thus among the behaviours, and
`ReadyTaskRuns` holds because of the tick alone.

**Liveness under a fault.** `MailWakes` and `TextsSent` exclude halted states,
which a full mailbox and a full heap reach by design
(`pos_error(POS_MEM_LOW_SPACE)`).

## 4. Proofs

The assumptions are those of the modules: at least one task, three priorities,
`MEAN_QUANTUM_LENGTH` between 3 and 204 (quanta of two ticks or more that fit a
byte), typed program constants. A theorem about a class of programs names the
class in its ASSUME, and the configurations of section 3 show that most of the
classes cannot simply be dropped. Every invariant below was checked with TLC on
the instances of the runs (where a class asks for it, with fewer interrupts)
before it was proved.

`HighClass`, on which the kernel's theorems rest, says that HIGH tasks are woken by
tasks only: they call neither `pos_delay_ms` nor the timed wait and wait for no
semaphore that interrupts signal. There may be any number of them, and they may
wait, signal and send.

| Module | Theorems | For |
|---|---|---|
| PosKernelProofs | `TypeCorrect`, `OneActive`, `CallerIsCurrent` | every program |
| | `FinishedTasksStayOff` | no HIGH task finishes (`FinishClass`) |
| | `SwitchesAreSound`, `BlockedTasksStayOff`, `NoLostWakeup`, `SlicesEnd`, `TicksAreTheRunners` | HIGH tasks woken by tasks only (`HighClass`), no finishing tasks (`ProgramClass`) |
| | `CountsMatchQueues`, `SleepersAreQueued`, `SemaphoresKeepPromise`, `SleepersAreListed`, `NeverFaults` | and no timed waits (`SemaphoreClass`) |
| | `TimeoutsLeaveNoTrace` | or `ProgramClass` with timed waits, whose semaphores no interrupt signals and nobody else waits for (`TimedClass`) |
| MailboxProofs | `MailboxesKeepPromise`, `CountsMatchMail`, `MessageIsThere`, `SleepersHaveSenders`, `MailSwitchesAreSound`, `MailTypeCorrect` | `SemaphoreClass`, and interrupts send to no HIGH task (`IpcClass`) |
| MutexProofs | `MutexesAreTyped`, `RowsMatchSleepers`, `SleepersHaveWakers` | `SemaphoreClass`, and a handle for each creator (`MutexClass`) |
| | `RowsFitTheirPlaces` | and no more users than `MAX_PROCCESS_NUM`, a row for each bit of the maps (`TablesSuffice`) |
| PosTimerProofs | `TimersAreTyped`, `TimersHaveOwnIds`, `CounterStopsWithTimers`, `ElapsedNeverWraps` | every program |
| | `CounterNeverPasses` | no time beyond the longest run of the counter (`ShortTimes`) |
| PosMemoryProofs | `HeapStaysExact`, `UsedStaysAllocated` | whole words, no lost carry, fills of what was asked for (`HeapClass`) |
| | `PrintedBlocksAreOwned`, `HeapStaysExactUnderInterrupts` | and one careful printer (`ConsoleClass`) |
| | `TextsStayInOrder` | and non-empty texts that `bytes_remained` can count (`OrderClass`) |
| PosTaskTableProofs | `TasksStayInRing`, `PidsNameOneTask` | one creation after an end, no look-up of the dead (`TableClass`) |
| PosExtIntProofs | `EntriesAreFound`, `OneMessageEach` | one adder; for the first, ports A and B |

- **Types.** `TypeInv` joins the type with `ActiveIsCurrent` and with what the timed
  wait's frame needs to be typed while its tail runs. The arithmetic content is
  that the chosen task (`NextReady`, a CHOOSE of the smallest number of hops)
  exists, which `LeastNumber` derives from well-founded induction on the
  naturals, and that `InsertAt` and `RemoveAt` keep a list typed.
- **The caller and the ring.** `ChosenInv` says that the task on the CPU is the
  current one or about to be switched out, which makes `_pos_get_current_pid`
  right for every program. `RingFits` adds that whoever has finished is unlinked
  and whoever is chosen is linked. `FinishClass` leaves out finishing HIGH tasks: a
  timed wait may leave a HIGH task that has finished in a semaphore's line, and a
  signal would then switch to it past the ring.
- **Switches.** None of the other five properties is inductive. `SwitchInv`
  adds: `GlobalsFit` (the globals name the task on the CPU or the pending switch),
  `YieldsAlone` (only the task on the CPU is inside `pos_yield`, with no switch
  pending, which is why a second request cannot come: the next one needs a tick
  that ends the slice, another SVC, or a running task that wakes a HIGH one),
  `SliceFits` (a kernel path starts with the tick count zero and sees one tick at
  most, and a quantum has two, so that no slice ends on the way) and
  `BlockedInYield` (a blocked task is inside `pos_yield`). `RoundRobinInv` joins it
  with `HighFits`: what a tick or an interrupt finds to wake is never HIGH. An
  immediate switch is then one that a running task asks for, with none pending,
  and `PreemptedKeeps` shows that it leaves the globals right.
- **Semaphores.** Every step has one of four effects on semaphores and statuses:
  none (`Quiet`), a unit taken (`Took`), the caller in the line (`Joined`), a
  signal (`Gave`). That each step has one (`StepEffect` and the lemmas before
  it) needs `RoundRobinInv`: the caller that blocks is the one on the CPU. Each
  effect keeps `LinesFit`, `WaitersSleep` and `SleepersQueue`, and each is a step of `SemaphoreSpec`
  or a stutter, which is the refinement `KeepsPromise`.
- **Delays.** `ListFits` says that PIDs are listed once and exactly while they
  sleep; the lemmas on `DelayAdd` and `DelayTick` follow an entry's place through
  the list. The errors of `pos_delay_tick` are then unreachable.
- **Timed waits.** The tail of `pos_semaphore_wait_until` gives back the unit and
  unlinks its task, or walks the delay list, in steps outside any critical section. `TimedInv` says that
  it is alone there: `TailFits` (only the running task is in the tail, it is right
  about why its wait ended, and what it has loaded is not stale), `CountsFit` (a
  count and its line differ only while the tail has raised the one and not yet
  shortened the other), `PlacesFit` (a timed sleeper is in both lists, in the
  line alone once it has timed out, in no line once it is signalled) and
  `LinesOwn` (a line holds tasks that wait for it, and a task is in one line). `TailSlice`
  is the reason: the tail is entered with the tick count zero and sees one tick,
  and a quantum has two, so that no other task gets the CPU in it. `WalkFits` is about
  the walk: since nothing is linked while it goes on, `prev`, `curr` and `next` are
  neighbours in the list as long as they are in it. A tick takes the head and nothing else;
  either the walk does not need that element any more, or it ends as a `stale_node`. What is
  unlinked otherwise is the caller's entry and no other.
- **Mailboxes.** The kernel's steps spare the mailboxes, and the sends and
  receives have the effects of the semaphores, so that `SemaphoreInv` carries
  over. `Accounted` is the heart: each message of a mailbox is a free unit, a task
  between its two sections, the handler between its two sections, or the
  receiver with its unit and without its message. It needs `BoxesFit` (where a task
  with a mailbox in hand can be) and `SleepersOwn` (nobody but its owner sleeps
  on a mailbox). For the refinement of `MailboxSpec` a receiver is promised a
  message exactly when it has its unit (`ReceiversByLines`); a step changes this for
  one task at most (`SameUnit`, `Woken`), and `Accounted` then gives it its message.
  `LettersFit` adds that the head read outside the critical section stays the
  head, as others only append. `SleepersHaveSenders` is the same account read the
  other way: mail over which somebody sleeps is mail that is still to be signalled.
- **Mutexes.** `ClientInv` says that a task in the row of a mutex is inside
  `pos_yield` and in no semaphore's line (`AsksFit`), that the mutex of a
  `pos_mutex_create` under way is nobody else's (`MadeFit`), and that a row holds each
  sleeper once and nobody else (`RowsFit`). That no row
  overflows needs more than the code has: its places are a number of the
  configuration. `TablesSuffice` says what an application has to see to, that
  `MAX_PROCCESS_NUM` covers the tasks that use mutexes and that the maps have no bit without a
  row. Under it there is a place (`PlaceForOne`): only users sleep for a mutex
  (`OnlyUsers`), a locked one has a holder, and neither the holder nor the caller is in
  the row.
- **Timers.** Identifiers name one timer each: `pos_add_timer` takes the smallest one
  that is free, and there is one because the list is shorter than their number
  (`IdsCount`). `time` stays covered by `left`. `CounterInv` is about the
  counter: `state` says whether it counts, without timers it does not, it is at most
  `arr`, and zero while an update is pending or served. The reload value needs a
  class: `pos_restart_timer` does not cap the time at `TIMER_MAX_VALUE`, and only
  with shorter times does `ReloadInv` keep the head's time in the register.
- **Heap.** `HeadersIntact` (what the headers say is what was asked for) makes
  `pfree` clear what `pmalloc` set, and `Total`, a sum over the blocks, follows
  both. A sum over a set is a fold of the community modules; `AddsUp` and
  `SumGrows` of `CommonLemmas` give it its equations, by induction along the
  cardinality.
- **Console.** `ConInv` divides the blocks among the other tasks, `print`, the
  queue and the transmitter; it needs `ReadsHold`: what `print` has read (the tail,
  `is_sending`) still holds when it uses it, since the interrupts are masked or the
  queue is empty. `WireInv` adds how many texts are out, which one is on its way
  and which ones wait; each byte then goes to its place in `AllBytes`
  (`TextsHavePlaces`, which unfolds the recursion of `FlattenSeq`).
- **Task table.** The list is walked by following `next`; `TableInv` says that some
  sequence names the live elements in the order of that walk, which comes back to
  the head. PIDs ascend along it as long as nobody is created after an end, hence
  the first gap is a free PID.
- **External interrupts.** `ExtIntInv` counts messages against active entries,
  and says of the pin being registered what of it is in the table already.

Three of these inductions are over numbers that only the state or a constant
gives (the walk of the table, the sums, the texts). The library's induction takes
an operator as a parameter; `OneByOne` is the same principle over a set, from
`LeastNumber`.

Every invariant, step property and refinement that a passing run checks is stated
by a theorem. Only model-checked are the liveness properties (TLAPS 1.4.5 has no
ENABLED): `ReadyTaskRuns`, `DelayEnds`, `TimedWaitEnds`, `MailWakes`, `InterruptEnds`,
`RunningFires`, `TextsSent` and `EdgeDelivered`. What a run has beyond the class of a
theorem is model-checked as well: in Mailboxes the interrupts' messages to the HIGH
task, in TimedFinish the finishing task. HIGH tasks that ticks or interrupts wake
are outside the theorems because the switches are not sound then (DoubleRequest),
and that a HIGH task runs at once is not even true below that (StaleSleepFlag).

## 5. Not modelled

- Vendored CMSIS and device headers and drivers: register layouts and
  conversions without state of the kernel. They are the bulk of the repository's
  lines, and the set-up code of UART, GPIO and clocks beside them runs once and in
  straight lines.
- `lib/stack.c`: nothing calls it.
- Registers and stacks, and with them the stack overflow check and the frames
  `pos_create_task` builds; the elapsed-time statistics.
- `POS_MEMORY_BLOCK_SIZE_16`; the contents of the heap.
- What follows `pos_error` when the breakpoint is stepped over: among it the
  assertion of `pos_ipc_enq`, which returns inside the critical section.
- The source of the startup message, which `pos_create_task` reads through a null
  pointer; what a write past a row or the table of the mutexes
  overwrites; overruns of the UART.
- Two behaviours are modelled but have no property: the last waiter of a mutex is
  woken first (`core/pos_mutex.c:139`; no fairness is promised), and timers may
  fire early after a kill, stop or restart of another (`core/pos_timer.c:80`).

The first task never finishes (`pos_scheduler_start` spins behind it). Of the
protocol faults a program can make, only those of the examples are among the
instances.

## 6. Plan

Done, in this order:

1. `PosScheduler`, `PosSemaphore`, `PosDelay`, `PosKernel`, `PosMutex`, `PosIpc`,
   `SemaphoreSpec`; type correctness and round-robin soundness proved.
2. `PosTimer`.
3. `PosMemory`, `PosConsole` on it, `PosTaskTable`, `PosExtInt`.
4. Proofs: semaphores with their refinement, delays, mailboxes, external
   interrupts.
5. Proofs: mutexes, timers, the task table, the heap's account, the console with
   its order of texts, finished tasks.
6. Proofs: HIGH tasks woken by tasks in all of the kernel's theorems, timed waits,
   and `MailboxSpec` with its refinement.

Left:

1. An abstract console, a line of bytes, in place of `TextsInOrder`.
2. An abstract specification in which each timer has its own deadline, and how
   far the list keeps it.
3. HIGH tasks woken by ticks and interrupts in a system of two tasks, where the
   switches are sound (Mailboxes checks it) although `YieldsAlone` does
   not hold.
