------------------------------ MODULE PosConsole ------------------------------
(*****************************************************************************)
(* The console (core/pos_console.c) with its queue (lib/queue.c), the        *)
(* transmitter and the heap the texts and the nodes of the queue live in.    *)
(* print runs in a task, outside of any critical section but those of        *)
(* pmalloc; uart_isr interrupts it after each byte that has been sent.       *)
(*****************************************************************************)
EXTENDS PosMemory, SequencesExt

CONSTANTS
    Printer,        \* the tasks that print
    TextLen,        \* the length of each text, in the order of the calls
    Careful,        \* with a text in the queue they print only with interrupts masked
    EarlyBytes,     \* bytes may come in before pos_console_rx_register
    MaxApp,         \* bound: blocks the other tasks hold
    Null            \* NULL_PTR

ASSUME ConsoleAssumption ==
    /\ TextLen \in Seq(Nat)
    /\ Careful \in BOOLEAN /\ EarlyBytes \in BOOLEAN
    /\ MaxApp \in Nat
    /\ Null \notin Unit \cup Printer

VARIABLES
    queue,          \* the linked nodes of console_queue
    is_sending,
    tx,             \* tx_buffer, bytes_cnt, bytes_remained
    uart,           \* "idle", "shifting" a byte, or "TC": the byte is out
    rx,             \* RXNE: a byte waits to be read
    recv_pid,       \* a receiver is registered
    data,           \* the text in each of the console's blocks
    call,           \* each printer's place in print, and its locals
    mask,           \* the printer that has masked the interrupts
    printed,        \* how many texts the calls have taken
    app,            \* the blocks of other tasks
    wire            \* the bytes the receiver of the line has seen

lineVars == <<is_sending, tx, uart, wire>>
taskVars == <<call, mask, printed>>
conVars == <<memVars, queue, lineVars, rx, recv_pid, data, taskVars, app>>

Text == 1 .. Len(TextLen)

\* sizeof(pos_queue_ll_t)
NodeSize == 12

Idle == [pc |-> "idle", text |-> Null, node |-> Null, tail |-> Null]

-----------------------------------------------------------------------------
(* A read through a pointer: byte number i of the block, which is somebody   *)
(* else's or beyond its end when it is no byte of a text (0).                *)
ByteAt(buf, i) ==
    IF buf \in DOMAIN data /\ i < TextLen[data[buf]] THEN <<data[buf], i>> ELSE <<0, i>>

\* Defect: the new node becomes the head.
LinkedFirst(tail, item) == <<item>> \o queue

(* pos_queue_enq links the node behind the tail it has found.  That node may *)
(* have been taken, or have got a successor, meanwhile.                      *)
Linked(tail, item) ==
    IF tail = Null THEN <<item>>
    ELSE IF \E i \in DOMAIN queue : queue[i].node = tail
         THEN LET i == CHOOSE j \in DOMAIN queue : queue[j].node = tail
              IN  Append(SubSeq(queue, 1, i), item)
         ELSE queue

(* bytes_remained is a uint16_t.                                             *)
Remaining(len) == (len - 1) % 2 ^ 16

(* uart_write: the byte goes to the data register.                           *)
Write(byte) ==
    /\ wire' = Append(wire, byte)
    /\ uart' = "shifting"

\* Defect: the buffer of the text that has been sent is not freed.
ReleasedKept(h, buf) == h

(* pfree(tx_buffer), skipped for NULL.                                       *)
Released(h, buf) == IF buf = Null THEN h ELSE Freed(h, buf)

\* Defect: the flag stays set.
StaysSending == 1

StopsSending == 0

(* data_sent: the buffer of the text before is freed; the next text is taken *)
(* from the queue and its first byte sent, or the transmitter stops.  The    *)
(* caller gives tx_buffer, is_sending and the transmitter as it leaves them. *)
DataSent(buf, sending, line) ==
    /\ data' = [b \in DOMAIN data \ {buf} |-> data[b]]
    /\ IF queue = <<>>
       THEN /\ heap' = Released(heap, buf)
            /\ live' = [b \in DOMAIN live \ {buf} |-> live[b]]
            /\ tx' = [tx EXCEPT !.buffer = Null]
            /\ is_sending' = StopsSending
            /\ uart' = line
            /\ UNCHANGED <<queue, wire>>
       ELSE LET item == Head(queue)
            IN  /\ heap' = Freed(Released(heap, buf), item.node)
                /\ live' = [b \in DOMAIN live \ {buf, item.node} |-> live[b]]
                /\ queue' = Tail(queue)
                /\ tx' = [buffer |-> item.text, cnt |-> 1,
                          remained |-> Remaining(item.len)]
                /\ is_sending' = sending
                /\ Write(ByteAt(item.text, 0))

-----------------------------------------------------------------------------
(* An unread byte without a receiver keeps the interrupt pending: uart_isr   *)
(* returns and is entered again, and no task runs.                           *)
Storm == rx /\ ~recv_pid

Runs(t) == error = "none" /\ (mask = t \/ (mask = Null /\ ~Storm))

InterruptsOn == error = "none" /\ mask = Null

At(t, pc) == Runs(t) /\ call[t].pc = pc

(* print, with its buffer: pmalloc, memcpy.                                  *)
CallPrint(t) ==
    /\ At(t, "idle")
    /\ printed < Len(TextLen)
    /\ \/ mask' = mask /\ (Careful => queue = <<>>)
       \/ mask' = t
    /\ Malloc(TextLen[printed + 1])
    /\ IF error' = "none"
       THEN LET buf == FirstFit(heap, TextLen[printed + 1])
            IN  /\ data' = [b \in DOMAIN data \cup {buf} |->
                               IF b = buf THEN printed + 1 ELSE data[b]]
                /\ call' = [call EXCEPT ![t] = [Idle EXCEPT !.pc = "node", !.text = buf]]
       ELSE UNCHANGED <<data, call>>
    /\ printed' = printed + 1
    /\ UNCHANGED <<queue, lineVars, rx, recv_pid, app>>

(* pos_queue_enq: its node ...                                               *)
AllocNode(t) ==
    /\ At(t, "node")
    /\ Malloc(NodeSize)
    /\ IF error' = "none"
       THEN call' = [call EXCEPT ![t].pc = "walk", ![t].node = FirstFit(heap, NodeSize)]
       ELSE UNCHANGED call
    /\ UNCHANGED <<queue, lineVars, rx, recv_pid, data, mask, printed, app>>

(* ... the walk to the tail ...                                              *)
FindTail(t) ==
    /\ At(t, "walk")
    /\ call' = [call EXCEPT ![t].pc = "link",
                            ![t].tail = IF queue = <<>> THEN Null ELSE Last(queue).node]
    /\ UNCHANGED <<memVars, queue, lineVars, rx, recv_pid, data, mask, printed, app>>

(* ... and the link.                                                         *)
Link(t) ==
    /\ At(t, "link")
    /\ LET text == call[t].text
       IN  queue' = Linked(call[t].tail, [text |-> text, node |-> call[t].node,
                                          len |-> TextLen[data[text]]])
    /\ call' = [call EXCEPT ![t] = [Idle EXCEPT !.pc = "test"]]
    /\ UNCHANGED <<memVars, lineVars, rx, recv_pid, data, mask, printed, app>>

(* print looks whether the transmitter is at work ...                        *)
TestSending(t) ==
    /\ At(t, "test")
    /\ IF is_sending = 0
       THEN call' = [call EXCEPT ![t].pc = "start"] /\ UNCHANGED mask
       ELSE call' = [call EXCEPT ![t] = Idle] /\ mask' = Null
    /\ UNCHANGED <<memVars, queue, lineVars, rx, recv_pid, data, printed, app>>

(* ... and starts it, with tx_buffer set to NULL before it is freed.         *)
Start(t) ==
    /\ At(t, "start")
    /\ DataSent(Null, 1, uart)
    /\ call' = [call EXCEPT ![t] = Idle]
    /\ mask' = Null
    /\ UNCHANGED <<error, rx, recv_pid, printed, app>>

-----------------------------------------------------------------------------
(* The transmitter has shifted a byte out: TC.                               *)
UartShift ==
    /\ uart = "shifting"
    /\ uart' = "TC"
    /\ UNCHANGED <<memVars, queue, is_sending, tx, wire, rx, recv_pid, data, taskVars, app>>

(* uart_isr on TC, which uart_get_int_type has cleared: the next byte of the *)
(* text, or data_sent.                                                       *)
SentIsr ==
    /\ InterruptsOn
    /\ uart = "TC"
    /\ IF tx.remained > 0
       THEN /\ Write(ByteAt(tx.buffer, tx.cnt))
            /\ tx' = [tx EXCEPT !.cnt = @ + 1, !.remained = @ - 1]
            /\ UNCHANGED <<heap, live, queue, is_sending, data>>
       ELSE DataSent(tx.buffer, is_sending, "idle")
    /\ UNCHANGED <<error, rx, recv_pid, taskVars, app>>

(* uart_isr on RXNE alone: with a receiver the byte is read, and goes into a *)
(* message.                                                                  *)
ReadyIsr ==
    /\ InterruptsOn
    /\ uart # "TC" /\ rx
    /\ recv_pid
    /\ rx' = FALSE
    /\ UNCHANGED <<memVars, queue, lineVars, recv_pid, data, taskVars, app>>

(* A byte comes in.                                                          *)
RxByte ==
    /\ ~rx
    /\ EarlyBytes \/ recv_pid
    /\ rx' = TRUE
    /\ UNCHANGED <<memVars, queue, lineVars, recv_pid, data, taskVars, app>>

pos_console_rx_register ==
    /\ InterruptsOn /\ ~Storm
    /\ ~recv_pid
    /\ recv_pid' = TRUE
    /\ UNCHANGED <<memVars, queue, lineVars, rx, data, taskVars, app>>

(* The other tasks use the same heap.                                        *)
AppMalloc(size) ==
    /\ InterruptsOn /\ ~Storm
    /\ Cardinality(app) < MaxApp
    /\ Malloc(size)
    /\ app' = app \cup (DOMAIN live' \ DOMAIN live)
    /\ UNCHANGED <<queue, lineVars, rx, recv_pid, data, taskVars>>

AppFree(u) ==
    /\ InterruptsOn /\ ~Storm
    /\ Free(u)
    /\ app' = app \ {u}
    /\ UNCHANGED <<queue, lineVars, rx, recv_pid, data, taskVars>>

AppMemset(u) ==
    /\ InterruptsOn /\ ~Storm
    /\ Memset(u, FillLength(u))
    /\ UNCHANGED <<queue, lineVars, rx, recv_pid, data, taskVars, app>>

ConsoleHalted == error # "none" /\ UNCHANGED conVars

-----------------------------------------------------------------------------
(* pos_console_init up to its first print.  TC is set after a reset: uart_isr *)
(* has met it during uart_init, and no queue.  The blocks of the queue and of *)
(* its semaphore, which nobody uses or frees, are left out.                  *)
ConsoleInit ==
    /\ MemoryInit
    /\ queue = <<>>
    /\ is_sending = 0
    /\ tx = [buffer |-> Null, cnt |-> 0, remained |-> 0]
    /\ uart = "idle"
    /\ rx = FALSE
    /\ recv_pid = FALSE
    /\ data = <<>>
    /\ call = [t \in Printer |-> Idle]
    /\ mask = Null
    /\ printed = 0
    /\ app = {}
    /\ wire = <<>>

PrintStep(t) ==
    AllocNode(t) \/ FindTail(t) \/ Link(t) \/ TestSending(t) \/ Start(t)

ConsoleNext ==
    \/ \E t \in Printer : CallPrint(t) \/ PrintStep(t)
    \/ UartShift
    \/ SentIsr
    \/ ReadyIsr
    \/ RxByte
    \/ pos_console_rx_register
    \/ \E size \in Sizes : AppMalloc(size)
    \/ \E u \in app : AppFree(u) \/ AppMemset(u)
    \/ ConsoleHalted

ConsoleSpec == ConsoleInit /\ [][ConsoleNext]_conVars

(* The transmitter works, its interrupt is served, and a task goes on with   *)
(* print (ReadyTaskRuns).                                                    *)
FairConsoleSpec ==
    /\ ConsoleSpec
    /\ \A t \in Printer : WF_conVars(PrintStep(t))
    /\ WF_conVars(UartShift)
    /\ WF_conVars(SentIsr)

-----------------------------------------------------------------------------
(* Every block the console has allocated is a text or a node it will still   *)
(* free: in the hands of print, in the queue, or being sent.                 *)
HeapOwned ==
    DOMAIN heap.hdr =
        app \cup ({tx.buffer} \ {Null})
            \cup (UNION {{call[t].text, call[t].node} \ {Null} : t \in Printer})
            \cup (UNION {{queue[i].text, queue[i].node} : i \in DOMAIN queue})

(* What the line sees is the texts in the order of the calls, each whole.    *)
TextsInOrder ==
    IsPrefix(wire, FlattenSeq([id \in Text |-> [i \in 1 .. TextLen[id] |-> <<id, i - 1>>]]))

(* Nothing printed is left behind when the transmitter stops: every text     *)
(* goes out to its last byte.                                                *)
TextsSent ==
    \A id \in Text :
        printed >= id ~> error # "none" \/ \E i \in DOMAIN wire : wire[i] = <<id, TextLen[id] - 1>>
=============================================================================
