------------------------------ MODULE PosExtInt ------------------------------
(*****************************************************************************)
(* External interrupts: the table of pins (core/pos_extint.c) and the EXTI   *)
(* handlers of the STM32F030x4 (hal/STM32F030x4/src/stm32f030x4_gpio.c).     *)
(* Tasks register pins and release them after each message; the handlers run *)
(* to their end between the steps of the tasks.                              *)
(*****************************************************************************)
EXTENDS Integers, SequencesExt

CONSTANTS
    Line,               \* the pins in use: a pin is an EXTI line
    Port,               \* the port of each
    Adder,              \* the tasks that register pins
    POS_MAX_EXT_INT_PINS,
    Together            \* an edge may come while another line is pending

ASSUME ExtIntAssumption ==
    /\ Line \in SUBSET (0 .. 15)
    /\ Port \in [Line -> {"A", "B", "F"}]
    /\ POS_MAX_EXT_INT_PINS \in Nat \ {0}
    /\ Together \in BOOLEAN

VARIABLES
    enabled,            \* the lines whose interrupt is enabled
    pr,                 \* EXTI->PR: the pending lines
    int_port_index,
    extint_list,
    ext_int_cnt,
    add,                \* each task's place in pos_extint_add, and the pin
    added,              \* the pins for which it has returned
    isr,                \* the lines the running handler has not looked at yet
    mail,               \* POS_TASK_EXT_INT messages: places in extint_list
    holding,            \* places whose message has been received
    fault

tableVars == <<int_port_index, extint_list, ext_int_cnt>>
extVars == <<enabled, pr, tableVars, add, added, isr, mail, holding, fault>>

Slot == 0 .. POS_MAX_EXT_INT_PINS - 1
NoPin == -1
NoEntry == [port |-> "none", pin |-> NoPin, is_active |-> FALSE]
Idle == [pc |-> "idle", pin |-> NoPin]

(* enable_pin_int numbers the ports; ports_name has three elements.          *)
PortIndex(port) == CASE port = "A" -> 0 [] port = "B" -> 1 [] port = "F" -> 3

\* Defect: the second port has the number of the first.
OnePort(index) == "A"

(* ports_name[index]; beyond its end there is no port.                       *)
PortName(index) == IF index \in 0 .. 2 THEN <<"A", "B", "F">>[index + 1] ELSE "none"

\* Defect: the handler looks at its first line only.
VectorHead(l) == <<IF l < 2 THEN 0 ELSE IF l < 4 THEN 2 ELSE 4>>

(* The lines of the handler that serves line l, in its order.                *)
Vector(l) ==
    LET lines == IF l \in {0, 1} THEN {0, 1} ELSE IF l \in {2, 3} THEN {2, 3} ELSE 4 .. 15
    IN  SetToSortSeq(lines \cap Line, <)

-----------------------------------------------------------------------------
TaskRuns == fault = "none" /\ isr = <<>>

(* pos_extint_add, outside of a critical section: the table is full, or the  *)
(* pin and its interrupt are configured ...                                  *)
ExtIntAdd(t, l) ==
    /\ TaskRuns
    /\ add[t] = Idle
    /\ l \notin added /\ \A u \in Adder : add[u].pin # l
    /\ IF ext_int_cnt = POS_MAX_EXT_INT_PINS
       THEN fault' = "low_space" /\ UNCHANGED <<enabled, add>>
       ELSE /\ enabled' = enabled \cup {l}
            /\ add' = [add EXCEPT ![t] = [pc |-> "index", pin |-> l]]
            /\ UNCHANGED fault
    /\ UNCHANGED <<pr, tableVars, added, isr, mail, holding>>

(* ... then int_port_index is written ...                                    *)
WriteIndex(t) ==
    /\ TaskRuns
    /\ add[t].pc = "index"
    /\ int_port_index' = [int_port_index EXCEPT ![add[t].pin] = PortIndex(Port[add[t].pin])]
    /\ add' = [add EXCEPT ![t].pc = "entry"]
    /\ UNCHANGED <<enabled, pr, extint_list, ext_int_cnt, added, isr, mail, holding, fault>>

(* ... the entry behind the last one ...                                     *)
WriteEntry(t) ==
    /\ TaskRuns
    /\ add[t].pc = "entry"
    /\ extint_list' = [extint_list EXCEPT ![ext_int_cnt].port = Port[add[t].pin],
                                          ![ext_int_cnt].pin = add[t].pin]
    /\ add' = [add EXCEPT ![t].pc = "count"]
    /\ UNCHANGED <<enabled, pr, int_port_index, ext_int_cnt, added, isr, mail, holding, fault>>

(* ... and their number.                                                     *)
CountEntry(t) ==
    /\ TaskRuns
    /\ add[t].pc = "count"
    /\ ext_int_cnt' = ext_int_cnt + 1
    /\ added' = added \cup {add[t].pin}
    /\ add' = [add EXCEPT ![t] = Idle]
    /\ UNCHANGED <<enabled, pr, int_port_index, extint_list, isr, mail, holding, fault>>

-----------------------------------------------------------------------------
(* The places of the entries for a pin that are active, or are not.          *)
Matches(port, pin, active) ==
    {i \in 0 .. ext_int_cnt - 1 : extint_list[i] = [port |-> port, pin |-> pin,
                                                   is_active |-> active]}

\* Defect: the message is sent again while the pin is active.
SentAgain(i) == extint_list

Activated(i) == [extint_list EXCEPT ![i].is_active = TRUE]

(* extint_occured: the first inactive entry becomes active and its task gets *)
(* a message; without one the edge is dropped.                               *)
Occured(port, pin) ==
    LET found == Matches(port, pin, FALSE)
    IN  IF found = {}
        THEN UNCHANGED <<extint_list, mail>>
        ELSE LET i == CHOOSE j \in found : \A k \in found : j <= k
             IN  /\ extint_list' = Activated(i)
                 /\ mail' = Append(mail, i)

(* extint_release by the task that has the message of place i.               *)
ExtIntRelease(i) ==
    /\ TaskRuns
    /\ i \in holding
    /\ extint_list' = [extint_list EXCEPT ![i].is_active = FALSE]
    /\ holding' = holding \ {i}
    /\ UNCHANGED <<enabled, pr, int_port_index, ext_int_cnt, add, added, isr, mail, fault>>

(* extint_release of a pin that is not active leaves its critical section    *)
(* twice: the counter of the sections falls below zero.                      *)
ReleaseUnasked(l) ==
    /\ TaskRuns
    /\ Matches(Port[l], l, TRUE) = {}
    /\ fault' = "unexpected_error"
    /\ UNCHANGED <<enabled, pr, tableVars, add, added, isr, mail, holding>>

(* pos_get_message by the task of the first message.                         *)
Receive ==
    /\ TaskRuns
    /\ mail # <<>>
    /\ holding' = holding \cup {Head(mail)}
    /\ mail' = Tail(mail)
    /\ UNCHANGED <<enabled, pr, tableVars, add, added, isr, fault>>

-----------------------------------------------------------------------------
(* An edge on an enabled line.                                               *)
Edge(l) ==
    /\ l \in enabled \ pr
    /\ Together \/ pr = {}
    /\ pr' = pr \cup {l}
    /\ UNCHANGED <<enabled, tableVars, add, added, isr, mail, holding, fault>>

(* A pending line makes its handler run.                                     *)
EnterHandler(l) ==
    /\ TaskRuns
    /\ l \in pr
    /\ isr' = Vector(l)
    /\ UNCHANGED <<enabled, pr, tableVars, add, added, mail, holding, fault>>

(* EXTI->PR |= bit reads the register and writes it back: a one clears its   *)
(* line, and so the write clears every line that was pending.                *)
PrCleared(l) == {}

(* The handler looks at its next line.                                       *)
HandleLine ==
    /\ fault = "none"
    /\ isr # <<>>
    /\ LET l == Head(isr)
       IN  IF l \in pr
           THEN /\ pr' = PrCleared(l)
                /\ Occured(PortName(int_port_index[l]), l)
           ELSE UNCHANGED <<pr, extint_list, mail>>
    /\ isr' = Tail(isr)
    /\ UNCHANGED <<enabled, int_port_index, ext_int_cnt, add, added, holding, fault>>

ExtIntHalted == fault # "none" /\ UNCHANGED extVars

(* Static storage is cleared; pos_extint_init.                               *)
ExtIntInit ==
    /\ enabled = {}
    /\ pr = {}
    /\ int_port_index = [l \in Line |-> 0]
    /\ extint_list = [i \in Slot |-> NoEntry]
    /\ ext_int_cnt = 0
    /\ add = [t \in Adder |-> Idle]
    /\ added = {}
    /\ isr = <<>>
    /\ mail = <<>>
    /\ holding = {}
    /\ fault = "none"

ExtIntNext ==
    \/ \E t \in Adder : \/ \E l \in Line : ExtIntAdd(t, l)
                        \/ WriteIndex(t) \/ WriteEntry(t) \/ CountEntry(t)
    \/ \E i \in Slot : ExtIntRelease(i)
    \/ \E l \in Line : ReleaseUnasked(l) \/ Edge(l) \/ EnterHandler(l)
    \/ Receive
    \/ HandleLine
    \/ ExtIntHalted

ExtIntSpec == ExtIntInit /\ [][ExtIntNext]_extVars

(* Pending interrupts are taken, and handlers go on.                         *)
FairExtIntSpec ==
    /\ ExtIntSpec
    /\ \A l \in Line : WF_extVars(EnterHandler(l))
    /\ WF_extVars(HandleLine)

-----------------------------------------------------------------------------
(* A pin that is registered has one entry, and its handler finds it.         *)
EntryFound ==
    \A l \in added :
        \E i \in 0 .. ext_int_cnt - 1 :
            /\ extint_list[i].pin = l /\ extint_list[i].port = PortName(int_port_index[l])
            /\ \A j \in 0 .. ext_int_cnt - 1 : extint_list[j].pin = l => j = i

(* An entry is active from the message to its release: one message for each  *)
(* press, none lost and none sent twice.                                     *)
ActiveHasMessage ==
    \A i \in Slot :
        /\ Cardinality({k \in DOMAIN mail : mail[k] = i}) + (IF i \in holding THEN 1 ELSE 0)
               = (IF extint_list[i].is_active THEN 1 ELSE 0)
        /\ extint_list[i].is_active => i < ext_int_cnt

(* An edge on a registered pin that is not active leads to a message.        *)
EdgeDelivered ==
    \A l \in Line :
        (l \in pr /\ l \in added /\ Matches(Port[l], l, TRUE) = {})
            ~> (Matches(Port[l], l, TRUE) # {} \/ fault # "none")
=============================================================================
