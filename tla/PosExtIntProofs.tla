---------------------------- MODULE PosExtIntProofs ----------------------------
(* The table of external interrupts, for any number of pins and any order of  *)
(* edges, messages and releases, when one task registers the pins             *)
(* (TwoAdders.cfg shows why). That handlers find their entries also needs the *)
(* pins to be on the ports A and B (PortF.cfg shows why).                     *)
EXTENDS PosExtInt, CommonLemmas

OneAdder == \A t, u \in Adder : t = u
NamedPorts == \A l \in Line : Port[l] \in {"A", "B"}

TableEntry == [port : {"none", "A", "B", "F"}, pin : Line \cup {NoPin}, is_active : BOOLEAN]
Place == [pc : {"idle", "index", "entry", "count"}, pin : Line \cup {NoPin}]

TableTypeOK ==
    /\ int_port_index \in [Line -> 0 .. 3]
    /\ extint_list \in [Slot -> TableEntry]
    /\ ext_int_cnt \in 0 .. POS_MAX_EXT_INT_PINS
    /\ add \in [Adder -> Place]
    /\ added \in SUBSET Line

MessagesTypeOK == mail \in Seq(Slot) /\ holding \in SUBSET Slot

Posted(i) == \E k \in 1 .. Len(mail) : mail[k] = i

(* A message for each active entry, in the mailbox or received.              *)
MessagesFit ==
    /\ EachOnce(mail)
    /\ \A i \in Slot : ~(Posted(i) /\ i \in holding)
    /\ \A i \in Slot : extint_list[i].is_active <=> Posted(i) \/ i \in holding

ActiveAreCounted == \A i \in Slot : extint_list[i].is_active => i < ext_int_cnt

Filled(l) ==
    \E i \in 0 .. ext_int_cnt - 1 : extint_list[i].pin = l /\ extint_list[i].port = Port[l]

(* The entries below the count are those of the registered pins.             *)
TableFits ==
    /\ \A l \in added : Filled(l) /\ int_port_index[l] = PortIndex(Port[l])
    /\ \A i \in 0 .. ext_int_cnt - 1 : extint_list[i].pin \in added
    /\ \A i, j \in 0 .. ext_int_cnt - 1 : extint_list[i].pin = extint_list[j].pin => i = j

(* The one that is being registered has a free slot, and its index and entry *)
(* before it is counted.                                                     *)
AdderFits ==
    \A t \in Adder : add[t].pc # "idle" =>
        /\ ext_int_cnt < POS_MAX_EXT_INT_PINS
        /\ add[t].pin \in Line \ added
        /\ add[t].pc \in {"entry", "count"} =>
               int_port_index[add[t].pin] = PortIndex(Port[add[t].pin])
        /\ add[t].pc = "count" =>
               /\ extint_list[ext_int_cnt].pin = add[t].pin
               /\ extint_list[ext_int_cnt].port = Port[add[t].pin]

ExtIntInv ==
    TableTypeOK /\ MessagesTypeOK /\ MessagesFit /\ ActiveAreCounted /\ TableFits /\ AdderFits

-----------------------------------------------------------------------------
(* PortName finds the port PortIndex numbered, but for port F.               *)
LEMMA NameOfIndex ==
    ASSUME NEW port \in {"A", "B", "F"}
    PROVE  PortIndex(port) \in 0 .. 3 /\ (port # "F" => PortName(PortIndex(port)) = port)
BY DEF PortName, PortIndex

(* With no pin registered there is nothing to find.                          *)
LEMMA ExtIntInvInit == ExtIntInit => ExtIntInv
<1> SUFFICES ASSUME ExtIntInit PROVE ExtIntInv
  OBVIOUS
<1> USE ExtIntAssumption DEF ExtIntInit
<1>1. TableTypeOK
  BY DEF TableTypeOK, TableEntry, NoEntry, NoPin, Place, Idle
<1>2. MessagesTypeOK
  BY DEF MessagesTypeOK
<1>3. \A i : ~Posted(i)
  BY DEF Posted
<1>4. MessagesFit
  BY <1>3 DEF MessagesFit, EachOnce, NoEntry
<1>5. ActiveAreCounted /\ TableFits /\ AdderFits
  BY DEF ActiveAreCounted, TableFits, AdderFits, NoEntry, Idle
<1> QED BY <1>1, <1>2, <1>4, <1>5 DEF ExtIntInv

(* No flag of the table changes.                                             *)
SameFlags == \A i \in Slot : extint_list'[i].is_active = extint_list[i].is_active

(* Then the messages are undisturbed, if they do not change themselves.      *)
LEMMA MessagesKeep ==
    ASSUME MessagesTypeOK, MessagesFit, SameFlags, UNCHANGED <<mail, holding>>
    PROVE  MessagesTypeOK' /\ MessagesFit'
BY DEF MessagesTypeOK, MessagesFit, SameFlags, Posted, EachOnce

(* No entry changes but for its flag.                                        *)
SamePins ==
    \A i \in Slot : /\ extint_list'[i].pin = extint_list[i].pin
                    /\ extint_list'[i].port = extint_list[i].port

(* Then the table is undisturbed.                                            *)
LEMMA TableKeeps ==
    ASSUME TableTypeOK, TableFits, AdderFits, SamePins, extint_list' \in [Slot -> TableEntry],
           UNCHANGED <<int_port_index, ext_int_cnt, add, added>>
    PROVE  TableTypeOK' /\ TableFits' /\ AdderFits'
<1> USE ExtIntAssumption
<1>1. TableTypeOK'
  BY DEF TableTypeOK
<1>2. 0 .. ext_int_cnt - 1 \subseteq Slot
  BY DEF TableTypeOK, Slot
<1>3. ASSUME NEW l \in added PROVE Filled(l)' <=> Filled(l)
  BY <1>2 DEF Filled, SamePins
<1>4. TableFits'
  BY <1>2, <1>3 DEF TableFits, SamePins
<1>5. AdderFits'
  <2>1. ext_int_cnt < POS_MAX_EXT_INT_PINS => ext_int_cnt \in Slot
    BY DEF TableTypeOK, Slot
  <2> QED BY <2>1 DEF AdderFits, SamePins
<1> QED BY <1>1, <1>4, <1>5

-----------------------------------------------------------------------------
(* The handler activates an entry and posts its message.                     *)
LEMMA OccuredKeeps ==
    ASSUME ExtIntInv, NEW port, NEW pin, Occured(port, pin),
           UNCHANGED <<int_port_index, ext_int_cnt, add, added, holding>>
    PROVE  ExtIntInv'
<1> USE ExtIntAssumption DEF ExtIntInv
<1> DEFINE found == Matches(port, pin, FALSE)
           i == CHOOSE j \in found : \A k \in found : j <= k
<1>1. CASE found = {}
  <2>1. UNCHANGED <<extint_list, mail>>
    BY <1>1 DEF Occured
  <2>2. SameFlags /\ SamePins /\ extint_list' \in [Slot -> TableEntry]
    BY <2>1 DEF SameFlags, SamePins, TableTypeOK
  <2>3. ActiveAreCounted'
    BY <2>1 DEF ActiveAreCounted
  <2> QED BY <2>1, <2>2, <2>3, MessagesKeep, TableKeeps
<1>2. CASE found # {}
  <2>1. found \in SUBSET Nat /\ found \subseteq Slot
    BY DEF Matches, Slot, TableTypeOK
  <2>2. i \in found
    <3>1. \E j \in found : \A k \in found : j <= k
      BY <1>2, <2>1, LeastNumber
    <3> QED BY <3>1
  <2>3. extint_list' = Activated(i) /\ mail' = Append(mail, i)
    BY <1>2 DEF Occured
  <2> HIDE DEF i
  <2>4. i \in Slot /\ i < ext_int_cnt /\ extint_list[i].is_active = FALSE
    <3>1. /\ i \in 0 .. ext_int_cnt - 1
          /\ extint_list[i] = [port |-> port, pin |-> pin, is_active |-> FALSE]
      BY <2>2 DEF Matches
    <3>2. extint_list[i].is_active = FALSE
      BY <3>1
    <3>3. ext_int_cnt \in Int
      BY DEF TableTypeOK
    <3> HIDE DEF found
    <3>4. i \in Slot
      BY <2>1, <2>2
    <3> QED BY <3>1, <3>2, <3>3, <3>4
  <2> HIDE DEF found
  <2>5. /\ extint_list' \in [Slot -> TableEntry] /\ SamePins
        /\ extint_list'[i].is_active = TRUE
        /\ \A j \in Slot \ {i} : extint_list'[j].is_active = extint_list[j].is_active
    BY <2>3, <2>4 DEF Activated, TableTypeOK, TableEntry, SamePins
  <2>6. ~Posted(i) /\ i \notin holding
    BY <2>4 DEF MessagesFit
  <2>7. /\ EachOnce(mail')
        /\ \A j : Posted(j)' <=> j = i \/ Posted(j)
    BY <2>3, <2>4, <2>6, JoinList DEF MessagesTypeOK, MessagesFit, Posted
  <2>8. MessagesTypeOK'
    BY <2>3, <2>4, AppendProperties DEF MessagesTypeOK
  <2>9. MessagesFit'
    BY <2>4, <2>5, <2>6, <2>7 DEF MessagesFit
  <2>10. ActiveAreCounted'
    BY <2>4, <2>5 DEF ActiveAreCounted
  <2> QED BY <2>5, <2>8, <2>9, <2>10, TableKeeps
<1> QED BY <1>1, <1>2

(* A received message leaves the mailbox for its task.                       *)
LEMMA ReceiveKeeps ==
    ASSUME ExtIntInv, Receive
    PROVE  ExtIntInv'
<1> USE DEF ExtIntInv
<1> DEFINE h == Head(mail)
<1>1. mail \in Seq(Slot) /\ mail # <<>> /\ EachOnce(mail)
  BY DEF Receive, MessagesTypeOK, MessagesFit
<1>2. mail' = Tail(mail) /\ holding' = holding \cup {h} /\ UNCHANGED <<tableVars, add, added>>
  BY DEF Receive
<1>3. /\ EachOnce(mail') /\ h \in Slot
      /\ \A j : Posted(j)' <=> j # h /\ Posted(j)
  <2> DEFINE q == mail
             r == mail'
  <2>1. r = Tail(q) /\ q \in Seq(Slot) /\ q # <<>> /\ EachOnce(q) /\ h = Head(q)
    BY <1>1, <1>2
  <2> HIDE DEF q, r, h
  <2>2. /\ EachOnce(r) /\ h \in Slot
        /\ \A j : (\E k \in 1 .. Len(r) : r[k] = j)
                  <=> j # h /\ \E k \in 1 .. Len(q) : q[k] = j
    <3>1. /\ EachOnce(Tail(q)) /\ Head(q) \in Slot
          /\ \A j : (\E k \in 1 .. Len(Tail(q)) : Tail(q)[k] = j)
                    <=> j # Head(q) /\ \E k \in 1 .. Len(q) : q[k] = j
      BY <2>1, LeaveList
    <3> QED BY <2>1, <3>1
  <2> QED BY <2>2 DEF Posted, q, r
<1>4. Posted(h)
  BY <1>1, HeadTailProperties, EmptySeq DEF Posted
<1>5. MessagesTypeOK'
  BY <1>1, <1>2, <1>3, HeadTailProperties DEF MessagesTypeOK
<1> HIDE DEF h
<1>6. MessagesFit'
  BY <1>2, <1>3, <1>4 DEF MessagesFit, tableVars
<1>7. ActiveAreCounted'
  BY <1>2 DEF ActiveAreCounted, tableVars
<1>8. TableTypeOK' /\ TableFits' /\ AdderFits'
  BY <1>2, TableKeeps DEF SamePins, tableVars, TableTypeOK
<1> QED BY <1>5, <1>6, <1>7, <1>8

(* A release ends what the message began.                                    *)
LEMMA ReleaseKeeps ==
    ASSUME ExtIntInv, NEW i \in Slot, ExtIntRelease(i)
    PROVE  ExtIntInv'
<1> USE DEF ExtIntInv
<1>1. /\ i \in holding /\ holding' = holding \ {i}
      /\ extint_list' = [extint_list EXCEPT ![i].is_active = FALSE]
      /\ UNCHANGED <<int_port_index, ext_int_cnt, add, added, mail>>
  BY DEF ExtIntRelease
<1>2. /\ extint_list' \in [Slot -> TableEntry] /\ SamePins
      /\ extint_list'[i].is_active = FALSE
      /\ \A j \in Slot \ {i} : extint_list'[j].is_active = extint_list[j].is_active
  BY <1>1 DEF TableTypeOK, TableEntry, SamePins
<1>3. MessagesTypeOK'
  BY <1>1 DEF MessagesTypeOK
<1>4. \A j : Posted(j)' <=> Posted(j)
  BY <1>1 DEF Posted
<1>5. MessagesFit'
  BY <1>1, <1>2, <1>4 DEF MessagesFit, EachOnce
<1>6. ActiveAreCounted'
  BY <1>1, <1>2 DEF ActiveAreCounted
<1> QED BY <1>1, <1>2, <1>3, <1>5, <1>6, TableKeeps

-----------------------------------------------------------------------------
(* The registration keeps the flags; its four steps, one by one.             *)
LEMMA ExtIntAddKeeps ==
    ASSUME OneAdder, ExtIntInv, NEW t \in Adder, NEW l \in Line, ExtIntAdd(t, l)
    PROVE  ExtIntInv'
<1> USE ExtIntAssumption DEF ExtIntInv
<1>1. UNCHANGED <<tableVars, added, mail, holding>> /\ l \notin added
  BY DEF ExtIntAdd
<1>2. \/ UNCHANGED add
      \/ /\ ext_int_cnt # POS_MAX_EXT_INT_PINS
         /\ add' = [add EXCEPT ![t] = [pc |-> "index", pin |-> l]]
  BY DEF ExtIntAdd
<1>3. MessagesTypeOK' /\ MessagesFit' /\ ActiveAreCounted'
  BY <1>1, MessagesKeep DEF SameFlags, ActiveAreCounted, tableVars
<1>4. TableTypeOK'
  BY <1>1, <1>2 DEF TableTypeOK, Place, tableVars
<1>5. TableFits'
  BY <1>1 DEF TableFits, Filled, tableVars
<1>6. AdderFits'
  BY <1>1, <1>2 DEF AdderFits, TableTypeOK, tableVars
<1> QED BY <1>3, <1>4, <1>5, <1>6

(* The adder has enabled the interrupt and writes the index of the port ...  *)
LEMMA WriteIndexKeeps ==
    ASSUME OneAdder, ExtIntInv, NEW t \in Adder, WriteIndex(t)
    PROVE  ExtIntInv'
<1> USE ExtIntAssumption DEF ExtIntInv
<1> DEFINE p == add[t].pin
<1>1. /\ UNCHANGED <<extint_list, ext_int_cnt, added, mail, holding>>
      /\ add[t].pc = "index" /\ add' = [add EXCEPT ![t].pc = "entry"]
      /\ int_port_index' = [int_port_index EXCEPT ![p] = PortIndex(Port[p])]
  BY DEF WriteIndex
<1>2. p \in Line \ added /\ ext_int_cnt < POS_MAX_EXT_INT_PINS
  BY <1>1 DEF AdderFits
<1>3. MessagesTypeOK' /\ MessagesFit' /\ ActiveAreCounted'
  BY <1>1, MessagesKeep DEF SameFlags, ActiveAreCounted
<1>4. TableTypeOK'
  <2>1. PortIndex(Port[p]) \in 0 .. 3
    BY <1>2, NameOfIndex
  <2> QED BY <1>1, <1>2, <2>1 DEF TableTypeOK, Place
<1>5. TableFits'
  BY <1>1, <1>2 DEF TableFits, Filled, TableTypeOK
<1>6. AdderFits'
  <2>1. add'[t].pc = "entry" /\ add'[t].pin = p
    BY <1>1 DEF TableTypeOK, Place
  <2>2. int_port_index'[p] = PortIndex(Port[p])
    BY <1>1, <1>2 DEF TableTypeOK
  <2> QED BY <1>1, <1>2, <2>1, <2>2 DEF AdderFits, OneAdder
<1> QED BY <1>3, <1>4, <1>5, <1>6

(* ... the entry behind the last one ...                                     *)
LEMMA WriteEntryKeeps ==
    ASSUME OneAdder, ExtIntInv, NEW t \in Adder, WriteEntry(t)
    PROVE  ExtIntInv'
<1> USE ExtIntAssumption DEF ExtIntInv
<1> DEFINE p == add[t].pin
           c == ext_int_cnt
<1>1. /\ UNCHANGED <<int_port_index, ext_int_cnt, added, mail, holding>>
      /\ add[t].pc = "entry" /\ add' = [add EXCEPT ![t].pc = "count"]
      /\ extint_list' = [extint_list EXCEPT ![c].port = Port[p], ![c].pin = p]
  BY DEF WriteEntry
<1>2. p \in Line \ added /\ c < POS_MAX_EXT_INT_PINS /\ Port[p] \in {"A", "B", "F"}
  BY <1>1 DEF AdderFits
<1>3. c \in Slot /\ c \in Nat
  BY <1>2 DEF TableTypeOK, Slot
<1>4. /\ extint_list' \in [Slot -> TableEntry]
      /\ extint_list'[c].pin = p /\ extint_list'[c].port = Port[p]
      /\ \A i \in Slot \ {c} : extint_list'[i] = extint_list[i]
      /\ SameFlags
  BY <1>1, <1>2, <1>3 DEF TableTypeOK, TableEntry, SameFlags
<1>5. MessagesTypeOK' /\ MessagesFit' /\ ActiveAreCounted'
  BY <1>1, <1>4, MessagesKeep DEF SameFlags, ActiveAreCounted
<1>6. TableTypeOK'
  BY <1>1, <1>4 DEF TableTypeOK, Place
<1>7. \A i \in 0 .. c - 1 : i \in Slot \ {c}
  BY <1>3, <1>2 DEF Slot
<1>8. TableFits'
  BY <1>1, <1>4, <1>7 DEF TableFits, Filled
<1>9. AdderFits'
  <2>1. add'[t].pc = "count" /\ add'[t].pin = p
    BY <1>1 DEF TableTypeOK, Place
  <2> QED BY <1>1, <1>2, <1>4, <2>1 DEF AdderFits, OneAdder
<1> QED BY <1>5, <1>6, <1>8, <1>9

(* ... and the count, by which the entry is found.                           *)
LEMMA CountEntryKeeps ==
    ASSUME OneAdder, ExtIntInv, NEW t \in Adder, CountEntry(t)
    PROVE  ExtIntInv'
<1> USE ExtIntAssumption DEF ExtIntInv
<1> DEFINE p == add[t].pin
           c == ext_int_cnt
<1>1. /\ UNCHANGED <<int_port_index, extint_list, mail, holding>>
      /\ add[t].pc = "count" /\ add' = [add EXCEPT ![t] = Idle]
      /\ ext_int_cnt' = c + 1 /\ added' = added \cup {p}
  BY DEF CountEntry
<1>2. /\ p \in Line \ added /\ c < POS_MAX_EXT_INT_PINS
      /\ int_port_index[p] = PortIndex(Port[p])
      /\ extint_list[c].pin = p /\ extint_list[c].port = Port[p]
  BY <1>1 DEF AdderFits
<1>3. MessagesTypeOK' /\ MessagesFit'
  BY <1>1, MessagesKeep DEF SameFlags
<1>4. ActiveAreCounted'
  BY <1>1 DEF ActiveAreCounted, TableTypeOK, Slot
<1>5. TableTypeOK'
  <2>1. ext_int_cnt' \in 0 .. POS_MAX_EXT_INT_PINS
    BY <1>1, <1>2 DEF TableTypeOK
  <2>2. add' \in [Adder -> Place] /\ added' \in SUBSET Line
    BY <1>1, <1>2 DEF TableTypeOK, Place, Idle
  <2> QED BY <1>1, <2>1, <2>2 DEF TableTypeOK
<1>6. c \in Nat /\ 0 .. ext_int_cnt' - 1 = 0 .. c - 1 \cup {c}
  BY <1>1 DEF TableTypeOK
<1>7. TableFits'
  <2>1. \A l \in added' : Filled(l)' /\ int_port_index'[l] = PortIndex(Port[l])
    BY <1>1, <1>2, <1>6 DEF TableFits, Filled
  <2>2. \A i \in 0 .. ext_int_cnt' - 1 : extint_list'[i].pin \in added'
    BY <1>1, <1>2, <1>6 DEF TableFits
  <2>3. \A i, j \in 0 .. ext_int_cnt' - 1 :
            extint_list'[i].pin = extint_list'[j].pin => i = j
    BY <1>1, <1>2, <1>6 DEF TableFits
  <2> QED BY <2>1, <2>2, <2>3 DEF TableFits
<1>8. AdderFits'
  BY <1>1 DEF AdderFits, OneAdder, Idle, TableTypeOK
<1> QED BY <1>3, <1>4, <1>5, <1>7, <1>8

-----------------------------------------------------------------------------
(* Every step keeps the invariant ...                                        *)
LEMMA ExtIntInvStep ==
    ASSUME OneAdder, ExtIntInv, [ExtIntNext]_extVars
    PROVE  ExtIntInv'
<1>1. CASE UNCHANGED <<tableVars, add, added, mail, holding>>
  <2>1. UNCHANGED <<int_port_index, extint_list, ext_int_cnt, add, added, mail, holding>>
    BY <1>1 DEF tableVars
  <2>2. MessagesTypeOK' /\ MessagesFit' /\ ActiveAreCounted'
    BY <2>1, MessagesKeep DEF ExtIntInv, SameFlags, ActiveAreCounted
  <2>3. TableTypeOK' /\ TableFits' /\ AdderFits'
    BY <2>1, TableKeeps DEF ExtIntInv, SamePins, TableTypeOK
  <2> QED BY <2>2, <2>3 DEF ExtIntInv
<1>2. CASE HandleLine
  <2> DEFINE l == Head(isr)
  <2>1. /\ UNCHANGED <<int_port_index, ext_int_cnt, add, added, holding>>
        /\ \/ Occured(PortName(int_port_index[l]), l)
           \/ UNCHANGED <<extint_list, mail>>
    BY <1>2 DEF HandleLine
  <2> QED BY <1>1, <2>1, OccuredKeeps DEF tableVars
<1>3. ASSUME NEW t \in Adder, NEW l \in Line, ExtIntAdd(t, l) PROVE ExtIntInv'
  BY <1>3, ExtIntAddKeeps
<1>4. ASSUME NEW t \in Adder, WriteIndex(t) PROVE ExtIntInv'
  BY <1>4, WriteIndexKeeps
<1>5. ASSUME NEW t \in Adder, WriteEntry(t) PROVE ExtIntInv'
  BY <1>5, WriteEntryKeeps
<1>6. ASSUME NEW t \in Adder, CountEntry(t) PROVE ExtIntInv'
  BY <1>6, CountEntryKeeps
<1>7. ASSUME NEW i \in Slot, ExtIntRelease(i) PROVE ExtIntInv'
  BY <1>7, ReleaseKeeps
<1>8. ASSUME NEW l \in Line, ReleaseUnasked(l) \/ Edge(l) \/ EnterHandler(l) PROVE ExtIntInv'
  BY <1>1, <1>8 DEF ReleaseUnasked, Edge, EnterHandler
<1>9. CASE Receive
  BY <1>9, ReceiveKeeps
<1>10. CASE ExtIntHalted \/ UNCHANGED extVars
  BY <1>1, <1>10 DEF ExtIntHalted, extVars
<1> QED
  BY <1>2, <1>3, <1>4, <1>5, <1>6, <1>7, <1>8, <1>9, <1>10 DEF ExtIntNext

(* ... so it always holds.                                                   *)
LEMMA ExtIntInvAlways ==
    ASSUME OneAdder
    PROVE  ExtIntSpec => []ExtIntInv
<1>1. ExtIntInv /\ [ExtIntNext]_extVars => ExtIntInv'
  BY ExtIntInvStep
<1> QED BY <1>1, ExtIntInvInit, PTL DEF ExtIntSpec

(* Every registered pin has one entry, and its handler finds it: what        *)
(* pos_extint_add writes and extint_occured searches (pos_extint.c).         *)
THEOREM EntriesAreFound ==
    ASSUME OneAdder, NamedPorts
    PROVE  ExtIntSpec => []EntryFound
<1>1. ASSUME ExtIntInv PROVE EntryFound
  <2> SUFFICES ASSUME NEW l \in added
               PROVE  \E i \in 0 .. ext_int_cnt - 1 :
                         /\ extint_list[i].pin = l
                         /\ extint_list[i].port = PortName(int_port_index[l])
                         /\ \A j \in 0 .. ext_int_cnt - 1 : extint_list[j].pin = l => j = i
    BY DEF EntryFound
  <2>1. l \in Line /\ Filled(l) /\ int_port_index[l] = PortIndex(Port[l])
    BY <1>1 DEF ExtIntInv, TableFits, TableTypeOK
  <2>2. PICK i \in 0 .. ext_int_cnt - 1 : extint_list[i].pin = l /\ extint_list[i].port = Port[l]
    BY <2>1 DEF Filled
  <2>3. PortName(int_port_index[l]) = Port[l]
    BY <2>1, NameOfIndex DEF NamedPorts
  <2>4. \A j \in 0 .. ext_int_cnt - 1 : extint_list[j].pin = l => j = i
    BY <1>1, <2>2 DEF ExtIntInv, TableFits
  <2> QED BY <2>2, <2>3, <2>4
<1> QED BY <1>1, ExtIntInvAlways, PTL

(* One message for each activation of a pin: is_active is set with the       *)
(* message of extint_occured and cleared by the release that follows it.     *)
THEOREM OneMessageEach ==
    ASSUME OneAdder
    PROVE  ExtIntSpec => []ActiveHasMessage
<1>1. ASSUME ExtIntInv PROVE ActiveHasMessage
  <2> SUFFICES ASSUME NEW i \in Slot
               PROVE  LET P == {k \in DOMAIN mail : mail[k] = i}
                      IN  /\ Cardinality(P) + (IF i \in holding THEN 1 ELSE 0)
                                = (IF extint_list[i].is_active THEN 1 ELSE 0)
                          /\ extint_list[i].is_active => i < ext_int_cnt
    BY DEF ActiveHasMessage
  <2> DEFINE P == {k \in DOMAIN mail : mail[k] = i}
  <2>1. /\ P = {k \in 1 .. Len(mail) : mail[k] = i}
        /\ EachOnce(mail)
        /\ ~(Posted(i) /\ i \in holding)
        /\ extint_list[i].is_active <=> Posted(i) \/ i \in holding
        /\ extint_list[i].is_active => i < ext_int_cnt
    BY <1>1, LenProperties DEF ExtIntInv, MessagesTypeOK, MessagesFit, ActiveAreCounted
  <2>2. ~Posted(i) => Cardinality(P) = 0
    <3>1. ~Posted(i) => P = {}
      BY <2>1 DEF Posted
    <3> QED BY <3>1, FS_EmptySet
  <2>3. Posted(i) => Cardinality(P) = 1
    <3>1. ASSUME Posted(i) PROVE \E k : P = {k}
      <4>1. PICK k \in 1 .. Len(mail) : mail[k] = i
        BY <3>1 DEF Posted
      <4>2. \A j \in 1 .. Len(mail) : mail[j] = i => j = k
        BY <2>1, <4>1 DEF EachOnce
      <4> HIDE DEF P
      <4>3. P = {k}
        BY <2>1, <4>1, <4>2
      <4> QED BY <4>3
    <3> QED BY <3>1, FS_Singleton
  <2> HIDE DEF P
  <2>4. Cardinality(P) + (IF i \in holding THEN 1 ELSE 0)
            = (IF extint_list[i].is_active THEN 1 ELSE 0)
    BY <2>1, <2>2, <2>3
  <2> QED BY <2>1, <2>4 DEF P
<1> QED BY <1>1, ExtIntInvAlways, PTL
=============================================================================
