---------------------------- MODULE PosTimerProofs ----------------------------
(*****************************************************************************)
(* Theorems about the software timers for every number of tasks and timers   *)
(* and every width of the counter, with the calls that have read a head that *)
(* is gone.  Only the bounds of the counter need times that fit its          *)
(* registers: pos_restart_timer does not cap the time of a timer.            *)
(*****************************************************************************)
EXTENDS PosTimer, CommonLemmas

ShortTimes == \A time \in Times : time <= ARR_MAX

(* An identifier names one timer of the list, and no time of a timer can be  *)
(* taken from complete_time twice.                                           *)
NamedOnce(list) == \A i, j \in 1 .. Len(list) : list[i].id = list[j].id => i = j
Covered(list) == \A i \in 1 .. Len(list) : list[i].time <= list[i].left

ListOK(list) == list \in Seq(Entry) /\ NamedOnce(list) /\ Covered(list)

Short(list) == \A i \in 1 .. Len(list) : list[i].time <= ARR_MAX

-----------------------------------------------------------------------------
(* The operations of the list.                                               *)

(* Whatever part of a list is kept, in whatever order, is as good as it was. *)
LEMMA PartOK ==
    ASSUME NEW list, ListOK(list), NEW part \in Seq(Entry),
           NEW f \in [1 .. Len(part) -> 1 .. Len(list)],
           \A i, j \in 1 .. Len(part) : f[i] = f[j] => i = j,
           \A i \in 1 .. Len(part) : part[i] = list[f[i]]
    PROVE  ListOK(part) /\ (Short(list) => Short(part))
<1>1. \A i \in 1 .. Len(part) : f[i] \in 1 .. Len(list)
  OBVIOUS
<1>2. NamedOnce(part)
  BY <1>1 DEF ListOK, NamedOnce
<1>3. Covered(part) /\ (Short(list) => Short(part))
  BY <1>1 DEF ListOK, Covered, Short
<1> QED BY <1>2, <1>3 DEF ListOK

(* pos_update_timers counts every timer down and moves none.                 *)
LEMMA UpdatedOK ==
    ASSUME NEW list, ListOK(list), NEW elapsed \in Nat
    PROVE  /\ ListOK(Updated(list, elapsed)) /\ (Short(list) => Short(Updated(list, elapsed)))
           /\ Len(Updated(list, elapsed)) = Len(list)
           /\ \A i \in 1 .. Len(list) : Updated(list, elapsed)[i] = Counted(list[i], elapsed)
           /\ Ids(Updated(list, elapsed)) = Ids(list)
<1> DEFINE r == Updated(list, elapsed)
<1>1. Len(list) \in Nat /\ \A i \in 1 .. Len(list) : list[i] \in Entry
  BY LenProperties DEF ListOK
<1>2. \A i \in 1 .. Len(list) :
          /\ Counted(list[i], elapsed) \in Entry
          /\ Counted(list[i], elapsed).id = list[i].id
          /\ Counted(list[i], elapsed).time <= list[i].time
          /\ Counted(list[i], elapsed).time <= Counted(list[i], elapsed).left
  <2> SUFFICES ASSUME NEW i \in 1 .. Len(list)
               PROVE  /\ Counted(list[i], elapsed) \in Entry
                      /\ Counted(list[i], elapsed).id = list[i].id
                      /\ Counted(list[i], elapsed).time <= list[i].time
                      /\ Counted(list[i], elapsed).time <= Counted(list[i], elapsed).left
    OBVIOUS
  <2>1. PICK e \in Entry : e = list[i] /\ e.time <= e.left
    BY <1>1 DEF ListOK, Covered
  <2>2. CASE e.time < elapsed
    <3>1. Counted(e, elapsed) = [e EXCEPT !.time = 0]
      BY <2>2 DEF Counted
    <3>2. e.time \in Nat /\ e.left \in Nat
      BY DEF Entry
    <3>3. LET c == [e EXCEPT !.time = 0]
          IN  c \in Entry /\ c.id = e.id /\ c.time = 0 /\ c.left = e.left
      BY DEF Entry
    <3> QED BY <2>1, <3>1, <3>2, <3>3
  <2>3. CASE ~(e.time < elapsed)
    <3>1. Counted(e, elapsed) = [e EXCEPT !.left = e.left - elapsed, !.time = e.time - elapsed]
      BY <2>3 DEF Counted
    <3>2. PICK l, t \in Nat : l = e.left - elapsed /\ t = e.time - elapsed
      BY <2>1, <2>3 DEF Entry
    <3>3. t <= l /\ t <= e.time
      BY <2>1, <3>2 DEF Entry
    <3>4. LET c == [e EXCEPT !.left = l, !.time = t]
          IN  c \in Entry /\ c.id = e.id /\ c.time = t /\ c.left = l
      BY DEF Entry
    <3> QED BY <2>1, <3>1, <3>2, <3>3, <3>4
  <2> QED BY <2>2, <2>3
<1>3. r = [i \in 1 .. Len(list) |-> Counted(list[i], elapsed)]
  BY DEF Updated
<1> HIDE DEF r
<1>4. r \in Seq(Entry) /\ Len(r) = Len(list)
  <2>1. r \in [1 .. Len(list) -> Entry]
    BY <1>2, <1>3
  <2> QED BY <1>1, <2>1, SeqDef
<1>5. \A i \in 1 .. Len(list) : r[i] = Counted(list[i], elapsed)
  BY <1>3
<1>6. NamedOnce(r) /\ Covered(r) /\ (Short(list) => Short(r))
  <2>1. NamedOnce(r) /\ Covered(r)
    BY <1>2, <1>4, <1>5 DEF ListOK, NamedOnce, Covered
  <2>2. \A i \in 1 .. Len(list) : r[i].time \in Nat /\ list[i].time \in Nat
    BY <1>1, <1>2, <1>5 DEF Entry
  <2>3. Short(list) => Short(r)
    BY <1>2, <1>4, <1>5, <2>2, TimerAssumption DEF Short
  <2> QED BY <2>1, <2>3
<1>7. Ids(r) = Ids(list)
  BY <1>2, <1>4, <1>5 DEF Ids
<1> QED BY <1>4, <1>5, <1>6, <1>7 DEF ListOK, r

(* The time of the head is over when it has been counted down by itself.     *)
LEMMA HeadElapses ==
    ASSUME NEW list, ListOK(list), list # <<>>
    PROVE  /\ Updated(list, Head(list).time) # <<>>
           /\ Head(Updated(list, Head(list).time)).time = 0
<1>1. Head(list) \in Entry /\ Len(list) \in Nat \ {0} /\ Head(list) = list[1]
  BY HeadTailProperties, EmptySeq DEF ListOK
<1> DEFINE t == Head(list).time
           r == Updated(list, t)
<1>2. t \in Nat /\ list[1].time = t
  BY <1>1 DEF Entry
<1> HIDE DEF t
<1>3. r \in Seq(Entry) /\ Len(r) = Len(list) /\ r[1] = Counted(list[1], t)
  BY <1>1, <1>2, UpdatedOK DEF ListOK
<1> HIDE DEF r
<1>4. Counted(list[1], t).time = 0
  <2>1. PICK e \in Entry : e = list[1] /\ e.time = t
    BY <1>1, <1>2
  <2>2. Counted(e, t) = [e EXCEPT !.left = e.left - t, !.time = e.time - t]
    BY <1>2, <2>1 DEF Counted
  <2> QED BY <1>2, <2>1, <2>2 DEF Entry
<1>5. r # <<>> /\ Head(r) = r[1]
  BY <1>1, <1>3, HeadTailProperties, EmptySeq
<1> QED BY <1>3, <1>4, <1>5 DEF r, t

(* pos__add_timer puts a timer that is not in the list somewhere into it.    *)
LEMMA AddedOK ==
    ASSUME NEW list, ListOK(list), NEW e \in Entry, e.id \notin Ids(list), NEW time \in Nat
    PROVE  /\ ListOK(Added(list, e, time)) /\ Added(list, e, time) # <<>>
           /\ Short(list) => Short(Added(list, e, time))
<1> DEFINE later == {i \in 1 .. Len(list) : list[i].time > time}
           at == IF later = {} THEN Len(list) + 1
                 ELSE CHOOSE i \in later : \A j \in later : i <= j
           x == [e EXCEPT !.time = Capped(time), !.left = time]
           r == Added(list, e, time)
<1>1. Len(list) \in Nat /\ later \in SUBSET Nat /\ list \in Seq(Entry)
  BY LenProperties DEF ListOK
<1>2. later # {} => at \in later
  BY <1>1, LeastNumber
<1>3. at \in 1 .. Len(list) + 1
  BY <1>1, <1>2
<1>4. r = Inserted(list, at, x)
  BY DEF Added, InsertAt, Inserted
<1>5. Capped(time) \in Nat /\ Capped(time) <= time /\ Capped(time) <= ARR_MAX
  BY TimerAssumption DEF Capped
<1>6. x \in Entry /\ x.id = e.id /\ x.time <= x.left /\ x.time <= ARR_MAX
  <2> DEFINE c == Capped(time)
  <2>1. c \in Nat /\ c <= time /\ c <= ARR_MAX /\ x = [e EXCEPT !.time = c, !.left = time]
    BY <1>5
  <2> HIDE DEF c, x
  <2> QED BY <2>1 DEF Entry
<1> HIDE DEF at, later, x, r
<1>7. /\ r \in Seq(Entry) /\ Len(r) = Len(list) + 1
      /\ \A k \in 1 .. Len(list) + 1 :
             r[k] = IF k < at THEN list[k] ELSE IF k = at THEN x ELSE list[k - 1]
  <2>1. /\ Inserted(list, at, x) \in Seq(Entry)
        /\ Len(Inserted(list, at, x)) = Len(list) + 1
        /\ \A k \in 1 .. Len(list) + 1 :
               Inserted(list, at, x)[k] = IF k < at THEN list[k]
                                          ELSE IF k = at THEN x ELSE list[k - 1]
    BY <1>1, <1>3, <1>6, InsertedPlaces
  <2> QED BY <1>4, <2>1
<1> DEFINE Old(k) == IF k < at THEN k ELSE k - 1
<1>8. \A k \in 1 .. Len(r) : k # at => Old(k) \in 1 .. Len(list) /\ r[k] = list[Old(k)]
  BY <1>1, <1>3, <1>7
<1>9. \A i \in 1 .. Len(list) : list[i].id # x.id
  BY <1>6 DEF Ids
<1>10. \A k \in 1 .. Len(r) : r[k].id = x.id <=> k = at
  <2>1. r[at] = x
    BY <1>1, <1>3, <1>7
  <2> QED BY <1>8, <1>9, <2>1
<1>11. NamedOnce(r)
  <2> SUFFICES ASSUME NEW i \in 1 .. Len(r), NEW j \in 1 .. Len(r), r[i].id = r[j].id
               PROVE  i = j
    BY DEF NamedOnce
  <2>1. CASE i = at \/ j = at
    BY <1>10, <2>1
  <2>2. CASE i # at /\ j # at
    <3>1. Old(i) = Old(j)
      BY <1>8, <2>2 DEF ListOK, NamedOnce
    <3> QED BY <1>1, <1>3, <1>7, <2>2, <3>1
  <2> QED BY <2>1, <2>2
<1>12. \A k \in 1 .. Len(r) : r[k] = x \/ \E i \in 1 .. Len(list) : r[k] = list[i]
  BY <1>1, <1>3, <1>7, <1>8
<1>13. Covered(r) /\ (Short(list) => Short(r))
  BY <1>6, <1>12 DEF ListOK, Covered, Short
<1>14. r # <<>>
  BY <1>1, <1>7, EmptySeq
<1> QED BY <1>7, <1>11, <1>13, <1>14 DEF ListOK, r

(* A call that changes one timer and keeps its identifier.                   *)
LEMMA ReplacedOK ==
    ASSUME NEW list, ListOK(list), NEW i \in 1 .. Len(list), NEW e \in Entry,
           e.id = list[i].id, e.time <= e.left
    PROVE  /\ ListOK([list EXCEPT ![i] = e]) /\ Len([list EXCEPT ![i] = e]) = Len(list)
           /\ Short(list) /\ e.time <= ARR_MAX => Short([list EXCEPT ![i] = e])
<1> DEFINE r == [list EXCEPT ![i] = e]
<1>1. list \in Seq(Entry) /\ Len(list) \in Nat
  BY LenProperties DEF ListOK
<1>2. /\ r \in Seq(Entry) /\ Len(r) = Len(list)
      /\ \A j \in 1 .. Len(list) : r[j] = IF j = i THEN e ELSE list[j]
  BY <1>1, ExceptSeq
<1> HIDE DEF r
<1>3. NamedOnce(r) /\ Covered(r)
  BY <1>2 DEF ListOK, NamedOnce, Covered
<1>4. Short(list) /\ e.time <= ARR_MAX => Short(r)
  BY <1>2 DEF Short
<1> QED BY <1>2, <1>3, <1>4 DEF ListOK, r

(* A list has as many identifiers as timers.                                 *)
LEMMA IdsCount ==
    ASSUME NEW list, ListOK(list)
    PROVE  IsFiniteSet(Ids(list)) /\ Cardinality(Ids(list)) = Len(list)
<1> DEFINE q == [i \in 1 .. Len(list) |-> list[i].id]
<1>1. Len(list) \in Nat /\ \A i \in 1 .. Len(list) : list[i].id \in Id
  <2>1. Len(list) \in Nat /\ \A i \in 1 .. Len(list) : list[i] \in Entry
    BY LenProperties DEF ListOK
  <2>2. \A e \in Entry : e.id \in Id
    BY DEF Entry
  <2> QED BY <2>1, <2>2
<1>2. q \in Seq(Id) /\ Len(q) = Len(list)
  <2>1. q \in [1 .. Len(list) -> Id]
    BY <1>1
  <2> HIDE DEF q
  <2> QED BY <1>1, <2>1, SeqDef
<1>3. EachOnce(q)
  BY <1>2 DEF EachOnce, ListOK, NamedOnce
<1>4. {q[i] : i \in 1 .. Len(q)} = Ids(list)
  BY <1>2 DEF Ids
<1> HIDE DEF q
<1>5. Cardinality(Ids(list)) = Len(list)
  BY <1>2, <1>3, <1>4, EachOnceCounts
<1>6. IsFiniteSet(Ids(list))
  <2>1. Ids(list) \subseteq Id
    BY <1>1 DEF Ids
  <2>2. IsFiniteSet(Id)
    BY FS_Interval, TimerAssumption DEF Id
  <2> QED BY <2>1, <2>2, FS_Subset
<1> QED BY <1>5, <1>6

(* While a timer can be added there is an identifier for it.                 *)
LEMMA NewIdIsNew ==
    ASSUME ListOK(timers), Len(timers) < MaxTimers
    PROVE  NewId \in Id /\ NewId \notin Ids(timers)
<1>1. Cardinality(Id) = MaxTimers /\ MaxTimers \in Nat /\ Len(timers) \in Nat
  BY FS_Interval, TimerAssumption, LenProperties DEF Id, ListOK
<1>2. Id \ Ids(timers) # {}
  <2> SUFFICES ASSUME Id \subseteq Ids(timers) PROVE FALSE
    OBVIOUS
  <2>1. MaxTimers <= Len(timers)
    BY <1>1, IdsCount, FS_Subset
  <2> QED BY <1>1, <2>1
<1>3. Id \ Ids(timers) \in SUBSET Nat
  BY TimerAssumption DEF Id
<1>4. NewId \in Id \ Ids(timers)
  BY <1>2, <1>3, LeastNumber DEF NewId
<1> QED BY <1>4

-----------------------------------------------------------------------------
(* The invariant.  The counter counts while there are timers, and stands at  *)
(* zero when its interrupt is due or its handler runs ...                    *)
CounterInv ==
    /\ state = cen
    /\ timers = <<>> /\ ~busy => ~cen
    /\ cnt <= arr
    /\ uif \/ busy => cnt = 0

TimerInv == TimerTypeOK /\ ListOK(timers) /\ CounterInv

(* ... and the handler leaves its loop with the time of the head in the      *)
(* reload register.                                                          *)
ReloadInv ==
    /\ Short(timers)
    /\ timers # <<>> /\ ~busy => arr # 0
    /\ timers # <<>> /\ busy => Head(timers).time \in {0, arr}

Kept == TimerInv' /\ (ShortTimes /\ ReloadInv => ReloadInv')

(* What a call has read becomes stale when that node is gone.                *)
LEMMA DroppedSeen ==
    ASSUME TimerTypeOK, NEW gone
    PROVE  Dropped(gone) \in [Caller -> Id \cup {Idle, Empty, Stale}]
  BY DEF Dropped, TimerTypeOK

(* The registers take any time modulo their width.                           *)
LEMMA RegisterValue ==
    ASSUME NEW time \in Nat
    PROVE  /\ time % (ARR_MAX + 1) \in 0 .. ARR_MAX
           /\ time <= ARR_MAX => time % (ARR_MAX + 1) = time
<1>1. ARR_MAX + 1 \in Nat \ {0} /\ ARR_MAX \in Nat
  BY TimerAssumption
<1>2. time % (ARR_MAX + 1) \in 0 .. ARR_MAX
  BY <1>1
<1>3. time <= ARR_MAX => time % (ARR_MAX + 1) = time
  BY <1>1
<1> QED BY <1>2, <1>3

(* A step that leaves the list and the counter alone.                        *)
LEMMA SameKeeps ==
    ASSUME TimerInv, UNCHANGED <<timers, state, arr, cnt, cen, uif, busy>>,
           seen' \in [Caller -> Id \cup {Idle, Empty, Stale}], fired' \in SUBSET Id,
           fault' \in {"none", "stale_node", "low_space"}
    PROVE  Kept
  BY DEF TimerInv, TimerTypeOK, ListOK, CounterInv, Kept, ReloadInv, Covered, NamedOnce, Short

(* A call that changes the list and not the counter, while there are timers. *)
LEMMA ListKeeps ==
    ASSUME TimerInv, ~busy, timers # <<>>, ListOK(timers)', timers' # <<>>,
           ShortTimes /\ Short(timers) => Short(timers)',
           UNCHANGED <<arr, busy, uif, fault>>,
           UNCHANGED <<state, cen, cnt>> \/ (state' = TRUE /\ cen' = TRUE /\ cnt' = 0),
           seen' \in [Caller -> Id \cup {Idle, Empty, Stale}], fired' = {}
    PROVE  Kept
<1> USE DEF TimerInv, TimerTypeOK
<1>1. /\ state' \in BOOLEAN /\ cen' \in BOOLEAN /\ cnt' \in 0 .. ARR_MAX
      /\ CounterInv'
  <2>1. CASE UNCHANGED <<state, cen, cnt>>
    BY <2>1 DEF CounterInv
  <2>2. CASE state' = TRUE /\ cen' = TRUE /\ cnt' = 0
    BY <2>2, TimerAssumption DEF CounterInv
  <2> QED BY <2>1, <2>2
<1>2. TimerTypeOK'
  BY <1>1 DEF ListOK
<1>3. ShortTimes /\ ReloadInv => ReloadInv'
  BY DEF ReloadInv
<1> QED BY <1>1, <1>2, <1>3 DEF Kept

(* pos_add_timer with memory for the timer ...                               *)
LEMMA AddedKeeps ==
    ASSUME TimerInv, NEW time \in Times, NEW mode \in Mode, AddTimer(time, mode),
           fault' # "low_space"
    PROVE  Kept
<1> DEFINE e == [id |-> NewId, time |-> 0, left |-> 0, otime |-> time,
                 mode |-> mode, status |-> "STOP"]
           old == Updated(timers, cnt)
           list == Added(old, e, time)
<1> USE DEF TimerInv, TimerTypeOK
<1>1. /\ fired' = {} /\ ~busy /\ Len(timers) < MaxTimers
      /\ arr' = Head(list).time % (ARR_MAX + 1)
      /\ timers' = IF arr' = 0 THEN Updated(list, Head(list).time) ELSE list
      /\ cnt' = 0 /\ busy' = (arr' = 0) /\ uif' = (uif /\ arr' # 0)
      /\ UNCHANGED <<state, cen, seen, fault>>
  BY DEF AddTimer, Thread, SetExpire, CntRestarted
<1>2. e \in Entry /\ e.id \notin Ids(timers) /\ time \in Nat
  <2>1. NewId \in Id /\ NewId \notin Ids(timers) /\ time \in Nat
    BY <1>1, NewIdIsNew, TimerAssumption
  <2>2. e.id = NewId
    OBVIOUS
  <2>3. e \in Entry
    BY <2>1 DEF Entry
  <2> QED BY <2>1, <2>2, <2>3
<1>3. ListOK(old) /\ Ids(old) = Ids(timers) /\ (Short(timers) => Short(old))
  <2>1. cnt \in Nat
    BY TimerAssumption
  <2> QED BY <2>1, UpdatedOK
<1> HIDE DEF e, old
<1>4. ListOK(list) /\ list # <<>> /\ (Short(timers) => Short(list))
  BY <1>2, <1>3, AddedOK
<1> HIDE DEF list
<1>5. Head(list).time \in Nat
  <2>1. Head(list) \in Entry
    BY <1>4, HeadTailProperties DEF ListOK
  <2> QED BY <2>1 DEF Entry
<1>6. arr' \in 0 .. ARR_MAX
  BY <1>1, <1>5, RegisterValue
<1>7. /\ ListOK(timers') /\ timers' # <<>> /\ (Short(timers) => Short(timers'))
      /\ arr' = 0 => Head(timers').time = 0
  BY <1>1, <1>4, <1>5, UpdatedOK, HeadElapses
<1>8. TimerTypeOK'
  BY <1>1, <1>6, <1>7, TimerAssumption DEF ListOK
<1>9. CounterInv'
  BY <1>1, <1>6, <1>7 DEF CounterInv
<1>10. ShortTimes /\ ReloadInv => ReloadInv'
  BY <1>1, <1>7 DEF ReloadInv
<1> QED BY <1>7, <1>8, <1>9, <1>10 DEF Kept

(* ... and without.                                                          *)
LEMMA AddKeeps ==
    ASSUME TimerInv, NEW time \in Times, NEW mode \in Mode, AddTimer(time, mode)
    PROVE  Kept
<1>1. CASE fault' # "low_space"
  BY <1>1, AddedKeeps
<1>2. CASE fault' = "low_space"
  <2> USE DEF TimerInv, TimerTypeOK
  <2>1. /\ fired' = {} /\ ~busy /\ timers' = Updated(timers, cnt)
        /\ UNCHANGED <<state, arr, cnt, cen, uif, busy, seen>>
    BY <1>2 DEF AddTimer, Thread
  <2>2. cnt \in Nat /\ Len(timers) \in Nat
    BY TimerAssumption, LenProperties
  <2>3. ListOK(timers)' /\ (Short(timers) => Short(timers)')
    BY <2>1, <2>2, UpdatedOK
  <2>4. timers' = <<>> <=> timers = <<>>
    <3>1. Len(Updated(timers, cnt)) = Len(timers)
      BY <2>2 DEF Updated
    <3>2. timers' \in Seq(Entry)
      BY <2>3 DEF ListOK
    <3> QED BY <2>1, <3>1, <3>2, EmptySeq
  <2>5. TimerTypeOK' /\ CounterInv'
    BY <1>2, <2>1, <2>3, <2>4 DEF ListOK, CounterInv
  <2>6. ReloadInv => ReloadInv'
    BY <2>1, <2>3, <2>4 DEF ReloadInv
  <2> QED BY <2>3, <2>5, <2>6 DEF Kept
<1> QED BY <1>1, <1>2

(* Reading the head, a walk that finds nothing and the end of a model that   *)
(* has met a stale node.                                                     *)
LEMMA ReadKeeps ==
    ASSUME TimerInv, NEW c \in Caller, ReadHead(c) \/ NotFound(c) \/ WalkStale(c)
    PROVE  Kept
<1>1. UNCHANGED <<timers, state, arr, cnt, cen, uif, busy>> /\ fired' = {}
  BY DEF ReadHead, NotFound, WalkStale, Thread
<1>2. fault' \in {"none", "stale_node", "low_space"}
  BY DEF ReadHead, NotFound, WalkStale, TimerInv, TimerTypeOK
<1>3. timers # <<>> => Head(timers).id \in Id
  <2>1. timers # <<>> => Head(timers) \in Entry
    BY HeadTailProperties DEF TimerInv, ListOK
  <2> QED BY <2>1 DEF Entry
<1>4. seen' \in [Caller -> Id \cup {Idle, Empty, Stale}]
  BY <1>3 DEF ReadHead, NotFound, WalkStale, Return, TimerInv, TimerTypeOK
<1> QED BY <1>1, <1>2, <1>4, SameKeeps

(* A call that finds its timer.                                              *)
LEMMA SectionFacts ==
    ASSUME TimerInv, NEW c \in Caller, NEW id \in Id, Section(c, id)
    PROVE  /\ PositionOf(id) \in 1 .. Len(timers) /\ timers[PositionOf(id)].id = id
           /\ PositionOf(seen[c]) \in 1 .. Len(timers)
           /\ timers # <<>> /\ ~busy /\ fired' = {}
<1>1. id \in Ids(timers) /\ seen[c] \in Ids(timers) /\ ~busy /\ fired' = {}
  BY DEF Section, Meets, Thread
<1>2. \A x \in Ids(timers) : PositionOf(x) \in 1 .. Len(timers) /\ timers[PositionOf(x)].id = x
  <2> SUFFICES ASSUME NEW x \in Ids(timers)
               PROVE  PositionOf(x) \in 1 .. Len(timers) /\ timers[PositionOf(x)].id = x
    OBVIOUS
  <2>1. \E i \in 1 .. Len(timers) : timers[i].id = x
    BY DEF Ids
  <2> QED BY <2>1 DEF PositionOf
<1>3. timers # <<>>
  <2>1. Len(timers) # 0
    BY <1>1, <1>2
  <2> QED BY <2>1, EmptySeq DEF TimerInv, ListOK
<1> QED BY <1>1, <1>2, <1>3

(* A call that returns has read nothing.                                     *)
LEMMA ReturnSeen ==
    ASSUME TimerTypeOK, NEW c \in Caller, Return(c)
    PROVE  seen' \in [Caller -> Id \cup {Idle, Empty, Stale}]
  BY DEF Return, TimerTypeOK

(* pos_start_timer.                                                          *)
LEMMA StartKeeps ==
    ASSUME TimerInv, NEW c \in Caller, NEW id \in Id, StartTimer(c, id)
    PROVE  Kept
<1> DEFINE i == PositionOf(id)
           e == Started(timers[i])
           list == [timers EXCEPT ![i] = e]
<1>1. /\ timers' = list /\ Section(c, id) /\ Return(c)
      /\ UNCHANGED <<state, cen, cnt>> \/ (state' = TRUE /\ cen' = TRUE /\ cnt' = 0)
      /\ UNCHANGED <<arr, uif, busy, fault>>
  BY DEF StartTimer, KeepCounter
<1>2. i \in 1 .. Len(timers) /\ timers # <<>> /\ ~busy /\ fired' = {}
  BY <1>1, SectionFacts
<1> HIDE DEF i
<1>3. timers[i] \in Entry
  BY <1>2, LenProperties DEF TimerInv, ListOK
<1>4. \A x \in Entry : /\ Started(x) \in Entry /\ Started(x).id = x.id
                       /\ Started(x).time <= Started(x).left /\ Started(x).time <= ARR_MAX
  <2> SUFFICES ASSUME NEW x \in Entry
               PROVE  /\ Started(x) \in Entry /\ Started(x).id = x.id
                      /\ Started(x).time <= Started(x).left /\ Started(x).time <= ARR_MAX
    OBVIOUS
  <2>1. PICK o \in Times : o = x.otime
    BY DEF Entry
  <2>2. PICK t \in Nat : t = Capped(o) /\ t <= o /\ t <= ARR_MAX
    BY TimerAssumption DEF Capped
  <2>3. o \in Nat /\ Started(x) = [x EXCEPT !.left = o, !.time = t, !.status = "RUNNING"]
    BY <2>1, <2>2, TimerAssumption DEF Started
  <2> QED BY <2>2, <2>3 DEF Entry
<1>5. /\ e \in Entry /\ e.id = timers[i].id /\ e.time <= e.left /\ e.time <= ARR_MAX
  BY <1>3, <1>4
<1> HIDE DEF e
<1>6. ListOK(list) /\ Len(list) = Len(timers) /\ (Short(timers) => Short(list))
  BY <1>2, <1>5, ReplacedOK DEF TimerInv
<1> HIDE DEF list
<1>7. list # <<>>
  BY <1>2, <1>6, EmptySeq DEF TimerInv, ListOK
<1>8. seen' \in [Caller -> Id \cup {Idle, Empty, Stale}]
  BY <1>1, ReturnSeen DEF TimerInv
<1> QED BY <1>1, <1>2, <1>6, <1>7, <1>8, ListKeeps

(* pos_restart_timer, pos_resume_timer and pos_stop_timer.                   *)
LEMMA ChangeKeeps ==
    ASSUME TimerInv, NEW c \in Caller, NEW id \in Id,
           RestartTimer(c, id) \/ ResumeTimer(c, id) \/ StopTimer(c, id)
    PROVE  Kept
<1> DEFINE i == PositionOf(id)
           old == Updated(timers, arr)
           x == old[i]
<1>1. PICK e \in {Restarted(x), Resumed(x), Stopped(x)} :
          Change(c, id, [old EXCEPT ![i] = e])
  BY DEF RestartTimer, ResumeTimer, StopTimer
<1> DEFINE list == [old EXCEPT ![i] = e]
<1>2. /\ timers' = list /\ Section(c, id) /\ Return(c)
      /\ UNCHANGED <<state, arr, cnt, cen, uif, busy, fault>>
  BY <1>1 DEF Change
<1>3. i \in 1 .. Len(timers) /\ timers # <<>> /\ ~busy /\ fired' = {}
  BY <1>2, SectionFacts
<1> HIDE DEF i
<1>4. ListOK(old) /\ Len(old) = Len(timers) /\ (Short(timers) => Short(old))
  <2>1. arr \in Nat
    BY TimerAssumption DEF TimerInv, TimerTypeOK
  <2> QED BY <2>1, UpdatedOK DEF TimerInv
<1> HIDE DEF old
<1>5. PICK y \in Entry : x = y /\ y.time <= y.left /\ (Short(old) => y.time <= ARR_MAX)
  <2>1. x \in Entry
    BY <1>3, <1>4, LenProperties DEF ListOK
  <2> QED BY <1>3, <1>4, <2>1 DEF ListOK, Covered, Short
<1>6. /\ e \in Entry /\ e.id = x.id /\ e.time <= e.left
      /\ ShortTimes /\ Short(old) => e.time <= ARR_MAX
  <2>1. CASE e = Restarted(y)
    <3>1. PICK o \in Times : o = y.otime
      BY DEF Entry
    <3>2. o \in Nat /\ e = [y EXCEPT !.time = o, !.left = o]
      BY <2>1, <3>1, TimerAssumption DEF Restarted
    <3>3. e \in Entry /\ e.id = y.id /\ e.time = o /\ e.left = o
      BY <3>2 DEF Entry
    <3> QED BY <1>5, <3>2, <3>3 DEF ShortTimes
  <2>2. CASE e = Resumed(y)
    <3>1. e \in Entry /\ e.id = y.id /\ e.time = y.time /\ e.left = y.left
      BY <2>2 DEF Resumed, Entry
    <3> QED BY <1>5, <3>1
  <2>3. CASE e = Stopped(y)
    <3>1. e \in Entry /\ e.id = y.id /\ e.time = y.time /\ e.left = y.left
      BY <2>3 DEF Stopped, Entry
    <3> QED BY <1>5, <3>1
  <2> QED BY <1>1, <1>5, <2>1, <2>2, <2>3
<1>7. /\ ListOK(list) /\ Len(list) = Len(old)
      /\ ShortTimes /\ Short(timers) => Short(list)
  BY <1>3, <1>4, <1>6, ReplacedOK
<1> HIDE DEF list
<1>8. list # <<>>
  BY <1>3, <1>4, <1>7, EmptySeq DEF TimerInv, ListOK
<1>9. seen' \in [Caller -> Id \cup {Idle, Empty, Stale}]
  BY <1>2, ReturnSeen DEF TimerInv
<1> QED BY <1>2, <1>3, <1>7, <1>8, <1>9, ListKeeps

(* What pos_kill_timer leaves of the list.                                   *)
LEMMA CutOK ==
    ASSUME NEW list, ListOK(list), NEW i \in 1 .. Len(list)
    PROVE  /\ ListOK(Behind(list, i)) /\ (Short(list) => Short(Behind(list, i)))
           /\ ListOK(RemovedAt(list, i)) /\ (Short(list) => Short(RemovedAt(list, i)))
<1>1. list \in Seq(Entry) /\ Len(list) \in Nat
  BY LenProperties DEF ListOK
<1>2. ListOK(Behind(list, i)) /\ (Short(list) => Short(Behind(list, i)))
  <2> DEFINE part == Behind(list, i)
             f == [k \in 1 .. Len(part) |-> i + k]
  <2>1. /\ part \in Seq(Entry) /\ Len(part) = Len(list) - i
        /\ \A k \in 1 .. Len(list) - i : part[k] = list[i + k]
    BY <1>1, BehindPlaces
  <2> HIDE DEF part
  <2>2. f \in [1 .. Len(part) -> 1 .. Len(list)]
    BY <1>1, <2>1
  <2>3. \A k, j \in 1 .. Len(part) : f[k] = f[j] => k = j
    BY <1>1, <2>1
  <2>4. \A k \in 1 .. Len(part) : part[k] = list[f[k]]
    BY <2>1
  <2> HIDE DEF f
  <2>5. ListOK(part) /\ (Short(list) => Short(part))
    BY <2>1, <2>2, <2>3, <2>4, PartOK
  <2> QED BY <2>5 DEF part
<1>3. ListOK(RemovedAt(list, i)) /\ (Short(list) => Short(RemovedAt(list, i)))
  <2> DEFINE part == RemovedAt(list, i)
             f == [k \in 1 .. Len(part) |-> IF k < i THEN k ELSE k + 1]
  <2>1. /\ part \in Seq(Entry) /\ Len(part) = Len(list) - 1
        /\ \A k \in 1 .. Len(list) - 1 : part[k] = IF k < i THEN list[k] ELSE list[k + 1]
    BY <1>1, UnlinkedPlaces
  <2> HIDE DEF part
  <2>2. f \in [1 .. Len(part) -> 1 .. Len(list)]
    BY <1>1, <2>1
  <2>3. \A k, j \in 1 .. Len(part) : f[k] = f[j] => k = j
    BY <1>1, <2>1
  <2>4. \A k \in 1 .. Len(part) : part[k] = list[f[k]]
    BY <2>1
  <2> HIDE DEF f
  <2>5. ListOK(part) /\ (Short(list) => Short(part))
    BY <2>1, <2>2, <2>3, <2>4, PartOK
  <2> QED BY <2>5 DEF part
<1> QED BY <1>2, <1>3

(* pos_kill_timer.                                                           *)
LEMMA KillKeeps ==
    ASSUME TimerInv, NEW c \in Caller, NEW id \in Id, KillTimer(c, id)
    PROVE  Kept
<1> DEFINE i == PositionOf(id)
           list == IF id = seen[c] THEN Behind(timers, i) ELSE RemovedAt(timers, i)
<1>1. /\ Section(c, id) /\ timers' = Updated(list, arr) /\ DisableIfEmpty(list)
      /\ seen' = [Dropped(Ids(timers) \ Ids(list)) EXCEPT ![c] = Idle]
      /\ UNCHANGED <<arr, uif, busy, fault>>
  BY DEF KillTimer, Behind, RemovedAt, RemoveAt
<1>2. i \in 1 .. Len(timers) /\ timers # <<>> /\ ~busy /\ fired' = {}
  BY <1>1, SectionFacts
<1> HIDE DEF i
<1>3. ListOK(list) /\ (Short(timers) => Short(list))
  BY <1>2, CutOK DEF TimerInv
<1> HIDE DEF list
<1>4. /\ ListOK(timers') /\ (Short(timers) => Short(timers'))
      /\ timers' = <<>> => list = <<>>
  <2>1. arr \in Nat
    BY TimerAssumption DEF TimerInv, TimerTypeOK
  <2>2. /\ ListOK(timers') /\ (Short(list) => Short(timers')) /\ Len(timers') = Len(list)
    BY <1>1, <1>3, <2>1, UpdatedOK
  <2> QED BY <1>3, <2>2, EmptySeq DEF ListOK
<1>5. seen' \in [Caller -> Id \cup {Idle, Empty, Stale}]
  <2> DEFINE d == Dropped(Ids(timers) \ Ids(list))
  <2>1. d \in [Caller -> Id \cup {Idle, Empty, Stale}] /\ seen' = [d EXCEPT ![c] = Idle]
    BY <1>1, DroppedSeen DEF TimerInv
  <2> HIDE DEF d
  <2> QED BY <2>1
<1>6. /\ state' \in BOOLEAN /\ cen' \in BOOLEAN /\ cnt' \in 0 .. ARR_MAX
      /\ CounterInv'
  <2>1. CASE state /\ list = <<>>
    <3>1. state' = FALSE /\ cen' = FALSE /\ cnt' = 0
      BY <1>1, <2>1 DEF DisableIfEmpty, Disable
    <3>2. arr \in 0 .. ARR_MAX
      BY DEF TimerInv, TimerTypeOK
    <3>3. arr' \in Nat /\ 0 \in 0 .. ARR_MAX
      BY <1>1, <3>2, TimerAssumption
    <3>4. state' \in BOOLEAN /\ cen' \in BOOLEAN /\ state' = cen' /\ ~cen'
      BY <3>1
    <3>5. cnt' = 0 /\ cnt' \in 0 .. ARR_MAX /\ cnt' <= arr'
      BY <3>1, <3>3
    <3> QED BY <3>4, <3>5 DEF CounterInv
  <2>2. CASE ~(state /\ list = <<>>)
    <3>1. UNCHANGED <<state, cen, cnt>>
      BY <1>1, <2>2 DEF DisableIfEmpty, KeepCounter
    <3> QED BY <1>1, <1>4, <2>2, <3>1 DEF TimerInv, TimerTypeOK, CounterInv
  <2> QED BY <2>1, <2>2
<1>7. TimerTypeOK'
  BY <1>1, <1>2, <1>4, <1>5, <1>6 DEF TimerInv, TimerTypeOK, ListOK
<1>8. ShortTimes /\ ReloadInv => ReloadInv'
  BY <1>1, <1>2, <1>4 DEF ReloadInv
<1> QED BY <1>4, <1>6, <1>7, <1>8 DEF Kept, TimerInv

(* pos_kill_all_timers.                                                      *)
LEMMA KillAllKeeps ==
    ASSUME TimerInv, NEW c \in Caller, KillAllTimers(c)
    PROVE  Kept
<1>1. /\ timers' = <<>> /\ state' = FALSE /\ cen' = FALSE /\ cnt' = 0 /\ fired' = {}
      /\ seen' = [Dropped(Id) EXCEPT ![c] = Idle] /\ UNCHANGED <<arr, uif, busy, fault>>
  BY DEF KillAllTimers, Thread, Disable
<1>2. seen' \in [Caller -> Id \cup {Idle, Empty, Stale}]
  <2> DEFINE d == Dropped(Id)
  <2>1. d \in [Caller -> Id \cup {Idle, Empty, Stale}] /\ seen' = [d EXCEPT ![c] = Idle]
    BY <1>1, DroppedSeen DEF TimerInv
  <2> HIDE DEF d
  <2> QED BY <2>1
<1>3. ListOK(timers') /\ Short(timers')
  <2>1. timers' \in Seq(Entry) /\ Len(timers') = 0
    BY <1>1
  <2> QED BY <2>1 DEF ListOK, NamedOnce, Covered, Short
<1>4. arr' \in 0 .. ARR_MAX /\ cnt' \in 0 .. ARR_MAX /\ cnt' <= arr'
  BY <1>1, TimerAssumption DEF TimerInv, TimerTypeOK
<1>5. TimerTypeOK'
  BY <1>1, <1>2, <1>3, <1>4 DEF TimerInv, TimerTypeOK, ListOK
<1>6. CounterInv'
  BY <1>1, <1>4 DEF CounterInv
<1>7. ReloadInv'
  BY <1>1, <1>3 DEF ReloadInv
<1> QED BY <1>3, <1>5, <1>6, <1>7 DEF Kept, TimerInv

(* A millisecond passes.                                                     *)
LEMMA TickKeeps ==
    ASSUME TimerInv, CounterTick
    PROVE  Kept
<1>1. /\ fired' = {} /\ cen /\ arr # 0 /\ ~uif /\ ~busy /\ uif' = (cnt = arr)
      /\ cnt' = IF cnt = arr THEN 0 ELSE (cnt + 1) % (ARR_MAX + 1)
      /\ UNCHANGED <<timers, state, arr, cen, busy, seen, fault>>
  BY DEF CounterTick
<1>2. /\ cnt' \in 0 .. ARR_MAX /\ cnt' <= arr
      /\ cnt = arr => cnt' = 0
  <2>1. arr \in 0 .. ARR_MAX /\ cnt \in 0 .. ARR_MAX /\ cnt <= arr /\ ARR_MAX \in Nat
    BY TimerAssumption DEF TimerInv, TimerTypeOK, CounterInv
  <2>2. CASE cnt = arr
    BY <1>1, <2>1, <2>2
  <2>3. CASE cnt # arr
    <3>1. cnt + 1 \in Nat /\ cnt + 1 <= ARR_MAX /\ cnt + 1 <= arr
      BY <2>1, <2>3
    <3>2. (cnt + 1) % (ARR_MAX + 1) = cnt + 1
      BY <3>1, RegisterValue
    <3> QED BY <1>1, <2>1, <2>3, <3>1, <3>2
  <2> QED BY <2>2, <2>3
<1>3. TimerTypeOK'
  BY <1>1, <1>2 DEF TimerInv, TimerTypeOK
<1>4. CounterInv'
  BY <1>1, <1>2 DEF TimerInv, CounterInv
<1>5. ListOK(timers)' /\ (ReloadInv => ReloadInv')
  BY <1>1 DEF TimerInv, ReloadInv, ListOK, NamedOnce, Covered, Short
<1> QED BY <1>3, <1>4, <1>5 DEF Kept, TimerInv

(* pos_timer_int_isr up to its loop.                                         *)
LEMMA IsrKeeps ==
    ASSUME TimerInv, TimerIsr
    PROVE  Kept
<1>1. /\ uif /\ ~busy /\ uif' = FALSE /\ fired' = {} /\ busy' = (timers # <<>>)
      /\ timers' = IF timers = <<>> THEN <<>> ELSE Updated(timers, Head(timers).time)
      /\ DisableIfEmpty(timers) /\ UNCHANGED <<arr, seen, fault>>
  BY DEF TimerIsr, Thread
<1>2. UNCHANGED <<state, cen, cnt>> /\ cnt = 0
  <2>1. timers = <<>> => ~state
    BY <1>1 DEF TimerInv, CounterInv
  <2> QED BY <1>1, <2>1 DEF DisableIfEmpty, KeepCounter, TimerInv, CounterInv
<1>3. CASE timers = <<>>
  <2>1. UNCHANGED timers /\ ~busy'
    BY <1>1, <1>3
  <2>2. TimerTypeOK' /\ CounterInv'
    BY <1>1, <1>2, <2>1 DEF TimerInv, TimerTypeOK, CounterInv
  <2>3. ListOK(timers)' /\ (ReloadInv => ReloadInv')
    BY <1>1, <1>3, <2>1 DEF TimerInv, ReloadInv, ListOK, NamedOnce, Covered, Short
  <2> QED BY <2>2, <2>3 DEF Kept, TimerInv
<1>4. CASE timers # <<>>
  <2> DEFINE t == Head(timers).time
  <2>1. t \in Nat
    <3>1. Head(timers) \in Entry
      BY <1>4, HeadTailProperties DEF TimerInv, ListOK
    <3> QED BY <3>1 DEF Entry
  <2>2. /\ ListOK(Updated(timers, t)) /\ (Short(timers) => Short(Updated(timers, t)))
        /\ Updated(timers, t) # <<>> /\ Head(Updated(timers, t)).time = 0
    <3> HIDE DEF t
    <3>1. ListOK(Updated(timers, t)) /\ (Short(timers) => Short(Updated(timers, t)))
      BY <2>1, UpdatedOK DEF TimerInv
    <3>2. Updated(timers, t) # <<>> /\ Head(Updated(timers, t)).time = 0
      BY <1>4, HeadElapses DEF t, TimerInv
    <3> QED BY <3>1, <3>2
  <2>3. /\ ListOK(timers') /\ (Short(timers) => Short(timers'))
        /\ timers' # <<>> /\ Head(timers').time = 0 /\ busy'
    BY <1>1, <1>4, <2>2
  <2>4. TimerTypeOK'
    BY <1>1, <1>2, <2>3 DEF TimerInv, TimerTypeOK, ListOK
  <2>5. CounterInv'
    BY <1>1, <1>2, <2>3 DEF TimerInv, CounterInv
  <2>6. ReloadInv => ReloadInv'
    BY <2>3 DEF ReloadInv
  <2> QED BY <2>3, <2>4, <2>5, <2>6 DEF Kept, TimerInv
<1> QED BY <1>3, <1>4

(* One turn of the loop: the head goes on, starts again or leaves.           *)
LEMMA ExpireKeeps ==
    ASSUME TimerInv, Expire
    PROVE  Kept
<1> DEFINE e == Head(timers)
           rest == Behind(timers, 1)
<1>0. Tail(timers) = rest
  BY DEF Behind
<1>1. /\ fault = "none" /\ busy /\ timers # <<>> /\ e.time = 0
      /\ \/ timers' = rest
         \/ timers' = Added(rest, e, e.left)
         \/ timers' = Added(rest, e, e.otime)
      /\ IF timers' = <<>> THEN arr' = arr ELSE arr' = Head(timers').time % (ARR_MAX + 1)
      /\ fired' \in SUBSET {e.id} /\ seen' = Dropped({e.id})
      /\ UNCHANGED <<state, cnt, cen, uif, busy, fault>>
  BY <1>0 DEF Expire, SetExpire, Period
<1>2. /\ e = timers[1] /\ e \in Entry /\ 1 \in 1 .. Len(timers)
      /\ Len(timers) \in Nat /\ timers \in Seq(Entry)
  BY <1>1, HeadTailProperties, EmptySeq DEF TimerInv, ListOK
<1>3. e.id \in Id /\ e.left \in Nat /\ e.otime \in Nat
  BY <1>2, TimerAssumption DEF Entry
<1>4. /\ ListOK(rest) /\ (Short(timers) => Short(rest))
      /\ e.id \notin Ids(rest)
  <2>1. ListOK(rest) /\ (Short(timers) => Short(rest))
    BY <1>2, CutOK DEF TimerInv
  <2>2. /\ Len(rest) = Len(timers) - 1
        /\ \A k \in 1 .. Len(timers) - 1 : rest[k] = timers[1 + k]
    BY <1>2, BehindPlaces
  <2>3. ASSUME NEW k \in 1 .. Len(rest), rest[k].id = e.id PROVE FALSE
    <3>1. 1 + k \in 1 .. Len(timers) /\ timers[1 + k].id = timers[1].id
      BY <1>2, <2>2, <2>3
    <3>2. 1 + k = 1
      BY <1>2, <3>1 DEF TimerInv, ListOK, NamedOnce
    <3> QED BY <1>2, <2>2, <3>2
  <2> QED BY <2>1, <2>3 DEF Ids
<1> HIDE DEF e, rest
<1>5. ListOK(timers') /\ (Short(timers) => Short(timers'))
  <2>1. CASE timers' = rest
    BY <1>4, <2>1
  <2>2. CASE timers' = Added(rest, e, e.left)
    BY <1>2, <1>3, <1>4, <2>2, AddedOK
  <2>3. CASE timers' = Added(rest, e, e.otime)
    BY <1>2, <1>3, <1>4, <2>3, AddedOK
  <2> QED BY <1>1, <2>1, <2>2, <2>3
<1>6. /\ arr' \in 0 .. ARR_MAX
      /\ timers' # <<>> /\ Short(timers') => Head(timers').time = arr'
  <2>1. CASE timers' = <<>>
    BY <1>1, <2>1 DEF TimerInv, TimerTypeOK
  <2>2. CASE timers' # <<>>
    <3>1. /\ Head(timers') = timers'[1] /\ Head(timers') \in Entry
          /\ 1 \in 1 .. Len(timers')
      BY <1>5, <2>2, HeadTailProperties, EmptySeq DEF ListOK
    <3>2. Head(timers').time \in Nat
      BY <3>1 DEF Entry
    <3>3. Short(timers') => Head(timers').time <= ARR_MAX
      BY <3>1 DEF Short
    <3> QED BY <1>1, <2>2, <3>2, <3>3, RegisterValue
  <2> QED BY <2>1, <2>2
<1>7. seen' \in [Caller -> Id \cup {Idle, Empty, Stale}]
  BY <1>1, DroppedSeen DEF TimerInv
<1>8. TimerTypeOK'
  BY <1>1, <1>3, <1>5, <1>6, <1>7 DEF TimerInv, TimerTypeOK, ListOK
<1>9. CounterInv'
  BY <1>1, <1>6 DEF TimerInv, CounterInv
<1>10. ReloadInv => ReloadInv'
  BY <1>1, <1>5, <1>6 DEF ReloadInv
<1> QED BY <1>5, <1>8, <1>9, <1>10 DEF Kept, TimerInv

(* The loop ends at a head that still has time.                              *)
LEMMA EndKeeps ==
    ASSUME TimerInv, EndIsr
    PROVE  Kept
<1>1. /\ busy /\ fired' = {} /\ (timers # <<>> => Head(timers).time # 0) /\ busy' = FALSE
      /\ DisableIfEmpty(timers) /\ UNCHANGED <<timers, arr, uif, seen, fault>>
  BY DEF EndIsr
<1>2. cnt = 0 /\ arr \in 0 .. ARR_MAX /\ ARR_MAX \in Nat
  BY <1>1, TimerAssumption DEF TimerInv, TimerTypeOK, CounterInv
<1>3. /\ state' \in BOOLEAN /\ cen' \in BOOLEAN /\ state' = cen' /\ cnt' = 0
      /\ timers = <<>> => ~cen'
  <2>1. CASE state /\ timers = <<>>
    BY <1>1, <2>1 DEF DisableIfEmpty, Disable
  <2>2. CASE ~(state /\ timers = <<>>)
    BY <1>1, <1>2, <2>2 DEF DisableIfEmpty, KeepCounter, TimerInv, TimerTypeOK, CounterInv
  <2> QED BY <2>1, <2>2
<1>4. TimerTypeOK'
  BY <1>1, <1>2, <1>3 DEF TimerInv, TimerTypeOK
<1>5. CounterInv'
  BY <1>1, <1>2, <1>3 DEF CounterInv
<1>6. ListOK(timers)' /\ (ReloadInv => ReloadInv')
  BY <1>1 DEF TimerInv, ReloadInv, ListOK, NamedOnce, Covered, Short
<1> QED BY <1>4, <1>5, <1>6 DEF Kept, TimerInv

-----------------------------------------------------------------------------
(* The invariant holds at the start ...                                      *)
LEMMA TimerInitHolds == TimerInit => TimerInv /\ ReloadInv
<1> SUFFICES ASSUME TimerInit PROVE TimerInv /\ ReloadInv
  OBVIOUS
<1>1. timers \in Seq(Entry) /\ Len(timers) = 0
  BY DEF TimerInit
<1>2. ListOK(timers) /\ Short(timers)
  BY <1>1 DEF ListOK, NamedOnce, Covered, Short
<1>3. /\ state \in BOOLEAN /\ cen \in BOOLEAN /\ uif \in BOOLEAN /\ busy \in BOOLEAN
      /\ state = cen /\ ~cen
      /\ seen \in [Caller -> Id \cup {Idle, Empty, Stale}] /\ fired \in SUBSET Id
      /\ fault \in {"none", "stale_node", "low_space"}
  BY DEF TimerInit
<1>4. arr \in 0 .. ARR_MAX /\ cnt \in 0 .. ARR_MAX /\ cnt <= arr /\ cnt = 0
  BY TimerAssumption DEF TimerInit
<1>5. TimerTypeOK /\ CounterInv
  BY <1>1, <1>3, <1>4 DEF TimerTypeOK, CounterInv
<1>6. ReloadInv
  BY <1>2 DEF TimerInit, ReloadInv
<1> QED BY <1>2, <1>5, <1>6 DEF TimerInv

(* ... and every step keeps it, with or without short times ...              *)
LEMMA TimerStepKeeps ==
    ASSUME TimerInv, [TimerNext]_timerVars
    PROVE  Kept
<1>1. CASE \E time \in Times, mode \in Mode : AddTimer(time, mode)
  BY <1>1, AddKeeps
<1>2. CASE \E c \in Caller : ReadHead(c) \/ NotFound(c) \/ WalkStale(c)
  BY <1>2, ReadKeeps
<1>3. CASE \E c \in Caller : KillAllTimers(c)
  BY <1>3, KillAllKeeps
<1>4. CASE \E c \in Caller, id \in Id : StartTimer(c, id)
  BY <1>4, StartKeeps
<1>5. CASE \E c \in Caller, id \in Id :
               RestartTimer(c, id) \/ ResumeTimer(c, id) \/ StopTimer(c, id)
  BY <1>5, ChangeKeeps
<1>6. CASE \E c \in Caller, id \in Id : KillTimer(c, id)
  BY <1>6, KillKeeps
<1>7. CASE CounterTick
  BY <1>7, TickKeeps
<1>8. CASE TimerIsr
  BY <1>8, IsrKeeps
<1>9. CASE Expire
  BY <1>9, ExpireKeeps
<1>10. CASE EndIsr
  BY <1>10, EndKeeps
<1>11. CASE UNCHANGED timerVars
  <2>1. /\ UNCHANGED <<timers, state, arr, cnt, cen, uif, busy>>
        /\ seen' = seen /\ fired' = fired /\ fault' = fault
    BY <1>11 DEF timerVars
  <2> QED BY <2>1, SameKeeps DEF TimerInv, TimerTypeOK
<1> QED BY <1>1, <1>2, <1>3, <1>4, <1>5, <1>6, <1>7, <1>8, <1>9, <1>10, <1>11
        DEF TimerNext, Calls, Halted

(* ... so it always holds.                                                   *)
LEMMA TimerInvariant == TimerSpec => []TimerInv
<1>1. TimerInit => TimerInv
  BY TimerInitHolds
<1>2. TimerInv /\ [TimerNext]_timerVars => TimerInv'
  BY TimerStepKeeps DEF Kept
<1> QED BY <1>1, <1>2, PTL DEF TimerSpec

(* For every number of tasks and timers, every set of times and every width  *)
(* of the counter: no time of a timer wraps below zero and the counter's     *)
(* values fit its registers, whatever the calls have read ahead of their     *)
(* critical sections.                                                        *)
THEOREM TimersAreTyped == TimerSpec => []TimerTypeOK
<1>1. TimerInv => TimerTypeOK
  BY DEF TimerInv
<1> QED BY <1>1, TimerInvariant, PTL

(* The smallest free identifier that pos_add_timer takes is nobody's, after  *)
(* any history of kills and of one-shot timers that have expired.            *)
THEOREM TimersHaveOwnIds == TimerSpec => []OwnId
<1>1. TimerInv => OwnId
  BY IdsCount DEF TimerInv, OwnId
<1> QED BY <1>1, TimerInvariant, PTL

(* Kill, kill all and the handler switch the counter off with the last       *)
(* timer, and no other call switches it on without one.                      *)
THEOREM CounterStopsWithTimers == TimerSpec => []OffWithoutTimers
<1>1. TimerInv => OffWithoutTimers
  BY DEF TimerInv, CounterInv, OffWithoutTimers
<1> QED BY <1>1, TimerInvariant, PTL

(* pos_update_timers never takes more from complete_time than is left of it. *)
THEOREM ElapsedNeverWraps == TimerSpec => []LeftCoversTime
<1>1. TimerInv => LeftCoversTime
  BY DEF TimerInv, ListOK, Covered, LeftCoversTime
<1> QED BY <1>1, TimerInvariant, PTL

(* With times that fit the registers the counter never stands behind its     *)
(* reload value or at one of zero.  The theorem needs them: the handler can  *)
(* put a time that pos_restart_timer has not capped into the register modulo *)
(* its width.                                                                *)
THEOREM CounterNeverPasses == ASSUME ShortTimes PROVE TimerSpec => []CounterBelowReload
<1>1. TimerInit => TimerInv /\ ReloadInv
  BY TimerInitHolds
<1>2. TimerInv /\ ReloadInv /\ [TimerNext]_timerVars => (TimerInv /\ ReloadInv)'
  BY TimerStepKeeps, ShortTimes DEF Kept
<1>3. TimerInv /\ ReloadInv => CounterBelowReload
  BY DEF TimerInv, CounterInv, ReloadInv, CounterBelowReload
<1> QED BY <1>1, <1>2, <1>3, PTL DEF TimerSpec
=============================================================================
