--------------------------- MODULE PosTaskTableProofs ---------------------------
(*****************************************************************************)
(* Theorems about the circular list of tasks for every number of tasks, as   *)
(* long as at most one is created after the first has finished and nobody    *)
(* asks for the PID of a finished one.                                       *)
(*****************************************************************************)
EXTENDS PosTaskTable, CommonLemmas

(* With a second creation after an end a PID can be given twice, and a PID   *)
(* that is in no element is looked for for ever.                             *)
TableClass == Recreations <= 1 /\ AsksFinished = FALSE

-----------------------------------------------------------------------------
(* The invariant: some list names the elements in the order of the ring.     *)
Live == 1 .. created \ ended

TableTypeOK ==
    /\ created \in 0 .. MaxTasks /\ late \in Nat
    /\ ended \in SUBSET (2 .. created)
    /\ pid \in [Element -> Nat] /\ next \in [Element -> Element \cup {NoElement}]
    /\ current \in Live \cup {NoElement}
    /\ hung = FALSE

(* w goes round the ring, from the head and back to it ...                   *)
GoesRound(w) ==
    /\ w \in Seq(Element) /\ EachOnce(w)
    /\ Len(w) = tasks_cnt
    /\ Live = {w[i] : i \in 1 .. Len(w)}
    /\ head = IF created = 0 THEN NoElement ELSE 1
    /\ created # 0 => w # <<>> /\ w[1] = 1
    /\ \A i \in 1 .. Len(w) : next[w[i]] = IF i = Len(w) THEN w[1] ELSE w[i + 1]

(* ... its PIDs are all different, in ascending order until somebody is      *)
(* created after an end, and without a gap until somebody ends.              *)
PidsOf(w) ==
    /\ \A i, j \in 1 .. Len(w) : pid[w[i]] = pid[w[j]] => i = j
    /\ late = 0 => \A i, j \in 1 .. Len(w) : i < j => pid[w[i]] < pid[w[j]]
    /\ late = 0 /\ w # <<>> => pid[w[1]] = 1
    /\ ended = {} => late = 0 /\ \A i \in 1 .. Len(w) : pid[w[i]] = i

Ring(w) == GoesRound(w) /\ PidsOf(w)

TableInv == TableTypeOK /\ \E w \in Seq(Element) : Ring(w)

-----------------------------------------------------------------------------
(* The walk.                                                                 *)

IsWalk(first, N, f) == f = [n \in 1 .. N |-> IF n = 1 THEN first ELSE next[f[n - 1]]]

(* A walk of any length exists, whatever the elements point to.              *)
LEMMA WalkExists ==
    ASSUME NEW first, NEW N \in Nat
    PROVE  \E f : IsWalk(first, N, f)
<1> DEFINE Good == {M \in Nat : \E f : IsWalk(first, M, f)}
<1>1. 0 \in Good
  <2>1. IsWalk(first, 0, [n \in 1 .. 0 |-> first])
    BY DEF IsWalk
  <2> QED BY <2>1
<1>2. ASSUME NEW M \in Nat, M \in Good PROVE M + 1 \in Good
  <2>1. PICK g : IsWalk(first, M, g)
    BY <1>2
  <2> DEFINE h == [n \in 1 .. M + 1 |-> IF n = 1 THEN first ELSE next[g[n - 1]]]
  <2>2. \A n \in 1 .. M : h[n] = g[n]
    BY <2>1 DEF IsWalk
  <2>3. \A n \in 1 .. M + 1 : h[n] = IF n = 1 THEN first ELSE next[h[n - 1]]
    <3> SUFFICES ASSUME NEW n \in 1 .. M + 1
                 PROVE  h[n] = IF n = 1 THEN first ELSE next[h[n - 1]]
      OBVIOUS
    <3>1. n # 1 => n - 1 \in 1 .. M
      OBVIOUS
    <3>2. n # 1 => h[n - 1] = g[n - 1]
      BY <2>2, <3>1
    <3> QED BY <3>2
  <2>4. h = [n \in 1 .. M + 1 |-> h[n]]
    OBVIOUS
  <2> HIDE DEF h
  <2>5. IsWalk(first, M + 1, h)
    BY <2>3, <2>4 DEF IsWalk
  <2> QED BY <2>5
<1> HIDE DEF Good
<1>3. \A M \in 0 .. N : M \in Good
  BY <1>1, <1>2, OneByOne
<1>4. N \in Good
  BY <1>3
<1> QED BY <1>4 DEF Good

(* What WalkFrom computes: one step after another.                           *)
LEMMA WalkSteps ==
    ASSUME NEW first
    PROVE  /\ WalkFrom(first)[1] = first
           /\ \A n \in 1 .. MaxTasks : WalkFrom(first)[n + 1] = next[WalkFrom(first)[n]]
<1> DEFINE N == MaxTasks + 1
           at == WalkFrom(first)
<1>1. N \in Nat /\ MaxTasks \in Nat \ {0}
  BY TableAssumption
<1>2. \E f : IsWalk(first, N, f)
  BY <1>1, WalkExists
<1>3. at = [n \in 1 .. N |-> IF n = 1 THEN first ELSE next[at[n - 1]]]
  BY <1>2 DEF WalkFrom, IsWalk
<1> HIDE DEF at
<1>4. at[1] = first
  BY <1>1, <1>3
<1>5. \A n \in 1 .. MaxTasks : at[n + 1] = next[at[n]]
  BY <1>1, <1>3
<1> QED BY <1>4, <1>5 DEF at

(* In the ring the walk from the head meets the elements in its order, comes *)
(* back to the head, and meets nobody else.                                  *)
LEMMA WalkVisits ==
    ASSUME NEW w, GoesRound(w), created # 0
    PROVE  /\ \A n \in 1 .. Len(w) : WalkFrom(head)[n] = w[n]
           /\ Len(w) \in 1 .. MaxTasks /\ WalkFrom(head)[Len(w) + 1] = w[1]
           /\ Linked = {w[i] : i \in 1 .. Len(w)}
<1> DEFINE at == WalkFrom(head)
<1>1. /\ w \in Seq(Element) /\ Len(w) \in Nat \ {0} /\ head = w[1] /\ head = 1
      /\ \A i \in 1 .. Len(w) : next[w[i]] = IF i = Len(w) THEN w[1] ELSE w[i + 1]
      /\ \A i \in 1 .. Len(w) : w[i] \in Element
  BY LenProperties, EmptySeq DEF GoesRound
<1>2. Len(w) \in 1 .. MaxTasks
  <2>1. Cardinality({w[i] : i \in 1 .. Len(w)}) = Len(w)
    BY <1>1, EachOnceCounts DEF GoesRound
  <2>2. {w[i] : i \in 1 .. Len(w)} \subseteq Element
    BY <1>1
  <2>3. IsFiniteSet(Element) /\ Cardinality(Element) = MaxTasks
    BY FS_Interval, TableAssumption DEF Element
  <2>4. Len(w) <= MaxTasks
    BY <2>1, <2>2, <2>3, FS_Subset
  <2> QED BY <1>1, <2>4, TableAssumption
<1>3. at[1] = w[1] /\ \A n \in 1 .. MaxTasks : at[n + 1] = next[at[n]]
  BY <1>1, WalkSteps
<1> HIDE DEF at
<1>4. \A n \in 1 .. Len(w) : at[n] = w[n]
  <2> DEFINE Good == {n \in 1 .. Len(w) : at[n] = w[n]}
  <2>1. 1 \in Good
    <3>1. 1 \in 1 .. Len(w)
      BY <1>1
    <3> QED BY <1>3, <3>1
  <2>2. ASSUME NEW n \in 1 .. Len(w) - 1, n \in Good PROVE n + 1 \in Good
    <3>1. n \in 1 .. MaxTasks /\ n \in 1 .. Len(w) /\ n # Len(w) /\ n + 1 \in 1 .. Len(w)
      BY <1>2, TableAssumption
    <3> QED BY <1>1, <1>3, <2>2, <3>1
  <2>3. \A n \in 1 .. Len(w) : n \in Good
    <3> HIDE DEF Good
    <3> QED BY <1>1, <2>1, <2>2, OneByOne
  <2> QED BY <2>3
<1>5. at[Len(w) + 1] = w[1]
  BY <1>1, <1>2, <1>3, <1>4
<1>6. \A n \in Element : \E i \in 1 .. Len(w) : at[n] = w[i]
  <2> DEFINE Seen == {w[i] : i \in 1 .. Len(w)}
             Good == {n \in Element : at[n] \in Seen}
  <2>1. 1 \in Good
    <3>1. 1 \in Element /\ 1 \in 1 .. Len(w)
      BY <1>1, TableAssumption DEF Element
    <3> QED BY <1>3, <3>1
  <2>2. ASSUME NEW n \in 1 .. MaxTasks - 1, n \in Good PROVE n + 1 \in Good
    <3>1. n \in 1 .. MaxTasks /\ n + 1 \in Element
      BY TableAssumption DEF Element
    <3>2. PICK i \in 1 .. Len(w) : at[n] = w[i]
      BY <2>2
    <3>3. at[n + 1] = IF i = Len(w) THEN w[1] ELSE w[i + 1]
      BY <1>1, <1>3, <3>1, <3>2
    <3>4. at[n + 1] \in Seen
      <4>1. CASE i = Len(w)
        BY <1>1, <3>3, <4>1
      <4>2. CASE i # Len(w)
        <5>1. i + 1 \in 1 .. Len(w)
          BY <1>1, <4>2
        <5> QED BY <3>3, <4>2, <5>1
      <4> QED BY <4>1, <4>2
    <3> QED BY <3>1, <3>4
  <2>3. \A n \in 1 .. MaxTasks : n \in Good
    <3> HIDE DEF Good
    <3> QED BY <2>1, <2>2, TableAssumption, OneByOne
  <2> QED BY <2>3 DEF Element
<1>7. Linked = {w[i] : i \in 1 .. Len(w)}
  <2>1. Linked = {at[n] : n \in Element}
    BY <1>1 DEF Linked, NoElement, at
  <2>2. \A i \in 1 .. Len(w) : i \in Element
    BY <1>1, <1>2, TableAssumption DEF Element
  <2> QED BY <1>4, <1>6, <2>1, <2>2
<1> QED BY <1>2, <1>4, <1>5, <1>7 DEF at

(* What a walk meets are the live tasks, as many as __tasks_cnt says.        *)
LinkedAreLive ==
    \A w : GoesRound(w) => /\ Linked = Live
                           /\ tasks_cnt = Cardinality(Linked)
                           /\ head # NoElement <=> created # 0

(* Nobody is linked before the first creation, and the live ones are after.  *)
LEMMA LinkedIsLive == LinkedAreLive
<1> SUFFICES ASSUME NEW w, GoesRound(w)
             PROVE  /\ Linked = Live
                    /\ tasks_cnt = Cardinality(Linked)
                    /\ head # NoElement <=> created # 0
  BY DEF LinkedAreLive
<1>1. CASE created = 0
  <2>1. head = NoElement /\ Live = {}
    BY <1>1 DEF GoesRound, Live
  <2>2. Linked = {}
    BY <2>1 DEF Linked
  <2>3. Len(w) = 0
    <3>1. Len(w) \in Nat /\ \A i \in 1 .. Len(w) : w[i] \in Live
      BY LenProperties DEF GoesRound
    <3> QED BY <2>1, <3>1
  <2> QED BY <1>1, <2>1, <2>2, <2>3, FS_EmptySet DEF GoesRound
<1>2. CASE created # 0
  <2>1. Linked = {w[i] : i \in 1 .. Len(w)} /\ Linked = Live
    BY <1>2, WalkVisits DEF GoesRound
  <2>2. Cardinality(Linked) = Len(w)
    BY <2>1, EachOnceCounts DEF GoesRound
  <2> QED BY <1>2, <2>1, <2>2 DEF GoesRound, NoElement
<1> QED BY <1>1, <1>2

(* The same after a step.                                                    *)
LEMMA LinkedIsLiveNext == LinkedAreLive'
  BY LinkedIsLive, PTL

(* Only the last element of the ring points to the head.                     *)
LEMMA TailIsLast ==
    ASSUME NEW w, GoesRound(w), created # 0
    PROVE  ListTail = w[Len(w)]
<1>1. /\ Len(w) \in Nat \ {0} /\ head = w[1]
      /\ \A i \in 1 .. Len(w) : next[w[i]] = IF i = Len(w) THEN w[1] ELSE w[i + 1]
  BY LenProperties, EmptySeq DEF GoesRound
<1>2. Linked = {w[i] : i \in 1 .. Len(w)}
  BY WalkVisits
<1>3. next[w[Len(w)]] = head /\ w[Len(w)] \in Linked
  BY <1>1, <1>2
<1>4. ASSUME NEW e \in Linked, next[e] = head PROVE e = w[Len(w)]
  <2>1. PICK i \in 1 .. Len(w) : e = w[i]
    BY <1>2
  <2>2. CASE i # Len(w)
    <3>1. i + 1 \in 1 .. Len(w) /\ 1 \in 1 .. Len(w) /\ i + 1 # 1
      BY <1>1, <2>2
    <3>2. w[i + 1] = w[1]
      BY <1>1, <1>4, <2>1, <2>2
    <3> QED BY <3>1, <3>2 DEF GoesRound, EachOnce
  <2> QED BY <2>1, <2>2
<1> QED BY <1>3, <1>4 DEF ListTail

(* While the PIDs ascend from the head, the first gap is nobody's PID.       *)
LEMMA NewPidIsNew ==
    ASSUME NEW w, Ring(w), late = 0, TableTypeOK
    PROVE  /\ NewPid \in Nat /\ \A i \in 1 .. Len(w) : pid[w[i]] # NewPid
           /\ ended = {} => NewPid = Len(w) + 1
           /\ Len(w) = 0 => NewPid = 1
<1>1. CASE created = 0
  <2>1. head = NoElement /\ Live = {}
    BY <1>1 DEF Ring, GoesRound, Live
  <2>2. Len(w) = 0
    <3>1. Len(w) \in Nat /\ \A i \in 1 .. Len(w) : w[i] \in Live
      BY LenProperties DEF Ring, GoesRound
    <3> QED BY <2>1, <3>1
  <2> QED BY <2>1, <2>2 DEF NewPid, POS_PID_BASE
<1>2. CASE created # 0
  <2> DEFINE at == WalkFrom(head)
             k == Len(w)
             Gap(n) == pid[at[n]] # n
  <2>1. /\ \A n \in 1 .. k : at[n] = w[n]
        /\ k \in 1 .. MaxTasks /\ at[k + 1] = w[1] /\ head # NoElement
    BY <1>2, WalkVisits, LinkedIsLive DEF LinkedAreLive, Ring
  <2>2. /\ \A i, j \in 1 .. k : i < j => pid[w[i]] < pid[w[j]]
        /\ pid[w[1]] = 1
        /\ \A i \in 1 .. k : pid[w[i]] \in Nat
        /\ ended = {} => \A i \in 1 .. k : pid[w[i]] = i
    <3>1. \A i \in 1 .. k : w[i] \in Element
      BY LenProperties DEF Ring, GoesRound
    <3> QED BY <1>2, <3>1 DEF Ring, GoesRound, PidsOf, TableTypeOK
  <2> HIDE DEF at, k
  <2>3. MaxTasks \in Nat /\ k \in Nat \ {0}
    BY <2>1, TableAssumption
  <2> DEFINE Gaps == {n \in 1 .. MaxTasks + 1 : Gap(n)}
  <2>4. k + 1 \in Gaps
    <3>1. k + 1 \in 1 .. MaxTasks + 1 /\ k + 1 # 1
      BY <2>1, <2>3
    <3> QED BY <2>1, <2>2, <3>1
  <2>5. PICK g \in Gaps : \A n \in Gaps : g <= n
    <3>1. Gaps \in SUBSET Nat
      BY <2>3
    <3> HIDE DEF Gaps
    <3> QED BY <2>4, <3>1, LeastNumber
  <2>6. g \in 1 .. MaxTasks + 1 /\ Gap(g) /\ \A m \in 1 .. g - 1 : pid[at[m]] = m
    <3>1. \A m \in 1 .. g - 1 : m \in 1 .. MaxTasks + 1 /\ ~(g <= m)
      BY <2>3, <2>5
    <3> QED BY <2>5, <3>1
  <2>7. \E n \in 1 .. MaxTasks + 1 : Gap(n) /\ \A m \in 1 .. n - 1 : pid[at[m]] = m
    BY <2>6
  <2> DEFINE p == NewPid
  <2>8. p \in 1 .. MaxTasks + 1 /\ pid[at[p]] # p /\ \A m \in 1 .. p - 1 : pid[at[m]] = m
    <3>1. p = CHOOSE n \in 1 .. MaxTasks + 1 : Gap(n) /\ \A m \in 1 .. n - 1 : pid[at[m]] = m
      BY <2>1 DEF NewPid, at
    <3> HIDE DEF p
    <3> QED BY <2>7, <3>1
  <2> HIDE DEF p
  <2>9. p \in Nat /\ p \in 1 .. k + 1 /\ p # 1
    <3>1. p \in Nat /\ p # 1
      <4>1. at[1] = w[1]
        BY <2>1, <2>3
      <4> QED BY <2>2, <2>3, <2>8, <4>1
    <3>2. CASE p > k + 1
      <4>1. k + 1 \in 1 .. p - 1
        BY <2>3, <3>1, <3>2
      <4>2. pid[at[k + 1]] = k + 1
        BY <2>8, <4>1
      <4> QED BY <2>1, <2>2, <2>3, <4>2
    <3> QED BY <2>3, <2>8, <3>1, <3>2
  <2>10. \A m \in 1 .. p - 1 : pid[w[m]] = m
    <3>1. \A m \in 1 .. p - 1 : m \in 1 .. k
      BY <2>3, <2>9
    <3> QED BY <2>1, <2>8, <3>1
  <2>11. ASSUME NEW i \in 1 .. k, pid[w[i]] = p PROVE FALSE
    <3>1. CASE i < p
      <4>1. i \in 1 .. p - 1
        BY <2>9, <3>1
      <4> QED BY <2>9, <2>10, <2>11, <3>1, <4>1
    <3>2. CASE i >= p
      <4>1. p \in 1 .. k /\ p - 1 \in 1 .. k /\ p - 1 \in 1 .. p - 1 /\ p - 1 < p
        BY <2>3, <2>9, <3>2
      <4>2. pid[w[p]] # p
        BY <2>1, <2>8, <4>1
      <4>3. pid[w[p]] > p - 1 /\ pid[w[p]] \in Nat
        BY <2>2, <2>10, <4>1
      <4>4. pid[w[i]] >= pid[w[p]]
        BY <2>2, <2>9, <3>2, <4>1
      <4> QED BY <2>2, <2>9, <2>11, <4>2, <4>3, <4>4
    <3> QED BY <2>3, <2>9, <3>1, <3>2
  <2>12. ended = {} => p = k + 1
    <3> SUFFICES ASSUME ended = {}, p \in 1 .. k PROVE FALSE
      BY <2>3, <2>9
    <3> QED BY <2>1, <2>2, <2>8
  <2> QED BY <2>3, <2>9, <2>11, <2>12 DEF k, p
<1> QED BY <1>1, <1>2

(* pos_kill_task meets the task that ends at its place behind the head.      *)
LEMMA PlaceFound ==
    ASSUME NEW w, Ring(w), NEW n \in 1 .. Len(w)
    PROVE  PlaceOf(pid[w[n]]) = n
<1> DEFINE at == WalkFrom(head)
           k == Len(w)
           q == pid[w[n]]
           Met(m) == pid[at[m]] = q /\ \A l \in 1 .. m - 1 : pid[at[l]] # q
<1>1. created # 0
  <2>1. w[n] \in Live
    BY DEF Ring, GoesRound
  <2> QED BY <2>1 DEF Live
<1>2. /\ \A m \in 1 .. k : at[m] = w[m]
      /\ k \in 1 .. MaxTasks
  BY <1>1, WalkVisits DEF Ring
<1>3. \A m \in 1 .. k : pid[w[m]] = q => m = n
  BY DEF Ring, PidsOf
<1>4. n \in 1 .. k /\ PlaceOf(q) = CHOOSE m \in Element : Met(m)
  BY DEF PlaceOf
<1> HIDE DEF at, k, q
<1>5. n \in Element /\ n \in Nat /\ k \in Nat /\ \A l \in 1 .. n - 1 : l \in 1 .. k /\ l # n
  BY <1>2, <1>4, TableAssumption DEF Element
<1>6. Met(n)
  BY <1>2, <1>3, <1>4, <1>5 DEF q
<1>7. ASSUME NEW m \in Element, Met(m) PROVE m = n
  <2>1. m \in Nat \ {0} /\ ~(n \in 1 .. m - 1)
    BY <1>6, <1>7, TableAssumption DEF Element
  <2>2. m \in 1 .. k
    BY <1>4, <1>5, <2>1
  <2> QED BY <1>2, <1>3, <1>7, <2>2
<1> HIDE DEF Met
<1> QED BY <1>4, <1>5, <1>6, <1>7 DEF q

-----------------------------------------------------------------------------
(* The steps.                                                                *)

(* What the ring says of the places of its elements.                         *)
LEMMA RingFacts ==
    ASSUME NEW w, Ring(w), TableTypeOK
    PROVE  /\ w \in Seq(Element) /\ EachOnce(w) /\ Len(w) \in Nat /\ tasks_cnt = Len(w)
           /\ \A i \in 1 .. Len(w) : /\ w[i] \in Element /\ w[i] \in 1 .. created
                                     /\ w[i] \notin ended /\ pid[w[i]] \in Nat
           /\ created # 0 => Len(w) # 0 /\ w[1] = 1
           /\ created \in Nat
<1>1. w \in Seq(Element) /\ EachOnce(w) /\ tasks_cnt = Len(w) /\ created \in Nat
  BY TableAssumption DEF Ring, GoesRound, TableTypeOK
<1>2. Len(w) \in Nat /\ \A i \in 1 .. Len(w) : w[i] \in Element
  BY <1>1, LenProperties
<1>3. \A i \in 1 .. Len(w) : w[i] \in Live
  BY DEF Ring, GoesRound
<1>4. created # 0 => Len(w) # 0 /\ w[1] = 1
  BY <1>1, EmptySeq DEF Ring, GoesRound
<1> QED BY <1>1, <1>2, <1>3, <1>4 DEF Live, TableTypeOK

(* pos_schedule_init_task.                                                   *)
LEMMA CreateKeeps ==
    ASSUME TableClass, TableTypeOK, NEW w, Ring(w), CreateTask
    PROVE  TableInv'
<1> DEFINE k == Len(w)
<1>1. PICK new : new = created + 1
  OBVIOUS
<1>2. PICK p : p = NewPid
  OBVIOUS
<1>3. PICK v : v = Append(w, new)
  OBVIOUS
<1>4. /\ created < MaxTasks /\ (ended # {} => late < Recreations)
      /\ created' = new /\ pid' = [pid EXCEPT ![new] = p] /\ next' = Appended(new)
      /\ head' = IF head = NoElement THEN new ELSE head
      /\ tasks_cnt' = tasks_cnt + 1 /\ late' = IF ended = {} THEN late ELSE late + 1
      /\ UNCHANGED <<current, ended, hung>>
  BY <1>1, <1>2 DEF CreateTask
<1>5. /\ w \in Seq(Element) /\ EachOnce(w) /\ k \in Nat /\ tasks_cnt = k
      /\ \A i \in 1 .. k : /\ w[i] \in Element /\ w[i] \in 1 .. created
                           /\ w[i] \notin ended /\ pid[w[i]] \in Nat
      /\ created # 0 => k # 0 /\ w[1] = 1
      /\ created \in Nat
  BY RingFacts
<1>6. new \in Element /\ new \in Nat \ {0} /\ \A i \in 1 .. k : w[i] # new
  BY <1>1, <1>4, <1>5, TableAssumption DEF Element
<1>7. /\ late = 0 /\ late' \in Nat /\ (ended = {} => late' = 0)
  <2>1. late \in Nat /\ Recreations \in Nat /\ Recreations <= 1
    BY TableAssumption DEF TableTypeOK, TableClass
  <2>2. ended = {} => late = 0
    BY DEF Ring, PidsOf
  <2> QED BY <1>4, <2>1, <2>2
<1>8. /\ p \in Nat /\ \A i \in 1 .. k : pid[w[i]] # p
      /\ ended = {} => p = k + 1
      /\ k = 0 => p = 1
  BY <1>2, <1>7, NewPidIsNew
<1>9. /\ v \in Seq(Element) /\ Len(v) = k + 1 /\ EachOnce(v)
      /\ \A i \in 1 .. k : v[i] = w[i]
      /\ v[k + 1] = new
  BY <1>3, <1>5, <1>6, AppendProperties, JoinList
<1>10. /\ k = 0 <=> created = 0
       /\ created = 0 => ended = {} /\ new = 1
  <2>1. k # 0 => created # 0
    <3>1. k # 0 => 1 \in 1 .. k
      BY <1>5
    <3> QED BY <1>5, <3>1
  <2> QED BY <1>1, <1>5, <2>1 DEF TableTypeOK
<1>11. v[1] = 1
  <2>1. k # 0 => 1 \in 1 .. k
    BY <1>5
  <2> QED BY <1>5, <1>9, <1>10, <2>1
<1>12. \A i \in 1 .. k + 1 : next'[v[i]] = IF i = k + 1 THEN v[1] ELSE v[i + 1]
  <2>0. next \in [Element -> Element \cup {NoElement}]
    BY DEF TableTypeOK
  <2>1. CASE created = 0
    <3>1. next' = [next EXCEPT ![new] = new]
      BY <1>4, <2>1 DEF Appended, Ring, GoesRound
    <3> QED BY <1>5, <1>6, <1>9, <1>10, <1>11, <2>0, <2>1, <3>1
  <2>2. CASE created # 0
    <3>1. head = w[1] /\ head # NoElement /\ ListTail = w[k]
      BY <1>5, <2>2, TailIsLast DEF Ring, GoesRound, NoElement
    <3>2. next' = [next EXCEPT ![w[k]] = new, ![new] = w[1]]
      BY <1>4, <3>1 DEF Appended
    <3>3. k \in 1 .. k /\ w[k] \in Element /\ w[k] # new
      BY <1>5, <1>6, <2>2
    <3>4. next'[new] = w[1] /\ next'[w[k]] = new
      BY <1>6, <2>0, <3>2, <3>3
    <3>5. ASSUME NEW i \in 1 .. k, i # k PROVE next'[w[i]] = w[i + 1]
      <4>1. w[i] # w[k] /\ w[i] # new /\ w[i] \in Element
        BY <1>5, <1>6, <3>3, <3>5 DEF EachOnce
      <4>2. next[w[i]] = w[i + 1]
        BY <3>5 DEF Ring, GoesRound
      <4> QED BY <1>6, <2>0, <3>2, <3>3, <4>1, <4>2
    <3>6. ASSUME NEW i \in 1 .. k + 1
          PROVE  next'[v[i]] = IF i = k + 1 THEN v[1] ELSE v[i + 1]
      <4>1. v[1] = w[1]
        BY <1>9, <1>5, <2>2
      <4>2. CASE i = k + 1
        BY <1>9, <3>4, <4>1, <4>2
      <4>3. CASE i = k
        BY <1>5, <1>9, <3>3, <3>4, <4>3
      <4>4. CASE i \in 1 .. k /\ i # k
        <5>1. i + 1 \in 1 .. k /\ i # k + 1
          BY <1>5, <4>4
        <5> QED BY <1>9, <3>5, <4>4, <5>1
      <4> QED BY <1>5, <4>2, <4>3, <4>4
    <3> QED BY <3>6
  <2> QED BY <2>1, <2>2
<1>13. Live' = {v[i] : i \in 1 .. Len(v)}
  <2>1. Live' = Live \cup {new}
    BY <1>1, <1>4, <1>5 DEF Live, TableTypeOK
  <2>2. Live = {w[i] : i \in 1 .. k}
    BY DEF Ring, GoesRound
  <2>3. 1 .. k + 1 = 1 .. k \cup {k + 1}
    BY <1>5
  <2> QED BY <1>9, <2>1, <2>2, <2>3
<1>14. head' = 1 /\ created' # 0
  BY <1>1, <1>4, <1>5, <1>10 DEF Ring, GoesRound, NoElement
<1>15. GoesRound(v)'
  <2>1. v # <<>>
    BY <1>5, <1>9, EmptySeq
  <2>2. tasks_cnt' = Len(v)
    BY <1>4, <1>5, <1>9
  <2>3. \A i \in 1 .. Len(v) : next'[v[i]] = IF i = Len(v) THEN v[1] ELSE v[i + 1]
    BY <1>9, <1>12
  <2> QED BY <1>9, <1>11, <1>13, <1>14, <2>1, <2>2, <2>3 DEF GoesRound
<1>16. /\ \A i \in 1 .. k : pid'[v[i]] = pid[w[i]]
       /\ pid'[v[k + 1]] = p
  BY <1>4, <1>5, <1>6, <1>9 DEF TableTypeOK
<1>17. PidsOf(v)'
  <2>0. \A i \in 1 .. k + 1 : i \in 1 .. k \/ i = k + 1
    BY <1>5
  <2>1. \A i, j \in 1 .. k + 1 : pid'[v[i]] = pid'[v[j]] => i = j
    BY <1>8, <1>16, <2>0 DEF Ring, PidsOf
  <2>2. ended = {} => \A i \in 1 .. k + 1 : pid'[v[i]] = i
    BY <1>8, <1>16, <2>0 DEF Ring, PidsOf
  <2>3. late' = 0 => ended = {}
    BY <1>4, <1>7
  <2>4. ended' = ended /\ Len(v) = k + 1 /\ 1 \in 1 .. k + 1
    BY <1>4, <1>5, <1>9
  <2>5. late' = 0 => /\ \A i, j \in 1 .. Len(v) : i < j => pid'[v[i]] < pid'[v[j]]
                     /\ pid'[v[1]] = 1
    BY <2>2, <2>3, <2>4
  <2> QED BY <1>7, <2>1, <2>2, <2>4, <2>5 DEF PidsOf
<1>18. TableTypeOK'
  <2>1. created' \in 0 .. MaxTasks /\ ended' \in SUBSET (2 .. created')
    BY <1>1, <1>4, <1>5, TableAssumption DEF TableTypeOK
  <2>2. pid' \in [Element -> Nat]
    BY <1>4, <1>6, <1>8 DEF TableTypeOK
  <2>3. next' \in [Element -> Element \cup {NoElement}]
    <3>1. CASE created = 0
      <4>1. next' = [next EXCEPT ![new] = new]
        BY <1>4, <3>1 DEF Appended, Ring, GoesRound
      <4> QED BY <1>6, <4>1 DEF TableTypeOK
    <3>2. CASE created # 0
      <4>1. head = 1 /\ head # NoElement /\ 1 \in Element
        BY <3>2, TableAssumption DEF Ring, GoesRound, NoElement, Element
      <4>2. next' = [next EXCEPT ![ListTail] = new, ![new] = head]
        BY <1>4, <4>1 DEF Appended
      <4> QED BY <1>6, <4>1, <4>2 DEF TableTypeOK
    <3> QED BY <3>1, <3>2
  <2>4. current' \in Live' \cup {NoElement}
    BY <1>1, <1>4, <1>5 DEF Live, TableTypeOK
  <2> QED BY <1>4, <1>7, <2>1, <2>2, <2>3, <2>4 DEF TableTypeOK
<1> QED BY <1>9, <1>15, <1>17, <1>18 DEF TableInv, Ring

(* pos_task_finish: the ring closes behind the task that ends.               *)
LEMMA FinishKeeps ==
    ASSUME TableTypeOK, NEW w, Ring(w), TaskFinish
    PROVE  TableInv'
<1> DEFINE k == Len(w)
<1>1. /\ current # NoElement /\ current # 1
      /\ next' = Unlinked(PlaceOf(pid[current]))
      /\ tasks_cnt' = tasks_cnt - 1 /\ ended' = ended \cup {current} /\ head' = head
      /\ current' \in Linked'
      /\ UNCHANGED <<pid, created, late, hung>>
  BY DEF TaskFinish
<1>2. /\ w \in Seq(Element) /\ EachOnce(w) /\ k \in Nat /\ tasks_cnt = k
      /\ \A i \in 1 .. k : /\ w[i] \in Element /\ w[i] \in 1 .. created
                           /\ w[i] \notin ended /\ pid[w[i]] \in Nat
      /\ created # 0 => k # 0 /\ w[1] = 1
      /\ created \in Nat
  BY RingFacts
<1>3. PICK n \in 1 .. k : w[n] = current
  BY <1>1 DEF Ring, GoesRound, TableTypeOK
<1>4. created # 0 /\ w[1] = 1 /\ n # 1 /\ n \in 2 .. k
  <2>1. created # 0
    BY <1>2, <1>3
  <2> QED BY <1>1, <1>2, <1>3, <2>1
<1>5. PICK v : v = RemovedAt(w, n)
  OBVIOUS
<1>6. /\ v \in Seq(Element) /\ Len(v) = k - 1
      /\ \A i \in 1 .. k - 1 : v[i] = IF i < n THEN w[i] ELSE w[i + 1]
  BY <1>2, <1>5, UnlinkedPlaces
<1> DEFINE Old(i) == IF i < n THEN i ELSE i + 1
<1>7. \A i \in 1 .. k - 1 : Old(i) \in 1 .. k /\ Old(i) # n /\ v[i] = w[Old(i)]
  BY <1>2, <1>4, <1>6
<1>8. \A i, j \in 1 .. k - 1 : (Old(i) = Old(j) => i = j) /\ (i < j => Old(i) < Old(j))
  BY <1>2, <1>4
<1>9. EachOnce(v)
  BY <1>2, <1>6, <1>7, <1>8 DEF EachOnce
<1>10. v[1] = 1 /\ 1 \in 1 .. k - 1
  BY <1>2, <1>4, <1>6
<1>11. next' = [next EXCEPT ![w[n - 1]] = IF n = k THEN w[1] ELSE w[n + 1]]
  <2>1. PlaceOf(pid[current]) = n
    BY <1>3, PlaceFound
  <2>2. n - 1 \in 1 .. k
    BY <1>4
  <2>3. WalkFrom(head)[n] = w[n] /\ WalkFrom(head)[n - 1] = w[n - 1]
    BY <1>4, <2>2, WalkVisits DEF Ring
  <2>4. next[w[n]] = IF n = k THEN w[1] ELSE w[n + 1]
    BY DEF Ring, GoesRound
  <2>5. next' = Unlinked(n)
    BY <1>1, <2>1
  <2>6. Unlinked(n) = [next EXCEPT ![w[n - 1]] = next[w[n]]]
    BY <2>3, Zenon DEF Unlinked
  <2> HIDE DEF k
  <2> QED BY <2>4, <2>5, <2>6, Zenon
<1>12. \A i \in 1 .. k - 1 : next'[v[i]] = IF i = k - 1 THEN v[1] ELSE v[i + 1]
  <2> SUFFICES ASSUME NEW i \in 1 .. k - 1
               PROVE  next'[v[i]] = IF i = k - 1 THEN v[1] ELSE v[i + 1]
    OBVIOUS
  <2>0. /\ next \in [Element -> Element \cup {NoElement}]
        /\ n - 1 \in 1 .. k /\ w[n - 1] \in Element
        /\ \A j \in 1 .. k : next[w[j]] = IF j = k THEN w[1] ELSE w[j + 1]
    <3>1. next \in [Element -> Element \cup {NoElement}]
      BY DEF TableTypeOK
    <3>2. \A j \in 1 .. k : next[w[j]] = IF j = k THEN w[1] ELSE w[j + 1]
      BY DEF Ring, GoesRound
    <3>3. n - 1 \in 1 .. k
      BY <1>2, <1>4
    <3> QED BY <1>2, <3>1, <3>2, <3>3, Zenon
  <2>1. CASE i = n - 1
    <3>1. v[i] = w[n - 1]
      BY <1>4, <1>6, <2>1
    <3>2. next'[v[i]] = IF n = k THEN w[1] ELSE w[n + 1]
      BY <1>11, <2>0, <3>1
    <3>3. CASE n = k
      BY <1>4, <1>10, <2>1, <3>2, <3>3
    <3>4. CASE n # k
      <4>1. i + 1 = n /\ n \in 1 .. k - 1 /\ i # k - 1
        BY <1>4, <2>1, <3>4
      <4> QED BY <1>6, <3>2, <3>4, <4>1
    <3> QED BY <3>3, <3>4
  <2>2. CASE i # n - 1
    <3>1. Old(i) \in 1 .. k /\ Old(i) # n - 1 /\ v[i] = w[Old(i)]
      BY <1>2, <1>4, <1>7, <2>2
    <3>2. w[Old(i)] # w[n - 1] /\ w[Old(i)] \in Element
      BY <1>2, <2>0, <3>1 DEF EachOnce
    <3>3. next'[v[i]] = IF Old(i) = k THEN w[1] ELSE w[Old(i) + 1]
      BY <1>11, <2>0, <3>1, <3>2
    <3>4. CASE i < n
      <4>1. i + 1 \in 1 .. k - 1 /\ i + 1 < n /\ i # k /\ i # k - 1
        BY <1>2, <1>4, <2>2, <3>4
      <4> QED BY <1>6, <3>3, <3>4, <4>1
    <3>5. CASE i >= n /\ i = k - 1
      <4>1. Old(i) = k
        BY <1>2, <1>4, <3>5
      <4> QED BY <1>4, <1>10, <3>3, <3>5, <4>1
    <3>6. CASE i >= n /\ i # k - 1
      <4>1. i + 1 \in 1 .. k - 1 /\ ~(i + 1 < n) /\ Old(i) # k /\ Old(i) = i + 1
        BY <1>2, <1>4, <3>6
      <4> QED BY <1>6, <3>3, <3>6, <4>1
    <3> QED BY <1>4, <3>4, <3>5, <3>6
  <2> QED BY <2>1, <2>2
<1>13. Live' = {v[i] : i \in 1 .. Len(v)}
  <2>1. Live' = Live \ {w[n]}
    BY <1>1, <1>3 DEF Live
  <2>2. Live = {w[i] : i \in 1 .. k}
    BY DEF Ring, GoesRound
  <2>3. ASSUME NEW i \in 1 .. k, w[i] # w[n]
        PROVE  \E j \in 1 .. k - 1 : w[i] = v[j]
    <3>1. CASE i < n
      <4>1. i \in 1 .. k - 1
        BY <1>4, <3>1
      <4> QED BY <1>6, <3>1, <4>1
    <3>2. CASE i > n
      <4>1. i - 1 \in 1 .. k - 1 /\ ~(i - 1 < n) /\ (i - 1) + 1 = i
        BY <1>4, <3>2
      <4>2. v[i - 1] = w[i]
        BY <1>6, <4>1
      <4> QED BY <4>1, <4>2
    <3> QED BY <1>4, <2>3, <3>1, <3>2
  <2>4. ASSUME NEW j \in 1 .. k - 1
        PROVE  v[j] # w[n] /\ \E i \in 1 .. k : v[j] = w[i]
    BY <1>2, <1>3, <1>7 DEF EachOnce
  <2>5. {v[i] : i \in 1 .. k - 1} = {w[i] : i \in 1 .. k} \ {w[n]}
    BY <2>3, <2>4
  <2> QED BY <1>6, <2>1, <2>2, <2>5
<1>14. GoesRound(v)'
  <2>1. head' = IF created' = 0 THEN NoElement ELSE 1
    BY <1>1 DEF Ring, GoesRound
  <2>2. v # <<>>
    BY <1>4, <1>6, EmptySeq
  <2>3. tasks_cnt' = Len(v)
    BY <1>1, <1>2, <1>6
  <2>4. \A i \in 1 .. Len(v) : next'[v[i]] = IF i = Len(v) THEN v[1] ELSE v[i + 1]
    BY <1>6, <1>12
  <2> QED BY <1>6, <1>9, <1>10, <1>13, <2>1, <2>2, <2>3, <2>4 DEF GoesRound
<1>15. PidsOf(v)'
  <2>1. \A i \in 1 .. k - 1 : pid'[v[i]] = pid[w[Old(i)]]
    BY <1>1, <1>7
  <2>2. \A i, j \in 1 .. k - 1 : pid'[v[i]] = pid'[v[j]] => i = j
    BY <1>7, <1>8, <2>1 DEF Ring, PidsOf
  <2>3. late' = 0 => \A i, j \in 1 .. k - 1 : i < j => pid'[v[i]] < pid'[v[j]]
    BY <1>1, <1>7, <1>8, <2>1 DEF Ring, PidsOf
  <2>4. late' = 0 => pid'[v[1]] = 1
    <3>1. w # <<>>
      BY <1>4, EmptySeq
    <3> QED BY <1>1, <1>4, <1>10, <3>1 DEF Ring, PidsOf
  <2>5. ended' # {} /\ Len(v) = k - 1
    BY <1>1, <1>6
  <2> QED BY <2>2, <2>3, <2>4, <2>5 DEF PidsOf
<1>16. current' \in Live'
  <2>1. Linked' = Live'
    BY <1>14, LinkedIsLiveNext DEF LinkedAreLive
  <2> QED BY <1>1, <2>1
<1>17. TableTypeOK'
  <2>1. ended' \in SUBSET (2 .. created')
    <3>1. current \in 2 .. created
      BY <1>2, <1>3, <1>1
    <3> QED BY <1>1, <3>1 DEF TableTypeOK
  <2>2. next' \in [Element -> Element \cup {NoElement}]
    <3>1. (IF n = k THEN w[1] ELSE w[n + 1]) \in Element
      <4>1. n # k => n + 1 \in 1 .. k
        BY <1>4
      <4>2. 1 \in 1 .. k
        BY <1>4
      <4> QED BY <1>2, <4>1, <4>2
    <3> QED BY <1>11, <3>1 DEF TableTypeOK
  <2> QED BY <1>1, <1>16, <2>1, <2>2 DEF TableTypeOK
<1> QED BY <1>6, <1>14, <1>15, <1>17 DEF TableInv, Ring

(* A step that leaves the list alone.                                        *)
LEMMA SameRing ==
    ASSUME NEW w, Ring(w), UNCHANGED <<pid, next, head, tasks_cnt, created, late, ended>>
    PROVE  Ring(w)' /\ Live' = Live
  BY DEF Ring, GoesRound, PidsOf, Live

(* The start, a switch and a look-up of a live task's PID.                   *)
LEMMA OthersKeep ==
    ASSUME TableClass, TableTypeOK, NEW w, Ring(w),
           \/ SchedulerStart \/ SwitchTask \/ UNCHANGED tabVars
           \/ \E p \in Asked : GetTaskByPid(p)
    PROVE  TableInv'
<1>1. UNCHANGED <<pid, next, head, tasks_cnt, created, late, ended>>
  BY DEF SchedulerStart, SwitchTask, GetTaskByPid, tabVars
<1>2. Ring(w)' /\ Live' = Live
  BY <1>1, SameRing
<1>3. Linked = Live /\ (head # NoElement <=> created # 0)
  BY LinkedIsLive DEF LinkedAreLive, Ring
<1>4. current' \in Live \cup {NoElement}
  <2>1. CASE SchedulerStart
    <3>1. current' = head /\ created # 0
      BY <1>3, <2>1 DEF SchedulerStart
    <3>2. Len(w) \in Nat \ {0} /\ head = 1 /\ w[1] = 1
      BY <3>1, RingFacts DEF Ring, GoesRound
    <3>3. 1 \in Live
      <4>1. 1 \in 1 .. Len(w)
        BY <3>2
      <4> QED BY <3>2, <4>1 DEF Ring, GoesRound
    <3> QED BY <3>1, <3>2, <3>3
  <2>2. CASE SwitchTask
    BY <1>3, <2>2 DEF SwitchTask
  <2>3. CASE UNCHANGED current
    BY <2>3 DEF TableTypeOK
  <2> QED BY <2>1, <2>2, <2>3 DEF GetTaskByPid, tabVars
<1>5. hung' = FALSE
  <2>1. CASE \E p \in Asked : GetTaskByPid(p)
    <3>1. PICK p \in Asked : GetTaskByPid(p)
      BY <2>1
    <3>2. PICK e \in Live : p = pid[e]
      BY DEF Asked, Live, TableClass
    <3> QED BY <1>3, <3>1, <3>2 DEF GetTaskByPid
  <2>2. CASE UNCHANGED hung
    BY <2>2 DEF TableTypeOK
  <2> QED BY <2>1, <2>2 DEF SchedulerStart, SwitchTask, tabVars
<1>6. TableTypeOK'
  BY <1>1, <1>2, <1>4, <1>5 DEF TableTypeOK
<1> QED BY <1>2, <1>6 DEF TableInv, Ring, GoesRound

-----------------------------------------------------------------------------
(* The invariant holds at the start and in every step.                       *)
LEMMA TableInitHolds == TableInit => TableInv
<1> SUFFICES ASSUME TableInit PROVE TableInv
  OBVIOUS
<1>1. PICK w : w = <<>> /\ w \in Seq(Element)
  BY EmptySeq
<1>2. Len(w) = 0
  BY <1>1
<1>3. Live = {}
  BY DEF TableInit, Live
<1>4. GoesRound(w)
  BY <1>1, <1>2, <1>3 DEF TableInit, GoesRound, EachOnce
<1>5. PidsOf(w)
  BY <1>1, <1>2 DEF TableInit, PidsOf
<1>6. TableTypeOK
  BY TableAssumption DEF TableInit, TableTypeOK
<1> QED BY <1>1, <1>4, <1>5, <1>6 DEF TableInv, Ring

(* So it always holds.                                                       *)
LEMMA TableInvariant == ASSUME TableClass PROVE TableSpec => []TableInv
<1>1. TableInit => TableInv
  BY TableInitHolds
<1>2. TableInv /\ [TableNext]_tabVars => TableInv'
  <2> SUFFICES ASSUME TableInv, [TableNext]_tabVars PROVE TableInv'
    OBVIOUS
  <2>1. TableTypeOK
    BY DEF TableInv
  <2>2. PICK w : Ring(w)
    BY DEF TableInv
  <2>3. CASE CreateTask
    BY TableClass, <2>1, <2>2, <2>3, CreateKeeps
  <2>4. CASE TaskFinish
    BY <2>1, <2>2, <2>4, FinishKeeps
  <2>5. CASE \/ SchedulerStart \/ SwitchTask \/ UNCHANGED tabVars
             \/ \E p \in Asked : GetTaskByPid(p)
    BY TableClass, <2>1, <2>2, <2>5, OthersKeep
  <2> QED BY <2>3, <2>4, <2>5 DEF TableNext
<1> QED BY <1>1, <1>2, PTL DEF TableSpec

(* For every number of tasks: creation links a task behind the tail and      *)
(* pos_kill_task unlinks the one that ends, and no other, so that the list   *)
(* stays one ring of the live tasks and every walk for a live task's PID     *)
(* ends.                                                                     *)
THEOREM TasksStayInRing == ASSUME TableClass PROVE TableSpec => []RingOfLiveTasks
<1>1. TableInv => RingOfLiveTasks
  <2> SUFFICES ASSUME TableInv PROVE RingOfLiveTasks
    OBVIOUS
  <2>1. PICK w : Ring(w)
    BY DEF TableInv
  <2>2. Linked = Live /\ tasks_cnt = Cardinality(Linked) /\ (head # NoElement <=> created # 0)
    BY <2>1, LinkedIsLive DEF LinkedAreLive, Ring
  <2>3. ASSUME head # NoElement PROVE \E e \in Linked : next[e] = head
    <3>1. Len(w) \in Nat \ {0} /\ w[1] = 1 /\ head = 1
      BY <2>1, <2>2, <2>3, RingFacts DEF TableInv, Ring, GoesRound
    <3>2. Len(w) \in 1 .. Len(w)
      BY <3>1
    <3>3. next[w[Len(w)]] = head /\ w[Len(w)] \in Live
      BY <2>1, <3>1, <3>2 DEF Ring, GoesRound
    <3> QED BY <2>2, <3>3
  <2> QED BY <2>2, <2>3 DEF RingOfLiveTasks, TableInv, TableTypeOK, Live
<1> QED BY <1>1, TableInvariant, PTL

(* The first gap of the ascending walk is nobody's PID; with one creation    *)
(* after an end no two live tasks share one.                                 *)
THEOREM PidsNameOneTask == ASSUME TableClass PROVE TableSpec => []UniquePid
<1>1. TableInv => UniquePid
  <2> SUFFICES ASSUME TableInv, NEW e \in Linked, NEW f \in Linked, pid[e] = pid[f]
               PROVE  e = f
    BY DEF UniquePid
  <2>1. PICK w : Ring(w)
    BY DEF TableInv
  <2>2. PICK i \in 1 .. Len(w), j \in 1 .. Len(w) : e = w[i] /\ f = w[j]
    BY <2>1, LinkedIsLive DEF LinkedAreLive, Ring, GoesRound
  <2> QED BY <2>1, <2>2 DEF Ring, PidsOf
<1> QED BY <1>1, TableInvariant, PTL
=============================================================================
