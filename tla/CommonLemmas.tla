----------------------------- MODULE CommonLemmas -----------------------------
(* What several proofs need to know of numbers and of lists.                 *)
EXTENDS Integers, FiniteSetTheorems, SequenceTheorems, TLAPS

(* A set of natural numbers that is not empty has a least one.               *)
LEMMA LeastNumber ==
    ASSUME NEW S \in SUBSET Nat, S # {}
    PROVE  \E m \in S : \A k \in S : m <= k
<1> DEFINE Below == {0 .. m - 1 : m \in S}
<1>1. \A m \in S : 0 .. m - 1 \in FiniteSubsetsOf(Nat)
  BY FS_Interval DEF FiniteSubsetsOf
<1>2. Below \subseteq FiniteSubsetsOf(Nat) /\ Below # {}
  BY <1>1
<1>3. PICK x \in Below : \A y \in Below : <<y, x>> \notin StrictSubsetOrdering(Nat)
  <2> HIDE DEF Below
  <2> QED BY <1>2, WFMin, FS_StrictSubsetOrderingWellFounded
<1>4. PICK m \in S : x = 0 .. m - 1
  BY <1>3
<1>5. ASSUME NEW k \in S, k < m
      PROVE  <<0 .. k - 1, 0 .. m - 1>> \in StrictSubsetOrdering(Nat)
  <2>1. 0 .. k - 1 \subseteq 0 .. m - 1 /\ 0 .. k - 1 # 0 .. m - 1
    <3>1. k \in 0 .. m - 1 /\ k \notin 0 .. k - 1
      BY <1>5
    <3> QED BY <1>5, <3>1
  <2> QED BY <2>1 DEF StrictSubsetOrdering
<1>6. \A k \in S : ~ (k < m)
  BY <1>3, <1>4, <1>5
<1> QED BY <1>6

(* What holds at the first of some numbers, and at the next one whenever it  *)
(* holds at one, holds at all of them.                                       *)
LEMMA OneByOne ==
    ASSUME NEW lo \in Nat, NEW hi \in Nat, NEW S, lo \in S,
           \A n \in lo .. hi - 1 : n \in S => n + 1 \in S
    PROVE  \A n \in lo .. hi : n \in S
<1> DEFINE Bad == lo .. hi \ S
<1> SUFFICES ASSUME Bad # {} PROVE FALSE
  OBVIOUS
<1>1. PICK m \in Bad : \A k \in Bad : m <= k
  <2>1. Bad \in SUBSET Nat
    OBVIOUS
  <2> HIDE DEF Bad
  <2> QED BY <2>1, LeastNumber
<1>2. m \in lo .. hi /\ m \notin S /\ m # lo
  BY <1>1
<1>3. m - 1 \in lo .. hi - 1 /\ (m - 1) + 1 = m
  BY <1>2
<1>4. m - 1 \in S
  <2>1. m - 1 \in lo .. hi /\ ~(m <= m - 1)
    BY <1>2, <1>3
  <2> QED BY <1>1, <2>1
<1> QED BY <1>2, <1>3, <1>4

-----------------------------------------------------------------------------
(* A list that holds nobody twice.                                           *)
EachOnce(q) == \A i, j \in 1 .. Len(q) : q[i] = q[j] => i = j

(* Appending somebody who is not in the list.                                *)
LEMMA JoinList ==
    ASSUME NEW S, NEW q \in Seq(S), EachOnce(q), NEW t \in S,
           \A i \in 1 .. Len(q) : q[i] # t
    PROVE  /\ EachOnce(Append(q, t)) /\ Len(Append(q, t)) = Len(q) + 1
           /\ \A u : (\E i \in 1 .. Len(Append(q, t)) : Append(q, t)[i] = u)
                     <=> u = t \/ \E i \in 1 .. Len(q) : q[i] = u
<1> DEFINE r == Append(q, t)
<1>1. /\ Len(q) \in Nat /\ Len(r) = Len(q) + 1
      /\ \A i \in 1 .. Len(q) : r[i] = q[i]
      /\ r[Len(q) + 1] = t
  BY AppendProperties, LenProperties
<1> HIDE DEF r
<1>2. EachOnce(r)
  BY <1>1 DEF EachOnce
<1>3. ASSUME NEW u PROVE (\E i \in 1 .. Len(r) : r[i] = u)
                          <=> u = t \/ \E i \in 1 .. Len(q) : q[i] = u
  <2>1. 1 .. Len(r) = 1 .. Len(q) \cup {Len(q) + 1}
    BY <1>1
  <2> QED BY <1>1, <2>1
<1> QED BY <1>1, <1>2, <1>3 DEF r

(* Unlinking the head removes one member, and only it.                       *)
LEMMA LeaveList ==
    ASSUME NEW S, NEW q \in Seq(S), q # <<>>, EachOnce(q)
    PROVE  /\ EachOnce(Tail(q)) /\ Len(Tail(q)) = Len(q) - 1 /\ Head(q) \in S
           /\ \A u : (\E i \in 1 .. Len(Tail(q)) : Tail(q)[i] = u)
                     <=> u # Head(q) /\ \E i \in 1 .. Len(q) : q[i] = u
<1> DEFINE r == Tail(q)
           h == Head(q)
<1>1. /\ Len(q) \in Nat \ {0} /\ Len(r) = Len(q) - 1 /\ h = q[1] /\ h \in S
      /\ \A i \in 1 .. Len(r) : r[i] = q[i + 1]
  BY HeadTailProperties, EmptySeq
<1> HIDE DEF r, h
<1>2. EachOnce(r)
  <2> SUFFICES ASSUME NEW i \in 1 .. Len(r), NEW j \in 1 .. Len(r), r[i] = r[j]
               PROVE  i = j
    BY DEF EachOnce
  <2>1. i + 1 \in 1 .. Len(q) /\ j + 1 \in 1 .. Len(q) /\ q[i + 1] = q[j + 1]
    BY <1>1
  <2>2. i + 1 = j + 1
    BY <2>1 DEF EachOnce
  <2> QED BY <1>1, <2>2
<1>3. ASSUME NEW u, NEW i \in 1 .. Len(r), r[i] = u
      PROVE  u # h /\ \E j \in 1 .. Len(q) : q[j] = u
  <2>1. i + 1 \in 1 .. Len(q) /\ 1 \in 1 .. Len(q) /\ i + 1 # 1 /\ q[i + 1] = u
    BY <1>1, <1>3
  <2> QED BY <1>1, <2>1 DEF EachOnce
<1>4. ASSUME NEW u, u # h, NEW j \in 1 .. Len(q), q[j] = u
      PROVE  \E i \in 1 .. Len(r) : r[i] = u
  <2>1. j # 1
    BY <1>1, <1>4
  <2>2. j - 1 \in 1 .. Len(r) /\ r[j - 1] = u
    BY <1>1, <1>4, <2>1
  <2> QED BY <2>2
<1>5. \A u : (\E i \in 1 .. Len(r) : r[i] = u)
            <=> u # h /\ \E i \in 1 .. Len(q) : q[i] = u
  BY <1>3, <1>4
<1> QED BY <1>1, <1>2, <1>5 DEF r, h

(* A list without its last place, and who is there.                          *)
Shorter(q) == SubSeq(q, 1, Len(q) - 1)
AtEnd(q) == q[Len(q)]

(* Unlinking the last place removes one member, and only it.                 *)
LEMMA LeaveEnd ==
    ASSUME NEW S, NEW q \in Seq(S), q # <<>>, EachOnce(q)
    PROVE  /\ Shorter(q) \in Seq(S) /\ EachOnce(Shorter(q)) /\ AtEnd(q) \in S
           /\ \E i \in 1 .. Len(q) : q[i] = AtEnd(q)
           /\ \A u : (\E i \in 1 .. Len(Shorter(q)) : Shorter(q)[i] = u)
                     <=> u # AtEnd(q) /\ \E i \in 1 .. Len(q) : q[i] = u
<1> DEFINE r == Shorter(q)
           l == AtEnd(q)
<1>0. r = SubSeq(q, 1, Len(q) - 1) /\ l = q[Len(q)]
  BY DEF Shorter, AtEnd
<1> HIDE DEF r, l
<1>1. PICK n \in Nat \ {0} : n = Len(q)
  BY LenProperties, EmptySeq
<1>2. \A i \in 1 .. n : q[i] \in S
  BY <1>1, LenProperties
<1>3. r \in Seq(S) /\ Len(r) = n - 1 /\ \A i \in 1 .. n - 1 : r[i] = q[i]
  <2>1. r = SubSeq(q, 1, n - 1) /\ \A i \in 1 .. n - 1 : q[i] \in S
    BY <1>0, <1>1, <1>2
  <2>2. /\ r \in Seq(S)
        /\ Len(r) = (IF 1 <= n - 1 THEN n - 1 - 1 + 1 ELSE 0)
        /\ \A i \in 1 .. n - 1 - 1 + 1 : r[i] = q[1 + i - 1]
    BY <2>1, SubSeqProperties
  <2>3. Len(r) = n - 1
    BY <2>2
  <2>4. \A i \in 1 .. n - 1 : r[i] = q[i]
    BY <2>2
  <2> QED BY <2>2, <2>3, <2>4
<1>4. EachOnce(r)
  BY <1>1, <1>3 DEF EachOnce
<1>5. \A i \in 1 .. n : q[i] # l <=> i # n
  BY <1>0, <1>1 DEF EachOnce
<1>6. \A u : (\E i \in 1 .. Len(r) : r[i] = u)
            <=> u # l /\ \E i \in 1 .. n : q[i] = u
  BY <1>3, <1>5
<1>7. n \in 1 .. n /\ l = q[n]
  BY <1>0, <1>1
<1>8. l \in S /\ \E i \in 1 .. n : q[i] = l
  BY <1>2, <1>7
<1>9. /\ \E i \in 1 .. Len(q) : q[i] = l
      /\ \A u : (\E i \in 1 .. Len(r) : r[i] = u)
                <=> u # l /\ \E i \in 1 .. Len(q) : q[i] = u
  BY <1>1, <1>6, <1>8
<1> QED BY <1>3, <1>4, <1>8, <1>9 DEF r, l

-----------------------------------------------------------------------------
(* A list with a new element at one place, without one of its places, and    *)
(* what is behind a place.                                                   *)
Inserted(q, at, e) == SubSeq(q, 1, at - 1) \o <<e>> \o SubSeq(q, at, Len(q))
RemovedAt(q, at) == SubSeq(q, 1, at - 1) \o SubSeq(q, at + 1, Len(q))
Behind(q, at) == SubSeq(q, at + 1, Len(q))

(* Every element keeps its place or moves one place back.                    *)
LEMMA InsertedPlaces ==
    ASSUME NEW S, NEW q \in Seq(S), NEW at \in 1 .. Len(q) + 1, NEW e \in S
    PROVE  /\ Inserted(q, at, e) \in Seq(S) /\ Len(Inserted(q, at, e)) = Len(q) + 1
           /\ \A k \in 1 .. Len(q) + 1 :
                  Inserted(q, at, e)[k] = IF k < at THEN q[k]
                                          ELSE IF k = at THEN e ELSE q[k - 1]
<1>1. Len(q) \in Nat /\ \A i \in 1 .. Len(q) : q[i] \in S
  BY LenProperties
<1> DEFINE front == SubSeq(q, 1, at - 1)
           back == SubSeq(q, at, Len(q))
           one == <<e>>
           left == front \o one
           r == left \o back
<1>2. /\ front \in Seq(S) /\ Len(front) = at - 1
      /\ \A k \in 1 .. at - 1 : front[k] = q[k]
  BY <1>1, SubSeqProperties
<1>3. /\ back \in Seq(S) /\ Len(back) = Len(q) - at + 1
      /\ \A k \in 1 .. Len(q) - at + 1 : back[k] = q[at + k - 1]
  BY <1>1, SubSeqProperties
<1>4. Inserted(q, at, e) = r /\ one \in Seq(S) /\ Len(one) = 1 /\ one[1] = e
  BY DEF Inserted
<1> HIDE DEF front, back, one
<1>5. /\ left \in Seq(S) /\ Len(left) = at
      /\ \A k \in 1 .. at : left[k] = IF k < at THEN q[k] ELSE e
  <2>1. /\ left \in Seq(S) /\ Len(left) = Len(front) + Len(one)
        /\ \A k \in 1 .. Len(front) + Len(one) :
               left[k] = IF k <= Len(front) THEN front[k] ELSE one[k - Len(front)]
    BY <1>2, <1>4, ConcatProperties
  <2> QED BY <1>1, <1>2, <1>4, <2>1
<1> HIDE DEF left
<1>6. /\ r \in Seq(S) /\ Len(r) = Len(left) + Len(back)
      /\ \A k \in 1 .. Len(left) + Len(back) :
             r[k] = IF k <= Len(left) THEN left[k] ELSE back[k - Len(left)]
  BY <1>3, <1>5, ConcatProperties
<1> HIDE DEF r
<1>7. Len(r) = Len(q) + 1 /\ Len(left) + Len(back) = Len(q) + 1
  BY <1>1, <1>3, <1>5, <1>6
<1>8. \A k \in 1 .. Len(q) + 1 :
          r[k] = IF k < at THEN q[k] ELSE IF k = at THEN e ELSE q[k - 1]
  <2> SUFFICES ASSUME NEW k \in 1 .. Len(q) + 1
               PROVE  r[k] = IF k < at THEN q[k] ELSE IF k = at THEN e ELSE q[k - 1]
    OBVIOUS
  <2>1. CASE k <= at
    BY <1>1, <1>5, <1>6, <1>7, <2>1
  <2>2. CASE k > at
    <3>1. k - at \in 1 .. Len(q) - at + 1 /\ at + (k - at) - 1 = k - 1
      BY <1>1, <2>2
    <3>2. back[k - at] = q[k - 1]
      BY <1>3, <3>1
    <3> QED BY <1>1, <1>5, <1>6, <1>7, <2>2, <3>2
  <2> QED BY <1>1, <2>1, <2>2
<1> QED BY <1>4, <1>6, <1>7, <1>8

(* Those behind the place move up.                                           *)
LEMMA UnlinkedPlaces ==
    ASSUME NEW S, NEW q \in Seq(S), NEW at \in 1 .. Len(q)
    PROVE  /\ RemovedAt(q, at) \in Seq(S) /\ Len(RemovedAt(q, at)) = Len(q) - 1
           /\ \A k \in 1 .. Len(q) - 1 :
                  RemovedAt(q, at)[k] = IF k < at THEN q[k] ELSE q[k + 1]
<1>1. Len(q) \in Nat /\ \A i \in 1 .. Len(q) : q[i] \in S
  BY LenProperties
<1> DEFINE front == SubSeq(q, 1, at - 1)
           back == SubSeq(q, at + 1, Len(q))
           r == front \o back
<1>2. /\ front \in Seq(S) /\ Len(front) = at - 1
      /\ \A k \in 1 .. at - 1 : front[k] = q[k]
  BY <1>1, SubSeqProperties
<1>3. /\ back \in Seq(S) /\ Len(back) = Len(q) - at
      /\ \A k \in 1 .. Len(q) - at : back[k] = q[at + k]
  BY <1>1, SubSeqProperties
<1>4. RemovedAt(q, at) = r
  BY DEF RemovedAt
<1> HIDE DEF front, back
<1>5. /\ r \in Seq(S) /\ Len(r) = Len(front) + Len(back)
      /\ \A k \in 1 .. Len(front) + Len(back) :
             r[k] = IF k <= Len(front) THEN front[k] ELSE back[k - Len(front)]
  BY <1>2, <1>3, ConcatProperties
<1> HIDE DEF r
<1>6. Len(r) = Len(q) - 1 /\ Len(front) + Len(back) = Len(q) - 1
  BY <1>1, <1>2, <1>3, <1>5
<1>7. \A k \in 1 .. Len(q) - 1 : r[k] = IF k < at THEN q[k] ELSE q[k + 1]
  <2> SUFFICES ASSUME NEW k \in 1 .. Len(q) - 1
               PROVE  r[k] = IF k < at THEN q[k] ELSE q[k + 1]
    OBVIOUS
  <2>1. CASE k < at
    BY <1>1, <1>2, <1>5, <1>6, <2>1
  <2>2. CASE k >= at
    <3>1. k - (at - 1) \in 1 .. Len(q) - at /\ at + (k - (at - 1)) = k + 1
      BY <1>1, <2>2
    <3>2. back[k - (at - 1)] = q[k + 1]
      BY <1>3, <3>1
    <3> QED BY <1>1, <1>2, <1>5, <1>6, <2>2, <3>2
  <2> QED BY <1>1, <2>1, <2>2
<1> QED BY <1>4, <1>5, <1>6, <1>7

(* So do they when everything in front of them is cut off.                   *)
LEMMA BehindPlaces ==
    ASSUME NEW S, NEW q \in Seq(S), NEW at \in 1 .. Len(q)
    PROVE  /\ Behind(q, at) \in Seq(S) /\ Len(Behind(q, at)) = Len(q) - at
           /\ \A k \in 1 .. Len(q) - at : Behind(q, at)[k] = q[at + k]
<1>1. Len(q) \in Nat /\ \A i \in 1 .. Len(q) : q[i] \in S
  BY LenProperties
<1> QED BY <1>1, SubSeqProperties DEF Behind

-----------------------------------------------------------------------------
(* A list that holds nobody twice has as many members as places.             *)
LEMMA EachOnceCounts ==
    ASSUME NEW S, NEW q \in Seq(S), EachOnce(q)
    PROVE  Cardinality({q[i] : i \in 1 .. Len(q)}) = Len(q)
<1> DEFINE P == 1 .. Len(q)
           M == {q[i] : i \in P}
<1>1. Len(q) \in Nat /\ q \in [P -> S]
  BY LenProperties
<1>2. IsFiniteSet(P) /\ Cardinality(P) = Len(q)
  BY <1>1, FS_Interval
<1>3. q \in Bijection(P, M)
  BY <1>1 DEF EachOnce, Bijection, Injection, Surjection, IsInjective
<1>4. ExistsBijection(P, M)
  BY <1>3 DEF ExistsBijection
<1> HIDE DEF P, M
<1>5. Cardinality(M) = Cardinality(P)
  BY <1>2, <1>4, FS_Bijection
<1> QED BY <1>2, <1>5 DEF P, M

-----------------------------------------------------------------------------
(* A sum over a finite set, taken away element by element in some order, as  *)
(* the folds of sets do it: f is the sum of each part of S.                  *)
Some(s) == CHOOSE x \in s : TRUE

AddsUp(w, S, f) ==
    f = [s \in SUBSET S |-> IF s = {} THEN 0 ELSE w[Some(s)] + f[s \ {Some(s)}]]

(* A part that is not empty has one element less without the one taken away. *)
LEMMA OneLess ==
    ASSUME NEW s, IsFiniteSet(s), NEW x \in s
    PROVE  /\ IsFiniteSet(s \ {x}) /\ Cardinality(s \ {x}) \in Nat
           /\ Cardinality(s) = Cardinality(s \ {x}) + 1
<1>1. IsFiniteSet(s \ {x}) /\ Cardinality(s \ {x}) = Cardinality(s) - 1
  BY FS_RemoveElement
<1>2. Cardinality(s) \in Nat /\ Cardinality(s \ {x}) \in Nat
  BY <1>1, FS_CardinalityType
<1> QED BY <1>1, <1>2

(* Every finite set has its sums.                                            *)
LEMMA SumExists ==
    ASSUME NEW S, IsFiniteSet(S), NEW w
    PROVE  \E f : AddsUp(w, S, f)
<1> DEFINE Part(n) == {s \in SUBSET S : Cardinality(s) <= n}
           UpTo(n, f) == f = [s \in Part(n) |-> IF s = {} THEN 0
                                                ELSE w[Some(s)] + f[s \ {Some(s)}]]
           Good == {n \in Nat : \E f : UpTo(n, f)}
<1>1. \A s \in SUBSET S : IsFiniteSet(s) /\ Cardinality(s) \in Nat
                          /\ Cardinality(s) <= Cardinality(S)
  BY FS_Subset, FS_CardinalityType
<1>2. \A s \in SUBSET S : s # {} => Some(s) \in s
  BY DEF Some
<1>3. \A s \in SUBSET S : s # {} => Cardinality(s) = Cardinality(s \ {Some(s)}) + 1
  BY <1>1, <1>2, OneLess
<1>4. 0 \in Good
  <2>1. \A s \in Part(0) : s = {}
    BY <1>1, FS_EmptySet
  <2>2. UpTo(0, [s \in Part(0) |-> 0])
    BY <2>1
  <2> QED BY <2>2
<1>5. ASSUME NEW n \in Nat, n \in Good PROVE n + 1 \in Good
  <2>1. PICK g : UpTo(n, g)
    BY <1>5
  <2> DEFINE h == [s \in Part(n + 1) |-> IF s = {} THEN 0
                                         ELSE w[Some(s)] + g[s \ {Some(s)}]]
  <2>2. \A s \in Part(n) : s \in Part(n + 1)
    BY <1>1
  <2>3. \A s \in Part(n) : h[s] = g[s]
    BY <2>1, <2>2
  <2>4. \A s \in Part(n + 1) : s # {} => s \ {Some(s)} \in Part(n)
    BY <1>1, <1>3
  <2>5. h = [s \in Part(n + 1) |-> IF s = {} THEN 0
                                   ELSE w[Some(s)] + h[s \ {Some(s)}]]
    BY <2>3, <2>4
  <2> HIDE DEF h, Part
  <2>6. \E f : UpTo(n + 1, f)
    BY <2>5
  <2> HIDE DEF UpTo
  <2> QED BY <2>6
<1> DEFINE N == Cardinality(S)
<1>6. N \in Nat
  BY FS_CardinalityType
<1>7. N \in Good
  <2> HIDE DEF Good, N
  <2>1. \A n \in 0 .. N : n \in Good
    BY <1>4, <1>5, <1>6, OneByOne
  <2> QED BY <1>6, <2>1
<1>8. Part(N) = SUBSET S
  BY <1>1
<1>9. PICK f : UpTo(N, f)
  BY <1>7
<1> HIDE DEF Part
<1> QED BY <1>8, <1>9 DEF AddsUp

Weighs(w, S) == \A x \in S : w[x] \in Nat

OrderFree(w, S, f) ==
    /\ f[{}] = 0
    /\ \A s \in SUBSET S : f[s] \in Nat /\ \A x \in s : f[s] = w[x] + f[s \ {x}]

(* The order makes no difference: any element may be taken away first.       *)
LEMMA AnyOrder ==
    ASSUME NEW S, IsFiniteSet(S), NEW w, Weighs(w, S), NEW f, AddsUp(w, S, f)
    PROVE  OrderFree(w, S, f)
<1> DEFINE Fine(s) == f[s] \in Nat /\ \A x \in s : f[s] = w[x] + f[s \ {x}]
           Good == {n \in Nat : \A s \in SUBSET S : Cardinality(s) <= n => Fine(s)}
<1>1. \A s \in SUBSET S : IsFiniteSet(s) /\ Cardinality(s) \in Nat
                          /\ Cardinality(s) <= Cardinality(S)
  BY FS_Subset, FS_CardinalityType
<1>2. /\ f[{}] = 0
      /\ \A s \in SUBSET S : s # {} => Some(s) \in s /\ f[s] = w[Some(s)] + f[s \ {Some(s)}]
  BY DEF AddsUp, Some
<1>3. 0 \in Good
  <2>1. \A s \in SUBSET S : Cardinality(s) <= 0 => s = {}
    BY <1>1, FS_EmptySet
  <2>2. Fine({})
    BY <1>2
  <2>3. \A s \in SUBSET S : Cardinality(s) <= 0 => Fine(s)
    <3> HIDE DEF Fine
    <3> QED BY <2>1, <2>2
  <2> HIDE DEF Fine
  <2> QED BY <2>3
<1>4. ASSUME NEW n \in Nat, n \in Good PROVE n + 1 \in Good
  <2> SUFFICES ASSUME NEW s \in SUBSET S, Cardinality(s) <= n + 1, s # {} PROVE Fine(s)
    BY <1>2
  <2>1. \A x \in s : s \ {x} \in SUBSET S /\ Fine(s \ {x})
    <3> SUFFICES ASSUME NEW x \in s PROVE s \ {x} \in SUBSET S /\ Fine(s \ {x})
      OBVIOUS
    <3>1. Cardinality(s \ {x}) \in Nat /\ Cardinality(s) = Cardinality(s \ {x}) + 1
      BY <1>1, OneLess
    <3>2. Cardinality(s \ {x}) <= n
      BY <3>1
    <3> QED BY <1>4, <3>2
  <2>2. PICK y \in s : f[s] = w[y] + f[s \ {y}]
    BY <1>2
  <2>3. ASSUME NEW x \in s, x # y PROVE f[s] = w[x] + f[s \ {x}]
    <3>1. x \in s \ {y} /\ y \in s \ {x} /\ (s \ {x}) \ {y} = (s \ {y}) \ {x}
      BY <2>3
    <3> DEFINE t == (s \ {y}) \ {x}
    <3>2. f[s \ {y}] = w[x] + f[t] /\ f[s \ {x}] = w[y] + f[t]
      BY <2>1, <3>1
    <3>3. f[t] \in Nat
      <4>1. IsFiniteSet(s \ {y}) /\ Cardinality(s \ {y}) <= n
        BY <1>1, OneLess
      <4>2. t \in SUBSET S /\ Cardinality(t) <= n
        BY <4>1, FS_Subset, FS_CardinalityType
      <4> QED BY <1>4, <4>2
    <3>4. w[x] \in Nat /\ w[y] \in Nat
      BY DEF Weighs
    <3> HIDE DEF t
    <3> QED BY <2>2, <3>2, <3>3, <3>4
  <2>4. f[s] \in Nat
    BY <2>1, <2>2 DEF Weighs
  <2> QED BY <2>2, <2>3, <2>4
<1>5. ASSUME NEW s \in SUBSET S PROVE Fine(s)
  <2> DEFINE n == Cardinality(s)
  <2>1. n \in Nat
    BY <1>1
  <2>2. n \in Good
    <3> HIDE DEF Good, n
    <3>1. \A m \in 0 .. n : m \in Good
      BY <1>3, <1>4, <2>1, OneByOne
    <3> QED BY <2>1, <3>1
  <2> HIDE DEF n, Fine
  <2>3. \A t \in SUBSET S : Cardinality(t) <= n => Fine(t)
    BY <2>2
  <2> QED BY <2>1, <2>3 DEF n
<1> QED BY <1>2, <1>5 DEF OrderFree

(* Two sums of the same elements agree.                                      *)
LEMMA SameSum ==
    ASSUME NEW S, IsFiniteSet(S), NEW w, Weighs(w, S), NEW f, AddsUp(w, S, f),
           NEW T, IsFiniteSet(T), NEW v, Weighs(v, T), NEW h, AddsUp(v, T, h),
           S \subseteq T, \A x \in S : v[x] = w[x]
    PROVE  h[S] = f[S]
<1> DEFINE Good == {n \in Nat : \A s \in SUBSET S : Cardinality(s) = n => h[s] = f[s]}
<1>1. \A s \in SUBSET S : IsFiniteSet(s) /\ Cardinality(s) \in Nat
  BY FS_Subset, FS_CardinalityType
<1>2. f[{}] = 0 /\ \A s \in SUBSET S : \A x \in s : f[s] = w[x] + f[s \ {x}]
  BY AnyOrder DEF OrderFree
<1>3. h[{}] = 0 /\ \A s \in SUBSET S : \A x \in s : h[s] = v[x] + h[s \ {x}]
  <2>1. h[{}] = 0 /\ \A s \in SUBSET T : \A x \in s : h[s] = v[x] + h[s \ {x}]
    BY AnyOrder DEF OrderFree
  <2> QED BY <2>1
<1>4. 0 \in Good
  BY <1>1, <1>2, <1>3, FS_EmptySet
<1>5. ASSUME NEW n \in Nat, n \in Good PROVE n + 1 \in Good
  <2> SUFFICES ASSUME NEW s \in SUBSET S, Cardinality(s) = n + 1 PROVE h[s] = f[s]
    OBVIOUS
  <2>1. PICK x \in s : TRUE
    BY FS_EmptySet
  <2>2. Cardinality(s \ {x}) = n
    <3>1. Cardinality(s \ {x}) \in Nat /\ Cardinality(s) = Cardinality(s \ {x}) + 1
      BY <1>1, OneLess
    <3> QED BY <3>1
  <2>3. h[s \ {x}] = f[s \ {x}]
    BY <1>5, <2>2
  <2> QED BY <1>2, <1>3, <2>3
<1>6. Cardinality(S) \in Good
  <2> DEFINE N == Cardinality(S)
  <2>1. N \in Nat
    BY <1>1
  <2> HIDE DEF Good, N
  <2>2. \A m \in 0 .. N : m \in Good
    BY <1>4, <1>5, <2>1, OneByOne
  <2> QED BY <2>1, <2>2 DEF N
<1> QED BY <1>6

(* One element more adds what it weighs.                                     *)
LEMMA SumGrows ==
    ASSUME NEW S, IsFiniteSet(S), NEW w, Weighs(w, S), NEW f, AddsUp(w, S, f),
           NEW x, x \notin S,
           NEW v, Weighs(v, S \cup {x}), NEW h, AddsUp(v, S \cup {x}, h),
           \A y \in S : v[y] = w[y]
    PROVE  h[S \cup {x}] = f[S] + v[x] /\ f[S] \in Nat
<1> DEFINE T == S \cup {x}
<1>1. IsFiniteSet(T)
  BY FS_AddElement
<1>2. x \in T /\ T \in SUBSET T /\ T \ {x} = S
  OBVIOUS
<1> HIDE DEF T
<1>3. h[T] = v[x] + h[S]
  <2>1. OrderFree(v, T, h)
    BY <1>1, AnyOrder DEF T
  <2> QED BY <1>2, <2>1 DEF OrderFree
<1>4. h[S] = f[S]
  BY <1>1, SameSum DEF T
<1>5. f[S] \in Nat
  BY AnyOrder DEF OrderFree
<1>6. v[x] \in Nat
  BY <1>2 DEF T, Weighs
<1> QED BY <1>3, <1>4, <1>5, <1>6 DEF T
=============================================================================
