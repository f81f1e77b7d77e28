---------------------------- MODULE PosMemoryProofs ----------------------------
(*****************************************************************************)
(* The heap is exact for every size of the map, every set of sizes and every *)
(* order of pmalloc, pfree and pmemset, under three conditions: the map ends *)
(* with a whole word, no size has the carry that pget_var_size loses, and    *)
(* programs fill no more than they asked for (HeapClass).  The console uses  *)
(* that heap from print and from its interrupt at once: with one careful     *)
(* printer (ConsoleClass) no block is lost or freed twice, and the texts     *)
(* reach the line in their order.                                            *)
(*****************************************************************************)
EXTENDS PosConsole, CommonLemmas

WholeWords == MapBytes % 4 = 0

CarryFree(size) == VarSize(size) = size + POS_MEMORY_BLOCK_SIZE_LEN
NoCarry == \A size \in Sizes : CarryFree(size)

HeapClass == WholeWords /\ NoCarry /\ AskSize = FALSE

-----------------------------------------------------------------------------
(* What get_mem_used reports.                                                *)

(* What the blocks of g take, with their headers.                            *)
Cost(g) == [u \in DOMAIN g |-> g[u] + POS_MEMORY_BLOCK_SIZE_LEN]
Total(g) == MapThenSumSet(LAMBDA u : g[u] + POS_MEMORY_BLOCK_SIZE_LEN, DOMAIN g)

CostUpTo(g, f) ==
    f = [s \in SUBSET DOMAIN g |->
            IF s = {} THEN 0
            ELSE g[Some(s)] + POS_MEMORY_BLOCK_SIZE_LEN + f[s \ {Some(s)}]]

(* The fold of the sum meets its equation, since some function does.         *)
LEMMA TotalIsSum ==
    ASSUME NEW g, IsFiniteSet(DOMAIN g)
    PROVE  \E f : AddsUp(Cost(g), DOMAIN g, f) /\ Total(g) = f[DOMAIN g]
<1>1. \A s \in SUBSET DOMAIN g : s # {} =>
          Cost(g)[Some(s)] = g[Some(s)] + POS_MEMORY_BLOCK_SIZE_LEN
  <2>1. \A s \in SUBSET DOMAIN g : s # {} => Some(s) \in DOMAIN g
    BY DEF Some
  <2> QED BY <2>1 DEF Cost
<1>2. \A f : CostUpTo(g, f) <=> AddsUp(Cost(g), DOMAIN g, f)
  BY <1>1 DEF CostUpTo, AddsUp
<1>3. \E f : CostUpTo(g, f)
  BY <1>2, SumExists
<1>4. PICK f : f = CHOOSE x : CostUpTo(g, x)
  OBVIOUS
<1>5. CostUpTo(g, f)
  BY <1>3, <1>4
<1>6. Total(g) = f[DOMAIN g]
  BY <1>4 DEF Total, MapThenSumSet, MapThenFoldSet, CostUpTo, Some
<1> QED BY <1>2, <1>5, <1>6

(* One block more adds its size and its header.                              *)
LEMMA TotalGrows ==
    ASSUME NEW g, IsFiniteSet(DOMAIN g), NEW x, x \notin DOMAIN g,
           NEW h, DOMAIN h = DOMAIN g \cup {x}, \A u \in DOMAIN g : h[u] = g[u],
           \A u \in DOMAIN h : h[u] \in Nat
    PROVE  Total(h) = Total(g) + h[x] + POS_MEMORY_BLOCK_SIZE_LEN /\ Total(g) \in Nat
<1>1. IsFiniteSet(DOMAIN h)
  BY FS_AddElement
<1>2. PICK f : AddsUp(Cost(g), DOMAIN g, f) /\ Total(g) = f[DOMAIN g]
  BY TotalIsSum
<1>3. PICK k : AddsUp(Cost(h), DOMAIN h, k) /\ Total(h) = k[DOMAIN h]
  BY <1>1, TotalIsSum
<1>4. Weighs(Cost(g), DOMAIN g) /\ Weighs(Cost(h), DOMAIN h)
  BY DEF Weighs, Cost, POS_MEMORY_BLOCK_SIZE_LEN
<1>5. /\ \A u \in DOMAIN g : Cost(h)[u] = Cost(g)[u]
      /\ Cost(h)[x] = h[x] + POS_MEMORY_BLOCK_SIZE_LEN
  BY DEF Cost
<1>6. k[DOMAIN g \cup {x}] = f[DOMAIN g] + Cost(h)[x] /\ f[DOMAIN g] \in Nat
  BY <1>2, <1>3, <1>4, <1>5, SumGrows
<1> QED BY <1>2, <1>3, <1>5, <1>6 DEF POS_MEMORY_BLOCK_SIZE_LEN

-----------------------------------------------------------------------------
(* A heap h whose blocks l are.  The headers tell what was asked for;        *)
(* nothing has written over them ...                                         *)
HeadersIntact(h, l) ==
    /\ h = [map |-> h.map, hdr |-> l, used |-> h.used]
    /\ l = [u \in DOMAIN l |-> l[u]]
    /\ \A u \in DOMAIN l : u \in Unit /\ l[u] \in Nat /\ CarryFree(l[u])

(* ... the map has their bits and no others ...                              *)
MapExact(h, l) ==
    /\ \A u \in DOMAIN l : Block(u, l[u]) \subseteq HeapUnit
    /\ \A u, v \in DOMAIN l : u # v => Block(u, l[u]) \cap Block(v, l[v]) = {}
    /\ h.map = UNION {Block(u, l[u]) : u \in DOMAIN l}

(* ... and what is in use is what they take.                                 *)
HeapOK(h, l) ==
    /\ HeadersIntact(h, l) /\ MapExact(h, l)
    /\ IsFiniteSet(DOMAIN l) /\ h.used = Total(l)

Granted(l, u, size) == [b \in DOMAIN l \cup {u} |-> IF b = u THEN size ELSE l[b]]
LessBlocks(l, gone) == [b \in DOMAIN l \ gone |-> l[b]]

(* With whole words the search stays in the heap.                            *)
LEMMA UnitIsHeapUnit ==
    ASSUME WholeWords
    PROVE  Unit = HeapUnit
<1>1. 4 * Units(MapBytes) = MapBytes
  BY MemoryAssumption DEF Units, WholeWords
<1>2. 32 * Units(MapBytes) = 8 * MapBytes
  <2>1. Units(MapBytes) \in Int
    BY MemoryAssumption DEF Units
  <2> QED BY <1>1, <2>1, MemoryAssumption
<1> QED BY <1>2 DEF Unit, HeapUnit

(* A unit is a number.                                                       *)
LEMMA UnitsAreNumbers == Unit \in SUBSET Nat
  BY MemoryAssumption DEF Unit, Units

(* A block has at least one unit, and holds its header and its data.         *)
LEMMA BlockBounds ==
    ASSUME NEW size \in Nat
    PROVE  /\ Units(size + POS_MEMORY_BLOCK_SIZE_LEN) \in Nat \ {0}
           /\ 4 * Units(size + POS_MEMORY_BLOCK_SIZE_LEN) >= size + POS_MEMORY_BLOCK_SIZE_LEN
  BY DEF Units, POS_MEMORY_BLOCK_SIZE_LEN

(* The search finds room where there is some.                                *)
LEMMA FirstFitHasRoom ==
    ASSUME NEW h, NEW size, Room(h, size) # {}
    PROVE  FirstFit(h, size) \in Room(h, size)
<1>1. Room(h, size) \in SUBSET Nat
  BY UnitsAreNumbers DEF Room
<1>2. \E u \in Room(h, size) : \A v \in Room(h, size) : u <= v
  BY <1>1, LeastNumber
<1> QED BY <1>2 DEF FirstFit

(* A block contains its first unit.                                          *)
LEMMA BlockStart ==
    ASSUME NEW u \in Nat, NEW size \in Nat
    PROVE  u \in Block(u, size)
  BY BlockBounds DEF Block, Span

(* pmemset of no more than was asked for leaves the headers alone.           *)
LEMMA FilledKeepsHeaders ==
    ASSUME NEW h, NEW l, HeapOK(h, l), NEW u \in DOMAIN l
    PROVE  Filled(h, u, l[u]) = h
<1> DEFINE end == 4 * u + POS_MEMORY_BLOCK_SIZE_LEN + l[u]
<1>1. \A b \in DOMAIN l : b \in Nat /\ l[b] \in Nat
  BY UnitsAreNumbers DEF HeapOK, HeadersIntact
<1>2. ASSUME NEW b \in DOMAIN l
      PROVE  b <= u \/ 4 * b >= end
  <2>1. CASE b = u
    BY <1>1, <2>1
  <2>2. CASE b # u
    <3>1. b \in Block(b, l[b])
      BY <1>1, BlockStart
    <3>2. b \notin Block(u, l[u])
      BY <2>2, <3>1 DEF HeapOK, MapExact
    <3>3. b < u \/ b >= u + Units(l[u] + POS_MEMORY_BLOCK_SIZE_LEN)
      BY <1>1, <3>2, BlockBounds DEF Block, Span
    <3>4. 4 * Units(l[u] + POS_MEMORY_BLOCK_SIZE_LEN) >= l[u] + POS_MEMORY_BLOCK_SIZE_LEN
      BY <1>1, BlockBounds
    <3>5. Units(l[u] + POS_MEMORY_BLOCK_SIZE_LEN) \in Nat
      BY <1>1, BlockBounds
    <3> QED BY <1>1, <3>3, <3>4, <3>5 DEF POS_MEMORY_BLOCK_SIZE_LEN
  <2> QED BY <2>1, <2>2
<1>3. h.hdr = l /\ l = [b \in DOMAIN l |-> l[b]]
  BY DEF HeapOK, HeadersIntact
<1>4. Filled(h, u, l[u]) = [h EXCEPT !.hdr = [b \in DOMAIN l |-> l[b]]]
  BY <1>2, <1>3 DEF Filled
<1> QED BY <1>3, <1>4 DEF HeapOK, HeadersIntact

(* pmalloc takes free units within the heap.                                 *)
LEMMA AllocedOK ==
    ASSUME WholeWords, NEW h, NEW l, HeapOK(h, l), NEW size \in Nat, CarryFree(size),
           Room(h, size) # {}
    PROVE  /\ HeapOK(Alloced(h, size), Granted(l, FirstFit(h, size), size))
           /\ FirstFit(h, size) \in Unit /\ FirstFit(h, size) \notin DOMAIN l
<1> DEFINE u == FirstFit(h, size)
           k == Granted(l, u, size)
           g == Alloced(h, size)
<1>1. u \in Unit /\ u \in Nat /\ Block(u, size) \subseteq HeapUnit \ h.map
  <2>1. u \in Room(h, size)
    BY FirstFitHasRoom
  <2> QED BY <2>1, UnitIsHeapUnit, UnitsAreNumbers DEF Room
<1>2. u \in Block(u, size)
  BY <1>1, BlockStart
<1>3. \A v \in DOMAIN l : v # u /\ Block(v, l[v]) \cap Block(u, size) = {}
  <2>1. \A v \in DOMAIN l : Block(v, l[v]) \subseteq h.map
    BY DEF HeapOK, MapExact
  <2>2. \A v \in DOMAIN l : v \in Block(v, l[v])
    BY BlockStart, UnitsAreNumbers DEF HeapOK, HeadersIntact
  <2> QED BY <1>1, <1>2, <2>1, <2>2
<1>4. g = [map |-> h.map \cup Block(u, size), hdr |-> k,
           used |-> h.used + size + POS_MEMORY_BLOCK_SIZE_LEN]
  <2>1. h.hdr = l
    BY DEF HeapOK, HeadersIntact
  <2> QED BY <2>1 DEF Alloced, Granted
<1>5. /\ DOMAIN k = DOMAIN l \cup {u} /\ k[u] = size
      /\ k = [v \in DOMAIN k |-> k[v]]
      /\ \A v \in DOMAIN l : k[v] = l[v]
  BY <1>3 DEF Granted
<1> HIDE DEF u, k, g
<1>6. HeadersIntact(g, k)
  BY <1>1, <1>4, <1>5 DEF HeapOK, HeadersIntact
<1>7. MapExact(g, k)
  <2>1. \A v \in DOMAIN k : Block(v, k[v]) \subseteq HeapUnit
    BY <1>1, <1>5 DEF HeapOK, MapExact
  <2>2. \A v, w \in DOMAIN k : v # w => Block(v, k[v]) \cap Block(w, k[w]) = {}
    BY <1>3, <1>5 DEF HeapOK, MapExact
  <2>3. g.map = UNION {Block(v, k[v]) : v \in DOMAIN k}
    BY <1>4, <1>5 DEF HeapOK, MapExact
  <2> QED BY <2>1, <2>2, <2>3 DEF MapExact
<1>8. IsFiniteSet(DOMAIN k)
  BY <1>5, FS_AddElement DEF HeapOK
<1>9. g.used = Total(k)
  <2>1. \A v \in DOMAIN k : k[v] \in Nat
    BY <1>6 DEF HeadersIntact
  <2>2. Total(k) = Total(l) + size + POS_MEMORY_BLOCK_SIZE_LEN
    BY <1>3, <1>5, <2>1, TotalGrows DEF HeapOK
  <2> QED BY <1>4, <2>2 DEF HeapOK
<1> QED BY <1>1, <1>3, <1>6, <1>7, <1>8, <1>9 DEF HeapOK, u, k, g

(* pfree takes back what pmalloc has given: the header still has the size.   *)
LEMMA FreedOK ==
    ASSUME NEW h, NEW l, HeapOK(h, l), NEW u \in DOMAIN l
    PROVE  HeapOK(Freed(h, u), LessBlocks(l, {u}))
<1> DEFINE k == LessBlocks(l, {u})
           g == Freed(h, u)
<1>1. h.hdr = l /\ VarSize(l[u]) = l[u] + POS_MEMORY_BLOCK_SIZE_LEN
  BY DEF HeapOK, HeadersIntact, CarryFree
<1>2. g = [map |-> h.map \ Block(u, l[u]), hdr |-> k,
           used |-> h.used - (l[u] + POS_MEMORY_BLOCK_SIZE_LEN)]
  BY <1>1 DEF Freed, Block, LessBlocks
<1>3. /\ DOMAIN k = DOMAIN l \ {u} /\ k = [v \in DOMAIN k |-> k[v]]
      /\ \A v \in DOMAIN k : k[v] = l[v]
  BY DEF LessBlocks
<1> HIDE DEF k, g
<1>4. HeadersIntact(g, k)
  BY <1>2, <1>3 DEF HeapOK, HeadersIntact
<1>5. MapExact(g, k)
  <2>1. g.map = UNION {Block(v, k[v]) : v \in DOMAIN k}
    BY <1>2, <1>3 DEF HeapOK, MapExact
  <2> QED BY <1>3, <2>1 DEF HeapOK, MapExact
<1>6. IsFiniteSet(DOMAIN k)
  BY <1>3, FS_RemoveElement DEF HeapOK
<1>7. g.used = Total(k)
  <2>1. \A v \in DOMAIN l : l[v] \in Nat
    BY DEF HeapOK, HeadersIntact
  <2>2. /\ u \notin DOMAIN k /\ DOMAIN l = DOMAIN k \cup {u}
        /\ \A v \in DOMAIN k : l[v] = k[v]
    BY <1>3
  <2>3. /\ Total(l) = Total(k) + l[u] + POS_MEMORY_BLOCK_SIZE_LEN
        /\ Total(k) \in Nat
    BY <1>6, <2>1, <2>2, TotalGrows
  <2> QED BY <1>2, <2>1, <2>3 DEF HeapOK, POS_MEMORY_BLOCK_SIZE_LEN
<1> QED BY <1>4, <1>5, <1>6, <1>7 DEF HeapOK, k, g

(* After init_pos_memory there is no block and nothing is counted.           *)
LEMMA InitOK ==
    ASSUME HeapClass, MemoryInit
    PROVE  HeapOK(heap, live)
<1>1. Unit \ HeapUnit = {}
  BY UnitIsHeapUnit DEF HeapClass
<1>2. heap \in [map : {{}}, hdr : {<<>>}, used : {0}]
  BY <1>1 DEF MemoryInit
<1>3. live = <<>> /\ DOMAIN live = {}
  BY DEF MemoryInit
<1>4. HeadersIntact(heap, live)
  BY <1>2, <1>3 DEF HeadersIntact
<1>5. MapExact(heap, live)
  BY <1>2, <1>3 DEF MapExact
<1>6. IsFiniteSet(DOMAIN live)
  BY <1>3, FS_EmptySet
<1>7. Total(live) = 0
  <2>1. PICK f : AddsUp(Cost(live), DOMAIN live, f) /\ Total(live) = f[DOMAIN live]
    BY <1>6, TotalIsSum
  <2> QED BY <1>3, <2>1 DEF AddsUp
<1> QED BY <1>2, <1>4, <1>5, <1>6, <1>7 DEF HeapOK

-----------------------------------------------------------------------------
(* The heap alone.                                                           *)

(* A call of pmalloc, with what it returns.                                  *)
LEMMA MallocOK ==
    ASSUME WholeWords, HeapOK(heap, live), NEW size \in Nat, CarryFree(size), Malloc(size)
    PROVE  /\ HeapOK(heap', live')
           /\ \/ error' # "none" /\ UNCHANGED <<heap, live>>
              \/ /\ error' = "none"
                 /\ FirstFit(heap, size) \in Unit /\ FirstFit(heap, size) \notin DOMAIN live
                 /\ DOMAIN live' = DOMAIN live \cup {FirstFit(heap, size)}
<1>1. CASE Room(heap, size) = {}
  BY <1>1 DEF Malloc
<1>2. CASE Room(heap, size) # {}
  <2>1. /\ heap' = Alloced(heap, size) /\ error' = "none"
        /\ live' = Granted(live, FirstFit(heap, size), size)
    BY <1>2 DEF Malloc, Grant, Granted
  <2>2. DOMAIN live' = DOMAIN live \cup {FirstFit(heap, size)}
    BY <2>1 DEF Granted
  <2> QED BY <1>2, <2>1, <2>2, AllocedOK
<1> QED BY <1>1, <1>2

(* A call of pfree.                                                          *)
LEMMA FreeOK ==
    ASSUME HeapOK(heap, live), NEW u \in DOMAIN live, Free(u)
    PROVE  HeapOK(heap', live') /\ DOMAIN live' = DOMAIN live \ {u}
<1>1. heap' = Freed(heap, u) /\ live' = LessBlocks(live, {u})
  BY DEF Free, Without, LessBlocks
<1> QED BY <1>1, FreedOK DEF LessBlocks

(* A call of pmemset.                                                        *)
LEMMA MemsetOK ==
    ASSUME HeapClass, HeapOK(heap, live), NEW u \in DOMAIN live, Memset(u, FillLength(u))
    PROVE  UNCHANGED <<heap, live>>
<1>1. FillLength(u) = live[u]
  BY DEF FillLength, HeapClass
<1> QED BY <1>1, FilledKeepsHeaders DEF Memset

(* Every call keeps the invariant, so it always holds.                       *)
LEMMA HeapAlwaysOK ==
    ASSUME HeapClass
    PROVE  MemorySpec => []HeapOK(heap, live)
<1>1. MemoryInit => HeapOK(heap, live)
  BY HeapClass, InitOK
<1>2. HeapOK(heap, live) /\ [MemoryNext]_memVars => HeapOK(heap, live)'
  <2> SUFFICES ASSUME HeapOK(heap, live), [MemoryNext]_memVars
               PROVE  HeapOK(heap', live')
    OBVIOUS
  <2>1. CASE \E size \in Sizes : Malloc(size)
    BY <2>1, HeapClass, MallocOK, MemoryAssumption DEF HeapClass, NoCarry
  <2>2. CASE \E u \in DOMAIN live : Free(u)
    BY <2>2, FreeOK
  <2>3. CASE \E u \in DOMAIN live : Memset(u, FillLength(u))
    <3>1. UNCHANGED <<heap, live>>
      BY <2>3, HeapClass, MemsetOK
    <3> QED BY <3>1
  <2>4. CASE UNCHANGED memVars
    BY <2>4 DEF memVars
  <2> QED BY <2>1, <2>2, <2>3, <2>4 DEF MemoryNext, MemoryHalted
<1> QED BY <1>1, <1>2, PTL DEF MemorySpec

(* No unit is handed out twice and none is lost, whatever programs ask for   *)
(* and give back: the map has the bits of the blocks they hold, no others.   *)
THEOREM HeapStaysExact ==
    ASSUME HeapClass
    PROVE  MemorySpec => []HeapExact
<1>1. HeapOK(heap, live) => HeapExact
  BY DEF HeapOK, MapExact, HeapExact
<1> QED BY <1>1, HeapAlwaysOK, PTL

(* pos_memory.c:164: get_mem_used returns the amount of allocated heap, the  *)
(* headers with it.                                                          *)
THEOREM UsedStaysAllocated ==
    ASSUME HeapClass
    PROVE  MemorySpec => []UsedIsAllocated
<1>1. HeapOK(heap, live) => UsedIsAllocated
  BY DEF HeapOK, UsedIsAllocated, Total
<1> QED BY <1>1, HeapAlwaysOK, PTL

-----------------------------------------------------------------------------
(* The console on that heap.                                                 *)

(* One task prints, with the interrupts masked while a text waits, and no    *)
(* text has the carry either.                                                *)
ConsoleClass ==
    /\ HeapClass
    /\ \A id \in Text : CarryFree(TextLen[id])
    /\ Careful = TRUE
    /\ \A t, u \in Printer : t = u

Item == [text : Unit, node : Unit, len : Nat]
Locals ==
    [pc : {"idle", "node", "walk", "link", "test", "start"},
     text : Unit \cup {Null}, node : Unit \cup {Null}, tail : Unit \cup {Null}]

(* The values; print has a text from its copy to the link, and a node from   *)
(* its allocation to the link.                                               *)
ConTyped ==
    /\ queue \in Seq(Item)
    /\ tx = [buffer |-> tx.buffer, cnt |-> tx.cnt, remained |-> tx.remained]
    /\ tx.buffer \in Unit \cup {Null}
    /\ call \in [Printer -> Locals]
    /\ printed \in Nat

HoldsOwn(t) ==
    /\ call[t].text # Null <=> call[t].pc \in {"node", "walk", "link"}
    /\ call[t].node # Null <=> call[t].pc \in {"walk", "link"}
    /\ call[t].text # Null =>
           call[t].text \in DOMAIN data /\ data[call[t].text] \in Text

(* What print has read still holds when it uses it: the queue does not       *)
(* change under it, and the transmitter it has found idle stays so.          *)
ReadsHold(t) ==
    /\ call[t].pc \in {"node", "walk", "link"} => mask # Null \/ queue = <<>>
    /\ call[t].pc = "link" =>
           call[t].tail = IF queue = <<>> THEN Null ELSE Last(queue).node
    /\ call[t].pc = "start" => is_sending = 0

IdleLine == is_sending = 0 => tx.buffer = Null /\ uart = "idle"

(* The blocks print, the queue and the transmitter hold.                     *)
CallBlocks(c) == UNION {{c[t].text, c[t].node} \ {Null} : t \in Printer}
QueueBlocks(q) == UNION {{q[i].text, q[i].node} : i \in DOMAIN q}
SentBlock(buf) == {buf} \ {Null}

(* Nobody holds a block twice ...                                            *)
AllDiffer(q) ==
    \A i, j \in DOMAIN q :
        /\ q[i].text # q[j].node
        /\ i # j => q[i].text # q[j].text /\ q[i].node # q[j].node

OwnTwo(c) == \A t \in Printer : c[t].text # Null => c[t].text # c[t].node

(* ... no two hold the same, and together they hold all there are.           *)
Parts(all, a, s, c, q) ==
    /\ all = a \cup s \cup c \cup q
    /\ a \cap s = {} /\ a \cap c = {} /\ a \cap q = {}
    /\ s \cap c = {} /\ s \cap q = {} /\ c \cap q = {}

Owned(l, a, buf, c, q) ==
    Parts(DOMAIN l, a, SentBlock(buf), CallBlocks(c), QueueBlocks(q))

ConInv ==
    /\ HeapOK(heap, live)
    /\ ConTyped /\ IdleLine
    /\ \A t \in Printer : HoldsOwn(t) /\ ReadsHold(t)
    /\ AllDiffer(queue) /\ OwnTwo(call)
    /\ Owned(live, app, tx.buffer, call, queue)

(* NULL_PTR is no unit of the heap.                                          *)
LEMMA NullIsNoBlock ==
    /\ Null \notin Unit
    /\ \A h, l : HeapOK(h, l) => Null \notin DOMAIN l
  BY ConsoleAssumption DEF HeapOK, HeadersIntact

(* The end of the queue gets the blocks of the text that is linked ...       *)
LEMMA AppendBlocks ==
    ASSUME NEW q \in Seq(Item), AllDiffer(q), NEW item \in Item, item.text # item.node,
           item.text \notin QueueBlocks(q), item.node \notin QueueBlocks(q)
    PROVE  /\ Append(q, item) \in Seq(Item) /\ AllDiffer(Append(q, item))
           /\ QueueBlocks(Append(q, item)) = QueueBlocks(q) \cup {item.text, item.node}
<1> DEFINE r == Append(q, item)
<1>1. /\ r \in Seq(Item) /\ DOMAIN r = DOMAIN q \cup {Len(q) + 1}
      /\ Len(q) + 1 \notin DOMAIN q
      /\ r[Len(q) + 1] = item /\ \A i \in DOMAIN q : r[i] = q[i]
  OBVIOUS
<1> HIDE DEF r
<1>2. \A i \in DOMAIN q : q[i].text \in QueueBlocks(q) /\ q[i].node \in QueueBlocks(q)
  BY DEF QueueBlocks
<1>3. AllDiffer(r)
  BY <1>1, <1>2 DEF AllDiffer
<1>4. QueueBlocks(r) = QueueBlocks(q) \cup {item.text, item.node}
  BY <1>1 DEF QueueBlocks
<1> QED BY <1>1, <1>3, <1>4 DEF r

(* ... and its head leaves with its own.                                     *)
LEMMA TailBlocks ==
    ASSUME NEW q \in Seq(Item), AllDiffer(q), q # <<>>
    PROVE  /\ Head(q) \in Item /\ Head(q).text # Head(q).node
           /\ Tail(q) \in Seq(Item) /\ AllDiffer(Tail(q))
           /\ QueueBlocks(q) = QueueBlocks(Tail(q)) \cup {Head(q).text, Head(q).node}
           /\ Head(q).text \notin QueueBlocks(Tail(q))
           /\ Head(q).node \notin QueueBlocks(Tail(q))
<1> DEFINE r == Tail(q)
           item == Head(q)
<1>1. /\ Len(q) \in Nat /\ Len(q) > 0 /\ DOMAIN q = 1 .. Len(q)
      /\ r \in Seq(Item) /\ DOMAIN r = 1 .. Len(q) - 1
      /\ \A i \in DOMAIN r : r[i] = q[i + 1]
      /\ item = q[1] /\ item \in Item
  OBVIOUS
<1> HIDE DEF r, item
<1>2. AllDiffer(r)
  BY <1>1 DEF AllDiffer
<1>3. \A i \in DOMAIN q : i = 1 \/ (i - 1 \in DOMAIN r /\ r[i - 1] = q[i])
  BY <1>1
<1>4. \A i \in DOMAIN r : i + 1 \in DOMAIN q /\ i + 1 # 1
  BY <1>1
<1>5. QueueBlocks(q) = QueueBlocks(r) \cup {item.text, item.node}
  <2>1. QueueBlocks(r) \subseteq QueueBlocks(q)
    BY <1>1, <1>4 DEF QueueBlocks
  <2>2. item.text \in QueueBlocks(q) /\ item.node \in QueueBlocks(q)
    BY <1>1 DEF QueueBlocks
  <2>3. QueueBlocks(q) \subseteq QueueBlocks(r) \cup {item.text, item.node}
    BY <1>1, <1>3 DEF QueueBlocks
  <2> QED BY <2>1, <2>2, <2>3
<1>6. item.text \notin QueueBlocks(r) /\ item.node \notin QueueBlocks(r)
  BY <1>1, <1>4 DEF QueueBlocks, AllDiffer
<1>7. item.text # item.node
  BY <1>1 DEF AllDiffer
<1> QED BY <1>1, <1>2, <1>5, <1>6, <1>7 DEF r, item

(* The link behind the last node is at the end.                              *)
LEMMA LinkedAtEnd ==
    ASSUME queue \in Seq(Item), AllDiffer(queue), NEW tail, NEW item,
           tail = IF queue = <<>> THEN Null ELSE Last(queue).node
    PROVE  Linked(tail, item) = Append(queue, item)
<1>1. CASE queue = <<>>
  BY <1>1 DEF Linked
<1>2. CASE queue # <<>>
  <2>1. /\ Len(queue) \in DOMAIN queue /\ tail = queue[Len(queue)].node
        /\ queue[Len(queue)] \in Item
    BY <1>2 DEF Last
  <2>2. tail # Null
    BY <2>1, NullIsNoBlock DEF Item
  <2>3. (CHOOSE j \in DOMAIN queue : queue[j].node = tail) = Len(queue)
    BY <2>1 DEF AllDiffer
  <2>4. SubSeq(queue, 1, Len(queue)) = queue
    OBVIOUS
  <2> QED BY <2>1, <2>2, <2>3, <2>4 DEF Linked
<1> QED BY <1>1, <1>2

(* data_sent frees the text it is given, and the node of the text it takes.  *)
LEMMA DataSentFrees ==
    ASSUME HeapOK(heap, live), NEW buf, buf = Null \/ buf \in DOMAIN live,
           queue # <<>> => Head(queue).node \in DOMAIN live \ {buf},
           NEW sending, NEW line, DataSent(buf, sending, line)
    PROVE  /\ HeapOK(heap', live')
           /\ DOMAIN live' =
                  DOMAIN live \ {buf, IF queue = <<>> THEN buf ELSE Head(queue).node}
<1> DEFINE l == LessBlocks(live, {buf})
           h == Released(heap, buf)
<1>1. HeapOK(h, l)
  <2>1. CASE buf = Null
    <3>1. live = l
      BY <2>1, NullIsNoBlock DEF LessBlocks, HeapOK, HeadersIntact
    <3> QED BY <2>1, <3>1 DEF Released
  <2>2. CASE buf \in DOMAIN live
    <3>1. buf # Null
      BY <2>2, NullIsNoBlock
    <3> QED BY <2>2, <3>1, FreedOK DEF Released
  <2> QED BY <2>1, <2>2
<1>2. CASE queue = <<>>
  <2>1. heap' = h /\ live' = l
    BY <1>2 DEF DataSent, LessBlocks
  <2> QED BY <1>1, <1>2, <2>1 DEF LessBlocks
<1>3. CASE queue # <<>>
  <2> DEFINE u == Head(queue).node
  <2>1. /\ heap' = Freed(h, u)
        /\ live' = [b \in DOMAIN live \ {buf, u} |-> live[b]]
    BY <1>3 DEF DataSent
  <2>2. u \in DOMAIN l
    BY <1>3 DEF LessBlocks
  <2> HIDE DEF u
  <2>3. live' = LessBlocks(l, {u})
    <3>1. DOMAIN l \ {u} = DOMAIN live \ {buf, u} /\ \A b \in DOMAIN l : l[b] = live[b]
      BY DEF LessBlocks
    <3> HIDE DEF l
    <3> QED BY <2>1, <3>1 DEF LessBlocks
  <2> HIDE DEF l, h
  <2>4. HeapOK(Freed(h, u), LessBlocks(l, {u}))
    BY <1>1, <2>2, FreedOK
  <2>5. HeapOK(heap', live')
    BY <2>1, <2>3, <2>4
  <2> QED BY <1>3, <2>1, <2>5 DEF u
<1> QED BY <1>2, <1>3

(* What the one printer holds.                                               *)
LEMMA OneCall ==
    ASSUME NEW t \in Printer, \A u \in Printer : u = t, NEW c
    PROVE  CallBlocks(c) = {c[t].text, c[t].node} \ {Null}
  BY DEF CallBlocks

(* print takes the text it will copy.                                        *)
LEMMA CallPrintOK ==
    ASSUME ConsoleClass, ConInv, NEW t \in Printer, CallPrint(t)
    PROVE  ConInv'
<1> DEFINE size == TextLen[printed + 1]
           buf == FirstFit(heap, size)
<1> USE NullIsNoBlock
<1>1. /\ \A u \in Printer : u = t
      /\ call[t].pc = "idle" /\ call[t].text = Null /\ call[t].node = Null
      /\ printed + 1 \in Text
  BY DEF ConsoleClass, ConInv, HoldsOwn, CallPrint, At, ConTyped, Text
<1>2. size \in Nat /\ CarryFree(size) /\ WholeWords /\ Malloc(size)
  BY <1>1, ConsoleAssumption DEF ConsoleClass, HeapClass, CallPrint, Text
<1>3. /\ HeapOK(heap', live')
      /\ \/ error' # "none" /\ UNCHANGED <<heap, live>>
         \/ /\ error' = "none" /\ buf \in Unit /\ buf \notin DOMAIN live
            /\ DOMAIN live' = DOMAIN live \cup {buf}
  BY <1>2, MallocOK DEF ConInv
<1>4. /\ mask' = t \/ (mask' = mask /\ queue = <<>>)
      /\ printed' \in Nat /\ UNCHANGED <<queue, is_sending, tx, uart, app>>
  BY DEF CallPrint, ConsoleClass, lineVars, ConInv, ConTyped
<1>5. CASE error' # "none"
  <2>1. UNCHANGED <<data, call, live>>
    BY <1>3, <1>5 DEF CallPrint
  <2>2. \A u \in Printer : HoldsOwn(u)' /\ ReadsHold(u)'
    BY <1>1, <1>4, <2>1 DEF HoldsOwn, ReadsHold, ConInv
  <2> QED BY <1>3, <1>4, <2>1, <2>2 DEF ConInv, ConTyped, IdleLine, Owned, OwnTwo
<1>6. CASE error' = "none"
  <2> DEFINE new == [Idle EXCEPT !.pc = "node", !.text = buf]
  <2>1. /\ data' = [b \in DOMAIN data \cup {buf} |->
                       IF b = buf THEN printed + 1 ELSE data[b]]
        /\ call' = [call EXCEPT ![t] = new]
    BY <1>6 DEF CallPrint
  <2>2. /\ buf \in Unit /\ buf # Null /\ buf \notin DOMAIN live
        /\ DOMAIN live' = DOMAIN live \cup {buf}
    BY <1>3, <1>6
  <2> HIDE DEF buf
  <2>3. /\ new.pc = "node" /\ new.text = buf /\ new.node = Null /\ new \in Locals
    BY <2>2 DEF Idle, Locals
  <2>4. call'[t] = new /\ call' \in [Printer -> Locals]
    BY <2>1, <2>3 DEF ConInv, ConTyped
  <2> HIDE DEF new
  <2>5. \A u \in Printer : HoldsOwn(u)' /\ ReadsHold(u)'
    BY <1>1, <1>4, <2>1, <2>2, <2>3, <2>4, ConsoleAssumption DEF HoldsOwn, ReadsHold
  <2>6. OwnTwo(call')
    BY <1>1, <2>2, <2>3, <2>4 DEF OwnTwo
  <2>7. CallBlocks(call) = {} /\ CallBlocks(call') = {buf}
    BY <1>1, <2>2, <2>3, <2>4, OneCall
  <2>8. Owned(live', app', tx'.buffer, call', queue')
    BY <1>4, <2>2, <2>7 DEF ConInv, Owned, Parts
  <2> QED BY <1>3, <1>4, <2>4, <2>5, <2>6, <2>8 DEF ConInv, ConTyped, IdleLine
<1> QED BY <1>5, <1>6

(* It takes the node of the queue.                                           *)
LEMMA AllocNodeOK ==
    ASSUME ConsoleClass, ConInv, NEW t \in Printer, AllocNode(t)
    PROVE  ConInv'
<1> DEFINE buf == FirstFit(heap, NodeSize)
<1> USE NullIsNoBlock
<1>1. /\ \A u \in Printer : u = t
      /\ call[t].pc = "node" /\ call[t].text # Null /\ call[t].node = Null
      /\ call[t] \in Locals
  BY DEF ConsoleClass, ConInv, ConTyped, HoldsOwn, AllocNode, At
<1>2. NodeSize \in Nat /\ CarryFree(NodeSize) /\ WholeWords /\ Malloc(NodeSize)
  <2>1. CarryFree(12)
    BY DEF CarryFree, VarSize, POS_MEMORY_BLOCK_SIZE_LEN
  <2> QED BY <2>1 DEF ConsoleClass, HeapClass, AllocNode, NodeSize
<1>3. /\ HeapOK(heap', live')
      /\ \/ error' # "none" /\ UNCHANGED <<heap, live>>
         \/ /\ error' = "none" /\ buf \in Unit /\ buf \notin DOMAIN live
            /\ DOMAIN live' = DOMAIN live \cup {buf}
  BY <1>2, MallocOK DEF ConInv
<1>4. UNCHANGED <<queue, is_sending, tx, uart, app, mask, data, printed>>
  BY DEF AllocNode, lineVars
<1>5. CASE error' # "none"
  <2>1. UNCHANGED <<call, live>>
    BY <1>3, <1>5 DEF AllocNode
  <2>2. \A u \in Printer : HoldsOwn(u)' /\ ReadsHold(u)'
    BY <1>4, <2>1 DEF HoldsOwn, ReadsHold, ConInv
  <2> QED BY <1>3, <1>4, <2>1, <2>2 DEF ConInv, ConTyped, IdleLine, Owned, OwnTwo
<1>6. CASE error' = "none"
  <2>1. call' = [call EXCEPT ![t].pc = "walk", ![t].node = buf]
    BY <1>6 DEF AllocNode
  <2>2. /\ buf \in Unit /\ buf # Null /\ buf \notin DOMAIN live
        /\ DOMAIN live' = DOMAIN live \cup {buf}
    BY <1>3, <1>6
  <2> HIDE DEF buf
  <2>3. /\ call' \in [Printer -> Locals] /\ call'[t].pc = "walk"
        /\ call'[t].text = call[t].text /\ call'[t].node = buf
    BY <1>1, <2>1, <2>2 DEF ConInv, ConTyped, Locals
  <2>4. CallBlocks(call) = {call[t].text} /\ CallBlocks(call') = {call[t].text, buf}
    BY <1>1, <2>2, <2>3, OneCall
  <2>5. call[t].text # buf
    BY <2>2, <2>4 DEF ConInv, Owned, Parts
  <2>6. \A u \in Printer : HoldsOwn(u)' /\ ReadsHold(u)'
    BY <1>1, <1>4, <2>2, <2>3 DEF HoldsOwn, ReadsHold, ConInv
  <2>7. OwnTwo(call')
    BY <1>1, <2>3, <2>5 DEF OwnTwo
  <2>8. Owned(live', app', tx'.buffer, call', queue')
    BY <1>4, <2>2, <2>4 DEF ConInv, Owned, Parts
  <2> QED BY <1>3, <1>4, <2>3, <2>6, <2>7, <2>8 DEF ConInv, ConTyped, IdleLine
<1> QED BY <1>5, <1>6

(* It finds the tail.                                                        *)
LEMMA FindTailOK ==
    ASSUME ConsoleClass, ConInv, NEW t \in Printer, FindTail(t)
    PROVE  ConInv'
<1> DEFINE end == IF queue = <<>> THEN Null ELSE Last(queue).node
<1>1. /\ \A u \in Printer : u = t
      /\ call[t].pc = "walk" /\ call[t] \in Locals
  BY DEF ConsoleClass, ConInv, ConTyped, FindTail, At
<1>2. /\ UNCHANGED <<heap, live, queue, is_sending, tx, uart, app, mask, data, printed>>
      /\ call' = [call EXCEPT ![t].pc = "link", ![t].tail = end]
  BY DEF FindTail, lineVars, memVars
<1>3. end \in Unit \cup {Null}
  <2>1. CASE queue # <<>>
    <3>1. Last(queue) \in Item
      BY <2>1 DEF ConInv, ConTyped, Last
    <3> QED BY <3>1 DEF Item
  <2> QED BY <2>1
<1> HIDE DEF end
<1>4. /\ call' \in [Printer -> Locals] /\ call'[t].pc = "link" /\ call'[t].tail = end
      /\ call'[t].text = call[t].text /\ call'[t].node = call[t].node
  BY <1>1, <1>2, <1>3 DEF ConInv, ConTyped, Locals
<1>5. CallBlocks(call') = CallBlocks(call)
  BY <1>1, <1>4, OneCall
<1>6. OwnTwo(call')
  BY <1>1, <1>4 DEF OwnTwo, ConInv
<1>7. \A u \in Printer : HoldsOwn(u)' /\ ReadsHold(u)'
  BY <1>1, <1>2, <1>4 DEF HoldsOwn, ReadsHold, ConInv, end
<1> QED BY <1>2, <1>4, <1>5, <1>6, <1>7 DEF ConInv, ConTyped, IdleLine, Owned

(* It links the text: the queue takes over both blocks.                      *)
LEMMA LinkOK ==
    ASSUME ConsoleClass, ConInv, NEW t \in Printer, Link(t)
    PROVE  ConInv'
<1> DEFINE item == [text |-> call[t].text, node |-> call[t].node,
                    len |-> TextLen[data[call[t].text]]]
           new == [Idle EXCEPT !.pc = "test"]
<1> USE NullIsNoBlock
<1>1. /\ \A u \in Printer : u = t
      /\ call[t].pc = "link" /\ call[t].text # Null /\ call[t].node # Null
      /\ call[t] \in Locals /\ call[t].text \in Unit /\ call[t].node \in Unit
      /\ call[t].text # call[t].node
      /\ call[t].tail = IF queue = <<>> THEN Null ELSE Last(queue).node
  BY DEF ConsoleClass, ConInv, ConTyped, HoldsOwn, ReadsHold, OwnTwo, Link, At, Locals
<1>2. /\ UNCHANGED <<heap, live, is_sending, tx, uart, app, mask, data, printed>>
      /\ call' = [call EXCEPT ![t] = new] /\ queue' = Linked(call[t].tail, item)
  BY DEF Link, lineVars, memVars
<1>3. item \in Item
  <2>1. data[call[t].text] \in Text
    BY <1>1 DEF ConInv, HoldsOwn
  <2>2. TextLen[data[call[t].text]] \in Nat
    BY <2>1, ConsoleAssumption DEF Text
  <2> QED BY <1>1, <2>2 DEF Item
<1>4. queue' = Append(queue, item)
  BY <1>1, <1>2, LinkedAtEnd DEF ConInv, ConTyped
<1>5. CallBlocks(call) = {item.text, item.node}
  BY <1>1, OneCall
<1>6. item.text # item.node
  BY <1>1
<1>7. new.pc = "test" /\ new.text = Null /\ new.node = Null /\ new \in Locals
  BY DEF Idle, Locals
<1> HIDE DEF item, new
<1>8. call' \in [Printer -> Locals] /\ call'[t] = new
  BY <1>2, <1>7 DEF ConInv, ConTyped
<1>9. CallBlocks(call') = {}
  BY <1>1, <1>7, <1>8, OneCall
<1>10. item.text \notin QueueBlocks(queue) /\ item.node \notin QueueBlocks(queue)
  BY <1>5 DEF ConInv, Owned, Parts
<1>11. /\ queue' \in Seq(Item) /\ AllDiffer(queue')
       /\ QueueBlocks(queue') = QueueBlocks(queue) \cup {item.text, item.node}
  BY <1>3, <1>4, <1>6, <1>10, AppendBlocks DEF ConInv, ConTyped
<1>12. Owned(live', app', tx'.buffer, call', queue')
  BY <1>2, <1>5, <1>9, <1>11 DEF ConInv, Owned, Parts
<1>13. OwnTwo(call')
  BY <1>1, <1>7, <1>8 DEF OwnTwo
<1>14. \A u \in Printer : HoldsOwn(u)' /\ ReadsHold(u)'
  BY <1>1, <1>7, <1>8 DEF HoldsOwn, ReadsHold
<1> QED BY <1>2, <1>8, <1>11, <1>12, <1>13, <1>14 DEF ConInv, ConTyped, IdleLine

(* It looks at is_sending.                                                   *)
LEMMA TestSendingOK ==
    ASSUME ConsoleClass, ConInv, NEW t \in Printer, TestSending(t)
    PROVE  ConInv'
<1> USE NullIsNoBlock
<1>1. /\ \A u \in Printer : u = t
      /\ call[t].pc = "test" /\ call[t].text = Null /\ call[t].node = Null
      /\ call[t] \in Locals
  BY DEF ConsoleClass, ConInv, ConTyped, HoldsOwn, TestSending, At
<1>2. UNCHANGED <<heap, live, queue, is_sending, tx, uart, app, data, printed>>
  BY DEF TestSending, lineVars, memVars
<1>3. /\ call' \in [Printer -> Locals] /\ call'[t].text = Null /\ call'[t].node = Null
      /\ call'[t].pc \in {"idle", "start"}
      /\ call'[t].pc = "start" => is_sending = 0
  <2>1. CASE is_sending = 0
    <3>1. call' = [call EXCEPT ![t].pc = "start"]
      BY <2>1 DEF TestSending
    <3> QED BY <1>1, <2>1, <3>1 DEF ConInv, ConTyped, Locals
  <2>2. CASE is_sending # 0
    <3>1. call' = [call EXCEPT ![t] = Idle] /\ Idle \in Locals
      BY <2>2 DEF TestSending, Idle, Locals
    <3> QED BY <3>1 DEF ConInv, ConTyped, Idle
  <2> QED BY <2>1, <2>2
<1>4. CallBlocks(call') = CallBlocks(call)
  <2>1. CallBlocks(call) = {}
    BY <1>1, OneCall
  <2>2. CallBlocks(call') = {}
    BY <1>1, <1>3, OneCall
  <2> QED BY <2>1, <2>2
<1>5. OwnTwo(call')
  BY <1>1, <1>3 DEF OwnTwo
<1>6. \A u \in Printer : HoldsOwn(u)' /\ ReadsHold(u)'
  BY <1>1, <1>2, <1>3 DEF HoldsOwn, ReadsHold
<1> QED BY <1>2, <1>3, <1>4, <1>5, <1>6 DEF ConInv, ConTyped, IdleLine, Owned

(* data_sent: the transmitter passes from the text it has sent to the next.  *)
LEMMA DataSentOK ==
    ASSUME ConInv, NEW sending, NEW line, DataSent(tx.buffer, sending, line),
           app' = app, queue = <<>> => line = "idle", queue # <<>> => sending # 0,
           CallBlocks(call') = CallBlocks(call)
    PROVE  /\ HeapOK(heap', live')
           /\ queue' \in Seq(Item) /\ AllDiffer(queue')
           /\ tx' = [buffer |-> tx'.buffer, cnt |-> tx'.cnt, remained |-> tx'.remained]
           /\ tx'.buffer \in Unit \cup {Null}
           /\ IdleLine'
           /\ Owned(live', app', tx'.buffer, call', queue')
<1> DEFINE buf == tx.buffer
<1> USE NullIsNoBlock
<1>1. /\ HeapOK(heap, live) /\ Null \notin DOMAIN live
      /\ buf \in Unit \cup {Null}
      /\ Parts(DOMAIN live, app, SentBlock(buf), CallBlocks(call), QueueBlocks(queue))
      /\ queue \in Seq(Item) /\ AllDiffer(queue)
      /\ tx = [buffer |-> tx.buffer, cnt |-> tx.cnt, remained |-> tx.remained]
  BY DEF ConInv, ConTyped, Owned
<1>2. buf = Null \/ buf \in DOMAIN live
  BY <1>1 DEF Parts, SentBlock
<1>3. CASE queue = <<>>
  <2>1. /\ HeapOK(heap', live') /\ DOMAIN live' = DOMAIN live \ {buf}
    BY <1>1, <1>2, <1>3, DataSentFrees
  <2>2. /\ tx' = [tx EXCEPT !.buffer = Null] /\ is_sending' = 0
        /\ uart' = "idle" /\ queue' = queue
    BY <1>3 DEF DataSent, StopsSending
  <2>3. Parts(DOMAIN live \ {buf}, app, {}, CallBlocks(call), QueueBlocks(queue))
    BY <1>1 DEF Parts, SentBlock
  <2>4. tx'.buffer = Null /\ SentBlock(Null) = {}
    BY <1>1, <2>2 DEF SentBlock
  <2>5. tx' = [buffer |-> tx'.buffer, cnt |-> tx'.cnt, remained |-> tx'.remained]
    BY <1>1, <2>2
  <2> QED BY <1>1, <2>1, <2>2, <2>3, <2>4, <2>5 DEF IdleLine, Owned
<1>4. CASE queue # <<>>
  <2> DEFINE item == Head(queue)
             r == Tail(queue)
  <2>1. /\ item \in Item /\ item.text # item.node
        /\ r \in Seq(Item) /\ AllDiffer(r)
        /\ QueueBlocks(queue) = QueueBlocks(r) \cup {item.text, item.node}
        /\ item.text \notin QueueBlocks(r) /\ item.node \notin QueueBlocks(r)
    BY <1>1, <1>4, TailBlocks
  <2>2. /\ queue' = r /\ is_sending' = sending
        /\ tx' = [buffer |-> item.text, cnt |-> 1, remained |-> Remaining(item.len)]
    BY <1>4 DEF DataSent
  <2>3. item.node \in DOMAIN live \ {buf}
    BY <1>1, <2>1 DEF Parts, SentBlock, Item
  <2>4. HeapOK(heap', live') /\ DOMAIN live' = DOMAIN live \ {buf, item.node}
    BY <1>1, <1>2, <1>4, <2>3, DataSentFrees
  <2> HIDE DEF item, r
  <2>5. tx'.buffer = item.text /\ SentBlock(item.text) = {item.text}
    BY <2>1, <2>2 DEF SentBlock, Item
  <2>6. Parts(DOMAIN live \ {buf, item.node}, app, {item.text}, CallBlocks(call),
              QueueBlocks(r))
    BY <1>1, <2>1, <2>3 DEF Parts, SentBlock
  <2>7. Owned(live', app', tx'.buffer, call', queue')
    BY <2>2, <2>4, <2>5, <2>6 DEF Owned
  <2>8. item.text \in Unit
    BY <2>1 DEF Item
  <2>9. IdleLine'
    BY <1>4, <2>2 DEF IdleLine
  <2> QED BY <2>1, <2>2, <2>4, <2>5, <2>7, <2>8, <2>9
<1> QED BY <1>3, <1>4

(* print starts the transmitter it has found idle, which nobody has started  *)
(* meanwhile.                                                                *)
LEMMA StartOK ==
    ASSUME ConsoleClass, ConInv, NEW t \in Printer, Start(t)
    PROVE  ConInv'
<1> USE NullIsNoBlock
<1>1. /\ \A u \in Printer : u = t
      /\ call[t].pc = "start" /\ call[t].text = Null /\ call[t].node = Null
      /\ is_sending = 0 /\ tx.buffer = Null /\ uart = "idle"
  BY DEF ConsoleClass, ConInv, HoldsOwn, ReadsHold, IdleLine, Start, At
<1>2. DataSent(tx.buffer, 1, "idle") /\ app' = app /\ printed' = printed
  BY <1>1 DEF Start
<1>3. /\ call' \in [Printer -> Locals] /\ call'[t].text = Null /\ call'[t].node = Null
      /\ call'[t].pc = "idle"
  <2>1. Idle \in Locals /\ Idle.pc = "idle" /\ Idle.text = Null /\ Idle.node = Null
    BY DEF Idle, Locals
  <2>2. call' = [call EXCEPT ![t] = Idle]
    BY DEF Start
  <2> QED BY <2>1, <2>2 DEF ConInv, ConTyped
<1>4. CallBlocks(call') = CallBlocks(call)
  <2>1. CallBlocks(call) = {}
    BY <1>1, OneCall
  <2>2. CallBlocks(call') = {}
    BY <1>1, <1>3, OneCall
  <2> QED BY <2>1, <2>2
<1>5. /\ HeapOK(heap', live')
      /\ queue' \in Seq(Item) /\ AllDiffer(queue')
      /\ tx' = [buffer |-> tx'.buffer, cnt |-> tx'.cnt, remained |-> tx'.remained]
      /\ tx'.buffer \in Unit \cup {Null}
      /\ IdleLine'
      /\ Owned(live', app', tx'.buffer, call', queue')
  BY <1>2, <1>4, DataSentOK
<1>6. OwnTwo(call')
  BY <1>1, <1>3 DEF OwnTwo
<1>7. \A u \in Printer : HoldsOwn(u)' /\ ReadsHold(u)'
  BY <1>1, <1>3 DEF HoldsOwn, ReadsHold
<1> QED BY <1>2, <1>3, <1>5, <1>6, <1>7 DEF ConInv, ConTyped

(* The interrupt comes only while print holds no text, or masks nothing      *)
(* because the queue is empty.                                               *)
LEMMA SentIsrOK ==
    ASSUME ConsoleClass, ConInv, SentIsr
    PROVE  ConInv'
<1> USE NullIsNoBlock
<1>1. /\ mask = Null /\ uart = "TC" /\ is_sending # 0
      /\ UNCHANGED <<call, mask, printed, app>>
  BY DEF SentIsr, InterruptsOn, ConInv, IdleLine, taskVars
<1>2. CASE tx.remained > 0
  <2>1. /\ UNCHANGED <<heap, live, queue, is_sending, data>>
        /\ tx' = [tx EXCEPT !.cnt = @ + 1, !.remained = @ - 1]
    BY <1>2 DEF SentIsr
  <2>2. /\ tx'.buffer = tx.buffer
        /\ tx' = [buffer |-> tx'.buffer, cnt |-> tx'.cnt, remained |-> tx'.remained]
    BY <2>1 DEF ConInv, ConTyped
  <2>3. \A u \in Printer : HoldsOwn(u)' /\ ReadsHold(u)'
    BY <1>1, <2>1 DEF HoldsOwn, ReadsHold, ConInv
  <2> QED BY <1>1, <2>1, <2>2, <2>3
          DEF ConInv, ConTyped, IdleLine, Owned, OwnTwo
<1>3. CASE ~(tx.remained > 0)
  <2>1. DataSent(tx.buffer, is_sending, "idle")
    BY <1>3 DEF SentIsr
  <2>2. /\ HeapOK(heap', live')
        /\ queue' \in Seq(Item) /\ AllDiffer(queue')
        /\ tx' = [buffer |-> tx'.buffer, cnt |-> tx'.cnt, remained |-> tx'.remained]
        /\ tx'.buffer \in Unit \cup {Null}
        /\ IdleLine'
        /\ Owned(live', app', tx'.buffer, call', queue')
    BY <1>1, <2>1, DataSentOK
  <2>3. data' = [b \in DOMAIN data \ {tx.buffer} |-> data[b]]
    BY <2>1 DEF DataSent
  <2>4. queue = <<>> => queue' = queue
    BY <2>1 DEF DataSent
  <2>5. ASSUME NEW u \in Printer
        PROVE  HoldsOwn(u)' /\ ReadsHold(u)'
    <3>1. call[u].text # Null => call[u].text # tx.buffer
      BY DEF ConInv, Owned, Parts, CallBlocks, SentBlock
    <3>2. HoldsOwn(u)'
      BY <1>1, <2>3, <3>1 DEF HoldsOwn, ConInv
    <3>3. call[u].pc # "start"
      BY <1>1 DEF ReadsHold, ConInv
    <3>4. call[u].pc \in {"node", "walk", "link"} => queue = <<>>
      BY <1>1 DEF ReadsHold, ConInv
    <3>5. ReadsHold(u)'
      BY <1>1, <2>4, <3>3, <3>4 DEF ReadsHold, ConInv
    <3> QED BY <3>2, <3>5
  <2> QED BY <1>1, <2>2, <2>5 DEF ConInv, ConTyped, OwnTwo
<1> QED BY <1>2, <1>3

(* The other tasks take, give back and fill blocks of their own.             *)
LEMMA AppOK ==
    ASSUME ConsoleClass, ConInv,
           \/ \E size \in Sizes : AppMalloc(size)
           \/ \E u \in app : AppFree(u) \/ AppMemset(u)
    PROVE  ConInv'
<1>1. UNCHANGED <<queue, is_sending, tx, uart, data, call, mask, printed>>
  BY DEF AppMalloc, AppFree, AppMemset, lineVars, taskVars
<1>2. \A t \in Printer : HoldsOwn(t)' /\ ReadsHold(t)'
  BY <1>1 DEF HoldsOwn, ReadsHold, ConInv
<1>3. /\ HeapOK(heap, live) /\ app \subseteq DOMAIN live
      /\ Parts(DOMAIN live, app, SentBlock(tx.buffer), CallBlocks(call),
               QueueBlocks(queue))
  BY DEF ConInv, Owned, Parts
<1>4. /\ HeapOK(heap', live')
      /\ Parts(DOMAIN live', app', SentBlock(tx.buffer), CallBlocks(call),
               QueueBlocks(queue))
  <2>1. ASSUME NEW size \in Sizes, AppMalloc(size)
        PROVE  <1>4!:
    <3> DEFINE u == FirstFit(heap, size)
    <3>1. /\ Malloc(size) /\ size \in Nat /\ CarryFree(size) /\ WholeWords
          /\ app' = app \cup (DOMAIN live' \ DOMAIN live)
      BY <2>1, MemoryAssumption DEF AppMalloc, ConsoleClass, HeapClass, NoCarry
    <3>2. /\ HeapOK(heap', live')
          /\ \/ live' = live
             \/ u \notin DOMAIN live /\ DOMAIN live' = DOMAIN live \cup {u}
      BY <1>3, <3>1, MallocOK
    <3> HIDE DEF u
    <3>3. CASE live' = live
      <4>1. app' = app
        BY <3>1, <3>3
      <4> QED BY <1>3, <3>2, <3>3, <4>1
    <3>4. CASE u \notin DOMAIN live /\ DOMAIN live' = DOMAIN live \cup {u}
      <4>1. app' = app \cup {u}
        BY <3>1, <3>4
      <4> QED BY <1>3, <3>2, <3>4, <4>1 DEF Parts
    <3> QED BY <3>2, <3>3, <3>4
  <2>2. ASSUME NEW u \in app, AppFree(u)
        PROVE  <1>4!:
    <3>1. Free(u) /\ app' = app \ {u}
      BY <2>2 DEF AppFree
    <3>2. HeapOK(heap', live') /\ DOMAIN live' = DOMAIN live \ {u}
      BY <1>3, <3>1, FreeOK
    <3> QED BY <1>3, <3>1, <3>2 DEF Parts
  <2>3. ASSUME NEW u \in app, AppMemset(u)
        PROVE  <1>4!:
    <3>1. Memset(u, FillLength(u)) /\ app' = app
      BY <2>3 DEF AppMemset
    <3>2. UNCHANGED <<heap, live>>
      BY <1>3, <3>1, MemsetOK DEF ConsoleClass
    <3> QED BY <1>3, <3>1, <3>2
  <2> QED BY <2>1, <2>2, <2>3
<1> QED BY <1>1, <1>2, <1>4 DEF ConInv, ConTyped, IdleLine, Owned, OwnTwo

(* Nobody holds anything when the console starts.                            *)
LEMMA ConsoleInitOK ==
    ASSUME ConsoleClass, ConsoleInit
    PROVE  ConInv
<1>1. HeapOK(heap, live) /\ DOMAIN live = {}
  BY InitOK DEF ConsoleInit, ConsoleClass, MemoryInit
<1>2. /\ Idle \in Locals /\ Idle.pc = "idle" /\ Idle.text = Null /\ Idle.node = Null
  BY DEF Idle, Locals
<1>3. /\ call \in [Printer -> Locals] /\ \A t \in Printer : call[t] = Idle
  BY <1>2 DEF ConsoleInit
<1>4. /\ queue = <<>> /\ queue \in Seq(Item) /\ DOMAIN queue = {} /\ app = {}
      /\ tx = [buffer |-> Null, cnt |-> 0, remained |-> 0] /\ uart = "idle"
      /\ printed = 0
  BY DEF ConsoleInit
<1>5. /\ CallBlocks(call) = {} /\ QueueBlocks(queue) = {} /\ SentBlock(tx.buffer) = {}
  BY <1>2, <1>3, <1>4 DEF CallBlocks, QueueBlocks, SentBlock
<1>6. ConTyped /\ IdleLine
  BY <1>3, <1>4 DEF ConTyped, IdleLine
<1>7. AllDiffer(queue) /\ OwnTwo(call)
  BY <1>2, <1>3, <1>4 DEF AllDiffer, OwnTwo
<1>8. Owned(live, app, tx.buffer, call, queue)
  BY <1>1, <1>4, <1>5 DEF Owned, Parts
<1>9. \A t \in Printer : HoldsOwn(t) /\ ReadsHold(t)
  BY <1>2, <1>3 DEF HoldsOwn, ReadsHold
<1> QED BY <1>1, <1>6, <1>7, <1>8, <1>9 DEF ConInv

(* The transmitter, the receiver and steps that change nothing here.         *)
LEMMA LineOK ==
    ASSUME ConInv,
           \/ UartShift \/ ReadyIsr \/ RxByte \/ pos_console_rx_register
           \/ UNCHANGED conVars
    PROVE  ConInv'
<1>1. UNCHANGED <<heap, live, queue, is_sending, tx, data, call, mask, printed, app>>
  BY DEF UartShift, ReadyIsr, RxByte, pos_console_rx_register, conVars, memVars,
         lineVars, taskVars
<1>2. uart' = uart \/ uart = "shifting"
  BY DEF UartShift, ReadyIsr, RxByte, pos_console_rx_register, conVars, lineVars
<1>3. \A t \in Printer : HoldsOwn(t)' /\ ReadsHold(t)'
  BY <1>1 DEF HoldsOwn, ReadsHold, ConInv
<1>4. IdleLine'
  BY <1>1, <1>2 DEF IdleLine, ConInv
<1> QED BY <1>1, <1>3, <1>4 DEF ConInv, ConTyped, Owned, OwnTwo

(* So the invariant holds whatever the order of calls and interrupts.        *)
LEMMA ConsoleAlwaysOK ==
    ASSUME ConsoleClass
    PROVE  ConsoleSpec => []ConInv
<1>1. ConsoleInit => ConInv
  BY ConsoleClass, ConsoleInitOK
<1>2. ConInv /\ [ConsoleNext]_conVars => ConInv'
  <2> SUFFICES ASSUME ConInv, [ConsoleNext]_conVars
               PROVE  ConInv'
    OBVIOUS
  <2> USE ConsoleClass
  <2>1. ASSUME NEW t \in Printer, CallPrint(t) \/ PrintStep(t)
        PROVE  ConInv'
    BY <2>1, CallPrintOK, AllocNodeOK, FindTailOK, LinkOK, TestSendingOK, StartOK
    DEF PrintStep
  <2>2. CASE SentIsr
    BY <2>2, SentIsrOK
  <2>3. CASE \/ \E size \in Sizes : AppMalloc(size)
             \/ \E u \in app : AppFree(u) \/ AppMemset(u)
    BY <2>3, AppOK
  <2>4. CASE \/ UartShift \/ ReadyIsr \/ RxByte \/ pos_console_rx_register
             \/ UNCHANGED conVars
    BY <2>4, LineOK
  <2> QED BY <2>1, <2>2, <2>3, <2>4 DEF ConsoleNext, ConsoleHalted
<1> QED BY <1>1, <1>2, PTL DEF ConsoleSpec

(* The console leaks nothing and frees nothing twice: at any moment each     *)
(* block of the heap is in the hands of another task or of print, in the     *)
(* queue, or being sent.                                                     *)
THEOREM PrintedBlocksAreOwned ==
    ASSUME ConsoleClass
    PROVE  ConsoleSpec => []HeapOwned
<1>1. ConInv => HeapOwned
  BY DEF ConInv, HeapOK, HeadersIntact, Owned, Parts, SentBlock, CallBlocks,
         QueueBlocks, HeapOwned
<1> QED BY <1>1, ConsoleAlwaysOK, PTL

(* With pfree called from the interrupt of the transmitter, between any two  *)
(* steps of print, the heap is as exact and as well counted as without.      *)
THEOREM HeapStaysExactUnderInterrupts ==
    ASSUME ConsoleClass
    PROVE  ConsoleSpec => [](HeapExact /\ UsedIsAllocated)
<1>1. ConInv => HeapExact /\ UsedIsAllocated
  BY DEF ConInv, HeapOK, MapExact, HeapExact, UsedIsAllocated, Total
<1> QED BY <1>1, ConsoleAlwaysOK, PTL

-----------------------------------------------------------------------------
(* The order of the texts on the line.                                       *)

(* bytes_remained holds what is left of each text, and no text is empty.     *)
OrderClass ==
    /\ ConsoleClass
    /\ \A id \in Text : TextLen[id] > 0 /\ Remaining(TextLen[id]) = TextLen[id] - 1

Byte == Nat \X Nat
Bytes(id) == [i \in 1 .. TextLen[id] |-> <<id, i - 1>>]
AllBytes == FlattenSeq([id \in Text |-> Bytes(id)])

(* off[n] bytes go out before text n + 1, whose bytes follow.                *)
Places(off) ==
    /\ off \in [0 .. Len(TextLen) -> Nat] /\ off[0] = 0
    /\ AllBytes \in Seq(Byte)
    /\ \A n \in Text :
           /\ off[n] = off[n - 1] + TextLen[n]
           /\ off[n] <= Len(AllBytes)
           /\ \A c \in 0 .. TextLen[n] - 1 : AllBytes[off[n - 1] + c + 1] = <<n, c>>

(* Behind the d texts that are out comes the one being sent, of which cnt    *)
(* bytes are; then those of the queue; then the one in the hands of print.   *)
Current == IF tx.buffer = Null THEN 0 ELSE 1
Pending == IF \E t \in Printer : call[t].text # Null THEN 1 ELSE 0

BlockOf(buf, id) == id \in Text /\ buf \in DOMAIN data /\ data[buf] = id

InOrder(off, d) ==
    /\ d \in 0 .. Len(TextLen)
    /\ tx.buffer # Null =>
           /\ BlockOf(tx.buffer, d + 1)
           /\ tx.cnt \in 1 .. TextLen[d + 1] /\ tx.remained = TextLen[d + 1] - tx.cnt
    /\ Len(wire) = off[d] + (IF tx.buffer = Null THEN 0 ELSE tx.cnt)
    /\ \A i \in 1 .. Len(queue) :
           /\ BlockOf(queue[i].text, d + Current + i)
           /\ queue[i].len = TextLen[d + Current + i]
    /\ \A t \in Printer :
           call[t].text # Null => data[call[t].text] = d + Current + Len(queue) + 1
    /\ error = "none" => printed = d + Current + Len(queue) + Pending

WireInv(off) ==
    /\ wire \in Seq(Byte) /\ IsPrefix(wire, AllBytes)
    /\ is_sending # 0 => tx.buffer # Null
    /\ \E d \in Nat : InOrder(off, d)

(* What the recursion in FlattenSeq makes of the first N texts.              *)
IsFlat(N, f) ==
    f = [n \in 1 .. N |-> IF n = 1 THEN Bytes(1) ELSE f[n - 1] \o Bytes(n)]

(* The bytes of a text, in their order.                                      *)
LEMMA TextBytes ==
    ASSUME NEW n \in Text
    PROVE  /\ TextLen[n] \in Nat /\ Bytes(n) \in Seq(Byte) /\ Len(Bytes(n)) = TextLen[n]
           /\ \A c \in 1 .. TextLen[n] : Bytes(n)[c] = <<n, c - 1>>
<1>1. TextLen[n] \in Nat /\ n \in Nat
  BY ConsoleAssumption DEF Text
<1>2. \A c \in 1 .. TextLen[n] : <<n, c - 1>> \in Byte
  BY <1>1 DEF Byte
<1> QED BY <1>1, <1>2 DEF Bytes

(* A text more: its bytes follow, and what was there stays.                  *)
LEMMA OneTextMore ==
    ASSUME NEW n \in Text, NEW s \in Seq(Byte), NEW r, r = s \o Bytes(n)
    PROVE  /\ r \in Seq(Byte) /\ Len(r) = Len(s) + TextLen[n] /\ Len(s) <= Len(r)
           /\ \A i \in 1 .. Len(s) : r[i] = s[i]
           /\ \A c \in 0 .. TextLen[n] - 1 : r[Len(s) + c + 1] = <<n, c>>
<1> DEFINE u == Bytes(n)
<1>1. /\ TextLen[n] \in Nat /\ u \in Seq(Byte) /\ Len(u) = TextLen[n]
      /\ \A c \in 1 .. TextLen[n] : u[c] = <<n, c - 1>>
  BY TextBytes
<1> HIDE DEF u
<1>2. /\ r \in Seq(Byte) /\ Len(r) = Len(s) + Len(u) /\ Len(s) \in Nat
      /\ \A i \in 1 .. Len(s) : r[i] = s[i]
      /\ \A i \in 1 .. Len(u) : r[Len(s) + i] = u[i]
  BY <1>1 DEF u
<1>3. ASSUME NEW c \in 0 .. TextLen[n] - 1
      PROVE  r[Len(s) + c + 1] = <<n, c>>
  <2>1. c \in Nat /\ c + 1 \in 1 .. TextLen[n] /\ (c + 1) - 1 = c
    BY <1>1
  <2>2. r[Len(s) + (c + 1)] = <<n, c>>
    BY <1>1, <1>2, <2>1
  <2>3. Len(s) + (c + 1) = Len(s) + c + 1
    BY <1>2, <2>1
  <2> QED BY <2>2, <2>3
<1>4. Len(r) = Len(s) + TextLen[n] /\ Len(s) <= Len(r)
  BY <1>1, <1>2
<1> QED BY <1>2, <1>3, <1>4, Zenon

(* The recursion is well defined.                                            *)
LEMMA FlatExists ==
    ASSUME NEW N \in Nat
    PROVE  \E f : IsFlat(N, f)
<1> DEFINE Good == {M \in Nat : \E f : IsFlat(M, f)}
<1>1. 0 \in Good
  <2>1. IsFlat(0, [n \in 1 .. 0 |-> <<>>])
    BY DEF IsFlat
  <2> QED BY <2>1
<1>2. ASSUME NEW M \in Nat, M \in Good PROVE M + 1 \in Good
  <2>1. PICK g : IsFlat(M, g)
    BY <1>2
  <2> DEFINE h == [n \in 1 .. M + 1 |-> IF n = 1 THEN Bytes(1) ELSE g[n - 1] \o Bytes(n)]
  <2>2. ASSUME NEW n \in 1 .. M PROVE h[n] = g[n]
    <3>1. g[n] = IF n = 1 THEN Bytes(1) ELSE g[n - 1] \o Bytes(n)
      BY <2>1, Zenon DEF IsFlat
    <3>2. n \in 1 .. M + 1
      OBVIOUS
    <3>3. h[n] = IF n = 1 THEN Bytes(1) ELSE g[n - 1] \o Bytes(n)
      BY <3>2, Zenon
    <3> QED BY <3>1, <3>3, Zenon
  <2>3. \A n \in 1 .. M + 1 : h[n] = IF n = 1 THEN Bytes(1) ELSE h[n - 1] \o Bytes(n)
    <3> SUFFICES ASSUME NEW n \in 1 .. M + 1
                 PROVE  h[n] = IF n = 1 THEN Bytes(1) ELSE h[n - 1] \o Bytes(n)
      OBVIOUS
    <3>1. n # 1 => n - 1 \in 1 .. M
      OBVIOUS
    <3>2. n # 1 => h[n - 1] = g[n - 1]
      BY <2>2, <3>1
    <3> QED BY <3>2
  <2>4. h = [n \in 1 .. M + 1 |-> h[n]]
    OBVIOUS
  <2> HIDE DEF h
  <2>5. IsFlat(M + 1, h)
    BY <2>3, <2>4 DEF IsFlat
  <2> QED BY <2>5
<1> HIDE DEF Good
<1>3. \A n \in 0 .. N : n \in Good
  BY <1>1, <1>2, OneByOne
<1>4. N \in Good
  BY <1>3
<1> QED BY <1>4 DEF Good

(* What it is at the last text is all there is to send.                      *)
LEMMA FlatIsAll ==
    ASSUME Len(TextLen) # 0
    PROVE  \E f : IsFlat(Len(TextLen), f) /\ AllBytes = f[Len(TextLen)]
<1> DEFINE N == Len(TextLen)
           seqs == [id \in Text |-> Bytes(id)]
           IsSo(f) == f = [n \in 1 .. Len(seqs) |->
                              IF n = 1 THEN seqs[n] ELSE f[n - 1] \o seqs[n]]
<1>1. N \in Nat /\ Text = 1 .. N
  BY ConsoleAssumption DEF Text
<1>2. Len(seqs) = N /\ \A n \in 1 .. N : seqs[n] = Bytes(n)
  BY <1>1
<1> HIDE DEF seqs
<1>3. \A f : IsSo(f) <=> IsFlat(N, f)
  BY <1>2 DEF IsFlat
<1>4. \E f : IsSo(f)
  BY <1>1, <1>3, FlatExists
<1>5. PICK f : f = CHOOSE x : IsSo(x)
  OBVIOUS
<1>6. IsSo(f)
  BY <1>4, <1>5
<1>7. FlattenSeq(seqs) = f[N]
  BY <1>2, <1>5 DEF FlattenSeq
<1> QED BY <1>3, <1>6, <1>7 DEF AllBytes, seqs

(* Its lengths give each text its place.                                     *)
LEMMA TextsHavePlaces == \E off : Places(off)
<1> DEFINE N == Len(TextLen)
<1>1. N \in Nat /\ Text = 1 .. N
  BY ConsoleAssumption DEF Text
<1>2. CASE N = 0
  <2>1. AllBytes = <<>>
    BY <1>1, <1>2 DEF AllBytes, FlattenSeq
  <2>2. Places([n \in 0 .. 0 |-> 0])
    BY <1>1, <1>2, <2>1 DEF Places
  <2> QED BY <2>2
<1>3. CASE N # 0
  <2>1. PICK f : IsFlat(N, f) /\ AllBytes = f[N]
    BY <1>3, FlatIsAll
  <2> HIDE DEF N
  <2>2. \A n \in 1 .. N : f[n] = IF n = 1 THEN Bytes(1) ELSE f[n - 1] \o Bytes(n)
    BY <2>1 DEF IsFlat
  <2>3. \A n \in 1 .. N : f[n] \in Seq(Byte)
    <3> DEFINE Good == {n \in 1 .. N : f[n] \in Seq(Byte)}
    <3>1. 1 \in Good
      BY <1>1, <1>3, <2>2, TextBytes
    <3>2. ASSUME NEW n \in 1 .. N - 1, n \in Good PROVE n + 1 \in Good
      <4>1. n + 1 \in 1 .. N /\ n + 1 # 1 /\ (n + 1) - 1 = n
        BY <1>1
      <4>2. f[n + 1] = f[n] \o Bytes(n + 1)
        BY <2>2, <4>1
      <4>3. Bytes(n + 1) \in Seq(Byte)
        BY <1>1, <4>1, TextBytes
      <4>4. f[n] \in Seq(Byte)
        BY <3>2
      <4>5. f[n + 1] \in Seq(Byte)
        BY <1>1, <4>1, <4>2, <4>4, OneTextMore, Zenon
      <4> QED BY <4>1, <4>5
    <3> HIDE DEF Good
    <3>3. \A n \in 1 .. N : n \in Good
      BY <1>1, <3>1, <3>2, OneByOne
    <3> QED BY <3>3 DEF Good
  <2> DEFINE off == [n \in 0 .. N |-> IF n = 0 THEN 0 ELSE Len(f[n])]
             Begins(m, n) ==
                 Len(f[m]) <= Len(f[n]) /\ \A i \in 1 .. Len(f[m]) : f[n][i] = f[m][i]
  <2>4. /\ off \in [0 .. N -> Nat] /\ off[0] = 0
        /\ \A n \in 1 .. N : off[n] = Len(f[n])
    BY <1>1, <2>3
  <2> HIDE DEF off
  <2>5. ASSUME NEW n \in 1 .. N
        PROVE  /\ off[n] = off[n - 1] + TextLen[n]
               /\ \A c \in 0 .. TextLen[n] - 1 : f[n][off[n - 1] + c + 1] = <<n, c>>
    <3>1. /\ TextLen[n] \in Nat /\ Bytes(n) \in Seq(Byte) /\ Len(Bytes(n)) = TextLen[n]
          /\ \A c \in 1 .. TextLen[n] : Bytes(n)[c] = <<n, c - 1>>
      BY <1>1, TextBytes
    <3>2. CASE n = 1
      <4>1. f[n] = Bytes(n) /\ off[n - 1] = 0 /\ off[n] = Len(f[n])
        BY <2>2, <2>4, <3>2
      <4> QED BY <3>1, <4>1
    <3>3. CASE n # 1
      <4>1. n - 1 \in 1 .. N
        BY <1>1, <3>3
      <4>2. /\ f[n - 1] \in Seq(Byte) /\ Len(f[n - 1]) = off[n - 1]
            /\ f[n] = f[n - 1] \o Bytes(n) /\ n \in Text
        <5>1. n - 1 # 0 /\ n - 1 \in 0 .. N /\ n \in Text
          BY <1>1, <3>3, <4>1
        <5>2. f[n] = f[n - 1] \o Bytes(n)
          BY <2>2, <3>3, Zenon
        <5>3. f[n - 1] \in Seq(Byte) /\ Len(f[n - 1]) = off[n - 1]
          BY <2>3, <2>4, <4>1, Zenon
        <5> QED BY <5>1, <5>2, <5>3
      <4>3. /\ Len(f[n]) = Len(f[n - 1]) + TextLen[n]
            /\ \A c \in 0 .. TextLen[n] - 1 : f[n][Len(f[n - 1]) + c + 1] = <<n, c>>
        BY <4>2, OneTextMore, Zenon
      <4>4. off[n] = Len(f[n])
        BY <2>4
      <4>5. off[n] = off[n - 1] + TextLen[n]
        BY <4>2, <4>3, <4>4, Zenon
      <4>6. \A c \in 0 .. TextLen[n] - 1 : f[n][off[n - 1] + c + 1] = <<n, c>>
        BY <4>2, <4>3, Zenon
      <4> QED BY <4>5, <4>6
    <3> QED BY <3>2, <3>3
  <2>6. ASSUME NEW m \in 1 .. N
        PROVE  Begins(m, N)
    <3> DEFINE Good == {n \in m .. N : Begins(m, n)}
    <3>1. m \in Nat /\ m \in Good
      BY <1>1, <2>3
    <3>2. ASSUME NEW n \in m .. N - 1, n \in Good PROVE n + 1 \in Good
      <4>1. n + 1 \in m .. N /\ n + 1 \in 1 .. N /\ n \in 1 .. N /\ n + 1 # 1
            /\ (n + 1) - 1 = n
        BY <1>1
      <4>2. f[n + 1] = f[n] \o Bytes(n + 1) /\ n + 1 \in Text
        BY <1>1, <2>2, <4>1
      <4>3. f[n] \in Seq(Byte) /\ f[m] \in Seq(Byte)
        BY <2>3, <4>1
      <4>4. Len(f[n]) <= Len(f[n + 1]) /\ \A i \in 1 .. Len(f[n]) : f[n + 1][i] = f[n][i]
        <5>1. f[n] \in Seq(Byte)
          BY <4>3
        <5> QED BY <4>2, <5>1, OneTextMore, Zenon
      <4>5. Begins(m, n) /\ Len(f[m]) \in Nat /\ Len(f[n]) \in Nat /\ Len(f[n + 1]) \in Nat
        BY <2>3, <3>2, <4>1, <4>3
      <4> QED BY <4>1, <4>4, <4>5
    <3> HIDE DEF Good
    <3>3. \A n \in m .. N : n \in Good
      BY <1>1, <3>1, <3>2, OneByOne
    <3>4. N \in Good
      BY <1>1, <3>1, <3>3
    <3> QED BY <3>4 DEF Good
  <2>7. Places(off)
    <3>1. AllBytes \in Seq(Byte)
      BY <1>1, <1>3, <2>1, <2>3
    <3>2. \A n \in 1 .. N : off[n] <= Len(AllBytes)
      BY <2>1, <2>4, <2>6
    <3>3. ASSUME NEW n \in 1 .. N, NEW c \in 0 .. TextLen[n] - 1
          PROVE  AllBytes[off[n - 1] + c + 1] = <<n, c>>
      <4>1. off[n - 1] + c + 1 \in 1 .. Len(f[n])
        <5>1. TextLen[n] \in Nat /\ n - 1 \in 0 .. N
          BY <1>1, TextBytes
        <5> QED BY <2>4, <2>5, <5>1
      <4> QED BY <2>1, <2>5, <2>6, <4>1
    <3> QED BY <1>1, <2>4, <2>5, <3>1, <3>2, <3>3 DEF Places, N
  <2> QED BY <2>7
<1> QED BY <1>2, <1>3

(* Sequences that agree up to a place have the same prefix.                  *)
LEMMA AgreeingPrefixes ==
    ASSUME NEW S, NEW s \in Seq(S), NEW u \in Seq(S), NEW n \in Nat,
           n <= Len(s), n <= Len(u), \A i \in 1 .. n : s[i] = u[i]
    PROVE  SubSeq(s, 1, n) = SubSeq(u, 1, n)
<1>1. Len(SubSeq(s, 1, n)) = n /\ \A i \in 1 .. n : SubSeq(s, 1, n)[i] = s[i]
  OBVIOUS
<1>2. Len(SubSeq(u, 1, n)) = n /\ \A i \in 1 .. n : SubSeq(u, 1, n)[i] = u[i]
  OBVIOUS
<1>3. SubSeq(s, 1, n) \in Seq(S) /\ SubSeq(u, 1, n) \in Seq(S)
  OBVIOUS
<1> QED BY <1>1, <1>2, <1>3, SeqEqual

(* A byte more.                                                              *)
LEMMA ByteAdded ==
    ASSUME NEW s \in Seq(Byte), NEW b \in Byte, NEW r, r = Append(s, b)
    PROVE  /\ r \in Seq(Byte) /\ Len(r) = Len(s) + 1
           /\ \A i \in 1 .. Len(s) : r[i] = s[i]
           /\ r[Len(s) + 1] = b
  OBVIOUS

(* What the line has seen stays right when the byte at the right place goes  *)
(* out.                                                                      *)
LEMMA ByteFollows ==
    ASSUME NEW off, Places(off), NEW d \in Nat, d + 1 \in Text,
           NEW c \in 0 .. TextLen[d + 1] - 1,
           wire \in Seq(Byte), IsPrefix(wire, AllBytes), Len(wire) = off[d] + c,
           wire' = Append(wire, <<d + 1, c>>)
    PROVE  /\ wire' \in Seq(Byte) /\ IsPrefix(wire', AllBytes)
           /\ Len(wire') = off[d] + c + 1
<1> DEFINE b == <<d + 1, c>>
           all == AllBytes
<1>1. /\ (d + 1) - 1 = d /\ d \in 0 .. Len(TextLen) /\ TextLen[d + 1] \in Nat
      /\ c \in Nat /\ c + 1 <= TextLen[d + 1]
  BY TextBytes, ConsoleAssumption DEF Text
<1>2. /\ all \in Seq(Byte) /\ off[d] \in Nat
      /\ off[d + 1] = off[d] + TextLen[d + 1] /\ off[d + 1] <= Len(all)
      /\ all[off[d] + c + 1] = b
  BY <1>1 DEF Places
<1>3. b \in Byte
  BY <1>1 DEF Byte
<1> HIDE DEF b, all
<1>4. Len(wire) + 1 <= Len(all) /\ all[Len(wire) + 1] = b
  BY <1>1, <1>2
<1>5. \A i \in 1 .. Len(wire) : wire[i] = all[i]
  <2>1. SubSeq(wire, 1, Len(wire)) = SubSeq(all, 1, Len(wire))
    BY DEF IsPrefix, all
  <2>2. \A i \in 1 .. Len(wire) : SubSeq(wire, 1, Len(wire))[i] = wire[i]
    OBVIOUS
  <2>3. \A i \in 1 .. Len(wire) : SubSeq(all, 1, Len(wire))[i] = all[i]
    BY <1>2, <1>4
  <2> QED BY <2>1, <2>2, <2>3
<1>6. /\ wire' \in Seq(Byte) /\ Len(wire') = Len(wire) + 1
      /\ \A i \in 1 .. Len(wire') : wire'[i] = all[i]
  <2>1. wire' = Append(wire, b)
    BY DEF b
  <2>2. /\ wire' \in Seq(Byte) /\ Len(wire') = Len(wire) + 1
        /\ \A i \in 1 .. Len(wire) : wire'[i] = wire[i]
        /\ wire'[Len(wire) + 1] = b
    BY <1>3, <2>1, ByteAdded, Zenon
  <2>3. Len(wire) \in Nat /\ \A i \in 1 .. Len(wire) + 1 : i = Len(wire) + 1 \/ i \in 1 .. Len(wire)
    OBVIOUS
  <2> QED BY <1>4, <1>5, <2>2, <2>3
<1>7. SubSeq(wire', 1, Len(wire')) = SubSeq(all, 1, Len(wire'))
  <2>1. Len(wire') \in Nat /\ Len(wire') <= Len(wire') /\ Len(wire') <= Len(all)
    BY <1>4, <1>6
  <2> QED BY <1>2, <1>6, <2>1, AgreeingPrefixes, Zenon
<1> QED BY <1>1, <1>2, <1>4, <1>6, <1>7 DEF IsPrefix, all

(* The blocks of the texts that wait or are being sent are allocated.        *)
LEMMA TextsAreLive ==
    ASSUME ConInv
    PROVE  /\ tx.buffer # Null => tx.buffer \in DOMAIN live
           /\ \A i \in 1 .. Len(queue) :
                  /\ queue[i].text \in DOMAIN live
                  /\ queue[i].text # tx.buffer
                  /\ \A j \in 1 .. Len(queue) : i # j => queue[i].text # queue[j].text
           /\ \A t \in Printer : call[t].text # Null => call[t].text # tx.buffer
<1>1. \A i \in 1 .. Len(queue) : i \in DOMAIN queue /\ queue[i].text \in QueueBlocks(queue)
                               /\ queue[i].text # Null
  <2>1. DOMAIN queue = 1 .. Len(queue) /\ \A i \in DOMAIN queue : queue[i] \in Item
    BY DEF ConInv, ConTyped
  <2> QED BY <2>1, NullIsNoBlock DEF QueueBlocks, Item
<1>2. \A t \in Printer : call[t].text # Null => call[t].text \in CallBlocks(call)
  BY DEF CallBlocks
<1>3. Parts(DOMAIN live, app, SentBlock(tx.buffer), CallBlocks(call), QueueBlocks(queue))
  BY DEF ConInv, Owned
<1>4. \A i, j \in DOMAIN queue : i # j => queue[i].text # queue[j].text
  BY DEF ConInv, AllDiffer
<1> QED BY <1>1, <1>2, <1>3, <1>4 DEF Parts, SentBlock

(* Steps that take, link and send no text.                                   *)
LEMMA OrderKeeps ==
    ASSUME NEW off, WireInv(off), UNCHANGED <<queue, is_sending, tx, wire, data, printed>>,
           error' = "none" => error = "none",
           \A t \in Printer : call'[t].text = call[t].text
    PROVE  WireInv(off)'
<1>1. PICK d \in Nat : InOrder(off, d)
  BY DEF WireInv
<1>2. Pending' = Pending /\ Current' = Current
  BY DEF Pending, Current
<1>3. InOrder(off, d)'
  BY <1>1, <1>2 DEF InOrder, BlockOf
<1> QED BY <1>3 DEF WireInv

(* print takes the next text.                                                *)
LEMMA CallPrintInOrder ==
    ASSUME ConsoleClass, ConInv, NEW off, WireInv(off), NEW t \in Printer, CallPrint(t)
    PROVE  WireInv(off)'
<1> DEFINE size == TextLen[printed + 1]
           buf == FirstFit(heap, size)
<1>1. /\ \A u \in Printer : u = t
      /\ call[t].text = Null /\ error = "none" /\ printed' = printed + 1
      /\ printed + 1 \in Text /\ UNCHANGED <<queue, is_sending, tx, wire>>
  BY DEF ConsoleClass, ConInv, ConTyped, HoldsOwn, CallPrint, At, Runs, Text, lineVars
<1>2. PICK d \in Nat : InOrder(off, d)
  BY DEF WireInv
<1>3. Current' = Current /\ Current \in Nat /\ Len(queue) \in Nat
  BY <1>1 DEF Current, ConInv, ConTyped
<1>4. Pending = 0 /\ printed = d + Current + Len(queue)
  <2>1. Pending = 0
    BY <1>1 DEF Pending
  <2> QED BY <1>1, <1>2, <1>3, <2>1 DEF InOrder
<1>5. CASE error' # "none"
  <2>1. UNCHANGED <<data, call>>
    BY <1>5 DEF CallPrint
  <2>2. InOrder(off, d)'
    BY <1>1, <1>2, <1>3, <1>5, <2>1 DEF InOrder, BlockOf
  <2> QED BY <1>1, <2>2 DEF WireInv
<1>6. CASE error' = "none"
  <2>1. size \in Nat /\ CarryFree(size) /\ WholeWords /\ Malloc(size) /\ HeapOK(heap, live)
    BY <1>1, ConsoleAssumption DEF ConsoleClass, HeapClass, CallPrint, Text, ConInv
  <2>2. buf \in Unit /\ buf \notin DOMAIN live
    BY <1>6, <2>1, MallocOK
  <2>3. data' = [b \in DOMAIN data \cup {buf} |->
                    IF b = buf THEN printed + 1 ELSE data[b]]
    BY <1>6 DEF CallPrint
  <2>4. call' = [call EXCEPT ![t] = [Idle EXCEPT !.pc = "node", !.text = buf]]
    BY <1>6 DEF CallPrint
  <2> HIDE DEF buf
  <2>5. call'[t].text = buf /\ buf # Null
    BY <2>2, <2>4, NullIsNoBlock DEF ConInv, ConTyped, Idle
  <2>6. \A b, id : b \in DOMAIN live /\ BlockOf(b, id) => BlockOf(b, id)'
    BY <2>2, <2>3 DEF BlockOf
  <2>7. Pending' = 1
    BY <2>5 DEF Pending
  <2>8. data'[buf] = d + Current + Len(queue) + 1
    BY <1>4, <2>3
  <2>9. tx.buffer # Null => BlockOf(tx.buffer, d + 1)'
    BY <1>1, <1>2, <2>6, TextsAreLive DEF InOrder
  <2>10. \A i \in 1 .. Len(queue') : BlockOf(queue[i].text, d + Current + i)'
    BY <1>1, <1>2, <1>3, <2>6, TextsAreLive DEF InOrder
  <2>11. \A i \in 1 .. Len(queue) : queue[i].len = TextLen[d + Current + i]
    BY <1>2 DEF InOrder
  <2>12. InOrder(off, d)'
    <3>1. printed' = d + Current' + Len(queue') + Pending'
      BY <1>1, <1>3, <1>4, <2>7
    <3>2. \A u \in Printer : data'[call'[u].text] = d + Current' + Len(queue') + 1
      BY <1>1, <1>3, <2>5, <2>8
    <3>3. \A i \in 1 .. Len(queue') : queue'[i].len = TextLen[d + Current' + i]
      BY <1>1, <1>3, <2>11
    <3> QED BY <1>1, <1>2, <2>9, <2>10, <3>1, <3>2, <3>3 DEF InOrder
  <2> QED BY <1>1, <2>12 DEF WireInv
<1> QED BY <1>5, <1>6

(* It links the text behind those taken before.                              *)
LEMMA LinkInOrder ==
    ASSUME ConsoleClass, ConInv, NEW off, WireInv(off), NEW t \in Printer, Link(t)
    PROVE  WireInv(off)'
<1> DEFINE id == data[call[t].text]
           item == [text |-> call[t].text, node |-> call[t].node, len |-> TextLen[id]]
<1>1. /\ \A u \in Printer : u = t
      /\ call[t].pc = "link" /\ call[t].text # Null
      /\ call[t].text \in DOMAIN data /\ id \in Text
      /\ call[t].tail = IF queue = <<>> THEN Null ELSE Last(queue).node
  BY DEF ConsoleClass, ConInv, HoldsOwn, ReadsHold, Link, At
<1>2. /\ UNCHANGED <<is_sending, tx, wire, error, data, printed>>
      /\ call' = [call EXCEPT ![t] = [Idle EXCEPT !.pc = "test"]]
      /\ queue' = Linked(call[t].tail, item)
  BY DEF Link, lineVars, memVars
<1>3. queue' = Append(queue, item)
  BY <1>1, <1>2, LinkedAtEnd DEF ConInv, ConTyped
<1>4. item.text = call[t].text /\ item.len = TextLen[id]
  OBVIOUS
<1> HIDE DEF item, id
<1>5. call'[t].text = Null
  BY <1>2 DEF ConInv, ConTyped, Idle
<1>6. PICK d \in Nat : InOrder(off, d)
  BY DEF WireInv
<1>7. /\ Current' = Current /\ Current \in Nat /\ Pending = 1 /\ Pending' = 0
      /\ queue \in Seq(Item) /\ Len(queue) \in Nat
  BY <1>1, <1>2, <1>5 DEF Current, Pending, ConInv, ConTyped
<1>8. id = d + Current + Len(queue) + 1
  BY <1>1, <1>6 DEF InOrder, id
<1>9. BlockOf(item.text, id)
  BY <1>1, <1>4 DEF BlockOf, id
<1>10. /\ Len(queue') = Len(queue) + 1
       /\ \A i \in 1 .. Len(queue) : queue'[i] = queue[i]
       /\ queue'[Len(queue) + 1] = item
  BY <1>3, <1>7
<1>11. ASSUME NEW i \in 1 .. Len(queue')
       PROVE  /\ BlockOf(queue'[i].text, d + Current + i)
              /\ queue'[i].len = TextLen[d + Current + i]
  <2>1. CASE i = Len(queue) + 1
    <3>1. d + Current + i = id
      BY <1>7, <1>8, <2>1
    <3> QED BY <1>4, <1>9, <1>10, <2>1, <3>1
  <2>2. CASE i # Len(queue) + 1
    <3>1. i \in 1 .. Len(queue)
      BY <1>7, <1>10, <2>2
    <3> QED BY <1>6, <1>10, <3>1 DEF InOrder
  <2> QED BY <2>1, <2>2
<1>12. InOrder(off, d)'
  <2>1. error' = "none" => printed' = d + Current' + Len(queue') + Pending'
    BY <1>2, <1>6, <1>7, <1>10 DEF InOrder
  <2>2. \A u \in Printer : call'[u].text = Null
    BY <1>1, <1>5
  <2>3. \A b, n : BlockOf(b, n)' <=> BlockOf(b, n)
    BY <1>2 DEF BlockOf
  <2> QED BY <1>2, <1>6, <1>7, <1>11, <2>1, <2>2, <2>3 DEF InOrder
<1> QED BY <1>2, <1>12 DEF WireInv

(* data_sent begins the text behind the e that are out.                      *)
LEMMA DataSentInOrder ==
    ASSUME OrderClass, ConInv, NEW off, Places(off), WireInv(off),
           NEW e \in 0 .. Len(TextLen), Len(wire) = off[e],
           \A i \in 1 .. Len(queue) :
               BlockOf(queue[i].text, e + i) /\ queue[i].len = TextLen[e + i],
           \A t \in Printer : call[t].text # Null =>
               data[call[t].text] = e + Len(queue) + 1,
           error = "none" => printed = e + Len(queue) + Pending,
           NEW sending, NEW line, DataSent(tx.buffer, sending, line),
           queue = <<>> \/ sending # 0,
           \A t \in Printer : call'[t].text = call[t].text,
           UNCHANGED <<printed, error>>
    PROVE  WireInv(off)'
<1> DEFINE buf == tx.buffer
<1>1. /\ queue \in Seq(Item) /\ Len(queue) \in Nat /\ Pending' = Pending /\ e \in Nat
      /\ tx = [buffer |-> tx.buffer, cnt |-> tx.cnt, remained |-> tx.remained]
  <2>1. Pending' = Pending
    BY DEF Pending
  <2>2. Len(TextLen) \in Nat
    BY ConsoleAssumption
  <2>3. e \in Nat
    BY <2>2
  <2> QED BY <2>1, <2>3 DEF ConInv, ConTyped
<1>2. data' = [b \in DOMAIN data \ {buf} |-> data[b]]
  BY DEF DataSent
<1>3. \A b, id : BlockOf(b, id) /\ b # buf => BlockOf(b, id)'
  BY <1>2 DEF BlockOf
<1>4. \A t \in Printer : call[t].text # Null =>
          /\ call[t].text \in DOMAIN data /\ call[t].text # buf
          /\ data'[call[t].text] = e + Len(queue) + 1
  BY <1>2, TextsAreLive DEF ConInv, HoldsOwn
<1>5. CASE queue = <<>>
  <2>1. /\ tx' = [tx EXCEPT !.buffer = Null] /\ is_sending' = 0
        /\ UNCHANGED <<queue, wire>>
    BY <1>5 DEF DataSent, StopsSending
  <2>2. tx'.buffer = Null /\ Len(queue) = 0
    BY <1>1, <1>5, <2>1
  <2>3. Current' = 0
    BY <2>2 DEF Current
  <2>4. InOrder(off, e)'
    <3>1. Len(wire') = off[e]
      BY <2>1
    <3>2. off[e] = off[e] + 0
      BY DEF Places
    <3> QED BY <1>1, <1>4, <2>1, <2>2, <2>3, <3>1, <3>2 DEF InOrder
  <2> QED BY <1>1, <2>1, <2>4 DEF WireInv
<1>6. CASE queue # <<>>
  <2> DEFINE item == Head(queue)
  <2>1. /\ 1 \in 1 .. Len(queue) /\ item = queue[1] /\ item \in Item
        /\ queue' = Tail(queue)
        /\ tx' = [buffer |-> item.text, cnt |-> 1, remained |-> Remaining(item.len)]
        /\ is_sending' = sending /\ wire' = Append(wire, ByteAt(item.text, 0))
    BY <1>1, <1>6 DEF DataSent, Write
  <2> HIDE DEF item
  <2>2. /\ BlockOf(item.text, e + 1) /\ item.len = TextLen[e + 1]
        /\ e + 1 \in Text /\ item.text # buf /\ item.text # Null
    BY <2>1, TextsAreLive, NullIsNoBlock DEF BlockOf, Item
  <2>3. /\ TextLen[e + 1] \in Nat /\ TextLen[e + 1] > 0
        /\ Remaining(item.len) = TextLen[e + 1] - 1
    BY <2>2, TextBytes DEF OrderClass
  <2>4. ByteAt(item.text, 0) = <<e + 1, 0>>
    BY <2>2, <2>3 DEF ByteAt, BlockOf
  <2>5. /\ wire' \in Seq(Byte) /\ IsPrefix(wire', AllBytes) /\ Len(wire') = off[e] + 1
    <3>1. off[e] \in Nat /\ off[e] + 0 = off[e] /\ off[e] + 0 + 1 = off[e] + 1
      BY DEF Places
    <3>2. 0 \in 0 .. TextLen[e + 1] - 1
      BY <2>3
    <3>3. wire \in Seq(Byte) /\ IsPrefix(wire, AllBytes) /\ Len(wire) = off[e] + 0
      BY <3>1 DEF WireInv
    <3>4. Len(wire') = off[e] + 0 + 1 /\ wire' \in Seq(Byte) /\ IsPrefix(wire', AllBytes)
      BY <1>1, <2>1, <2>2, <2>4, <3>2, <3>3, ByteFollows
    <3> QED BY <3>1, <3>4
  <2>6. Current' = 1 /\ tx'.buffer = item.text /\ tx'.cnt = 1
        /\ tx'.remained = TextLen[e + 1] - 1
    BY <2>1, <2>2, <2>3 DEF Current
  <2>7. /\ Len(queue') = Len(queue) - 1 /\ Len(queue') \in Nat
        /\ \A i \in 1 .. Len(queue') : i + 1 \in 1 .. Len(queue) /\ queue'[i] = queue[i + 1]
    BY <1>1, <1>6, <2>1
  <2>8. \A i \in 1 .. Len(queue) : queue[i].text # buf
    BY TextsAreLive
  <2>9. ASSUME NEW i \in 1 .. Len(queue')
        PROVE  BlockOf(queue[i].text, e + Current + i)'
               /\ queue'[i].len = TextLen[e + Current' + i]
    <3>1. e + Current' + i = e + (i + 1)
      BY <1>1, <2>6, <2>7
    <3>2. /\ BlockOf(queue[i + 1].text, e + (i + 1)) /\ queue[i + 1].text # buf
          /\ queue[i + 1].len = TextLen[e + (i + 1)] /\ queue'[i] = queue[i + 1]
      BY <2>7, <2>8
    <3> QED BY <1>2, <3>1, <3>2 DEF BlockOf
  <2>10. BlockOf(tx.buffer, e + 1)'
    BY <1>2, <2>2, <2>6 DEF BlockOf
  <2>11. InOrder(off, e)'
    <3>1. \A t \in Printer : call'[t].text # Null =>
              data'[call'[t].text] = e + Current' + Len(queue') + 1
      <4>1. e + Current' + Len(queue') + 1 = e + Len(queue) + 1
        BY <1>1, <2>6, <2>7
      <4> QED BY <1>4, <4>1
    <3>2. error' = "none" => printed' = e + Current' + Len(queue') + Pending'
      <4>1. Pending \in Nat
        BY DEF Pending
      <4> QED BY <1>1, <2>6, <2>7, <4>1
    <3>3. tx'.cnt \in 1 .. TextLen[e + 1] /\ tx'.remained = TextLen[e + 1] - tx'.cnt
      BY <2>3, <2>6
    <3>4. Len(wire') = off[e] + (IF tx'.buffer = Null THEN 0 ELSE tx'.cnt)
      BY <2>2, <2>5, <2>6
    <3> QED BY <2>9, <2>10, <3>1, <3>2, <3>3, <3>4 DEF InOrder
  <2>12. tx'.buffer # Null
    BY <2>2, <2>6
  <2> QED BY <1>1, <2>5, <2>11, <2>12 DEF WireInv
<1> QED BY <1>5, <1>6

(* print starts the transmitter with the first text of the queue.            *)
LEMMA StartInOrder ==
    ASSUME OrderClass, ConInv, NEW off, Places(off), WireInv(off),
           NEW t \in Printer, Start(t)
    PROVE  WireInv(off)'
<1>1. /\ \A u \in Printer : u = t
      /\ call[t].text = Null /\ is_sending = 0 /\ tx.buffer = Null /\ uart = "idle"
  BY DEF OrderClass, ConsoleClass, ConInv, HoldsOwn, ReadsHold, IdleLine, Start, At
<1>2. DataSent(tx.buffer, 1, "idle") /\ UNCHANGED <<printed, error>>
  BY <1>1 DEF Start
<1>3. \A u \in Printer : call'[u].text = call[u].text
  <2>1. call' = [call EXCEPT ![t] = Idle] /\ Idle.text = Null
    BY DEF Start, Idle
  <2> QED BY <1>1, <2>1 DEF ConInv, ConTyped
<1>4. PICK d \in Nat : InOrder(off, d)
  BY DEF WireInv
<1>5. /\ Current = 0 /\ d + 0 = d /\ Len(queue) \in Nat /\ d \in 0 .. Len(TextLen)
      /\ off[d] + 0 = off[d]
  BY <1>1, <1>4, ConsoleAssumption DEF Current, ConInv, ConTyped, InOrder, Places
<1>6. /\ Len(wire) = off[d]
      /\ \A i \in 1 .. Len(queue) :
             BlockOf(queue[i].text, d + i) /\ queue[i].len = TextLen[d + i]
      /\ \A u \in Printer : call[u].text # Null => data[call[u].text] = d + Len(queue) + 1
      /\ error = "none" => printed = d + Len(queue) + Pending
  BY <1>1, <1>4, <1>5 DEF InOrder
<1> QED BY <1>2, <1>3, <1>5, <1>6, DataSentInOrder

(* The interrupt sends the next byte of the text, or finds it sent.          *)
LEMMA SentIsrInOrder ==
    ASSUME OrderClass, ConInv, NEW off, Places(off), WireInv(off), SentIsr
    PROVE  WireInv(off)'
<1>1. is_sending # 0 /\ tx.buffer # Null /\ UNCHANGED <<error, call, printed>>
  BY DEF SentIsr, ConInv, IdleLine, WireInv, taskVars
<1>2. PICK d \in Nat : InOrder(off, d)
  BY DEF WireInv
<1>3. /\ BlockOf(tx.buffer, d + 1) /\ d + 1 \in Text
      /\ tx.cnt \in 1 .. TextLen[d + 1] /\ tx.remained = TextLen[d + 1] - tx.cnt
      /\ Len(wire) = off[d] + tx.cnt /\ Current = 1
      /\ TextLen[d + 1] \in Nat /\ Len(queue) \in Nat
      /\ tx = [buffer |-> tx.buffer, cnt |-> tx.cnt, remained |-> tx.remained]
  BY <1>1, <1>2, TextBytes DEF InOrder, BlockOf, Current, ConInv, ConTyped
<1>4. CASE tx.remained > 0
  <2>1. /\ UNCHANGED <<queue, is_sending, data>>
        /\ wire' = Append(wire, ByteAt(tx.buffer, tx.cnt))
        /\ tx' = [tx EXCEPT !.cnt = @ + 1, !.remained = @ - 1]
    BY <1>4 DEF SentIsr, Write
  <2>2. /\ tx'.buffer = tx.buffer /\ tx'.cnt = tx.cnt + 1 /\ tx'.remained = tx.remained - 1
    BY <1>3, <2>1
  <2>3. tx.cnt \in 0 .. TextLen[d + 1] - 1 /\ tx.cnt < TextLen[d + 1]
    BY <1>3, <1>4
  <2>4. ByteAt(tx.buffer, tx.cnt) = <<d + 1, tx.cnt>>
    BY <1>3, <2>3 DEF ByteAt, BlockOf
  <2>5. /\ wire' \in Seq(Byte) /\ IsPrefix(wire', AllBytes)
        /\ Len(wire') = off[d] + tx.cnt + 1
    BY <1>3, <2>1, <2>3, <2>4, ByteFollows DEF WireInv
  <2>6. Len(wire') = off[d] + tx'.cnt
    <3>1. off[d] \in Nat /\ tx.cnt \in Nat
      BY <1>2, <2>3 DEF InOrder, Places
    <3> QED BY <2>2, <2>5, <3>1
  <2>7. Current' = Current /\ Pending' = Pending
    BY <1>1, <2>2 DEF Current, Pending
  <2>8. tx'.cnt \in 1 .. TextLen[d + 1] /\ tx'.remained = TextLen[d + 1] - tx'.cnt
    BY <1>3, <2>2, <2>3
  <2>9. \A b, n : BlockOf(b, n)' <=> BlockOf(b, n)
    BY <2>1 DEF BlockOf
  <2>10. InOrder(off, d)'
    <3>1. BlockOf(tx.buffer, d + 1)'
      BY <1>3, <2>2, <2>9
    <3>2. \A i \in 1 .. Len(queue') :
              /\ BlockOf(queue[i].text, d + Current + i)'
              /\ queue'[i].len = TextLen[d + Current' + i]
      BY <1>2, <2>1, <2>7, <2>9 DEF InOrder
    <3> QED BY <1>1, <1>2, <2>1, <2>2, <2>6, <2>7, <2>8, <3>1, <3>2 DEF InOrder
  <2> QED BY <1>1, <2>1, <2>2, <2>5, <2>10 DEF WireInv
<1>5. CASE ~(tx.remained > 0)
  <2>1. DataSent(tx.buffer, is_sending, "idle")
    BY <1>5 DEF SentIsr
  <2>2. /\ tx.cnt = TextLen[d + 1] /\ d + 1 \in 0 .. Len(TextLen) /\ (d + 1) - 1 = d
    <3>1. tx.cnt = TextLen[d + 1]
      BY <1>3, <1>5
    <3>2. d + 1 \in 0 .. Len(TextLen) /\ (d + 1) - 1 = d
      BY <1>3 DEF Text
    <3> QED BY <3>1, <3>2
  <2>3. Len(wire) = off[d + 1]
    BY <1>3, <2>2 DEF Places
  <2>4. /\ \A i \in 1 .. Len(queue) :
               BlockOf(queue[i].text, (d + 1) + i) /\ queue[i].len = TextLen[(d + 1) + i]
        /\ \A u \in Printer : call[u].text # Null =>
               data[call[u].text] = (d + 1) + Len(queue) + 1
        /\ error = "none" => printed = (d + 1) + Len(queue) + Pending
    BY <1>2, <1>3 DEF InOrder
  <2> QED BY <1>1, <2>1, <2>2, <2>3, <2>4, DataSentInOrder
<1> QED BY <1>4, <1>5

(* What the line sees is the texts in the order of the calls, each whole,    *)
(* for any number and lengths of texts and whatever the transmitter's        *)
(* interrupt comes between.                                                  *)
THEOREM TextsStayInOrder ==
    ASSUME OrderClass
    PROVE  ConsoleSpec => []TextsInOrder
<1> USE OrderClass
<1>1. PICK off : Places(off)
  BY TextsHavePlaces
<1>2. ConsoleInit => WireInv(off)
  <2> SUFFICES ASSUME ConsoleInit PROVE WireInv(off)
    OBVIOUS
  <2>1. /\ queue = <<>> /\ Len(queue) = 0 /\ is_sending = 0 /\ tx.buffer = Null
        /\ \A t \in Printer : call[t].text = Null
        /\ printed = 0 /\ wire = <<>> /\ Len(wire) = 0
    BY DEF ConsoleInit, Idle
  <2>2. Current = 0 /\ Pending = 0
    BY <2>1 DEF Current, Pending
  <2>3. 0 \in 0 .. Len(TextLen) /\ off[0] = 0 /\ AllBytes \in Seq(Byte)
    BY <1>1, ConsoleAssumption DEF Places
  <2>4. InOrder(off, 0)
    BY <2>1, <2>2, <2>3 DEF InOrder
  <2>5. wire \in Seq(Byte) /\ IsPrefix(wire, AllBytes)
    BY <2>1, <2>3 DEF IsPrefix
  <2> QED BY <2>1, <2>4, <2>5 DEF WireInv
<1>3. ConInv /\ WireInv(off) /\ [ConsoleNext]_conVars => WireInv(off)'
  <2> SUFFICES ASSUME ConInv, WireInv(off), [ConsoleNext]_conVars
               PROVE  WireInv(off)'
    OBVIOUS
  <2>1. ASSUME NEW t \in Printer, CallPrint(t) \/ PrintStep(t)
        PROVE  WireInv(off)'
    <3>1. CASE CallPrint(t)
      BY <3>1, CallPrintInOrder DEF OrderClass
    <3>2. CASE Link(t)
      BY <3>2, LinkInOrder DEF OrderClass
    <3>3. CASE Start(t)
      BY <1>1, <3>3, StartInOrder
    <3>4. CASE AllocNode(t) \/ FindTail(t) \/ TestSending(t)
      <4>1. \A u \in Printer : u = t
        BY DEF OrderClass, ConsoleClass
      <4>2. /\ UNCHANGED <<queue, is_sending, tx, wire, data, printed>>
            /\ error' = "none" => error = "none"
        BY <3>4 DEF AllocNode, FindTail, TestSending, At, Runs, lineVars, memVars
      <4>3. call'[t].text = call[t].text
        <5>1. TestSending(t) => call[t].text = Null
          BY DEF TestSending, At, ConInv, HoldsOwn
        <5> QED BY <3>4, <5>1
                DEF AllocNode, FindTail, TestSending, ConInv, ConTyped, Locals, Idle
      <4> QED BY <4>1, <4>2, <4>3, OrderKeeps
    <3> QED BY <2>1, <3>1, <3>2, <3>3, <3>4 DEF PrintStep
  <2>2. CASE SentIsr
    BY <1>1, <2>2, SentIsrInOrder
  <2>3. CASE \/ \E size \in Sizes : AppMalloc(size)
             \/ \E u \in app : AppFree(u) \/ AppMemset(u)
    <3>1. UNCHANGED <<queue, is_sending, tx, wire, data, printed, call>> /\ error = "none"
      BY <2>3 DEF AppMalloc, AppFree, AppMemset, InterruptsOn, lineVars, taskVars
    <3> QED BY <3>1, OrderKeeps
  <2>4. CASE \/ UartShift \/ ReadyIsr \/ RxByte \/ pos_console_rx_register
             \/ UNCHANGED conVars
    <3>1. UNCHANGED <<queue, is_sending, tx, wire, data, printed, call, error>>
      BY <2>4 DEF UartShift, ReadyIsr, RxByte, pos_console_rx_register, conVars, memVars,
                  lineVars, taskVars
    <3> QED BY <3>1, OrderKeeps
  <2> QED BY <2>1, <2>2, <2>3, <2>4 DEF ConsoleNext, ConsoleHalted
<1>4. WireInv(off) => TextsInOrder
  BY DEF WireInv, TextsInOrder, AllBytes, Bytes
<1>5. ConsoleSpec => []ConInv
  BY ConsoleAlwaysOK DEF OrderClass
<1> QED BY <1>2, <1>3, <1>4, <1>5, PTL DEF ConsoleSpec
=============================================================================
