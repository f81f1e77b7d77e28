------------------------------ MODULE PosMemory ------------------------------
(*****************************************************************************)
(* The heap (core/pos_memory.c): a map with a bit for every unit of four     *)
(* bytes, searched first fit, and in front of each block a unit that holds   *)
(* the size asked for.  pmalloc and pfree are one critical section each.     *)
(*****************************************************************************)
EXTENDS Integers, FiniteSets, FiniteSetsExt

CONSTANTS
    MapBytes,   \* POS_MEMORY_HEAP_MAP_SIZE
    Sizes,      \* the sizes programs ask for
    AskSize     \* programs fill as many bytes as pget_var_size reports

ASSUME MemoryAssumption ==
    /\ MapBytes \in Nat \ {0}
    /\ Sizes \in SUBSET Nat
    /\ AskSize \in BOOLEAN

VARIABLES
    heap,   \* map: the bits that are set; hdr: the header of each block, by its
            \* first unit; used: total_heap_used
    live,   \* the size each block was asked for, by its first unit
    error   \* last_error_no: pos_error is a breakpoint

memVars == <<heap, live, error>>

POS_MEMORY_BLOCK_SIZE_LEN == 4

(* POS_MEMORY_BLOCK: the units of x bytes.                                   *)
Units(x) == (x + 3) \div 4

(* The map is read in words of 32 bits, the last one perhaps beyond its end. *)
Unit == 0 .. 32 * Units(MapBytes) - 1
HeapUnit == 0 .. 8 * MapBytes - 1

Span(u, n) == u .. u + n - 1

(* The bits pmalloc(size) sets when it finds room at u.                      *)
Block(u, size) == Span(u, Units(size + POS_MEMORY_BLOCK_SIZE_LEN))

Room(h, size) == {u \in Unit : Block(u, size) \subseteq Unit \ h.map}

\* Defect: the search stops at the first free bit.
LowestFree(h, size) == CHOOSE u \in Unit \ h.map : \A v \in Unit \ h.map : u <= v

(* The search of pmalloc stops at the first run of free bits that is long    *)
(* enough.                                                                   *)
FirstFit(h, size) ==
    CHOOSE u \in Room(h, size) : \A v \in Room(h, size) : u <= v

(* pmalloc where there is room.                                              *)
Alloced(h, size) ==
    LET u == FirstFit(h, size)
    IN  [map  |-> h.map \cup Block(u, size),
         hdr  |-> [b \in DOMAIN h.hdr \cup {u} |-> IF b = u THEN size ELSE h.hdr[b]],
         used |-> h.used + size + POS_MEMORY_BLOCK_SIZE_LEN]

\* Defect: the header is not counted.
StoredSize(d) == d

(* pget_var_size, and the same expression in pfree: the four bytes of the    *)
(* header are joined by |, and the + 4 belongs to the lowest byte alone, so  *)
(* that a carry out of it is lost in a bit that is already set.              *)
VarSize(d) ==
    IF (d % 256) + POS_MEMORY_BLOCK_SIZE_LEN >= 256 /\ (d \div 256) % 2 = 1
    THEN d + POS_MEMORY_BLOCK_SIZE_LEN - 256
    ELSE d + POS_MEMORY_BLOCK_SIZE_LEN

(* pfree of the block at u.                                                  *)
Freed(h, u) ==
    LET c_size == VarSize(h.hdr[u])
    IN  [map  |-> h.map \ Span(u, Units(c_size)),
         hdr  |-> [b \in DOMAIN h.hdr \ {u} |-> h.hdr[b]],
         used |-> h.used - c_size]

(* Headers overwritten with zeros by a pmemset of len bytes of the block at  *)
(* u, whose data begin behind its header: of the header at b the lowest      *)
(* bytes, as many as reach it.                                               *)
Filled(h, u, len) ==
    LET end == 4 * u + POS_MEMORY_BLOCK_SIZE_LEN + len
    IN  [h EXCEPT !.hdr =
            [b \in DOMAIN h.hdr |->
                IF b <= u \/ 4 * b >= end THEN h.hdr[b]
                ELSE IF 4 * b + 4 <= end THEN 0
                ELSE h.hdr[b] - (h.hdr[b] % (256 ^ (end - 4 * b)))]]

-----------------------------------------------------------------------------
Grant(u, size) == [b \in DOMAIN live \cup {u} |-> IF b = u THEN size ELSE live[b]]
Without(u) == [b \in DOMAIN live \ {u} |-> live[b]]

(* pmalloc; without room it is pos_error(POS_MEM_LOW_SPACE).                 *)
Malloc(size) ==
    /\ error = "none"
    /\ IF Room(heap, size) # {}
       THEN /\ heap' = Alloced(heap, size)
            /\ live' = Grant(FirstFit(heap, size), size)
            /\ UNCHANGED error
       ELSE /\ error' = "low_space"
            /\ UNCHANGED <<heap, live>>

(* pfree of a pointer that pmalloc returned.                                 *)
Free(u) ==
    /\ error = "none"
    /\ heap' = Freed(heap, u)
    /\ live' = Without(u)
    /\ UNCHANGED error

(* pmemset from the start of a block, which compares the length with         *)
(* pget_var_size.                                                            *)
Memset(u, len) ==
    /\ error = "none"
    /\ IF len > VarSize(heap.hdr[u])
       THEN error' = "low_dst_size" /\ UNCHANGED heap
       ELSE heap' = Filled(heap, u, len) /\ UNCHANGED error
    /\ UNCHANGED live

FillLength(u) == IF AskSize THEN VarSize(heap.hdr[u]) ELSE live[u]

MemoryHalted == error # "none" /\ UNCHANGED memVars

(* init_pos_memory clears the bytes of the map, not what follows them in its *)
(* last word.                                                                *)
MemoryInit ==
    /\ heap \in [map : SUBSET (Unit \ HeapUnit), hdr : {<<>>}, used : {0}]
    /\ live = <<>>
    /\ error = "none"

MemoryNext ==
    \/ \E size \in Sizes : Malloc(size)
    \/ \E u \in DOMAIN live : Free(u) \/ Memset(u, FillLength(u))
    \/ MemoryHalted

MemorySpec == MemoryInit /\ [][MemoryNext]_memVars

-----------------------------------------------------------------------------
(* The map has the bits of the blocks that are allocated, within the heap,   *)
(* and no others, and no two blocks share one: nothing is handed out twice,  *)
(* nothing is lost.                                                          *)
HeapExact ==
    /\ \A u \in DOMAIN live : Block(u, live[u]) \subseteq HeapUnit
    /\ \A u, v \in DOMAIN live :
           u # v => Block(u, live[u]) \cap Block(v, live[v]) = {}
    /\ heap.map = UNION {Block(u, live[u]) : u \in DOMAIN live}

(* pos_memory.c:164: get_mem_used "will return amount of allocated heap".    *)
UsedIsAllocated ==
    heap.used = MapThenSumSet(LAMBDA u : live[u] + POS_MEMORY_BLOCK_SIZE_LEN, DOMAIN live)
=============================================================================
