--------------------------- MODULE SlabAllocator ----------------------------
(***************************************************************************)
(* cpp/slab_allocator: singleton_slab_allocator.hpp, and slab<T> of        *)
(* slab_allocator.hpp as its user.                                         *)
(*                                                                         *)
(* The allocator a is a record of mem, the headers of the slabs by the     *)
(* slabs' addresses, and of the heads of the lists of empty, wip (work in  *)
(* progress) and filled slabs of each cell size.  Slabs are linked by prev *)
(* and next.  The free cells of a slab are the sequence free_list: in the  *)
(* code each free cell holds the address of the next one.                  *)
(*                                                                         *)
(* Memory for slabs is never refused: the code does not check.             *)
(***************************************************************************)
EXTENDS Integers, FiniteSets, FiniteSetsExt, SequencesExt

CONSTANTS
    SlabSize,
    MinReserved, \* MIN_RESERVED_BYTES
    HeaderSize,  \* the bytes the fields of a header take
    MinCell,     \* MIN_CELL_SIZE
    SlabTypes,   \* SLAB_TYPES: cell sizes are MinCell * 2^i
    SlabAt,      \* the addresses of slabs aligned_alloc may return
    LargeAt,     \* the addresses it may return for large requests
    Count,       \* the numbers of elements users ask for
    SizeOfT,     \* sizeof(T)
    Null

ASSUME AllocatorAssumption ==
    /\ {SlabSize, MinReserved, HeaderSize, MinCell, SlabTypes, SizeOfT} \subseteq Nat \ {0}
    /\ HeaderSize <= MinReserved
    /\ \E k \in 0..MinCell : MinCell = 2^k
    /\ \E k \in 0..MinReserved : MinReserved = 2^k
    /\ \A i \in 0..(SlabTypes - 1) : SlabSize % (MinCell * 2^i) = 0
    /\ SlabAt \subseteq Nat \ {0} /\ IsFiniteSet(SlabAt) /\ \A s \in SlabAt : s % SlabSize = 0
    /\ LargeAt \subseteq Nat \ {0}
    /\ Count \subseteq Nat
    /\ Null \notin Nat

VARIABLES
    a,        \* the allocator
    live,     \* what users have: ptr, and the number n of elements
    undefined \* sfree took something for a slab that is none

vars == <<a, live, undefined>>

Index   == 0..(SlabTypes - 1)
MaxCell == MinCell * 2^(SlabTypes - 1)

Init ==
    /\ a = [mem    |-> [s \in {} |-> <<>>],
            empty  |-> [i \in Index |-> Null],
            wip    |-> [i \in Index |-> Null],
            filled |-> [i \in Index |-> Null]]
    /\ live = {}
    /\ undefined = FALSE

-----------------------------------------------------------------------------
(* The layout of a slab                                                    *)

\* 0 for 0: val-- wraps around and val++ comes back
CeilingPow2(val) ==
    IF val = 0 THEN 0
    ELSE CHOOSE p \in {2^i : i \in 0..val} : p >= val /\ \A i \in 0..val : 2^i >= val => p <= 2^i

\* The cell size of a request of n bytes
CellSize(n) == IF CeilingPow2(n) < MinCell THEN MinCell ELSE CeilingPow2(n)

IndexFromCellSize(cs) == CHOOSE i \in Index : MinCell * 2^i = cs

Reserved_Fixed(cs) == MinReserved

\* get_reserved_area_size
Reserved(cs) == IF MinReserved < cs THEN cs ELSE MinReserved

MaxCells_NoReserve(cs) == SlabSize \div cs

\* get_max_cells_in_slab
MaxCells(cs) == (SlabSize - Reserved(cs)) \div cs

\* Cells of at most 1 KiB in slabs of at least 4 KiB: none has a single cell, which
\* sfree would take for a slab that became wip
ASSUME MaxCellsAssumption == \A i \in Index : MaxCells(MinCell * 2^i) > 1

SlabFromCell(cell) == cell - (cell % SlabSize)

NewSlab(cs, s) ==
    [cell_size |-> cs,
     free_list |-> [j \in 1..MaxCells(cs) |-> s + Reserved(cs) + (j - 1) * cs],
     free_cells_cnt |-> MaxCells(cs),
     prev |-> Null, next |-> Null]

IsSlabEmpty(h)  == h.free_cells_cnt = MaxCells(h.cell_size)
IsSlabFilled(h) == h.free_cells_cnt = 0

-----------------------------------------------------------------------------
(* Lists of slabs: the memory and the head after the operation             *)

RemovedFrom_KeepsBack(mem, head, s) ==
    LET prev == mem[s].prev
        next == mem[s].next
    IN  CASE prev = Null -> [mem |-> [mem EXCEPT ![s].next = Null], head |-> next]
          [] prev # Null /\ next = Null ->
                 [mem |-> [mem EXCEPT ![s].prev = Null, ![prev].next = Null], head |-> head]
          [] OTHER ->
                 [mem |-> [mem EXCEPT ![prev].next = next, ![next].prev = prev,
                                      ![s].prev = Null, ![s].next = Null], head |-> head]

\* remove_from_slab_list of a slab that is in the list of head
RemovedFrom(mem, head, s) ==
    LET prev == mem[s].prev
        next == mem[s].next
    IN  CASE prev = Null /\ next = Null -> [mem |-> mem, head |-> Null]
          [] prev = Null /\ next # Null ->
                 [mem |-> [mem EXCEPT ![s].next = Null, ![next].prev = Null], head |-> next]
          [] prev # Null /\ next = Null ->
                 [mem |-> [mem EXCEPT ![s].prev = Null, ![prev].next = Null], head |-> head]
          [] OTHER ->
                 [mem |-> [mem EXCEPT ![prev].next = next, ![next].prev = prev,
                                      ![s].prev = Null, ![s].next = Null], head |-> head]

PushedTo_NoBack(mem, head, s) ==
    IF head = Null THEN [mem |-> [mem EXCEPT ![s].prev = Null, ![s].next = Null], head |-> s]
    ELSE [mem |-> [mem EXCEPT ![s].next = head], head |-> s]

\* push_to_slab_list leaves prev of the slab as it is
PushedTo(mem, head, s) ==
    IF head = Null THEN [mem |-> [mem EXCEPT ![s].prev = Null, ![s].next = Null], head |-> s]
    ELSE [mem |-> [mem EXCEPT ![head].prev = s, ![s].next = head], head |-> s]

\* Slab s of x goes from one list of cell size i to another; x's memory is taken
\* as it is, list names are "empty", "wip" and "filled"
Moved(x, i, s, from, to) ==
    LET r == RemovedFrom(x.mem, x[from][i], s)
        p == PushedTo(r.mem, x[to][i], s)
    IN  [x EXCEPT !.mem = p.mem, ![from][i] = r.head, ![to][i] = p.head]

-----------------------------------------------------------------------------
(* smalloc                                                                 *)

\* A slab from the system when the cell size has neither a wip nor an empty one
WithNewSlab(x, i, cs, s) ==
    LET p == PushedTo([t \in DOMAIN x.mem \cup {s} |-> IF t = s THEN NewSlab(cs, s) ELSE x.mem[t]],
                      x.empty[i], s)
    IN  [x EXCEPT !.mem = p.mem, !.empty[i] = p.head]

WithWip(x, i) == IF x.wip[i] = Null THEN Moved(x, i, x.empty[i], "empty", "wip") ELSE x

PoppedCell(x, s) == [x EXCEPT !.mem[s].free_list = Tail(@), !.mem[s].free_cells_cnt = @ - 1]

\* A cell is taken off the first wip slab
Popped(x, i) ==
    LET s == x.wip[i]
        y == PoppedCell(x, s)
    IN  IF IsSlabFilled(y.mem[s]) THEN Moved(y, i, s, "wip", "filled") ELSE y

-----------------------------------------------------------------------------
(* sfree                                                                   *)

\* The cell is put at the head of the free list of its slab
Pushed(x, s, ptr) ==
    [x EXCEPT !.mem[s].free_list = <<ptr>> \o @, !.mem[s].free_cells_cnt = @ + 1]

BecameWip_NoMove(h) == FALSE

BecameWip(h) == h.free_cells_cnt = 1

BecameEmpty_TooSoon(h) == h.free_cells_cnt >= MaxCells(h.cell_size) - 1

BecameEmpty(h) == IsSlabEmpty(h)

Sfreed(x, ptr) ==
    LET s == SlabFromCell(ptr)
        y == Pushed(x, s, ptr)
        i == IndexFromCellSize(y.mem[s].cell_size)
    IN  IF BecameWip(y.mem[s]) THEN Moved(y, i, s, "filled", "wip")
        ELSE IF BecameEmpty(y.mem[s]) THEN Moved(y, i, s, "wip", "empty")
        ELSE y

-----------------------------------------------------------------------------
(* clear                                                                   *)

\* One turn of the loop: the first empty slab of cell size i is freed
FirstFreed(x, i) ==
    LET s == x.empty[i]
        r == RemovedFrom(x.mem, s, s)
    IN  [x EXCEPT !.mem = [t \in DOMAIN x.mem \ {s} |-> r.mem[t]], !.empty[i] = r.head]

\* The cell sizes are emptied one after the other
Turn(x) ==
    IF \A i \in Index : x.empty[i] = Null THEN x
    ELSE FirstFreed(x, CHOOSE i \in Index : x.empty[i] # Null /\ \A j \in 0..(i - 1) : x.empty[j] = Null)

\* As many turns as there may be slabs: after the last empty one they change nothing
Cleared(x) ==
    LET drain[k \in 0..Cardinality(SlabAt)] == IF k = 0 THEN x ELSE Turn(drain[k - 1])
    IN  drain[Cardinality(SlabAt)]

-----------------------------------------------------------------------------
(* The user: slab<T>                                                       *)

\* allocate asks for n * sizeof(T) bytes, deallocate names n: for n <= MaxCell <
\* Bytes(n) a large block is taken for a cell
Bytes_WithHeader(n) == n * SizeOfT + HeaderSize

Bytes(n) == n * SizeOfT

FreedBytes(n) == n

Large(n) == n > MaxCell

\* The bytes from p on, m of them; a request of none has an address of its own
Span(p, m) == p..(p + (IF m = 0 THEN 1 ELSE m) - 1)

\* aligned_alloc gives memory that neither a slab nor a large block has
LargeSpans == { Span(x.ptr, Bytes(x.n)) : x \in { y \in live : Large(Bytes(y.n)) } }

FreeLarge(m) ==
    { p \in LargeAt : \A t \in LargeSpans \cup { Span(s, SlabSize) : s \in DOMAIN a.mem } :
                          Span(p, m) \cap t = {} }

FreeSlabs ==
    { s \in SlabAt \ DOMAIN a.mem : \A t \in LargeSpans : Span(s, SlabSize) \cap t = {} }

AllocateLarge(n) ==
    /\ Large(Bytes(n))
    /\ \E ptr \in FreeLarge(Bytes(n)) : live' = live \cup {[ptr |-> ptr, n |-> n]}
    /\ UNCHANGED <<a, undefined>>

\* s is the address of a new slab, where one is needed
AllocateCell(n, s) ==
    LET cs == CellSize(Bytes(n))
        i  == IndexFromCellSize(cs)
        none == a.wip[i] = Null /\ a.empty[i] = Null
        w  == WithWip(IF none THEN WithNewSlab(a, i, cs, s) ELSE a, i)
    IN  /\ none => s \in FreeSlabs
        /\ live' = live \cup {[ptr |-> Head(w.mem[w.wip[i]].free_list), n |-> n]}
        /\ a' = Popped(w, i)
        /\ UNCHANGED undefined

Allocate(n) ==
    \/ AllocateLarge(n)
    \/ ~Large(Bytes(n)) /\ \E s \in SlabAt : AllocateCell(n, s)

DeallocateLarge(x) ==
    /\ Large(FreedBytes(x.n))
    /\ UNCHANGED <<a, undefined>>

DeallocateCell(x) ==
    /\ ~Large(FreedBytes(x.n))
    /\ IF SlabFromCell(x.ptr) \in DOMAIN a.mem
       THEN a' = Sfreed(a, x.ptr) /\ UNCHANGED undefined
       ELSE undefined' = TRUE /\ UNCHANGED a

Deallocate(x) ==
    /\ live' = live \ {x}
    /\ DeallocateLarge(x) \/ DeallocateCell(x)

Clear ==
    /\ a' = Cleared(a)
    /\ UNCHANGED <<live, undefined>>

\* A step that was undefined has no next
Next ==
    /\ ~undefined
    /\ \/ \E n \in Count : Allocate(n)
       \/ \E x \in live : Deallocate(x)
       \/ Clear

Spec == Init /\ [][Next]_vars

-----------------------------------------------------------------------------
(* What the allocator reports                                              *)

\* The slabs for_each_slab_reduce meets up to the null pointer; more than there are if it
\* does not end
Walk(head) ==
    LET at[k \in 1..(Cardinality(SlabAt) + 1)] ==
            IF k = 1 THEN head
            ELSE IF at[k - 1] \in DOMAIN a.mem THEN a.mem[at[k - 1]].next ELSE Null
    IN  [k \in { j \in DOMAIN at : at[j] # Null } |-> at[k]]

AllocatedSlabs(i) == Len(Walk(a.empty[i])) + Len(Walk(a.wip[i])) + Len(Walk(a.filled[i]))

\* get_filled_cells_cnt
FilledCells(s) == MaxCells(a.mem[s].cell_size) - a.mem[s].free_cells_cnt

Size(i) == MapThenSumSet(FilledCells, ToSet(Walk(a.wip[i]) \o Walk(a.filled[i])))

-----------------------------------------------------------------------------
(* Properties                                                              *)

\* A slab's header is one new_slab and the lists can have made; free_cells_cnt
\* counts the free list (singleton_slab_allocator.hpp:51-52).
HeaderOK(h) ==
    /\ h.cell_size \in { MinCell * 2^i : i \in Index }
    /\ h.free_list \in Seq(Nat) /\ Len(h.free_list) = h.free_cells_cnt
    /\ {h.prev, h.next} \subseteq DOMAIN a.mem \cup {Null}

TypeOK ==
    /\ DOMAIN a.mem \subseteq SlabAt
    /\ \A s \in DOMAIN a.mem : HeaderOK(a.mem[s])
    /\ \A l \in {"empty", "wip", "filled"} : a[l] \in [Index -> DOMAIN a.mem \cup {Null}]
    /\ live \subseteq [ptr : Nat, n : Count]
    /\ undefined \in BOOLEAN

LiveSpans == { Span(x.ptr, Bytes(x.n)) : x \in live }

\* The bytes the allocator itself writes: headers and free cells
OwnSpans ==
    UNION { {Span(s, HeaderSize)} \cup
            { Span(c, a.mem[s].cell_size) : c \in ToSet(a.mem[s].free_list) } : s \in DOMAIN a.mem }

Apart(u, v) == u = v \/ u \cap v = {}

\* No two users share a byte, and none shares one with a header or with the free
\* list the allocator keeps in free cells, across any sequence of allocate,
\* deallocate and clear; each live address is handed out once.
NoOverlap ==
    /\ \A u, v \in LiveSpans : Apart(u, v)
    /\ Cardinality(LiveSpans) = Cardinality(live)
    /\ \A u \in LiveSpans, v \in OwnSpans : u \cap v = {}
    /\ \A u, v \in OwnSpans : Apart(u, v)

\* A cell is aligned to its size, which get_reserved_area_size sees to for cells
\* larger than the header (singleton_slab_allocator.hpp:448-451).
Aligned ==
    \A x \in live : ~Large(Bytes(x.n)) => x.ptr % CellSize(Bytes(x.n)) = 0

\* What each list is for
SlabsOf(i, P(_)) == { s \in DOMAIN a.mem : a.mem[s].cell_size = MinCell * 2^i /\ P(a.mem[s]) }

IsSlabWip(h) == ~IsSlabEmpty(h) /\ ~IsSlabFilled(h)

\* The walk is the set of slabs and meets each once, and prev leads back
ListIs(head, S) ==
    LET w == Walk(head)
    IN  /\ ToSet(w) = S /\ Len(w) = Cardinality(S)
        /\ \A k \in DOMAIN w : a.mem[w[k]].prev = IF k = 1 THEN Null ELSE w[k - 1]

\* Every slab is in exactly the list its free cells call for, and that list can be
\* followed both ways: remove_from_slab_list takes slabs out of the middle, and
\* push_to_slab_list relies on what it left in prev.
ListsExact ==
    \A i \in Index :
        /\ ListIs(a.empty[i], SlabsOf(i, IsSlabEmpty))
        /\ ListIs(a.wip[i], SlabsOf(i, IsSlabWip))
        /\ ListIs(a.filled[i], SlabsOf(i, IsSlabFilled))

\* size reports the live cells of a class, although it only walks the wip and
\* filled slabs; allocated_slabs all slabs of the class.
SizesReported ==
    \A i \in Index :
        /\ Size(i) = Cardinality({ x \in live : ~Large(Bytes(x.n)) /\ CellSize(Bytes(x.n)) = MinCell * 2^i })
        /\ AllocatedSlabs(i) = Cardinality(SlabsOf(i, LAMBDA h : TRUE))

SlabsInUse == { SlabFromCell(x.ptr) : x \in { y \in live : ~Large(Bytes(y.n)) } }

\* clear returns all the empty slabs to the system and no other: after it a slab is
\* there if and only if a user has a cell in it; no other step returns one.
ClearReturnsEmpties ==
    [][/\ DOMAIN a.mem \subseteq DOMAIN a'.mem \/ DOMAIN a'.mem = SlabsInUse'
       /\ Clear => DOMAIN a'.mem = SlabsInUse']_vars

\* A pointer that comes back is taken for what it is: SlabFromCell leads to the header
\* of a slab that is there, also after clear (slab_allocator.hpp:60 names elements where
\* "n -- number of bytes", singleton_slab_allocator.hpp:35; so for elements of a byte)
NeverUndefined == ~undefined

\* What users rely on of the blocks they have: aligned, nobody else's, and found again
\* when they come back (singleton_slab_allocator.hpp:141-198)
BlocksSound == Aligned /\ NoOverlap /\ NeverUndefined
=============================================================================
