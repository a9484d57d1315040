------------------------------- MODULE Trampoline -------------------------------
(***************************************************************************)
(* asm/asm_inlines/trampoline: the slots of executable memory the          *)
(* trampolines of a program take from one free list, and the functors they *)
(* call.  What a slot holds is either the link of the free list or code,   *)
(* and the allocator reads the one as the other without a check.           *)
(***************************************************************************)
EXTENDS Naturals, Sequences, FiniteSets

CONSTANTS
    Slots,   \* PAGE_SIZE * NUM_PAGES / TRAMPOLINE_SIZE
    Handle,  \* the variables of type trampoline
    Functor  \* where a functor may be allocated

Slot     == 1..Slots
NullSlot == 0          \* also where the list ends
Wild     == Slots + 1  \* an address read from code
NoFunc   == "nullptr"

ASSUME TrampolineAssumption == Slots \in Nat \ {0} /\ NoFunc \notin Functor

VARIABLES
    head,       \* first slot of the free list
    slot,       \* content of each slot
    trampoline, \* page and func_obj of each trampoline that exists
    functors,   \* the functors alive
    status,     \* "running", "crashed" on a bad address, "deleted twice"
    aliased     \* history: a slot was freed while another trampoline had it

trampolineVars == <<head, slot, trampoline, functors, status, aliased>>

Link(s) == [kind |-> "link", next |-> s]
Code(f) == [kind |-> "code", func |-> f]
Absent  == [page |-> NullSlot, func |-> NoFunc]

\* allocator(): every slot links to the one after it
TrampolineInit ==
    /\ head = 1
    /\ slot = [s \in Slot |-> Link(IF s = Slots THEN NullSlot ELSE s + 1)]
    /\ trampoline = [t \in Handle |-> Absent]
    /\ functors = {}
    /\ status = "running"
    /\ aliased = FALSE

Alive(t) == trampoline[t] # Absent

Holders(s) == { t \in Handle : Alive(t) /\ trampoline[t].page = s }

-----------------------------------------------------------------------------
(* Operations                                                              *)

NextHead_Stays == head

\* allocator::malloc: what is in the first slot becomes the head
NextHead == IF slot[head].kind = "link" THEN slot[head].next ELSE Wild

Taken_AfterMove == NextHead

Taken == head

\* trampoline(F): a functor, then a slot, then code over what the slot held.  An empty
\* list is not looked for: its end is dereferenced.
Make(t) ==
    /\ ~Alive(t)
    /\ \/ /\ head \in Slot
          /\ \E f \in Functor \ functors :
                 /\ functors' = functors \cup {f}
                 /\ slot' = [slot EXCEPT ![Taken] = Code(f)]
                 /\ trampoline' = [trampoline EXCEPT ![t] = [page |-> Taken, func |-> f]]
          /\ head' = NextHead
          /\ UNCHANGED <<status, aliased>>
       \/ /\ head \notin Slot
          /\ status' = "crashed"
          /\ UNCHANGED <<head, slot, trampoline, functors, aliased>>

MoveFrom_KeepsFunctor(t, other) ==
    /\ ~Alive(t) /\ Alive(other)
    /\ trampoline' = [trampoline EXCEPT ![t] = trampoline[other]]
    /\ UNCHANGED <<head, slot, functors, status, aliased>>

\* trampoline(trampoline&&): other loses its functor and keeps its page
MoveFrom(t, other) ==
    /\ ~Alive(t) /\ Alive(other)
    /\ trampoline' = [trampoline EXCEPT ![t] = trampoline[other], ![other].func = NoFunc]
    /\ UNCHANGED <<head, slot, functors, status, aliased>>

Delete_LinksToItself(t) ==
    LET p == trampoline[t].page
    IN  /\ Alive(t)
        /\ UNCHANGED status
        /\ functors' = functors \ {trampoline[t].func}
        /\ slot' = [slot EXCEPT ![p] = Link(p)]
        /\ head' = p
        /\ trampoline' = [trampoline EXCEPT ![t] = Absent]
        /\ aliased' = (aliased \/ Holders(p) # {t})

\* ~trampoline and allocator::free: a link is written over the code
Delete(t) ==
    LET p == trampoline[t].page
        f == trampoline[t].func
    IN  /\ Alive(t)
        /\ status' = IF f = NoFunc \/ f \in functors THEN status ELSE "deleted twice"
        /\ functors' = functors \ {f}
        /\ slot' = [slot EXCEPT ![p] = Link(head)]
        /\ head' = p
        /\ trampoline' = [trampoline EXCEPT ![t] = Absent]
        /\ aliased' = (aliased \/ Holders(p) # {t})

TrampolineNext ==
    /\ status = "running"
    /\ \E t \in Handle :
           \/ Make(t)
           \/ \E other \in Handle : MoveFrom(t, other)
           \/ Delete(t)

TrampolineSpec == TrampolineInit /\ [][TrampolineNext]_trampolineVars

-----------------------------------------------------------------------------
(* Properties                                                              *)

\* The members have the types of trampoline.h and allocator.h
TrampolineTypeOK ==
    /\ head \in Slot \cup {NullSlot, Wild}
    /\ slot \in [Slot -> {Link(s) : s \in Slot \cup {NullSlot, Wild}}
                         \cup {Code(f) : f \in Functor}]
    /\ trampoline \in [Handle -> [page : Slot \cup {NullSlot}, func : Functor \cup {NoFunc}]]
    /\ \A t \in Handle : Alive(t) => trampoline[t].page \in Slot
    /\ functors \subseteq Functor
    /\ status \in {"running", "crashed", "deleted twice"}
    /\ aliased \in BOOLEAN

\* A functor lives as long as one trampoline has it and no longer, through any moves,
\* even after the slots have gone wrong (trampoline.h:147-161)
FunctorsExact ==
    /\ status # "deleted twice"
    /\ functors = { trampoline[t].func : t \in Handle } \ {NoFunc}
    /\ \A t, u \in Handle :
           trampoline[t].func = trampoline[u].func /\ trampoline[t].func # NoFunc => t = u

\* The n-th slot of the free list, NullSlot after its end
FreeAt[n \in 0..Slots] ==
    IF n = 0 THEN head
    ELSE LET s == FreeAt[n - 1]
         IN  IF s \in Slot /\ slot[s].kind = "link" THEN slot[s].next ELSE NullSlot

\* Until a slot is freed that another trampoline has, every slot is either free, once,
\* or had by a trampoline (allocator.cpp:4-17); so a program that makes no more
\* trampolines than there are slots never gets the end of the list
SlotsExact ==
    ~aliased =>
        LET had  == { s \in Slot : Holders(s) # {} }
            left == Slots - Cardinality(had)
        IN  /\ { FreeAt[n] : n \in 0..(left - 1) } = Slot \ had
            /\ FreeAt[left] = NullSlot
            /\ status = "crashed" => had = Slot

\* Until then too, what get() returns calls the trampoline's own functor, which is
\* alive (trampoline.h:71-76, 133-135), and no slot has two trampolines with functors
Callable ==
    ~aliased =>
        \A t \in Handle : trampoline[t].func # NoFunc =>
            /\ slot[trampoline[t].page] = Code(trampoline[t].func)
            /\ trampoline[t].func \in functors

\* Functors and slots have one owner each, through construction, moves and destruction
\* in any order (trampoline.h:68-161, allocator.cpp:4-17)
TrampolineSound == FunctorsExact /\ SlotsExact /\ Callable
=============================================================================
