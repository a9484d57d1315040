-------------------------------- MODULE Either --------------------------------
(***************************************************************************)
(* cpp/either: storage for a Left or a Right, in place or, after an        *)
(* emplacement that failed, by a pointer to a copy on the heap.            *)
(*                                                                         *)
(* The storage is modelled by what is really in it, next to which, the tag *)
(* by which the code reads it.  live counts the objects of either type, as *)
(* obj_count does in main.cpp.                                             *)
(***************************************************************************)
EXTENDS Integers, FiniteSets

CONSTANTS
    Cell,        \* the variables of type either
    Object,      \* the values of either type
    MaxSwapThrows \* bound on the swaps that fail

Side == {"LEFT", "RIGHT"}
Tag  == {"LEFT", "RIGHT", "LEFT_PTR", "RIGHT_PTR"}

ASSUME EitherAssumption ==
    /\ IsFiniteSet(Cell)
    /\ MaxSwapThrows \in Nat

VARIABLES
    cell,      \* which and data of each variable that exists
    live,      \* objects constructed and not destroyed, per type
    outcome,   \* of the last operation: "done", "threw", or "undefined", or
               \* "moved" when it was the move constructor, which is always undefined
    swapThrows, \* how many swaps failed
    crossed    \* history: the variables whose tag a failed operation left on the side of
               \* the value that was to come, while they have the old one of the other side

eitherVars == <<cell, live, outcome, swapThrows, crossed>>

Inline(side, x) == [kind |-> "inline", side |-> side, object |-> x]
Heap(side, x)   == [kind |-> "heap", side |-> side, object |-> x]
None            == [which |-> "none"]

EitherInit ==
    /\ cell = [c \in Cell |-> None]
    /\ live = [s \in Side |-> 0]
    /\ outcome = "done"
    /\ swapThrows = 0
    /\ crossed = {}

-----------------------------------------------------------------------------
(* Reading the storage                                                     *)

Exists(c) == cell[c] # None

SideOf(which) == IF which \in {"LEFT", "LEFT_PTR"} THEN "LEFT" ELSE "RIGHT"
ToPtr(which)  == IF SideOf(which) = "LEFT" THEN "LEFT_PTR" ELSE "RIGHT_PTR"
Other(side)   == IF side = "LEFT" THEN "RIGHT" ELSE "LEFT"

IsLeft(c) == SideOf(cell[c].which) = "LEFT"

\* which says what is in the storage
Described(e) ==
    /\ SideOf(e.which) = e.data.side
    /\ e.data.kind = IF e.which \in Side THEN "inline" ELSE "heap"

\* left() and right() assert that which names their side
Readable(c, side) == SideOf(cell[c].which) = side /\ Described(cell[c])

\* call_current_destructor is defined if which is right, and not for LEFT_PTR, whose
\* case goes on into the one of RIGHT_PTR: the storage is destroyed a second time
Destroyable(c) == Described(cell[c]) /\ cell[c].which # "LEFT_PTR"

Counted(s, n) == [live EXCEPT ![s] = @ + n]

\* Nothing is known after an operation that is undefined
UndefinedBy(how) == outcome' = how /\ UNCHANGED <<cell, live, swapThrows, crossed>>
Undefined == UndefinedBy("undefined")

\* A constructor throws before anything has changed, or when all is as it was
ThrowsEarly == outcome' = "threw" /\ UNCHANGED <<cell, live, swapThrows, crossed>>

\* A failed operation left the tag of c on side, the value in it is still the old one
Crossing(c, side) == IF cell[c].data.side # side THEN {c} ELSE {}

-----------------------------------------------------------------------------
(* Operations                                                              *)

\* either(Left), either(Right) and their emplacing forms
Construct(c, side, x) ==
    /\ ~Exists(c)
    /\ cell' = [cell EXCEPT ![c] = [which |-> side, data |-> Inline(side, x)]]
    /\ live' = Counted(side, 1)
    /\ outcome' = "done" /\ UNCHANGED <<swapThrows, crossed>>

\* either(either const&): a value on the heap is copied into the storage
Copy(c, d) ==
    /\ ~Exists(c) /\ Exists(d)
    /\ LET side == SideOf(cell[d].which)
       IN  \/ Readable(d, side) /\ Construct(c, side, cell[d].data.object)
           \/ Readable(d, side) /\ ThrowsEarly
           \/ ~Readable(d, side) /\ Undefined

\* either(either&&): emplaces, so reads and destroys a value that is not there yet
Move(c, d) == ~Exists(c) /\ Exists(d) /\ UndefinedBy("moved")

Destroy(c) ==
    /\ Exists(c)
    /\ \/ /\ Destroyable(c)
          /\ cell' = [cell EXCEPT ![c] = None]
          /\ live' = Counted(cell[c].data.side, -1)
          /\ outcome' = "done" /\ UNCHANGED <<swapThrows, crossed>>
       \/ ~Destroyable(c) /\ Undefined

Emplaced_DestroysTwice(c, side, x) ==
    /\ cell' = [cell EXCEPT ![c] = [which |-> side, data |-> Inline(side, x)]]
    /\ live' = [Counted(cell[c].data.side, -2) EXCEPT ![side] = @ + 1]
    /\ outcome' = "done" /\ UNCHANGED crossed

Emplaced_ReleasesCopy(c, side, x) ==
    /\ cell' = [cell EXCEPT ![c] = [which |-> side, data |-> Inline(side, x)]]
    /\ live' = Counted(side, 1)
    /\ outcome' = "done" /\ UNCHANGED crossed

\* The new value is there, the copy of the old one on the heap is gone
Emplaced(c, side, x) ==
    /\ cell' = [cell EXCEPT ![c] = [which |-> side, data |-> Inline(side, x)]]
    /\ live' = [Counted(cell[c].data.side, -1) EXCEPT ![side] = @ + 1]
    /\ outcome' = "done" /\ UNCHANGED crossed

EmplaceFailed_Untagged(c, side) ==
    /\ cell' = [cell EXCEPT ![c].data = Heap(cell[c].data.side, cell[c].data.object)]
    /\ crossed' = crossed \cup Crossing(c, side)
    /\ outcome' = "threw" /\ UNCHANGED live

\* Any constructor may throw.  The tag is that of the new type, the pointer is to the
\* copy of the old value
EmplaceFailed(c, side) ==
    /\ cell' = [cell EXCEPT ![c] = [which |-> ToPtr(side),
                                    data  |-> Heap(cell[c].data.side, cell[c].data.object)]]
    /\ crossed' = crossed \cup Crossing(c, side)
    /\ outcome' = "threw" /\ UNCHANGED live

\* emplace and emplace_template.  The old value is read by left() if which is LEFT
\* and else by right(), and copied twice before the storage is touched.
Emplace(c, side, x) ==
    LET old == IF cell[c].which = "LEFT" THEN "LEFT" ELSE "RIGHT"
    IN  /\ Exists(c)
        /\ \/ ~Readable(c, old) /\ Undefined
           \/ Readable(c, old) /\ ThrowsEarly
           \/ /\ Readable(c, old) /\ UNCHANGED swapThrows
              /\ Emplaced(c, side, x) \/ EmplaceFailed(c, side)

\* operator=(either other): other is a copy of d that lives until the end
AssignEither(c, d) ==
    LET side == SideOf(cell[d].which)
    IN  /\ Exists(c) /\ Exists(d)
        /\ \/ ~Readable(d, side) /\ Undefined
           \/ Readable(d, side) /\ Emplace(c, side, cell[d].data.object)

-----------------------------------------------------------------------------
(* Swap                                                                    *)

Swapped(c, d) ==
    /\ cell' = [cell EXCEPT
           ![c] = [which |-> cell[d].data.side, data |-> Inline(cell[d].data.side, cell[d].data.object)],
           ![d] = [which |-> cell[c].data.side, data |-> Inline(cell[c].data.side, cell[c].data.object)]]
    /\ outcome' = "done" /\ UNCHANGED <<live, swapThrows, crossed>>

SwapFailed_Exchanged(c, d, first) ==
    LET l == cell[c].data
        r == cell[d].data
    IN  /\ swapThrows < MaxSwapThrows /\ (first \/ Destroyable(d))
        /\ cell' = [cell EXCEPT
               ![c] = [which |-> ToPtr(cell[c].which), data |-> Heap(r.side, r.object)],
               ![d] = [which |-> ToPtr(cell[d].which), data |-> Heap(l.side, l.object)]]
        /\ live' = Counted(r.side, 1)
        /\ swapThrows' = swapThrows + 1
        /\ crossed' = crossed \cup (IF first THEN {} ELSE Crossing(c, r.side))
        /\ outcome' = "threw"

\* The constructor in c throws (first) or the one in d, with c already replaced: both
\* storages are overwritten by pointers to the copies, and the value that was alive in
\* one of them is lost
SwapFailed(c, d, first) ==
    LET l == cell[c].data
        r == cell[d].data
    IN  /\ swapThrows < MaxSwapThrows /\ (first \/ Destroyable(d))
        /\ cell' = [cell EXCEPT
               ![c] = [which |-> ToPtr(IF first THEN cell[c].which ELSE r.side), data |-> Heap(l.side, l.object)],
               ![d] = [which |-> ToPtr(cell[d].which), data |-> Heap(r.side, r.object)]]
        /\ live' = Counted(r.side, 1)
        /\ swapThrows' = swapThrows + 1
        /\ crossed' = crossed \cup (IF first THEN {} ELSE Crossing(c, r.side))
        /\ outcome' = "threw"

\* swap copies both values to the heap before it calls swap_impl
Swap(c, d) ==
    /\ c # d /\ Exists(c) /\ Exists(d)
    /\ LET readable == \A e \in {c, d} : Readable(e, SideOf(cell[e].which))
           defined  == Destroyable(c) /\ Destroyable(d)
       IN  \/ readable /\ ThrowsEarly
           \/ readable /\ defined /\ Swapped(c, d)
           \/ readable /\ Destroyable(c) /\ \E first \in BOOLEAN : SwapFailed(c, d, first)
           \/ ~(readable /\ defined) /\ Undefined

Known == outcome \in {"done", "threw"}

EitherNext ==
    /\ Known
    /\ \E c \in Cell :
           \/ \E s \in Side, x \in Object : Construct(c, s, x) \/ Emplace(c, s, x)
           \/ \E d \in Cell : Copy(c, d) \/ Move(c, d) \/ AssignEither(c, d) \/ Swap(c, d)
           \/ Destroy(c)

EitherSpec == EitherInit /\ [][EitherNext]_eitherVars

-----------------------------------------------------------------------------
(* Properties                                                              *)

Contents(c) == [side |-> cell[c].data.side, object |-> cell[c].data.object]

\* The members have the types of either.h
EitherTypeOK ==
    /\ \A c \in Cell : Exists(c) =>
           /\ cell[c].which \in Tag
           /\ cell[c].data \in {Inline(s, x) : s \in Side, x \in Object}
                               \cup {Heap(s, x) : s \in Side, x \in Object}
    /\ live \in [Side -> Nat]
    /\ outcome \in {"done", "threw", "undefined", "moved"}
    /\ swapThrows \in 0..MaxSwapThrows
    /\ crossed \subseteq Cell

\* "inv stores one from two always" (either.h:34): which describes what is in the
\* storage, so that left() and right() read a value of their type, except in a variable
\* in which a constructor of the other side failed (either.h:264-270, 349-360), where it
\* never does again
TagDescribesStorage ==
    Known => \A c \in Cell : Exists(c) => (Described(cell[c]) <=> c \notin crossed)

Holding(s) == Cardinality({ c \in Cell : Exists(c) /\ cell[c].data.side = s })

\* Every object is destroyed once, those moved to the heap and back too: nothing that a
\* variable holds is gone, and what is alive besides is one object for each swap that
\* failed (main.cpp:155-156, either.h:359-360)
NoObjectLost ==
    Known =>
        /\ \A s \in Side : live[s] >= Holding(s)
        /\ live["LEFT"] + live["RIGHT"] = Holding("LEFT") + Holding("RIGHT") + swapThrows

\* An operation that throws leaves every variable it changed with the value it had, read
\* by the same tests unless a constructor of the other side failed in it: what is left of
\* the guarantee of either.h:56-65
ValuesKept ==
    [][outcome' = "threw" =>
           \A c \in Cell : cell'[c] # cell[c] =>
               /\ Exists(c) /\ cell'[c] # None
               /\ Described(cell'[c]) <=> c \notin crossed'
               /\ Contents(c)' = Contents(c)]_eitherVars

\* "emplace functions satisfy strong exception safety guarantee! (on some conditions)"
\* (either.h:56), and swap uses the same technique (either.h:65): an operation that
\* throws leaves every variable with the value it had, readable by the same tests.  The
\* conditions written there are on destructors and on moving a pointer, which never fail
\* here
StrongGuarantee ==
    [][outcome' = "threw" =>
           \A c \in Cell : cell'[c] # cell[c] =>
               /\ Exists(c) /\ cell'[c] # None
               /\ Described(cell'[c])
               /\ Contents(c)' = Contents(c)]_eitherVars

\* Apart from the move constructor only a value kept on the left by pointer, which
\* cannot be destroyed (either.h:242), or a tag on the wrong side makes an operation
\* undefined: in a program without them no assertion of left() or right() fails and no
\* storage is destroyed as what it is not
UndefinedHasCause ==
    outcome = "undefined" =>
        \E c \in Cell : Exists(c) /\ (cell[c].which = "LEFT_PTR" \/ c \in crossed)

\* What a program over eithers relies on (either.h:34-65)
EitherSound == TagDescribesStorage /\ NoObjectLost /\ UndefinedHasCause
=============================================================================
