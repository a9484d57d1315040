----------------------------- MODULE TrampolineCode -----------------------------
(***************************************************************************)
(* asm/asm_inlines/trampoline/trampoline.h: the code a trampoline writes   *)
(* into its slot, run on the registers and the stack of a call.  It has to *)
(* slip the address of the functor in front of the arguments.              *)
(*                                                                         *)
(* A signature is a sequence of BOOLEAN, TRUE for an argument of class     *)
(* INTEGER, FALSE for SSE, each of one word: args_types counts long double *)
(* and structures by value as one INTEGER, and no signature here has them. *)
(* An argument is the number of its place in the signature, the functor    *)
(* FuncObj, which is before all of them.                                   *)
(***************************************************************************)
EXTENDS Integers, Sequences, FiniteSets

CONSTANTS
    IntRegs, \* 6: rdi, rsi, rdx, rcx, r8, r9
    SseRegs  \* 8: xmm0 .. xmm7

ASSUME TrampolineCodeAssumption == IntRegs \in Nat \ {0} /\ SseRegs \in Nat

FuncObj       == 0
ReturnAddress == -1
Clobbered     == -2

\* The places of a class
OfClass(signature, class) == { n \in DOMAIN signature : signature[n] = class }

UpTo(S, n) == { i \in S : i <= n }

\* The members of a set of numbers in order
InOrder(S) == [k \in 1..Cardinality(S) |-> CHOOSE n \in S : Cardinality(UpTo(S, n)) = k]

\* Those there are registers for
First(S, registers) == { n \in S : Cardinality(UpTo(S, n)) <= registers }

\* The calling convention: each argument goes to the next register of its class, those
\* that are left to the stack, in order
Passed(ints, sses) ==
    [ints |-> InOrder(First(ints, IntRegs)), sses |-> InOrder(First(sses, SseRegs)),
     stack |-> InOrder((ints \ First(ints, IntRegs)) \cup (sses \ First(sses, SseRegs)))]

PassedToCode(signature)   == Passed(OfClass(signature, TRUE), OfClass(signature, FALSE))
PassedToDoCall(signature) == Passed({FuncObj} \cup OfClass(signature, TRUE), OfClass(signature, FALSE))

\* args_types
INTEGER(signature) == Cardinality(OfClass(signature, TRUE))
SSE(signature)     == Cardinality(OfClass(signature, FALSE))

InRegisters(signature) == INTEGER(signature) < IntRegs

StackSize_IntegersOnly(signature) == INTEGER(signature) - (IntRegs - 1)

\* In words of 8 bytes
StackSize(signature) ==
    INTEGER(signature) - (IntRegs - 1)
    + (IF SSE(signature) > SseRegs THEN SSE(signature) - SseRegs ELSE 0)

Prefix(s, n) == SubSeq(s, 1, IF n < Len(s) THEN n ELSE Len(s))

\* The moves between registers, then func_obj into the first
ShiftedInts(ints) == <<FuncObj>> \o Prefix(ints, IntRegs - 1)

Moved_KeepsReturn(last, memory, size) ==
    LET pushed == <<last>> \o memory
    IN  [i \in DOMAIN pushed |->
            IF i = 1 THEN last ELSE IF i <= size THEN pushed[i + 1] ELSE pushed[i]]

\* Memory from the word rsp points to, with what was the return address over the words
\* that have moved down: the last register is pushed, every word above the return
\* address comes down by one, and the return address takes the last of them
Moved(last, memory, size) ==
    LET pushed == <<last>> \o memory
    IN  [i \in DOMAIN pushed |->
            IF i = 1 THEN last
            ELSE IF i <= size THEN pushed[i + 1]
            ELSE IF i = size + 1 THEN ReturnAddress
            ELSE pushed[i]]

\* What do_call finds when it starts.  memory is the stack without the address it
\* returns to.
AtDoCall(signature) ==
    LET caller == PassedToCode(signature)
    IN  [ints |-> ShiftedInts(caller.ints), sses |-> caller.sses,
         memory |-> IF InRegisters(signature) THEN caller.stack
                    ELSE Moved(caller.ints[IntRegs], <<ReturnAddress>> \o caller.stack, StackSize(signature))]

\* After the call do_call may have written over its own arguments on the stack.  pop,
\* then the saved address is fetched from above them and returned to: the result is
\* where the program goes on, and the words left on its stack.
Restored(signature) ==
    LET size    == StackSize(signature)
        after   == [i \in DOMAIN AtDoCall(signature).memory |->
                        IF i <= size THEN Clobbered ELSE AtDoCall(signature).memory[i]]
        popped  == SubSeq(after, 2, Len(after))
    IN  [goes_to |-> popped[size], stack |-> Len(popped) - 1]

-----------------------------------------------------------------------------
(* What the code promises                                                  *)

\* Stack arguments of class SSE in front of the integer that is pushed
SseBeforePushed(signature) ==
    \E n \in OfClass(signature, TRUE) :
        /\ Cardinality(UpTo(OfClass(signature, TRUE), n)) = IntRegs
        /\ Cardinality(UpTo(OfClass(signature, FALSE), n)) > SseRegs

\* do_call(obj, args...) finds every argument, of one word each, where the calling
\* convention puts it, unless one that goes to the stack for want of xmm registers stands before the
\* integer that has to make room (trampoline.h:78-118)
ArgumentsInPlace(signature) ==
    ~SseBeforePushed(signature) =>
        LET callee == PassedToDoCall(signature)
            found  == AtDoCall(signature)
        IN  /\ found.ints = callee.ints
            /\ found.sses = callee.sses
            /\ Prefix(found.memory, Len(callee.stack)) = callee.stack

\* The caller is returned to, with the stack it had, for every signature
\* (trampoline.h:89-90, 114-124)
ReturnsToCaller(signature) ==
    ~InRegisters(signature) =>
        Restored(signature) = [goes_to |-> ReturnAddress, stack |-> Len(PassedToCode(signature).stack)]
=============================================================================
