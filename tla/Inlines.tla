-------------------------------- MODULE Inlines --------------------------------
(***************************************************************************)
(* asm/asm_inlines between the C++ around it, on any input: a string that  *)
(* grows is read as text, as bytes to copy and as the classes of the       *)
(* arguments of a function.                                                *)
(***************************************************************************)
EXTENDS VectorLoops, TrampolineCode

VARIABLE input \* a sequence of BOOLEAN

InputInit == input = <<>>
InputNext == \E b \in BOOLEAN : input' = Append(input, b)
InputSpec == InputInit /\ [][InputNext]_input

\* The vector loops on the string at any address
\* (word_counter.cpp:34-156, memcpy.cpp:21-52)
VectorLoopsExact == CountsAgree(input) /\ CopiesEachByteOnce(Len(input))

\* The code of a trampoline for the signature the string is, of one-word arguments of the
\* classes INTEGER and SSE: it returns to the caller, and passes each argument on if none of
\* class SSE is on the stack before the integer that is pushed (trampoline.h:68-130)
TrampolineCodeExact == ArgumentsInPlace(input) /\ ReturnsToCaller(input)

\* Vector loops do what the plain ones do, and the code of a trampoline what its caller and
\* do_call expect of it for the signatures TrampolineCodeExact is about
\* (word_counter.cpp, memcpy.cpp, trampoline.h:68-130)
InlinesExact == VectorLoopsExact /\ TrampolineCodeExact
=============================================================================
