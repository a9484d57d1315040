------------------------------ MODULE MCAlgorithms ------------------------------
(***************************************************************************)
(* The algorithms of the repository on bounded inputs, for TLC.  Either a  *)
(* program computes with big_integers, whose values and digits are the     *)
(* inputs of the other arithmetic; or a string grows, which is read as     *)
(* text, as bytes to copy, as letters to parse and as the classes of the   *)
(* arguments of a function.                                                *)
(***************************************************************************)
EXTENDS Arithmetic, Inlines, ParserCombinators

CONSTANTS
    MaxString,  \* bound on the strings
    MaxParsed   \* bound on those that are parsed

Init == BigInit /\ InputInit

Next ==
    \/ input = <<>> /\ BigNext /\ UNCHANGED input
    \/ /\ big = [v \in Variable |-> BigInteger(0, <<0>>)]
       /\ Len(input) < MaxString
       /\ InputNext
       /\ UNCHANGED big

Symmetry == Permutations(Variable)

-----------------------------------------------------------------------------

\* Every combinator over every other, two deep, and alternatives among three, where the
\* types allow it
Letters == [i \in DOMAIN input |-> IF input[i] THEN "a" ELSE "b"]

Simple   == {ch("a"), ch("b"), str(<<>>), str(<<"a", "b">>), str(<<"a", "a">>)}
Over(S)  == UNION { {opt(p), many(p), rule(p)} : p \in S }
Eithers(S, T) == { alt(<<p, q>>) : p \in S, q \in T }
Compound == Simple \cup Over(Simple) \cup Eithers(Simple, Simple)
Optionals == {ch("a"), ch("b"), opt(ch("a")), opt(ch("b"))}
Parsers ==
    { p \in UNION { Compound, Over(Compound), Eithers(Over(Simple), Simple \cup Over(Simple)),
                    Over(Eithers({opt(ch("a"))}, {ch("b")})),
                    { alt(<<p, q, r>>) : p, q, r \in Optionals } } : Compiles(p) }

\* A parser takes what it returns, or fails and takes nothing; alt takes what its first
\* parser that gives it a value takes; many takes all it can and stops
\* (parser_combinators.hpp:50-182)
CombinatorsExact ==
    Len(input) <= MaxParsed =>
        \A p \in Parsers :
            SplitsInput(p, Letters) /\ AltTakesFirst(p, Letters) /\ ManyIsGreedy(p, Letters)
=============================================================================
