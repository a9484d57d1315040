--------------------------- MODULE ParserCombinators ---------------------------
(***************************************************************************)
(* cpp/parser_combinators: parsers built from ch, str, opt, many, rule and *)
(* alt.  parse returns a value, if it succeeds, and the part of the string *)
(* that remains.                                                           *)
(***************************************************************************)
EXTENDS Integers, Sequences, SequencesExt

ch(c)        == [kind |-> "ch", char |-> c]
str(s)       == [kind |-> "str", value |-> s]
opt(p)       == [kind |-> "opt", parser |-> p]
many(p)      == [kind |-> "many", parser |-> p]
rule(p)      == [kind |-> "rule", parser |-> p]
alt(parsers) == [kind |-> "alt", parsers |-> parsers]

Success(value, remaining) == [ok |-> TRUE, value |-> value, remaining |-> remaining]
Failure(remaining)        == [ok |-> FALSE, value |-> <<>>, remaining |-> remaining]

\* parsed_type, from the outermost template inwards
Optional(type) == <<"optional">> \o type

RECURSIVE ParsedType(_)
ParsedType(p) ==
    CASE p.kind = "ch"   -> <<"char">>
      [] p.kind = "str"  -> <<"string">>
      [] p.kind = "opt"  -> Optional(ParsedType(p.parser))
      [] p.kind = "many" -> <<"vector">> \o ParsedType(p.parser)
      [] p.kind = "rule" -> <<"trans">> \o ParsedType(p.parser)
      [] p.kind = "alt"  -> ParsedType(Last(p.parsers))

\* A value is the sequence of the leaves it has, with the brackets of the types: that
\* of an empty optional is <<>>, trans wraps the value it gets
Some(value)  == <<"some">> \o value
Trans(value) == <<"trans">> \o value

Substr(s, from) == SubSeq(s, from + 1, Len(s))

ParseCh(c, s) ==
    IF s = <<>> \/ s[1] # c THEN Failure(s) ELSE Success(<<c>>, Substr(s, 1))

ParseStr_ComparesCommonPart(value, s) ==
    IF \E i \in DOMAIN value \cap DOMAIN s : s[i] # value[i] THEN Failure(s)
    ELSE Success(value, Substr(s, Len(value)))

ParseStr(value, s) ==
    IF Len(s) < Len(value) \/ SubSeq(s, 1, Len(value)) # value THEN Failure(s)
    ELSE Success(value, Substr(s, Len(value)))

ParseOpt(r) == Success(IF r.ok THEN Some(r.value) ELSE <<>>, r.remaining)

ParseRule(r) == IF r.ok THEN Success(Trans(r.value), r.remaining) ELSE Failure(r.remaining)

GoesOn_Never(r, s) == FALSE

\* many goes on while the string gets shorter
GoesOn(r, s) == r.ok /\ Len(r.remaining) # Len(s)

Converted_Kept(r, from, to) == r

\* The value of a parser of type from in an alt of type to: result<to> takes an
\* optional<to>, so that an optional of the type of the last parser is taken for it, and
\* an empty one makes a result that has no value
Converted(r, from, to) ==
    IF from = Optional(to) THEN IF r.value = <<>> THEN Failure(r.remaining)
                                ELSE Success(Tail(r.value), r.remaining)
    ELSE IF to = Optional(from) THEN Success(Some(r.value), r.remaining)
    ELSE r

RECURSIVE Parse(_, _), ParseMany(_, _, _), ParseAlt(_, _)

ParseMany(p, s, values) ==
    LET r == Parse(p, s)
    IN  IF GoesOn(r, s) THEN ParseMany(p, r.remaining, values \o r.value)
        ELSE Success(values, r.remaining)

\* alt<Parser, Parsers...>: the last one's failure is that of all
ParseAlt(parsers, s) ==
    LET r    == Parse(Head(parsers), s)
        type == ParsedType(Head(parsers))
    IN  IF Len(parsers) = 1 THEN r
        ELSE IF r.ok THEN Converted(r, type, ParsedType(Last(parsers)))
        ELSE ParseAlt(Tail(parsers), s)

Parse(p, s) ==
    CASE p.kind = "ch"   -> ParseCh(p.char, s)
      [] p.kind = "str"  -> ParseStr(p.value, s)
      [] p.kind = "opt"  -> ParseOpt(Parse(p.parser, s))
      [] p.kind = "many" -> ParseMany(p.parser, s, <<>>)
      [] p.kind = "rule" -> ParseRule(Parse(p.parser, s))
      [] p.kind = "alt"  -> ParseAlt(p.parsers, s)

-----------------------------------------------------------------------------
(* What the combinators promise                                            *)

Text(value) == SelectSeq(value, LAMBDA x : x \notin {"some", "trans"})

\* The alternatives have types that convert to that of the last
RECURSIVE Compiles(_)
Compiles(p) ==
    CASE p.kind \in {"ch", "str"}          -> TRUE
      [] p.kind \in {"opt", "many", "rule"} -> Compiles(p.parser)
      [] p.kind = "alt" ->
            \A i \in DOMAIN p.parsers :
                LET from == ParsedType(p.parsers[i])
                    to   == ParsedType(p)
                IN  /\ Compiles(p.parsers[i])
                    /\ from = to \/ from = Optional(to) \/ to = Optional(from)

\* The alternatives whose empty value makes their alt fail
Emptied(p, i) == ParsedType(p.parsers[i]) = Optional(ParsedType(p))

\* Parsers that succeed on every string
RECURSIVE Total(_)
Total(p) ==
    CASE p.kind = "ch"              -> FALSE
      [] p.kind = "str"             -> p.value = <<>>
      [] p.kind \in {"opt", "many"} -> TRUE
      [] p.kind = "rule"            -> Total(p.parser)
      [] p.kind = "alt"             -> \E i \in DOMAIN p.parsers :
                                           /\ Total(p.parsers[i])
                                           /\ \A j \in 1..i : ~Emptied(p, j)

\* A parser that fails takes nothing, so that alt and opt need not put it back; one
\* that succeeds takes what it returns, from the front (parser_combinators.hpp:50-182)
SplitsInput(p, s) ==
    LET r == Parse(p, s)
    IN  /\ ~r.ok => r.remaining = s /\ ~Total(p)
        /\ r.ok => Text(r.value) \o r.remaining = s

\* many stops where its parser fails or takes nothing, and nowhere before; it takes no
\* more than the string has and never runs for ever (parser_combinators.hpp:104-117)
ManyIsGreedy(p, s) ==
    LET rest  == Parse(many(p), s).remaining
        again == Parse(p, rest)
    IN  again.ok => again.remaining = rest

\* alt takes what its first parser that succeeds takes.  It fails if none does, or if
\* that one returns an empty optional of the type of the last: such an alternative
\* succeeds on its own, yet in alt neither it nor any after it counts
\* (parser_combinators.hpp:151-178)
AltTakesFirst(p, s) ==
    p.kind = "alt" =>
        LET r     == Parse(p, s)
            good  == { i \in DOMAIN p.parsers : Parse(p.parsers[i], s).ok }
            first == Min(good)
            taken == Parse(p.parsers[first], s)
        IN  IF good = {} \/ (Emptied(p, first) /\ taken.value = <<>>)
            THEN ~r.ok
            ELSE r.ok /\ r.remaining = taken.remaining
=============================================================================
