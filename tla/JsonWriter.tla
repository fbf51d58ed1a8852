------------------------------ MODULE JsonWriter ------------------------------
(***************************************************************************)
(* The writers of the JSON library (json/json_writer.cpp): FastWriter,     *)
(* StyledWriter and StyledStreamWriter.                                    *)
(*                                                                         *)
(* A document is a sequence of lexemes.  Blanks and line ends are lexemes  *)
(* too, because the styled writers look back at them and because a line    *)
(* comment ends at one.  A comment between "/" and "*" is one lexeme that  *)
(* says whether it has several lines; a line comment is the lexeme "//"    *)
(* followed by others.                                                     *)
(***************************************************************************)
EXTENDS JsonValue

CONSTANTS
    rightMargin,      \* longest line of an array: 74 in the code
    precision         \* significant digits of a real: 16 in the code

ASSUME PrecisionAssumption == precision \in Nat \ {0}

P(c) == <<"p", c>>                       \* punctuation
Lit(word) == <<"lit", word>>             \* true, false, null
Num(neg, int, frac) == <<"num", neg, int, frac>>   \* digits before and after the point
NoPoint == <<-1>>                        \* after the point, when there is none
Str(raw) == <<"str", raw>>               \* the characters between the quotes
Blank == <<"sp">>
LineEnd == <<"nl">>
Return == <<"cr">>                       \* a line end that contains a \r
Junk == <<"junk">>                       \* any other text
LineComment == <<"//">>
BlockComment(lines) == <<"/*", lines>>

Writers == {"fast", "yaml", "styled", "stream"}

-------------------------------------------------------------------------------
(* valueToString and valueToQuotedString.                                  *)

\* uintToString.
RECURSIVE Digits(_)
Digits(n) == IF n < 10 THEN <<n>> ELSE Append(Digits(n \div 10), n % 10)

Abs(n) == IF n < 0 THEN -n ELSE n

\* A negative Int is printed as a UInt behind a sign: -minInt does not fit an
\* Int but its representation, read as a UInt, is the right number.
IntText(n) == Num(n < 0, Digits(Abs(n)), NoPoint)

\* The unit of the last digit that is kept of a number of hundredths.
Unit(h) ==
    LET n == Len(Digits(Abs(h))) IN IF n > precision THEN 10^(n - precision) ELSE 1

\* "%#.16g" rounds to the precision and prints all its digits; trailing
\* zeroes go, but for one.  An infinity is printed as "inf" and "-inf", which
\* the reader takes for a sign and other text.  Reals are below 10^precision,
\* so that there is no exponent.
RealText(h) ==
    LET unit == Unit(h)
        abs == ((Abs(h) + unit \div 2) \div unit) * unit
        places == 2 + precision - Len(Digits(abs))
        d1 == (abs \div 10) % 10
        d2 == abs % 10
        frac == CASE places = 0 -> <<>>
                  [] places = 1 -> <<d1>>
                  [] places = 2 /\ d2 # 0 -> <<d1, d2>>
                  [] places > 2 /\ d2 # 0 -> <<d1, d2, 0>>
                  [] places > 1 /\ d2 = 0 /\ d1 # 0 -> <<d1, 0>>
                  [] OTHER -> <<0>>
    IN CASE h = Infinity -> <<Junk>>
         [] h = -Infinity -> <<Num(TRUE, <<>>, NoPoint), Junk>>
         [] OTHER -> <<Num(h < 0, Digits(abs \div 100), frac)>>

isControlCharacter(c) == c \in 1..31

\* The letters of the escapes \b \t \n \f \r, and of the quote and backslash.
Escapes == (8 :> 98) @@ (9 :> 116) @@ (10 :> 110) @@ (12 :> 102) @@ (13 :> 114)
           @@ (34 :> 34) @@ (92 :> 92)

HexDigit(d) == IF d < 10 THEN 48 + d ELSE 55 + d

\* Fault: the backslash is not one of the characters that are escaped.
QuotedNoBackslash(s) ==
    FlattenSeq([i \in DOMAIN s |->
        IF s[i] \in DOMAIN Escapes \ {92} THEN <<92, Escapes[s[i]]>>
        ELSE IF isControlCharacter(s[i])
             THEN <<92, 117, 48, 48, HexDigit(s[i] \div 16), HexDigit(s[i] % 16)>>
             ELSE <<s[i]>>])

\* What valueToQuotedString puts between the quotes.
Quoted(s) ==
    FlattenSeq([i \in DOMAIN s |->
        IF s[i] \in DOMAIN Escapes THEN <<92, Escapes[s[i]]>>
        ELSE IF isControlCharacter(s[i])
             THEN <<92, 117, 48, 48, HexDigit(s[i] \div 16), HexDigit(s[i] % 16)>>
             ELSE <<s[i]>>])

\* A value without entries; what the styled writers push.
Atom(v) ==
    CASE Type(v) = "null" -> <<Lit("null")>>
      [] Type(v) \in {"int", "uint"} -> <<IntText(Data(v))>>
      [] Type(v) = "real" -> RealText(Data(v))
      [] Type(v) = "string" -> <<Str(Quoted(Data(v)))>>
      [] Type(v) = "bool" -> <<Lit(IF Data(v) THEN "true" ELSE "false")>>
      [] Type(v) = "array" -> <<P("["), P("]")>>
      [] OTHER -> <<P("{"), P("}")>>

\* The number of characters of a lexeme that is part of an atom.
Length(x) ==
    CASE x[1] = "p" -> 1
      [] x[1] = "str" -> Len(x[2]) + 2
      [] x[1] = "lit" -> IF x[2] = "false" THEN 5 ELSE 4
      [] x[1] = "junk" -> 3
      [] OTHER -> Bit(x[2]) + Len(x[3]) + (IF x[4] = NoPoint THEN 0 ELSE 1 + Len(x[4]))

TextLength(text) == FoldLeft(LAMBDA n, x : n + Length(x), 0, text)

\* The values that a writer goes through: every index, holes included, or
\* the members in the order of their names.
Places(v) == IF Type(v) = "array" THEN [i \in 1..size(v) |-> i - 1] ELSE getMemberNames(v)

-------------------------------------------------------------------------------
(* FastWriter: no comments, no line ends but the last.                     *)

RECURSIVE FastValue(_, _)
FastValue(v, yaml) ==
    IF ~IsMap(v) THEN Atom(v)
    ELSE LET Item(i) ==
                (IF i > 1 THEN <<P(",")>> ELSE <<>>)
                \o (IF Type(v) = "array" THEN <<>>
                    ELSE <<Str(Quoted(Places(v)[i])), P(":")>>
                         \o (IF yaml THEN <<Blank>> ELSE <<>>))
                \o FastValue(At(v, Places(v)[i]), yaml)
             open == IF Type(v) = "array" THEN "[" ELSE "{"
             close == IF Type(v) = "array" THEN "]" ELSE "}"
         IN <<P(open)>> \o FlattenSeq([i \in 1..Len(Places(v)) |-> Item(i)]) \o <<P(close)>>

-------------------------------------------------------------------------------
(* StyledWriter and StyledStreamWriter.  d is the document so far, n the   *)
(* number of levels in indentString_.                                      *)

\* Mac and DOS line ends become Unix ones.
normalizeEOL(text) == [i \in DOMAIN text |-> IF text[i] = Return THEN LineEnd ELSE text[i]]

indentString(n) == IF n > 0 THEN <<Blank>> ELSE <<>>

\* StyledStreamWriter cannot look back at what it wrote.
StreamIndent(d, n) == d \o <<LineEnd>> \o indentString(n)

\* StyledWriter looks at the last character.
writeIndent(w, d, n) ==
    CASE w = "stream" -> StreamIndent(d, n)
      [] d = <<>> -> indentString(n)
      [] Last(d) = Blank -> d
      [] Last(d) = LineEnd -> d \o indentString(n)
      [] OTHER -> d \o <<LineEnd>> \o indentString(n)

writeCommentBeforeValue(d, v) ==
    IF hasComment(v, "before")
    THEN d \o normalizeEOL(Comments(v)["before"]) \o <<LineEnd>>
    ELSE d

writeCommentAfterValueOnSameLine(d, v) ==
    d \o (IF hasComment(v, "sameLine")
          THEN <<Blank>> \o normalizeEOL(Comments(v)["sameLine"]) ELSE <<>>)
      \o (IF hasComment(v, "after")
          THEN <<LineEnd>> \o normalizeEOL(Comments(v)["after"]) \o <<LineEnd>> ELSE <<>>)

\* An array goes on several lines when it is long, or has a child with
\* entries; hasCommentForValue is computed and has no effect ("&&").
isMultineArray(v) ==
    LET texts == [i \in 1..size(v) |-> Atom(At(v, i - 1))] IN
    \/ size(v) * 3 >= rightMargin
    \/ \E i \in 1..size(v) : size(At(v, i - 1)) > 0
    \/ 4 + (size(v) - 1) * 2 + TextLength(FlattenSeq(texts)) >= rightMargin

RECURSIVE StyledValue(_, _, _, _), StyledItems(_, _, _, _, _)
StyledValue(w, v, d, n) ==
    CASE ~IsMap(v) \/ Places(v) = <<>> -> d \o Atom(v)
      [] Type(v) = "array" /\ ~isMultineArray(v) ->
            d \o <<P("["), Blank>>
              \o FlattenSeq([i \in 1..size(v) |->
                    (IF i > 1 THEN <<P(","), Blank>> ELSE <<>>) \o Atom(At(v, i - 1))])
              \o <<Blank, P("]")>>
      [] OTHER ->
            LET open == IF Type(v) = "array" THEN "[" ELSE "{"
                close == IF Type(v) = "array" THEN "]" ELSE "}"
                body == StyledItems(w, v, 1, Append(writeIndent(w, d, n), P(open)), n + 1)
            IN Append(writeIndent(w, body, n), P(close))

\* The entries from the i-th on, one on each line.
StyledItems(w, v, i, d, n) ==
    LET child == At(v, Places(v)[i])
        start == writeIndent(w, writeCommentBeforeValue(d, child), n)
        named == IF Type(v) = "array" THEN start
                 ELSE start \o <<Str(Quoted(Places(v)[i])), Blank, P(":"), Blank>>
        written == StyledValue(w, child, named, n)
    IN IF i = Len(Places(v))
       THEN writeCommentAfterValueOnSameLine(written, child)
       ELSE StyledItems(w, v, i + 1,
                writeCommentAfterValueOnSameLine(Append(written, P(",")), child), n)

\* What writer w makes of a value.
write(w, v) ==
    IF w \in {"fast", "yaml"} THEN Append(FastValue(v, w = "yaml"), LineEnd)
    ELSE Append(writeCommentAfterValueOnSameLine(
                    StyledValue(w, v, writeCommentBeforeValue(<<>>, v), 0), v), LineEnd)
===============================================================================
