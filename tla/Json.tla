--------------------------------- MODULE Json ---------------------------------
(***************************************************************************)
(* A client of the JSON library: it builds a value with the operations of  *)
(* Json::Value, writes it with one of the writers and reads the document   *)
(* back; or it reads a document that somebody typed.                       *)
(***************************************************************************)
EXTENDS JsonReader

CONSTANTS
    MaxEdits,         \* operations on the value
    MaxTyped,         \* lexemes typed after one of the seeds
    MaxNumber,        \* largest number typed
    Scalars,          \* values that are assigned
    Paths,            \* paths that are used
    Names,            \* member names
    CommentTexts,     \* comments that are set
    Lexemes,          \* what can be typed
    Seeds             \* beginnings of typed documents

VARIABLES
    val,              \* the value
    edits,            \* number of operations on it
    doc,              \* the document, empty while there is none
    from,             \* where it comes from
    reader            \* the Reader

jsonVars == <<val, edits, doc, from, reader>>

Features == {[collect |-> TRUE, strict |-> FALSE],
             [collect |-> FALSE, strict |-> FALSE],
             [collect |-> FALSE, strict |-> TRUE]}

Parsed == reader.doc # <<>>

JsonInit ==
    /\ val = Null
    /\ edits = 0
    /\ doc = <<>>
    /\ from = "value"
    /\ reader = IdleReader

\* An operation that gives the value at a path its new value F(v).
Edit(path, F(_)) ==
    /\ Makeable(val, path)
    /\ val' = Put(val, path, F(resolve(val, path)))
    /\ edits' = edits + 1
    /\ UNCHANGED <<doc, from, reader>>

AssignAt(path, x) == Edit(path, LAMBDA v : Assign(v, x))

AppendAt(path, x) == isArray(resolve(val, path)) /\ Edit(path, LAMBDA v : append(v, x))

\* A failed assertion is the end of the program.
ResizeAt(path, n) ==
    LET w == resize(resolve(val, path), n) IN
    /\ isArray(resolve(val, path))
    /\ \/ w # Throws /\ Edit(path, LAMBDA v : w[2])
       \/ /\ w = Throws
          /\ from' = "aborted"
          /\ UNCHANGED <<val, edits, doc, reader>>

ClearAt(path) ==
    /\ isArray(resolve(val, path)) \/ isObject(resolve(val, path))
    /\ Edit(path, clear)

RemoveMemberAt(path, name) ==
    /\ isObject(resolve(val, path))
    /\ Edit(path, LAMBDA v : removeMember(v, name))

CommentAt(path, text, p) == Edit(path, LAMBDA v : setComment(v, text, p))

Write(w) ==
    /\ from = "value"
    /\ doc' = write(w, val)
    /\ from' = w
    /\ UNCHANGED <<val, edits, reader>>

\* A document is begun, or goes on with one more lexeme.
TypeSeed(s) ==
    /\ doc' = s
    /\ from' = "typed"
    /\ UNCHANGED <<val, edits, reader>>

TypeLexeme(x) ==
    /\ from = "typed" /\ ~Parsed
    /\ edits < MaxTyped
    /\ doc' = Append(doc, x)
    /\ edits' = edits + 1
    /\ UNCHANGED <<val, from, reader>>

TypeNumber(neg, int, frac) ==
    /\ doc' = <<Num(neg, int, frac)>>
    /\ from' = "number"
    /\ UNCHANGED <<val, edits, reader>>

\* A line comment would end inside a comment of several lines; what is left
\* of that one is not modelled.
Readable(d) ==
    \A i, j \in 1..Len(d) :
        i < j /\ d[i] = LineComment /\ d[j] = BlockComment(TRUE) =>
            \E k \in i..j : d[k] \in {LineEnd, Return}

Parse(features) ==
    /\ ~Parsed
    /\ doc # <<>>
    /\ Readable(doc)
    /\ reader' = parse(reader, doc, Null, features)
    /\ UNCHANGED <<val, edits, doc, from>>

\* The value may still be changed.
Operate ==
    /\ from = "value" /\ edits < MaxEdits
    /\ \E path \in Paths :
        \/ \E x \in Scalars : AssignAt(path, x) \/ AppendAt(path, x)
        \/ \E n \in 0..2 : ResizeAt(path, n)
        \/ ClearAt(path)
        \/ \E name \in Names : RemoveMemberAt(path, name)
        \/ \E text \in CommentTexts, p \in Placements : CommentAt(path, text, p)

\* A document is typed and no value built.
BeginTyping ==
    /\ from = "value" /\ edits = 0
    /\ \/ \E s \in Seeds : TypeSeed(s)
       \/ \E neg \in BOOLEAN, frac \in {NoPoint, <<>>, <<0>>, <<5>>, <<2, 5>>} :
            \/ \E n \in 0..MaxNumber : TypeNumber(neg, Digits(n), frac)
            \/ neg /\ TypeNumber(neg, <<>>, frac)

JsonNext ==
    \/ Operate
    \/ \E w \in Writers : Write(w)
    \/ BeginTyping
    \/ \E x \in Lexemes : TypeLexeme(x)
    \/ \E features \in Features : Parse(features)

JsonSpec == JsonInit /\ [][JsonNext]_jsonVars

-------------------------------------------------------------------------------
(* Properties.                                                             *)

\* How far the number read may be from the number v: half a unit of the last
\* digit that was written, so nothing for an integer or a real whose digits
\* are all written.  Twice that, in hundredths.
Loss(v) == IF Type(v) = "real" THEN Unit(Data(v)) ELSE 0

\* The same document: holes are nulls, a number is a number whatever its type.
RECURSIVE SameDocument(_, _)
SameDocument(v, w) ==
    CASE Type(v) = "array" ->
            /\ Type(w) = "array" /\ size(v) = size(w)
            /\ \A i \in 0..(size(v) - 1) : SameDocument(At(v, i), At(w, i))
      [] Type(v) = "object" ->
            /\ Type(w) = "object" /\ DOMAIN Data(v) = DOMAIN Data(w)
            /\ \A k \in DOMAIN Data(v) : SameDocument(At(v, k), At(w, k))
      [] Type(v) \in {"int", "uint", "real"} ->
            /\ Type(w) \in {"int", "uint", "real"}
            /\ 2 * Abs(asDouble(v)[2] - asDouble(w)[2]) <= Loss(v)
      [] OTHER -> Type(v) = Type(w) /\ Data(v) = Data(w)

\* Every value in v, v included.
RECURSIVE Within(_)
Within(v) ==
    {v} \cup IF IsMap(v) THEN UNION {Within(Data(v)[k]) : k \in DOMAIN Data(v)} ELSE {}

\* The reader keeps the line end of a line comment in its text.
LineCommentsEnd(v) ==
    \A u \in Within(v), p \in Placements :
        LET text == Comments(u)[p] IN
        text # <<>> /\ text[1] = LineComment => Last(text) \in {LineEnd, Return}

HasComments(v) == \E u \in Within(v) : Comments(u) # NoComments

Finite(v) ==
    \A u \in Within(v) : Type(u) = "real" => Data(u) \notin {Infinity, -Infinity}

\* What a writer writes is read back as the same document, a real to half a
\* unit of its last written digit, by a strict reader too unless there are
\* comments; the styled writers need line comments that end their line, as
\* the reader makes them.  There is no text for an infinity: a document that
\* has one is refused, not read as another one; of "-inf" alone nothing is
\* claimed (Writer::write, valueToString, Reader::parse).
WrittenReadBack ==
    Parsed /\ from \in Writers =>
        LET styled == from \in {"styled", "stream"}
            fits == IF reader.allow THEN ~styled \/ LineCommentsEnd(val)
                    ELSE /\ isArray(val) \/ isObject(val)
                         /\ ~styled \/ ~HasComments(val)
        IN fits => IF Finite(val) THEN reader.ok /\ SameDocument(val, reader.root)
                   ELSE ~reader.ok \/ Data(val) = -Infinity

-------------------------------------------------------------------------------
(* What is a document: a pushdown automaton over the tokens, to compare    *)
(* the parser with.  It has what is expected next, the closing brackets    *)
(* of the arrays and objects that are open, and the place of the first     *)
(* token that is not what is expected.                                     *)

IsComment(x) == x[1] \in {"//", "/*"}

GoodString(x) == x[1] = "str" /\ Closed(x[2]) /\ decodeString(x[2]) # Throws

\* A value of one token; a sign alone counts as a number.
IsAtom(x) ==
    \/ x[1] = "lit"
    \/ x[1] = "num" /\ (x[3] # <<>> \/ x[4] # <<>>)
    \/ GoodString(x)

\* The places of the tokens: not of spaces, nor of what a line comment holds.
Tokens ==
    SelectSeq([i \in DOMAIN doc |-> i], LAMBDA i :
        /\ ~IsSpace(doc[i])
        /\ \A j \in 1..(i - 1) : doc[j] = LineComment =>
                \E k \in j..(i - 1) : doc[k] \in {LineEnd, Return})

Start == [expect |-> "value", open |-> <<>>, bad |-> 0]

\* A value has been read, and open is what remains open.
Done(s, open) ==
    [s EXCEPT !.open = open, !.expect = IF open = <<>> THEN "end" ELSE "separator"]

\* The token at place i, which is no comment, comes next.  A lax reader lets
\* any token separate two elements, or two members after a comment ("any"),
\* and ignores what is behind the root.
Take(s, i, lax) ==
    LET x == doc[i]
        Expect(e) == [s EXCEPT !.expect = e]
        Enter(e, close) == [Expect(e) EXCEPT !.open = Append(@, close)]
        closes == s.open # <<>> /\ x = P(Last(s.open))
        inArray == s.open # <<>> /\ Last(s.open) = "]"
        value == s.expect \in {"value", "first"}
        separates == s.expect \in {"separator", "any"} /\ ~closes
    IN CASE s.expect = "end" /\ lax -> s
         [] value /\ x = P("[") -> Enter("first", "]")
         [] value /\ x = P("{") -> Enter("member", "}")
         [] value /\ IsAtom(x) -> Done(s, s.open)
         [] s.expect \in {"first", "member", "separator", "any"} /\ closes ->
                Done(s, Front(s.open))
         [] s.expect \in {"member", "name"} /\ GoodString(x) -> Expect(":")
         [] s.expect = ":" /\ x = P(":") -> Expect("value")
         [] separates /\ inArray /\ (lax \/ x = P(",")) -> Expect("value")
         [] separates /\ ~inArray /\ (s.expect = "any" \/ x = P(",")) -> Expect("name")
         [] OTHER -> [s EXCEPT !.bad = i]

\* A comment comes next: the reader takes none before a colon, and a strict
\* one none before a value; behind "[" it rules out an empty array.
TakeComment(s, i) ==
    CASE s.expect = ":" \/ (s.expect \in {"value", "first"} /\ ~reader.allow) ->
            [s EXCEPT !.bad = i]
      [] s.expect = "first" /\ reader.allow -> [s EXCEPT !.expect = "value"]
      [] s.expect = "separator" /\ Last(s.open) = "}" -> [s EXCEPT !.expect = "any"]
      [] OTHER -> s

\* The place of the first bad token, behind the text if it ends too early,
\* or 0.
FirstBad(lax) ==
    LET s == FoldLeft(LAMBDA t, i : IF t.bad # 0 THEN t
                                    ELSE IF IsComment(doc[i]) THEN TakeComment(t, i)
                                    ELSE Take(t, i, lax), Start, Tokens)
    IN IF s.bad = 0 /\ s.expect # "end" THEN Len(doc) + 1 ELSE s.bad

\* A document without comments that is well formed is read without an error;
\* any other is read only as far as it is one for a lax reader, and the error
\* that is reported is where it stops being one.  A strict reader wants an
\* array or an object besides (readValue, readObject, readArray, addError,
\* recoverFromError).
ParseHonest ==
    Parsed =>
        /\ reader.ok <=> reader.errors = <<>>
        /\ reader.allow \/ isArray(reader.root) \/ isObject(reader.root) =>
            /\ FirstBad(FALSE) = 0 /\ (\A i \in DOMAIN doc : ~IsComment(doc[i])) => reader.ok
            /\ reader.ok => FirstBad(TRUE) = 0
            /\ ~reader.ok => reader.errors[1][2] = FirstBad(TRUE)

-------------------------------------------------------------------------------

\* Comments are never written through a pointer to a value that a second
\* member of the same name has destroyed (lastValue_, addComment).
CommentsLand == ~reader.stale

\* Did reader r find what this reader found, and no comments?
SameButComments(r) ==
    /\ r.errors = reader.errors
    /\ Equal(r.root, reader.root)
    /\ ~HasComments(r.root)

\* Collecting comments changes nothing but the comments (collectComments_).
CommentsTransparent ==
    Parsed /\ reader.collect =>
        SameButComments(parse(IdleReader, doc, Null, [collect |-> FALSE, strict |-> FALSE]))

\* A number that is typed with a digit is read as just that number, on both
\* sides of every limit of the integer types: as an Int or, above maxInt, a
\* UInt while it has no point and is below the last ten of the type's range,
\* as a real otherwise; a point without a digit is refused (decodeNumber's
\* threshold, decodeDouble).
NumbersExact ==
    Parsed /\ from = "number" /\ reader.allow =>
        LET neg == doc[1][2]
            int == doc[1][3]
            point == doc[1][4] # NoPoint
            frac == IF point THEN doc[1][4] ELSE <<>>
            abs == Hundredths(int, frac)
            last == (IF neg THEN -minInt ELSE maxUInt) \div 10
            v == reader.root
        IN /\ int \o frac # <<>> =>
                /\ reader.ok /\ isNumeric(v)
                /\ asDouble(v)[2] = IF neg THEN -abs ELSE abs
                /\ ~point /\ abs < 1000 * last =>
                        Type(v) = IF ~neg /\ abs > 100 * maxInt THEN "uint" ELSE "int"
                /\ point \/ abs >= 1000 * (last + 1) => Type(v) = "real"
           /\ point /\ int \o frac = <<>> => ~reader.ok

-------------------------------------------------------------------------------
(* What the operations of Json::Value promise, for every value in val.     *)

\* resize leaves an array with the new size and the elements below it, and
\* its assertion holds for every array without holes (Value::resize).
ResizeSound(v) ==
    isArray(v) =>
        \A n \in 0..2 :
            LET w == resize(v, n) IN
            IF w = Throws THEN \E i \in 0..(size(v) - 1) : i \notin DOMAIN Data(v)
            ELSE /\ size(w[2]) = n
                 /\ \A i \in 0..(n - 1) : Equal(At(w[2], i), At(v, i))

\* isConvertibleTo tells whether the conversion succeeds.  Nothing is said
\* of the unsigned maxInt as an Int, of numbers as strings, and of strings,
\* arrays and objects as booleans, where the two disagree.
ConversionsAgree(v) ==
    LET as == [int |-> asInt(v), uint |-> asUInt(v), real |-> asDouble(v),
               bool |-> asBool(v), string |-> asString(v)]
        unclaimed == (IF Type(v) = "uint" /\ Data(v) = maxInt THEN {"int"} ELSE {})
                     \cup (IF Type(v) \in {"int", "uint", "real"} THEN {"string"} ELSE {})
                     \cup (IF Type(v) = "string" \/ IsMap(v) THEN {"bool"} ELSE {})
    IN /\ \A type \in DOMAIN as \ unclaimed : isConvertibleTo(v, type) <=> as[type] # Throws
       /\ as.int # Throws => as.int[2] \in minInt..maxInt
       /\ as.uint # Throws => as.uint[2] \in 0..maxUInt

\* Two values are less, equal or greater, whatever their types, and exactly
\* one of these (operator<, operator==).
OrderTotal(v, w) ==
    Cardinality({i \in 1..3 : <<Less(v, w), Equal(v, w), Less(w, v)>>[i]}) = 1

\* A loop from begin() to end() visits every entry, in order and as often as
\* end() - begin() says, and its key leads back to the entry (isEqual,
\* increment, computeDistance, key).
IterationComplete(v) ==
    /\ Visit(v, begin(v)) = Keys(v)
    /\ computeDistance(begin(v), end(v)) = Len(Keys(v))
    /\ \A i \in DOMAIN Keys(v) :
        LET it == <<FALSE, i - 1>> IN
        /\ Data(keyAt(v, it)) = Keys(v)[i]
        /\ isValidIndex(v, indexAt(v, it)) <=> memberNameAt(v, it) = <<>>

\* The text of a path: "[7]" for an index, ".name" for a member.
PathText(path) ==
    FlattenSeq([i \in DOMAIN path |->
        IF path[i][1] = "object" THEN <<46>> \o path[i][2]
        ELSE <<91, 48 + path[i][2], 93>>])

\* An assignment through a path changes nothing that is not on the way to it
\* or below it, and is found again by the same path; with a default that is
\* claimed of member names only (Path::makePath, make, resolve).
PathsSeparate(p) ==
    /\ makePath(PathText(p), <<"none">>) = p
    /\ Makeable(val, p) =>
        LET one == Make("int", 1)
            w == Put(make(val, p), p, Assign(resolve(val, p), one))
        IN /\ Equal(resolve(w, p), one)
           /\ (\A i \in DOMAIN p : p[i][1] = "object") => Equal(resolveOr(w, p, Null), one)
           /\ \A q \in Paths :
                ~IsPrefix(p, q) /\ ~IsPrefix(q, p) => resolve(w, q) = resolve(val, q)

\* The promises above hold for every value that the operations can build.
ValueContracts ==
    from = "value" /\ edits > 0 =>
        /\ \A v \in Within(val) :
            /\ ResizeSound(v)
            /\ ConversionsAgree(v)
            /\ IterationComplete(v)
            /\ \A w \in Within(val) \cup Scalars : OrderTotal(v, w)
        /\ \A p \in Paths : PathsSeparate(p)
===============================================================================
