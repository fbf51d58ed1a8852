------------------------------ MODULE JsonReader ------------------------------
(***************************************************************************)
(* Json::Reader (json/json_reader.cpp): a recursive descent parser that    *)
(* goes on after an error and attaches the comments it meets to values.    *)
(*                                                                         *)
(* The reader is a record r: the document and the place in it (current_),  *)
(* the root value, the errors, the comments kept for the next value        *)
(* (commentsBefore_), the end and the place of the last value read         *)
(* (lastValueEnd_, 0 before there is one, and lastValue_), the token read  *)
(* last and what the function that ran last returned (ok).  A Value        *)
(* pointer (nodes_.top(), lastValue_) is the path from the root to it;     *)
(* stale notes that a comment was written through a pointer to a value     *)
(* that is gone.                                                           *)
(***************************************************************************)
EXTENDS JsonWriter

IdleReader ==
    [doc |-> <<>>, current |-> 1, root |-> Null, errors |-> <<>>, before |-> <<>>,
     lastEnd |-> 0, last |-> <<>>, token |-> <<"eos", 1>>, ok |-> TRUE,
     collect |-> FALSE, allow |-> TRUE, stale |-> FALSE]

TokenType(r) == r.token[1]

TokenLexeme(r) == r.doc[r.token[2]]

addError(r, what, at) == [r EXCEPT !.errors = Append(@, <<what, at>>), !.ok = FALSE]

-------------------------------------------------------------------------------
(* Tokens.                                                                 *)

IsSpace(x) == x \in {Blank, LineEnd, Return}

\* The place of the first lexeme from i on for which Test holds, or the end.
Seek(r, i, Test(_)) ==
    LET at == SelectInSubSeq(r.doc, i, Len(r.doc), Test) IN
    IF at = 0 THEN Len(r.doc) + 1 ELSE at

skipSpaces(r) == [r EXCEPT !.current = Seek(r, r.current, LAMBDA x : ~IsSpace(x))]

\* readString: the text ends at the first quote that is not escaped.
RECURSIVE Closed(_)
Closed(raw) ==
    \/ raw = <<>>
    \/ raw[1] = 92 /\ Len(raw) > 1 /\ Closed(Drop(raw, 2))
    \/ raw[1] \notin {92, 34} /\ Closed(Tail(raw))

containsNewLine(r, from, to) ==
    \E i \in from..(to - 1) : r.doc[i] \in {LineEnd, Return, BlockComment(TRUE)}

\* Is there a value at the path?
RECURSIVE Alive(_, _)
Alive(v, path) ==
    path # <<>> => /\ Type(v) = path[1][1]
                   /\ path[1][2] \in DOMAIN Data(v)
                   /\ Alive(At(v, path[1][2]), Tail(path))

\* A comment on the line of the last value belongs to it, any other to the
\* value that follows.
addComment(r, text, sameLine) ==
    CASE ~sameLine -> [r EXCEPT !.before = IF @ = <<>> THEN text ELSE @ \o <<LineEnd>> \o text]
      [] Alive(r.root, r.last) ->
            [r EXCEPT !.root = Put(@, r.last, setComment(resolve(@, r.last), text, "sameLine"))]
      [] OTHER -> [r EXCEPT !.stale = TRUE]

\* Fault: a comment is only a comment while comments are collected.
readCommentIfCollected(r, start) ==
    LET block == r.doc[start][1] = "/*"
        stop == Seek(r, start, LAMBDA x : x \in {LineEnd, Return}) + 1
        after == IF block THEN start + 1 ELSE Min({stop, Len(r.doc) + 1})
        text == SubSeq(r.doc, start, after - 1)
        sameLine == /\ r.lastEnd # 0
                    /\ ~containsNewLine(r, r.lastEnd, start)
                    /\ block => r.doc[start] = BlockComment(FALSE)
        read == [r EXCEPT !.current = after,
                          !.token = <<IF r.collect THEN "comment" ELSE "error", start>>]
    IN IF r.collect THEN addComment(read, text, sameLine) ELSE read

\* readComment: a line comment takes everything up to and with the line end.
readComment(r, start) ==
    LET block == r.doc[start][1] = "/*"
        stop == Seek(r, start, LAMBDA x : x \in {LineEnd, Return}) + 1
        after == IF block THEN start + 1 ELSE Min({stop, Len(r.doc) + 1})
        text == SubSeq(r.doc, start, after - 1)
        sameLine == /\ r.lastEnd # 0
                    /\ ~containsNewLine(r, r.lastEnd, start)
                    /\ block => r.doc[start] = BlockComment(FALSE)
        read == [r EXCEPT !.current = after, !.token = <<"comment", start>>]
    IN IF r.collect THEN addComment(read, text, sameLine) ELSE read

\* The token that is at place i.
TokenAt(r, i) ==
    LET x == r.doc[i]
        Is(type) == [r EXCEPT !.current = i + 1, !.token = <<type, i>>]
    IN CASE i > Len(r.doc) -> [r EXCEPT !.token = <<"eos", i>>]
         [] i <= Len(r.doc) /\ x[1] \in {"p", "lit"} -> Is(x[2])
         [] i <= Len(r.doc) /\ x[1] = "num" -> Is("number")
         [] i <= Len(r.doc) /\ x[1] = "str" -> Is(IF Closed(x[2]) THEN "string" ELSE "error")
         [] i <= Len(r.doc) /\ x[1] \in {"//", "/*"} -> readComment(r, i)
         [] OTHER -> Is("error")

AtToken(r) == TokenAt(r, r.current)

\* The next token: its type and where it starts.
readToken(r) == AtToken(skipSpaces(r))

\* From the token read last to the first that is no comment.
RECURSIVE PastComments(_)
PastComments(r) == IF TokenType(r) = "comment" THEN PastComments(readToken(r)) ELSE r

skipCommentTokens(r) == IF r.allow THEN PastComments(readToken(r)) ELSE readToken(r)

\* Fault: the errors found so far are discarded with those of the recovery.
RECURSIVE recoverAndForget(_, _)
recoverAndForget(r, t) ==
    LET s == readToken(r) IN
    IF TokenType(s) \in {t, "eos"} THEN [s EXCEPT !.ok = FALSE, !.errors = <<>>]
    ELSE recoverAndForget(s, t)

\* Skip to the first token of type t, in whatever it is nested.
RECURSIVE recoverFromError(_, _)
recoverFromError(r, t) ==
    LET s == readToken(r) IN
    IF TokenType(s) \in {t, "eos"} THEN [s EXCEPT !.ok = FALSE] ELSE recoverFromError(s, t)

addErrorAndRecover(r, what, t) ==
    recoverFromError(addError(r, what, r.token[2]), t)

-------------------------------------------------------------------------------
(* Numbers and strings.                                                    *)

\* Fault: one digit more is taken before the number is read as a real.
RECURSIVE AccumulateOver(_, _, _)
AccumulateOver(value, digits, threshold) ==
    IF digits = <<>> THEN Gives(value)
    ELSE IF value > threshold THEN Throws
    ELSE AccumulateOver((10 * value + digits[1]) % (maxUInt + 1), Tail(digits), threshold)

\* The loop of decodeNumber in UInt arithmetic; it gives up once the value so
\* far has reached the threshold and a digit is left.
RECURSIVE Accumulate(_, _, _)
Accumulate(value, digits, threshold) ==
    IF digits = <<>> THEN Gives(value)
    ELSE IF value >= threshold THEN Throws
    ELSE Accumulate((10 * value + digits[1]) % (maxUInt + 1), Tail(digits), threshold)

\* The number of hundredths that the digits before and after the point make.
Hundredths(int, frac) ==
    FoldLeft(LAMBDA n, d : 10 * n + d, 0, int \o SubSeq(frac \o <<0, 0>>, 1, 2))

\* decodeDouble: sscanf("%lf"), to the second digit after the point; it finds
\* no number where there is no digit.
decodeDouble(x) ==
    LET frac == IF x[4] = NoPoint THEN <<>> ELSE x[4]
        abs == Hundredths(x[3], frac)
    IN IF x[3] \o frac = <<>> THEN Throws
       ELSE Gives(Make("real", IF x[2] THEN -abs ELSE abs))

\* The value of the number lexeme x; a sign alone is 0.
decodeNumber(x) ==
    LET n == Accumulate(0, x[3], (IF x[2] THEN -minInt ELSE maxUInt) \div 10) IN
    CASE x[4] # NoPoint \/ n = Throws -> decodeDouble(x)
      [] x[2] -> Gives(Make("int", -n[2]))
      [] n[2] <= maxInt -> Gives(Make("int", n[2]))
      [] OTHER -> Gives(Make("uint", n[2]))

HexValue(c) ==
    CASE IsDigit(c) -> c - 48
      [] c \in 97..102 -> c - 87
      [] c \in 65..70 -> c - 55
      [] OTHER -> -1

\* Four hexadecimal digits: the number, or -1.
decodeUnicodeEscapeSequence(s) ==
    IF Len(s) < 4 \/ \E i \in 1..4 : HexValue(s[i]) = -1 THEN -1
    ELSE FoldLeft(LAMBDA n, c : 16 * n + HexValue(c), 0, SubSeq(s, 1, 4))

\* The code point at the beginning of s and the number of characters it
\* takes; a high surrogate takes the next escape, whatever it stands for.
decodeUnicodeCodePoint(s) ==
    LET hi == decodeUnicodeEscapeSequence(s)
        lo == IF Len(s) >= 10 /\ s[5] = 92 /\ s[6] = 117
              THEN decodeUnicodeEscapeSequence(Drop(s, 6)) ELSE -1
    IN IF hi \notin 55296..56319 THEN <<hi, 4>>
       ELSE <<IF lo = -1 THEN -1 ELSE 65536 + ((hi % 1024) * 1024) + (lo % 1024), 10>>

codePointToUTF8(cp) ==
    LET Cont(n) == 128 + (n % 64) IN
    CASE cp <= 127 -> <<cp>>
      [] cp > 127 /\ cp <= 2047 -> <<192 + cp \div 64, Cont(cp)>>
      [] cp > 2047 /\ cp <= 65535 -> <<224 + cp \div 4096, Cont(cp \div 64), Cont(cp)>>
      [] OTHER -> <<240 + cp \div 262144, Cont(cp \div 4096), Cont(cp \div 64), Cont(cp)>>

\* What an escape other than \u stands for, by its letter.
Escaped == (98 :> 8) @@ (116 :> 9) @@ (110 :> 10) @@ (102 :> 12) @@ (114 :> 13)
           @@ (34 :> 34) @@ (92 :> 92) @@ (47 :> 47)

\* decodeString on the text between the quotes.
RECURSIVE decodeString(_)
decodeString(raw) ==
    LET Then(s, n) == LET rest == decodeString(Drop(raw, n)) IN
                      IF rest = Throws THEN Throws ELSE Gives(s \o rest[2])
        unicode == decodeUnicodeCodePoint(Drop(raw, 2))
    IN CASE raw = <<>> -> Gives(<<>>)
         [] raw[1] # 92 -> Then(<<raw[1]>>, 1)
         [] Len(raw) = 1 -> Throws
         [] raw[2] \in DOMAIN Escaped -> Then(<<Escaped[raw[2]]>>, 2)
         [] raw[2] = 117 /\ unicode[1] # -1 -> Then(codePointToUTF8(unicode[1]), 2 + unicode[2])
         [] OTHER -> Throws

-------------------------------------------------------------------------------
(* Values.  path is nodes_: currentValue() is the value at it.             *)

Current(r, path) == resolve(r.root, path)

SetCurrent(r, path, v) ==
    [r EXCEPT !.root = Put(@, path, Assign(Current(r, path), v)), !.ok = TRUE]

ReadNumber(r, path) ==
    LET n == decodeNumber(TokenLexeme(r)) IN
    IF n = Throws THEN addError(r, "Not a number", r.token[2])
    ELSE SetCurrent(r, path, n[2])

ReadString(r, path) ==
    LET s == decodeString(TokenLexeme(r)[2]) IN
    IF s = Throws THEN addError(r, "Bad string", r.token[2])
    ELSE SetCurrent(r, path, Make("string", s[2]))

\* Fault: only the place of a value without entries is kept.
RememberAtom(r, path) ==
    IF r.collect /\ ~IsMap(Current(r, path))
    THEN [r EXCEPT !.lastEnd = r.current, !.last = path]
    ELSE r

\* lastValueEnd_ and lastValue_, for the comment that may follow.
Remember(r, path) ==
    IF r.collect THEN [r EXCEPT !.lastEnd = r.current, !.last = path] ELSE r

RECURSIVE readValue(_, _), readMembers(_, _, _), MemberName(_, _, _), MemberColon(_, _, _),
          MemberValue(_, _, _), MemberEnd(_, _, _), MemberComma(_, _, _), NextMember(_, _, _),
          readElements(_, _, _), ElementEnd(_, _, _), NextElement(_, _, _)

\* The comments kept so far become those before the value at the path.
CommentBefore(r, path) ==
    IF r.collect /\ r.before # <<>>
    THEN [r EXCEPT !.root = Put(@, path, setComment(resolve(@, path), r.before, "before")),
                   !.before = <<>>]
    ELSE r

ArrayOrEnd(r, path) ==
    IF r.current <= Len(r.doc) /\ r.doc[r.current] = P("]") THEN readToken(r)
    ELSE readElements(r, path, 0)

\* The value that begins with the token read last.  Only a token that cannot
\* begin a value leaves lastValue_ as it was.
ValueFrom(r, path) ==
    LET t == TokenType(r) IN
    IF t \notin {"{", "[", "number", "string", "true", "false", "null"}
    THEN addError(r, "Value expected", r.token[2])
    ELSE Remember(
            CASE t = "{" -> readMembers(SetCurrent(r, path, Make("object", EmptyMap)), path, <<>>)
              [] t = "[" ->
                    ArrayOrEnd(skipSpaces(SetCurrent(r, path, Make("array", EmptyMap))), path)
              [] t = "number" -> ReadNumber(r, path)
              [] t = "string" -> ReadString(r, path)
              [] t \in {"true", "false"} -> SetCurrent(r, path, Make("bool", t = "true"))
              [] OTHER -> SetCurrent(r, path, Null), path)

\* A value at the path, with the comments before it.
readValue(r, path) == ValueFrom(CommentBefore(skipCommentTokens(r), path), path)

\* readObject from the next member on; lastName is the name of the member
\* before it.
readMembers(r, path, lastName) == MemberName(PastComments(readToken(r)), path, lastName)

MemberName(t, path, lastName) ==
    CASE TokenType(t) = "}" /\ lastName = <<>> -> [t EXCEPT !.ok = TRUE]
      [] TokenType(t) = "string" ->
            MemberColon(t, path, decodeString(TokenLexeme(t)[2]))
      [] OTHER -> addErrorAndRecover(t, "Missing member name", "}")

MemberColon(t, path, name) ==
    IF name = Throws THEN addErrorAndRecover(t, "Bad string", "}")
    ELSE MemberValue(readToken(t), path, name[2])

MemberValue(colon, path, name) ==
    LET member == Append(path, <<"object", CString(name)>>) IN
    IF TokenType(colon) # ":" THEN addErrorAndRecover(colon, "Missing colon", "}")
    ELSE MemberEnd(readValue([colon EXCEPT !.root = make(@, member)], member), path, name)

MemberEnd(v, path, name) ==
    IF ~v.ok THEN recoverFromError(v, "}") ELSE MemberComma(readToken(v), path, name)

\* After a comment behind a value any token stands for the comma.
MemberComma(comma, path, name) ==
    IF TokenType(comma) \notin {"}", ",", "comment"}
    THEN addErrorAndRecover(comma, "Missing comma", "}")
    ELSE NextMember(PastComments(comma), path, name)

NextMember(r, path, name) ==
    IF TokenType(r) = "}" THEN [r EXCEPT !.ok = TRUE] ELSE readMembers(r, path, name)

\* readArray from element index on.
readElements(r, path, index) ==
    LET element == Append(path, <<"array", index>>) IN
    ElementEnd(readValue([r EXCEPT !.root = make(@, element)], element), path, index)

ElementEnd(v, path, index) ==
    IF ~v.ok THEN recoverFromError(v, "]")
    ELSE NextElement(PastComments(readToken(v)), path, index)

\* The test of the separator can never hold ("&&"), so any token but "]"
\* separates two elements.
NextElement(r, path, index) ==
    IF TokenType(r) = "]" THEN [r EXCEPT !.ok = TRUE] ELSE readElements(r, path, index + 1)

\* In strict mode (no comments) the root must be an array or an object, or
\* null; ok is what readValue returned for it.
CheckRoot(r, ok) ==
    IF r.allow \/ isArray(r.root) \/ isObject(r.root) THEN [r EXCEPT !.ok = ok]
    ELSE addError([r EXCEPT !.ok = ok], "Not an array or object", 1)

\* Comments behind the root value become its comment.
RootComment(r) ==
    IF r.collect /\ r.before # <<>>
    THEN [r EXCEPT !.root = setComment(@, r.before, "after")] ELSE r

AfterRoot(r) == CheckRoot(RootComment(skipCommentTokens(r)), r.ok)

\* parse: everything a former document left in the reader is reset.
parse(r, doc, root, features) ==
    AfterRoot(readValue(
        [r EXCEPT !.doc = doc, !.current = 1, !.root = root, !.errors = <<>>,
                  !.before = <<>>, !.lastEnd = 0, !.last = <<>>,
                  !.ok = TRUE, !.stale = FALSE,
                  !.collect = features.collect /\ ~features.strict,
                  !.allow = ~features.strict], <<>>))
===============================================================================
