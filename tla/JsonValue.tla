------------------------------ MODULE JsonValue ------------------------------
(***************************************************************************)
(* Json::Value (json/json_value.cpp): the discriminated union of the JSON  *)
(* library, its members, conversions, comments, iterators and paths.       *)
(*                                                                         *)
(* A value is the tuple <<type_, value_, comments_>>.  An array or an      *)
(* object is a map (ObjectValues) from indices or names to values, so an   *)
(* array may have holes.  A character is its code, a string a sequence of  *)
(* codes without 0, a real number a number of hundredths or an infinity,   *)
(* and a comment the sequence of the lexemes it is made of.                *)
(***************************************************************************)
EXTENDS Integers, Sequences, SequencesExt

CONSTANT maxInt       \* the largest Int: 2^31 - 1 in the code

ASSUME MaxIntAssumption == maxInt \in Nat /\ maxInt >= 10

minInt == -maxInt - 1

maxUInt == 2 * maxInt + 1

\* The infinite real; every other one is smaller.
Infinity == 10000 * maxUInt

Types == {"null", "int", "uint", "real", "string", "bool", "array", "object"}

Placements == {"before", "sameLine", "after"}

Type(v) == v[1]

Data(v) == v[2]

Comments(v) == v[3]

NoComments == [p \in Placements |-> <<>>]

hasComment(v, p) == Comments(v)[p] # <<>>

EmptyMap == <<>>

\* The constructors Value(type), Value(int), Value(bool), ...
Make(type, data) == <<type, data, NoComments>>

Null == Make("null", 0)

\* strlen: a C string ends before its first null character.
CString(s) ==
    LET end == SelectInSeq(s, LAMBDA c : c = 0) IN
    IF end = 0 THEN s ELSE SubSeq(s, 1, end - 1)

\* operator=: the copy constructor cuts a string at a null character, and
\* swap exchanges type and data but not the comments.
Assign(v, w) ==
    <<Type(w), IF Type(w) = "string" THEN CString(Data(w)) ELSE Data(w), Comments(v)>>

\* setComment: the other placements and the data stay.
setComment(v, text, p) == <<Type(v), Data(v), [Comments(v) EXCEPT ![p] = text]>>

IsMap(v) == Type(v) \in {"array", "object"}

isArray(v) == Type(v) \in {"null", "array"}

isObject(v) == Type(v) \in {"null", "object"}

isIntegral(v) == Type(v) \in {"int", "uint", "bool"}

isNumeric(v) == isIntegral(v) \/ Type(v) = "real"

-------------------------------------------------------------------------------
(* Order.                                                                  *)

TypeRank == [null |-> 0, int |-> 1, uint |-> 2, real |-> 3, string |-> 4,
             bool |-> 5, array |-> 6, object |-> 7]

\* strcmp on the unsigned codes, as an order.
RECURSIVE StringLess(_, _)
StringLess(s, t) ==
    /\ t # <<>>
    /\ \/ s = <<>>
       \/ s[1] < t[1]
       \/ s[1] = t[1] /\ StringLess(Tail(s), Tail(t))

\* CZString::operator<: names by strcmp, indices as numbers.
KeyLess(type, k, l) == IF type = "object" THEN StringLess(k, l) ELSE k < l

\* The keys of a map in the order of its iterators.
Keys(v) ==
    IF IsMap(v)
    THEN SetToSortSeq(DOMAIN Data(v), LAMBDA k, l : KeyLess(Type(v), k, l))
    ELSE <<>>

getMemberNames(v) == Keys(v)

\* operator< : by type, then by size, then the maps lexicographically.
RECURSIVE Less(_, _), MapLess(_, _, _)
Less(v, w) ==
    IF Type(v) # Type(w) THEN TypeRank[Type(v)] < TypeRank[Type(w)]
    ELSE CASE Type(v) = "null" -> FALSE
           [] Type(v) = "bool" -> ~Data(v) /\ Data(w)
           [] Type(v) = "string" -> StringLess(Data(v), Data(w))
           [] IsMap(v) -> LET d == Len(Keys(v)) - Len(Keys(w)) IN
                          IF d # 0 THEN d < 0 ELSE MapLess(v, w, 1)
           [] OTHER -> Data(v) < Data(w)

\* std::map's operator< from the i-th entries on: keys first, then values.
MapLess(v, w, i) ==
    /\ i <= Len(Keys(v))
    /\ LET k == Keys(v)[i]
           l == Keys(w)[i]
       IN IF k # l THEN KeyLess(Type(v), k, l)
          ELSE \/ Less(Data(v)[k], Data(w)[l])
               \/ ~Less(Data(w)[l], Data(v)[k]) /\ MapLess(v, w, i + 1)

\* operator== : the comments do not matter.
RECURSIVE Equal(_, _)
Equal(v, w) ==
    /\ Type(v) = Type(w)
    /\ IF IsMap(v)
       THEN /\ DOMAIN Data(v) = DOMAIN Data(w)
            /\ \A k \in DOMAIN Data(v) : Equal(Data(v)[k], Data(w)[k])
       ELSE Data(v) = Data(w)

-------------------------------------------------------------------------------
(* Conversions.  "throws" stands for an exception, or a failed assertion.  *)

Bit(b) == IF b THEN 1 ELSE 0

\* Truncation of a real towards zero.
Truncate(h) == IF h >= 0 THEN h \div 100 ELSE -((-h) \div 100)

Throws == <<"throws">>

Gives(x) == <<"gives", x>>

asInt(v) ==
    CASE Type(v) = "null" -> Gives(0)
      [] Type(v) = "int" -> Gives(Data(v))
      [] Type(v) = "uint" /\ Data(v) < maxInt -> Gives(Data(v))
      [] Type(v) = "real" /\ Data(v) >= 100 * minInt /\ Data(v) <= 100 * maxInt ->
            Gives(Truncate(Data(v)))
      [] Type(v) = "bool" -> Gives(Bit(Data(v)))
      [] OTHER -> Throws

asUInt(v) ==
    CASE Type(v) = "null" -> Gives(0)
      [] Type(v) = "int" /\ Data(v) >= 0 -> Gives(Data(v))
      [] Type(v) = "uint" -> Gives(Data(v))
      [] Type(v) = "real" /\ Data(v) >= 0 /\ Data(v) <= 100 * maxUInt ->
            Gives(Truncate(Data(v)))
      [] Type(v) = "bool" -> Gives(Bit(Data(v)))
      [] OTHER -> Throws

\* In hundredths.
asDouble(v) ==
    CASE Type(v) = "null" -> Gives(0)
      [] Type(v) \in {"int", "uint"} -> Gives(100 * Data(v))
      [] Type(v) = "real" -> Gives(Data(v))
      [] Type(v) = "bool" -> Gives(100 * Bit(Data(v)))
      [] OTHER -> Throws

asBool(v) ==
    CASE Type(v) = "null" -> Gives(FALSE)
      [] Type(v) \in {"int", "uint", "real"} -> Gives(Data(v) # 0)
      [] Type(v) = "bool" -> Gives(Data(v))
      [] Type(v) = "string" -> Gives(Data(v) # <<>>)
      [] OTHER -> Gives(DOMAIN Data(v) # {})

\* "true" and "false" are the codes of their first letters.
asString(v) ==
    CASE Type(v) = "null" -> Gives(<<>>)
      [] Type(v) = "string" -> Gives(Data(v))
      [] Type(v) = "bool" -> Gives(IF Data(v) THEN <<116>> ELSE <<102>>)
      [] OTHER -> Throws

\* What isConvertibleTo answers.
isConvertibleTo(v, type) ==
    CASE Type(v) = "null" -> TRUE
      [] Type(v) \in {"string", "array", "object"} ->
            type = Type(v) \/ (type = "null" /\ asBool(v) = Gives(FALSE))
      [] type = "null" -> asBool(v) = Gives(FALSE)
      [] type \in {"array", "object"} -> FALSE
      [] type = "uint" /\ Type(v) = "int" -> Data(v) >= 0
      [] type = "uint" /\ Type(v) = "real" -> Data(v) >= 0 /\ Data(v) <= 100 * maxUInt
      [] type = "int" /\ Type(v) = "uint" -> Data(v) <= maxInt
      [] type = "int" /\ Type(v) = "real" ->
            Data(v) >= 100 * minInt /\ Data(v) <= 100 * maxInt
      [] OTHER -> TRUE

-------------------------------------------------------------------------------
(* Elements and members.                                                   *)

\* Of an array the highest index plus one, holes included.
size(v) ==
    CASE Type(v) = "array" -> IF DOMAIN Data(v) = {} THEN 0 ELSE Max(DOMAIN Data(v)) + 1
      [] Type(v) = "object" -> Cardinality(DOMAIN Data(v))
      [] OTHER -> 0

empty(v) == (isArray(v) \/ isObject(v)) /\ size(v) = 0

isValidIndex(v, index) == index < size(v)

\* *this = Value(type), when the value was null.
Become(v, type) == IF Type(v) = "null" THEN Assign(v, Make(type, EmptyMap)) ELSE v

WithData(v, data) == <<Type(v), data, Comments(v)>>

\* The const operator[], which answers the shared null for what is not there.
At(v, key) == IF IsMap(v) /\ key \in DOMAIN Data(v) THEN Data(v)[key] ELSE Null

\* get: "value == &null" asks for absence, not for a null value.
get(v, key, default) == IF IsMap(v) /\ key \in DOMAIN Data(v) THEN Data(v)[key] ELSE default

isMember(v, key) == Type(v) = "object" /\ key \in DOMAIN Data(v)

\* operator[] and resolveReference: a null value turns into an array or an
\* object, and an entry that is not there is made, null.
Resolve(v, type, key) ==
    LET w == Become(v, type) IN
    IF key \in DOMAIN Data(w) THEN w ELSE WithData(w, (key :> Null) @@ Data(w))

clear(v) == IF IsMap(v) THEN WithData(v, EmptyMap) ELSE v

\* The elements of w below n and those in the set of indices kept; resize
\* fails the assertion at its end when the size that is left is not n.
CutTo(w, n, kept) ==
    LET cut == WithData(w, [i \in {j \in DOMAIN Data(w) : j < n} \cup kept |-> Data(w)[i]]) IN
    IF size(cut) = n THEN Gives(cut) ELSE Throws

\* Fault: the last element that goes is the one before the old end.
resizeShort(v, newSize) ==
    LET w == Become(v, "array") IN
    CASE newSize = 0 -> Gives(clear(w))
      [] newSize > size(w) -> Gives(Resolve(w, "array", newSize - 1))
      [] OTHER -> CutTo(w, newSize, {j \in DOMAIN Data(w) : j = size(w) - 1})

\* A larger array only gets its last element; a smaller one loses the
\* elements from newSize on.
resize(v, newSize) ==
    LET w == Become(v, "array") IN
    CASE newSize = 0 -> Gives(clear(w))
      [] newSize > size(w) -> Gives(Resolve(w, "array", newSize - 1))
      [] OTHER -> CutTo(w, newSize, {})

\* (*this)[size()] = value.
append(v, w) ==
    LET n == size(v)
        u == Resolve(v, "array", n)
    IN WithData(u, [Data(u) EXCEPT ![n] = Assign(Null, w)])

removeMember(v, key) ==
    IF isMember(v, key)
    THEN WithData(v, [k \in DOMAIN Data(v) \ {key} |-> Data(v)[k]])
    ELSE v

-------------------------------------------------------------------------------
(* Iterators: <<isNull_, place>> where place counts the entries passed.    *)

begin(v) == IF IsMap(v) THEN <<FALSE, 0>> ELSE <<TRUE, 0>>

end(v) == IF IsMap(v) THEN <<FALSE, Len(Keys(v))>> ELSE <<TRUE, 0>>

isEqual(it, other) == IF it[1] THEN other[1] ELSE it[2] = other[2]

\* computeDistance: how often the iterator must move to reach the other, -1
\* if it never does.
computeDistance(it, other) ==
    CASE it[1] /\ other[1] -> 0
      [] it[2] <= other[2] -> other[2] - it[2]
      [] OTHER -> -1

\* What an iterator says of the entry it is at: index(), which is
\* Value::UInt(-1) for a member, memberName(), which is empty for an element,
\* and key(), the one of them that applies, as a value.
indexAt(v, it) == IF Type(v) = "array" THEN Keys(v)[it[2] + 1] ELSE maxUInt

memberNameAt(v, it) == IF Type(v) = "object" THEN Keys(v)[it[2] + 1] ELSE <<>>

keyAt(v, it) ==
    IF Type(v) = "object" THEN Make("string", memberNameAt(v, it))
                          ELSE Make("int", indexAt(v, it))

\* The entries that the loop "for (; it != end(); ++it)" visits, or "overrun"
\* when it does not stop at the end.
RECURSIVE Visit(_, _)
Visit(v, it) ==
    IF isEqual(it, end(v)) THEN <<>>
    ELSE IF it[2] >= Len(Keys(v)) THEN <<"overrun">>
    ELSE <<Keys(v)[it[2] + 1]>> \o Visit(v, <<it[1], it[2] + 1>>)

-------------------------------------------------------------------------------
(* Paths: sequences of steps <<"array", index>> or <<"object", name>>.     *)

\* What operator[] asserts of the value a step is taken from.
Steppable(v, step) == Type(v) \in {"null", step[1]}

\* Path::resolve(root): what is not there is null, and the step from a null
\* value stays there.  Its checks of the type and of the index do nothing.
RECURSIVE resolve(_, _)
resolve(v, path) ==
    IF path = <<>> THEN v
    ELSE resolve(IF Type(v) = path[1][1] THEN At(v, path[1][2]) ELSE Null, Tail(path))

\* Path::resolve(root, default): the test of an index is inverted, so that
\* only an index beyond the end is looked up.
RECURSIVE resolveOr(_, _, _)
resolveOr(v, path, default) ==
    IF path = <<>> THEN v
    ELSE LET kind == path[1][1]
             key == path[1][2]
         IN IF \/ kind = "array" /\ (~isArray(v) \/ isValidIndex(v, key))
               \/ kind = "object" /\ ~(isObject(v) /\ isMember(v, key))
            THEN default
            ELSE resolveOr(resolve(v, SubSeq(path, 1, 1)), Tail(path), default)

\* Does Path::make pass the assertions of operator[]?
RECURSIVE Makeable(_, _)
Makeable(v, path) ==
    path # <<>> =>
        /\ Steppable(v, path[1])
        /\ Makeable(resolve(v, SubSeq(path, 1, 1)), Tail(path))

\* Path::make(root) = w: the entries on the way are made, and the assignment
\* through the reference replaces the last one as a whole.
RECURSIVE Put(_, _, _)
Put(v, path, w) ==
    IF path = <<>> THEN w
    ELSE LET key == path[1][2]
             u == Resolve(v, path[1][1], key)
         IN WithData(u, [Data(u) EXCEPT ![key] = Put(@, Tail(path), w)])

make(v, path) == Put(v, path, resolve(v, path))

IsDigit(c) == c \in 48..57

\* The longest prefix of s whose characters satisfy Test.
Span(s, Test(_)) ==
    LET stop == SelectInSeq(s, LAMBDA c : ~Test(c)) IN
    IF stop = 0 THEN s ELSE SubSeq(s, 1, stop - 1)

Drop(s, n) == SubSeq(s, n + 1, Len(s))

\* The number that a sequence of digits denotes.
Decimal(s) == FoldLeft(LAMBDA n, c : 10 * n + (c - 48), 0, s)

\* Path::makePath: "[7]" is an index, "%" the argument a if its kind fits, "."
\* nothing, other text up to "[" or "." a name.  An index argument "[%]" is
\* taken, but the text after it is then read from the "]" on.
RECURSIVE makePath(_, _)
makePath(s, a) ==
    LET Arg(kind) == IF a[1] = kind THEN <<a>> ELSE <<>>
        digits == Span(Tail(s), IsDigit)
        name == Span(s, LAMBDA c : c \notin {91, 46})
    IN CASE s = <<>> -> <<>>
         [] s[1] = 91 /\ Len(s) > 1 /\ s[2] = 37 -> Arg("array") \o makePath(Drop(s, 2), a)
         [] s[1] = 91 -> <<<<"array", Decimal(digits)>>>>
                             \o makePath(Drop(s, Len(digits) + 2), a)
         [] s[1] = 37 -> Arg("object") \o makePath(Tail(s), a)
         [] s[1] = 46 -> makePath(Tail(s), a)
         [] OTHER -> <<<<"object", name>>>> \o makePath(Drop(s, Len(name)), a)
===============================================================================
