----------------------------- MODULE CodecProofs ------------------------------
(***************************************************************************)
(* The codecs are read back as they were written, for every input: numbers *)
(* and byte strings in a Serializer, bytes and addresses in base 58, and   *)
(* 128-bit keys in the words of RFC 1751.                                  *)
(***************************************************************************)
EXTENDS Serializer, Rfc1751, Recursion

-------------------------------------------------------------------------------
(* Serializer: what is added to a buffer is what is got back.              *)

\* A number is its high part and its low byte.
LEMMA Splits ==
    ASSUME NEW n \in Nat
    PROVE  /\ Shr8(n) \in Nat
           /\ n % 256 \in Byte
           /\ n % 256 \in 0..255
           /\ Shr8(n) * 256 + (n % 256) = n
  <1>1. n \div 256 \in Nat /\ n % 256 \in 0..255
    OBVIOUS
  <1>2. n = 256 * (n \div 256) + (n % 256)
    OBVIOUS
  <1> QED
    BY <1>1, <1>2 DEF Shr8, Byte

LEMMA SmallByte ==
    \A n \in Nat : n < 256 => n % 256 = n
  OBVIOUS

\* The prefix is one to three bytes, its first byte tells how many, and
\* together they tell the length (encodeVL, decodeVLLength).
LEMMA Prefix ==
    ASSUME NEW n \in Nat, n <= MaxVL
    PROVE  /\ encodeVL(n) \in Seq(Byte)
           /\ Len(encodeVL(n)) \in 1..3
           /\ decodeLengthLength(encodeVL(n)[1]) = Len(encodeVL(n))
           /\ Len(encodeVL(n)) = 1 => decodeVLLength1(encodeVL(n)[1]) = n
           /\ Len(encodeVL(n)) = 2 => decodeVLLength2(encodeVL(n)[1], encodeVL(n)[2]) = n
           /\ Len(encodeVL(n)) = 3 =>
                decodeVLLength3(encodeVL(n)[1], encodeVL(n)[2], encodeVL(n)[3]) = n
  <1>1. CASE n <= 192
    BY <1>1, SMT DEF encodeVL, decodeLengthLength, decodeVLLength1, Byte
  <1>2. CASE 192 < n /\ n <= 12480
    <2> DEFINE m == n - 193
               q == Shr8(m)
               r == m % 256
    <2>1. encodeVL(n) = << 193 + q, r >>
      BY <1>2, SMT DEF encodeVL
    <2>2. m \in Nat /\ m = n - 193
      BY <1>2, SMT
    <2> HIDE DEF m
    <2>3. q \in Nat /\ r \in 0..255 /\ q * 256 + r = m
      BY ZenonT(40), <2>2, Splits
    <2> HIDE DEF q, r
    <2>4. q \in 0..47 /\ n = 193 + q * 256 + r
      BY <1>2, <2>2, <2>3, SMT
    <2>5. decodeLengthLength(193 + q) = 2 /\ decodeVLLength2(193 + q, r) = n
      BY <2>3, <2>4, SMT DEF decodeLengthLength, decodeVLLength2
    <2>6. 193 + q \in Byte /\ r \in Byte
      BY <2>3, <2>4, SMT DEF Byte
    <2> QED
      BY <2>1, <2>5, <2>6, SMT
  <1>3. CASE 12480 < n
    <2> DEFINE m == n - 12481
               q == Shr8(m)
               r == m % 256
               p == Shr8(q)
               s == q % 256
    <2>1. encodeVL(n) = << 241 + p, s, r >>
      BY <1>3, SMT DEF encodeVL
    <2>2. m \in Nat
      BY <1>3, SMT
    <2>3. m = n - 12481
      OBVIOUS
    <2> HIDE DEF m
    <2>4. q \in Nat /\ r \in 0..255 /\ q * 256 + r = m
      BY ZenonT(40), <2>2, Splits
    <2> HIDE DEF q, r
    <2>5. p \in Nat /\ s \in 0..255 /\ p * 256 + s = q
      BY ZenonT(40), <2>4, Splits
    <2> HIDE DEF p, s
    <2>6. p \in 0..13 /\ n = 12481 + p * 65536 + s * 256 + r
      BY <2>2, <2>4, <2>5, <2>3, SMT DEF MaxVL
    <2>7. decodeLengthLength(241 + p) = 3 /\ decodeVLLength3(241 + p, s, r) = n
      BY <2>4, <2>5, <2>6, SMT DEF decodeLengthLength, decodeVLLength3
    <2>8. 241 + p \in Byte /\ s \in Byte /\ r \in Byte
      BY <2>4, <2>5, <2>6, SMT DEF Byte
    <2> QED
      BY <2>1, <2>7, <2>8, SMT
  <1> QED
    BY <1>1, <1>2, <1>3, SMT

-------------------------------------------------------------------------------
(* Concatenation.                                                          *)

\* Where the parts of data \o pre \o v \o rest are found.
LEMMA Parts ==
    ASSUME NEW S, NEW data \in Seq(S), NEW pre \in Seq(S), NEW v \in Seq(S), NEW rest \in Seq(S),
           NEW buf, buf = ((data \o pre) \o v) \o rest
    PROVE  /\ buf \in Seq(S)
           /\ Len(buf) = Len(data) + Len(pre) + Len(v) + Len(rest)
           /\ \A i \in 1..Len(pre) : buf[Len(data) + i] = pre[i]
           /\ SubSeq(buf, Len(data) + Len(pre) + 1, Len(data) + Len(pre) + Len(v)) = v
  <1>1. buf \in Seq(S) /\ Len(buf) = Len(data) + Len(pre) + Len(v) + Len(rest)
    BY SMT
  <1>2. \A i \in 1..Len(pre) : buf[Len(data) + i] = pre[i]
    BY SMT
  <1>3. \A i \in 1..Len(v) : buf[Len(data) + Len(pre) + i] = v[i]
    BY SMT
  <1>4. SubSeq(buf, Len(data) + Len(pre) + 1, Len(data) + Len(pre) + Len(v)) = v
    BY <1>1, <1>3, SMT
  <1> QED
    BY <1>1, <1>2, <1>4

\* What addVL adds, getVL gives back, whatever stands before and after it in
\* the buffer, for every string up to the longest a prefix can tell; and the
\* caller is told to skip exactly the bytes it took.
THEOREM VLRoundTrip ==
    ASSUME NEW data \in Seq(Byte), NEW v \in Seq(Byte), NEW rest \in Seq(Byte),
           Len(v) <= MaxVL
    PROVE  /\ getVL(addVL(data, v) \o rest, Len(data)) = Got(v)
           /\ Len(data) + getVLSkip(addVL(data, v) \o rest, Len(data)) = Len(addVL(data, v))
  <1> DEFINE n == Len(v)
             pre == encodeVL(n)
             k == Len(pre)
             L == Len(data)
             buf == ((data \o pre) \o v) \o rest
  <1>1. n \in Nat /\ n <= MaxVL /\ L \in Nat /\ Len(rest) \in Nat
    BY SMT
  <1>2. /\ pre \in Seq(Byte)
        /\ k \in 1..3
        /\ decodeLengthLength(pre[1]) = k
        /\ k = 1 => decodeVLLength1(pre[1]) = n
        /\ k = 2 => decodeVLLength2(pre[1], pre[2]) = n
        /\ k = 3 => decodeVLLength3(pre[1], pre[2], pre[3]) = n
    BY <1>1, Prefix, Zenon
  <1>3. addVL(data, v) \o rest = buf /\ addVL(data, v) = (data \o pre) \o v
    BY Zenon DEF addVL, addRaw
  <1> HIDE DEF pre
  <1>4. /\ Len(buf) = L + k + n + Len(rest)
        /\ \A i \in 1..k : buf[L + i] = pre[i]
        /\ SubSeq(buf, L + k + 1, L + k + n) = v
    BY SMTT(40), <1>2, Parts
  <1>5. Len((data \o pre) \o v) = L + k + n
    BY <1>2, SMT
  <1> HIDE DEF buf, n, k, L
  <1>6. buf[L + 1] = pre[1] /\ (k >= 2 => buf[L + 2] = pre[2]) /\ (k = 3 => buf[L + 3] = pre[3])
    BY <1>2, <1>4, SMT
  <1>7. getVLLength(buf, L) = Got(n)
    <2>1. k \in 1..3 /\ Len(buf) = L + k + n + Len(rest)
      BY <1>2, <1>4, Zenon
    <2>2. ~(L >= Len(buf)) /\ ~(L + k > Len(buf)) /\ k # 0
      BY <1>1, <2>1, SMT
    <2>3. decodeLengthLength(buf[L + 1]) = k
      BY <1>2, <1>6
    <2>4. CASE k = 1
      <3>1. decodeVLLength1(buf[L + 1]) = n
        BY <1>2, <1>6, <2>4, Zenon
      <3> QED
        BY <2>2, <2>3, <2>4, <3>1, Zenon DEF getVLLength
    <2>5. CASE k = 2
      <3>1. decodeVLLength2(buf[L + 1], buf[L + 2]) = n
        BY <1>2, <1>6, <2>5, SMT
      <3>2. k # 1
        BY <2>5
      <3> QED
        BY <2>2, <2>3, <2>5, <3>1, <3>2, Zenon DEF getVLLength
    <2>6. CASE k = 3
      <3>1. decodeVLLength3(buf[L + 1], buf[L + 2], buf[L + 3]) = n
        BY <1>2, <1>6, <2>6, SMT
      <3>2. k # 1 /\ k # 2
        BY <2>6
      <3> QED
        BY <2>2, <2>3, <3>1, <3>2, Zenon DEF getVLLength
    <2> QED
      BY <1>2, <2>4, <2>5, <2>6, SMT
  <1>8. getVL(buf, L) = Got(v)
    <2>1. Got(n).ok /\ Got(n).value = n
      BY DEF Got
    <2>2. getVL(buf, L) = getRaw(buf, L + k, n)
      BY <1>2, <1>6, <1>7, <2>1, Zenon DEF getVL
    <2>3. k \in 1..3 /\ Len(buf) = L + k + n + Len(rest)
      BY <1>2, <1>4, Zenon
    <2>4. ~((L + k) + n > Len(buf))
      BY <1>1, <2>3, SMT
    <2> QED
      BY <1>4, <2>2, <2>4, Zenon DEF getRaw
  <1>9. getVLSkip(buf, L) = k + n
    BY <1>2, <1>6, <1>7, SMT DEF getVLSkip, Got
  <1> QED
    BY <1>1, <1>2, <1>3, <1>5, <1>8, <1>9, SMT DEF L

\* The assertion at the end of addVL (encodeLengthLength agrees with the
\* prefix that was written) holds for the strings whose prefix has one or two
\* bytes and for the longest string, and for no other: the last test of
\* encodeLengthLength is the wrong way round.
THEOREM AddVLAsserts ==
    ASSUME NEW data \in Seq(Byte), NEW v \in Seq(Byte), Len(v) <= MaxVL
    PROVE  addVLAssertion(data, v) <=> Len(v) <= 12480 \/ Len(v) = MaxVL
  <1> DEFINE n == Len(v)
             pre == encodeVL(n)
  <1>1. n \in Nat /\ n <= MaxVL
    BY SMT
  <1>2. pre \in Seq(Byte)
    BY <1>1, Prefix, Zenon
  <1>3. /\ n <= 192 => Len(pre) = 1
        /\ 192 < n /\ n <= 12480 => Len(pre) = 2
        /\ 12480 < n => Len(pre) = 3
    BY <1>1, SMT DEF encodeVL
  <1>4. addVL(data, v) = (data \o pre) \o v
    BY Zenon DEF addVL, addRaw
  <1> HIDE DEF pre
  <1>5. Len((data \o pre) \o v) = Len(data) + Len(pre) + n
    BY <1>2, SMT
  <1>6. Len(pre) \in Nat /\ Len(data) \in Nat
    BY <1>2, SMT
  <1> HIDE DEF n
  <1>7. addVLAssertion(data, v) <=>
            encodeLengthLength(n) # 0 /\ Len(pre) = encodeLengthLength(n)
    <2>1. encodeLengthLength(n) \in Nat
      BY <1>1, SMT DEF encodeLengthLength
    <2>2. addVLAssertion(data, v) <=>
            /\ encodeLengthLength(n) # 0
            /\ Len(data) + Len(pre) + n = Len(data) + n + encodeLengthLength(n)
      BY <1>4, <1>5, Zenon DEF addVLAssertion, n
    <2> QED
      BY <1>1, <1>6, <2>1, <2>2, SMT
  <1>8. encodeLengthLength(n) # 0 /\ Len(pre) = encodeLengthLength(n)
        <=> n <= 12480 \/ n = MaxVL
    BY <1>1, <1>3, SMT DEF encodeLengthLength, MaxVL
  <1> QED
    BY <1>7, <1>8, SMT DEF n

-------------------------------------------------------------------------------
(* Numbers.                                                                *)

\* A 16-bit number is got back from where it was added (add16, get16).
THEOREM RoundTrip16 ==
    ASSUME NEW data \in Seq(Byte), NEW rest \in Seq(Byte), NEW i \in Nat, i < 256 * 256
    PROVE  get16(add16(data, i) \o rest, Len(data)) = Got(i)
  <1> DEFINE h == Shr8(i)
             b2 == i % 256
             buf == (data \o << h % 256, b2 >>) \o rest
  <1>1. h \in Nat /\ b2 \in 0..255 /\ h * 256 + b2 = i
    BY ZenonT(40), Splits
  <1>2. add16(data, i) \o rest = buf
    BY Zenon DEF add16
  <1> HIDE DEF h, b2
  <1>3. h < 256
    BY <1>1, SMT
  <1>4. h % 256 = h
    BY ZenonT(40), <1>1, <1>3, SmallByte
  <1>5. /\ ~(Len(data) + 2 > Len(buf))
        /\ buf[Len(data) + 1] = h
        /\ buf[Len(data) + 2] = b2
    BY <1>1, <1>4, SMT
  <1> HIDE DEF buf
  <1>6. get16(buf, Len(data)) = Got(h * 256 + b2)
    BY <1>5, Zenon DEF get16
  <1> QED
    BY ZenonT(40), <1>1, <1>2, <1>6

\* So is a 32-bit number (add32, get32).
THEOREM RoundTrip32 ==
    ASSUME NEW data \in Seq(Byte), NEW rest \in Seq(Byte),
           NEW i \in Nat, i < 256 * 256 * 256 * 256
    PROVE  get32(add32(data, i) \o rest, Len(data)) = Got(i)
  <1> DEFINE x1 == Shr8(i)
             x2 == Shr8(x1)
             x3 == Shr8(x2)
             b1 == x2 % 256
             b2 == x1 % 256
             b3 == i % 256
             buf == (data \o << x3 % 256, b1, b2, b3 >>) \o rest
  <1>1. add32(data, i) \o rest = buf
    BY Zenon DEF add32
  <1>2. x1 \in Nat /\ b3 \in 0..255 /\ x1 * 256 + b3 = i
    BY ZenonT(40), Splits
  <1> HIDE DEF x1, b3
  <1>3. x2 \in Nat /\ b2 \in 0..255 /\ x2 * 256 + b2 = x1
    BY ZenonT(40), <1>2, Splits
  <1> HIDE DEF x2, b2
  <1>4. x3 \in Nat /\ b1 \in 0..255 /\ x3 * 256 + b1 = x2
    BY ZenonT(40), <1>3, Splits
  <1> HIDE DEF x3, b1
  <1>5. x3 < 256
    BY <1>2, <1>3, <1>4, SMT
  <1>6. x3 % 256 = x3
    BY ZenonT(40), <1>4, <1>5, SmallByte
  <1>7. /\ ~(Len(data) + 4 > Len(buf))
        /\ buf[Len(data) + 1] = x3 /\ buf[Len(data) + 2] = b1
        /\ buf[Len(data) + 3] = b2 /\ buf[Len(data) + 4] = b3
    BY <1>2, <1>3, <1>4, <1>6, SMT
  <1> HIDE DEF buf
  <1>8. get32(buf, Len(data)) = Got(((x3 * 256 + b1) * 256 + b2) * 256 + b3)
    BY ZenonT(40), <1>7 DEF get32
  <1>9. (x3 * 256 + b1) * 256 + b2 = x1
    BY ZenonT(40), <1>3, <1>4
  <1> QED
    BY ZenonT(40), <1>1, <1>2, <1>8, <1>9

-------------------------------------------------------------------------------
(* Sequences.                                                              *)

\* Two sequences, one behind the other.
LEMMA CatIs ==
    ASSUME NEW E, NEW p \in Seq(E), NEW q \in Seq(E)
    PROVE  /\ p \o q \in Seq(E)
           /\ Len(p \o q) = Len(p) + Len(q)
           /\ \A i \in 1..Len(p) : (p \o q)[i] = p[i]
           /\ \A i \in 1..Len(q) : (p \o q)[Len(p) + i] = q[i]
<1>1. PICK m \in Nat, n \in Nat : m = Len(p) /\ n = Len(q)
  OBVIOUS
<1>2. PICK s : s = p \o q
  OBVIOUS
<1>3. /\ s \in Seq(E) /\ Len(s) = m + n
      /\ \A i \in 1..(m + n) : s[i] = IF i <= m THEN p[i] ELSE q[i - m]
  BY <1>1, <1>2, ConcatProperties
<1>4. \A i \in 1..m : i \in 1..(m + n) /\ i <= m
  OBVIOUS
<1>5. \A i \in 1..n : m + i \in 1..(m + n) /\ ~(m + i <= m) /\ (m + i) - m = i
  OBVIOUS
<1>6. \A i \in 1..m : s[i] = p[i]
  BY <1>3, <1>4
<1>7. \A i \in 1..n : s[m + i] = q[i]
  BY <1>3, <1>5
<1> QED BY <1>1, <1>2, <1>3, <1>6, <1>7

\* A part of a sequence.
LEMMA PartIs ==
    ASSUME NEW E, NEW s \in Seq(E), NEW a \in 1..(Len(s) + 1), NEW b \in (a - 1)..Len(s)
    PROVE  /\ SubSeq(s, a, b) \in Seq(E)
           /\ Len(SubSeq(s, a, b)) = (b + 1) - a
           /\ \A i \in 1..((b + 1) - a) : SubSeq(s, a, b)[i] = s[(a - 1) + i]
<1>1. PICK n \in Nat : n = Len(s)
  OBVIOUS
<1>2. a \in 1..(n + 1) /\ b \in (a - 1)..n /\ a \in Int /\ b \in Int
  BY <1>1
<1>3. \A i \in a..b : i \in 1..n
  BY <1>2
<1>4. \A i \in a..b : s[i] \in E
  BY <1>1, <1>3, ElementOfSeq
<1>5. PICK u : u = SubSeq(s, a, b)
  OBVIOUS
<1>6. /\ u \in Seq(E) /\ Len(u) = IF a <= b THEN b - a + 1 ELSE 0
      /\ \A i \in 1..(b - a + 1) : u[i] = s[a + i - 1]
  BY SMTT(40), <1>2, <1>4, <1>5, SubSeqProperties
<1>7. Len(u) = (b + 1) - a
  BY <1>2, <1>6
<1>8. \A i \in 1..((b + 1) - a) : i \in 1..(b - a + 1) /\ a + i - 1 = (a - 1) + i
  BY <1>2
<1>9. \A i \in 1..((b + 1) - a) : u[i] = s[(a - 1) + i]
  BY <1>6, <1>8
<1> QED BY <1>5, <1>6, <1>7, <1>9

LEMMA PartEq ==
    ASSUME NEW E, NEW s \in Seq(E), NEW a \in 1..(Len(s) + 1), NEW b \in (a - 1)..Len(s),
           NEW t \in Seq(E), Len(t) = (b + 1) - a, \A i \in 1..Len(t) : s[(a - 1) + i] = t[i]
    PROVE  SubSeq(s, a, b) = t
<1>1. PICK u : u = SubSeq(s, a, b)
  OBVIOUS
<1>2. u \in Seq(E) /\ Len(u) = Len(t) /\ \A i \in 1..Len(t) : u[i] = s[(a - 1) + i]
  BY <1>1, PartIs
<1>3. \A i \in 1..Len(u) : u[i] = t[i]
  BY <1>2
<1> QED BY <1>1, <1>2, <1>3, SeqEqual

\* What is put together is taken apart.
LEMMA CatParts ==
    ASSUME NEW E, NEW p \in Seq(E), NEW q \in Seq(E)
    PROVE  /\ SubSeq(p \o q, 1, Len(p)) = p
           /\ SubSeq(p \o q, Len(p) + 1, Len(p) + Len(q)) = q
<1>1. PICK m \in Nat, n \in Nat : m = Len(p) /\ n = Len(q)
  OBVIOUS
<1>2. PICK s : s = p \o q
  OBVIOUS
<1>3. /\ s \in Seq(E) /\ Len(s) = m + n
      /\ \A i \in 1..m : s[i] = p[i]
      /\ \A i \in 1..n : s[m + i] = q[i]
  BY <1>1, <1>2, CatIs
<1>4. SubSeq(s, 1, m) = p
  <2>1. 1 \in 1..(Len(s) + 1) /\ m \in (1 - 1)..Len(s) /\ Len(p) = (m + 1) - 1
    BY <1>1, <1>3
  <2>2. \A i \in 1..m : (1 - 1) + i = i
    OBVIOUS
  <2>3. \A i \in 1..Len(p) : s[(1 - 1) + i] = p[i]
    BY <1>1, <1>3, <2>2
  <2> QED BY <1>3, <2>1, <2>3, PartEq
<1>5. SubSeq(s, m + 1, m + n) = q
  <2>1. /\ m + 1 \in 1..(Len(s) + 1) /\ m + n \in ((m + 1) - 1)..Len(s)
        /\ Len(q) = ((m + n) + 1) - (m + 1)
    BY <1>1, <1>3
  <2>2. \A i \in 1..n : ((m + 1) - 1) + i = m + i
    OBVIOUS
  <2>3. \A i \in 1..Len(q) : s[((m + 1) - 1) + i] = q[i]
    BY <1>1, <1>3, <2>2
  <2> QED BY <1>3, <2>1, <2>3, PartEq
<1> QED BY <1>1, <1>2, <1>4, <1>5

-------------------------------------------------------------------------------
(* Prefixes.                                                               *)

\* The least of a set of numbers.
LEMMA MinIs ==
    ASSUME NEW T, T \subseteq Nat, T # {}
    PROVE  Min(T) \in T /\ \A y \in T : Min(T) <= y
<1>1. \E x \in T : \A y \in T : x <= y
  BY HasLeast
<1> QED
  BY <1>1 DEF Min

\* k is the first place of s at which no element of some stands.
FirstStop(s, some, k) ==
    /\ k \in 1..(Len(s) + 1)
    /\ \A i \in 1..(k - 1) : s[i] \in some
    /\ k <= Len(s) => s[k] \notin some

LEMMA StopIs ==
    ASSUME NEW E, NEW s \in Seq(E), NEW some
    PROVE  FirstStop(s, some, Stop(s, some))
<1>1. PICK n \in Nat : n = Len(s)
  OBVIOUS
<1>2. PICK T : T = {n + 1} \cup {i \in 1..n : s[i] \notin some}
  OBVIOUS
<1>3. T \subseteq Nat /\ T # {} /\ n + 1 \in T
  BY <1>2
<1>4. PICK k : k = Min(T)
  OBVIOUS
<1>5. k \in T /\ \A y \in T : k <= y
  BY <1>3, <1>4, MinIs
<1>6. k \in 1..(n + 1) /\ (k <= n => s[k] \notin some)
  BY <1>2, <1>5
<1>7. \A i \in 1..(k - 1) : s[i] \in some
  <2>1. SUFFICES ASSUME NEW i \in 1..(k - 1), s[i] \notin some PROVE FALSE
    OBVIOUS
  <2>2. i \in 1..n /\ ~(k <= i)
    BY <1>6
  <2> QED BY <1>2, <1>5, <2>1, <2>2
<1>8. Stop(s, some) = k
  BY <1>1, <1>2, <1>4 DEF Stop
<1> QED
  BY <1>1, <1>6, <1>7, <1>8 DEF FirstStop

\* There is one such place.
LEMMA StopUnique ==
    ASSUME NEW E, NEW s \in Seq(E), NEW some, NEW k, FirstStop(s, some, k)
    PROVE  Stop(s, some) = k
<1>1. PICK j : j = Stop(s, some) /\ FirstStop(s, some, j)
  BY StopIs
<1>2. PICK n \in Nat : n = Len(s)
  OBVIOUS
<1>3. /\ k \in 1..(n + 1) /\ (\A i \in 1..(k - 1) : s[i] \in some) /\ (k <= n => s[k] \notin some)
      /\ j \in 1..(n + 1) /\ (\A i \in 1..(j - 1) : s[i] \in some) /\ (j <= n => s[j] \notin some)
  BY <1>1, <1>2 DEF FirstStop
<1>4. ~(k < j)
  <2>1. SUFFICES ASSUME k < j PROVE FALSE
    OBVIOUS
  <2>2. k \in 1..(j - 1) /\ k <= n
    BY <1>3, <2>1
  <2> QED BY <1>3, <2>2
<1>5. ~(j < k)
  <2>1. SUFFICES ASSUME j < k PROVE FALSE
    OBVIOUS
  <2>2. j \in 1..(k - 1) /\ j <= n
    BY <1>3, <2>1
  <2> QED BY <1>3, <2>2
<1>6. j = k
  BY <1>3, <1>4, <1>5
<1> QED BY <1>1, <1>6

\* Every element of s is one of some.
AllIn(s, some) == \A i \in 1..Len(s) : s[i] \in some

\* s is empty or begins with something else.
BeginsOutside(s, some) == s = <<>> \/ s[1] \notin some

\* A prefix of some elements is cut where others begin.
LEMMA CutAt ==
    ASSUME NEW E, NEW p \in Seq(E), NEW q \in Seq(E), NEW some,
           AllIn(p, some), BeginsOutside(q, some)
    PROVE  Leading(p \o q, some) = p /\ Behind(p \o q, some) = q
<1>1. PICK m \in Nat, n \in Nat : m = Len(p) /\ n = Len(q)
  OBVIOUS
<1>2. PICK s : s = p \o q
  OBVIOUS
<1>3. /\ s \in Seq(E) /\ Len(s) = m + n
      /\ \A i \in 1..m : s[i] = p[i]
      /\ \A i \in 1..n : s[m + i] = q[i]
  BY <1>1, <1>2, CatIs
<1>4. FirstStop(s, some, m + 1)
  <2>1. m + 1 \in 1..(Len(s) + 1)
    BY <1>3
  <2>2. \A i \in 1..((m + 1) - 1) : s[i] \in some
    BY <1>1, <1>3 DEF AllIn
  <2>3. ASSUME m + 1 <= Len(s) PROVE s[m + 1] \notin some
    <3>1. 1 \in 1..n /\ n # 0
      BY <1>3, <2>3
    <3>2. q # <<>>
      BY <1>1, <3>1
    <3> QED BY <1>3, <3>1, <3>2 DEF BeginsOutside
  <2> QED BY <2>1, <2>2, <2>3 DEF FirstStop
<1>5. Stop(s, some) = m + 1
  BY <1>3, <1>4, StopUnique
<1>6. Leading(s, some) = SubSeq(s, 1, m) /\ Behind(s, some) = SubSeq(s, m + 1, m + n)
  BY <1>3, <1>5 DEF Leading, Behind
<1>7. SubSeq(s, 1, m) = p /\ SubSeq(s, m + 1, m + n) = q
  BY <1>1, <1>2, CatParts
<1> QED BY <1>2, <1>6, <1>7

\* Every sequence is cut somewhere.
LEMMA Cut ==
    ASSUME NEW E, NEW s \in Seq(E), NEW some
    PROVE  /\ Leading(s, some) \in Seq(E) /\ Behind(s, some) \in Seq(E)
           /\ s = Leading(s, some) \o Behind(s, some)
           /\ AllIn(Leading(s, some), some) /\ BeginsOutside(Behind(s, some), some)
<1>1. PICK n \in Nat : n = Len(s)
  OBVIOUS
<1>2. PICK k : k = Stop(s, some) /\ FirstStop(s, some, k)
  BY StopIs
<1>3. k \in 1..(n + 1) /\ (\A i \in 1..(k - 1) : s[i] \in some) /\ (k <= n => s[k] \notin some)
  BY <1>1, <1>2 DEF FirstStop
<1>4. PICK p, q : p = Leading(s, some) /\ q = Behind(s, some)
  OBVIOUS
<1>5. p = SubSeq(s, 1, k - 1) /\ q = SubSeq(s, k, n)
  BY <1>1, <1>2, <1>4 DEF Leading, Behind
<1>6. p \in Seq(E) /\ Len(p) = k - 1 /\ \A i \in 1..(k - 1) : p[i] = s[i]
  BY <1>1, <1>3, <1>5
<1>7. q \in Seq(E) /\ Len(q) = (n + 1) - k /\ \A i \in 1..((n + 1) - k) : q[i] = s[(k - 1) + i]
  BY <1>1, <1>3, <1>5
<1>8. s = p \o q
  <2>1. PICK u : u = p \o q
    OBVIOUS
  <2>2. u \in Seq(E) /\ Len(u) = n
    <3>1. u \in Seq(E) /\ Len(u) = Len(p) + Len(q)
      BY <1>6, <1>7, <2>1, CatIs
    <3> QED BY <1>3, <1>6, <1>7, <3>1
  <2>3. \A i \in 1..n : u[i] = s[i]
    <3>1. SUFFICES ASSUME NEW i \in 1..n PROVE u[i] = s[i]
      OBVIOUS
    <3>2. CASE i <= k - 1
      <4>1. i \in 1..(k - 1)
        BY <1>3, <3>2
      <4>2. u[i] = p[i]
        BY <1>6, <1>7, <2>1, <4>1
      <4> QED BY <1>6, <4>1, <4>2
    <3>3. CASE ~(i <= k - 1)
      <4>1. PICK j \in Nat : j = i - (k - 1) /\ j \in 1..((n + 1) - k) /\ (k - 1) + j = i
        BY <1>3, <3>3
      <4>2. u[(k - 1) + j] = q[j]
        BY SMTT(40), <1>6, <1>7, <2>1, <4>1
      <4> QED BY <1>7, <4>1, <4>2
    <3> QED BY <3>2, <3>3
  <2>4. u = s
    BY <1>1, <2>2, <2>3
  <2> QED BY <2>1, <2>4
<1>9. AllIn(p, some)
  BY <1>3, <1>6 DEF AllIn
<1>10. BeginsOutside(q, some)
  <2>1. SUFFICES ASSUME q # <<>> PROVE q[1] \notin some
    BY DEF BeginsOutside
  <2>2. Len(q) # 0
    BY <1>7, <2>1
  <2>3. 1 \in 1..((n + 1) - k) /\ k <= n /\ (k - 1) + 1 = k
    BY <1>3, <1>7, <2>2
  <2>4. q[1] = s[k]
    BY SMTT(40), <1>7, <2>3
  <2> QED BY <1>3, <2>3, <2>4
<1> QED BY <1>4, <1>6, <1>7, <1>8, <1>9, <1>10

-------------------------------------------------------------------------------
(* Long division and multiplication.                                       *)

Digit == 0..57

\* One round of a division: v is the digit and t remains.
DivideStep(h, c, v, t) ==
    DivideByte(h, c) = <<Append(h[1], v), t>> /\ 58 * v + t = 256 * h[2] + c

LEMMA DivideByteIs ==
    ASSUME NEW h \in Seq(Byte) \X Digit, NEW c \in Byte
    PROVE  \E v \in Byte, t \in Digit : DivideStep(h, c, v, t)
<1>1. PICK a \in 0..57, b \in 0..255 : a = h[2] /\ b = c
  BY DEF Byte, Digit
<1>2. PICK w : w = 256 * a + b
  OBVIOUS
<1>3. w \in Nat /\ w < 58 * 256
  BY <1>2
<1>4. w \div 58 \in 0..255 /\ w % 58 \in 0..57 /\ 58 * (w \div 58) + (w % 58) = w
  BY <1>3
<1>5. DivideByte(h, c) = <<Append(h[1], w \div 58), w % 58>>
  BY <1>1, <1>2 DEF DivideByte
<1>6. w \div 58 \in Byte /\ w % 58 \in Digit
  BY <1>4 DEF Byte, Digit
<1>7. DivideStep(h, c, w \div 58, w % 58)
  BY <1>1, <1>2, <1>4, <1>5 DEF DivideStep
<1> QED BY <1>6, <1>7

Dividing(number, f) ==
    /\ f \in [0..Len(number) -> (Seq(Byte) \X Digit)]
    /\ f[0] = <<<<>>, 0>>
    /\ \A i \in 1..Len(number) : f[i] = DivideByte(f[i - 1], number[i])

\* The rounds of a division.
LEMMA DividedRuns ==
    ASSUME NEW number \in Seq(Byte)
    PROVE  \E f : Dividing(number, f) /\ Divided(number) = Quotient(f[Len(number)])
<1>1. PICK n \in Nat : n = Len(number)
  OBVIOUS
<1>2. PICK S : S = (Seq(Byte) \X Digit)
  OBVIOUS
<1> DEFINE e(i, x) == DivideByte(x, number[i])
           s == [i \in 1..n |-> [x \in S |-> e(i, x)]]
<1>3. <<<<>>, 0>> \in S
  <2>1. <<>> \in Seq(Byte) /\ 0 \in Digit
    BY DEF Digit
  <2> QED BY <1>2, <2>1
<1>4. ASSUME NEW i \in 1..n, NEW x \in S PROVE e(i, x) \in S
  <2>1. number[i] \in Byte
    BY <1>1
  <2>2. PICK v \in Byte, t \in Digit : DivideStep(x, number[i], v, t)
    BY <1>2, <2>1, DivideByteIs
  <2>3. Append(x[1], v) \in Seq(Byte)
    BY <1>2
  <2>4. <<Append(x[1], v), t>> \in S
    BY <1>2, <2>3
  <2>5. e(i, x) = <<Append(x[1], v), t>>
    BY <2>2 DEF DivideStep
  <2> QED BY <2>4, <2>5
<1>5. \A i, x : e(i, x) = DivideByte(x, number[i])
  OBVIOUS
<1> HIDE DEF e
<1>6. s \in [1..n -> [S -> S]] /\ \A i \in 1..n : \A x \in S : s[i][x] = e(i, x)
  BY <1>4
<1> HIDE DEF s
<1>7. PICK g : Follows(g, n, S, <<<<>>, 0>>, s)
  BY <1>3, <1>6, FollowsExists
<1>8. g = [i \in 0..n |-> IF i = 0 THEN <<<<>>, 0>> ELSE e(i, g[i - 1])]
  <2>1. \A i \in 0..n : i # 0 => i \in 1..n /\ i - 1 \in 0..n
    OBVIOUS
  <2>2. \A i \in 1..n : g[i] = s[i][g[i - 1]]
    BY <1>7 DEF Follows
  <2>3. \A i \in 0..n : g[i] \in S
    BY <1>7 DEF Follows
  <2>4. \A i \in 0..n : i # 0 => g[i] = e(i, g[i - 1])
    BY <1>6, <2>1, <2>2, <2>3
  <2>5. g[0] = <<<<>>, 0>> /\ g = [i \in 0..n |-> g[i]]
    BY <1>7 DEF Follows
  <2> QED BY <2>4, <2>5
<1>9. PICK f : f = CHOOSE h : h = [i \in 0..n |-> IF i = 0 THEN <<<<>>, 0>> ELSE e(i, h[i - 1])]
  OBVIOUS
<1>10. f = [i \in 0..n |-> IF i = 0 THEN <<<<>>, 0>> ELSE e(i, f[i - 1])]
  BY <1>8, <1>9
<1>11. Divided(number) = Quotient(f[n])
  BY <1>1, <1>9 DEF Divided, e
<1>12. Follows(f, n, S, <<<<>>, 0>>, s)
  <2>1. f[0] = <<<<>>, 0>> /\ f = [i \in 0..n |-> f[i]]
    BY <1>10
  <2>2. \A i \in 1..n : i \in 0..n /\ i # 0
    OBVIOUS
  <2>3. \A i \in 1..n : f[i - 1] \in S => f[i] = s[i][f[i - 1]]
    BY <1>6, <1>10, <2>2
  <2> QED BY <1>3, <1>6, <2>1, <2>3, FollowsAll
<1>13. f \in [0..n -> S] /\ f[0] = <<<<>>, 0>>
  BY <1>12 DEF Follows
<1>14. \A i \in 1..n : f[i] = DivideByte(f[i - 1], number[i])
  <2>1. \A i \in 1..n : i \in 0..n /\ i # 0
    OBVIOUS
  <2>2. \A i \in 1..n : f[i] = e(i, f[i - 1])
    BY <1>10, <2>1
  <2> QED BY <1>5, <2>2
<1>15. Dividing(number, f)
  BY <1>1, <1>2, <1>13, <1>14 DEF Dividing
<1> QED
  BY <1>1, <1>11, <1>15


\* The digits d and the remainders r of the division of x by 58.
LongDivision(x, d, r) ==
    /\ d \in Seq(Byte) /\ Len(d) = Len(x)
    /\ r \in [0..Len(x) -> Digit] /\ r[0] = 0
    /\ \A k \in 1..Len(x) : 58 * d[k] + r[k] = 256 * r[k - 1] + x[k]

LEMMA DividedIs ==
    ASSUME NEW x \in Seq(Byte)
    PROVE  \E d, r : LongDivision(x, d, r) /\ Divided(x) = <<Trimmed(d), r[Len(x)]>>
<1>1. PICK n \in Nat : n = Len(x)
  OBVIOUS
<1>2. PICK f : Dividing(x, f) /\ Divided(x) = Quotient(f[n])
  BY <1>1, DividedRuns
<1>3. /\ f \in [0..n -> Seq(Byte) \X Digit] /\ f[0] = <<<<>>, 0>>
      /\ \A i \in 1..n : f[i] = DivideByte(f[i - 1], x[i])
  BY <1>1, <1>2 DEF Dividing
<1>4. PICK r : r = [i \in 0..n |-> f[i][2]]
  OBVIOUS
<1>5. r \in [0..n -> Digit] /\ r[0] = 0 /\ \A i \in 0..n : r[i] = f[i][2] /\ f[i][1] \in Seq(Byte)
  BY <1>3, <1>4
<1>6. \A i \in 0..n : r[i] \in 0..57
  BY <1>5 DEF Digit
<1> DEFINE Good(i) == /\ Len(f[i][1]) = i
                      /\ \A k \in 1..i : 58 * f[i][1][k] + r[k] = 256 * r[k - 1] + x[k]
           T == {i \in Nat : i <= n => Good(i)}
<1>7. 0 \in T
  BY <1>3
<1>8. ASSUME NEW i \in Nat, i \in T PROVE i + 1 \in T
  <2>1. SUFFICES ASSUME i + 1 <= n PROVE Good(i + 1)
    OBVIOUS
  <2>2. i <= n /\ i \in 0..n /\ i + 1 \in 0..n /\ i + 1 \in 1..n /\ (i + 1) - 1 = i
    BY <2>1
  <2>3. Good(i)
    BY <1>8, <2>2
  <2>4. f[i + 1] = DivideByte(f[i], x[i + 1]) /\ f[i] \in Seq(Byte) \X Digit
    BY <1>3, <2>2
  <2>5. x[i + 1] \in Byte
    BY <1>1, <2>2
  <2>6. PICK v \in Byte, t \in Digit :
            f[i + 1] = <<Append(f[i][1], v), t>> /\ 58 * v + t = 256 * f[i][2] + x[i + 1]
    <3>1. PICK v \in Byte, t \in Digit : DivideStep(f[i], x[i + 1], v, t)
      BY <2>4, <2>5, DivideByteIs
    <3> QED BY <2>4, <3>1 DEF DivideStep
  <2>7. 58 * v + r[i + 1] = 256 * r[i] + x[i + 1]
    <3>1. f[i + 1][2] = t
      BY <2>6
    <3>2. r[i + 1] = t /\ r[i] = f[i][2]
      BY <1>5, <2>2, <3>1
    <3> QED BY <2>6, <3>2
  <2>8. PICK u \in Seq(Byte) : u = f[i][1]
    BY <1>5, <2>2
  <2>9. /\ Len(u) = i
        /\ \A k \in 1..i : 58 * u[k] + r[k] = 256 * r[k - 1] + x[k]
    BY <2>3, <2>8
  <2>10. PICK w : w = f[i + 1][1]
    OBVIOUS
  <2>11. Len(w) = i + 1 /\ w[i + 1] = v /\ \A k \in 1..i : w[k] = u[k]
    BY <2>6, <2>8, <2>9, <2>10, AppendProperties
  <2>12. ASSUME NEW k \in 1..(i + 1) PROVE 58 * w[k] + r[k] = 256 * r[k - 1] + x[k]
    <3>1. CASE k = i + 1
      <4>1. k - 1 = i
        BY <3>1
      <4> QED BY <2>7, <2>11, <3>1, <4>1
    <3>2. CASE k # i + 1
      <4>1. k \in 1..i
        BY <3>2
      <4> QED BY <2>9, <2>11, <4>1
    <3> QED BY <3>1, <3>2
  <2> QED BY <2>10, <2>11, <2>12
<1> HIDE DEF T
<1>9. Nat \subseteq T
  BY <1>7, <1>8, NatSet
<1>10. Good(n)
  BY <1>9 DEF T
<1>11. PICK d : d = f[n][1]
  OBVIOUS
<1>12. n \in 0..n
  OBVIOUS
<1>13. d \in Seq(Byte) /\ Len(d) = n /\ \A k \in 1..n : 58 * d[k] + r[k] = 256 * r[k - 1] + x[k]
  BY <1>5, <1>10, <1>11, <1>12
<1>14. LongDivision(x, d, r)
  BY <1>1, <1>5, <1>13 DEF LongDivision
<1>15. Divided(x) = <<Trimmed(d), r[n]>>
  BY <1>2, <1>5, <1>11, <1>12 DEF Quotient
<1> QED BY <1>1, <1>14, <1>15

\* One round of a multiplication: v is the byte and t is carried.
MultiplyStep(l, b, v, t) ==
    MultiplyByte(l, b) = <<t, <<v>> \o l[2]>> /\ 58 * b + l[1] = 256 * t + v

LEMMA MultiplyByteIs ==
    ASSUME NEW l \in Digit \X Seq(Byte), NEW b \in Byte
    PROVE  \E v \in Byte, t \in Digit : MultiplyStep(l, b, v, t)
<1>1. PICK a \in 0..57, c \in 0..255 : a = l[1] /\ c = b
  BY DEF Byte, Digit
<1>2. PICK w : w = 58 * c + a
  OBVIOUS
<1>3. w \in Nat /\ w < 256 * 58
  BY <1>2
<1>4. w \div 256 \in 0..57 /\ w % 256 \in 0..255 /\ 256 * (w \div 256) + (w % 256) = w
  BY <1>3
<1>5. MultiplyByte(l, b) = <<w \div 256, <<w % 256>> \o l[2]>>
  BY <1>1, <1>2 DEF MultiplyByte
<1>6. w \div 256 \in Digit /\ w % 256 \in Byte
  BY <1>4 DEF Byte, Digit
<1>7. MultiplyStep(l, b, w % 256, w \div 256)
  BY <1>1, <1>2, <1>4, <1>5 DEF MultiplyStep
<1> QED BY SMTT(40), <1>6, <1>7

Multiplying(number, digit, f) ==
    /\ f \in [0..Len(number) -> (Digit \X Seq(Byte))]
    /\ f[0] = <<digit, <<>>>>
    /\ \A i \in 1..Len(number) : f[i] = MultiplyByte(f[i - 1], number[Len(number) + 1 - i])

\* The rounds of a multiplication.
LEMMA ExtendedRuns ==
    ASSUME NEW number \in Seq(Byte), NEW digit \in Digit
    PROVE  \E f : Multiplying(number, digit, f) /\ Extended(number, digit) = WithCarry(f[Len(number)])
<1>1. PICK n \in Nat : n = Len(number)
  OBVIOUS
<1>2. PICK S : S = (Digit \X Seq(Byte))
  OBVIOUS
<1> DEFINE e(i, x) == MultiplyByte(x, number[Len(number) + 1 - i])
           s == [i \in 1..n |-> [x \in S |-> e(i, x)]]
<1>3. <<digit, <<>>>> \in S
  <2>1. <<>> \in Seq(Byte)
    OBVIOUS
  <2> QED BY <1>2, <2>1
<1>4. ASSUME NEW i \in 1..n, NEW x \in S PROVE e(i, x) \in S
  <2>1. Len(number) + 1 - i \in 1..Len(number)
    BY <1>1
  <2>2. PICK b \in Byte : b = number[Len(number) + 1 - i]
    BY <2>1, ElementOfSeq
  <2>3. PICK v \in Byte, t \in Digit : MultiplyStep(x, b, v, t)
    BY <1>2, MultiplyByteIs
  <2>4. x[2] \in Seq(Byte) /\ <<v>> \in Seq(Byte)
    BY <1>2
  <2>5. <<v>> \o x[2] \in Seq(Byte)
    BY <2>4, ConcatProperties
  <2>6. <<t, <<v>> \o x[2]>> \in S
    BY <1>2, <2>5
  <2>7. e(i, x) = <<t, <<v>> \o x[2]>>
    BY <2>2, <2>3 DEF MultiplyStep
  <2> QED BY <2>6, <2>7
<1>5. \A i, x : e(i, x) = MultiplyByte(x, number[Len(number) + 1 - i])
  OBVIOUS
<1> HIDE DEF e
<1>6. s \in [1..n -> [S -> S]] /\ \A i \in 1..n : \A x \in S : s[i][x] = e(i, x)
  BY <1>4
<1> HIDE DEF s
<1>7. PICK g : Follows(g, n, S, <<digit, <<>>>>, s)
  BY <1>3, <1>6, FollowsExists
<1>8. g = [i \in 0..n |-> IF i = 0 THEN <<digit, <<>>>> ELSE e(i, g[i - 1])]
  <2>1. \A i \in 0..n : i # 0 => i \in 1..n /\ i - 1 \in 0..n
    OBVIOUS
  <2>2. \A i \in 1..n : g[i] = s[i][g[i - 1]]
    BY <1>7 DEF Follows
  <2>3. \A i \in 0..n : g[i] \in S
    BY <1>7 DEF Follows
  <2>4. \A i \in 0..n : i # 0 => g[i] = e(i, g[i - 1])
    BY <1>6, <2>1, <2>2, <2>3
  <2>5. g[0] = <<digit, <<>>>> /\ g = [i \in 0..n |-> g[i]]
    BY <1>7 DEF Follows
  <2> QED BY <2>4, <2>5
<1>9. PICK f : f = CHOOSE h : h = [i \in 0..n |-> IF i = 0 THEN <<digit, <<>>>> ELSE e(i, h[i - 1])]
  OBVIOUS
<1>10. f = [i \in 0..n |-> IF i = 0 THEN <<digit, <<>>>> ELSE e(i, f[i - 1])]
  BY <1>8, <1>9
<1>11. Extended(number, digit) = WithCarry(f[n])
  BY <1>1, <1>9 DEF Extended, e
<1>12. Follows(f, n, S, <<digit, <<>>>>, s)
  <2>1. f[0] = <<digit, <<>>>> /\ f = [i \in 0..n |-> f[i]]
    BY <1>10
  <2>2. \A i \in 1..n : i \in 0..n /\ i # 0
    OBVIOUS
  <2>3. \A i \in 1..n : f[i - 1] \in S => f[i] = s[i][f[i - 1]]
    BY <1>6, <1>10, <2>2
  <2> QED BY <1>3, <1>6, <2>1, <2>3, FollowsAll
<1>13. f \in [0..n -> S] /\ f[0] = <<digit, <<>>>>
  BY <1>12 DEF Follows
<1>14. \A i \in 1..n : f[i] = MultiplyByte(f[i - 1], number[Len(number) + 1 - i])
  <2>1. \A i \in 1..n : i \in 0..n /\ i # 0
    OBVIOUS
  <2>2. \A i \in 1..n : f[i] = e(i, f[i - 1])
    BY <1>10, <2>1
  <2> QED BY <1>5, <2>2
<1>15. Multiplying(number, digit, f)
  BY <1>1, <1>2, <1>13, <1>14 DEF Multiplying
<1> QED
  BY <1>1, <1>11, <1>15

\* The bytes y and the carries c of 58 times x and a digit, from the low end.
LongProduct(x, digit, y, c) ==
    /\ y \in Seq(Byte) /\ Len(y) = Len(x)
    /\ c \in [0..Len(x) -> Digit] /\ c[0] = digit
    /\ \A j \in 1..Len(x) :
           58 * x[Len(x) + 1 - j] + c[j - 1] = 256 * c[j] + y[Len(x) + 1 - j]

LEMMA ExtendedIs ==
    ASSUME NEW x \in Seq(Byte), NEW digit \in Digit
    PROVE  \E y, c : LongProduct(x, digit, y, c) /\ Extended(x, digit) = Trimmed(<<c[Len(x)]>>) \o y
<1>1. PICK n \in Nat : n = Len(x)
  OBVIOUS
<1>2. PICK f : Multiplying(x, digit, f) /\ Extended(x, digit) = WithCarry(f[n])
  BY <1>1, ExtendedRuns
<1>3. /\ f \in [0..n -> Digit \X Seq(Byte)] /\ f[0] = <<digit, <<>>>>
      /\ \A i \in 1..n : f[i] = MultiplyByte(f[i - 1], x[n + 1 - i])
  BY <1>1, <1>2 DEF Multiplying
<1>4. PICK c : c = [i \in 0..n |-> f[i][1]]
  OBVIOUS
<1>5. c \in [0..n -> Digit] /\ c[0] = digit /\ \A i \in 0..n : c[i] = f[i][1] /\ f[i][2] \in Seq(Byte)
  BY <1>3, <1>4
<1> DEFINE Good(i) == /\ Len(f[i][2]) = i
                      /\ \A j \in 1..i : 58 * x[n + 1 - j] + c[j - 1] = 256 * c[j] + f[i][2][i + 1 - j]
           T == {i \in Nat : i <= n => Good(i)}
<1>6. 0 \in T
  BY <1>3
<1>7. ASSUME NEW i \in Nat, i \in T PROVE i + 1 \in T
  <2>1. SUFFICES ASSUME i + 1 <= n PROVE Good(i + 1)
    OBVIOUS
  <2>2. i <= n /\ i \in 0..n /\ i + 1 \in 0..n /\ i + 1 \in 1..n /\ (i + 1) - 1 = i
    BY <2>1
  <2>3. Good(i)
    BY <1>7, <2>2
  <2>4. f[i + 1] = MultiplyByte(f[i], x[n + 1 - (i + 1)]) /\ f[i] \in Digit \X Seq(Byte)
    BY <1>3, <2>2
  <2>5. n + 1 - (i + 1) \in 1..n
    BY <2>2
  <2>6. PICK b \in Byte : b = x[n + 1 - (i + 1)]
    BY <1>1, <2>5, ElementOfSeq
  <2>7. PICK v \in Byte, t \in Digit : MultiplyStep(f[i], b, v, t)
    BY <2>4, MultiplyByteIs
  <2>8. f[i + 1] = <<t, <<v>> \o f[i][2]>> /\ 58 * b + f[i][1] = 256 * t + v
    BY <2>4, <2>6, <2>7 DEF MultiplyStep
  <2>9. c[i + 1] = t /\ c[i] = f[i][1] /\ f[i + 1][2] = <<v>> \o f[i][2]
    <3>1. f[i + 1][1] = t /\ f[i + 1][2] = <<v>> \o f[i][2]
      BY SMTT(40), <2>8
    <3> QED BY <1>5, <2>2, <3>1
  <2>10. 58 * b + c[i] = 256 * c[i + 1] + v
    BY <2>8, <2>9
  <2>11. PICK u \in Seq(Byte) : u = f[i][2]
    BY <1>5, <2>2
  <2>12. /\ Len(u) = i
         /\ \A j \in 1..i : 58 * x[n + 1 - j] + c[j - 1] = 256 * c[j] + u[i + 1 - j]
    BY <2>3, <2>11
  <2>13. PICK w : w = f[i + 1][2]
    OBVIOUS
  <2>14. w = <<v>> \o u /\ <<v>> \in Seq(Byte) /\ Len(<<v>>) = 1 /\ <<v>>[1] = v /\ 1 \in 1..1
    BY <2>9, <2>11, <2>13
  <2>15. Len(w) = 1 + i /\ w[1] = v /\ \A k \in 1..i : w[1 + k] = u[k]
    BY <2>12, <2>14, CatIs
  <2>16. ASSUME NEW j \in 1..(i + 1)
         PROVE  58 * x[n + 1 - j] + c[j - 1] = 256 * c[j] + w[(i + 1) + 1 - j]
    <3>1. CASE j = i + 1
      <4>1. j - 1 = i /\ (i + 1) + 1 - j = 1
        BY <3>1
      <4> QED BY <2>6, <2>10, <2>15, <3>1, <4>1
    <3>2. CASE j # i + 1
      <4>1. j \in 1..i /\ i + 1 - j \in 1..i /\ (i + 1) + 1 - j = 1 + (i + 1 - j)
        BY <3>2
      <4>2. w[(i + 1) + 1 - j] = u[i + 1 - j]
        BY <2>15, <4>1
      <4> QED BY <2>12, <4>1, <4>2
    <3> QED BY <3>1, <3>2
  <2>17. Len(w) = i + 1
    BY <2>15
  <2> QED BY ZenonT(40), <2>13, <2>16, <2>17
<1> HIDE DEF T
<1>8. Nat \subseteq T
  BY <1>6, <1>7, NatSet
<1>9. Good(n)
  BY SMTT(40), <1>8 DEF T
<1>10. PICK y : y = f[n][2]
  OBVIOUS
<1>11. n \in 0..n
  OBVIOUS
<1>12. y \in Seq(Byte) /\ Len(y) = n
       /\ \A j \in 1..n : 58 * x[n + 1 - j] + c[j - 1] = 256 * c[j] + y[n + 1 - j]
  BY <1>5, <1>9, <1>10, <1>11
<1>13. LongProduct(x, digit, y, c)
  BY <1>1, <1>5, <1>12 DEF LongProduct
<1>14. Extended(x, digit) = Trimmed(<<c[n]>>) \o y
  BY <1>2, <1>5, <1>10, <1>11 DEF WithCarry
<1> QED BY <1>1, <1>13, <1>14

\* There is one such product.
LEMMA ExtendedUnique ==
    ASSUME NEW x \in Seq(Byte), NEW digit \in Digit, NEW y, NEW c, LongProduct(x, digit, y, c)
    PROVE  Extended(x, digit) = Trimmed(<<c[Len(x)]>>) \o y
<1>1. PICK n \in Nat : n = Len(x)
  OBVIOUS
<1>2. PICK z, d : LongProduct(x, digit, z, d) /\ Extended(x, digit) = Trimmed(<<d[n]>>) \o z
  BY <1>1, ExtendedIs
<1>3. /\ y \in Seq(Byte) /\ Len(y) = n /\ c \in [0..n -> Digit] /\ c[0] = digit
      /\ \A j \in 1..n : 58 * x[n + 1 - j] + c[j - 1] = 256 * c[j] + y[n + 1 - j]
  BY <1>1 DEF LongProduct
<1>4. /\ z \in Seq(Byte) /\ Len(z) = n /\ d \in [0..n -> Digit] /\ d[0] = digit
      /\ \A j \in 1..n : 58 * x[n + 1 - j] + d[j - 1] = 256 * d[j] + z[n + 1 - j]
  BY <1>1, <1>2 DEF LongProduct
<1>5. ASSUME NEW j \in 1..n, c[j - 1] = d[j - 1]
      PROVE  c[j] = d[j] /\ y[n + 1 - j] = z[n + 1 - j]
  <2>1. j \in 0..n /\ n + 1 - j \in 1..n
    OBVIOUS
  <2>2. c[j] \in Digit /\ d[j] \in Digit
    BY <1>3, <1>4, <2>1
  <2>3. y[n + 1 - j] \in Byte /\ z[n + 1 - j] \in Byte
    BY SMTT(40), <1>3, <1>4, <2>1, ElementOfSeq
  <2>4. PICK a \in 0..57, b \in 0..57, p \in 0..255, q \in 0..255 :
            a = c[j] /\ b = d[j] /\ p = y[n + 1 - j] /\ q = z[n + 1 - j]
    BY <2>2, <2>3 DEF Digit, Byte
  <2>5. 256 * a + p = 256 * b + q
    BY <1>3, <1>4, <1>5, <2>4
  <2>6. a = b /\ p = q
    BY <2>5
  <2> QED BY <2>4, <2>6
<1> DEFINE T == {i \in Nat : i <= n => c[i] = d[i]}
<1>6. 0 \in T
  BY <1>3, <1>4
<1>7. ASSUME NEW i \in Nat, i \in T PROVE i + 1 \in T
  <2>1. SUFFICES ASSUME i + 1 <= n PROVE c[i + 1] = d[i + 1]
    OBVIOUS
  <2>2. i <= n /\ i + 1 \in 1..n /\ (i + 1) - 1 = i
    BY <2>1
  <2> QED BY <1>5, <1>7, <2>2
<1> HIDE DEF T
<1>8. Nat \subseteq T
  BY <1>6, <1>7, NatSet
<1>9. ASSUME NEW j \in 0..n PROVE c[j] = d[j]
  <2>1. j \in T /\ j <= n
    BY <1>8
  <2> QED BY <2>1 DEF T
<1>10. c[n] = d[n]
  BY <1>9
<1>11. y = z
  <2>1. ASSUME NEW k \in 1..n PROVE y[k] = z[k]
    <3>1. PICK j \in 1..n : j = n + 1 - k /\ n + 1 - j = k /\ j - 1 \in 0..n
      OBVIOUS
    <3>2. y[n + 1 - j] = z[n + 1 - j]
      BY <1>5, <1>9, <3>1
    <3> QED BY <3>1, <3>2
  <2> QED BY <1>3, <1>4, <2>1, SeqEqual
<1> QED BY <1>1, <1>2, <1>10, <1>11

-------------------------------------------------------------------------------
(* A division undone.                                                      *)

LEMMA TrimmedIs ==
    ASSUME NEW x \in Seq(Byte)
    PROVE  /\ Trimmed(x) \in Seq(Byte) /\ BeginsOutside(Trimmed(x), {0})
           /\ Leading(x, {0}) \in Seq(Byte) /\ AllIn(Leading(x, {0}), {0})
           /\ x = Leading(x, {0}) \o Trimmed(x)
BY Cut DEF Trimmed

LEMMA TrimmedSame ==
    ASSUME NEW x \in Seq(Byte), BeginsOutside(x, {0})
    PROVE  Trimmed(x) = x
<1>1. <<>> \in Seq(Byte) /\ AllIn(<<>>, {0})
  BY DEF AllIn
<1>2. <<>> \o x = x
  BY ConcatEmptySeq
<1>3. Behind(<<>> \o x, {0}) = x
  BY <1>1, CutAt
<1> QED BY <1>2, <1>3 DEF Trimmed

LEMMA TrimmedZero ==
    ASSUME NEW x \in Seq(Byte), BeginsOutside(x, {0})
    PROVE  Trimmed(<<0>> \o x) = x
<1>1. <<0>> \in Seq(Byte) /\ AllIn(<<0>>, {0})
  BY DEF AllIn, Byte
<1>2. Behind(<<0>> \o x, {0}) = x
  BY <1>1, CutAt
<1> QED BY <1>2 DEF Trimmed

LEMMA TrimmedOne ==
    ASSUME NEW b \in Byte
    PROVE  Trimmed(<<b>>) = IF b = 0 THEN <<>> ELSE <<b>>
<1>1. CASE b = 0
  <2>1. <<>> \in Seq(Byte) /\ BeginsOutside(<<>>, {0})
    BY DEF BeginsOutside
  <2>2. <<0>> \in Seq(Byte)
    BY DEF Byte
  <2>3. <<0>> \o <<>> = <<0>>
    BY <2>2, ConcatEmptySeq
  <2> QED BY <1>1, <2>1, <2>3, TrimmedZero
<1>2. CASE b # 0
  <2>1. <<b>> \in Seq(Byte) /\ BeginsOutside(<<b>>, {0})
    BY <1>2 DEF BeginsOutside
  <2> QED BY <1>2, <2>1, TrimmedSame
<1> QED BY <1>1, <1>2

\* As many divisions end a number at the latest.
Rounds(x) == IF x = <<>> THEN 0 ELSE IF x[1] < 58 THEN 2 * Len(x) - 1 ELSE 2 * Len(x)

\* q and t are quotient and remainder of x.
Divides(x, q, t) ==
    /\ Divided(x) = <<q, t>>
    /\ Extended(q, t) = x
    /\ BeginsOutside(q, {0})
    /\ Rounds(q) < Rounds(x)

LEMMA RoundsType ==
    ASSUME NEW x \in Seq(Byte)
    PROVE  Rounds(x) \in Nat /\ Rounds(x) <= 2 * Len(x) /\ (Rounds(x) = 0 => x = <<>>)
<1>1. CASE x = <<>>
  BY <1>1 DEF Rounds
<1>2. CASE x # <<>>
  <2>1. PICK n \in Nat : n = Len(x) /\ n # 0
    BY <1>2, EmptySeq
  <2>2. Rounds(x) = 2 * n - 1 \/ Rounds(x) = 2 * n
    BY <1>2, <2>1 DEF Rounds
  <2>3. Rounds(x) \in Nat /\ Rounds(x) <= 2 * n /\ Rounds(x) # 0
    BY <2>1, <2>2
  <2> QED BY <2>1, <2>3
<1> QED BY <1>1, <1>2

\* When the first digit of the quotient is not 0.
LEMMA DividesLong ==
    ASSUME NEW x \in Seq(Byte), x # <<>>, x[1] # 0, NEW d, NEW r, LongDivision(x, d, r),
           Divided(x) = <<Trimmed(d), r[Len(x)]>>, d[1] # 0
    PROVE  Divides(x, d, r[Len(x)])
<1>1. PICK n \in Nat : n = Len(x) /\ n # 0
  BY EmptySeq
<1>2. /\ d \in Seq(Byte) /\ Len(d) = n /\ r \in [0..n -> Digit] /\ r[0] = 0
      /\ \A k \in 1..n : 58 * d[k] + r[k] = 256 * r[k - 1] + x[k]
  BY <1>1 DEF LongDivision
<1>3. d # <<>> /\ BeginsOutside(d, {0})
  BY <1>1, <1>2 DEF BeginsOutside
<1>4. Trimmed(d) = d
  BY <1>2, <1>3, TrimmedSame
<1>5. PICK c : c = [i \in 0..n |-> r[n - i]]
  OBVIOUS
<1>6. \A i \in 0..n : n - i \in 0..n /\ c[i] = r[n - i]
  BY <1>5
<1>7. c \in [0..n -> Digit] /\ c[0] = r[n] /\ c[n] = 0
  <2>1. \A i \in 0..n : r[n - i] \in Digit
    BY <1>2, <1>6
  <2>2. c \in [0..n -> Digit]
    BY <1>5, <2>1
  <2>3. 0 \in 0..n /\ n \in 0..n /\ n - 0 = n /\ n - n = 0
    BY <1>1
  <2>4. c[0] = r[n - 0] /\ c[n] = r[n - n]
    BY <1>6, <2>3
  <2> QED BY <1>2, <2>2, <2>3, <2>4
<1>8. ASSUME NEW j \in 1..n
      PROVE  58 * d[n + 1 - j] + c[j - 1] = 256 * c[j] + x[n + 1 - j]
  <2>1. PICK k \in 1..n : k = n + 1 - j
    OBVIOUS
  <2>2. j \in 0..n /\ j - 1 \in 0..n /\ n - (j - 1) = k /\ n - j = k - 1
    BY <2>1
  <2>3. c[j - 1] = r[k] /\ c[j] = r[k - 1]
    BY <1>6, <2>2
  <2>4. 58 * d[k] + r[k] = 256 * r[k - 1] + x[k]
    BY <1>2
  <2> QED BY <2>1, <2>3, <2>4
<1>9. n \in 0..n /\ r[n] \in Digit
  BY <1>2
<1>10. LongProduct(d, r[n], x, c)
  BY <1>1, <1>2, <1>7, <1>8 DEF LongProduct
<1>11. Extended(d, r[n]) = Trimmed(<<c[n]>>) \o x
  BY SMTT(40), <1>2, <1>9, <1>10, ExtendedUnique
<1>12. Trimmed(<<0>>) = <<>>
  <2>1. 0 \in Byte
    BY DEF Byte
  <2> QED BY <2>1, TrimmedOne
<1>13. <<>> \o x = x
  BY ConcatEmptySeq
<1>14. Extended(d, r[n]) = x
  BY <1>7, <1>11, <1>12, <1>13
<1>15. Rounds(d) < Rounds(x)
  <2>1. 1 \in 1..n /\ 1 - 1 = 0 /\ 1 \in 0..n
    BY <1>1
  <2>2. 58 * d[1] + r[1] = 256 * r[0] + x[1]
    BY <1>2, <2>1
  <2>3. d[1] \in Byte /\ x[1] \in Byte /\ r[1] \in Digit
    BY SMTT(40), <1>1, <1>2, <2>1, ElementOfSeq
  <2>4. PICK a \in 0..255, b \in 0..255, t \in 0..57 : a = d[1] /\ b = x[1] /\ t = r[1]
    BY <2>3 DEF Byte, Digit
  <2>5. 58 * a + t = b /\ a # 0
    BY <1>2, <2>2, <2>4
  <2>6. a < 58 /\ ~(b < 58)
    BY <2>5
  <2>7. Rounds(d) = 2 * n - 1
    BY <1>2, <1>3, <2>4, <2>6 DEF Rounds
  <2>8. Rounds(x) = 2 * n
    BY <1>1, <2>4, <2>6 DEF Rounds
  <2> QED BY <2>7, <2>8
<1> QED BY <1>1, <1>3, <1>4, <1>14, <1>15 DEF Divides

\* When it is 0, the remainder of the first round is the first byte.
LEMMA DividesShort ==
    ASSUME NEW x \in Seq(Byte), x # <<>>, x[1] # 0, NEW d, NEW r, LongDivision(x, d, r),
           Divided(x) = <<Trimmed(d), r[Len(x)]>>, d[1] = 0
    PROVE  SubSeq(d, 2, Len(d)) \in Seq(Byte) /\ Divides(x, SubSeq(d, 2, Len(d)), r[Len(x)])
<1>1. PICK n \in Nat : n = Len(x) /\ n # 0
  BY EmptySeq
<1>2. /\ d \in Seq(Byte) /\ Len(d) = n /\ r \in [0..n -> Digit] /\ r[0] = 0
      /\ \A k \in 1..n : 58 * d[k] + r[k] = 256 * r[k - 1] + x[k]
  BY <1>1 DEF LongDivision
<1>3. PICK m \in Nat : n = m + 1
  <2>1. n - 1 \in Nat /\ n = (n - 1) + 1
    BY <1>1
  <2> QED BY <2>1
<1>4. PICK q : q = SubSeq(d, 2, n)
  OBVIOUS
<1>5. PICK y : y = SubSeq(x, 2, n)
  OBVIOUS
<1>6. /\ 2 \in 1..(n + 1) /\ n \in (2 - 1)..n /\ (n + 1) - 2 = m
      /\ \A i \in 1..m : (2 - 1) + i = 1 + i
  BY <1>3
<1>7. q \in Seq(Byte) /\ Len(q) = m /\ \A i \in 1..m : q[i] = d[1 + i]
  <2>1. q \in Seq(Byte) /\ Len(q) = (n + 1) - 2 /\ \A i \in 1..((n + 1) - 2) : q[i] = d[(2 - 1) + i]
    BY <1>2, <1>4, <1>6, PartIs
  <2> QED BY <1>6, <2>1
<1>8. y \in Seq(Byte) /\ Len(y) = m /\ \A i \in 1..m : y[i] = x[1 + i]
  <2>1. y \in Seq(Byte) /\ Len(y) = (n + 1) - 2 /\ \A i \in 1..((n + 1) - 2) : y[i] = x[(2 - 1) + i]
    BY <1>1, <1>5, <1>6, PartIs
  <2> QED BY <1>6, <2>1
<1>9. 1 \in 1..n /\ 1 - 1 = 0 /\ 1 \in 0..n /\ n \in 0..n
  BY <1>1
<1>10. r[1] = x[1] /\ x[1] \in Byte /\ r[1] \in Digit /\ r[n] \in Digit
  <2>1. x[1] \in Byte /\ r[1] \in Digit /\ r[n] \in Digit
    BY SMTT(40), <1>1, <1>2, <1>9, ElementOfSeq
  <2>2. 58 * d[1] + r[1] = 256 * r[0] + x[1]
    BY <1>2, <1>9
  <2>3. PICK b \in 0..255, t \in 0..57 : b = x[1] /\ t = r[1]
    BY <2>1 DEF Byte, Digit
  <2>4. 58 * 0 + t = 256 * 0 + b
    BY <1>2, <2>2, <2>3
  <2>5. t = b
    BY <2>4
  <2> QED BY <2>1, <2>3, <2>5
<1>11. BeginsOutside(q, {0})
  <2>1. SUFFICES ASSUME q # <<>> PROVE q[1] # 0
    BY DEF BeginsOutside
  <2>2. m # 0 /\ 1 \in 1..m /\ 2 \in 1..n /\ 2 - 1 = 1 /\ 1 + 1 = 2 /\ 2 \in 0..n
    <3>1. m # 0
      BY <1>7, <2>1, EmptySeq
    <3> QED BY <1>3, <3>1
  <2>3. q[1] = d[2] /\ 58 * d[2] + r[2] = 256 * r[1] + x[2]
    BY <1>2, <1>7, <2>2
  <2>4. d[2] \in Byte /\ x[2] \in Byte /\ r[2] \in Digit
    BY SMTT(40), <1>1, <1>2, <2>2, ElementOfSeq
  <2>5. PICK a \in 0..255, b \in 0..255, t \in 0..57, c \in 0..255 :
            a = d[2] /\ b = x[2] /\ t = r[2] /\ c = x[1]
    BY ZenonT(40), <1>10, <2>4 DEF Byte, Digit
  <2>6. 58 * a + t = 256 * c + b /\ c # 0
    BY <1>10, <2>3, <2>5
  <2>7. a # 0
    BY <2>6
  <2> QED BY <2>3, <2>5, <2>7
<1>12. d = <<0>> \o q
  <2>1. PICK u : u = <<0>> \o q
    OBVIOUS
  <2>2. <<0>> \in Seq(Byte) /\ Len(<<0>>) = 1 /\ <<0>>[1] = 0 /\ 1 \in 1..1
    BY DEF Byte
  <2>3. u \in Seq(Byte) /\ Len(u) = 1 + m /\ u[1] = 0 /\ \A i \in 1..m : u[1 + i] = q[i]
    BY <1>7, <2>1, <2>2, CatIs
  <2>4. ASSUME NEW k \in 1..n PROVE d[k] = u[k]
    <3>1. CASE k = 1
      BY <2>3, <3>1
    <3>2. CASE k # 1
      <4>1. PICK i \in 1..m : k = 1 + i
        <5>1. k - 1 \in 1..m /\ k = 1 + (k - 1)
          BY <1>3, <3>2
        <5> QED BY <5>1
      <4> QED BY <1>7, <2>3, <4>1
    <3> QED BY <3>1, <3>2
  <2>5. Len(u) = n
    BY <1>3, <2>3
  <2>6. u = d
    BY <1>2, <2>3, <2>4, <2>5, SeqEqual
  <2> QED BY <2>1, <2>6
<1>13. Trimmed(d) = q
  BY <1>7, <1>11, <1>12, TrimmedZero
<1>14. PICK c : c = [i \in 0..m |-> r[n - i]]
  OBVIOUS
<1>15. \A i \in 0..m : n - i \in 0..n /\ c[i] = r[n - i]
  BY <1>3, <1>14
<1>16. c \in [0..m -> Digit] /\ c[0] = r[n] /\ c[m] = x[1]
  <2>1. \A i \in 0..m : r[n - i] \in Digit
    BY <1>2, <1>15
  <2>2. c \in [0..m -> Digit]
    BY <1>14, <2>1
  <2>3. 0 \in 0..m /\ m \in 0..m /\ n - 0 = n /\ n - m = 1
    BY <1>3
  <2>4. c[0] = r[n - 0] /\ c[m] = r[n - m]
    BY <1>15, <2>3
  <2> QED BY <1>10, <2>2, <2>3, <2>4
<1>17. ASSUME NEW j \in 1..m
       PROVE  58 * q[m + 1 - j] + c[j - 1] = 256 * c[j] + y[m + 1 - j]
  <2>1. PICK i \in 1..m : i = m + 1 - j
    OBVIOUS
  <2>2. PICK k \in 1..n : k = 1 + i
    BY <1>3
  <2>3. j \in 0..m /\ j - 1 \in 0..m /\ n - (j - 1) = k /\ n - j = k - 1
    BY <1>3, <2>1, <2>2
  <2>4. c[j - 1] = r[k] /\ c[j] = r[k - 1] /\ q[i] = d[k] /\ y[i] = x[k]
    BY <1>7, <1>8, <1>15, <2>2, <2>3
  <2>5. 58 * d[k] + r[k] = 256 * r[k - 1] + x[k]
    BY <1>2
  <2> QED BY <2>1, <2>4, <2>5
<1>18. LongProduct(q, r[n], y, c)
  BY <1>7, <1>8, <1>16, <1>17 DEF LongProduct
<1>19. Extended(q, r[n]) = Trimmed(<<c[m]>>) \o y
  BY <1>7, <1>10, <1>18, ExtendedUnique
<1>20. Trimmed(<<x[1]>>) = <<x[1]>>
  BY <1>10, TrimmedOne
<1>21. x = <<x[1]>> \o y
  <2>1. PICK u : u = <<x[1]>> \o y
    OBVIOUS
  <2>2. <<x[1]>> \in Seq(Byte) /\ Len(<<x[1]>>) = 1 /\ <<x[1]>>[1] = x[1] /\ 1 \in 1..1
    BY <1>10
  <2>3. u \in Seq(Byte) /\ Len(u) = 1 + m /\ u[1] = x[1] /\ \A i \in 1..m : u[1 + i] = y[i]
    BY <1>8, <2>1, <2>2, CatIs
  <2>4. ASSUME NEW k \in 1..n PROVE x[k] = u[k]
    <3>1. CASE k = 1
      BY <2>3, <3>1
    <3>2. CASE k # 1
      <4>1. PICK i \in 1..m : k = 1 + i
        <5>1. k - 1 \in 1..m /\ k = 1 + (k - 1)
          BY <1>3, <3>2
        <5> QED BY <5>1
      <4> QED BY <1>8, <2>3, <4>1
    <3> QED BY <3>1, <3>2
  <2>5. Len(u) = n
    BY <1>3, <2>3
  <2>6. u = x
    BY <1>1, <2>3, <2>4, <2>5, SeqEqual
  <2> QED BY <2>1, <2>6
<1>22. Extended(q, r[n]) = x
  BY <1>16, <1>19, <1>20, <1>21
<1>23. Rounds(q) < Rounds(x)
  <2>1. PICK b \in 0..57 : b = x[1]
    BY <1>10 DEF Digit
  <2>2. b < 58
    OBVIOUS
  <2>3. Rounds(x) = 2 * n - 1
    BY <1>1, <2>1, <2>2 DEF Rounds
  <2>4. Rounds(q) \in Nat /\ Rounds(q) <= 2 * m
    BY <1>7, RoundsType
  <2> QED BY <1>3, <2>3, <2>4
<1> QED BY <1>1, <1>2, <1>4, <1>7, <1>11, <1>13, <1>22, <1>23 DEF Divides

\* A number without leading zeros is divided, and what divides it makes it.
LEMMA DividedBack ==
    ASSUME NEW x \in Seq(Byte), x # <<>>, BeginsOutside(x, {0})
    PROVE  \E q \in Seq(Byte), t \in Digit : Divides(x, q, t)
<1>1. PICK d, r : LongDivision(x, d, r) /\ Divided(x) = <<Trimmed(d), r[Len(x)]>>
  BY DividedIs
<1>2. x[1] # 0
  BY DEF BeginsOutside
<1>3. d \in Seq(Byte) /\ r[Len(x)] \in Digit
  <2>1. d \in Seq(Byte) /\ r \in [0..Len(x) -> Digit]
    BY <1>1 DEF LongDivision
  <2>2. Len(x) \in 0..Len(x)
    OBVIOUS
  <2> QED BY <2>1, <2>2
<1>4. CASE d[1] # 0
  <2>1. Divides(x, d, r[Len(x)])
    BY <1>1, <1>2, <1>4, DividesLong
  <2> QED BY <1>3, <2>1
<1>5. CASE d[1] = 0
  <2>1. SubSeq(d, 2, Len(d)) \in Seq(Byte) /\ Divides(x, SubSeq(d, 2, Len(d)), r[Len(x)])
    BY <1>1, <1>2, <1>5, DividesShort
  <2> QED BY <1>3, <2>1
<1> QED BY <1>4, <1>5

-------------------------------------------------------------------------------
(* Digits.                                                                 *)

LEMMA ExtendedType ==
    ASSUME NEW x \in Seq(Byte), NEW digit \in Digit
    PROVE  Extended(x, digit) \in Seq(Byte)
<1>1. PICK y, c : LongProduct(x, digit, y, c) /\ Extended(x, digit) = Trimmed(<<c[Len(x)]>>) \o y
  BY ExtendedIs
<1>2. y \in Seq(Byte) /\ c \in [0..Len(x) -> Digit] /\ Len(x) \in 0..Len(x)
  BY <1>1 DEF LongProduct
<1>3. PICK b : b = c[Len(x)] /\ b \in 0..57
  BY <1>2 DEF Digit
<1>4. <<b>> \in Seq(Byte)
  BY <1>3 DEF Byte
<1>5. Trimmed(<<b>>) \in Seq(Byte)
  BY <1>4, TrimmedIs
<1> QED BY <1>1, <1>2, <1>3, <1>5, ConcatProperties

\* The first digit is the number, unless it is 0.
LEMMA ExtendedEmpty ==
    ASSUME NEW digit \in Digit
    PROVE  Extended(<<>>, digit) = IF digit = 0 THEN <<>> ELSE <<digit>>
<1>1. PICK e : e = <<>> /\ e \in Seq(Byte) /\ Len(e) = 0
  BY EmptySeq
<1>2. PICK y, c : LongProduct(e, digit, y, c) /\ Extended(e, digit) = Trimmed(<<c[Len(e)]>>) \o y
  BY <1>1, ExtendedIs
<1>3. y \in Seq(Byte) /\ Len(y) = 0 /\ c[0] = digit
  BY <1>1, <1>2 DEF LongProduct
<1>4. y = <<>>
  BY <1>3, EmptySeq
<1>5. digit \in Byte
  BY DEF Byte, Digit
<1>6. Trimmed(<<digit>>) = (IF digit = 0 THEN <<>> ELSE <<digit>>) /\ Trimmed(<<digit>>) \in Seq(Byte)
  <2>1. <<digit>> \in Seq(Byte)
    BY <1>5
  <2> QED BY <1>5, <2>1, TrimmedOne, TrimmedIs
<1>7. Trimmed(<<digit>>) \o <<>> = Trimmed(<<digit>>)
  BY <1>6, ConcatEmptySeq
<1> QED BY <1>1, <1>2, <1>3, <1>4, <1>6, <1>7

Numbering(digits, f) ==
    /\ f \in [0..Len(digits) -> Seq(Byte)]
    /\ f[0] = <<>>
    /\ \A i \in 1..Len(digits) : f[i] = Extended(f[i - 1], digits[i])

\* The rounds of DecodeBase58.
LEMMA Number58Runs ==
    ASSUME NEW digits \in Seq(Digit)
    PROVE  \E f : Numbering(digits, f) /\ Number58(digits) = f[Len(digits)]
<1>1. PICK n \in Nat : n = Len(digits)
  OBVIOUS
<1>2. PICK S : S = Seq(Byte)
  OBVIOUS
<1> DEFINE e(i, x) == Extended(x, digits[i])
           s == [i \in 1..n |-> [x \in S |-> e(i, x)]]
<1>3. <<>> \in S
  <2>1. <<>> \in Seq(Byte)
    OBVIOUS
  <2> QED BY <1>2, <2>1
<1>4. ASSUME NEW i \in 1..n, NEW x \in S PROVE e(i, x) \in S
  <2>1. x \in Seq(Byte) /\ digits[i] \in Digit
    BY <1>1, <1>2
  <2> QED BY <1>2, <2>1, ExtendedType
<1>5. \A i, x : e(i, x) = Extended(x, digits[i])
  OBVIOUS
<1> HIDE DEF e
<1>6. s \in [1..n -> [S -> S]] /\ \A i \in 1..n : \A x \in S : s[i][x] = e(i, x)
  BY <1>4
<1> HIDE DEF s
<1>7. PICK g : Follows(g, n, S, <<>>, s)
  BY <1>3, <1>6, FollowsExists
<1>8. g = [i \in 0..n |-> IF i = 0 THEN <<>> ELSE e(i, g[i - 1])]
  <2>1. \A i \in 0..n : i # 0 => i \in 1..n /\ i - 1 \in 0..n
    OBVIOUS
  <2>2. \A i \in 1..n : g[i] = s[i][g[i - 1]]
    BY <1>7 DEF Follows
  <2>3. \A i \in 0..n : g[i] \in S
    BY <1>7 DEF Follows
  <2>4. \A i \in 0..n : i # 0 => g[i] = e(i, g[i - 1])
    BY <1>6, <2>1, <2>2, <2>3
  <2>5. g[0] = <<>> /\ g = [i \in 0..n |-> g[i]]
    BY <1>7 DEF Follows
  <2> QED BY <2>4, <2>5
<1>9. PICK f : f = CHOOSE h : h = [i \in 0..n |-> IF i = 0 THEN <<>> ELSE e(i, h[i - 1])]
  OBVIOUS
<1>10. f = [i \in 0..n |-> IF i = 0 THEN <<>> ELSE e(i, f[i - 1])]
  BY <1>8, <1>9
<1>11. Number58(digits) = f[n]
  BY <1>1, <1>9 DEF Number58, e
<1>12. Follows(f, n, S, <<>>, s)
  <2>1. f[0] = <<>> /\ f = [i \in 0..n |-> f[i]]
    BY <1>10
  <2>2. \A i \in 1..n : i \in 0..n /\ i # 0
    OBVIOUS
  <2>3. \A i \in 1..n : f[i - 1] \in S => f[i] = s[i][f[i - 1]]
    BY <1>6, <1>10, <2>2
  <2> QED BY <1>3, <1>6, <2>1, <2>3, FollowsAll
<1>13. f \in [0..n -> S] /\ f[0] = <<>>
  BY <1>12 DEF Follows
<1>14. \A i \in 1..n : f[i] = Extended(f[i - 1], digits[i])
  <2>1. \A i \in 1..n : i \in 0..n /\ i # 0
    OBVIOUS
  <2>2. \A i \in 1..n : f[i] = e(i, f[i - 1])
    BY <1>10, <2>1
  <2> QED BY <1>5, <2>2
<1>15. Numbering(digits, f)
  BY <1>1, <1>2, <1>13, <1>14 DEF Numbering
<1> QED
  BY <1>1, <1>11, <1>15

LEMMA Number58Is ==
    /\ Number58(<<>>) = <<>>
    /\ \A digits \in Seq(Digit) :
           /\ Number58(digits) \in Seq(Byte)
           /\ \A digit \in Digit :
                  Number58(Append(digits, digit)) = Extended(Number58(digits), digit)
<1>1. Number58(<<>>) = <<>>
  <2>1. PICK e : e = <<>> /\ e \in Seq(Digit) /\ Len(e) = 0
    BY EmptySeq
  <2>2. PICK f : Numbering(e, f) /\ Number58(e) = f[Len(e)]
    BY <2>1, Number58Runs
  <2> QED BY <2>1, <2>2 DEF Numbering
<1>2. SUFFICES ASSUME NEW digits \in Seq(Digit)
               PROVE  /\ Number58(digits) \in Seq(Byte)
                      /\ \A digit \in Digit :
                             Number58(Append(digits, digit)) = Extended(Number58(digits), digit)
  BY <1>1
<1>3. PICK n \in Nat : n = Len(digits)
  OBVIOUS
<1>4. PICK f : Numbering(digits, f) /\ Number58(digits) = f[n]
  BY <1>3, Number58Runs
<1>5. f \in [0..n -> Seq(Byte)] /\ f[0] = <<>> /\ \A i \in 1..n : f[i] = Extended(f[i - 1], digits[i])
  BY <1>3, <1>4 DEF Numbering
<1>6. Number58(digits) \in Seq(Byte)
  <2>1. n \in 0..n
    OBVIOUS
  <2> QED BY <1>4, <1>5, <2>1
<1>7. ASSUME NEW digit \in Digit
      PROVE  Number58(Append(digits, digit)) = Extended(Number58(digits), digit)
  <2>1. PICK more : more = Append(digits, digit)
    OBVIOUS
  <2>2. /\ more \in Seq(Digit) /\ Len(more) = n + 1 /\ more[n + 1] = digit
        /\ \A i \in 1..n : more[i] = digits[i]
    BY <1>3, <2>1, AppendProperties
  <2>3. PICK h : Numbering(more, h) /\ Number58(more) = h[n + 1]
    BY <2>2, Number58Runs
  <2>4. h[0] = <<>> /\ \A i \in 1..(n + 1) : h[i] = Extended(h[i - 1], more[i])
    BY <2>2, <2>3 DEF Numbering
  <2> DEFINE T == {i \in Nat : i <= n => f[i] = h[i]}
  <2>5. 0 \in T
    BY <1>5, <2>4
  <2>6. ASSUME NEW i \in Nat, i \in T PROVE i + 1 \in T
    <3>1. SUFFICES ASSUME i + 1 <= n PROVE f[i + 1] = h[i + 1]
      OBVIOUS
    <3>2. i <= n /\ i + 1 \in 1..n /\ i + 1 \in 1..(n + 1) /\ (i + 1) - 1 = i
      BY <3>1
    <3>3. f[i + 1] = Extended(f[i], digits[i + 1]) /\ h[i + 1] = Extended(h[i], more[i + 1])
      BY <1>5, <2>4, <3>2
    <3>4. f[i] = h[i] /\ more[i + 1] = digits[i + 1]
      BY <2>2, <2>6, <3>2
    <3> QED BY <3>3, <3>4
  <2> HIDE DEF T
  <2>7. Nat \subseteq T
    BY <2>5, <2>6, NatSet
  <2>8. f[n] = h[n]
    BY <2>7 DEF T
  <2>9. n + 1 \in 1..(n + 1) /\ (n + 1) - 1 = n
    OBVIOUS
  <2>10. h[n + 1] = Extended(h[n], digit)
    BY <2>2, <2>4, <2>9
  <2> QED BY <1>4, <2>1, <2>3, <2>8, <2>10
<1> QED BY <1>6, <1>7

\* Zeros in front are no part of the number.
LEMMA ZeroDigits ==
    ASSUME NEW digits \in Seq(Digit), AllIn(digits, {0})
    PROVE  Number58(digits) = <<>>
<1>1. PICK n \in Nat : n = Len(digits)
  OBVIOUS
<1>2. PICK f : Numbering(digits, f) /\ Number58(digits) = f[n]
  BY <1>1, Number58Runs
<1>3. f[0] = <<>> /\ \A i \in 1..n : f[i] = Extended(f[i - 1], digits[i])
  BY <1>1, <1>2 DEF Numbering
<1> DEFINE T == {i \in Nat : i <= n => f[i] = <<>>}
<1>4. 0 \in T
  BY <1>3
<1>5. ASSUME NEW i \in Nat, i \in T PROVE i + 1 \in T
  <2>1. SUFFICES ASSUME i + 1 <= n PROVE f[i + 1] = <<>>
    OBVIOUS
  <2>2. i <= n /\ i + 1 \in 1..n /\ (i + 1) - 1 = i
    BY <2>1
  <2>3. f[i] = <<>> /\ digits[i + 1] = 0 /\ f[i + 1] = Extended(f[i], digits[i + 1])
    BY <1>1, <1>3, <1>5, <2>2 DEF AllIn
  <2>4. 0 \in Digit
    BY DEF Digit
  <2> QED BY <2>3, <2>4, ExtendedEmpty
<1> HIDE DEF T
<1>6. Nat \subseteq T
  BY <1>4, <1>5, NatSet
<1> QED BY <1>2, <1>6 DEF T

LEMMA DividedType ==
    ASSUME NEW x \in Seq(Byte)
    PROVE  \E q \in Seq(Byte), t \in Digit : Divided(x) = <<q, t>>
<1>1. PICK d, r : LongDivision(x, d, r) /\ Divided(x) = <<Trimmed(d), r[Len(x)]>>
  BY DividedIs
<1>2. d \in Seq(Byte) /\ r \in [0..Len(x) -> Digit] /\ Len(x) \in 0..Len(x)
  BY <1>1 DEF LongDivision
<1>3. Trimmed(d) \in Seq(Byte) /\ r[Len(x)] \in Digit
  BY <1>2, TrimmedIs
<1> QED BY <1>1, <1>3

Digiting(number, f) ==
    /\ f \in [0..(2 * Len(number)) -> (Seq(Byte) \X Seq(Digit))]
    /\ f[0] = <<number, <<>>>>
    /\ \A i \in 1..(2 * Len(number)) : f[i] = NextDigit(f[i - 1])

\* The rounds of EncodeBase58.
LEMMA Digits58Runs ==
    ASSUME NEW number \in Seq(Byte)
    PROVE  \E f : Digiting(number, f) /\ Digits58(number) = f[2 * Len(number)][2]
<1>1. PICK n \in Nat : n = 2 * Len(number)
  OBVIOUS
<1>2. PICK S : S = (Seq(Byte) \X Seq(Digit))
  OBVIOUS
<1> DEFINE e(i, x) == NextDigit(x)
           s == [i \in 1..n |-> [x \in S |-> e(i, x)]]
<1>3. <<number, <<>>>> \in S
  <2>1. <<>> \in Seq(Digit)
    OBVIOUS
  <2> QED BY <1>2, <2>1
<1>4. ASSUME NEW i \in 1..n, NEW x \in S PROVE e(i, x) \in S
  <2>1. x[1] \in Seq(Byte) /\ x[2] \in Seq(Digit) /\ x = <<x[1], x[2]>>
    BY <1>2
  <2>2. PICK q \in Seq(Byte), t \in Digit : Divided(x[1]) = <<q, t>>
    BY <2>1, DividedType
  <2>3. <<t>> \o x[2] \in Seq(Digit)
    <3>1. <<t>> \in Seq(Digit)
      OBVIOUS
    <3> QED BY <2>1, <3>1, ConcatProperties
  <2>4. WithDigit(Divided(x[1]), x[2]) = <<q, <<t>> \o x[2]>>
    BY <2>2 DEF WithDigit
  <2>5. <<q, <<t>> \o x[2]>> \in S
    BY <1>2, <2>3
  <2> QED BY <2>4, <2>5 DEF NextDigit
<1>5. \A i, x : e(i, x) = NextDigit(x)
  OBVIOUS
<1> HIDE DEF e
<1>6. s \in [1..n -> [S -> S]] /\ \A i \in 1..n : \A x \in S : s[i][x] = e(i, x)
  BY <1>4
<1> HIDE DEF s
<1>7. PICK g : Follows(g, n, S, <<number, <<>>>>, s)
  BY <1>3, <1>6, FollowsExists
<1>8. g = [i \in 0..n |-> IF i = 0 THEN <<number, <<>>>> ELSE e(i, g[i - 1])]
  <2>1. \A i \in 0..n : i # 0 => i \in 1..n /\ i - 1 \in 0..n
    OBVIOUS
  <2>2. \A i \in 1..n : g[i] = s[i][g[i - 1]]
    BY <1>7 DEF Follows
  <2>3. \A i \in 0..n : g[i] \in S
    BY <1>7 DEF Follows
  <2>4. \A i \in 0..n : i # 0 => g[i] = e(i, g[i - 1])
    BY <1>6, <2>1, <2>2, <2>3
  <2>5. g[0] = <<number, <<>>>> /\ g = [i \in 0..n |-> g[i]]
    BY <1>7 DEF Follows
  <2> QED BY <2>4, <2>5
<1>9. PICK f : f = CHOOSE h : h = [i \in 0..n |-> IF i = 0 THEN <<number, <<>>>> ELSE e(i, h[i - 1])]
  OBVIOUS
<1>10. f = [i \in 0..n |-> IF i = 0 THEN <<number, <<>>>> ELSE e(i, f[i - 1])]
  BY <1>8, <1>9
<1>11. Digits58(number) = f[n][2]
  BY <1>1, <1>9 DEF Digits58, e
<1>12. Follows(f, n, S, <<number, <<>>>>, s)
  <2>1. f[0] = <<number, <<>>>> /\ f = [i \in 0..n |-> f[i]]
    BY <1>10
  <2>2. \A i \in 1..n : i \in 0..n /\ i # 0
    OBVIOUS
  <2>3. \A i \in 1..n : f[i - 1] \in S => f[i] = s[i][f[i - 1]]
    BY <1>6, <1>10, <2>2
  <2> QED BY <1>3, <1>6, <2>1, <2>3, FollowsAll
<1>13. f \in [0..n -> S] /\ f[0] = <<number, <<>>>>
  BY <1>12 DEF Follows
<1>14. \A i \in 1..n : f[i] = NextDigit(f[i - 1])
  <2>1. \A i \in 1..n : i \in 0..n /\ i # 0
    OBVIOUS
  <2>2. \A i \in 1..n : f[i] = e(i, f[i - 1])
    BY <1>10, <2>1
  <2> QED BY <1>5, <2>2
<1>15. Digiting(number, f)
  BY <1>1, <1>2, <1>13, <1>14 DEF Digiting
<1> QED
  BY <1>1, <1>11, <1>15

\* The digits that are found come behind those of what is left.
DigitsSoFar(number, left, i) ==
    /\ BeginsOutside(left[1], {0})
    /\ left[1] = <<>> => BeginsOutside(left[2], {0})
    /\ left[1] = <<>> \/ Rounds(left[1]) + i <= 2 * Len(number)
    /\ \A p \in Seq(Digit) : Number58(p) = left[1] => Number58(p \o left[2]) = number

\* One round more.
LEMMA DigitsMore ==
    ASSUME NEW number \in Seq(Byte), NEW left \in Seq(Byte) \X Seq(Digit), NEW i \in Nat,
           DigitsSoFar(number, left, i)
    PROVE  DigitsSoFar(number, NextDigit(left), i + 1)
<1>1. PICK x \in Seq(Byte), ds \in Seq(Digit) : left = <<x, ds>>
  OBVIOUS
<1>2. left[1] = x /\ left[2] = ds
  BY <1>1
<1>3. CASE x = <<>>
  <2>1. NextDigit(left) = left
    BY <1>2, <1>3 DEF NextDigit
  <2> QED BY <1>2, <1>3, <2>1 DEF DigitsSoFar
<1>4. CASE x # <<>>
  <2>1. /\ BeginsOutside(x, {0}) /\ Rounds(x) + i <= 2 * Len(number)
        /\ \A p \in Seq(Digit) : Number58(p) = x => Number58(p \o ds) = number
    BY <1>2, <1>4 DEF DigitsSoFar
  <2>2. PICK q \in Seq(Byte), t \in Digit : Divides(x, q, t)
    BY <1>4, <2>1, DividedBack
  <2>3. /\ Divided(x) = <<q, t>> /\ Extended(q, t) = x /\ BeginsOutside(q, {0})
        /\ Rounds(q) < Rounds(x)
    BY <2>2 DEF Divides
  <2>4. PICK es : es = <<t>> \o ds
    OBVIOUS
  <2>5. NextDigit(left) = <<q, es>>
    BY <1>2, <1>4, <2>3, <2>4 DEF NextDigit, WithDigit
  <2>6. <<t>> \in Seq(Digit) /\ Len(<<t>>) = 1 /\ <<t>>[1] = t /\ 1 \in 1..1
    OBVIOUS
  <2>7. es \in Seq(Digit) /\ es[1] = t
    BY <2>4, <2>6, CatIs
  <2>8. ASSUME q = <<>> PROVE BeginsOutside(es, {0})
    <3>1. t # 0
      BY <1>4, <2>3, <2>8, ExtendedEmpty
    <3> QED BY <2>7, <3>1 DEF BeginsOutside
  <2>9. Rounds(q) + (i + 1) <= 2 * Len(number)
    <3>1. Rounds(q) \in Nat /\ Rounds(x) \in Nat /\ Len(number) \in Nat
      BY RoundsType
    <3> QED BY <2>1, <2>3, <3>1
  <2>10. ASSUME NEW p \in Seq(Digit), Number58(p) = q PROVE Number58(p \o es) = number
    <3>1. Append(p, t) \in Seq(Digit) /\ Append(p, t) = p \o <<t>>
      BY AppendProperties, AppendIsConcat
    <3>2. Number58(Append(p, t)) = x
      BY <2>3, <2>10, Number58Is
    <3>3. Number58(Append(p, t) \o ds) = number
      BY <2>1, <3>1, <3>2
    <3>4. (p \o <<t>>) \o ds = p \o (<<t>> \o ds)
      BY SMTT(40), <2>6, ConcatAssociative
    <3> QED BY <2>4, <3>1, <3>3, <3>4
  <2>11. NextDigit(left)[1] = q /\ NextDigit(left)[2] = es
    BY <2>5
  <2> QED BY <2>3, <2>8, <2>9, <2>10, <2>11 DEF DigitsSoFar
<1> QED BY <1>3, <1>4

\* The digits of a number without leading zeros.
DigitsOf(number, digits) ==
    /\ digits \in Seq(Digit)
    /\ BeginsOutside(digits, {0})
    /\ \A p \in Seq(Digit) : Number58(p) = <<>> => Number58(p \o digits) = number

LEMMA Digits58Is ==
    ASSUME NEW number \in Seq(Byte), BeginsOutside(number, {0})
    PROVE  DigitsOf(number, Digits58(number))
<1>1. PICK n \in Nat : n = 2 * Len(number)
  OBVIOUS
<1>2. PICK f : Digiting(number, f) /\ Digits58(number) = f[n][2]
  BY <1>1, Digits58Runs
<1>3. /\ f \in [0..n -> Seq(Byte) \X Seq(Digit)] /\ f[0] = <<number, <<>>>>
      /\ \A i \in 1..n : f[i] = NextDigit(f[i - 1])
  BY <1>1, <1>2 DEF Digiting
<1> DEFINE T == {i \in Nat : i <= n => DigitsSoFar(number, f[i], i)}
<1>4. 0 \in T
  <2>1. f[0][1] = number /\ f[0][2] = <<>>
    BY <1>3
  <2>2. BeginsOutside(<<>>, {0})
    BY DEF BeginsOutside
  <2>3. Rounds(number) + 0 <= 2 * Len(number)
    <3>1. Rounds(number) \in Nat /\ Rounds(number) <= 2 * Len(number)
      BY RoundsType
    <3> QED BY <3>1
  <2>4. \A p \in Seq(Digit) : p \o <<>> = p
    BY ConcatEmptySeq
  <2>5. DigitsSoFar(number, f[0], 0)
    BY <2>1, <2>2, <2>3, <2>4 DEF DigitsSoFar
  <2> QED BY <2>5
<1>5. ASSUME NEW i \in Nat, i \in T PROVE i + 1 \in T
  <2>1. SUFFICES ASSUME i + 1 <= n PROVE DigitsSoFar(number, f[i + 1], i + 1)
    OBVIOUS
  <2>2. i <= n /\ i \in 0..n /\ i + 1 \in 1..n /\ (i + 1) - 1 = i
    BY <2>1
  <2>3. DigitsSoFar(number, f[i], i) /\ f[i] \in Seq(Byte) \X Seq(Digit) /\ f[i + 1] = NextDigit(f[i])
    BY <1>3, <1>5, <2>2
  <2>4. DigitsSoFar(number, NextDigit(f[i]), i + 1)
    BY <2>3, DigitsMore
  <2> QED BY <2>3, <2>4
<1> HIDE DEF T
<1>6. Nat \subseteq T
  BY <1>4, <1>5, NatSet
<1>7. DigitsSoFar(number, f[n], n)
  BY <1>6 DEF T
<1>8. n \in 0..n
  OBVIOUS
<1>9. f[n][1] \in Seq(Byte) /\ f[n][2] \in Seq(Digit)
  BY <1>3, <1>8
<1>10. f[n][1] = <<>>
  <2>1. SUFFICES ASSUME f[n][1] # <<>> PROVE FALSE
    OBVIOUS
  <2>2. Rounds(f[n][1]) + n <= n
    BY <1>1, <1>7, <2>1 DEF DigitsSoFar
  <2>3. PICK k \in Nat : k = Rounds(f[n][1]) /\ (k = 0 => f[n][1] = <<>>)
    BY <1>9, RoundsType
  <2>4. k = 0
    BY <2>2, <2>3
  <2> QED BY <2>1, <2>3, <2>4
<1> QED
  BY <1>2, <1>7, <1>9, <1>10 DEF DigitsSoFar, DigitsOf

-------------------------------------------------------------------------------
(* Texts.                                                                  *)

\* The parts of what EncodeBase58 writes.
LEMMA EncodeBase58Is ==
    ASSUME NEW bytes \in Seq(Byte)
    PROVE  /\ Leading(bytes, {0}) \in Seq(Digit) /\ AllIn(Leading(bytes, {0}), {0})
           /\ DigitsOf(Trimmed(bytes), Digits58(Trimmed(bytes)))
           /\ EncodeBase58(bytes) \in Seq(Digit)
           /\ bytes # <<>> => EncodeBase58(bytes) # <<>>
<1>1. PICK z, x : z = Leading(bytes, {0}) /\ x = Trimmed(bytes)
  OBVIOUS
<1>2. /\ x \in Seq(Byte) /\ BeginsOutside(x, {0}) /\ z \in Seq(Byte) /\ AllIn(z, {0})
      /\ bytes = z \o x
  BY <1>1, TrimmedIs
<1>3. z \in Seq(Digit)
  <2>1. \A i \in 1..Len(z) : z[i] \in Digit
    BY <1>2 DEF AllIn, Digit
  <2>2. z = [i \in 1..Len(z) |-> z[i]] /\ Len(z) \in Nat
    BY <1>2
  <2> QED BY <2>1, <2>2
<1>4. PICK d : d = Digits58(x) /\ DigitsOf(x, d)
  BY <1>2, Digits58Is
<1>5. d \in Seq(Digit)
  BY <1>4 DEF DigitsOf
<1>6. EncodeBase58(bytes) = z \o d
  BY <1>1, <1>4 DEF EncodeBase58
<1>7. z \o d \in Seq(Digit)
  BY <1>3, <1>5, ConcatProperties
<1>8. ASSUME bytes # <<>> PROVE z \o d # <<>>
  <2>1. SUFFICES ASSUME z \o d = <<>> PROVE FALSE
    OBVIOUS
  <2>2. z = <<>> /\ d = <<>>
    BY <1>3, <1>5, <2>1, ConcatEqualIffEmpty
  <2>3. <<>> \in Seq(Digit) /\ Number58(<<>>) = <<>> /\ <<>> \o <<>> = <<>>
    BY Number58Is, ConcatEmptySeq
  <2>4. x = <<>>
    BY <1>4, <2>2, <2>3 DEF DigitsOf
  <2>5. bytes = <<>>
    BY <1>2, <2>2, <2>3, <2>4
  <2> QED BY <1>8, <2>5
<1> QED BY <1>1, <1>2, <1>3, <1>4, <1>6, <1>7, <1>8

\* Digits and spaces are different characters.
LEMMA DigitNoSpace ==
    \A c \in Digit : c \in Nat /\ c \notin Spaces
BY DEF Digit, Spaces, Space, NewLine, CarriageReturn

LEMMA SpaceNoDigit ==
    \A c \in Spaces : c \in Nat /\ c \notin Digit
BY DEF Digit, Spaces, Space, NewLine, CarriageReturn

LEMMA AllInSeq ==
    ASSUME NEW E, NEW s \in Seq(E)
    PROVE  AllIn(s, E)
BY ElementOfSeq DEF AllIn

\* What EncodeBase58 writes, with spaces on either side, DecodeBase58 reads as
\* the same bytes, whatever they are and however many zeros they begin with.
THEOREM Base58ReadBack ==
    ASSUME NEW bytes \in Seq(Byte), NEW before \in Seq(Spaces), NEW after \in Seq(Spaces)
    PROVE  DecodeBase58(before \o (EncodeBase58(bytes) \o after)) = bytes
<1>1. PICK z, x : z = Leading(bytes, {0}) /\ x = Trimmed(bytes)
  OBVIOUS
<1>2. bytes = z \o x
  BY <1>1, TrimmedIs
<1>3. PICK d : d = Digits58(x)
  OBVIOUS
<1>4. PICK t : t = EncodeBase58(bytes) /\ t = z \o d
  BY <1>1, <1>3 DEF EncodeBase58
<1>5. z \in Seq(Digit) /\ AllIn(z, {0}) /\ DigitsOf(x, d) /\ t \in Seq(Digit)
  BY <1>1, <1>3, <1>4, EncodeBase58Is
<1>6. /\ d \in Seq(Digit) /\ BeginsOutside(d, {0})
      /\ \A p \in Seq(Digit) : Number58(p) = <<>> => Number58(p \o d) = x
  BY <1>5 DEF DigitsOf
<1>7. t \in Seq(Nat) /\ before \in Seq(Nat) /\ after \in Seq(Nat)
  <2>1. Digit \subseteq Nat /\ Spaces \subseteq Nat
    BY DigitNoSpace, SpaceNoDigit
  <2> QED BY <1>5, <2>1, SeqMonotonic
<1>8. PICK body : body = t \o after
  OBVIOUS
<1>9. AllIn(before, Spaces) /\ AllIn(after, Spaces) /\ AllIn(t, Digit)
  BY <1>5, AllInSeq
<1>10. BeginsOutside(after, Digit)
  <2>1. after # <<>> => 1 \in 1..Len(after)
    BY EmptySeq
  <2>2. after # <<>> => after[1] \in Spaces
    BY <1>9, <2>1 DEF AllIn
  <2> QED BY <2>2, SpaceNoDigit DEF BeginsOutside
<1>11. Leading(body, Digit) = t /\ Behind(body, Digit) = after
  BY <1>7, <1>8, <1>9, <1>10, CutAt
<1>12. <<>> \in Seq(Nat) /\ BeginsOutside(<<>>, Spaces) /\ after \o <<>> = after
  BY ConcatEmptySeq DEF BeginsOutside
<1>13. Behind(after, Spaces) = <<>>
  BY <1>7, <1>9, <1>12, CutAt
<1>14. WithZeros(t, after) = bytes
  <2>1. Number58(z) = <<>>
    BY <1>5, ZeroDigits
  <2>2. Number58(t) = x
    BY <1>4, <1>5, <1>6, <2>1
  <2>3. Leading(t, {0}) = z
    BY <1>4, <1>5, <1>6, CutAt
  <2> QED BY <1>2, <1>13, <2>2, <2>3 DEF WithZeros
<1>15. DecodeBody(body) = bytes
  BY <1>11, <1>14 DEF DecodeBody, Digit
<1>16. CASE t # <<>>
  <2>1. 1 \in 1..Len(t) /\ t[1] \in Digit
    <3>1. 1 \in 1..Len(t)
      BY <1>5, <1>16, EmptySeq
    <3> QED BY <1>5, <3>1, ElementOfSeq
  <2>2. body \in Seq(Nat) /\ body[1] = t[1]
    BY <1>7, <1>8, <2>1, CatIs
  <2>3. BeginsOutside(body, Spaces)
    BY <2>1, <2>2, DigitNoSpace DEF BeginsOutside
  <2>4. Behind(before \o body, Spaces) = body
    BY <1>7, <1>9, <2>2, <2>3, CutAt
  <2> QED BY <1>4, <1>8, <1>15, <2>4 DEF DecodeBase58
<1>17. CASE t = <<>>
  <2>1. body = after
    BY <1>7, <1>8, <1>17, ConcatEmptySeq
  <2>2. bytes = <<>>
    BY <1>4, <1>17, EncodeBase58Is
  <2>3. PICK s : s = before \o after
    OBVIOUS
  <2>4. s \in Seq(Spaces)
    BY <2>3, ConcatProperties
  <2>5. s \in Seq(Nat) /\ AllIn(s, Spaces)
    <3>1. Spaces \subseteq Nat
      BY SpaceNoDigit
    <3> QED BY <2>4, <3>1, AllInSeq, SeqMonotonic
  <2>6. s \o <<>> = s
    BY <2>5, ConcatEmptySeq
  <2>7. Behind(s, Spaces) = <<>>
    BY <1>12, <2>5, <2>6, CutAt
  <2>8. DecodeBody(<<>>) = <<>>
    <3>1. PICK e : e = <<>> /\ e \in Seq(Nat) /\ Len(e) = 0
      BY EmptySeq
    <3>2. \A some : Leading(e, some) = e /\ Behind(e, some) = e
      <4>1. SUFFICES ASSUME NEW some PROVE Leading(e, some) = e /\ Behind(e, some) = e
        OBVIOUS
      <4>2. AllIn(e, some) /\ BeginsOutside(e, some)
        BY <3>1 DEF AllIn, BeginsOutside
      <4>3. e \o e = e
        BY <3>1, ConcatEmptySeq
      <4>4. Leading(e \o e, some) = e /\ Behind(e \o e, some) = e
        BY ZenonT(40), <3>1, <4>2, CutAt
      <4> QED BY <4>3, <4>4
    <3>3. Number58(e) = e
      BY <3>1, Number58Is
    <3>4. WithZeros(e, e) = e
      <4>1. e \o e = e
        BY <3>1, ConcatEmptySeq
      <4> QED BY <3>1, <3>2, <3>3, <4>1 DEF WithZeros
    <3> QED BY <3>1, <3>2, <3>4 DEF DecodeBody, Digit
  <2> QED BY <1>4, <1>8, <2>1, <2>2, <2>3, <2>7, <2>8 DEF DecodeBase58
<1> QED BY <1>16, <1>17

-------------------------------------------------------------------------------
(* Check bytes.                                                            *)

\* Two bytes as a number.
TwoBytes == {h \in Nat : h < 65536}

Moduli == {65521, 65519}

RollingOn(bytes, factor, modulus, f) ==
    /\ f \in [0..Len(bytes) -> TwoBytes]
    /\ f[0] = factor
    /\ \A i \in 1..Len(bytes) : f[i] = (factor * f[i - 1] + bytes[Len(bytes) + 1 - i] + 7) % modulus

\* The rounds of the stand-in for a hash.
LEMMA RollingRuns ==
    ASSUME NEW bytes \in Seq(Byte), NEW factor \in Byte, NEW modulus \in Moduli
    PROVE  \E f : RollingOn(bytes, factor, modulus, f) /\ Rolling(bytes, factor, modulus) = f[Len(bytes)]
<1>1. PICK n \in Nat : n = Len(bytes)
  OBVIOUS
<1>2. PICK S : S = TwoBytes
  OBVIOUS
<1> DEFINE e(i, x) == (factor * x + bytes[Len(bytes) + 1 - i] + 7) % modulus
           s == [i \in 1..n |-> [x \in S |-> e(i, x)]]
<1>3. factor \in S
  <2>1. factor \in TwoBytes
    BY DEF TwoBytes, Byte
  <2> QED BY <1>2, <2>1
<1>4. ASSUME NEW i \in 1..n, NEW x \in S PROVE e(i, x) \in S
  <2>1. Len(bytes) + 1 - i \in 1..Len(bytes)
    BY <1>1
  <2>2. PICK b \in Byte : b = bytes[Len(bytes) + 1 - i]
    BY <2>1, ElementOfSeq
  <2>3. PICK p \in Nat : p = factor * x
    <3>1. factor \in Nat /\ x \in Nat
      BY <1>2 DEF Byte, TwoBytes
    <3> QED BY <3>1
  <2>4. PICK w \in Nat : w = factor * x + bytes[Len(bytes) + 1 - i] + 7
    <3>1. p + b + 7 \in Nat
      BY DEF Byte
    <3> QED BY <2>2, <2>3, <3>1
  <2>5. e(i, x) = w % modulus
    BY <2>4
  <2>6. w % 65521 \in Nat /\ w % 65521 < 65521
    OBVIOUS
  <2>7. w % 65519 \in Nat /\ w % 65519 < 65519
    OBVIOUS
  <2>8. w % modulus \in TwoBytes
    <3>1. CASE modulus = 65521
      BY <2>6, <3>1 DEF TwoBytes
    <3>2. CASE modulus = 65519
      BY <2>7, <3>2 DEF TwoBytes
    <3> QED BY <3>1, <3>2 DEF Moduli
  <2> HIDE DEF e
  <2> QED BY <1>2, <2>5, <2>8
<1>5. \A i, x : e(i, x) = (factor * x + bytes[Len(bytes) + 1 - i] + 7) % modulus
  OBVIOUS
<1> HIDE DEF e
<1>6. s \in [1..n -> [S -> S]] /\ \A i \in 1..n : \A x \in S : s[i][x] = e(i, x)
  BY <1>4
<1> HIDE DEF s
<1>7. PICK g : Follows(g, n, S, factor, s)
  BY <1>3, <1>6, FollowsExists
<1>8. g = [i \in 0..n |-> IF i = 0 THEN factor ELSE e(i, g[i - 1])]
  <2>1. \A i \in 0..n : i # 0 => i \in 1..n /\ i - 1 \in 0..n
    OBVIOUS
  <2>2. \A i \in 1..n : g[i] = s[i][g[i - 1]]
    BY <1>7 DEF Follows
  <2>3. \A i \in 0..n : g[i] \in S
    BY <1>7 DEF Follows
  <2>4. \A i \in 0..n : i # 0 => g[i] = e(i, g[i - 1])
    BY <1>6, <2>1, <2>2, <2>3
  <2>5. g[0] = factor /\ g = [i \in 0..n |-> g[i]]
    BY <1>7 DEF Follows
  <2> QED BY <2>4, <2>5
<1>9. PICK f : f = CHOOSE h : h = [i \in 0..n |-> IF i = 0 THEN factor ELSE e(i, h[i - 1])]
  OBVIOUS
<1>10. f = [i \in 0..n |-> IF i = 0 THEN factor ELSE e(i, f[i - 1])]
  BY <1>8, <1>9
<1>11. Rolling(bytes, factor, modulus) = f[n]
  BY <1>1, <1>9 DEF Rolling, e
<1>12. Follows(f, n, S, factor, s)
  <2>1. f[0] = factor /\ f = [i \in 0..n |-> f[i]]
    BY <1>10
  <2>2. \A i \in 1..n : i \in 0..n /\ i # 0
    OBVIOUS
  <2>3. \A i \in 1..n : f[i - 1] \in S => f[i] = s[i][f[i - 1]]
    BY <1>6, <1>10, <2>2
  <2> QED BY <1>3, <1>6, <2>1, <2>3, FollowsAll
<1>13. f \in [0..n -> S] /\ f[0] = factor
  BY <1>12 DEF Follows
<1>14. \A i \in 1..n : f[i] = (factor * f[i - 1] + bytes[Len(bytes) + 1 - i] + 7) % modulus
  <2>1. \A i \in 1..n : i \in 0..n /\ i # 0
    OBVIOUS
  <2>2. \A i \in 1..n : f[i] = e(i, f[i - 1])
    BY <1>10, <2>1
  <2> QED BY <1>5, <2>2
<1>15. RollingOn(bytes, factor, modulus, f)
  BY <1>1, <1>2, <1>13, <1>14 DEF RollingOn
<1> QED
  BY <1>1, <1>11, <1>15

LEMMA CheckType ==
    ASSUME NEW bytes \in Seq(Byte)
    PROVE  Check(bytes) \in Seq(Byte) /\ Len(Check(bytes)) = 4
<1>1. ASSUME NEW factor \in Byte, NEW modulus \in Moduli
      PROVE  Rolling(bytes, factor, modulus) \in TwoBytes
  <2>1. PICK f : RollingOn(bytes, factor, modulus, f) /\ Rolling(bytes, factor, modulus) = f[Len(bytes)]
    BY RollingRuns
  <2>2. f \in [0..Len(bytes) -> TwoBytes] /\ Len(bytes) \in 0..Len(bytes)
    BY <2>1 DEF RollingOn
  <2> QED BY <2>1, <2>2
<1>2. 31 \in Byte /\ 131 \in Byte /\ 65521 \in Moduli /\ 65519 \in Moduli
  BY DEF Byte, Moduli
<1>3. PICK a \in TwoBytes, b \in TwoBytes :
          a = Rolling(bytes, 31, 65521) /\ b = Rolling(bytes, 131, 65519)
  BY <1>1, <1>2
<1>4. \A h \in TwoBytes : h \div 256 \in Byte /\ h % 256 \in Byte
  BY DEF TwoBytes, Byte
<1>5. Check(bytes) = <<a \div 256, a % 256, b \div 256, b % 256>>
  BY <1>3 DEF Check, CheckOf
<1> QED BY <1>4, <1>5

\* The check bytes are found behind what they were made of.
LEMMA CheckedBack ==
    ASSUME NEW bytes \in Seq(Byte)
    PROVE  Checked(bytes \o Check(bytes)) = bytes
<1>1. PICK c \in Seq(Byte) : c = Check(bytes) /\ Len(c) = 4
  BY CheckType
<1>2. PICK n \in Nat : n = Len(bytes)
  OBVIOUS
<1>3. PICK s : s = bytes \o c
  OBVIOUS
<1>4. s \in Seq(Byte) /\ Len(s) = n + 4
  <2>1. s \in Seq(Byte) /\ Len(s) = Len(bytes) + Len(c)
    BY <1>3, CatIs
  <2> QED BY <1>1, <1>2, <2>1
<1>5. SubSeq(s, 1, n) = bytes /\ SubSeq(s, n + 1, n + 4) = c
  BY <1>1, <1>2, <1>3, CatParts
<1>6. Len(s) - 4 = n /\ n >= 0
  BY <1>4
<1> QED BY <1>1, <1>3, <1>5, <1>6 DEF Checked

\* What EncodeBase58Check writes, DecodeBase58Check reads.
LEMMA Base58CheckReadBack ==
    ASSUME NEW bytes \in Seq(Byte), NEW before \in Seq(Spaces), NEW after \in Seq(Spaces)
    PROVE  DecodeBase58Check(before \o (EncodeBase58Check(bytes) \o after)) = bytes
<1>1. bytes \o Check(bytes) \in Seq(Byte)
  BY CheckType, ConcatProperties
<1>2. DecodeBase58(before \o (EncodeBase58(bytes \o Check(bytes)) \o after)) = bytes \o Check(bytes)
  BY <1>1, Base58ReadBack
<1> QED BY <1>2, CheckedBack DEF DecodeBase58Check, EncodeBase58Check

\* The bytes of such a text: the version, then the data.
BytesAre(bytes, nVersion, vchData) == bytes # <<>> /\ bytes[1] = nVersion /\ Tail(bytes) = vchData

LEMMA AddressBytes ==
    ASSUME NEW nVersion \in Byte, NEW vchData \in Seq(Byte),
           NEW before \in Seq(Spaces), NEW after \in Seq(Spaces)
    PROVE  BytesAre(DecodeBase58Check(before \o (AsString(<<nVersion, vchData>>) \o after)),
                    nVersion, vchData)
<1>1. PICK bytes : bytes = <<nVersion>> \o vchData
  OBVIOUS
<1>2. <<nVersion>> \in Seq(Byte) /\ Len(<<nVersion>>) = 1 /\ <<nVersion>>[1] = nVersion /\ 1 \in 1..1
  OBVIOUS
<1>3. /\ bytes \in Seq(Byte) /\ Len(bytes) = 1 + Len(vchData) /\ bytes[1] = nVersion
      /\ \A i \in 1..Len(vchData) : bytes[1 + i] = vchData[i]
  BY <1>1, <1>2, CatIs
<1>4. bytes # <<>>
  <2>1. Len(bytes) # 0
    BY <1>3
  <2> QED BY <1>3, <2>1, EmptySeq
<1>5. Tail(bytes) = vchData
  <2>1. /\ Tail(bytes) \in Seq(Byte) /\ Len(Tail(bytes)) = Len(bytes) - 1
        /\ \A i \in 1..Len(Tail(bytes)) : Tail(bytes)[i] = bytes[i + 1]
    BY <1>3, <1>4, HeadTailProperties
  <2>2. Len(Tail(bytes)) = Len(vchData)
    BY <1>3, <2>1
  <2>3. \A i \in 1..Len(vchData) : i + 1 = 1 + i
    OBVIOUS
  <2>4. \A i \in 1..Len(Tail(bytes)) : Tail(bytes)[i] = vchData[i]
    BY <1>3, <2>1, <2>2, <2>3
  <2> QED BY <2>1, <2>2, <2>4, SeqEqual
<1>6. AsString(<<nVersion, vchData>>) = EncodeBase58Check(bytes)
  BY <1>1 DEF AsString
<1>7. DecodeBase58Check(before \o (AsString(<<nVersion, vchData>>) \o after)) = bytes
  BY <1>3, <1>6, Base58CheckReadBack
<1> QED BY <1>3, <1>4, <1>5, <1>7 DEF BytesAre

\* The text of an object of CBase58Data, with spaces on either side, is read
\* as that object by SetString with its own version, and by SetString with any
\* other version as none (ToString, SetString).
THEOREM AddressReadBack ==
    ASSUME NEW nVersion \in Byte, NEW vchData \in Seq(Byte),
           NEW before \in Seq(Spaces), NEW after \in Seq(Spaces), NEW version
    PROVE  SetString(before \o (AsString(<<nVersion, vchData>>) \o after), version) =
               IF version = nVersion THEN [ok |-> TRUE, b58 |-> <<nVersion, vchData>>]
               ELSE [ok |-> FALSE, b58 |-> Cleared]
<1>1. PICK bytes : /\ bytes = DecodeBase58Check(before \o (AsString(<<nVersion, vchData>>) \o after))
                   /\ BytesAre(bytes, nVersion, vchData)
  BY AddressBytes
<1>2. bytes # <<>> /\ bytes[1] = nVersion /\ Tail(bytes) = vchData
  BY <1>1 DEF BytesAre
<1> QED BY <1>1, <1>2 DEF SetString, SetDecoded

\* Equal objects compare as equal, and an object is not less than itself.
LEMMA CompareSame ==
    ASSUME NEW nVersion \in Byte, NEW vchData \in Seq(Byte)
    PROVE  CompareTo(<<nVersion, vchData>>, <<nVersion, vchData>>) = 0
<1>1. ~BytesLess(vchData, vchData)
  <2>1. SUFFICES ASSUME BytesLess(vchData, vchData) PROVE FALSE
    OBVIOUS
  <2>2. PICK n \in 0..Len(vchData) : /\ n < Len(vchData)
                                     /\ n = Len(vchData) \/ vchData[n + 1] < vchData[n + 1]
    BY <2>1 DEF BytesLess
  <2>3. n + 1 \in 1..Len(vchData) /\ vchData[n + 1] < vchData[n + 1]
    BY <2>2
  <2>4. vchData[n + 1] \in Byte
    BY <2>3, ElementOfSeq
  <2>5. PICK b \in 0..255 : b = vchData[n + 1]
    BY <2>4 DEF Byte
  <2> QED BY <2>3, <2>5
<1>2. ~(nVersion < nVersion)
  BY DEF Byte
<1> QED BY <1>1, <1>2 DEF CompareTo

-------------------------------------------------------------------------------
(* Bits.                                                                   *)

Bit == 0..1

Halving(number, size, f) ==
    /\ f \in [0..size -> Nat]
    /\ f[0] = number
    /\ \A i \in 1..size : f[i] = f[i - 1] \div 2

\* A number halved.
LEMMA BitsOfRuns ==
    ASSUME NEW number \in Nat, NEW size \in Nat
    PROVE  \E f : Halving(number, size, f) /\ BitsOf(number, size) = LowBits(f, size)
<1>1. size \in Nat
  OBVIOUS
<1>2. PICK S : S = Nat
  OBVIOUS
<1> DEFINE e(i, x) == x \div 2
           s == [i \in 1..size |-> [x \in S |-> e(i, x)]]
<1>3. number \in S
  BY <1>2
<1>4. ASSUME NEW i \in 1..size, NEW x \in S PROVE e(i, x) \in S
  <2>1. x \in Nat
    BY <1>2
  <2>2. x \div 2 \in Nat
    BY <2>1
  <2> QED BY <1>2, <2>2
<1>5. \A i, x : e(i, x) = x \div 2
  OBVIOUS
<1> HIDE DEF e
<1>6. s \in [1..size -> [S -> S]] /\ \A i \in 1..size : \A x \in S : s[i][x] = e(i, x)
  BY <1>4
<1> HIDE DEF s
<1>7. PICK g : Follows(g, size, S, number, s)
  BY <1>3, <1>6, FollowsExists
<1>8. g = [i \in 0..size |-> IF i = 0 THEN number ELSE e(i, g[i - 1])]
  <2>1. \A i \in 0..size : i # 0 => i \in 1..size /\ i - 1 \in 0..size
    OBVIOUS
  <2>2. \A i \in 1..size : g[i] = s[i][g[i - 1]]
    BY <1>7 DEF Follows
  <2>3. \A i \in 0..size : g[i] \in S
    BY <1>7 DEF Follows
  <2>4. \A i \in 0..size : i # 0 => g[i] = e(i, g[i - 1])
    BY <1>6, <2>1, <2>2, <2>3
  <2>5. g[0] = number /\ g = [i \in 0..size |-> g[i]]
    BY <1>7 DEF Follows
  <2> QED BY <2>4, <2>5
<1>9. PICK f : f = CHOOSE h : h = [i \in 0..size |-> IF i = 0 THEN number ELSE e(i, h[i - 1])]
  OBVIOUS
<1>10. f = [i \in 0..size |-> IF i = 0 THEN number ELSE e(i, f[i - 1])]
  BY <1>8, <1>9
<1>11. BitsOf(number, size) = LowBits(f, size)
  BY <1>1, <1>9 DEF BitsOf, e
<1>12. Follows(f, size, S, number, s)
  <2>1. f[0] = number /\ f = [i \in 0..size |-> f[i]]
    BY <1>10
  <2>2. \A i \in 1..size : i \in 0..size /\ i # 0
    OBVIOUS
  <2>3. \A i \in 1..size : f[i - 1] \in S => f[i] = s[i][f[i - 1]]
    BY <1>6, <1>10, <2>2
  <2> QED BY <1>3, <1>6, <2>1, <2>3, FollowsAll
<1>13. f \in [0..size -> S] /\ f[0] = number
  BY <1>12 DEF Follows
<1>14. \A i \in 1..size : f[i] = f[i - 1] \div 2
  <2>1. \A i \in 1..size : i \in 0..size /\ i # 0
    OBVIOUS
  <2>2. \A i \in 1..size : f[i] = e(i, f[i - 1])
    BY <1>10, <2>1
  <2> QED BY <1>5, <2>2
<1>15. Halving(number, size, f)
  BY <1>1, <1>2, <1>13, <1>14 DEF Halving
<1> QED
  BY <1>1, <1>11, <1>15

LEMMA BitsOfType ==
    ASSUME NEW number \in Nat, NEW size \in Nat
    PROVE  BitsOf(number, size) \in Seq(Bit) /\ Len(BitsOf(number, size)) = size
<1>1. PICK f : Halving(number, size, f) /\ BitsOf(number, size) = LowBits(f, size)
  BY BitsOfRuns
<1>2. f \in [0..size -> Nat]
  BY <1>1 DEF Halving
<1>3. ASSUME NEW i \in 1..size PROVE f[size - i] % 2 \in Bit
  <2>1. size - i \in 0..size
    OBVIOUS
  <2>2. PICK h \in Nat : h = f[size - i]
    BY <1>2, <2>1
  <2>3. h % 2 \in 0..1
    OBVIOUS
  <2> QED BY <2>2, <2>3 DEF Bit
<1>4. PICK b : b = [i \in 1..size |-> f[size - i] % 2]
  OBVIOUS
<1>5. b \in Seq(Bit) /\ Len(b) = size
  BY <1>3, <1>4
<1> QED BY <1>1, <1>4, <1>5 DEF LowBits

Extracting(bits, start, length, f) ==
    /\ f \in [0..length -> Nat]
    /\ f[0] = 0
    /\ \A i \in 1..length : f[i] = (2 * f[i - 1]) + bits[start + i]

\* Bits put together.
LEMMA extractRuns ==
    ASSUME NEW bits \in Seq(Bit), NEW start \in Nat, NEW length \in Nat, start + length <= Len(bits)
    PROVE  \E f : Extracting(bits, start, length, f) /\ extract(bits, start, length) = f[length]
<1>1. length \in Nat
  OBVIOUS
<1>2. PICK S : S = Nat
  OBVIOUS
<1> DEFINE e(i, x) == (2 * x) + bits[start + i]
           s == [i \in 1..length |-> [x \in S |-> e(i, x)]]
<1>3. 0 \in S
  <2>1. 0 \in Nat
    OBVIOUS
  <2> QED BY <1>2, <2>1
<1>4. ASSUME NEW i \in 1..length, NEW x \in S PROVE e(i, x) \in S
  <2>1. start + i \in 1..Len(bits)
    BY <1>1
  <2>2. bits[start + i] \in Bit
    BY <2>1, ElementOfSeq
  <2>3. PICK b \in 0..1, v \in Nat : b = bits[start + i] /\ v = x
    BY <1>2, <2>2 DEF Bit
  <2>4. (2 * v) + b \in Nat
    OBVIOUS
  <2> QED BY <1>2, <2>3, <2>4
<1>5. \A i, x : e(i, x) = (2 * x) + bits[start + i]
  OBVIOUS
<1> HIDE DEF e
<1>6. s \in [1..length -> [S -> S]] /\ \A i \in 1..length : \A x \in S : s[i][x] = e(i, x)
  BY <1>4
<1> HIDE DEF s
<1>7. PICK g : Follows(g, length, S, 0, s)
  BY <1>3, <1>6, FollowsExists
<1>8. g = [i \in 0..length |-> IF i = 0 THEN 0 ELSE e(i, g[i - 1])]
  <2>1. \A i \in 0..length : i # 0 => i \in 1..length /\ i - 1 \in 0..length
    OBVIOUS
  <2>2. \A i \in 1..length : g[i] = s[i][g[i - 1]]
    BY <1>7 DEF Follows
  <2>3. \A i \in 0..length : g[i] \in S
    BY <1>7 DEF Follows
  <2>4. \A i \in 0..length : i # 0 => g[i] = e(i, g[i - 1])
    BY <1>6, <2>1, <2>2, <2>3
  <2>5. g[0] = 0 /\ g = [i \in 0..length |-> g[i]]
    BY <1>7 DEF Follows
  <2> QED BY <2>4, <2>5
<1>9. PICK f : f = CHOOSE h : h = [i \in 0..length |-> IF i = 0 THEN 0 ELSE e(i, h[i - 1])]
  OBVIOUS
<1>10. f = [i \in 0..length |-> IF i = 0 THEN 0 ELSE e(i, f[i - 1])]
  BY <1>8, <1>9
<1>11. extract(bits, start, length) = f[length]
  BY <1>1, <1>9 DEF extract, e
<1>12. Follows(f, length, S, 0, s)
  <2>1. f[0] = 0 /\ f = [i \in 0..length |-> f[i]]
    BY <1>10
  <2>2. \A i \in 1..length : i \in 0..length /\ i # 0
    OBVIOUS
  <2>3. \A i \in 1..length : f[i - 1] \in S => f[i] = s[i][f[i - 1]]
    BY <1>6, <1>10, <2>2
  <2> QED BY <1>3, <1>6, <2>1, <2>3, FollowsAll
<1>13. f \in [0..length -> S] /\ f[0] = 0
  BY <1>12 DEF Follows
<1>14. \A i \in 1..length : f[i] = (2 * f[i - 1]) + bits[start + i]
  <2>1. \A i \in 1..length : i \in 0..length /\ i # 0
    OBVIOUS
  <2>2. \A i \in 1..length : f[i] = e(i, f[i - 1])
    BY <1>10, <2>1
  <2> QED BY <1>5, <2>2
<1>15. Extracting(bits, start, length, f)
  BY <1>1, <1>2, <1>13, <1>14 DEF Extracting
<1> QED
  BY <1>1, <1>11, <1>15

\* Bits that are put together are found again.
LEMMA BitsBack ==
    ASSUME NEW bits \in Seq(Bit), NEW start \in Nat, NEW n \in Nat, start + n <= Len(bits)
    PROVE  /\ extract(bits, start, n) \in Nat
           /\ \A i \in 1..n : BitsOf(extract(bits, start, n), n)[i] = bits[start + i]
<1>1. PICK f : Extracting(bits, start, n, f) /\ extract(bits, start, n) = f[n]
  BY extractRuns
<1>2. f \in [0..n -> Nat] /\ f[0] = 0 /\ \A i \in 1..n : f[i] = (2 * f[i - 1]) + bits[start + i]
  BY <1>1 DEF Extracting
<1>3. PICK v \in Nat : v = f[n]
  <2>1. n \in 0..n
    OBVIOUS
  <2> QED BY <1>2, <2>1
<1>4. PICK g : Halving(v, n, g) /\ BitsOf(v, n) = LowBits(g, n)
  BY BitsOfRuns
<1>5. g[0] = v /\ \A i \in 1..n : g[i] = g[i - 1] \div 2
  BY <1>4 DEF Halving
<1>6. ASSUME NEW k \in 1..n
      PROVE  f[k] \div 2 = f[k - 1] /\ f[k] % 2 = bits[start + k]
  <2>1. k - 1 \in 0..n /\ start + k \in 1..Len(bits)
    OBVIOUS
  <2>2. PICK u \in Nat : u = f[k - 1]
    BY <1>2, <2>1
  <2>3. bits[start + k] \in Bit
    BY <2>1, ElementOfSeq
  <2>4. PICK b \in 0..1 : b = bits[start + k]
    BY <2>3 DEF Bit
  <2>5. f[k] = (2 * u) + b
    BY <1>2, <2>2, <2>4
  <2>6. ((2 * u) + b) \div 2 = u /\ ((2 * u) + b) % 2 = b
    OBVIOUS
  <2> QED BY <2>2, <2>4, <2>5, <2>6
<1> DEFINE T == {j \in Nat : j <= n => g[j] = f[n - j]}
<1>7. 0 \in T
  <2>1. n - 0 = n
    OBVIOUS
  <2> QED BY <1>3, <1>5, <2>1
<1>8. ASSUME NEW j \in Nat, j \in T PROVE j + 1 \in T
  <2>1. SUFFICES ASSUME j + 1 <= n PROVE g[j + 1] = f[n - (j + 1)]
    OBVIOUS
  <2>2. /\ j <= n /\ j + 1 \in 1..n /\ (j + 1) - 1 = j
        /\ n - j \in 1..n /\ (n - j) - 1 = n - (j + 1)
    BY <2>1
  <2>3. g[j] = f[n - j] /\ g[j + 1] = g[j] \div 2
    BY <1>5, <1>8, <2>2
  <2>4. f[n - j] \div 2 = f[(n - j) - 1]
    BY <1>6, <2>2
  <2> QED BY <2>2, <2>3, <2>4
<1> HIDE DEF T
<1>9. Nat \subseteq T
  BY <1>7, <1>8, NatSet
<1>10. ASSUME NEW i \in 1..n PROVE BitsOf(v, n)[i] = bits[start + i]
  <2>1. n - i \in Nat /\ n - i <= n /\ n - (n - i) = i
    OBVIOUS
  <2>2. g[n - i] = f[n - (n - i)]
    BY <1>9, <2>1 DEF T
  <2>3. g[n - i] % 2 = f[i] % 2
    BY <2>1, <2>2
  <2> QED BY <1>4, <1>6, <2>3 DEF LowBits
<1> QED BY <1>1, <1>3, <1>10

\* A number of n bits: nothing is left when it is halved n times.
OfBits(number, n) == \A f : Halving(number, n, f) => f[n] = 0

\* The bits of such a number, wherever they stand, are put together again.
LEMMA ExtractBack ==
    ASSUME NEW number \in Nat, NEW n \in Nat, OfBits(number, n),
           NEW bits \in Seq(Bit), NEW start \in Nat, start + n <= Len(bits),
           \A i \in 1..n : bits[start + i] = BitsOf(number, n)[i]
    PROVE  extract(bits, start, n) = number
<1>1. PICK f : Extracting(bits, start, n, f) /\ extract(bits, start, n) = f[n]
  BY extractRuns
<1>2. f[0] = 0 /\ \A i \in 1..n : f[i] = (2 * f[i - 1]) + bits[start + i]
  BY <1>1 DEF Extracting
<1>3. PICK g : Halving(number, n, g) /\ BitsOf(number, n) = LowBits(g, n)
  BY BitsOfRuns
<1>4. g \in [0..n -> Nat] /\ g[0] = number /\ \A i \in 1..n : g[i] = g[i - 1] \div 2
  BY <1>3 DEF Halving
<1>5. g[n] = 0
  BY <1>3 DEF OfBits
<1> DEFINE T == {j \in Nat : j <= n => f[j] = g[n - j]}
<1>6. 0 \in T
  <2>1. n - 0 = n
    OBVIOUS
  <2> QED BY <1>2, <1>5, <2>1
<1>7. ASSUME NEW j \in Nat, j \in T PROVE j + 1 \in T
  <2>1. SUFFICES ASSUME j + 1 <= n PROVE f[j + 1] = g[n - (j + 1)]
    OBVIOUS
  <2>2. /\ j <= n /\ j + 1 \in 1..n /\ (j + 1) - 1 = j
        /\ n - j \in 1..n /\ (n - j) - 1 = n - (j + 1) /\ n - (j + 1) \in 0..n
    BY <2>1
  <2>3. f[j] = g[n - j] /\ f[j + 1] = (2 * f[j]) + bits[start + (j + 1)]
    BY <1>2, <1>7, <2>2
  <2>4. bits[start + (j + 1)] = BitsOf(number, n)[j + 1]
    BY <2>2
  <2>5. BitsOf(number, n)[j + 1] = g[n - (j + 1)] % 2
    BY <1>3, <2>2 DEF LowBits
  <2>6. g[n - j] = g[n - (j + 1)] \div 2
    BY <1>4, <2>2
  <2>7. PICK u \in Nat : u = g[n - (j + 1)]
    BY <1>4, <2>2
  <2>8. (2 * (u \div 2)) + (u % 2) = u
    OBVIOUS
  <2>9. f[j + 1] = (2 * (u \div 2)) + (u % 2)
    BY <2>3, <2>4, <2>5, <2>6, <2>7
  <2> QED BY <2>7, <2>8, <2>9
<1> HIDE DEF T
<1>8. Nat \subseteq T
  BY <1>6, <1>7, NatSet
<1>9. f[n] = g[n - n] /\ n - n = 0
  BY <1>8 DEF T
<1> QED BY <1>1, <1>4, <1>9

\* Bytes have eight bits, and what is left of four has two.
LEMMA OfBitsIs ==
    /\ \A b \in Byte : OfBits(b, 8)
    /\ \A b \in 0..3 : OfBits(b, 2)
<1>1. ASSUME NEW b \in Byte, NEW f, Halving(b, 8, f) PROVE f[8] = 0
  <2>1. f[0] = b /\ \A i \in 1..8 : f[i] = f[i - 1] \div 2
    BY <1>1 DEF Halving
  <2>2. /\ f[1] = f[0] \div 2 /\ f[2] = f[1] \div 2 /\ f[3] = f[2] \div 2 /\ f[4] = f[3] \div 2
        /\ f[5] = f[4] \div 2 /\ f[6] = f[5] \div 2 /\ f[7] = f[6] \div 2 /\ f[8] = f[7] \div 2
    BY <2>1
  <2>3. \A v \in 0..255 : (((v \div 2) \div 2) \div 2) \div 2 \in 0..15
    OBVIOUS
  <2>4. \A v \in 0..15 : (((v \div 2) \div 2) \div 2) \div 2 = 0
    OBVIOUS
  <2>5. PICK v \in 0..255, w \in 0..15 : v = f[0] /\ w = (((v \div 2) \div 2) \div 2) \div 2
    BY SMTT(40), <2>1, <2>3 DEF Byte
  <2>6. f[4] = w
    BY ZenonT(40), <2>2, <2>5
  <2>7. f[8] = (((w \div 2) \div 2) \div 2) \div 2
    BY <2>2, <2>6
  <2> QED BY <2>4, <2>7
<1>2. ASSUME NEW b \in 0..3, NEW f, Halving(b, 2, f) PROVE f[2] = 0
  <2>1. f[0] = b /\ \A i \in 1..2 : f[i] = f[i - 1] \div 2
    BY <1>2 DEF Halving
  <2>2. f[1] = f[0] \div 2 /\ f[2] = f[1] \div 2
    BY <2>1
  <2>3. PICK a \in 0..1 : a = f[1]
    BY <2>1, <2>2
  <2> QED BY <2>2, <2>3
<1> QED BY <1>1, <1>2 DEF OfBits

\* Eleven bits are the number of a word.
LEMMA WordNumber ==
    ASSUME NEW bits \in Seq(Bit), NEW start \in Nat, start + 11 <= Len(bits)
    PROVE  extract(bits, start, 11) \in Nat /\ extract(bits, start, 11) < 2048
<1>1. PICK f : Extracting(bits, start, 11, f) /\ extract(bits, start, 11) = f[11]
  BY extractRuns
<1>2. f \in [0..11 -> Nat] /\ f[0] = 0 /\ \A i \in 1..11 : f[i] = (2 * f[i - 1]) + bits[start + i]
  BY <1>1 DEF Extracting
<1>3. ASSUME NEW i \in 0..10 PROVE f[i + 1] \in Nat /\ f[i + 1] <= 2 * f[i] + 1
  <2>1. /\ start + (i + 1) \in 1..Len(bits) /\ i \in 0..11 /\ i + 1 \in 0..11 /\ i + 1 \in 1..11
        /\ (i + 1) - 1 = i
    OBVIOUS
  <2>2. bits[start + (i + 1)] \in Bit
    BY <2>1, ElementOfSeq
  <2>3. PICK b \in 0..1, u \in Nat : b = bits[start + (i + 1)] /\ u = f[i]
    BY <1>2, <2>1, <2>2 DEF Bit
  <2>4. f[i + 1] = (2 * u) + b /\ f[i + 1] \in Nat
    BY <1>2, <2>1, <2>3
  <2>5. (2 * u) + b <= 2 * u + 1
    OBVIOUS
  <2> QED BY <2>3, <2>4, <2>5
<1>4. f[1] \in Nat /\ f[1] <= 1
  <2>1. 0 \in 0..10 /\ 0 + 1 = 1
    OBVIOUS
  <2>2. f[1] \in Nat /\ f[1] <= 2 * f[0] + 1
    BY <1>3, <2>1
  <2> QED BY <1>2, <2>2
<1>5. f[2] \in Nat /\ f[2] <= 3
  <2>1. 1 \in 0..10 /\ 1 + 1 = 2
    OBVIOUS
  <2>2. f[2] \in Nat /\ f[2] <= 2 * f[1] + 1
    BY <1>3, <2>1
  <2> QED BY <1>4, <2>2
<1>6. f[3] \in Nat /\ f[3] <= 7
  <2>1. 2 \in 0..10 /\ 2 + 1 = 3
    OBVIOUS
  <2>2. f[3] \in Nat /\ f[3] <= 2 * f[2] + 1
    BY <1>3, <2>1
  <2> QED BY <1>5, <2>2
<1>7. f[4] \in Nat /\ f[4] <= 15
  <2>1. 3 \in 0..10 /\ 3 + 1 = 4
    OBVIOUS
  <2>2. f[4] \in Nat /\ f[4] <= 2 * f[3] + 1
    BY <1>3, <2>1
  <2> QED BY <1>6, <2>2
<1>8. f[5] \in Nat /\ f[5] <= 31
  <2>1. 4 \in 0..10 /\ 4 + 1 = 5
    OBVIOUS
  <2>2. f[5] \in Nat /\ f[5] <= 2 * f[4] + 1
    BY <1>3, <2>1
  <2> QED BY <1>7, <2>2
<1>9. f[6] \in Nat /\ f[6] <= 63
  <2>1. 5 \in 0..10 /\ 5 + 1 = 6
    OBVIOUS
  <2>2. f[6] \in Nat /\ f[6] <= 2 * f[5] + 1
    BY <1>3, <2>1
  <2> QED BY <1>8, <2>2
<1>10. f[7] \in Nat /\ f[7] <= 127
  <2>1. 6 \in 0..10 /\ 6 + 1 = 7
    OBVIOUS
  <2>2. f[7] \in Nat /\ f[7] <= 2 * f[6] + 1
    BY <1>3, <2>1
  <2> QED BY <1>9, <2>2
<1>11. f[8] \in Nat /\ f[8] <= 255
  <2>1. 7 \in 0..10 /\ 7 + 1 = 8
    OBVIOUS
  <2>2. f[8] \in Nat /\ f[8] <= 2 * f[7] + 1
    BY <1>3, <2>1
  <2> QED BY <1>10, <2>2
<1>12. f[9] \in Nat /\ f[9] <= 511
  <2>1. 8 \in 0..10 /\ 8 + 1 = 9
    OBVIOUS
  <2>2. f[9] \in Nat /\ f[9] <= 2 * f[8] + 1
    BY <1>3, <2>1
  <2> QED BY <1>11, <2>2
<1>13. f[10] \in Nat /\ f[10] <= 1023
  <2>1. 9 \in 0..10 /\ 9 + 1 = 10
    OBVIOUS
  <2>2. f[10] \in Nat /\ f[10] <= 2 * f[9] + 1
    BY <1>3, <2>1
  <2> QED BY <1>12, <2>2
<1>14. f[11] \in Nat /\ f[11] <= 2047
  <2>1. 10 \in 0..10 /\ 10 + 1 = 11
    OBVIOUS
  <2>2. f[11] \in Nat /\ f[11] <= 2 * f[10] + 1
    BY <1>3, <2>1
  <2> QED BY <1>13, <2>2
<1>15. f[11] < 2048
  BY <1>14
<1> QED BY <1>1, <1>14, <1>15

\* The bits of the k-th number of eight bits.
LEMMA Joined8 ==
    ASSUME NEW numbers \in Seq(Nat)
    PROVE  /\ Joined(numbers, 8) \in Seq(Bit) /\ Len(Joined(numbers, 8)) = 8 * Len(numbers)
           /\ \A k \in 1..Len(numbers) : \A i \in 1..8 :
                  Joined(numbers, 8)[8 * (k - 1) + i] = BitsOf(numbers[k], 8)[i]
<1>1. PICK n \in Nat : n = Len(numbers)
  OBVIOUS
<1>2. ASSUME NEW k \in 1..n
      PROVE  BitsOf(numbers[k], 8) \in Seq(Bit) /\ Len(BitsOf(numbers[k], 8)) = 8
  <2>1. numbers[k] \in Nat
    BY <1>1
  <2> QED BY <2>1, BitsOfType
<1>3. ASSUME NEW j \in 1..(8 * n) PROVE ((j - 1) \div 8) + 1 \in 1..n /\ ((j - 1) % 8) + 1 \in 1..8
  <2>1. PICK q, r : q = (j - 1) \div 8 /\ r = (j - 1) % 8
    OBVIOUS
  <2>2. q \in Nat /\ r \in 0..7 /\ j - 1 = 8 * q + r
    BY <2>1
  <2>3. q + 1 \in 1..n /\ r + 1 \in 1..8
    BY <2>2
  <2> QED BY <2>1, <2>3
<1>4. PICK m \in Nat : m = 8 * n
  OBVIOUS
<1>5. PICK b : b = [j \in 1..m |-> BitsOf(numbers[((j - 1) \div 8) + 1], 8)[((j - 1) % 8) + 1]]
  OBVIOUS
<1>6. Joined(numbers, 8) = b
  BY <1>1, <1>4, <1>5 DEF Joined
<1>7. ASSUME NEW j \in 1..m PROVE b[j] \in Bit
  <2>1. PICK k \in 1..n, i \in 1..8 : k = ((j - 1) \div 8) + 1 /\ i = ((j - 1) % 8) + 1
    BY <1>3, <1>4
  <2>2. BitsOf(numbers[k], 8)[i] \in Bit
    BY <1>2, ElementOfSeq
  <2> QED BY <1>5, <2>1, <2>2
<1>8. b \in Seq(Bit) /\ Len(b) = m
  <2>1. b = [j \in 1..m |-> b[j]]
    BY <1>5
  <2> QED BY <1>7, <2>1
<1>9. ASSUME NEW k \in 1..n, NEW i \in 1..8 PROVE b[8 * (k - 1) + i] = BitsOf(numbers[k], 8)[i]
  <2>1. PICK j : j = 8 * (k - 1) + i
    OBVIOUS
  <2>2. j \in 1..m /\ j - 1 = 8 * (k - 1) + (i - 1)
    BY <1>4, <2>1
  <2>3. PICK q \in Nat, r \in 0..7 : q = k - 1 /\ r = i - 1 /\ q + 1 = k /\ r + 1 = i
    OBVIOUS
  <2>4. j - 1 = 8 * q + r
    BY <2>2, <2>3
  <2>5. (8 * q + r) \div 8 = q /\ (8 * q + r) % 8 = r
    OBVIOUS
  <2>6. (j - 1) \div 8 = q /\ (j - 1) % 8 = r
    BY <2>4, <2>5
  <2>7. ((j - 1) \div 8) + 1 = k /\ ((j - 1) % 8) + 1 = i
    BY <2>3, <2>6
  <2> QED BY <1>5, <2>1, <2>2, <2>7
<1> QED BY <1>1, <1>4, <1>6, <1>8, <1>9

\* The bits of the k-th number of eleven bits.
LEMMA Joined11 ==
    ASSUME NEW numbers \in Seq(Nat)
    PROVE  /\ Joined(numbers, 11) \in Seq(Bit) /\ Len(Joined(numbers, 11)) = 11 * Len(numbers)
           /\ \A k \in 1..Len(numbers) : \A i \in 1..11 :
                  Joined(numbers, 11)[11 * (k - 1) + i] = BitsOf(numbers[k], 11)[i]
<1>1. PICK n \in Nat : n = Len(numbers)
  OBVIOUS
<1>2. ASSUME NEW k \in 1..n
      PROVE  BitsOf(numbers[k], 11) \in Seq(Bit) /\ Len(BitsOf(numbers[k], 11)) = 11
  <2>1. numbers[k] \in Nat
    BY <1>1
  <2> QED BY <2>1, BitsOfType
<1>3. ASSUME NEW j \in 1..(11 * n) PROVE ((j - 1) \div 11) + 1 \in 1..n /\ ((j - 1) % 11) + 1 \in 1..11
  <2>1. PICK q, r : q = (j - 1) \div 11 /\ r = (j - 1) % 11
    OBVIOUS
  <2>2. q \in Nat /\ r \in 0..10 /\ j - 1 = 11 * q + r
    BY <2>1
  <2>3. q + 1 \in 1..n /\ r + 1 \in 1..11
    BY <2>2
  <2> QED BY <2>1, <2>3
<1>4. PICK m \in Nat : m = 11 * n
  OBVIOUS
<1>5. PICK b : b = [j \in 1..m |-> BitsOf(numbers[((j - 1) \div 11) + 1], 11)[((j - 1) % 11) + 1]]
  OBVIOUS
<1>6. Joined(numbers, 11) = b
  BY <1>1, <1>4, <1>5 DEF Joined
<1>7. ASSUME NEW j \in 1..m PROVE b[j] \in Bit
  <2>1. PICK k \in 1..n, i \in 1..11 : k = ((j - 1) \div 11) + 1 /\ i = ((j - 1) % 11) + 1
    BY <1>3, <1>4
  <2>2. BitsOf(numbers[k], 11)[i] \in Bit
    BY <1>2, ElementOfSeq
  <2> QED BY <1>5, <2>1, <2>2
<1>8. b \in Seq(Bit) /\ Len(b) = m
  <2>1. b = [j \in 1..m |-> b[j]]
    BY <1>5
  <2> QED BY <1>7, <2>1
<1>9. ASSUME NEW k \in 1..n, NEW i \in 1..11 PROVE b[11 * (k - 1) + i] = BitsOf(numbers[k], 11)[i]
  <2>1. PICK j : j = 11 * (k - 1) + i
    OBVIOUS
  <2>2. j \in 1..m /\ j - 1 = 11 * (k - 1) + (i - 1)
    BY <1>4, <2>1
  <2>3. PICK q \in Nat, r \in 0..10 : q = k - 1 /\ r = i - 1 /\ q + 1 = k /\ r + 1 = i
    OBVIOUS
  <2>4. j - 1 = 11 * q + r
    BY <2>2, <2>3
  <2>5. (11 * q + r) \div 11 = q /\ (11 * q + r) % 11 = r
    OBVIOUS
  <2>6. (j - 1) \div 11 = q /\ (j - 1) % 11 = r
    BY <2>4, <2>5
  <2>7. ((j - 1) \div 11) + 1 = k /\ ((j - 1) % 11) + 1 = i
    BY <2>3, <2>6
  <2> QED BY <1>5, <2>1, <2>2, <2>7
<1> QED BY <1>1, <1>4, <1>6, <1>8, <1>9

\* The bits of eight bytes.
Bits64 == {bits \in Seq(Bit) : Len(bits) = 64}

Adding(bits, f) ==
    /\ f \in [0..32 -> Nat]
    /\ f[0] = 0
    /\ \A i \in 1..32 : f[i] = f[i - 1] + extract(bits, 2 * (i - 1), 2)

\* Pairs of bits added up.
LEMMA ParityRuns ==
    ASSUME NEW bits \in Bits64
    PROVE  \E f : Adding(bits, f) /\ Parity(bits) = f[32] % 4
<1>1. PICK n \in Nat : n = 32
  OBVIOUS
<1>2. PICK S : S = Nat
  OBVIOUS
<1> DEFINE e(i, x) == x + extract(bits, 2 * (i - 1), 2)
           s == [i \in 1..n |-> [x \in S |-> e(i, x)]]
<1>3. 0 \in S
  <2>1. 0 \in Nat
    OBVIOUS
  <2> QED BY <1>2, <2>1
<1>4. ASSUME NEW i \in 1..n, NEW x \in S PROVE e(i, x) \in S
  <2>1. 2 * (i - 1) \in Nat /\ 2 * (i - 1) + 2 <= Len(bits)
    <3>1. PICK j \in 1..32 : j = i
      BY <1>1
    <3>2. Len(bits) = 64
      BY DEF Bits64
    <3>3. 2 * (j - 1) \in Nat /\ 2 * (j - 1) + 2 <= 64
      OBVIOUS
    <3> QED BY <3>1, <3>2, <3>3
  <2>2. extract(bits, 2 * (i - 1), 2) \in Nat
    <3>1. bits \in Seq(Bit) /\ 2 \in Nat
      BY DEF Bits64
    <3> QED BY <2>1, <3>1, BitsBack
  <2>3. PICK a \in Nat, b \in Nat : a = x /\ b = extract(bits, 2 * (i - 1), 2)
    BY <1>2, <2>2
  <2>4. a + b \in Nat
    OBVIOUS
  <2> QED BY <1>2, <2>3, <2>4
<1>5. \A i, x : e(i, x) = x + extract(bits, 2 * (i - 1), 2)
  OBVIOUS
<1> HIDE DEF e
<1>6. s \in [1..n -> [S -> S]] /\ \A i \in 1..n : \A x \in S : s[i][x] = e(i, x)
  BY <1>4
<1> HIDE DEF s
<1>7. PICK g : Follows(g, n, S, 0, s)
  BY <1>3, <1>6, FollowsExists
<1>8. g = [i \in 0..n |-> IF i = 0 THEN 0 ELSE e(i, g[i - 1])]
  <2>1. \A i \in 0..n : i # 0 => i \in 1..n /\ i - 1 \in 0..n
    OBVIOUS
  <2>2. \A i \in 1..n : g[i] = s[i][g[i - 1]]
    BY <1>7 DEF Follows
  <2>3. \A i \in 0..n : g[i] \in S
    BY <1>7 DEF Follows
  <2>4. \A i \in 0..n : i # 0 => g[i] = e(i, g[i - 1])
    BY <1>6, <2>1, <2>2, <2>3
  <2>5. g[0] = 0 /\ g = [i \in 0..n |-> g[i]]
    BY <1>7 DEF Follows
  <2> QED BY <2>4, <2>5
<1>9. PICK f : f = CHOOSE h : h = [i \in 0..n |-> IF i = 0 THEN 0 ELSE e(i, h[i - 1])]
  OBVIOUS
<1>10. f = [i \in 0..n |-> IF i = 0 THEN 0 ELSE e(i, f[i - 1])]
  BY <1>8, <1>9
<1>11. Parity(bits) = f[n] % 4
  BY <1>1, <1>9 DEF Parity, e
<1>12. Follows(f, n, S, 0, s)
  <2>1. f[0] = 0 /\ f = [i \in 0..n |-> f[i]]
    BY <1>10
  <2>2. \A i \in 1..n : i \in 0..n /\ i # 0
    OBVIOUS
  <2>3. \A i \in 1..n : f[i - 1] \in S => f[i] = s[i][f[i - 1]]
    BY <1>6, <1>10, <2>2
  <2> QED BY <1>3, <1>6, <2>1, <2>3, FollowsAll
<1>13. f \in [0..n -> S] /\ f[0] = 0
  BY <1>12 DEF Follows
<1>14. \A i \in 1..n : f[i] = f[i - 1] + extract(bits, 2 * (i - 1), 2)
  <2>1. \A i \in 1..n : i \in 0..n /\ i # 0
    OBVIOUS
  <2>2. \A i \in 1..n : f[i] = e(i, f[i - 1])
    BY <1>10, <2>1
  <2> QED BY <1>5, <2>2
<1>15. Adding(bits, f)
  BY <1>1, <1>2, <1>13, <1>14 DEF Adding
<1> QED
  BY <1>1, <1>11, <1>15

LEMMA ParityType ==
    ASSUME NEW bits \in Bits64
    PROVE  Parity(bits) \in 0..3
<1>1. PICK f : Adding(bits, f) /\ Parity(bits) = f[32] % 4
  BY ParityRuns
<1>2. PICK p \in Nat : p = f[32]
  <2>1. f \in [0..32 -> Nat] /\ 32 \in 0..32
    BY <1>1 DEF Adding
  <2> QED BY <2>1
<1>3. p % 4 \in 0..3
  OBVIOUS
<1> QED BY <1>1, <1>2, <1>3

-------------------------------------------------------------------------------
(* The dictionary.                                                         *)

WordNumbers == {m \in Nat : m < 2048}

LEMMA WordIs ==
    ASSUME NEW m \in WordNumbers
    PROVE  /\ pcDict(m) \in Nat /\ pcDict(m) >= 1000
           /\ Rank(pcDict(m)) = 2 * m
           /\ LettersOf(pcDict(m)) = IF m < 571 THEN 3 ELSE 4
<1>1. PICK k \in Nat, l \in 3..4 : k = m /\ l = IF m < 571 THEN 3 ELSE 4
  BY DEF WordNumbers
<1>2. pcDict(m) = 1000 + (10 * (2 * k)) + l
  BY <1>1 DEF pcDict, Word, Short
<1>3. (1000 + (10 * (2 * k)) + l) - 1000 = 10 * (2 * k) + l
  OBVIOUS
<1>4. (10 * (2 * k) + l) \div 10 = 2 * k /\ (10 * (2 * k) + l) % 10 = l
  OBVIOUS
<1>5. pcDict(m) \in Nat /\ pcDict(m) >= 1000
  BY <1>2
<1>6. Rank(pcDict(m)) = 2 * k
  BY <1>2, <1>3, <1>4 DEF Rank
<1>7. LettersOf(pcDict(m)) = l
  BY <1>2, <1>3, <1>4, <1>5 DEF LettersOf, IsWord
<1> QED BY <1>1, <1>5, <1>6, <1>7

\* A range from a place up to, not including, another.
Ranges == {range \in Nat \X Nat : range[1] <= range[2]}

\* The middle of a range that is not empty.
LEMMA MiddleIs ==
    ASSUME NEW a \in Nat, NEW b \in Nat, a <= b
    PROVE  /\ iMid(<<a, b>>) \in Nat /\ a <= iMid(<<a, b>>)
           /\ a # b => iMid(<<a, b>>) < b
           /\ iMid(<<a, b>>) - a = (b - a) \div 2
           /\ a # b => b - (iMid(<<a, b>>) + 1) <= (b - a) \div 2
<1>1. PICK d \in Nat : d = b - a /\ b = a + d
  OBVIOUS
<1>2. PICK h : h = d \div 2
  OBVIOUS
<1>3. h \in Nat /\ h <= d /\ (d # 0 => h < d /\ (d - h) - 1 <= h)
  BY <1>2
<1>4. iMid(<<a, b>>) = a + h
  BY <1>1, <1>2 DEF iMid
<1>5. (b - a) \div 2 = h
  BY <1>1, <1>2
<1>6. a # b => d # 0
  BY <1>1
<1>7. /\ a + h \in Nat /\ a <= a + h /\ (d # 0 => a + h < b) /\ (a + h) - a = h
      /\ (d # 0 => b - ((a + h) + 1) <= h)
  BY <1>1, <1>3
<1> QED BY <1>4, <1>5, <1>6, <1>7

LEMMA NarrowedType ==
    ASSUME NEW word, Rank(word) \in Nat, NEW range \in Ranges
    PROVE  Narrowed(word, range) \in Ranges
<1>1. PICK a \in Nat, b \in Nat : range = <<a, b>> /\ a <= b
  BY DEF Ranges
<1>2. PICK m \in Nat : m = iMid(range) /\ a <= m /\ (a # b => m < b)
  BY <1>1, MiddleIs
<1>3. range[1] = a /\ range[2] = b
  BY <1>1
<1>4. CASE a = b \/ Rank(word) = 2 * m
  <2>1. Narrowed(word, range) = range
    BY <1>2, <1>3, <1>4 DEF Narrowed
  <2> QED BY <2>1
<1>5. CASE a # b /\ Rank(word) # 2 * m
  <2>1. Narrowed(word, range) = <<a, m>> \/ Narrowed(word, range) = <<m + 1, b>>
    BY <1>2, <1>3, <1>5 DEF Narrowed
  <2>2. m + 1 \in Nat /\ m + 1 <= b
    BY <1>2, <1>5
  <2>3. <<a, m>> \in Ranges /\ <<m + 1, b>> \in Ranges
    BY <1>2, <2>2 DEF Ranges
  <2> QED BY <2>1, <2>3
<1> QED BY <1>4, <1>5

Searching(word, iMin, iMax, f) ==
    /\ f \in [0..11 -> Ranges]
    /\ f[0] = <<iMin, iMax>>
    /\ \A i \in 1..11 : f[i] = Narrowed(word, f[i - 1])

\* The rounds of the search.
LEMMA wsrchRuns ==
    ASSUME NEW word, Rank(word) \in Nat, NEW iMin \in Nat, NEW iMax \in Nat, iMin <= iMax
    PROVE  \E f : Searching(word, iMin, iMax, f) /\ wsrch(word, iMin, iMax) = Found(word, f[11])
<1>1. PICK n \in Nat : n = 11
  OBVIOUS
<1>2. PICK S : S = Ranges
  OBVIOUS
<1> DEFINE e(i, x) == Narrowed(word, x)
           s == [i \in 1..n |-> [x \in S |-> e(i, x)]]
<1>3. <<iMin, iMax>> \in S
  <2>1. <<iMin, iMax>> \in Ranges
    BY DEF Ranges
  <2> QED BY <1>2, <2>1
<1>4. ASSUME NEW i \in 1..n, NEW x \in S PROVE e(i, x) \in S
  <2>1. x \in Ranges
    BY <1>2
  <2> QED BY <1>2, <2>1, NarrowedType
<1>5. \A i, x : e(i, x) = Narrowed(word, x)
  OBVIOUS
<1> HIDE DEF e
<1>6. s \in [1..n -> [S -> S]] /\ \A i \in 1..n : \A x \in S : s[i][x] = e(i, x)
  BY <1>4
<1> HIDE DEF s
<1>7. PICK g : Follows(g, n, S, <<iMin, iMax>>, s)
  BY <1>3, <1>6, FollowsExists
<1>8. g = [i \in 0..n |-> IF i = 0 THEN <<iMin, iMax>> ELSE e(i, g[i - 1])]
  <2>1. \A i \in 0..n : i # 0 => i \in 1..n /\ i - 1 \in 0..n
    OBVIOUS
  <2>2. \A i \in 1..n : g[i] = s[i][g[i - 1]]
    BY <1>7 DEF Follows
  <2>3. \A i \in 0..n : g[i] \in S
    BY <1>7 DEF Follows
  <2>4. \A i \in 0..n : i # 0 => g[i] = e(i, g[i - 1])
    BY <1>6, <2>1, <2>2, <2>3
  <2>5. g[0] = <<iMin, iMax>> /\ g = [i \in 0..n |-> g[i]]
    BY <1>7 DEF Follows
  <2> QED BY <2>4, <2>5
<1>9. PICK f : f = CHOOSE h : h = [i \in 0..n |-> IF i = 0 THEN <<iMin, iMax>> ELSE e(i, h[i - 1])]
  OBVIOUS
<1>10. f = [i \in 0..n |-> IF i = 0 THEN <<iMin, iMax>> ELSE e(i, f[i - 1])]
  BY <1>8, <1>9
<1>11. wsrch(word, iMin, iMax) = Found(word, f[n])
  BY <1>1, <1>9 DEF wsrch, e
<1>12. Follows(f, n, S, <<iMin, iMax>>, s)
  <2>1. f[0] = <<iMin, iMax>> /\ f = [i \in 0..n |-> f[i]]
    BY <1>10
  <2>2. \A i \in 1..n : i \in 0..n /\ i # 0
    OBVIOUS
  <2>3. \A i \in 1..n : f[i - 1] \in S => f[i] = s[i][f[i - 1]]
    BY <1>6, <1>10, <2>2
  <2> QED BY <1>3, <1>6, <2>1, <2>3, FollowsAll
<1>13. f \in [0..n -> S] /\ f[0] = <<iMin, iMax>>
  BY <1>12 DEF Follows
<1>14. \A i \in 1..n : f[i] = Narrowed(word, f[i - 1])
  <2>1. \A i \in 1..n : i \in 0..n /\ i # 0
    OBVIOUS
  <2>2. \A i \in 1..n : f[i] = e(i, f[i - 1])
    BY <1>10, <2>1
  <2> QED BY <1>5, <2>2
<1>15. Searching(word, iMin, iMax, f)
  BY SMTT(40), <1>1, <1>2, <1>13, <1>14 DEF Searching
<1> QED
  BY <1>1, <1>11, <1>15

\* Eleven halves leave nothing of the dictionary.
LEMMA HalvedOut ==
    ASSUME NEW u \in WordNumbers, NEW g, Halving(u, 11, g)
    PROVE  g[11] = 0
<1>1. g[0] = u /\ \A i \in 1..11 : g[i] = g[i - 1] \div 2
  BY DEF Halving
<1>2. /\ g[1] = g[0] \div 2 /\ g[2] = g[1] \div 2 /\ g[3] = g[2] \div 2 /\ g[4] = g[3] \div 2
      /\ g[5] = g[4] \div 2 /\ g[6] = g[5] \div 2 /\ g[7] = g[6] \div 2 /\ g[8] = g[7] \div 2
      /\ g[9] = g[8] \div 2 /\ g[10] = g[9] \div 2 /\ g[11] = g[10] \div 2
  BY <1>1
<1>3. \A v \in 0..2047 : (((v \div 2) \div 2) \div 2) \div 2 \in 0..127
  OBVIOUS
<1>4. \A v \in 0..127 : (((v \div 2) \div 2) \div 2) \div 2 \in 0..7
  OBVIOUS
<1>5. \A v \in 0..7 : ((v \div 2) \div 2) \div 2 = 0
  OBVIOUS
<1>6. u \in 0..2047
  BY DEF WordNumbers
<1>7. PICK w \in 0..127 : w = (((u \div 2) \div 2) \div 2) \div 2
  BY SMTT(40), <1>3, <1>6
<1>8. PICK x \in 0..7 : x = (((w \div 2) \div 2) \div 2) \div 2
  BY <1>4
<1>9. g[4] = w
  BY ZenonT(40), <1>1, <1>2, <1>7
<1>10. g[8] = x
  BY <1>2, <1>8, <1>9
<1> QED BY <1>2, <1>5, <1>10

\* The place of a word of the dictionary stays in the range, which is halved
\* until it is in the middle.
LEMMA wsrchFinds ==
    ASSUME NEW word, NEW m \in Nat, Rank(word) = 2 * m,
           NEW iMin \in Nat, NEW iMax \in Nat, iMin <= m, m < iMax, iMax - iMin <= 2047
    PROVE  wsrch(word, iMin, iMax) = m
<1>1. Rank(word) \in Nat /\ iMin <= iMax
  OBVIOUS
<1>2. PICK f : Searching(word, iMin, iMax, f) /\ wsrch(word, iMin, iMax) = Found(word, f[11])
  BY <1>1, wsrchRuns
<1>3. f \in [0..11 -> Ranges] /\ f[0] = <<iMin, iMax>> /\ \A i \in 1..11 : f[i] = Narrowed(word, f[i - 1])
  BY <1>2 DEF Searching
<1>4. 2047 \in Nat /\ 11 \in Nat
  OBVIOUS
<1>5. PICK g : Halving(2047, 11, g)
  BY <1>4, BitsOfRuns
<1>6. g \in [0..11 -> Nat] /\ g[0] = 2047 /\ \A i \in 1..11 : g[i] = g[i - 1] \div 2
  BY <1>5 DEF Halving
<1> DEFINE Holds(range, size) == /\ range[1] <= m /\ m < range[2]
                                 /\ iMid(range) = m \/ range[2] - range[1] <= size
<1>7. ASSUME NEW range \in Ranges, NEW size \in Nat, Holds(range, size)
      PROVE  Holds(Narrowed(word, range), size \div 2)
  <2>1. PICK a \in Nat, b \in Nat : range = <<a, b>> /\ a <= b
    BY DEF Ranges
  <2>2. range[1] = a /\ range[2] = b
    BY <2>1
  <2>3. a <= m /\ m < b /\ (iMid(range) = m \/ b - a <= size)
    BY <1>7, <2>2
  <2>4. a # b
    BY <2>3
  <2>5. PICK h : h = (b - a) \div 2
    OBVIOUS
  <2>6. PICK c \in Nat : /\ c = iMid(range) /\ a <= c /\ c < b /\ h = (b - a) \div 2
                         /\ c - a = h /\ b - (c + 1) <= h
    BY <2>5, <2>1, <2>4, MiddleIs
  <2>7. CASE c = m
    <3>1. Narrowed(word, range) = range
      BY <2>6, <2>7 DEF Narrowed
    <3>2. iMid(range) = m /\ range[1] <= m /\ m < range[2]
      BY <2>2, <2>3, <2>6, <2>7
    <3>3. Holds(range, size \div 2)
      BY <3>2
    <3> QED BY <3>1, <3>3
  <2>8. CASE c # m
    <3>1. b - a \in Nat /\ b - a <= size
      BY <2>3, <2>6, <2>8
    <3>2. \A u, v \in Nat : u <= v => u \div 2 <= v \div 2
      OBVIOUS
    <3>3. h \in Nat /\ h <= size \div 2 /\ size \div 2 \in Nat
      <4>1. h <= size \div 2
        BY <2>6, <3>1, <3>2
      <4>2. h \in Nat /\ size \div 2 \in Nat
        BY <2>6, <3>1
      <4> QED BY <4>1, <4>2
    <3>4. 2 * m # 2 * c
      BY <2>8
    <3>5. CASE m < c
      <4>1. 2 * m < 2 * c
        BY <3>5
      <4>2. Narrowed(word, range) = <<a, c>>
        BY <2>2, <2>4, <2>6, <3>4, <4>1 DEF Narrowed
      <4>3. c - a <= size \div 2
        BY <2>6, <3>3
      <4> QED BY <2>3, <3>5, <4>2, <4>3
    <3>6. CASE ~(m < c)
      <4>1. ~(2 * m < 2 * c) /\ c + 1 <= m
        BY <2>8, <3>6
      <4>2. Narrowed(word, range) = <<c + 1, b>>
        BY <2>2, <2>4, <2>6, <3>4, <4>1 DEF Narrowed
      <4>3. b - (c + 1) <= size \div 2
        BY <2>6, <3>3
      <4> QED BY <2>3, <4>1, <4>2, <4>3
    <3> QED BY <3>5, <3>6
  <2> QED BY <2>7, <2>8
<1>8. Holds(f[0], g[0])
  BY <1>3, <1>6
<1> HIDE DEF Holds
<1> DEFINE T == {i \in Nat : i <= 11 => Holds(f[i], g[i])}
<1>9. 0 \in T
  BY <1>8
<1>10. ASSUME NEW i \in Nat, i \in T PROVE i + 1 \in T
  <2>1. SUFFICES ASSUME i + 1 <= 11 PROVE Holds(f[i + 1], g[i + 1])
    OBVIOUS
  <2>2. i <= 11 /\ i \in 0..11 /\ i + 1 \in 1..11 /\ (i + 1) - 1 = i
    BY <2>1
  <2>3. f[i + 1] = Narrowed(word, f[i]) /\ g[i + 1] = g[i] \div 2 /\ f[i] \in Ranges /\ g[i] \in Nat
    BY <1>3, <1>6, <2>2
  <2>4. Holds(f[i], g[i])
    BY <1>10, <2>2
  <2> QED BY <1>7, <2>3, <2>4
<1> HIDE DEF T
<1>11. Nat \subseteq T
  BY <1>9, <1>10, NatSet
<1>12. Holds(f[11], g[11])
  BY <1>4, <1>11 DEF T
<1>13. g[11] = 0
  <2>1. 2047 \in WordNumbers
    BY DEF WordNumbers
  <2> QED BY <1>5, <2>1, HalvedOut
<1>14. PICK a \in Nat, b \in Nat : f[11] = <<a, b>> /\ a <= b
  <2>1. f[11] \in Ranges
    BY <1>3
  <2> QED BY <2>1 DEF Ranges
<1>15. a <= m /\ m < b /\ (iMid(f[11]) = m \/ b - a <= 0)
  BY <1>12, <1>13, <1>14 DEF Holds
<1>16. iMid(f[11]) = m /\ a # b
  BY <1>15
<1>17. Found(word, f[11]) = m
  BY <1>14, <1>16 DEF Found
<1> QED BY <1>2, <1>17

\* A word that stands behind the range is not found.
LEMMA wsrchMisses ==
    ASSUME NEW word, NEW m \in Nat, Rank(word) = 2 * m, NEW iMin \in Nat, NEW iMax \in Nat,
           iMin <= iMax, iMax <= m
    PROVE  wsrch(word, iMin, iMax) = -1
<1>1. Rank(word) \in Nat
  OBVIOUS
<1>2. PICK f : Searching(word, iMin, iMax, f) /\ wsrch(word, iMin, iMax) = Found(word, f[11])
  BY <1>1, wsrchRuns
<1>3. f \in [0..11 -> Ranges] /\ f[0] = <<iMin, iMax>> /\ \A i \in 1..11 : f[i] = Narrowed(word, f[i - 1])
  BY <1>2 DEF Searching
<1> DEFINE T == {i \in Nat : i <= 11 => f[i][2] <= m}
<1>4. 0 \in T
  BY <1>3
<1>5. ASSUME NEW i \in Nat, i \in T PROVE i + 1 \in T
  <2>1. SUFFICES ASSUME i + 1 <= 11 PROVE f[i + 1][2] <= m
    OBVIOUS
  <2>2. i <= 11 /\ i \in 0..11 /\ i + 1 \in 1..11 /\ (i + 1) - 1 = i
    BY <2>1
  <2>3. f[i + 1] = Narrowed(word, f[i]) /\ f[i] \in Ranges /\ f[i][2] <= m
    BY <1>3, <1>5, <2>2
  <2>4. PICK a \in Nat, b \in Nat : f[i] = <<a, b>> /\ a <= b
    BY <2>3 DEF Ranges
  <2>5. f[i][1] = a /\ f[i][2] = b
    BY <2>4
  <2>6. PICK c \in Nat : c = iMid(f[i]) /\ (a # b => c < b)
    BY <2>4, MiddleIs
  <2>7. CASE a = b
    BY <2>3, <2>5, <2>7 DEF Narrowed
  <2>8. CASE a # b
    <3>1. 2 * m # 2 * c /\ ~(2 * m < 2 * c)
      BY <2>3, <2>5, <2>6, <2>8
    <3>2. f[i + 1] = <<c + 1, b>>
      BY <2>3, <2>5, <2>6, <2>8, <3>1 DEF Narrowed
    <3> QED BY <2>3, <2>5, <3>2
  <2> QED BY <2>7, <2>8
<1> HIDE DEF T
<1>6. Nat \subseteq T
  BY <1>4, <1>5, NatSet
<1>7. f[11] \in Ranges /\ f[11][2] <= m
  <2>1. f[11] \in Ranges /\ 11 \in Nat
    BY <1>3
  <2> QED BY <1>6, <2>1 DEF T
<1>8. PICK a \in Nat, b \in Nat : f[11] = <<a, b>> /\ a <= b
  BY <1>7 DEF Ranges
<1>9. f[11][1] = a /\ f[11][2] = b
  BY <1>8
<1>10. PICK c \in Nat : c = iMid(f[11]) /\ (a # b => c < b)
  BY <1>8, MiddleIs
<1>11. a # b => 2 * m # 2 * c
  BY <1>7, <1>9, <1>10
<1> QED BY <1>2, <1>9, <1>10, <1>11 DEF Found

-------------------------------------------------------------------------------
(* Eight bytes as six words.                                               *)

Eight == {bytes \in Seq(Byte) : Len(bytes) = 8}

Bits66 == {bits \in Seq(Bit) : Len(bits) = 66}

BitsOfEight(bytes) == WithParity(Joined(bytes, 8))

LEMMA ByteNat ==
    ASSUME NEW bytes \in Seq(Byte)
    PROVE  bytes \in Seq(Nat)
<1>1. Byte \subseteq Nat
  BY DEF Byte
<1> QED BY <1>1, SeqMonotonic

\* The 66 bits: those of the bytes, and two of parity.
LEMMA EightIs ==
    ASSUME NEW bytes \in Eight
    PROVE  /\ Joined(bytes, 8) \in Bits64
           /\ Parity(Joined(bytes, 8)) \in 0..3
           /\ BitsOfEight(bytes) \in Bits66
           /\ SubSeq(BitsOfEight(bytes), 1, 64) = Joined(bytes, 8)
           /\ \A i \in 1..64 : BitsOfEight(bytes)[i] = Joined(bytes, 8)[i]
           /\ \A i \in 1..2 : BitsOfEight(bytes)[64 + i] = BitsOf(Parity(Joined(bytes, 8)), 2)[i]
<1>1. bytes \in Seq(Byte) /\ Len(bytes) = 8
  BY DEF Eight
<1>2. bytes \in Seq(Nat)
  BY <1>1, ByteNat
<1>3. PICK b : b = Joined(bytes, 8)
  OBVIOUS
<1>4. b \in Seq(Bit) /\ Len(b) = 8 * Len(bytes)
  BY <1>2, <1>3, Joined8
<1>5. 8 * Len(bytes) = 64
  BY <1>1
<1>6. b \in Seq(Bit) /\ Len(b) = 64
  BY <1>4, <1>5
<1>7. b \in Bits64
  BY <1>6 DEF Bits64
<1>8. PICK p \in 0..3 : p = Parity(b)
  BY <1>7, ParityType
<1>9. p \in Nat /\ 2 \in Nat
  OBVIOUS
<1>10. PICK t \in Seq(Bit) : t = BitsOf(p, 2) /\ Len(t) = 2
  BY <1>9, BitsOfType
<1>11. BitsOfEight(bytes) = b \o t
  BY <1>3, <1>8, <1>10 DEF BitsOfEight, WithParity
<1>12. /\ b \o t \in Seq(Bit) /\ Len(b \o t) = Len(b) + Len(t)
       /\ \A i \in 1..Len(b) : (b \o t)[i] = b[i]
       /\ \A i \in 1..Len(t) : (b \o t)[Len(b) + i] = t[i]
  <2>1. b \in Seq(Bit)
    BY <1>6
  <2>2. t \in Seq(Bit)
    OBVIOUS
  <2> QED BY <2>1, <2>2, CatIs
<1>13. SubSeq(b \o t, 1, Len(b)) = b
  <2>1. b \in Seq(Bit)
    BY <1>6
  <2>2. t \in Seq(Bit)
    OBVIOUS
  <2> QED BY <2>1, <2>2, CatParts
<1>14. Len(b) + Len(t) = 66
  <2>1. 64 + 2 = 66
    OBVIOUS
  <2> QED BY <1>6, <1>10, <2>1
<1>15. BitsOfEight(bytes) \in Bits66
  BY <1>11, <1>12, <1>14 DEF Bits66
<1>16. SubSeq(BitsOfEight(bytes), 1, 64) = b
  BY <1>6, <1>11, <1>13
<1>17. \A i \in 1..64 : BitsOfEight(bytes)[i] = b[i]
  BY <1>6, <1>11, <1>12
<1>18. \A i \in 1..2 : BitsOfEight(bytes)[64 + i] = t[i]
  BY ZenonT(40), <1>6, <1>10, <1>11, <1>12
<1> QED BY <1>3, <1>7, <1>8, <1>10, <1>15, <1>16, <1>17, <1>18

\* The bytes are found again in their bits.
LEMMA FromBitsBack ==
    ASSUME NEW bytes \in Eight
    PROVE  FromBits(BitsOfEight(bytes)) = [rc |-> 1, key |-> bytes]
<1>1. bytes \in Seq(Byte) /\ Len(bytes) = 8
  BY DEF Eight
<1>2. bytes \in Seq(Nat)
  BY <1>1, ByteNat
<1>3. PICK b, w : b = Joined(bytes, 8) /\ w = BitsOfEight(bytes)
  OBVIOUS
<1>4. PICK p \in 0..3 : p = Parity(b)
  BY <1>3, EightIs
<1>5. /\ w \in Bits66 /\ SubSeq(w, 1, 64) = b
      /\ \A i \in 1..64 : w[i] = b[i]
      /\ \A i \in 1..2 : w[64 + i] = BitsOf(p, 2)[i]
  BY <1>3, <1>4, EightIs
<1>6. w \in Seq(Bit) /\ Len(w) = 66
  BY <1>5 DEF Bits66
<1>7. extract(w, 64, 2) = p
  <2>1. PICK s \in Nat, n \in Nat : s = 64 /\ n = 2
    OBVIOUS
  <2>2. p \in Nat /\ s + n <= Len(w)
    BY <1>6, <2>1
  <2>3. OfBits(p, n)
    BY <2>1, OfBitsIs
  <2>4. \A i \in 1..n : w[s + i] = BitsOf(p, n)[i]
    BY <1>5, <2>1
  <2>5. w \in Seq(Bit)
    BY <1>6
  <2>6. extract(w, s, n) = p
    BY <2>2, <2>3, <2>4, <2>5, ExtractBack
  <2> QED BY <2>1, <2>6
<1>8. ASSUME NEW k \in 1..8 PROVE extract(w, 8 * (k - 1), 8) = bytes[k]
  <2>1. PICK s \in Nat : s = 8 * (k - 1) /\ s + 8 <= 64
    OBVIOUS
  <2>2. bytes[k] \in Byte
    BY <1>1, ElementOfSeq
  <2>3. bytes[k] \in Nat /\ OfBits(bytes[k], 8)
    BY <2>2, OfBitsIs DEF Byte
  <2>4. ASSUME NEW i \in 1..8 PROVE w[s + i] = BitsOf(bytes[k], 8)[i]
    <3>1. \A h \in 1..Len(bytes) : \A j \in 1..8 : b[8 * (h - 1) + j] = BitsOf(bytes[h], 8)[j]
      BY <1>2, <1>3, Joined8
    <3>2. b[s + i] = BitsOf(bytes[k], 8)[i]
      BY <1>1, <2>1, <3>1
    <3>3. s + i \in 1..64
      BY <2>1
    <3> QED BY <1>5, <3>2, <3>3
  <2>5. PICK n \in Nat : n = 8
    OBVIOUS
  <2>6. w \in Seq(Bit) /\ s + n <= Len(w)
    BY <1>6, <2>1, <2>5
  <2>7. OfBits(bytes[k], n) /\ \A i \in 1..n : w[s + i] = BitsOf(bytes[k], n)[i]
    BY <2>3, <2>4, <2>5
  <2>8. extract(w, s, n) = bytes[k]
    BY <2>3, <2>6, <2>7, ExtractBack
  <2> QED BY <2>1, <2>5, <2>8
<1>9. bytes = [i \in 1..8 |-> bytes[i]]
  BY <1>1
<1>10. [i \in 1..8 |-> extract(w, 8 * (i - 1), 8)] = bytes
  BY <1>8, <1>9
<1>11. ~(extract(w, 64, 2) # Parity(SubSeq(w, 1, 64)))
  BY <1>4, <1>5, <1>7
<1>12. FromBits(w) = [rc |-> 1, key |-> [i \in 1..8 |-> extract(w, 8 * (i - 1), 8)]]
  BY <1>11 DEF FromBits
<1> QED BY <1>3, <1>10, <1>12

\* The number of the k-th word of some bits.
NumberAt(bits, k) == extract(bits, 11 * (k - 1), 11)

\* The numbers of the six words hold the bits.
LEMMA NumbersBack ==
    ASSUME NEW bits \in Bits66
    PROVE  /\ \A k \in 1..6 : NumberAt(bits, k) \in WordNumbers
           /\ Joined([k \in 1..6 |-> NumberAt(bits, k)], 11) = bits
<1>1. bits \in Seq(Bit) /\ Len(bits) = 66
  BY DEF Bits66
<1>2. ASSUME NEW k \in 1..6
      PROVE  /\ NumberAt(bits, k) \in Nat /\ NumberAt(bits, k) \in WordNumbers
             /\ \A i \in 1..11 : BitsOf(NumberAt(bits, k), 11)[i] = bits[11 * (k - 1) + i]
  <2>1. PICK s \in Nat : s = 11 * (k - 1) /\ s + 11 <= 66
    OBVIOUS
  <2>2. s + 11 <= Len(bits) /\ 11 \in Nat
    BY <1>1, <2>1
  <2>3. extract(bits, s, 11) \in Nat /\ extract(bits, s, 11) < 2048
    <3>1. bits \in Seq(Bit)
      BY <1>1
    <3> QED BY <2>2, <3>1, WordNumber
  <2>4. \A i \in 1..11 : BitsOf(extract(bits, s, 11), 11)[i] = bits[s + i]
    BY ZenonT(40), <1>1, <2>2, BitsBack
  <2>5. extract(bits, s, 11) \in WordNumbers
    BY <2>3 DEF WordNumbers
  <2> QED BY <2>1, <2>3, <2>4, <2>5 DEF NumberAt
<1>3. PICK ns : ns = [k \in 1..6 |-> NumberAt(bits, k)]
  OBVIOUS
<1>4. ns \in Seq(Nat) /\ Len(ns) = 6
  BY <1>2, <1>3
<1>5. PICK j : j = Joined(ns, 11)
  OBVIOUS
<1>6. /\ j \in Seq(Bit) /\ Len(j) = 11 * Len(ns)
      /\ \A k \in 1..Len(ns) : \A i \in 1..11 : j[11 * (k - 1) + i] = BitsOf(ns[k], 11)[i]
  BY <1>4, <1>5, Joined11
<1>7. Len(j) = Len(bits)
  BY <1>1, <1>4, <1>6
<1>8. ASSUME NEW m \in 1..66 PROVE j[m] = bits[m]
  <2>1. PICK k \in 1..6, i \in 1..11 : m = 11 * (k - 1) + i
    <3>1. PICK q, r : q = (m - 1) \div 11 /\ r = (m - 1) % 11
      OBVIOUS
    <3>2. q \in 0..5 /\ r \in 0..10 /\ m - 1 = 11 * q + r
      BY <3>1
    <3>3. q + 1 \in 1..6 /\ r + 1 \in 1..11 /\ m = 11 * ((q + 1) - 1) + (r + 1)
      BY <3>2
    <3> QED BY <3>3
  <2>2. j[11 * (k - 1) + i] = BitsOf(ns[k], 11)[i]
    BY <1>4, <1>6
  <2>3. ns[k] = NumberAt(bits, k)
    BY <1>3
  <2> QED BY <1>2, <2>1, <2>2, <2>3
<1>9. j = bits
  <2>1. \A m \in 1..Len(bits) : j[m] = bits[m]
    BY <1>1, <1>8
  <2> QED BY <1>1, <1>6, <1>7, <2>1, SeqEqual
<1> QED BY <1>2, <1>3, <1>5, <1>9

Spelling(piece, f) ==
    /\ f \in [0..Len(piece) -> Nat]
    /\ f[0] = 0
    /\ \A i \in 1..Len(piece) : f[i] = f[i - 1] + LettersOf(piece[i])

\* Letters added up.
LEMMA LettersRuns ==
    ASSUME NEW piece \in Seq(Nat)
    PROVE  \E f : Spelling(piece, f) /\ Letters(piece) = f[Len(piece)]
<1>1. PICK n \in Nat : n = Len(piece)
  OBVIOUS
<1>2. PICK S : S = Nat
  OBVIOUS
<1> DEFINE e(i, x) == x + LettersOf(piece[i])
           s == [i \in 1..n |-> [x \in S |-> e(i, x)]]
<1>3. 0 \in S
  <2>1. 0 \in Nat
    OBVIOUS
  <2> QED BY <1>2, <2>1
<1>4. ASSUME NEW i \in 1..n, NEW x \in S PROVE e(i, x) \in S
  <2>1. i \in 1..Len(piece)
    BY <1>1
  <2>2. piece[i] \in Nat
    BY <2>1, ElementOfSeq
  <2>3. LettersOf(piece[i]) \in Nat
    <3>1. PICK c \in Nat : c = piece[i]
      BY <2>2
    <3>2. LettersOf(c) \in Nat
      <4>1. CASE c >= 1000
        <5>1. PICK d \in Nat : d = c - 1000
          BY <4>1
        <5>2. d % 10 \in Nat
          OBVIOUS
        <5> QED BY <4>1, <5>1, <5>2 DEF LettersOf, IsWord
      <4>2. CASE ~(c >= 1000)
        BY <4>2 DEF LettersOf, IsWord
      <4> QED BY <4>1, <4>2
    <3> QED BY <3>1, <3>2
  <2>4. PICK a \in Nat, b \in Nat : a = x /\ b = LettersOf(piece[i])
    BY <1>2, <2>3
  <2>5. a + b \in Nat
    OBVIOUS
  <2> QED BY <1>2, <2>4, <2>5
<1>5. \A i, x : e(i, x) = x + LettersOf(piece[i])
  OBVIOUS
<1> HIDE DEF e
<1>6. s \in [1..n -> [S -> S]] /\ \A i \in 1..n : \A x \in S : s[i][x] = e(i, x)
  BY <1>4
<1> HIDE DEF s
<1>7. PICK g : Follows(g, n, S, 0, s)
  BY <1>3, <1>6, FollowsExists
<1>8. g = [i \in 0..n |-> IF i = 0 THEN 0 ELSE e(i, g[i - 1])]
  <2>1. \A i \in 0..n : i # 0 => i \in 1..n /\ i - 1 \in 0..n
    OBVIOUS
  <2>2. \A i \in 1..n : g[i] = s[i][g[i - 1]]
    BY <1>7 DEF Follows
  <2>3. \A i \in 0..n : g[i] \in S
    BY <1>7 DEF Follows
  <2>4. \A i \in 0..n : i # 0 => g[i] = e(i, g[i - 1])
    BY <1>6, <2>1, <2>2, <2>3
  <2>5. g[0] = 0 /\ g = [i \in 0..n |-> g[i]]
    BY <1>7 DEF Follows
  <2> QED BY <2>4, <2>5
<1>9. PICK f : f = CHOOSE h : h = [i \in 0..n |-> IF i = 0 THEN 0 ELSE e(i, h[i - 1])]
  OBVIOUS
<1>10. f = [i \in 0..n |-> IF i = 0 THEN 0 ELSE e(i, f[i - 1])]
  BY <1>8, <1>9
<1>11. Letters(piece) = f[n]
  BY <1>1, <1>9 DEF Letters, e
<1>12. Follows(f, n, S, 0, s)
  <2>1. f[0] = 0 /\ f = [i \in 0..n |-> f[i]]
    BY <1>10
  <2>2. \A i \in 1..n : i \in 0..n /\ i # 0
    OBVIOUS
  <2>3. \A i \in 1..n : f[i - 1] \in S => f[i] = s[i][f[i - 1]]
    BY <1>6, <1>10, <2>2
  <2> QED BY <1>3, <1>6, <2>1, <2>3, FollowsAll
<1>13. f \in [0..n -> S] /\ f[0] = 0
  BY <1>12 DEF Follows
<1>14. \A i \in 1..n : f[i] = f[i - 1] + LettersOf(piece[i])
  <2>1. \A i \in 1..n : i \in 0..n /\ i # 0
    OBVIOUS
  <2>2. \A i \in 1..n : f[i] = e(i, f[i - 1])
    BY <1>10, <2>1
  <2> QED BY <1>5, <2>2
<1>15. Spelling(piece, f)
  BY <1>1, <1>2, <1>13, <1>14 DEF Spelling
<1> QED
  BY <1>1, <1>11, <1>15

LEMMA OneIs ==
    ASSUME NEW E, NEW c \in E
    PROVE  <<c>> \in Seq(E) /\ Len(<<c>>) = 1 /\ <<c>>[1] = c
OBVIOUS

LEMMA LettersOne ==
    ASSUME NEW c \in Nat, LettersOf(c) \in Nat
    PROVE  Letters(<<c>>) = LettersOf(c)
<1>1. PICK p \in Seq(Nat) : p = <<c>> /\ Len(p) = 1 /\ p[1] = c
  BY OneIs
<1>2. PICK f : Spelling(p, f) /\ Letters(p) = f[Len(p)]
  BY LettersRuns
<1>3. f[0] = 0 /\ \A i \in 1..Len(p) : f[i] = f[i - 1] + LettersOf(p[i])
  BY <1>2 DEF Spelling
<1>4. f[1] = f[0] + LettersOf(p[1])
  BY <1>1, <1>3
<1>5. PICK l \in Nat : l = LettersOf(c)
  OBVIOUS
<1>6. 0 + l = l
  OBVIOUS
<1>7. f[1] = l
  BY <1>1, <1>3, <1>4, <1>5, <1>6
<1> QED BY <1>1, <1>2, <1>5, <1>7

\* The number of a word that etob does not find.
LastShort == 570

LookedAs(m) == IF m = LastShort THEN [rc |-> 0] ELSE [rc |-> 1, n |-> m]

\* Every other word is found.
LEMMA LookedUp ==
    ASSUME NEW m \in WordNumbers
    PROVE  Looked(standard(<<pcDict(m)>>), Letters(<<pcDict(m)>>)) = LookedAs(m)
<1>1. PICK c \in Nat : c = pcDict(m) /\ c >= 1000 /\ Rank(c) = 2 * m
                       /\ LettersOf(c) = IF m < 571 THEN 3 ELSE 4
  BY WordIs
<1>2. PICK n \in 3..4 : n = LettersOf(c) /\ (m < 571 <=> n = 3)
  BY <1>1
<1>3. Letters(<<c>>) = n
  <2>1. LettersOf(c) \in Nat
    BY <1>2
  <2> QED BY <1>2, <2>1, LettersOne
<1>4. PICK p : p = <<c>> /\ Len(p) = 1 /\ p[1] = c
  BY OneIs
<1>5. IsWord(c)
  BY <1>1 DEF IsWord
<1>6. PICK lo \in Nat, hi \in Nat : /\ lo = IF n < 4 THEN 0 ELSE Short
                                    /\ hi = IF n < 4 THEN Short - 1 ELSE 2048
  BY DEF Short
<1>7. PICK found : found = wsrch(c, lo, hi)
  OBVIOUS
<1>8. Looked(p, n) = IF n > 4 \/ n < 1 THEN [rc |-> -1]
                     ELSE IF found < 0 THEN [rc |-> 0] ELSE [rc |-> 1, n |-> found]
  BY <1>4, <1>5, <1>6, <1>7 DEF Looked
<1>9. Looked(p, n) = IF found < 0 THEN [rc |-> 0] ELSE [rc |-> 1, n |-> found]
  <2>1. ~(n > 4 \/ n < 1)
    BY <1>2
  <2> QED BY <1>8, <2>1
<1>10. m \in Nat /\ m < 2048
  BY DEF WordNumbers
<1>11. CASE m = 570
  <2>1. lo = 0 /\ hi = 570
    BY <1>2, <1>6, <1>11 DEF Short
  <2>2. lo <= hi /\ hi <= m
    BY <1>11, <2>1
  <2>3. found = -1
    BY <1>1, <1>7, <1>10, <2>2, wsrchMisses
  <2>4. Looked(p, n) = [rc |-> 0]
    BY <1>9, <2>3
  <2> QED BY <1>1, <1>3, <1>4, <1>11, <2>4 DEF LookedAs, LastShort, standard
<1>12. CASE m # 570
  <2>1. lo <= m /\ m < hi /\ hi - lo <= 2047
    <3>1. CASE m < 571
      <4>1. lo = 0 /\ hi = 570
        BY <1>2, <1>6, <3>1 DEF Short
      <4> QED BY <1>10, <1>12, <3>1, <4>1
    <3>2. CASE ~(m < 571)
      <4>1. lo = 571 /\ hi = 2048
        BY <1>2, <1>6, <3>2 DEF Short
      <4> QED BY <1>10, <3>2, <4>1
    <3> QED BY <3>1, <3>2
  <2>2. found = m
    BY <1>1, <1>7, <1>10, <2>1, wsrchFinds
  <2>3. ~(found < 0)
    BY <1>10, <2>2
  <2>4. Looked(p, n) = [rc |-> 1, n |-> m]
    BY <1>9, <2>2, <2>3
  <2> QED BY <1>1, <1>3, <1>4, <1>12, <2>4 DEF LookedAs, LastShort, standard
<1> QED BY <1>11, <1>12

\* The six words of some bits, each a piece of a text.
SixWords(bits) == [k \in 1..6 |-> <<pcDict(NumberAt(bits, k))>>]

Missed(bits) == \E k \in 1..6 : NumberAt(bits, k) = LastShort

\* What etob makes of the words of eight bytes.
LEMMA etobBack ==
    ASSUME NEW bytes \in Eight
    PROVE  etob(SixWords(BitsOfEight(bytes))) =
               IF Missed(BitsOfEight(bytes)) THEN [rc |-> 0] ELSE [rc |-> 1, key |-> bytes]
<1>1. PICK bits \in Bits66 : bits = BitsOfEight(bytes)
  BY EightIs
<1>2. PICK ns : ns = [k \in 1..6 |-> NumberAt(bits, k)]
  OBVIOUS
<1>3. \A k \in 1..6 : ns[k] \in WordNumbers /\ ns[k] = NumberAt(bits, k)
  BY <1>2, NumbersBack
<1>4. PICK looked : looked = [k \in 1..6 |-> LookedAs(ns[k])]
  OBVIOUS
<1>5. etob(SixWords(bits)) = FromWords(looked)
  <2>1. ASSUME NEW k \in 1..6
        PROVE  Looked(standard(SixWords(bits)[k]), Letters(SixWords(bits)[k])) = LookedAs(ns[k])
    <3>1. SixWords(bits)[k] = <<pcDict(ns[k])>>
      BY <1>3 DEF SixWords
    <3>2. ns[k] \in WordNumbers
      BY <1>3
    <3> QED BY <3>1, <3>2, LookedUp
  <2>2. PICK ws : ws = SixWords(bits)
    OBVIOUS
  <2>3. [k \in 1..6 |-> Looked(standard(ws[k]), Letters(ws[k]))] = looked
    BY <1>4, <2>1, <2>2
  <2> QED BY <2>2, <2>3 DEF etob
<1>6. PICK bad : bad = {k \in 1..6 : looked[k].rc # 1}
  OBVIOUS
<1>7. ASSUME NEW k \in 1..6
      PROVE  /\ k \in bad <=> ns[k] = LastShort
             /\ k \in bad => looked[k].rc = 0
             /\ k \notin bad => looked[k].n = ns[k]
  <2>1. looked[k] = LookedAs(ns[k])
    BY <1>4
  <2>2. CASE ns[k] = LastShort
    <3>1. looked[k].rc = 0
      BY <2>1, <2>2 DEF LookedAs
    <3> QED BY <1>6, <2>2, <3>1
  <2>3. CASE ns[k] # LastShort
    <3>1. looked[k] = [rc |-> 1, n |-> ns[k]]
      BY <2>1, <2>3 DEF LookedAs
    <3>2. looked[k].rc = 1 /\ looked[k].n = ns[k]
      BY <3>1
    <3> QED BY <1>6, <2>3, <3>2
  <2> QED BY <2>2, <2>3
<1>8. FromWords(looked) = IF bad # {} THEN [rc |-> looked[Min(bad)].rc]
                          ELSE FromBits(Joined([k \in 1..6 |-> looked[k].n], 11))
  BY <1>6 DEF FromWords
<1>9. CASE Missed(bits)
  <2>1. bad # {} /\ bad \subseteq Nat /\ bad \subseteq 1..6
    BY <1>3, <1>6, <1>7, <1>9 DEF Missed
  <2>2. Min(bad) \in bad
    BY <2>1, MinIs
  <2>3. looked[Min(bad)].rc = 0
    BY <1>7, <2>1, <2>2
  <2> QED BY <1>1, <1>5, <1>8, <1>9, <2>1, <2>3
<1>10. CASE ~Missed(bits)
  <2>1. \A k \in 1..6 : k \notin bad
    BY <1>3, <1>7, <1>10 DEF Missed
  <2>2. bad = {}
    BY <1>6, <2>1
  <2>3. [k \in 1..6 |-> looked[k].n] = ns
    BY <1>2, <1>7, <2>1
  <2>4. FromWords(looked) = FromBits(Joined(ns, 11))
    BY <1>8, <2>2, <2>3
  <2>5. Joined(ns, 11) = bits
    BY <1>2, NumbersBack
  <2>6. FromBits(bits) = [rc |-> 1, key |-> bytes]
    BY <1>1, FromBitsBack
  <2> QED BY <1>1, <1>5, <1>10, <2>4, <2>5, <2>6
<1> QED BY <1>9, <1>10

-------------------------------------------------------------------------------
(* The pieces of a text.                                                   *)

Cuts == Seq(Seq(Nat)) \X Seq(Nat)

LEMMA PairIs ==
    ASSUME NEW A, NEW B, NEW x \in A \X B
    PROVE  \E a \in A, b \in B : x = <<a, b>> /\ x[1] = a /\ x[2] = b
OBVIOUS

LEMMA PairHas ==
    ASSUME NEW a, NEW b
    PROVE  <<a, b>>[1] = a /\ <<a, b>>[2] = b
OBVIOUS

LEMMA NextPieceType ==
    ASSUME NEW x \in Cuts
    PROVE  NextPiece(x) \in Cuts
<1>1. PICK A : A = Seq(Seq(Nat))
  OBVIOUS
<1>2. PICK ps \in A, s \in Seq(Nat) : x = <<ps, s>> /\ x[1] = ps /\ x[2] = s
  BY <1>1, PairIs DEF Cuts
<1>3. PICK t \in Seq(Nat) : t = Behind(s, Spaces)
  BY Cut
<1>4. PICK p \in Seq(Nat), r \in Seq(Nat) : p = Leading(t, Letter) /\ r = Behind(t, Letter)
  BY Cut
<1>5. Append(ps, p) \in Seq(Seq(Nat))
  BY <1>1, AppendProperties
<1>6. TakePiece(ps, t) = <<Append(ps, p), r>>
  BY <1>4 DEF TakePiece
<1>7. TakePiece(ps, t) \in Cuts
  <2>1. PICK q \in A : q = Append(ps, p)
    BY <1>1, <1>5
  <2>2. <<q, r>> \in A \X Seq(Nat)
    OBVIOUS
  <2> QED BY <1>1, <1>6, <2>1, <2>2 DEF Cuts
<1>8. NextPiece(x) = IF t = <<>> THEN x ELSE TakePiece(ps, t)
  BY <1>2, <1>3 DEF NextPiece
<1> QED BY <1>7, <1>8

CutsOf(text, f) ==
    /\ f \in [0..Len(text) -> Cuts]
    /\ f[0] = <<<<>>, text>>
    /\ \A i \in 1..Len(text) : f[i] = NextPiece(f[i - 1])

\* The text split piece by piece.
LEMMA PiecesRuns ==
    ASSUME NEW text \in Seq(Nat)
    PROVE  \E f : CutsOf(text, f) /\ Pieces(text) = f[Len(text)][1]
<1>1. PICK n \in Nat : n = Len(text)
  OBVIOUS
<1>2. PICK S : S = Cuts
  OBVIOUS
<1> DEFINE e(i, x) == NextPiece(x)
           s == [i \in 1..n |-> [x \in S |-> e(i, x)]]
<1>3. <<<<>>, text>> \in S
  <2>1. <<<<>>, text>> \in Cuts
    <3>1. <<>> \in Seq(Seq(Nat))
      OBVIOUS
    <3> QED BY <3>1 DEF Cuts
  <2> QED BY <1>2, <2>1
<1>4. ASSUME NEW i \in 1..n, NEW x \in S PROVE e(i, x) \in S
  <2>1. x \in Cuts
    BY <1>2
  <2> QED BY <1>2, <2>1, NextPieceType
<1>5. \A i, x : e(i, x) = NextPiece(x)
  OBVIOUS
<1> HIDE DEF e
<1>6. s \in [1..n -> [S -> S]] /\ \A i \in 1..n : \A x \in S : s[i][x] = e(i, x)
  BY <1>4
<1> HIDE DEF s
<1>7. PICK g : Follows(g, n, S, <<<<>>, text>>, s)
  BY <1>3, <1>6, FollowsExists
<1>8. g = [i \in 0..n |-> IF i = 0 THEN <<<<>>, text>> ELSE e(i, g[i - 1])]
  <2>1. \A i \in 0..n : i # 0 => i \in 1..n /\ i - 1 \in 0..n
    OBVIOUS
  <2>2. \A i \in 1..n : g[i] = s[i][g[i - 1]]
    BY <1>7 DEF Follows
  <2>3. \A i \in 0..n : g[i] \in S
    BY <1>7 DEF Follows
  <2>4. \A i \in 0..n : i # 0 => g[i] = e(i, g[i - 1])
    BY <1>6, <2>1, <2>2, <2>3
  <2>5. g[0] = <<<<>>, text>> /\ g = [i \in 0..n |-> g[i]]
    BY <1>7 DEF Follows
  <2> QED BY <2>4, <2>5
<1>9. PICK f : f = CHOOSE h : h = [i \in 0..n |-> IF i = 0 THEN <<<<>>, text>> ELSE e(i, h[i - 1])]
  OBVIOUS
<1>10. f = [i \in 0..n |-> IF i = 0 THEN <<<<>>, text>> ELSE e(i, f[i - 1])]
  BY <1>8, <1>9
<1>11. Pieces(text) = f[n][1]
  BY <1>1, <1>9 DEF Pieces, e
<1>12. Follows(f, n, S, <<<<>>, text>>, s)
  <2>1. f[0] = <<<<>>, text>> /\ f = [i \in 0..n |-> f[i]]
    BY <1>10
  <2>2. \A i \in 1..n : i \in 0..n /\ i # 0
    OBVIOUS
  <2>3. \A i \in 1..n : f[i - 1] \in S => f[i] = s[i][f[i - 1]]
    BY <1>6, <1>10, <2>2
  <2> QED BY <1>3, <1>6, <2>1, <2>3, FollowsAll
<1>13. f \in [0..n -> S] /\ f[0] = <<<<>>, text>>
  BY <1>12 DEF Follows
<1>14. \A i \in 1..n : f[i] = NextPiece(f[i - 1])
  <2>1. \A i \in 1..n : i \in 0..n /\ i # 0
    OBVIOUS
  <2>2. \A i \in 1..n : f[i] = e(i, f[i - 1])
    BY <1>10, <2>1
  <2> QED BY <1>5, <2>2
<1>15. CutsOf(text, f)
  BY <1>1, <1>2, <1>13, <1>14 DEF CutsOf
<1> QED
  BY <1>1, <1>11, <1>15

\* Once nothing is left the pieces stay what they are.
LEMMA PiecesAre ==
    ASSUME NEW text \in Seq(Nat), NEW m \in Nat, m <= Len(text), NEW g,
           g[0] = <<<<>>, text>>, \A i \in 1..m : g[i] = NextPiece(g[i - 1]),
           NextPiece(g[m]) = g[m]
    PROVE  Pieces(text) = g[m][1]
<1>1. PICK n \in Nat : n = Len(text)
  OBVIOUS
<1>2. PICK f : CutsOf(text, f) /\ Pieces(text) = f[n][1]
  BY <1>1, PiecesRuns
<1>3. f[0] = <<<<>>, text>> /\ \A i \in 1..n : f[i] = NextPiece(f[i - 1])
  BY <1>1, <1>2 DEF CutsOf
<1> DEFINE T == {i \in Nat : i <= n => f[i] = IF i <= m THEN g[i] ELSE g[m]}
<1>4. 0 \in T
  <2>1. 0 <= m /\ 0 \in Nat
    OBVIOUS
  <2>2. f[0] = g[0]
    BY <1>3
  <2> QED BY <2>1, <2>2
<1>5. ASSUME NEW i \in Nat, i \in T PROVE i + 1 \in T
  <2>1. SUFFICES ASSUME i + 1 <= n PROVE f[i + 1] = IF i + 1 <= m THEN g[i + 1] ELSE g[m]
    OBVIOUS
  <2>2. i <= n /\ i + 1 \in 1..n /\ (i + 1) - 1 = i
    BY SMTT(40), <2>1
  <2>3. f[i + 1] = NextPiece(f[i])
    BY <1>3, <2>2
  <2>4. f[i] = IF i <= m THEN g[i] ELSE g[m]
    BY <1>5, <2>2
  <2>5. CASE i + 1 <= m
    <3>1. i <= m /\ i + 1 \in 1..m
      BY <2>5
    <3>2. g[i + 1] = NextPiece(g[i])
      BY <2>2, <3>1
    <3> QED BY <2>3, <2>4, <2>5, <3>1, <3>2
  <2>6. CASE ~(i + 1 <= m)
    <3>1. i = m \/ ~(i <= m)
      BY <2>6
    <3>2. f[i] = g[m]
      BY <2>4, <3>1
    <3> QED BY <2>3, <2>6, <3>2
  <2> QED BY <2>5, <2>6
<1> HIDE DEF T
<1>6. Nat \subseteq T
  BY <1>4, <1>5, NatSet
<1>7. f[n] = IF n <= m THEN g[n] ELSE g[m]
  BY <1>6 DEF T
<1>8. n <= m => n = m
  BY <1>1
<1> QED BY <1>2, <1>7, <1>8

\* A piece behind spaces.
LEMMA PieceTaken ==
    ASSUME NEW ps, NEW sp \in Seq(Nat), NEW p \in Seq(Nat), NEW rest \in Seq(Nat),
           AllIn(sp, Spaces), AllIn(p, Letter), p # <<>>, BeginsOutside(rest, Letter)
    PROVE  NextPiece(<<ps, sp \o (p \o rest)>>) = <<Append(ps, p), rest>>
<1>1. p \o rest \in Seq(Nat)
  BY ConcatProperties
<1>2. BeginsOutside(p \o rest, Spaces)
  <2>1. PICK n \in Nat : n = Len(p) /\ n # 0
    BY EmptySeq
  <2>2. 1 \in 1..Len(p)
    BY <2>1
  <2>3. (p \o rest)[1] = p[1]
    BY <2>2, CatIs
  <2>4. p[1] \notin Spaces
    BY <2>2 DEF AllIn, Letter
  <2> QED BY <2>3, <2>4 DEF BeginsOutside
<1>3. Behind(sp \o (p \o rest), Spaces) = p \o rest
  BY <1>1, <1>2, CutAt
<1>4. Leading(p \o rest, Letter) = p /\ Behind(p \o rest, Letter) = rest
  BY CutAt
<1>5. p \o rest # <<>>
  <2>1. Len(p \o rest) = Len(p) + Len(rest)
    BY CatIs
  <2>2. PICK a \in Nat, b \in Nat : a = Len(p) /\ b = Len(rest) /\ a # 0
    BY EmptySeq
  <2>3. a + b # 0
    BY <2>2
  <2> QED BY <2>1, <2>2, <2>3
<1>6. PICK y, x : y = sp \o (p \o rest) /\ x = <<ps, y>>
  OBVIOUS
<1>7. x[1] = ps /\ x[2] = y
  BY <1>6, PairHas
<1>8. NextPiece(x) = TakePiece(ps, p \o rest)
  BY <1>3, <1>5, <1>6, <1>7 DEF NextPiece
<1> QED BY <1>4, <1>6, <1>8 DEF TakePiece

\* Nothing but spaces.
LEMMA PiecesEnd ==
    ASSUME NEW ps, NEW sp \in Seq(Nat), AllIn(sp, Spaces)
    PROVE  NextPiece(<<ps, sp>>) = <<ps, sp>> /\ BeginsOutside(sp, Letter)
<1>1. <<>> \in Seq(Nat) /\ BeginsOutside(<<>>, Spaces)
  BY DEF BeginsOutside
<1>2. sp \o <<>> = sp
  BY ConcatEmptySeq
<1>3. Behind(sp, Spaces) = <<>>
  BY <1>1, <1>2, CutAt
<1>4. PICK x : x = <<ps, sp>>
  OBVIOUS
<1>5. NextPiece(x) = x
  <2>1. x[2] = sp
    BY <1>4, PairHas
  <2> QED BY <1>3, <2>1 DEF NextPiece
<1>6. BeginsOutside(sp, Letter)
  <2>1. sp # <<>> => sp[1] \in Spaces
    <3>1. ASSUME sp # <<>> PROVE 1 \in 1..Len(sp)
      <4>1. PICK n \in Nat : n = Len(sp) /\ n # 0
        BY <3>1, EmptySeq
      <4> QED BY <4>1
    <3> QED BY <3>1 DEF AllIn
  <2> QED BY <2>1 DEF BeginsOutside, Letter
<1> QED BY <1>4, <1>5, <1>6

\* A text without spaces inside is one piece, which is never a key in words.
LEMMA OnePiece ==
    ASSUME NEW before \in Seq(Nat), NEW p \in Seq(Nat), NEW after \in Seq(Nat),
           AllIn(before, Spaces), AllIn(p, Letter), p # <<>>, AllIn(after, Spaces)
    PROVE  /\ Pieces(before \o (p \o after)) = <<p>>
           /\ eng2key(before \o (p \o after)) = [rc |-> -1]
<1>1. PICK text : text = before \o (p \o after)
  OBVIOUS
<1>2. p \o after \in Seq(Nat) /\ Len(p \o after) = Len(p) + Len(after)
  BY CatIs
<1>3. text \in Seq(Nat) /\ Len(text) = Len(before) + Len(p \o after)
  BY <1>1, <1>2, CatIs
<1>4. 1 <= Len(text)
  <2>1. PICK a \in Nat, b \in Nat, c \in Nat : a = Len(before) /\ b = Len(p) /\ c = Len(after) /\ b # 0
    BY EmptySeq
  <2>2. 1 <= a + (b + c)
    BY <2>1
  <2> QED BY <1>2, <1>3, <2>1, <2>2
<1>5. PICK z : z = <<>>
  OBVIOUS
<1>6. PICK g : g = [i \in 0..1 |-> IF i = 0 THEN <<z, text>> ELSE <<Append(z, p), after>>]
  OBVIOUS
<1>7. g[0] = <<z, text>> /\ g[1] = <<Append(z, p), after>>
  BY <1>6
<1>8. NextPiece(g[0]) = g[1]
  <2>1. BeginsOutside(after, Letter)
    BY PiecesEnd
  <2>2. NextPiece(<<z, before \o (p \o after)>>) = <<Append(z, p), after>>
    BY ZenonT(40), <2>1, PieceTaken
  <2> QED BY <1>1, <1>7, <2>2
<1>9. NextPiece(g[1]) = g[1]
  BY <1>7, PiecesEnd
<1>10. Pieces(text) = g[1][1]
  <2>1. PICK m \in Nat : m = 1
    OBVIOUS
  <2>2. \A i \in 1..m : g[i] = NextPiece(g[i - 1])
    BY <1>8, <2>1
  <2>3. m <= Len(text) /\ NextPiece(g[m]) = g[m] /\ g[0] = <<<<>>, text>>
    BY <1>4, <1>5, <1>7, <1>9, <2>1
  <2>4. text \in Seq(Nat)
    BY <1>3
  <2>5. Pieces(text) = g[m][1]
    BY <2>2, <2>3, <2>4, PiecesAre
  <2> QED BY <2>1, <2>5
<1>11. g[1][1] = <<p>>
  <2>1. Append(<<>>, p) = <<p>>
    OBVIOUS
  <2> QED BY <1>5, <1>7, <2>1
<1>12. Pieces(text) = <<p>>
  BY <1>10, <1>11
<1>13. eng2key(text) = [rc |-> -1]
  <2>1. Len(<<p>>) # 12
    OBVIOUS
  <2> QED BY <1>12, <2>1 DEF eng2key, FromPieces
<1> QED BY <1>1, <1>12, <1>13

LEMMA HeadPart ==
    ASSUME NEW E, NEW s \in Seq(E), NEW a \in 1..Len(s)
    PROVE  /\ s[a] \in E /\ SubSeq(s, a + 1, Len(s)) \in Seq(E)
           /\ SubSeq(s, a, Len(s)) = <<s[a]>> \o SubSeq(s, a + 1, Len(s))
<1>1. PICK n \in Nat : n = Len(s) /\ a \in Nat /\ 1 <= a /\ a <= n
  OBVIOUS
<1>2. PICK b : b = a + 1
  OBVIOUS
<1>3. b \in 1..(n + 1) /\ n \in (b - 1)..n /\ a \in 1..(n + 1) /\ n \in (a - 1)..n
  BY <1>1, <1>2
<1>4. PICK r : r = SubSeq(s, b, n)
  OBVIOUS
<1>5. r \in Seq(E) /\ Len(r) = (n + 1) - b /\ \A i \in 1..((n + 1) - b) : r[i] = s[(b - 1) + i]
  BY SMTT(40), <1>1, <1>3, <1>4, PartIs
<1>6. PICK h : h = <<s[a]>>
  OBVIOUS
<1>7. s[a] \in E
  BY ElementOfSeq
<1>8. h \in Seq(E) /\ Len(h) = 1 /\ h[1] = s[a]
  BY <1>6, <1>7, OneIs
<1>9. PICK t : t = h \o r
  OBVIOUS
<1>10. /\ t \in Seq(E) /\ Len(t) = Len(h) + Len(r)
       /\ \A i \in 1..Len(h) : t[i] = h[i]
       /\ \A i \in 1..Len(r) : t[Len(h) + i] = r[i]
  <2>1. h \in Seq(E) /\ r \in Seq(E)
    BY <1>5, <1>8
  <2> QED BY <1>9, <2>1, CatIs
<1>11. Len(t) = (n + 1) - a
  <2>1. 1 + ((n + 1) - b) = (n + 1) - a
    BY <1>1, <1>2
  <2> QED BY <1>5, <1>8, <1>10, <2>1
<1>12. ASSUME NEW i \in 1..Len(t) PROVE s[(a - 1) + i] = t[i]
  <2>1. i \in 1..((n + 1) - a)
    BY <1>11
  <2>2. CASE i = 1
    <3>1. (a - 1) + 1 = a
      BY <1>1
    <3>2. t[1] = h[1]
      BY <1>8, <1>10
    <3> QED BY <1>8, <2>2, <3>1, <3>2
  <2>3. CASE i # 1
    <3>1. PICK j : j = i - 1
      OBVIOUS
    <3>2. j \in 1..((n + 1) - b) /\ 1 + j = i /\ (b - 1) + j = (a - 1) + i
      BY <1>1, <1>2, <2>1, <2>3, <3>1
    <3>3. t[1 + j] = r[j]
      BY <1>5, <1>8, <1>10, <3>2
    <3>4. r[j] = s[(b - 1) + j]
      BY <1>5, <3>2
    <3> QED BY <3>2, <3>3, <3>4
  <2> QED BY <2>2, <2>3
<1>13. SubSeq(s, a, n) = t
  BY <1>1, <1>3, <1>10, <1>11, <1>12, PartEq
<1> QED BY <1>1, <1>2, <1>4, <1>5, <1>6, <1>7, <1>9, <1>13

LEMMA WholePart ==
    ASSUME NEW E, NEW s \in Seq(E)
    PROVE  SubSeq(s, 1, Len(s)) = s /\ SubSeq(s, Len(s) + 1, Len(s)) = <<>>
<1>1. PICK n \in Nat : n = Len(s)
  OBVIOUS
<1>2. 1 \in 1..(n + 1) /\ n \in (1 - 1)..n /\ n + 1 \in 1..(n + 1) /\ n \in ((n + 1) - 1)..n
  OBVIOUS
<1>3. SubSeq(s, 1, n) = s
  <2>1. n = (n + 1) - 1 /\ \A i \in 1..n : (1 - 1) + i = i
    OBVIOUS
  <2> QED BY <1>1, <1>2, <2>1, PartEq
<1>4. PICK e : e = SubSeq(s, n + 1, n)
  OBVIOUS
<1>5. e \in Seq(E) /\ Len(e) = (n + 1) - (n + 1)
  BY <1>1, <1>2, <1>4, PartIs
<1>6. (n + 1) - (n + 1) = 0
  OBVIOUS
<1>7. e = <<>>
  BY <1>5, <1>6, EmptySeq
<1> QED BY <1>1, <1>3, <1>4, <1>7

\* A text of n words with a space between every two.
Spaced(t, n) ==
    /\ t \in Seq(Nat) /\ Len(t) = (2 * n) - 1
    /\ \A k \in 1..n : t[(2 * k) - 1] \in Letter
    /\ \A k \in 1..(n - 1) : t[2 * k] = Space

FirstWords(t, j) == [k \in 1..j |-> <<t[(2 * k) - 1]>>]

\* What is left of such a text behind its j-th word.
LeftOf(t, after, j) == SubSeq(t, 2 * j, Len(t)) \o after

LeftFrom(n, t, after, j) ==
    IF j = n THEN LeftOf(t, after, j) = after
    ELSE LeftOf(t, after, j) = <<Space>> \o (<<t[(2 * (j + 1)) - 1]>> \o LeftOf(t, after, j + 1))

LEMMA LeftIs ==
    ASSUME NEW n \in Nat, NEW t, Spaced(t, n), NEW after \in Seq(Nat), AllIn(after, Spaces),
           NEW j \in 1..n
    PROVE  /\ LeftOf(t, after, j) \in Seq(Nat)
           /\ BeginsOutside(LeftOf(t, after, j), Letter)
           /\ LeftFrom(n, t, after, j)
<1>1. t \in Seq(Nat)
  BY DEF Spaced
<1>2. PICK m \in Nat : m = Len(t) /\ m = (2 * n) - 1
  BY <1>1 DEF Spaced
<1>3. CASE j = n
  <2>1. 2 * j = m + 1
    BY <1>2, <1>3
  <2>2. SubSeq(t, m + 1, m) = <<>>
    BY <1>1, <1>2, WholePart
  <2>3. <<>> \o after = after
    BY ConcatEmptySeq
  <2>4. LeftOf(t, after, j) = after
    BY <1>2, <2>1, <2>2, <2>3 DEF LeftOf
  <2>5. BeginsOutside(after, Letter)
    BY PiecesEnd
  <2>6. LeftFrom(n, t, after, j)
    BY <1>3, <2>4 DEF LeftFrom
  <2> QED BY <2>4, <2>5, <2>6
<1>4. CASE j # n
  <2>1. PICK a : a = 2 * j
    OBVIOUS
  <2>2. /\ a \in 1..m /\ a + 1 \in 1..m /\ a + 1 = (2 * (j + 1)) - 1 /\ (a + 1) + 1 = 2 * (j + 1)
        /\ j \in 1..(n - 1)
    BY <1>2, <1>4, <2>1
  <2>3. PICK u, v : u = SubSeq(t, a + 1, m) /\ v = SubSeq(t, (a + 1) + 1, m)
    OBVIOUS
  <2>4. u \in Seq(Nat) /\ SubSeq(t, a, m) = <<t[a]>> \o u /\ t[a] \in Nat
    BY <1>1, <1>2, <2>2, <2>3, HeadPart
  <2>5. v \in Seq(Nat) /\ u = <<t[a + 1]>> \o v /\ t[a + 1] \in Nat
    BY <1>1, <1>2, <2>2, <2>3, HeadPart
  <2>6. t[a] = Space
    BY <2>1, <2>2 DEF Spaced
  <2>7. PICK x, y : x = <<t[a]>> /\ y = <<t[a + 1]>>
    OBVIOUS
  <2>8. x \in Seq(Nat) /\ y \in Seq(Nat) /\ Len(x) = 1 /\ x[1] = t[a]
    BY <2>4, <2>5, <2>7, OneIs
  <2>9. y \o v \in Seq(Nat) /\ v \o after \in Seq(Nat)
    BY <2>5, <2>8, ConcatProperties
  <2>10. (x \o (y \o v)) \o after = x \o ((y \o v) \o after)
    <3>1. PICK q \in Seq(Nat) : q = y \o v
      BY <2>9
    <3>2. x \in Seq(Nat)
      BY <2>8
    <3>3. (x \o q) \o after = x \o (q \o after)
      BY SMTT(40), <3>2, ConcatAssociative
    <3> QED BY <3>1, <3>3
  <2>11. (y \o v) \o after = y \o (v \o after)
    <3>1. y \in Seq(Nat) /\ v \in Seq(Nat)
      BY <2>5, <2>8
    <3> QED BY SMTT(40), <3>1, ConcatAssociative
  <2>12. LeftOf(t, after, j) = x \o (y \o (v \o after))
    BY <1>2, <2>1, <2>4, <2>5, <2>7, <2>10, <2>11 DEF LeftOf
  <2>13. LeftOf(t, after, j + 1) = v \o after
    BY <1>2, <2>2, <2>3 DEF LeftOf
  <2>14. y \o (v \o after) \in Seq(Nat)
    BY <2>8, <2>9, ConcatProperties
  <2>15. LeftOf(t, after, j) \in Seq(Nat) /\ LeftOf(t, after, j)[1] = x[1]
    <3>1. 1 \in 1..Len(x)
      BY <2>8
    <3>2. PICK z \in Seq(Nat) : z = y \o (v \o after)
      BY <2>14
    <3>3. x \in Seq(Nat)
      BY <2>8
    <3>4. x \o z \in Seq(Nat) /\ (x \o z)[1] = x[1]
      BY <3>1, <3>3, CatIs
    <3> QED BY <2>12, <3>2, <3>4
  <2>16. x[1] \notin Letter
    BY <2>6, <2>8 DEF Letter, Spaces
  <2>17. BeginsOutside(LeftOf(t, after, j), Letter)
    BY <2>15, <2>16 DEF BeginsOutside
  <2>18. LeftFrom(n, t, after, j)
    BY <1>4, <2>2, <2>6, <2>7, <2>12, <2>13 DEF LeftFrom
  <2> QED BY <2>15, <2>17, <2>18
<1> QED BY <1>3, <1>4

\* The first word stands behind the spaces in front of the text.
LEMMA FirstIs ==
    ASSUME NEW n \in Nat, n # 0, NEW t, Spaced(t, n), NEW after \in Seq(Nat)
    PROVE  t \o after = <<t[1]>> \o LeftOf(t, after, 1)
<1>1. t \in Seq(Nat)
  BY DEF Spaced
<1>2. PICK m \in Nat : m = Len(t) /\ m = (2 * n) - 1
  BY <1>1 DEF Spaced
<1>3. 1 \in 1..m /\ 1 + 1 = 2 * 1
  BY <1>2
<1>4. PICK u : u = SubSeq(t, 1 + 1, m)
  OBVIOUS
<1>5. u \in Seq(Nat) /\ SubSeq(t, 1, m) = <<t[1]>> \o u /\ t[1] \in Nat
  BY <1>1, <1>2, <1>3, <1>4, HeadPart
<1>6. SubSeq(t, 1, m) = t
  BY <1>1, <1>2, WholePart
<1>7. PICK x : x = <<t[1]>> /\ x \in Seq(Nat)
  BY <1>5, OneIs
<1>8. (x \o u) \o after = x \o (u \o after)
  BY SMTT(40), <1>5, <1>7, ConcatAssociative
<1>9. LeftOf(t, after, 1) = u \o after
  BY <1>2, <1>3, <1>4 DEF LeftOf
<1> QED BY <1>5, <1>6, <1>7, <1>8, <1>9

\* Its words are its pieces.
LEMMA SpacedPieces ==
    ASSUME NEW n \in Nat, n # 0, NEW t, Spaced(t, n), NEW before \in Seq(Nat), AllIn(before, Spaces),
           NEW after \in Seq(Nat), AllIn(after, Spaces)
    PROVE  Pieces(before \o (t \o after)) = FirstWords(t, n)
<1>1. t \in Seq(Nat)
  BY DEF Spaced
<1>2. PICK text : text = before \o (t \o after)
  OBVIOUS
<1>3. text \in Seq(Nat) /\ n <= Len(text)
  <2>1. t \o after \in Seq(Nat) /\ Len(t \o after) = Len(t) + Len(after)
    BY <1>1, CatIs
  <2>2. text \in Seq(Nat) /\ Len(text) = Len(before) + Len(t \o after)
    BY <1>2, <2>1, CatIs
  <2>3. PICK a \in Nat, b \in Nat, c \in Nat : a = Len(before) /\ b = Len(t) /\ c = Len(after)
    BY <1>1
  <2>4. b = (2 * n) - 1
    BY <2>3 DEF Spaced
  <2>5. n <= a + (b + c)
    BY <2>4
  <2> QED BY <2>1, <2>2, <2>3, <2>5
<1> DEFINE G(j) == <<FirstWords(t, j), IF j = 0 THEN text ELSE LeftOf(t, after, j)>>
           g == [j \in 0..n |-> G(j)]
<1>4. ASSUME NEW ps, NEW c \in Letter, NEW sp \in Seq(Nat), AllIn(sp, Spaces),
             NEW rest \in Seq(Nat), BeginsOutside(rest, Letter)
      PROVE  NextPiece(<<ps, sp \o (<<c>> \o rest)>>) = <<Append(ps, <<c>>), rest>>
  <2>1. c \in Nat
    BY DEF Letter
  <2>2. PICK p \in Seq(Nat) : p = <<c>> /\ Len(p) = 1 /\ p[1] = c
    BY <2>1, OneIs
  <2>3. AllIn(p, Letter)
    BY <2>2 DEF AllIn
  <2>4. p # <<>>
    BY <2>2, EmptySeq
  <2>5. NextPiece(<<ps, sp \o (p \o rest)>>) = <<Append(ps, p), rest>>
    BY ZenonT(40), <1>4, <2>3, <2>4, PieceTaken
  <2> QED BY <2>2, <2>5
<1>5. ASSUME NEW j \in Nat
      PROVE  FirstWords(t, j + 1) = Append(FirstWords(t, j), <<t[(2 * (j + 1)) - 1]>>)
  <2>1. PICK h \in Nat : h = j + 1
    OBVIOUS
  <2> DEFINE w(k) == <<t[(2 * k) - 1]>>
  <2>2. FirstWords(t, j) = [k \in 1..j |-> w(k)] /\ FirstWords(t, h) = [k \in 1..h |-> w(k)]
        /\ w(h) = <<t[(2 * (j + 1)) - 1]>>
    BY <2>1 DEF FirstWords
  <2> HIDE DEF w
  <2>3. [k \in 1..h |-> w(k)] = Append([k \in 1..j |-> w(k)], w(h))
    BY <2>1
  <2> QED BY <2>1, <2>2, <2>3
<1>6. ASSUME NEW j \in 0..(n - 1) PROVE NextPiece(G(j)) = G(j + 1)
  <2>1. j \in Nat /\ j + 1 \in 1..n /\ j + 1 # 0
    OBVIOUS
  <2>2. PICK h \in 1..n : h = j + 1 /\ h # 0
    BY <2>1
  <2>3. PICK rest \in Seq(Nat) : rest = LeftOf(t, after, h) /\ BeginsOutside(rest, Letter)
    BY LeftIs
  <2>4. PICK c \in Letter : c = t[(2 * h) - 1]
    BY DEF Spaced
  <2>5. G(h) = <<Append(FirstWords(t, j), <<c>>), rest>>
    BY <1>5, <2>1, <2>2, <2>3, <2>4
  <2>6. CASE j = 0
    <3>1. h = 1 /\ (2 * h) - 1 = 1
      BY <2>2, <2>6
    <3>2. t \o after = <<c>> \o rest
      BY <2>3, <2>4, <3>1, FirstIs
    <3>3. G(j) = <<FirstWords(t, j), before \o (<<c>> \o rest)>>
      BY <1>2, <2>6, <3>2
    <3>4. NextPiece(<<FirstWords(t, j), before \o (<<c>> \o rest)>>) = <<Append(FirstWords(t, j), <<c>>), rest>>
      BY <1>4, <2>3
    <3> QED BY <2>2, <2>5, <3>3, <3>4
  <2>7. CASE j # 0
    <3>1. j \in 1..n /\ j # n
      BY <2>7
    <3>2. LeftOf(t, after, j) = <<Space>> \o (<<c>> \o rest)
      <4>1. j \in 1..n
        BY <3>1
      <4>2. LeftFrom(n, t, after, j)
        BY <4>1, LeftIs
      <4> QED BY <2>2, <2>3, <2>4, <3>1, <4>2 DEF LeftFrom
    <3>3. G(j) = <<FirstWords(t, j), <<Space>> \o (<<c>> \o rest)>>
      BY <2>7, <3>2
    <3>4. Space \in Nat /\ Space \in Spaces
      BY DEF Space, Spaces
    <3>5. PICK sp \in Seq(Nat) : sp = <<Space>> /\ Len(sp) = 1 /\ sp[1] = Space
      BY <3>4, OneIs
    <3>6. AllIn(sp, Spaces)
      BY <3>4, <3>5 DEF AllIn
    <3>7. NextPiece(<<FirstWords(t, j), sp \o (<<c>> \o rest)>>) = <<Append(FirstWords(t, j), <<c>>), rest>>
      BY <1>4, <2>3, <3>6
    <3> QED BY <2>2, <2>5, <3>3, <3>5, <3>7
  <2> QED BY <2>6, <2>7
<1>7. NextPiece(G(n)) = G(n)
  <2>1. n \in 1..n
    OBVIOUS
  <2>2. LeftOf(t, after, n) = after
    <3>1. PICK j \in 1..n : j = n
      BY <2>1
    <3>2. LeftFrom(n, t, after, j)
      BY LeftIs
    <3> QED BY <3>1, <3>2 DEF LeftFrom
  <2>3. G(n) = <<FirstWords(t, n), after>>
    BY <2>2
  <2> QED BY <2>3, PiecesEnd
<1>8. G(0) = <<<<>>, text>> /\ G(n)[1] = FirstWords(t, n)
  <2>1. FirstWords(t, 0) = <<>>
    BY DEF FirstWords
  <2> QED BY <2>1, PairHas
<1> HIDE DEF G
<1>9. /\ g[0] = <<<<>>, text>> /\ NextPiece(g[n]) = g[n] /\ g[n][1] = FirstWords(t, n)
      /\ \A i \in 1..n : g[i] = NextPiece(g[i - 1])
  <2>1. g[0] = G(0) /\ g[n] = G(n)
    OBVIOUS
  <2>2. ASSUME NEW i \in 1..n PROVE g[i] = NextPiece(g[i - 1])
    <3>1. PICK j \in 0..(n - 1) : j = i - 1 /\ j + 1 = i /\ j \in 0..n
      OBVIOUS
    <3>2. g[i] = G(i) /\ g[j] = G(j)
      BY <3>1
    <3> QED BY <1>6, <3>1, <3>2
  <2> QED BY <1>7, <1>8, <2>1, <2>2
<1> HIDE DEF g
<1>10. Pieces(text) = g[n][1]
  BY <1>3, <1>9, PiecesAre
<1> QED BY <1>2, <1>9, <1>10

-------------------------------------------------------------------------------
(* A key as twelve words.                                                  *)

LEMMA WordsIs ==
    ASSUME NEW bits \in Bits66
    PROVE  /\ Words(bits) \in Seq(Nat) /\ Len(Words(bits)) = 11
           /\ \A k \in 1..6 : /\ Words(bits)[(2 * k) - 1] = pcDict(NumberAt(bits, k))
                              /\ pcDict(NumberAt(bits, k)) \in Letter
           /\ \A k \in 1..5 : Words(bits)[2 * k] = Space
<1>1. ASSUME NEW k \in 1..6 PROVE pcDict(NumberAt(bits, k)) \in Letter
  <2>1. NumberAt(bits, k) \in WordNumbers
    BY NumbersBack
  <2>2. pcDict(NumberAt(bits, k)) \in Nat /\ pcDict(NumberAt(bits, k)) >= 1000
    BY <2>1, WordIs
  <2>3. PICK c \in Nat : c = pcDict(NumberAt(bits, k)) /\ c >= 1000
    BY <2>2
  <2>4. c \notin Spaces
    BY <2>3 DEF Spaces, Space, NewLine, CarriageReturn
  <2> QED BY <2>3, <2>4 DEF Letter
<1> DEFINE w(i) == IF i % 2 = 0 THEN Space ELSE pcDict(extract(bits, 11 * (i \div 2), 11))
<1>2. ASSUME NEW k \in 1..6 PROVE w((2 * k) - 1) = pcDict(NumberAt(bits, k))
  <2>1. PICK i : i = (2 * k) - 1
    OBVIOUS
  <2>2. i % 2 = 1 /\ i \div 2 = k - 1
    BY <2>1
  <2> QED BY <2>1, <2>2 DEF NumberAt
<1>3. ASSUME NEW k \in 1..5 PROVE w(2 * k) = Space
  <2>1. (2 * k) % 2 = 0
    OBVIOUS
  <2> QED BY <2>1
<1>4. Words(bits) = [i \in 1..11 |-> w(i)]
  BY DEF Words
<1> HIDE DEF w
<1>5. ASSUME NEW i \in 1..11 PROVE w(i) \in Nat
  <2>1. (\E k \in 1..6 : i = (2 * k) - 1) \/ (\E k \in 1..5 : i = 2 * k)
    <3>1. PICK q, r : q = i \div 2 /\ r = i % 2
      OBVIOUS
    <3>2. i = 2 * q + r /\ r \in 0..1 /\ q \in 0..5
      BY <3>1
    <3>3. CASE r = 0
      <4>1. q \in 1..5 /\ i = 2 * q
        BY <3>2, <3>3
      <4> QED BY <4>1
    <3>4. CASE r = 1
      <4>1. q + 1 \in 1..6 /\ i = (2 * (q + 1)) - 1
        BY <3>2, <3>4
      <4> QED BY <4>1
    <3> QED BY <3>2, <3>3, <3>4
  <2>2. CASE \E k \in 1..6 : i = (2 * k) - 1
    <3>1. PICK k \in 1..6 : i = (2 * k) - 1
      BY <2>2
    <3> QED BY <1>1, <1>2, <3>1 DEF Letter
  <2>3. CASE \E k \in 1..5 : i = 2 * k
    <3>1. Space \in Nat
      BY DEF Space
    <3> QED BY <1>3, <2>3, <3>1
  <2> QED BY <2>1, <2>2, <2>3
<1>6. Words(bits) \in Seq(Nat) /\ Len(Words(bits)) = 11
  BY <1>4, <1>5
<1>7. ASSUME NEW k \in 1..6
      PROVE  Words(bits)[(2 * k) - 1] = pcDict(NumberAt(bits, k)) /\ pcDict(NumberAt(bits, k)) \in Letter
  <2>1. PICK i \in 1..11 : i = (2 * k) - 1
    OBVIOUS
  <2>2. Words(bits)[i] = w(i)
    BY <1>4
  <2> QED BY <1>1, <1>2, <2>1, <2>2
<1>8. ASSUME NEW k \in 1..5 PROVE Words(bits)[2 * k] = Space
  <2>1. PICK i \in 1..11 : i = 2 * k
    OBVIOUS
  <2>2. Words(bits)[i] = w(i)
    BY <1>4
  <2> QED BY <1>3, <2>1, <2>2
<1> QED BY <1>6, <1>7, <1>8

Sixteen == {bytes \in Seq(Byte) : Len(bytes) = 16}

BitsOfHalf(bytes, half) ==
    BitsOfEight(IF half = 1 THEN SubSeq(bytes, 1, 8) ELSE SubSeq(bytes, 9, 16))

LEMMA HalvesAre ==
    ASSUME NEW bytes \in Sixteen
    PROVE  /\ SubSeq(bytes, 1, 8) \in Eight /\ SubSeq(bytes, 9, 16) \in Eight
           /\ SubSeq(bytes, 1, 8) \o SubSeq(bytes, 9, 16) = bytes
<1>1. bytes \in Seq(Byte)
  BY DEF Sixteen
<1>2. PICK n \in Nat : n = Len(bytes) /\ n = 16
  BY <1>1 DEF Sixteen
<1>3. PICK a, b : a = SubSeq(bytes, 1, 8) /\ b = SubSeq(bytes, 9, n)
  OBVIOUS
<1>4. 1 \in 1..(n + 1) /\ 8 \in (1 - 1)..n /\ 9 \in 1..(n + 1) /\ n \in (9 - 1)..n
  BY <1>2
<1>5. a \in Seq(Byte) /\ Len(a) = (8 + 1) - 1 /\ \A i \in 1..((8 + 1) - 1) : a[i] = bytes[(1 - 1) + i]
  <2>1. PICK p \in 1..(n + 1) : p = 1
    BY <1>4
  <2>2. PICK q \in (p - 1)..n : q = 8
    BY <1>4, <2>1
  <2>3. /\ SubSeq(bytes, p, q) \in Seq(Byte) /\ Len(SubSeq(bytes, p, q)) = (q + 1) - p
        /\ \A i \in 1..((q + 1) - p) : SubSeq(bytes, p, q)[i] = bytes[(p - 1) + i]
    <3>1. p \in 1..(Len(bytes) + 1) /\ q \in (p - 1)..Len(bytes)
      BY <1>2
    <3> QED BY <1>1, <3>1, PartIs
  <2> QED BY <1>3, <2>1, <2>2, <2>3
<1>6. b \in Seq(Byte) /\ Len(b) = (n + 1) - 9 /\ \A i \in 1..((n + 1) - 9) : b[i] = bytes[(9 - 1) + i]
  <2>1. PICK p \in 1..(n + 1) : p = 9
    BY <1>4
  <2>2. PICK q \in (p - 1)..n : q = n
    BY <1>4, <2>1
  <2>3. /\ SubSeq(bytes, p, q) \in Seq(Byte) /\ Len(SubSeq(bytes, p, q)) = (q + 1) - p
        /\ \A i \in 1..((q + 1) - p) : SubSeq(bytes, p, q)[i] = bytes[(p - 1) + i]
    <3>1. p \in 1..(Len(bytes) + 1) /\ q \in (p - 1)..Len(bytes)
      BY <1>2
    <3> QED BY <1>1, <3>1, PartIs
  <2> QED BY <1>3, <2>1, <2>2, <2>3
<1>7. (8 + 1) - 1 = 8 /\ (n + 1) - 9 = 8
  BY <1>2
<1>8. a \in Eight /\ b \in Eight
  BY <1>5, <1>6, <1>7 DEF Eight
<1>9. /\ a \o b \in Seq(Byte) /\ Len(a \o b) = Len(a) + Len(b)
      /\ \A i \in 1..Len(a) : (a \o b)[i] = a[i]
      /\ \A i \in 1..Len(b) : (a \o b)[Len(a) + i] = b[i]
  <2>1. a \in Seq(Byte) /\ b \in Seq(Byte)
    BY <1>5, <1>6
  <2> QED BY <2>1, CatIs
<1>10. Len(a) = 8 /\ Len(b) = 8
  BY <1>8 DEF Eight
<1>11. Len(a \o b) = n
  <2>1. 8 + 8 = n
    BY <1>2
  <2> QED BY <1>9, <1>10, <2>1
<1>12. ASSUME NEW i \in 1..n PROVE (a \o b)[i] = bytes[i]
  <2>1. CASE i <= 8
    <3>1. i \in 1..8 /\ (1 - 1) + i = i
      BY <2>1
    <3>2. a[i] = bytes[i]
      BY <1>5, <1>7, <3>1
    <3> QED BY <1>9, <1>10, <3>1, <3>2
  <2>2. CASE ~(i <= 8)
    <3>1. PICK j \in 1..8 : j = i - 8 /\ 8 + j = i /\ (9 - 1) + j = i
      BY <1>2, <2>2
    <3>2. b[j] = bytes[i]
      BY <1>6, <1>7, <3>1
    <3>3. (a \o b)[8 + j] = b[j]
      BY <1>9, <1>10
    <3> QED BY <3>1, <3>2, <3>3
  <2> QED BY <2>1, <2>2
<1>13. a \o b = bytes
  <2>1. PICK c : c = a \o b
    OBVIOUS
  <2>2. c \in Seq(Byte) /\ Len(c) = Len(bytes) /\ \A i \in 1..Len(c) : c[i] = bytes[i]
    BY <1>2, <1>9, <1>11, <1>12, <2>1
  <2> QED BY <1>1, <2>1, <2>2, SeqEqual
<1> QED BY <1>2, <1>3, <1>8, <1>13

LEMMA HalfBits ==
    ASSUME NEW bytes \in Sixteen, NEW half \in 1..2
    PROVE  BitsOfHalf(bytes, half) \in Bits66
BY HalvesAre, EightIs DEF BitsOfHalf

\* The text has the words of one half, then those of the other.
LEMMA KeyTextIs ==
    ASSUME NEW bytes \in Sixteen
    PROVE  /\ Spaced(key2eng(bytes), 12)
           /\ \A k \in 1..6 :
                /\ key2eng(bytes)[(2 * k) - 1] = pcDict(NumberAt(BitsOfHalf(bytes, 1), k))
                /\ key2eng(bytes)[(2 * (6 + k)) - 1] = pcDict(NumberAt(BitsOfHalf(bytes, 2), k))
<1>1. PICK b1 \in Bits66, b2 \in Bits66 : b1 = BitsOfHalf(bytes, 1) /\ b2 = BitsOfHalf(bytes, 2)
  BY HalfBits
<1>2. PICK w1 \in Seq(Nat) : /\ w1 = Words(b1) /\ Len(w1) = 11
                             /\ \A k \in 1..6 : /\ w1[(2 * k) - 1] = pcDict(NumberAt(b1, k))
                                                /\ pcDict(NumberAt(b1, k)) \in Letter
                             /\ \A k \in 1..5 : w1[2 * k] = Space
  BY WordsIs
<1>3. PICK w2 \in Seq(Nat) : /\ w2 = Words(b2) /\ Len(w2) = 11
                             /\ \A k \in 1..6 : /\ w2[(2 * k) - 1] = pcDict(NumberAt(b2, k))
                                                /\ pcDict(NumberAt(b2, k)) \in Letter
                             /\ \A k \in 1..5 : w2[2 * k] = Space
  BY WordsIs
<1>4. PICK sp \in Seq(Nat) : sp = <<Space>> /\ Len(sp) = 1 /\ sp[1] = Space
  <2>1. Space \in Nat
    BY DEF Space
  <2> QED BY <2>1, OneIs
<1>5. PICK u \in Seq(Nat) : u = w1 \o sp
  BY ConcatProperties
<1>6. Len(u) = 12 /\ (\A i \in 1..11 : u[i] = w1[i]) /\ u[12] = Space
  <2>1. /\ Len(u) = Len(w1) + Len(sp)
        /\ \A i \in 1..Len(w1) : u[i] = w1[i]
        /\ \A i \in 1..Len(sp) : u[Len(w1) + i] = sp[i]
    BY <1>5, CatIs
  <2>2. 11 + 1 = 12
    OBVIOUS
  <2>3. Len(u) = 12
    BY <1>2, <1>4, <2>1, <2>2
  <2>4. \A i \in 1..11 : u[i] = w1[i]
    BY <1>2, <2>1
  <2>5. u[11 + 1] = sp[1]
    BY <1>2, <1>4, <2>1
  <2> QED BY <1>4, <2>2, <2>3, <2>4, <2>5
<1>7. PICK t \in Seq(Nat) : t = u \o w2
  BY ConcatProperties
<1>8. Len(t) = 23 /\ (\A i \in 1..12 : t[i] = u[i]) /\ (\A i \in 1..11 : t[12 + i] = w2[i])
  <2>1. /\ Len(t) = Len(u) + Len(w2)
        /\ \A i \in 1..Len(u) : t[i] = u[i]
        /\ \A i \in 1..Len(w2) : t[Len(u) + i] = w2[i]
    BY <1>7, CatIs
  <2>2. 12 + 11 = 23
    OBVIOUS
  <2>3. Len(t) = 23
    BY <1>3, <1>6, <2>1, <2>2
  <2>4. \A i \in 1..12 : t[i] = u[i]
    BY <1>6, <2>1
  <2>5. \A i \in 1..11 : t[12 + i] = w2[i]
    BY <1>3, <1>6, <2>1
  <2> QED BY <2>3, <2>4, <2>5
<1>9. key2eng(bytes) = t
  <2>1. w1 = btoe(SubSeq(bytes, 1, 8)) /\ w2 = btoe(SubSeq(bytes, 9, 16))
    BY <1>1, <1>2, <1>3 DEF btoe, BitsOfHalf, BitsOfEight
  <2> QED BY <1>4, <1>5, <1>7, <2>1 DEF key2eng
<1>10. ASSUME NEW k \in 1..6
       PROVE  /\ t[(2 * k) - 1] = pcDict(NumberAt(b1, k)) /\ t[(2 * k) - 1] \in Letter
              /\ t[(2 * (6 + k)) - 1] = pcDict(NumberAt(b2, k)) /\ t[(2 * (6 + k)) - 1] \in Letter
  <2>1. PICK i \in 1..11 : i = (2 * k) - 1 /\ i \in 1..12 /\ 12 + i = (2 * (6 + k)) - 1
    OBVIOUS
  <2>2. t[i] = w1[i] /\ t[12 + i] = w2[i]
    BY <1>6, <1>8, <2>1
  <2>3. w1[i] = pcDict(NumberAt(b1, k)) /\ w1[i] \in Letter
    BY <1>2, <2>1
  <2>4. w2[i] = pcDict(NumberAt(b2, k)) /\ w2[i] \in Letter
    BY <1>3, <2>1
  <2> QED BY <2>1, <2>2, <2>3, <2>4
<1>11. ASSUME NEW k \in 1..12 PROVE t[(2 * k) - 1] \in Letter
  <2>1. CASE k <= 6
    <3>1. k \in 1..6
      BY <2>1
    <3> QED BY <1>10, <3>1
  <2>2. CASE ~(k <= 6)
    <3>1. PICK j \in 1..6 : k = 6 + j
      <4>1. k - 6 \in 1..6 /\ k = 6 + (k - 6)
        BY <2>2
      <4> QED BY <4>1
    <3> QED BY <1>10, <3>1
  <2> QED BY <2>1, <2>2
<1>12. ASSUME NEW k \in 1..11 PROVE t[2 * k] = Space
  <2>1. CASE k <= 5
    <3>1. PICK i \in 1..11 : i = 2 * k /\ i \in 1..12 /\ k \in 1..5
      BY <2>1
    <3>2. t[i] = w1[i]
      BY <1>6, <1>8, <3>1
    <3>3. w1[2 * k] = Space
      BY <1>2, <3>1
    <3> QED BY <3>1, <3>2, <3>3
  <2>2. CASE k = 6
    <3>1. 2 * k = 12 /\ 12 \in 1..12
      BY <2>2
    <3> QED BY <1>6, <1>8, <3>1
  <2>3. CASE k > 6
    <3>1. PICK j : j = k - 6
      OBVIOUS
    <3>2. j \in 1..5 /\ 2 * j \in 1..11 /\ 12 + (2 * j) = 2 * k
      BY <2>3, <3>1
    <3>3. PICK i \in 1..11 : i = 2 * j
      BY <3>2
    <3>4. t[12 + i] = w2[i]
      BY <1>8
    <3>5. w2[2 * j] = Space
      BY <1>3, <3>2
    <3> QED BY <3>2, <3>3, <3>4, <3>5
  <2> QED BY <2>1, <2>2, <2>3
<1>13. Spaced(t, 12)
  <2>1. (2 * 12) - 1 = 23 /\ 12 - 1 = 11
    OBVIOUS
  <2> QED BY <1>8, <1>11, <1>12, <2>1 DEF Spaced
<1> QED BY <1>1, <1>9, <1>10, <1>13

\* One of its words is the one that is never found.
KeyMissed(bytes) == \E half \in 1..2 : Missed(BitsOfHalf(bytes, half))

\* What key2eng writes, with spaces on either side, eng2key reads as the same
\* key, whatever its sixteen bytes are, unless one of the twelve words is the
\* last of the short ones, which wsrch leaves out: then it reads no key.
THEOREM WordsReadBack ==
    ASSUME NEW bytes \in Sixteen, NEW before \in Seq(Spaces), NEW after \in Seq(Spaces)
    PROVE  eng2key(before \o (key2eng(bytes) \o after)) =
               IF KeyMissed(bytes) THEN [rc |-> 0] ELSE [rc |-> 1, key |-> bytes]
<1>1. before \in Seq(Nat) /\ after \in Seq(Nat) /\ AllIn(before, Spaces) /\ AllIn(after, Spaces)
  <2>1. Spaces \subseteq Nat
    BY SpaceNoDigit
  <2> QED BY <2>1, SeqMonotonic, AllInSeq
<1>2. PICK n \in Nat : n = 12 /\ n # 0
  OBVIOUS
<1>3. PICK t : t = key2eng(bytes) /\ Spaced(t, n)
  BY <1>2, KeyTextIs
<1>4. PICK b1, b2 : b1 = BitsOfHalf(bytes, 1) /\ b2 = BitsOfHalf(bytes, 2)
  OBVIOUS
<1>5. \A k \in 1..6 : /\ t[(2 * k) - 1] = pcDict(NumberAt(b1, k))
                      /\ t[(2 * (6 + k)) - 1] = pcDict(NumberAt(b2, k))
  BY <1>3, <1>4, KeyTextIs
<1>6. PICK ps : ps = FirstWords(t, n)
  OBVIOUS
<1>7. Pieces(before \o (t \o after)) = ps
  BY <1>1, <1>2, <1>3, <1>6, SpacedPieces
<1>8. t \in Seq(Nat) /\ Len(t) = 23 /\ \A k \in 1..n : t[(2 * k) - 1] \in Nat
  <2>1. (2 * 12) - 1 = 23
    OBVIOUS
  <2> QED BY <1>2, <1>3, <2>1 DEF Spaced, Letter
<1>9. ps \in Seq(Seq(Nat)) /\ Len(ps) = n /\ \A k \in 1..n : ps[k] = <<t[(2 * k) - 1]>>
  <2> DEFINE w(k) == <<t[(2 * k) - 1]>>
  <2>1. \A k \in 1..n : w(k) \in Seq(Nat)
    BY <1>8, OneIs
  <2>2. ps = [k \in 1..n |-> w(k)]
    BY <1>6 DEF FirstWords
  <2>3. \A k \in 1..n : w(k) = <<t[(2 * k) - 1]>>
    OBVIOUS
  <2> HIDE DEF w
  <2>4. PICK A : A = Seq(Nat)
    OBVIOUS
  <2>5. ps \in Seq(A) /\ Len(ps) = n
    BY <2>1, <2>2, <2>4
  <2>6. \A k \in 1..n : ps[k] = w(k)
    BY <2>2
  <2> QED BY <2>3, <2>4, <2>5, <2>6
<1>10. SubSeq(ps, 1, 6) = SixWords(b1)
  <2>1. \A i \in 1..6 : i \in 1..n
    BY <1>2
  <2>2. \A i \in 1..6 : ps[i] = <<pcDict(NumberAt(b1, i))>>
    BY <1>5, <1>9, <2>1
  <2>3. SubSeq(ps, 1, 6) = [i \in 1..6 |-> ps[i]]
    BY <1>9
  <2> QED BY <2>2, <2>3 DEF SixWords
<1>11. SubSeq(ps, 7, 12) = SixWords(b2)
  <2>1. \A i \in 1..6 : 6 + i \in 1..n
    BY <1>2
  <2>2. \A i \in 1..6 : ps[6 + i] = <<pcDict(NumberAt(b2, i))>>
    BY <1>5, <1>9, <2>1
  <2>3. SubSeq(ps, 7, 12) = [i \in 1..6 |-> ps[6 + i]]
    BY <1>9
  <2> QED BY <2>2, <2>3 DEF SixWords
<1>12. PICK h1 \in Eight, h2 \in Eight : h1 = SubSeq(bytes, 1, 8) /\ h2 = SubSeq(bytes, 9, 16)
  BY HalvesAre
<1>13. h1 \o h2 = bytes /\ b1 = BitsOfEight(h1) /\ b2 = BitsOfEight(h2)
  BY <1>4, <1>12, HalvesAre DEF BitsOfHalf
<1>14. etob(SixWords(b1)) = IF Missed(b1) THEN [rc |-> 0] ELSE [rc |-> 1, key |-> h1]
  BY <1>13, etobBack
<1>15. etob(SixWords(b2)) = IF Missed(b2) THEN [rc |-> 0] ELSE [rc |-> 1, key |-> h2]
  BY <1>13, etobBack
<1>16. eng2key(before \o (t \o after)) = Halves(etob(SixWords(b1)), etob(SixWords(b2)))
  BY <1>2, <1>7, <1>9, <1>10, <1>11 DEF eng2key, FromPieces
<1>17. KeyMissed(bytes) <=> Missed(b1) \/ Missed(b2)
  <2>1. \A h \in 1..2 : h = 1 \/ h = 2
    OBVIOUS
  <2>2. 1 \in 1..2 /\ 2 \in 1..2
    OBVIOUS
  <2> QED BY <1>4, <2>1, <2>2 DEF KeyMissed
<1>18. PICK r1, r2 : r1 = etob(SixWords(b1)) /\ r2 = etob(SixWords(b2))
  OBVIOUS
<1>19. CASE Missed(b1)
  <2>1. r1 = [rc |-> 0]
    BY <1>14, <1>18, <1>19
  <2>2. Halves(r1, r2) = [rc |-> 0]
    BY <2>1 DEF Halves
  <2> QED BY <1>3, <1>16, <1>17, <1>18, <1>19, <2>2
<1>20. CASE ~Missed(b1) /\ Missed(b2)
  <2>1. r1 = [rc |-> 1, key |-> h1] /\ r2 = [rc |-> 0]
    BY <1>14, <1>15, <1>18, <1>20
  <2>2. Halves(r1, r2) = [rc |-> 0]
    BY <2>1 DEF Halves
  <2> QED BY <1>3, <1>16, <1>17, <1>18, <1>20, <2>2
<1>21. CASE ~Missed(b1) /\ ~Missed(b2)
  <2>1. r1 = [rc |-> 1, key |-> h1] /\ r2 = [rc |-> 1, key |-> h2]
    BY <1>14, <1>15, <1>18, <1>21
  <2>2. Halves(r1, r2) = [rc |-> 1, key |-> h1 \o h2]
    BY <2>1 DEF Halves
  <2> QED BY <1>3, <1>13, <1>16, <1>17, <1>18, <1>21, <2>2
<1> QED BY <1>19, <1>20, <1>21
===============================================================================
